------------------------------ MODULE OomProbe ------------------------------
(***************************************************************************)
(* The figures of a kill, from the kernel into the report.                 *)
(* kprobe__oom_kill_process writes a record into a slot of the ring, which *)
(* still holds the bytes of an earlier record; the reader in Run converts  *)
(* it to a CrashEvent; CreateCrashReport decides what is published.        *)
(*                                                                         *)
(*   victim[k]   what the kernel knows about the victim of kill k          *)
(*   slot        the memory of the ring; written, taken count its records  *)
(*   event[k]    the CrashEvent of kill k                                  *)
(*   diag[k]     the DiagnosticData of its report                          *)
(*   unsupported the kills UnsupportedKernelEventsTotal counts             *)
(*                                                                         *)
(* Numbers stored in a record are machine words, 0..(WordSize - 1).        *)
(***************************************************************************)
EXTENDS Integers

CONSTANTS
  LastKill,         \* bound on the kills, which are numbered
  Victims,          \* what the probe may find, apart from the numbers
  Layouts,          \* how the kernel may lay out mm_struct: "pre62", "percpu" or "other"
  Skew,             \* how far a batched counter may be from the true count
  RingSlots,
  WordSize,
  pageSize

None == [none |-> TRUE]

ASSUME ProbeAssumption ==
  /\ LastKill \in Nat /\ RingSlots \in Nat \ {0} /\ pageSize \in Nat \ {0}
  /\ Skew \in Nat /\ WordSize \in Nat \ {0}
  /\ Layouts \subseteq {"pre62", "percpu", "other"}
  /\ None \notin Victims
  /\ \A v \in Victims :
       /\ v.sig \in BOOLEAN /\ v.mm \in BOOLEAN /\ v.memcg \in BOOLEAN
       /\ v.chain \in 0..5
       /\ \A c \in {"file", "anon", "shmem", "swap"} : v.delta[c] \in (-Skew)..Skew

\* The memory of a machine, in bytes, is a positive int64: a kill's three resident
\* counters together, each at most LastKill + Skew pages, and the scope's pages.
ASSUME WordAssumption == 2 * (3 * (LastKill + Skew) * pageSize) < WordSize

VARIABLES layout, victim, slot, written, taken, event, diag, unsupported

probeVars == <<layout, victim, slot, written, taken, event, diag, unsupported>>

Kills == 1..LastKill

Counters == {"file", "anon", "shmem", "swap"}

\* The bytes of struct oom_event that depend on the victim.
ZeroRecord ==
  [kill |-> 0, comm |-> <<>>, adj |-> 0, score |-> 0, scope |-> 0, global |-> FALSE, pgtables |-> 0,
   pages |-> [c \in Counters |-> 0], valid |-> FALSE, cgroup |-> 0, name |-> 0]

ProbeInit ==
  /\ layout \in Layouts
  /\ victim = [k \in Kills |-> None]
  /\ slot = [i \in 0..(RingSlots - 1) |-> ZeroRecord]
  /\ written = 0 /\ taken = 0
  /\ event = [k \in Kills |-> None]
  /\ diag = [k \in Kills |-> None]
  /\ unsupported = {}

\* The conversions between long, u64 and int64.
Unsigned(x) == x % WordSize

Signed(w) == IF 2 * w >= WordSize THEN w - WordSize ELSE w

clamp_counter(value) == IF value < 0 THEN 0 ELSE Unsigned(value)

\* The numbers of a victim: kill k's are told from every other kill's by k.
adjOf(k) == -k
scopeOf(k) == 2 * k

\* A counter's true value, and what a read of it may return: it is batched, or
\* transiently wrong while the task is torn down. v.counted are the counters of the
\* victim that are not zero.
trueCount(k, v, c) == IF c \in v.counted THEN k ELSE 0

ReadCount(k, v, c) == trueCount(k, v, c) + v.delta[c]

\* Variant: the reservation is used as it is.
Reserved_stale(old) == old

\* bpf_ringbuf_reserve and the memset after it.
Reserved(old) == ZeroRecord

\* The record of kill k, written over the reservation r. The chain of pointers to
\* the cgroup may end early: the id takes four of them, the name five.
Populated(r, k, v) ==
  LET counted == v.mm /\ layout # "other"
  IN  [r EXCEPT !.kill = k,
                !.comm = v.comm,
                !.adj = IF v.sig THEN adjOf(k) ELSE @,
                !.score = k,
                !.scope = Unsigned(scopeOf(k)),
                !.global = ~v.memcg,
                !.pgtables = IF v.mm THEN Unsigned(k) ELSE @,
                !.pages = IF counted
                            THEN [c \in Counters |-> clamp_counter(ReadCount(k, v, c))]
                            ELSE @,
                !.valid = IF counted THEN TRUE ELSE @,
                !.cgroup = IF v.chain >= 4 THEN k ELSE 0,
                !.name = IF v.chain >= 5 THEN k ELSE @]

\* The kernel kills. When the ring is full the probe returns without a trace.
Kill(k, v) ==
  /\ victim[k] = None
  /\ \A j \in 1..(k - 1) : victim[j] # None
  /\ victim' = [victim EXCEPT ![k] = v]
  /\ IF written - taken < RingSlots
       THEN LET i == written % RingSlots
            IN  /\ slot' = [slot EXCEPT ![i] = Populated(Reserved(slot[i]), k, v)]
                /\ written' = written + 1
       ELSE UNCHANGED <<slot, written>>
  /\ UNCHANGED <<layout, taken, event, diag, unsupported>>

-----------------------------------------------------------------------------

Bytes(pages) == Signed(Unsigned(Signed(pages) * pageSize))

\* The CrashEvent the reader makes of a record.
CrashEvent(r) ==
  LET rss == [c \in Counters |-> Bytes(r.pages[c])]
  IN  [comm |-> r.comm, adj |-> r.adj, score |-> r.score, scope |-> Bytes(r.scope), global |-> r.global,
       container |-> r.name, pgtables |-> Signed(r.pgtables), rss |-> rss,
       victimRSS |-> Signed(Unsigned(rss["anon"] + rss["file"] + rss["shmem"])),
       valid |-> r.valid]

Read ==
  LET r == slot[taken % RingSlots]
  IN  /\ taken < written
      /\ taken' = taken + 1
      /\ event' = [event EXCEPT ![r.kill] = CrashEvent(r)]
      /\ UNCHANGED <<layout, victim, slot, written, diag, unsupported>>

\* The status CreateCrashReport writes. It has no dissection, and no RSS, when the
\* kernel gave no figures.
Diagnostics(e) ==
  [context |-> IF e.global THEN "NodeExhaustion" ELSE "ContainerLimit",
   comm |-> e.comm, adj |-> e.adj, score |-> e.score, scope |-> e.scope,
   victimRSS |-> IF e.valid THEN e.victimRSS ELSE 0,
   dissection |-> IF e.valid THEN <<e.rss, e.pgtables>> ELSE <<>>]

\* handleCrashEvent, as far as the figures are concerned.
Publish(k) ==
  /\ event[k] # None /\ diag[k] = None
  /\ diag' = [diag EXCEPT ![k] = Diagnostics(event[k])]
  /\ unsupported' = IF event[k].valid THEN unsupported ELSE unsupported \cup {k}
  /\ UNCHANGED <<layout, victim, slot, written, taken, event>>

ProbeNext ==
  \/ Read
  \/ \E k \in Kills : Publish(k) \/ \E v \in Victims : Kill(k, v)
=============================================================================
