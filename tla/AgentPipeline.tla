--------------------------- MODULE AgentPipeline ---------------------------
(***************************************************************************)
(* The agent process on one node, Agent.Run: the kernel's ring buffer, the *)
(* reader goroutine with its cooldown, the bounded workers, and the drain  *)
(* at shutdown.                                                            *)
(*                                                                         *)
(* A kill <<c, n>> is the n-th OOM kill of container c.                    *)
(*   fate[k]        what became of kill k (Fates)                          *)
(*   detectedAt[k]  CrashEvent.DetectedAt                                  *)
(*   ring, closed   the ring buffer, and whether its reader was closed     *)
(*   reader, held   where the reader goroutine is, and the kill it holds   *)
(*   last           reportCooldown.last; a container not in it has no entry*)
(*   slots, wg      how many slots are taken, and the wait group's counter *)
(*   worker[k]      the goroutine that handles k                           *)
(*   run            where Agent.Run is, in the main goroutine              *)
(*   waiter         the goroutine that waits for the group                 *)
(***************************************************************************)
EXTENDS Naturals, Sequences, FiniteSets

CONSTANTS
  Containers,
  KillsEach,             \* bound on the kills of one container
  RingSize,              \* kills the ring buffer has room for
  MaxConcurrentReports,
  ReportCooldown,
  MaxTime                \* where the clock stops

ASSUME PipelineAssumption ==
  /\ KillsEach \in Nat /\ RingSize \in Nat \ {0} /\ MaxConcurrentReports \in Nat \ {0}
  /\ ReportCooldown \in Nat /\ MaxTime \in Nat /\ IsFiniteSet(Containers)

VARIABLES now, ring, closed, fate, detectedAt, reader, held, last, slots, wg, worker,
          run, waiter, tracing, ctxDone, drainExpired, watchErrCh, reportCtxDone

kernelVars == <<ring, closed>>
readerVars == <<reader, held, last>>
workVars == <<slots, wg, worker>>
mainVars == <<run, waiter, tracing, drainExpired, reportCtxDone>>
vars == <<now, kernelVars, fate, detectedAt, readerVars, workVars, mainVars, ctxDone, watchErrCh>>

Kills == Containers \X (1..KillsEach)

NoKill == <<>>

\* "lost": the kernel had nowhere to put it. "accepted": past the cooldown.
Fates == {"pending", "lost", "buffered", "read", "suppressed", "accepted",
          "abandoned", "reported", "failed"}

Working == {"handle", "release", "finish"}

PipelineTypeOK ==
  /\ now \in 0..MaxTime
  /\ ring \in Seq(Kills) /\ closed \in BOOLEAN
  /\ fate \in [Kills -> Fates]
  /\ detectedAt \in [Kills -> 0..MaxTime]
  /\ reader \in {"off", "read", "allow", "slot", "add", "done"}
  /\ held \in Kills \cup {NoKill}
  /\ DOMAIN last \subseteq Containers /\ \A c \in DOMAIN last : last[c] \in 0..MaxTime
  /\ slots \in Nat /\ wg \in Nat
  /\ worker \in [Kills -> {"none", "done"} \cup Working]
  /\ run \in {"start", "select", "drainReader", "drainWait", "returned", "failed", "exited"}
  /\ waiter \in {"none", "waiting", "drained"}
  /\ {tracing, ctxDone, drainExpired, watchErrCh, reportCtxDone} \subseteq BOOLEAN

Init ==
  /\ now = 0
  /\ ring = <<>> /\ closed = FALSE
  /\ fate = [k \in Kills |-> "pending"]
  /\ detectedAt = [k \in Kills |-> 0]
  /\ reader = "off" /\ held = NoKill /\ last = <<>>
  /\ slots = 0 /\ wg = 0
  /\ worker = [k \in Kills |-> "none"]
  /\ run = "start" /\ waiter = "none"
  /\ tracing = FALSE /\ ctxDone = FALSE /\ drainExpired = FALSE
  /\ watchErrCh = FALSE /\ reportCtxDone = FALSE

Alive == run # "exited"

-----------------------------------------------------------------------------
\* The kernel: kprobe__oom_kill_process reserves a record, or silently gives up
\* when the ring is full. The probe is attached while Run is between
\* NewOOMTracer and the deferred Close.
OOMKill(k) ==
  /\ fate[k] = "pending"
  /\ \A n \in 1..(k[2] - 1) : fate[<<k[1], n>>] # "pending"
  /\ IF run \in {"select", "drainReader", "drainWait"} /\ Len(ring) < RingSize
       THEN ring' = Append(ring, k) /\ fate' = [fate EXCEPT ![k] = "buffered"]
       ELSE UNCHANGED ring /\ fate' = [fate EXCEPT ![k] = "lost"]
  /\ UNCHANGED <<now, closed, detectedAt, readerVars, workVars, mainVars, ctxDone, watchErrCh>>

Tick ==
  /\ now < MaxTime
  /\ now' = now + 1
  /\ UNCHANGED <<kernelVars, fate, detectedAt, readerVars, workVars, mainVars, ctxDone, watchErrCh>>

\* SIGTERM.
Signal ==
  /\ Alive /\ ~ctxDone
  /\ ctxDone' = TRUE
  /\ UNCHANGED <<now, kernelVars, fate, detectedAt, readerVars, workVars, mainVars, watchErrCh>>

-----------------------------------------------------------------------------
\* The reader goroutine.

\* ReadEvent returns a record. Cancellation alone does not stop it: the read
\* fails only once the ring has been closed.
ReadEvent ==
  /\ Alive /\ reader = "read" /\ ~closed /\ ring # <<>>
  /\ held' = Head(ring) /\ ring' = Tail(ring)
  /\ fate' = [fate EXCEPT ![Head(ring)] = "read"]
  /\ detectedAt' = [detectedAt EXCEPT ![Head(ring)] = now]
  /\ reader' = "allow"
  /\ UNCHANGED <<now, closed, last, workVars, mainVars, ctxDone, watchErrCh>>

\* The AfterFunc that ReadEvent registers closes the ring on cancellation.
CloseRing ==
  /\ Alive /\ reader = "read" /\ ctxDone /\ ~closed
  /\ closed' = TRUE
  /\ UNCHANGED <<now, ring, fate, detectedAt, readerVars, workVars, mainVars, ctxDone, watchErrCh>>

\* ReadEvent fails on the closed ring, which ends the reader quietly;
ReaderStops ==
  /\ Alive /\ reader = "read" /\ closed
  /\ reader' = "done"
  /\ UNCHANGED <<now, kernelVars, fate, detectedAt, held, last, workVars, mainVars, ctxDone, watchErrCh>>

\* any other error is sent to Run first.
ReadFails ==
  /\ Alive /\ reader = "read" /\ ~closed
  /\ watchErrCh' = TRUE
  /\ reader' = "done"
  /\ UNCHANGED <<now, kernelVars, fate, detectedAt, held, last, workVars, mainVars, ctxDone>>

\* Variant: one window for the whole node.
Suppress_nodeWide ==
  /\ Alive /\ reader = "allow"
  /\ ReportCooldown > 0
  /\ \E c \in DOMAIN last : detectedAt[held] < last[c] + ReportCooldown
  /\ fate' = [fate EXCEPT ![held] = "suppressed"]
  /\ held' = NoKill
  /\ reader' = "read"
  /\ UNCHANGED <<now, kernelVars, detectedAt, last, workVars, mainVars, ctxDone, watchErrCh>>

\* reportCooldown.allow says no: a repeat within the window. The instant it
\* compares with is DetectedAt.
Suppress ==
  LET c == held[1]
  IN  /\ Alive /\ reader = "allow"
      /\ ReportCooldown > 0
      /\ c \in DOMAIN last /\ detectedAt[held] < last[c] + ReportCooldown
      /\ fate' = [fate EXCEPT ![held] = "suppressed"]
      /\ held' = NoKill
      /\ reader' = "read"
      /\ UNCHANGED <<now, kernelVars, detectedAt, last, workVars, mainVars, ctxDone, watchErrCh>>

\* Variant: every entry is evicted.
Remembers_nothing(t) == {}

\* Variant: no entry is ever evicted.
Remembers_all(t) == DOMAIN last

\* The entries that survive an admission at t.
Remembers(t) == {d \in DOMAIN last : t < last[d] + ReportCooldown}

\* reportCooldown.allow says yes: entries that have aged out are evicted and the
\* container is recorded, before anything is known of the report.
Allow ==
  LET c == held[1]
      t == detectedAt[held]
  IN  /\ Alive /\ reader = "allow"
      /\ ReportCooldown > 0 /\ c \in DOMAIN last => t >= last[c] + ReportCooldown
      /\ last' = IF ReportCooldown = 0 THEN last
                 ELSE [d \in Remembers(t) \cup {c} |-> IF d = c THEN t ELSE last[d]]
      /\ fate' = [fate EXCEPT ![held] = "accepted"]
      /\ reader' = "slot"
      /\ UNCHANGED <<now, kernelVars, detectedAt, held, workVars, mainVars, ctxDone, watchErrCh>>

\* Variant: the slot is not counted.
TakeSlot_uncounted ==
  /\ Alive /\ reader = "slot"
  /\ reader' = "add"
  /\ UNCHANGED <<now, kernelVars, fate, detectedAt, held, last, workVars, mainVars, ctxDone, watchErrCh>>

\* The select on the semaphore: a slot is free,
TakeSlot ==
  /\ Alive /\ reader = "slot"
  /\ slots < MaxConcurrentReports
  /\ slots' = slots + 1
  /\ reader' = "add"
  /\ UNCHANGED <<now, kernelVars, fate, detectedAt, held, last, wg, worker, mainVars, ctxDone, watchErrCh>>

\* or the agent is shutting down and the kill in hand is given up.
Abandon ==
  /\ Alive /\ reader = "slot" /\ ctxDone
  /\ fate' = [fate EXCEPT ![held] = "abandoned"]
  /\ held' = NoKill
  /\ reader' = "done"
  /\ UNCHANGED <<now, kernelVars, detectedAt, last, workVars, mainVars, ctxDone, watchErrCh>>

\* wg.Add(1), and the goroutine.
Spawn ==
  /\ Alive /\ reader = "add"
  /\ wg' = wg + 1
  /\ worker' = [worker EXCEPT ![held] = "handle"]
  /\ held' = NoKill
  /\ reader' = "read"
  /\ UNCHANGED <<now, kernelVars, fate, detectedAt, last, slots, mainVars, ctxDone, watchErrCh>>

-----------------------------------------------------------------------------
\* A worker: handleCrashEvent writes the report or counts a failure, then the
\* deferred calls free the slot and leave the group, in that order.
handleCrashEvent(k) ==
  /\ Alive /\ worker[k] = "handle"
  /\ worker' = [worker EXCEPT ![k] = "release"]
  /\ \E outcome \in {"reported", "failed"} : fate' = [fate EXCEPT ![k] = outcome]
  /\ UNCHANGED <<now, kernelVars, detectedAt, readerVars, slots, wg, mainVars, ctxDone, watchErrCh>>

\* Variant: the slot is not given back.
ReleaseSlot_leaks(k) ==
  /\ Alive /\ worker[k] = "release"
  /\ worker' = [worker EXCEPT ![k] = "finish"]
  /\ UNCHANGED <<now, kernelVars, fate, detectedAt, readerVars, slots, wg, mainVars, ctxDone, watchErrCh>>

ReleaseSlot(k) ==
  /\ Alive /\ worker[k] = "release"
  /\ worker' = [worker EXCEPT ![k] = "finish"]
  /\ slots' = slots - 1
  /\ UNCHANGED <<now, kernelVars, fate, detectedAt, readerVars, wg, mainVars, ctxDone, watchErrCh>>

WorkerDone(k) ==
  /\ Alive /\ worker[k] = "finish"
  /\ worker' = [worker EXCEPT ![k] = "done"]
  /\ wg' = wg - 1
  /\ UNCHANGED <<now, kernelVars, fate, detectedAt, readerVars, slots, mainVars, ctxDone, watchErrCh>>

-----------------------------------------------------------------------------
\* The main goroutine.

\* The tracer is attached: tracing goes on and the reader starts.
Attach ==
  /\ run = "start"
  /\ run' = "select" /\ tracing' = TRUE /\ reader' = "read"
  /\ UNCHANGED <<now, kernelVars, fate, detectedAt, held, last, workVars, waiter, drainExpired,
                 reportCtxDone, ctxDone, watchErrCh>>

\* cgroups v1, or NewOOMTracer failed.
AttachFails ==
  /\ run = "start"
  /\ run' = "failed"
  /\ UNCHANGED <<now, kernelVars, fate, detectedAt, readerVars, workVars, waiter, tracing,
                 drainExpired, reportCtxDone, ctxDone, watchErrCh>>

\* Run returns: reportCtx is cancelled, tracing goes off and the tracer closes.
Returns(how) ==
  /\ run' = how
  /\ reportCtxDone' = TRUE /\ tracing' = FALSE /\ closed' = TRUE
  /\ UNCHANGED <<now, ring, fate, detectedAt, readerVars, workVars, waiter, drainExpired,
                 ctxDone, watchErrCh>>

WatchFailed == run = "select" /\ watchErrCh /\ Returns("failed")

Moves(from, to) ==
  /\ run = from /\ run' = to
  /\ UNCHANGED <<now, kernelVars, fate, detectedAt, readerVars, workVars, tracing, drainExpired,
                 reportCtxDone, ctxDone, watchErrCh>>

\* Variant: the reports run on the context the signal cancels.
ShutDown_cancels ==
  /\ ctxDone /\ run = "select" /\ run' = "drainReader"
  /\ reportCtxDone' = TRUE
  /\ UNCHANGED <<now, kernelVars, fate, detectedAt, readerVars, workVars, waiter, tracing,
                 drainExpired, ctxDone, watchErrCh>>

ShutDown == ctxDone /\ Moves("select", "drainReader") /\ UNCHANGED waiter

\* drainCtx, armed when the drain begins, may expire at any moment of it.
DrainExpires ==
  /\ run \in {"drainReader", "drainWait"} /\ ~drainExpired
  /\ drainExpired' = TRUE
  /\ UNCHANGED <<now, kernelVars, fate, detectedAt, readerVars, workVars, run, waiter, tracing,
                 reportCtxDone, ctxDone, watchErrCh>>

\* Variant: the group is waited for without waiting for the reader.
StartWait_early == Moves("drainReader", "drainWait") /\ waiter' = "waiting"

\* The reader has stopped, or the drain is over; either way the group is waited
\* for, in a goroutine of its own.
StartWait ==
  /\ reader = "done" \/ drainExpired
  /\ Moves("drainReader", "drainWait")
  /\ waiter' = "waiting"

WaitReturns ==
  /\ Alive /\ waiter = "waiting" /\ wg = 0
  /\ waiter' = "drained"
  /\ UNCHANGED <<now, kernelVars, fate, detectedAt, readerVars, workVars, run, tracing,
                 drainExpired, reportCtxDone, ctxDone, watchErrCh>>

\* Variant: no timeout on the wait.
Drained_unbounded == run = "drainWait" /\ waiter = "drained" /\ Returns("returned")

Drained == run = "drainWait" /\ (waiter = "drained" \/ drainExpired) /\ Returns("returned")

\* runAgent ends, and the process with it.
Exit ==
  /\ run \in {"returned", "failed"}
  /\ run' = "exited"
  /\ UNCHANGED <<now, kernelVars, fate, detectedAt, readerVars, workVars, waiter, tracing,
                 drainExpired, reportCtxDone, ctxDone, watchErrCh>>

\* The process is killed, exits on a second signal, or exits because its manager
\* failed.
Killed ==
  /\ Alive
  /\ run' = "exited"
  /\ UNCHANGED <<now, kernelVars, fate, detectedAt, readerVars, workVars, waiter, tracing,
                 drainExpired, reportCtxDone, ctxDone, watchErrCh>>

-----------------------------------------------------------------------------

Reader == ReadEvent \/ CloseRing \/ ReaderStops \/ Suppress \/ Allow \/ TakeSlot \/ Abandon \/ Spawn

Worker(k) == handleCrashEvent(k) \/ ReleaseSlot(k) \/ WorkerDone(k)

Main ==
  \/ Attach \/ AttachFails \/ WatchFailed \/ ShutDown \/ StartWait \/ Drained \/ Exit

Next ==
  \/ Tick \/ Signal \/ Reader \/ ReadFails \/ Main \/ DrainExpires \/ WaitReturns \/ Killed
  \/ \E k \in Kills : OOMKill(k) \/ Worker(k)

Spec == Init /\ [][Next]_vars

\* The main goroutine runs and its drain timer fires; the reader and the workers may
\* hang for ever.
FairSpec == Spec /\ WF_vars(Main) /\ WF_vars(DrainExpires)

\* The reader runs, and a worker's calls return: its retries are bounded. A read owes
\* no error.
NothingHangs == WF_vars(Reader) /\ \A k \in Kills : WF_vars(Worker(k))

-----------------------------------------------------------------------------

\* The kills allow let through.
Admitted(k) == fate[k] \in {"accepted", "abandoned", "reported", "failed"}

\* Handlers never outnumber the slots, and when nobody holds one, none has leaked:
\* the slots taken are those of the handlers and of the one the reader is about to
\* start (slots in Run, acquired by the reader and released by the worker).
SlotsAccounted ==
  /\ slots <= MaxConcurrentReports
  /\ slots = Cardinality({k \in Kills : worker[k] \in {"handle", "release"}})
               + (IF reader = "add" THEN 1 ELSE 0)

\* The group only grows while nobody waits for it, unless the reader failed to
\* stop within the drain timeout (the comment on wg.Add and wg.Wait in Run).
NoLateAdd ==
  [][wg' > wg /\ waiter # "none" => drainExpired]_vars

\* When Run returns within the drain timeout, every kill it had read is settled:
\* no worker is running, and at most one kill, the one the reader held when the
\* signal came, was given up.
CleanDrain ==
  run = "returned" /\ ~drainExpired =>
    /\ \A k \in Kills : worker[k] \notin Working /\ fate[k] \notin {"read", "accepted"}
    /\ Cardinality({k \in Kills : fate[k] = "abandoned"}) <= 1

\* Reports in flight are cut off only by the drain timeout or a broken tracer:
\* reportCtx outlives the signal (context.WithoutCancel in Run).
ReportsNotCutShort ==
  reportCtxDone /\ (\E k \in Kills : worker[k] = "handle") => drainExpired \/ watchErrCh

\* Two admitted kills of one container are a window apart (reportCooldown.allow),
\* although allow evicts entries of other containers on every admission.
CooldownSpacing ==
  \A c \in Containers : \A m, n \in 1..KillsEach :
    m < n /\ Admitted(<<c, m>>) /\ Admitted(<<c, n>>) =>
      detectedAt[<<c, n>>] >= detectedAt[<<c, m>>] + ReportCooldown

\* A kill is suppressed only in the shadow of an admitted one: same container, less
\* than a window earlier (reportCooldown.allow).
SuppressedIsRepeat ==
  \A c \in Containers : \A n \in 1..KillsEach :
    fate[<<c, n>>] = "suppressed" =>
      \E m \in 1..(n - 1) : /\ Admitted(<<c, m>>)
                            /\ detectedAt[<<c, n>>] < detectedAt[<<c, m>>] + ReportCooldown

\* The cooldown's memory is bounded by what was admitted in one window: no entry is
\* a window older than another (the eviction in reportCooldown.allow).
CooldownEvicts ==
  \A c, d \in DOMAIN last : last[c] < last[d] + ReportCooldown

\* The signal ends the process, whatever the reader and the workers are doing.
ShutdownEnds == ctxDone ~> run = "exited"

\* A kill in the ring is read and settled, however full the slots are, unless the
\* agent stops first (every path of a worker releases its slot).
BufferedIsSettled ==
  NothingHangs =>
    \A k \in Kills :
      fate[k] = "buffered" ~>
        fate[k] \in {"suppressed", "reported", "failed"} \/ ctxDone \/ run = "exited"

=============================================================================
