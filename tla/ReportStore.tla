---------------------------- MODULE ReportStore ----------------------------
(***************************************************************************)
(* The PodCrashReport objects, as the API server keeps them and as the     *)
(* controller sees them.                                                   *)
(*                                                                         *)
(* server[r]  the object the API server holds under the generated name r;  *)
(*            a name is never reused                                       *)
(* watch[r]   the versions of r the server has written and the             *)
(*            controller's informer has not received yet, oldest first     *)
(* cache[r]   the version of r in the informer's cache                     *)
(* up         a controller process holds the leader lease and runs         *)
(* now        the clock, in ticks                                          *)
(*                                                                         *)
(* The agent (Reporter), the reconciler (Reconciler) and the garbage       *)
(* collector (GarbageCollector) all extend this module.                    *)
(***************************************************************************)
EXTENDS Naturals, Sequences

CONSTANTS
  Reports,      \* the names the API server may generate
  LastStart,    \* no report is created and no controller starts after this
  MaxTime       \* where the clock stops

ASSUME StoreAssumption == LastStart \in Nat /\ MaxTime \in Nat

VARIABLES now, server, watch, cache, up

storeVars == <<now, server, watch, cache, up>>

(***************************************************************************)
(* Status.Phase is empty, here "unset", until the agent has written the    *)
(* status.                                                                 *)
(* Status.Diagnostics is "none", "bare" (the figures without the captured  *)
(* log lines) or "full".  rv is metadata.resourceVersion.                  *)
(***************************************************************************)
Phases == {"unset", "Pending", "Processed"}

Diagnostics == {"none", "bare", "full"}

Objects == [state    : {"absent", "present", "gone"},
            rv       : Nat,
            phase    : Phases,
            diag     : Diagnostics,
            notified : BOOLEAN,
            created  : Nat]

NoObject == [state |-> "absent", rv |-> 0, phase |-> "unset", diag |-> "none",
             notified |-> FALSE, created |-> 0]

\* What Create leaves on the server: status is a subresource, so it is empty.
FreshObject(t) == [NoObject EXCEPT !.state = "present", !.rv = 1, !.created = t]

Present(o) == o.state = "present"

\* The transform applied as an object enters the informer cache.
StripCachedLogLines(o) ==
  IF o.diag = "full" THEN [o EXCEPT !.diag = "bare"] ELSE o

StoreInit ==
  /\ now = 0
  /\ server = [r \in Reports |-> NoObject]
  /\ watch = [r \in Reports |-> <<>>]
  /\ cache = [r \in Reports |-> NoObject]
  /\ up = TRUE

\* The server stores o as the next version of r and notifies the watch.
Write(r, o) ==
  /\ server' = [server EXCEPT ![r] = o]
  /\ watch' = IF up THEN [watch EXCEPT ![r] = Append(@, o)] ELSE watch

Delete(r) == Write(r, [server[r] EXCEPT !.state = "gone", !.rv = @ + 1])

\* The informer applies the oldest event it has not seen to the cache.
Deliver(r) ==
  /\ up
  /\ watch[r] # <<>>
  /\ cache' = [cache EXCEPT ![r] = StripCachedLogLines(Head(watch[r]))]
  /\ watch' = [watch EXCEPT ![r] = Tail(@)]
  /\ UNCHANGED <<now, server, up>>

\* The clock waits for a controller that is down at LastStart, so that every
\* deadline a report can have lies within MaxTime.
Tick ==
  /\ now < (IF up THEN MaxTime ELSE LastStart)
  /\ now' = now + 1
  /\ UNCHANGED <<server, watch, cache, up>>

\* The report is deleted: with the pod that owns it (--pod-owner-reference), by
\* an operator, or by the garbage collector.
Removed(r) ==
  /\ Present(server[r])
  /\ Delete(r)
  /\ UNCHANGED <<now, cache, up>>

StoreTypeOK ==
  /\ now \in Nat
  /\ server \in [Reports -> Objects]
  /\ watch \in [Reports -> Seq(Objects)]
  /\ cache \in [Reports -> Objects]
  /\ up \in BOOLEAN

=============================================================================
