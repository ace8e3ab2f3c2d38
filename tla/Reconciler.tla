----------------------------- MODULE Reconciler -----------------------------
(***************************************************************************)
(* The controller's reconciler: PodCrashReportReconciler.Reconcile, run by *)
(* MaxConcurrentReconciles workers over controller-runtime's work queue.   *)
(*                                                                         *)
(* queue      the keys waiting for a worker (a set: adding is idempotent)  *)
(* delayed    the keys that come back on a timer: RequeueAfter, or the     *)
(*            rate-limited retry of a reconcile that returned an error     *)
(* rec[r]     the reconcile of r; the queue never hands a key to a second  *)
(*            worker, so r has at most one                                 *)
(*              pc       where it is: "idle" when r is not being processed *)
(*              obj      the object Get returned from the cache            *)
(*              payload  the diagnostics the webhook would carry           *)
(*              notified notifiedAt is set                                 *)
(* startedAt  when this controller process was set up, which may be long   *)
(*            before it was given the lease                                *)
(* delivered[r] the payloads the webhook receiver has accepted for r       *)
(* dropped[r]   a NotificationDropped event and its counter exist for r    *)
(* events[r]    how often CrashDetected, with the counters that go with    *)
(*              it, was emitted for r: 0, 1, or 2 for more than once       *)
(***************************************************************************)
EXTENDS ReportStore, FiniteSets

CONSTANTS
  WebhookEnabled,   \* a WebhookSender is configured
  WebhookIncludeLogs,
  MaxConcurrentReconciles,
  diagnosticsGracePeriod,
  webhookRetryWindow,
  MaxFaults,        \* bound on failed status patches
  MaxRestarts       \* bound on controller crashes

ASSUME ReconcilerAssumption ==
  /\ WebhookEnabled \in BOOLEAN /\ WebhookIncludeLogs \in BOOLEAN
  /\ MaxConcurrentReconciles \in Nat \ {0}
  /\ diagnosticsGracePeriod \in Nat /\ webhookRetryWindow \in Nat
  /\ LastStart + diagnosticsGracePeriod <= MaxTime
  /\ LastStart + webhookRetryWindow <= MaxTime
  /\ MaxFaults \in Nat /\ MaxRestarts \in Nat

VARIABLES queue, delayed, rec, startedAt, delivered, dropped, events,
          faults, restarts

workerVars == <<queue, delayed, rec>>
alertVars == <<delivered, dropped, events>>
boundVars == <<faults, restarts>>
reconcilerVars == <<workerVars, startedAt, alertVars, boundVars>>

Idle == [pc |-> "idle", obj |-> NoObject, payload |-> "none", notified |-> FALSE]

ReconcileStates ==
  [pc       : {"idle", "reread", "send", "patch", "emit"},
   obj      : Objects,
   payload  : Diagnostics,
   notified : BOOLEAN]

ReconcilerTypeOK ==
  /\ queue \in SUBSET Reports
  /\ delayed \in SUBSET Reports
  /\ rec \in [Reports -> ReconcileStates]
  /\ startedAt \in Nat
  /\ delivered \in [Reports -> SUBSET Diagnostics]
  /\ dropped \in [Reports -> BOOLEAN]
  /\ events \in [Reports -> 0..2]
  /\ faults \in Nat
  /\ restarts \in Nat

ReconcilerInit ==
  /\ queue = {}
  /\ delayed = {}
  /\ rec = [r \in Reports |-> Idle]
  /\ startedAt = 0
  /\ delivered = [r \in Reports |-> {}]
  /\ dropped = [r \in Reports |-> FALSE]
  /\ events = [r \in Reports |-> 0]
  /\ faults = 0
  /\ restarts = 0

-----------------------------------------------------------------------------

\* An informer event for r also puts r in the work queue.
Observe(r) ==
  /\ Deliver(r)
  /\ queue' = queue \cup {r}
  /\ UNCHANGED <<delayed, rec, startedAt, alertVars, boundVars>>

\* The timer of a delayed key fires.
Requeue(r) ==
  /\ r \in delayed
  /\ delayed' = delayed \ {r}
  /\ queue' = queue \cup {r}
  /\ UNCHANGED <<storeVars, rec, startedAt, alertVars, boundVars>>

\* A worker takes r from the queue.
Takes(r) ==
  /\ r \in queue
  /\ rec[r].pc = "idle"
  /\ Cardinality({s \in Reports : rec[s].pc # "idle"}) < MaxConcurrentReconciles
  /\ queue' = queue \ {r}

\* Variant: no grace period.
AwaitsDiagnostics_never(o) == FALSE

\* The agent has not written the status of o and may still do so.
AwaitsDiagnostics(o) ==
  /\ o.phase = "unset"
  /\ now < o.created + diagnosticsGracePeriod

\* Variant: a report that is not in the cache is an error, and so retried.
ReconcileSkips_retries(r) ==
  /\ Takes(r)
  /\ ~Present(cache[r]) \/ cache[r].phase = "Processed"
  /\ delayed' = IF Present(cache[r]) THEN delayed ELSE delayed \cup {r}
  /\ UNCHANGED <<storeVars, rec, startedAt, alertVars, boundVars>>

\* The report is not in the cache, or it is already processed.
ReconcileSkips(r) ==
  /\ Takes(r)
  /\ ~Present(cache[r]) \/ cache[r].phase = "Processed"
  /\ UNCHANGED <<storeVars, delayed, rec, startedAt, alertVars, boundVars>>

\* The diagnostics are still to come: look again after diagnosticsRequeueAfter.
ReconcileWaits(r) ==
  /\ Takes(r)
  /\ Present(cache[r])
  /\ AwaitsDiagnostics(cache[r])
  /\ delayed' = delayed \cup {r}
  /\ UNCHANGED <<storeVars, rec, startedAt, alertVars, boundVars>>

\* Everything else is processed: notified first, then marked.
ReconcileBegins(r) ==
  LET o == cache[r]
      first == IF ~WebhookEnabled \/ o.notified THEN "patch"
               ELSE IF WebhookIncludeLogs THEN "reread" ELSE "send"
  IN  /\ Takes(r)
      /\ Present(o)
      /\ o.phase # "Processed"
      /\ ~AwaitsDiagnostics(o)
      /\ rec' = [rec EXCEPT ![r] = [pc |-> first, obj |-> o, payload |-> o.diag,
                                    notified |-> o.notified]]
      /\ UNCHANGED <<storeVars, delayed, startedAt, alertVars, boundVars>>

\* sendWebhook re-reads the report, uncached, for its log lines; if that fails
\* it goes on with what the cache gave it.
Reread(r) ==
  /\ rec[r].pc = "reread"
  /\ \/ /\ Present(server[r])
        /\ rec' = [rec EXCEPT ![r].pc = "send", ![r].payload = server[r].diag]
     \/ rec' = [rec EXCEPT ![r].pc = "send"]
  /\ UNCHANGED <<storeVars, queue, delayed, startedAt, alertVars, boundVars>>

\* The receiver answers 2xx.
SendSucceeds(r) ==
  /\ rec[r].pc = "send"
  /\ delivered' = [delivered EXCEPT ![r] = @ \cup {rec[r].payload}]
  /\ rec' = [rec EXCEPT ![r].pc = "patch", ![r].notified = TRUE]
  /\ UNCHANGED <<storeVars, queue, delayed, startedAt, dropped, events, boundVars>>

webhookDeadline(o) ==
  (IF startedAt > o.created THEN startedAt ELSE o.created) + webhookRetryWindow

\* Variant: giving up is neither counted nor recorded.
SendFails_silent(r) ==
  /\ rec[r].pc = "send"
  /\ IF now < webhookDeadline(rec[r].obj)
       THEN delayed' = delayed \cup {r} /\ rec' = [rec EXCEPT ![r] = Idle]
       ELSE UNCHANGED delayed /\ rec' = [rec EXCEPT ![r].pc = "patch"]
  /\ UNCHANGED <<storeVars, queue, startedAt, alertVars, boundVars>>

\* Variant: notifiedAt is set whether or not the delivery succeeded.
SendFails_notified(r) ==
  /\ rec[r].pc = "send"
  /\ dropped' = [dropped EXCEPT ![r] = TRUE]
  /\ rec' = [rec EXCEPT ![r].pc = "patch", ![r].notified = TRUE]
  /\ UNCHANGED <<storeVars, queue, delayed, startedAt, delivered, events, boundVars>>

\* Send returns an error; the receiver may have accepted the message all the
\* same, when it is the answer that was lost or late.
SendFails(r) ==
  /\ rec[r].pc = "send"
  /\ \/ UNCHANGED delivered
     \/ delivered' = [delivered EXCEPT ![r] = @ \cup {rec[r].payload}]
  /\ IF now < webhookDeadline(rec[r].obj)
       THEN /\ delayed' = delayed \cup {r}
            /\ rec' = [rec EXCEPT ![r] = Idle]
            /\ UNCHANGED dropped
       ELSE /\ dropped' = [dropped EXCEPT ![r] = TRUE]
            /\ rec' = [rec EXCEPT ![r].pc = "patch"]
            /\ UNCHANGED delayed
  /\ UNCHANGED <<storeVars, queue, startedAt, events, boundVars>>

\* Variant: the whole status is written back from the cached copy.
ProcessedObject_whole(r) ==
  [server[r] EXCEPT !.rv = @ + 1, !.phase = "Processed", !.diag = rec[r].obj.diag,
                    !.notified = rec[r].notified]

\* The merge patch of the status: it carries the phase and, when this reconcile
\* notified, notifiedAt. It is not locked and touches no other field.
ProcessedObject(r) ==
  [server[r] EXCEPT !.rv = @ + 1, !.phase = "Processed",
                    !.notified = @ \/ rec[r].notified]

\* Status().Patch succeeds.
MarkProcessed(r) ==
  /\ rec[r].pc = "patch"
  /\ Present(server[r])
  /\ Write(r, ProcessedObject(r))
  /\ rec' = [rec EXCEPT ![r] = [Idle EXCEPT !.pc = "emit"]]
  /\ UNCHANGED <<now, cache, up, queue, delayed, startedAt, alertVars, boundVars>>

\* Variant: the error is not returned, so nothing retries the key.
MarkFails_dropped(r) ==
  /\ rec[r].pc = "patch"
  /\ faults < MaxFaults
  /\ faults' = faults + 1
  /\ rec' = [rec EXCEPT ![r] = Idle]
  /\ UNCHANGED <<storeVars, queue, delayed, startedAt, alertVars, restarts>>

\* Status().Patch returns an error, so the key is retried: the report is gone,
\* or the request fails before or after it took effect.
MarkFails(r) ==
  /\ rec[r].pc = "patch"
  /\ delayed' = delayed \cup {r}
  /\ rec' = [rec EXCEPT ![r] = Idle]
  /\ \/ /\ ~Present(server[r])
        /\ UNCHANGED <<server, watch, faults>>
     \/ /\ Present(server[r])
        /\ faults < MaxFaults
        /\ faults' = faults + 1
        /\ \/ UNCHANGED <<server, watch>>
           \/ Write(r, ProcessedObject(r))
  /\ UNCHANGED <<now, cache, up, queue, startedAt, alertVars, restarts>>

\* The CrashDetected event and the per-report counters.
EmitEvent(r) ==
  /\ rec[r].pc = "emit"
  /\ events' = [events EXCEPT ![r] = IF @ < 2 THEN @ + 1 ELSE 2]
  /\ rec' = [rec EXCEPT ![r] = Idle]
  /\ UNCHANGED <<storeVars, queue, delayed, startedAt, delivered, dropped, boundVars>>

ReconcileStep(r) ==
  \/ ReconcileSkips(r)
  \/ ReconcileWaits(r)
  \/ ReconcileBegins(r)
  \/ Reread(r)
  \/ SendSucceeds(r)
  \/ SendFails(r)
  \/ MarkProcessed(r)
  \/ MarkFails(r)
  \/ EmitEvent(r)

\* The controller process dies, or loses the lease and exits.
ControllerStops ==
  /\ up
  /\ restarts < MaxRestarts
  /\ now <= LastStart
  /\ up' = FALSE
  /\ restarts' = restarts + 1
  /\ watch' = [r \in Reports |-> <<>>]
  /\ cache' = [r \in Reports |-> NoObject]
  /\ queue' = {}
  /\ delayed' = {}
  /\ rec' = [r \in Reports |-> Idle]
  /\ UNCHANGED <<now, server, startedAt, alertVars, faults>>

\* A controller process is given the lease, having been set up some time before: a new
\* process has to wait for the lease of the old one to expire, and a standby was there
\* all the time. The informer lists every report, which puts each of them in the queue.
ControllerStarts ==
  /\ ~up
  /\ up' = TRUE
  /\ startedAt' \in 0..now
  /\ cache' = [r \in Reports |-> IF Present(server[r])
                                   THEN StripCachedLogLines(server[r])
                                   ELSE NoObject]
  /\ queue' = {r \in Reports : Present(server[r])}
  /\ UNCHANGED <<now, server, watch, delayed, rec, alertVars, boundVars>>

ReconcilerNext ==
  \/ ControllerStops
  \/ ControllerStarts
  \/ \E r \in Reports : Observe(r) \/ Requeue(r) \/ ReconcileStep(r)

=============================================================================
