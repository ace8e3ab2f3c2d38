-------------------------- MODULE ReportLifecycle --------------------------
(***************************************************************************)
(* The life of a crash report across the whole system: the agent that      *)
(* writes it, the controller that notifies and marks it, and Kubernetes    *)
(* between them.  A report may be deleted at any moment, whoever does it;  *)
(* KubeAutopsy adds the garbage collector that does it by rule.            *)
(***************************************************************************)
EXTENDS Reporter, Reconciler

vars == <<storeVars, reporterVars, reconcilerVars>>

Init == StoreInit /\ ReporterInit /\ ReconcilerInit

Agent == ReporterNext /\ UNCHANGED reconcilerVars

Stop == ControllerStops /\ UNCHANGED reporterVars

Start == ControllerStarts /\ UNCHANGED reporterVars

Informer(r) == Observe(r) /\ UNCHANGED reporterVars

Timer(r) == Requeue(r) /\ UNCHANGED reporterVars

Worker(r) == ReconcileStep(r) /\ UNCHANGED reporterVars

Clock == Tick /\ UNCHANGED <<reporterVars, reconcilerVars>>

Deletion(r) == Removed(r) /\ UNCHANGED <<reporterVars, reconcilerVars>>

Next ==
  \/ Agent
  \/ Stop
  \/ Start
  \/ Clock
  \/ \E r \in Reports : Informer(r) \/ Timer(r) \/ Worker(r) \/ Deletion(r)

Spec == Init /\ [][Next]_vars

\* The controller keeps working and time passes; the agent and the receiver
\* owe nothing.
Fairness ==
  /\ WF_vars(Start)
  /\ WF_vars(Clock)
  /\ \A r \in Reports : WF_vars(Informer(r)) /\ WF_vars(Timer(r)) /\ WF_vars(Worker(r))

FairSpec == Spec /\ Fairness

TypeOK ==
  /\ StoreTypeOK
  /\ ReporterTypeOK
  /\ ReconcilerTypeOK

-----------------------------------------------------------------------------

\* Once the controller has marked a report Processed, nothing takes the mark
\* back: an agent whose status write was held up past the grace period loses
\* the race on its optimistic lock (reporter.go, MergeFromWithOptimisticLock).
ProcessedIsFinal ==
  [][\A r \in Reports : server[r].phase = "Processed" => server'[r].phase = "Processed"]_vars

\* Diagnostics, log lines included, and notifiedAt survive every later write,
\* although the controller writes from a cache that is stale and that has the
\* log lines stripped (reconciler.go, MergeFrom).
StatusNeverLost ==
  [][\A r \in Reports :
       /\ server[r].diag = "full" => server'[r].diag = "full"
       /\ server[r].notified => server'[r].notified]_vars

\* At-least-once: a report is marked Processed only after its notification
\* reached the receiver or was recorded as dropped, over crashes of the
\* controller between any two steps (Reconcile sends before it marks).
AlertAccounted ==
  WebhookEnabled =>
    \A r \in Reports :
      server[r].phase = "Processed" => delivered[r] # {} \/ dropped[r]

\* notifiedAt is evidence of a delivery (PodCrashReportStatus.NotifiedAt).
NotifiedMeansDelivered ==
  \A r \in Reports : server[r].notified => delivered[r] # {}

\* No notification without diagnostics and no mark before them leaves the
\* controller while the agent may still be writing: inside the grace period
\* a processed report has its diagnostics (Reconcile on an empty phase).
DiagnosticsFirst ==
  \A r \in Reports :
    Present(server[r]) /\ now < server[r].created + diagnosticsGracePeriod =>
      /\ "none" \notin delivered[r]
      /\ server[r].phase # "unset" => server[r].diag = "full"

\* The inductive invariant behind the properties above, report by report.
\*
\* A version o that anybody holds (the server, the watch or the cache) of a
\* report whose current object is s is sound: it agrees with s on the creation
\* time, its notifiedAt is backed by what the receiver was told, and inside the
\* grace period it has a phase only if the agent's diagnostics have landed.
InGrace(s, t) == t < s.created + diagnosticsGracePeriod

Sound(o, s, told, t) ==
  /\ o.state = "absent" => o = NoObject
  /\ o.state # "absent" => s.state # "absent" /\ o.created = s.created
  /\ o.notified => told # {}
  /\ o.phase # "unset" /\ InGrace(s, t) => o.diag # "none" /\ s.diag = "full"

VersionsSound(r) ==
  /\ Sound(server[r], server[r], delivered[r], now)
  /\ Sound(cache[r], server[r], delivered[r], now)
  /\ \A i \in 1..Len(watch[r]) : Sound(watch[r][i], server[r], delivered[r], now)

\* The server's object against the agent: what Create returned is what the
\* patch is locked on, and a version nobody has written since has no status.
LockSound(r) ==
  /\ writer[r].pc = "create" => server[r] = NoObject
  /\ writer[r].pc = "patch" => writer[r].base = 1
  /\ server[r].state # "absent" => server[r].rv >= 1
  /\ server[r].rv = 1 => /\ server[r].phase = "unset"
                         /\ server[r].diag = "none"
                         /\ ~server[r].notified

\* A reconcile under way, and what it has told the receiver so far.
WorkSound(r) ==
  /\ rec[r].pc \in {"reread", "send", "patch"} =>
       /\ server[r].state # "absent"
       /\ rec[r].obj.created = server[r].created
       /\ InGrace(server[r], now) => rec[r].payload # "none" /\ server[r].diag = "full"
  /\ rec[r].pc \in {"reread", "send"} => WebhookEnabled
  /\ rec[r].notified => delivered[r] # {}
  /\ WebhookEnabled /\ rec[r].pc = "patch" => delivered[r] # {} \/ dropped[r]
  /\ rec[r].pc = "emit" => server[r].phase = "Processed"

OutcomeSound(r) ==
  /\ delivered[r] # {} => server[r].state # "absent"
  /\ "none" \in delivered[r] => ~InGrace(server[r], now)
  /\ WebhookEnabled /\ server[r].phase = "Processed" => delivered[r] # {} \/ dropped[r]
  /\ events[r] > 0 => server[r].phase = "Processed"

ReportSound(r) == VersionsSound(r) /\ LockSound(r) /\ WorkSound(r) /\ OutcomeSound(r)

LifecycleInv == TypeOK /\ \A r \in Reports : ReportSound(r)

\* Every report ends up Processed or deleted, however the agent died and
\* whether or not the webhook ever answers.
EventuallySettled ==
  \A r \in Reports :
    Present(server[r]) ~> (server[r].phase = "Processed" \/ ~Present(server[r]))

\* A deleted report is eventually forgotten for good, whatever was under way when it was
\* deleted: a stale cache lets the reconcile go on, its patch then finds nothing and is
\* retried, until the informer has seen the deletion (IgnoreNotFound in Reconcile).
DeletedIsForgotten ==
  \A r \in Reports :
    server[r].state = "gone" ~> [](r \notin queue \cup delayed /\ rec[r].pc = "idle")

\* The abstract stage of a stored object.
Stage(o) ==
  IF o.state = "present"
    THEN [unset |-> "raw", Pending |-> "diagnosed", Processed |-> "settled"][o.phase]
    ELSE [absent |-> "none", gone |-> "gone"][o.state]

Alert == INSTANCE CrashAlert WITH
  Alerting  <- WebhookEnabled,
  stage     <- [r \in Reports |-> Stage(server[r])],
  accounted <- [r \in Reports |-> delivered[r] # {} \/ dropped[r]]

\* The whole protocol implements CrashAlert: no interleaving of the agent's
\* writes, the cache, the workers and the crashes shows a step CrashAlert
\* does not have, and every open report is alerted and settled.
ImplementsCrashAlert == Alert!AlertSpec

-----------------------------------------------------------------------------

\* integrations.md says each processed crash emits an event.
ProcessedEmitsEvent ==
  \A r \in Reports : server[r].phase = "Processed" ~> events[r] > 0

=============================================================================
