---------------------------- MODULE KubeAutopsy ----------------------------
(***************************************************************************)
(* The complete system: the life of the reports (ReportLifecycle) with the *)
(* garbage collector that runs in the controller process.                  *)
(***************************************************************************)
EXTENDS ReportLifecycle, GarbageCollector

\* Every report can expire before the clock stops.
ASSUME SystemAssumption == LastStart + ttl < MaxTime

systemVars == <<vars, gcVars>>

SystemInit == Init /\ CollectorInit

\* Stopping the controller process also ends the collector's pass.
ProcessStops ==
  /\ Stop
  /\ gc' = NoPass
  /\ UNCHANGED trimmedReports

Lives ==
  /\ \/ Agent
     \/ Start
     \/ Clock
     \/ \E r \in Reports : Informer(r) \/ Timer(r) \/ Worker(r) \/ Deletion(r)
  /\ UNCHANGED gcVars

Collector == CollectorNext /\ UNCHANGED <<reporterVars, reconcilerVars>>

SystemNext == ProcessStops \/ Lives \/ Collector

SystemSpec == SystemInit /\ [][SystemNext]_systemVars

\* The controller works, the ticker in Start fires again and again, and a delete that is
\* tried in pass after pass does not fail every time.
SystemFairness ==
  /\ WF_systemVars(Start /\ UNCHANGED gcVars)
  /\ WF_systemVars(Clock /\ UNCHANGED gcVars)
  /\ WF_systemVars(Collector)
  /\ \A r \in Reports :
       /\ WF_systemVars(Informer(r) /\ UNCHANGED gcVars)
       /\ SF_systemVars(Collect(r) /\ UNCHANGED <<reporterVars, reconcilerVars>>)

FairSystemSpec == SystemSpec /\ SystemFairness

-----------------------------------------------------------------------------

\* Every report is deleted in the end, whether or not it was ever alerted: by a pass that
\* reads a stale cache, is cut short when the process stops, starts again under the next
\* leader, and comes back to what it failed to delete (deleteExpiredReports and the loop
\* in Start).
EverythingExpires == \A r \in Reports : Present(server[r]) ~> ~Present(server[r])

=============================================================================
