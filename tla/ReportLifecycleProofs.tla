----------------------- MODULE ReportLifecycleProofs -----------------------
(***************************************************************************)
(* Proofs about ReportLifecycle, for every set of reports and every value  *)
(* of the bounds: its types, the inductive invariant, the safety           *)
(* properties that follow from it, and that it implements the safety part  *)
(* of CrashAlert.  The liveness part is left to TLC.                       *)
(***************************************************************************)
EXTENDS ReportLifecycle, TLAPS

USE DEF Present

\* A fresh object and a stripped object are objects.
LEMMA ObjectTyping ==
  /\ NoObject \in Objects
  /\ \A t \in Nat : FreshObject(t) \in Objects
  /\ \A o \in Objects : StripCachedLogLines(o) \in Objects
BY Zenon DEF NoObject, FreshObject, StripCachedLogLines, Objects, Phases, Diagnostics

\* Storing an object as the next version of r keeps the store well typed.
LEMMA WriteTyping ==
  ASSUME StoreTypeOK, NEW r \in Reports, NEW o \in Objects, Write(r, o)
  PROVE  /\ server' \in [Reports -> Objects]
         /\ watch' \in [Reports -> Seq(Objects)]
BY DEF StoreTypeOK, Write

\* The next resourceVersion is a number.
LEMMA NextVersion ==
  ASSUME StoreTypeOK, NEW r \in Reports
  PROVE  server[r] \in Objects /\ server[r].rv + 1 \in Nat
BY DEF StoreTypeOK, Objects

\* Deleting r stores an object.
LEMMA DeleteTyping ==
  ASSUME StoreTypeOK, NEW r \in Reports
  PROVE  [server[r] EXCEPT !.state = "gone", !.rv = @ + 1] \in Objects
<1>1. ASSUME NEW o \in Objects, NEW n \in Nat
      PROVE  [o EXCEPT !.state = "gone", !.rv = n] \in Objects
  BY Zenon DEF Objects
<1>. QED
  BY <1>1, NextVersion, Zenon

\* So does the agent's status patch.
LEMMA StatusTyping ==
  ASSUME StoreTypeOK, NEW r \in Reports
  PROVE  [server[r] EXCEPT !.rv = @ + 1, !.diag = "full", !.phase = "Pending"] \in Objects
<1>1. ASSUME NEW o \in Objects, NEW n \in Nat
      PROVE  [o EXCEPT !.rv = n, !.diag = "full", !.phase = "Pending"] \in Objects
  BY Zenon DEF Objects, Phases, Diagnostics
<1>. QED
  BY <1>1, NextVersion, Zenon

\* And the controller's.
LEMMA ProcessedTyping ==
  ASSUME StoreTypeOK, ReconcilerTypeOK, NEW r \in Reports
  PROVE  ProcessedObject(r) \in Objects
<1>1. ASSUME NEW o \in Objects, NEW n \in Nat, NEW b \in BOOLEAN
      PROVE  [o EXCEPT !.rv = n, !.phase = "Processed", !.notified = b] \in Objects
  BY Zenon DEF Objects, Phases, Diagnostics
<1>2. (server[r].notified \/ rec[r].notified) \in BOOLEAN
  OBVIOUS
<1>. QED
  BY <1>1, <1>2, NextVersion, Zenon DEF ProcessedObject

\* The initial state is well typed.
LEMMA InitTyping == Init => TypeOK
<1>. SUFFICES ASSUME Init PROVE TypeOK
  OBVIOUS
<1>1. StoreTypeOK
  <2>1. now \in Nat /\ up \in BOOLEAN
    BY DEF Init, StoreInit
  <2>2. server \in [Reports -> Objects] /\ cache \in [Reports -> Objects]
    BY ObjectTyping DEF Init, StoreInit
  <2>3. watch \in [Reports -> Seq(Objects)]
    BY DEF Init, StoreInit
  <2>. QED
    BY <2>1, <2>2, <2>3 DEF StoreTypeOK
<1>2. ReporterTypeOK
  <2>1. writer \in [Reports -> WriterStates]
    BY ReporterAssumption DEF Init, ReporterInit, WriterStates
  <2>2. cancelled \in BOOLEAN
    BY Zenon DEF Init, ReporterInit
  <2>. QED
    BY <2>1, <2>2 DEF ReporterTypeOK
<1>3. ReconcilerTypeOK
  <2>1. Idle \in ReconcileStates
    BY ObjectTyping DEF Idle, ReconcileStates, Diagnostics
  <2>2. rec \in [Reports -> ReconcileStates]
    BY <2>1 DEF Init, ReconcilerInit
  <2>3. dropped \in [Reports -> BOOLEAN]
    BY DEF Init, ReconcilerInit
  <2>. QED
    BY <2>2, <2>3 DEF Init, ReconcilerInit, ReconcilerTypeOK
<1>. QED
  BY <1>1, <1>2, <1>3 DEF TypeOK

-----------------------------------------------------------------------------

\* A finished call, and one that has an attempt left, are writer states.
LEMMA WriterTyping ==
  ASSUME ReporterTypeOK, NEW r \in Reports
  PROVE  /\ \A out \in {"ok", "err_create", "err_status", "dead"} :
              Ends(r, out) => writer' \in [Reports -> WriterStates]
         /\ Attempts(r) /\ RetryStatus(r) => writer' \in [Reports -> WriterStates]
<1>1. \A out \in {"ok", "err_create", "err_status", "dead"} : Ended(out) \in WriterStates
  BY ReporterAssumption DEF Ended, WriterStates
<1>2. \A w \in WriterStates :
        w.tries # 1 /\ w.tries # 0 => [w EXCEPT !.tries = @ - 1] \in WriterStates
  BY ReporterAssumption DEF WriterStates
<1>3. writer[r] \in WriterStates /\ writer \in [Reports -> WriterStates]
  BY DEF ReporterTypeOK
<1>4. Attempts(r) => writer[r].tries # 0
  BY DEF Attempts
<1>5. ASSUME Attempts(r), RetryStatus(r) PROVE writer' \in [Reports -> WriterStates]
  <2>1. CASE writer[r].tries = 1
    BY <1>1, <1>3, <1>5, <2>1 DEF RetryStatus, Ends
  <2>2. CASE writer[r].tries # 1
    <3>1. [writer[r] EXCEPT !.tries = @ - 1] \in WriterStates
      BY <1>2, <1>3, <1>4, <1>5, <2>2
    <3>2. writer' = [writer EXCEPT ![r] = [writer[r] EXCEPT !.tries = @ - 1]]
      BY <1>5, <2>2 DEF RetryStatus
    <3>. QED
      BY <1>3, <3>1, <3>2
  <2>. QED
    BY <2>1, <2>2
<1>6. ASSUME NEW out \in {"ok", "err_create", "err_status", "dead"}, Ends(r, out)
      PROVE  writer' \in [Reports -> WriterStates]
  BY <1>1, <1>3, <1>6 DEF Ends
<1>. QED
  BY <1>5, <1>6

\* Every step of the agent is well typed.
LEMMA AgentTyping == TypeOK /\ Agent => TypeOK'
<1>. SUFFICES ASSUME TypeOK, Agent PROVE TypeOK'
  OBVIOUS
<1>1. ReconcilerTypeOK'
  BY DEF TypeOK, Agent, ReconcilerTypeOK, reconcilerVars, workerVars, alertVars, boundVars
<1>2. CASE CancelReports
  <2>1. StoreTypeOK' /\ writer' \in [Reports -> WriterStates] /\ cancelled' \in BOOLEAN
    BY <1>2 DEF TypeOK, CancelReports, storeVars, StoreTypeOK, ReporterTypeOK
  <2>. QED
    BY <1>1, <2>1 DEF TypeOK, ReporterTypeOK
<1>3. CASE AgentDies
  <2>1. Ended("dead") \in WriterStates
    BY ReporterAssumption DEF Ended, WriterStates
  <2>2. writer' \in [Reports -> WriterStates]
    BY <1>3, <2>1 DEF TypeOK, AgentDies, ReporterTypeOK
  <2>3. StoreTypeOK' /\ cancelled' \in BOOLEAN
    BY <1>3 DEF TypeOK, AgentDies, storeVars, StoreTypeOK, ReporterTypeOK
  <2>. QED
    BY <1>1, <2>2, <2>3 DEF TypeOK, ReporterTypeOK
<1>4. ASSUME NEW r \in Reports, ReporterStep(r) PROVE TypeOK'
  <2>. USE DEF TypeOK
  <2>1. cancelled' \in BOOLEAN
    BY <1>4 DEF ReporterStep, Create, CreateFails, PatchStatus, PatchAnswerLost,
                PatchTransient, PatchRefused, PatchCancelled, ReporterTypeOK
  <2>2. CASE Create(r)
    <3>1. [writer[r] EXCEPT !.pc = "patch", !.base = 1] \in WriterStates
      BY Zenon DEF ReporterTypeOK, WriterStates
    <3>2. writer' \in [Reports -> WriterStates]
      BY <2>2, <3>1 DEF Create, ReporterTypeOK
    <3>3. FreshObject(now) \in Objects
      BY ObjectTyping DEF StoreTypeOK
    <3>4. StoreTypeOK'
      BY <2>2, <3>3, WriteTyping DEF Create, StoreTypeOK
    <3>. QED
      BY <1>1, <2>1, <3>2, <3>4 DEF ReporterTypeOK
  <2>3. CASE CreateFails(r)
    <3>1. FreshObject(now) \in Objects
      BY ObjectTyping DEF StoreTypeOK
    <3>2. StoreTypeOK'
      BY <2>3, <3>1, WriteTyping DEF CreateFails, StoreTypeOK
    <3>. QED
      BY <1>1, <2>1, <2>3, <3>2, WriterTyping DEF CreateFails, ReporterTypeOK
  <2>4. CASE PatchStatus(r) \/ PatchAnswerLost(r)
    <3>1. StoreTypeOK'
      BY <2>4, StatusTyping, WriteTyping, Zenon
         DEF PatchStatus, PatchAnswerLost, WriteStatus, StoreTypeOK
    <3>. QED
      BY <1>1, <2>1, <2>4, <3>1, WriterTyping
         DEF PatchStatus, PatchAnswerLost, ReporterTypeOK
  <2>5. CASE PatchTransient(r) \/ PatchRefused(r) \/ PatchCancelled(r)
    <3>1. StoreTypeOK'
      BY <2>5 DEF PatchTransient, PatchRefused, PatchCancelled, storeVars, StoreTypeOK
    <3>. QED
      BY <1>1, <2>1, <2>5, <3>1, WriterTyping
         DEF PatchTransient, PatchRefused, PatchCancelled, ReporterTypeOK
  <2>. QED
    BY <1>4, <2>2, <2>3, <2>4, <2>5 DEF ReporterStep
<1>. QED
  BY <1>2, <1>3, <1>4 DEF Agent, ReporterNext

-----------------------------------------------------------------------------

\* A step of one reconcile leaves a well-typed rec if it gives r a state.
LEMMA RecTyping ==
  ASSUME ReconcilerTypeOK, NEW r \in Reports, NEW x \in ReconcileStates,
         rec' = [rec EXCEPT ![r] = x]
  PROVE  rec' \in [Reports -> ReconcileStates]
BY DEF ReconcilerTypeOK

\* The states a reconcile of r moves to.
LEMMA RecStates ==
  ASSUME StoreTypeOK, ReconcilerTypeOK, NEW r \in Reports
  PROVE  /\ Idle \in ReconcileStates
         /\ [Idle EXCEPT !.pc = "emit"] \in ReconcileStates
         /\ [rec[r] EXCEPT !.pc = "patch"] \in ReconcileStates
         /\ [rec[r] EXCEPT !.pc = "send"] \in ReconcileStates
         /\ [rec[r] EXCEPT !.pc = "patch", !.notified = TRUE] \in ReconcileStates
         /\ [rec[r] EXCEPT !.pc = "send", !.payload = server[r].diag] \in ReconcileStates
<1>1. Idle \in ReconcileStates
  BY ObjectTyping DEF Idle, ReconcileStates, Diagnostics
<1>2. ASSUME NEW x \in ReconcileStates, NEW pc \in {"emit", "patch", "send"},
             NEW d \in Diagnostics
      PROVE  /\ [x EXCEPT !.pc = pc] \in ReconcileStates
             /\ [x EXCEPT !.pc = pc, !.notified = TRUE] \in ReconcileStates
             /\ [x EXCEPT !.pc = pc, !.payload = d] \in ReconcileStates
  BY Zenon DEF ReconcileStates
<1>3. rec[r] \in ReconcileStates /\ server[r].diag \in Diagnostics
  BY DEF StoreTypeOK, ReconcilerTypeOK, Objects
<1>. QED
  BY <1>1, <1>2, <1>3, Zenon

\* Every step of a worker is well typed.
LEMMA WorkerTyping == ASSUME TypeOK, NEW r \in Reports, Worker(r) PROVE TypeOK'
<1>. USE DEF TypeOK
<1>1. ReporterTypeOK'
  BY DEF Worker, reporterVars, ReporterTypeOK
<1>2. CASE ReconcileSkips(r) \/ ReconcileWaits(r)
  BY <1>1, <1>2 DEF ReconcileSkips, ReconcileWaits, Takes, storeVars, alertVars, boundVars,
                    StoreTypeOK, ReconcilerTypeOK
<1>3. CASE ReconcileBegins(r)
  <2>1. ASSUME NEW o \in Objects, NEW pc \in {"patch", "reread", "send"}
        PROVE  [pc |-> pc, obj |-> o, payload |-> o.diag, notified |-> o.notified]
                 \in ReconcileStates
    BY DEF ReconcileStates, Objects
  <2>2. \E pc \in {"patch", "reread", "send"} :
          rec' = [rec EXCEPT ![r] = [pc |-> pc, obj |-> cache[r], payload |-> cache[r].diag,
                                     notified |-> cache[r].notified]]
    BY <1>3, Zenon DEF ReconcileBegins
  <2>3. rec' \in [Reports -> ReconcileStates]
    BY <2>1, <2>2, RecTyping, Zenon DEF StoreTypeOK
  <2>. QED
    BY <1>1, <1>3, <2>3 DEF ReconcileBegins, Takes, storeVars, alertVars, boundVars,
                            StoreTypeOK, ReconcilerTypeOK
<1>4. CASE Reread(r)
  <2>1. rec' \in [Reports -> ReconcileStates]
    BY <1>4, RecStates, Zenon DEF Reread, ReconcilerTypeOK
  <2>. QED
    BY <1>1, <1>4, <2>1 DEF Reread, storeVars, alertVars, boundVars, StoreTypeOK, ReconcilerTypeOK
<1>5. CASE SendSucceeds(r)
  <2>1. rec' \in [Reports -> ReconcileStates]
    BY <1>5, RecStates, Zenon DEF SendSucceeds, ReconcilerTypeOK
  <2>2. delivered' \in [Reports -> SUBSET Diagnostics]
    BY <1>5 DEF SendSucceeds, ReconcilerTypeOK, ReconcileStates
  <2>. QED
    BY <1>1, <1>5, <2>1, <2>2 DEF SendSucceeds, storeVars, boundVars, StoreTypeOK, ReconcilerTypeOK
<1>6. CASE SendFails(r)
  <2>1. rec' \in [Reports -> ReconcileStates]
    BY <1>6, RecStates, ZenonT(30) DEF SendFails, ReconcilerTypeOK
  <2>2. delivered' \in [Reports -> SUBSET Diagnostics]
    BY <1>6 DEF SendFails, ReconcilerTypeOK, ReconcileStates
  <2>3. dropped' \in [Reports -> BOOLEAN]
    <3>1. dropped' = dropped \/ dropped' = [dropped EXCEPT ![r] = TRUE]
      BY <1>6 DEF SendFails
    <3>2. dropped \in [Reports -> BOOLEAN]
      BY DEF ReconcilerTypeOK
    <3>. QED
      BY <3>1, <3>2, Zenon
  <2>4. delayed' \in SUBSET Reports
    BY <1>6 DEF SendFails, ReconcilerTypeOK
  <2>. QED
    BY <1>1, <1>6, <2>1, <2>2, <2>3, <2>4
       DEF SendFails, storeVars, boundVars, StoreTypeOK, ReconcilerTypeOK
<1>7. CASE MarkProcessed(r)
  <2>1. rec' \in [Reports -> ReconcileStates]
    BY <1>7, RecStates, Zenon DEF MarkProcessed, ReconcilerTypeOK
  <2>2. StoreTypeOK'
    BY <1>7, ProcessedTyping, WriteTyping DEF MarkProcessed, StoreTypeOK
  <2>. QED
    BY <1>1, <1>7, <2>1, <2>2 DEF MarkProcessed, alertVars, boundVars, ReconcilerTypeOK
<1>8. CASE MarkFails(r)
  <2>1. rec' \in [Reports -> ReconcileStates]
    BY <1>8, RecStates, Zenon DEF MarkFails, ReconcilerTypeOK
  <2>2. StoreTypeOK'
    BY <1>8, ProcessedTyping, WriteTyping DEF MarkFails, StoreTypeOK
  <2>3. faults' \in Nat
    BY <1>8 DEF MarkFails, ReconcilerTypeOK
  <2>. QED
    BY <1>1, <1>8, <2>1, <2>2, <2>3 DEF MarkFails, alertVars, ReconcilerTypeOK
<1>9. CASE EmitEvent(r)
  <2>1. rec' \in [Reports -> ReconcileStates]
    BY <1>9, RecStates, Zenon DEF EmitEvent, ReconcilerTypeOK
  <2>2. events' \in [Reports -> 0..2]
    BY <1>9 DEF EmitEvent, ReconcilerTypeOK
  <2>. QED
    BY <1>1, <1>9, <2>1, <2>2 DEF EmitEvent, storeVars, boundVars, StoreTypeOK, ReconcilerTypeOK
<1>. QED
  BY <1>2, <1>3, <1>4, <1>5, <1>6, <1>7, <1>8, <1>9 DEF Worker, ReconcileStep

\* The controller process may stop and start.
LEMMA RestartTyping == ASSUME TypeOK, Stop \/ Start PROVE TypeOK'
<1>. USE DEF TypeOK
<1>1. ReporterTypeOK'
  BY DEF Stop, Start, reporterVars, ReporterTypeOK
<1>2. CASE Stop
  <2>0. up' \in BOOLEAN
    BY <1>2, Zenon DEF Stop, ControllerStops
  <2>1. watch' \in [Reports -> Seq(Objects)]
    BY <1>2 DEF Stop, ControllerStops
  <2>2. cache' \in [Reports -> Objects]
    BY <1>2, ObjectTyping DEF Stop, ControllerStops
  <2>3. Idle \in ReconcileStates
    BY ObjectTyping DEF Idle, ReconcileStates, Diagnostics
  <2>4. rec' \in [Reports -> ReconcileStates]
    BY <1>2, <2>3 DEF Stop, ControllerStops
  <2>5. restarts' \in Nat
    BY <1>2 DEF Stop, ControllerStops, ReconcilerTypeOK
  <2>6. StoreTypeOK'
    BY <1>2, <2>0, <2>1, <2>2 DEF Stop, ControllerStops, StoreTypeOK
  <2>. QED
    BY <1>1, <1>2, <2>4, <2>5, <2>6 DEF Stop, ControllerStops, alertVars, ReconcilerTypeOK
<1>3. CASE Start
  <2>1. cache' \in [Reports -> Objects]
    BY <1>3, ObjectTyping DEF Start, ControllerStarts, StoreTypeOK
  <2>2. queue' \in SUBSET Reports /\ up' \in BOOLEAN
    BY <1>3 DEF Start, ControllerStarts
  <2>. QED
    BY <1>1, <1>3, <2>1, <2>2
       DEF Start, ControllerStarts, alertVars, boundVars, StoreTypeOK, ReconcilerTypeOK
<1>. QED
  BY <1>2, <1>3

\* The informer, the timers, the clock and the deletions.
LEMMA SurroundingsTyping ==
  ASSUME TypeOK, Clock \/ \E r \in Reports : Informer(r) \/ Timer(r) \/ Deletion(r)
  PROVE  TypeOK'
<1>. USE DEF TypeOK
<1>1. ReporterTypeOK'
  BY DEF Clock, Informer, Timer, Deletion, reporterVars, ReporterTypeOK
<1>2. CASE Clock
  <2>1. ReconcilerTypeOK'
    BY <1>2 DEF Clock, reconcilerVars, workerVars, alertVars, boundVars, ReconcilerTypeOK
  <2>2. StoreTypeOK'
    BY <1>2 DEF Clock, Tick, StoreTypeOK
  <2>. QED
    BY <1>1, <2>1, <2>2
<1>3. ASSUME NEW r \in Reports, Informer(r) PROVE TypeOK'
  <2>1. watch[r] \in Seq(Objects) /\ watch[r] # <<>>
    BY <1>3 DEF Informer, Observe, Deliver, StoreTypeOK
  <2>2. Head(watch[r]) \in Objects /\ Tail(watch[r]) \in Seq(Objects)
    BY <2>1
  <2>3. cache' \in [Reports -> Objects]
    BY <1>3, <2>2, ObjectTyping DEF Informer, Observe, Deliver, StoreTypeOK
  <2>4. watch' \in [Reports -> Seq(Objects)]
    BY <1>3, <2>2 DEF Informer, Observe, Deliver, StoreTypeOK
  <2>. QED
    BY <1>1, <1>3, <2>3, <2>4
       DEF Informer, Observe, Deliver, alertVars, boundVars, StoreTypeOK, ReconcilerTypeOK
<1>4. ASSUME NEW r \in Reports, Timer(r) PROVE TypeOK'
  BY <1>1, <1>4 DEF Timer, Requeue, storeVars, alertVars, boundVars, StoreTypeOK, ReconcilerTypeOK
<1>5. ASSUME NEW r \in Reports, Deletion(r) PROVE TypeOK'
  <2>1. StoreTypeOK'
    BY <1>5, DeleteTyping, WriteTyping, Zenon DEF Deletion, Removed, Delete, StoreTypeOK
  <2>2. ReconcilerTypeOK'
    BY <1>5 DEF Deletion, reconcilerVars, workerVars, alertVars, boundVars, ReconcilerTypeOK
  <2>. QED
    BY <1>1, <2>1, <2>2
<1>. QED
  BY <1>2, <1>3, <1>4, <1>5

\* Every step is well typed.
LEMMA NextTyping == TypeOK /\ [Next]_vars => TypeOK'
<1>1. ASSUME TypeOK, UNCHANGED vars PROVE TypeOK'
  BY <1>1 DEF vars, storeVars, reporterVars, reconcilerVars, workerVars, alertVars, boundVars,
              TypeOK, StoreTypeOK, ReporterTypeOK, ReconcilerTypeOK
<1>. QED
  BY <1>1, AgentTyping, WorkerTyping, RestartTyping, SurroundingsTyping DEF Next

\* Type correctness of the whole lifecycle: the agent's writer states, the
\* stored, watched and cached objects, the queue and the reconciles.
THEOREM TypeCorrect == Spec => []TypeOK
BY InitTyping, NextTyping, PTL DEF Spec

-----------------------------------------------------------------------------
\* The inductive invariant, and the safety properties that follow from it.

\* What a step may do to the object s, to what the receiver was told and to the
\* time, so that every version somebody still holds stays sound.
Advances(s, s2, told, told2, t, t2) ==
  /\ s.state # "absent" => s2.state # "absent" /\ s2.created = s.created
  /\ s.diag = "full" => s2.diag = "full"
  /\ told # {} => told2 # {}
  /\ t <= t2

\* A version that is sound stays sound.
LEMMA SoundStable ==
  ASSUME NEW o \in Objects, NEW s \in Objects, NEW s2 \in Objects, NEW told, NEW told2,
         NEW t \in Nat, NEW t2 \in Nat,
         Advances(s, s2, told, told2, t, t2), Sound(o, s, told, t)
  PROVE  Sound(o, s2, told2, t2)
<1>1. CASE o.state = "absent"
  <2>1. o = NoObject
    BY <1>1 DEF Sound
  <2>2. o.notified = FALSE /\ o.phase = "unset"
    BY <2>1 DEF NoObject
  <2>. QED
    BY <1>1, <2>1, <2>2 DEF Sound
<1>2. CASE o.state # "absent"
  <2>1. s2.state # "absent" /\ s2.created = s.created /\ o.created = s2.created
    BY <1>2 DEF Sound, Advances
  <2>2. InGrace(s2, t2) => InGrace(s, t)
    BY <2>1, ReconcilerAssumption DEF Advances, InGrace, Objects
  <2>. QED
    BY <1>2, <2>1, <2>2 DEF Sound, Advances
<1>. QED
  BY <1>1, <1>2

\* The steps of r that advance its object.
Advancing(r) == Advances(server[r], server[r]', delivered[r], delivered[r]', now, now')

\* Versions of r that are in the watch or in the cache stay sound.
LEMMA VersionsStable ==
  ASSUME TypeOK, TypeOK', NEW r \in Reports, VersionsSound(r), Advancing(r)
  PROVE  /\ Sound(server[r], server[r]', delivered[r]', now')
         /\ Sound(cache[r], server[r]', delivered[r]', now')
         /\ \A i \in 1..Len(watch[r]) : Sound(watch[r][i], server[r]', delivered[r]', now')
<1>1. /\ server[r] \in Objects /\ server[r]' \in Objects /\ cache[r] \in Objects
      /\ now \in Nat /\ now' \in Nat
      /\ \A i \in 1..Len(watch[r]) : watch[r][i] \in Objects
  BY DEF TypeOK, StoreTypeOK
<1>. QED
  BY <1>1, SoundStable DEF VersionsSound, Advancing

\* A step that stores a sound object as the next version of r.
LEMMA WriteSound ==
  ASSUME TypeOK, TypeOK', NEW r \in Reports, VersionsSound(r), Advancing(r),
         NEW o \in Objects, Write(r, o), UNCHANGED cache,
         Sound(o, o, delivered[r]', now')
  PROVE  VersionsSound(r)'
<1>1. server[r]' = o /\ cache[r]' = cache[r]
  BY DEF Write, TypeOK, StoreTypeOK
<1>2. \A i \in 1..Len(watch[r]') : watch[r]'[i] = o \/ (i \in 1..Len(watch[r]) /\ watch[r]'[i] = watch[r][i])
  BY DEF Write, TypeOK, StoreTypeOK
<1>. QED
  BY <1>1, <1>2, VersionsStable DEF VersionsSound

\* A step that leaves the three copies of r alone.
LEMMA KeepSound ==
  ASSUME TypeOK, TypeOK', NEW r \in Reports, VersionsSound(r), Advancing(r),
         UNCHANGED <<server[r], cache[r], watch[r]>>
  PROVE  VersionsSound(r)'
BY VersionsStable DEF VersionsSound

\* A step that changes nothing about r.
LEMMA Untouched ==
  ASSUME NEW r \in Reports, ReportSound(r), UNCHANGED <<now, server[r], cache[r], watch[r],
         writer[r], rec[r], delivered[r], dropped[r], events[r]>>
  PROVE  ReportSound(r)'
<1>1. VersionsSound(r)'
  BY DEF ReportSound, VersionsSound
<1>2. LockSound(r)'
  BY DEF ReportSound, LockSound
<1>3. WorkSound(r)'
  BY DEF ReportSound, WorkSound
<1>4. OutcomeSound(r)'
  BY DEF ReportSound, OutcomeSound
<1>. QED
  BY <1>1, <1>2, <1>3, <1>4 DEF ReportSound

-----------------------------------------------------------------------------

\* The fields of an object that does not exist, of a fresh one and of a
\* reconcile that is not under way.
LEMMA Fields ==
  /\ NoObject.state = "absent" /\ NoObject.rv = 0 /\ NoObject.phase = "unset"
  /\ NoObject.diag = "none" /\ NoObject.notified = FALSE /\ NoObject.created = 0
  /\ Idle.pc = "idle" /\ Idle.notified = FALSE
BY DEF NoObject, Idle

\* Nothing is known of a report that does not exist.
LEMMA InitSound == Init => LifecycleInv
<1>. SUFFICES ASSUME Init, NEW r \in Reports PROVE ReportSound(r)
  BY InitTyping DEF LifecycleInv
<1>1. /\ server[r] = NoObject /\ cache[r] = NoObject /\ watch[r] = <<>>
      /\ delivered[r] = {} /\ rec[r] = Idle /\ events[r] = 0
      /\ writer[r].pc = "create"
  BY DEF Init, StoreInit, ReporterInit, ReconcilerInit
<1>4. VersionsSound(r)
  BY <1>1, Fields DEF VersionsSound, Sound
<1>5. LockSound(r)
  BY <1>1, Fields DEF LockSound
<1>6. WorkSound(r)
  BY <1>1, Fields DEF WorkSound
<1>7. OutcomeSound(r)
  BY <1>1, Fields DEF OutcomeSound
<1>. QED
  BY <1>4, <1>5, <1>6, <1>7 DEF ReportSound

\* The agent's writes, each of them a new version of r.
LEMMA CreateSound ==
  ASSUME LifecycleInv, TypeOK', NEW r \in Reports, Create(r) \/ CreateFails(r),
         UNCHANGED reconcilerVars
  PROVE  ReportSound(r)'
<1>. DEFINE f == FreshObject(now)
<1>1. /\ TypeOK /\ VersionsSound(r) /\ LockSound(r) /\ WorkSound(r) /\ OutcomeSound(r)
      /\ server[r] = NoObject /\ server[r].state = "absent" /\ now \in Nat
  BY Fields DEF LifecycleInv, ReportSound, Create, CreateFails, LockSound, TypeOK, StoreTypeOK
<1>2. /\ f \in Objects /\ f.phase = "unset" /\ f.diag = "none" /\ f.rv = 1
      /\ f.state = "present" /\ f.created = now /\ f.notified = FALSE
  BY <1>1, ObjectTyping, Zenon DEF FreshObject, NoObject
<1>3. /\ delivered' = delivered /\ dropped' = dropped /\ events' = events /\ rec' = rec
      /\ now' = now /\ cache' = cache
  BY DEF Create, CreateFails, reconcilerVars, workerVars, alertVars
<1>4. /\ writer'[r].pc # "create"
      /\ writer'[r].pc = "patch" => writer'[r].base = 1
  BY <1>1 DEF Create, CreateFails, Ends, Ended, TypeOK, ReporterTypeOK, WriterStates
<1>5. CASE UNCHANGED <<server, watch>>
  BY <1>1, <1>3, <1>4, <1>5
     DEF ReportSound, VersionsSound, LockSound, WorkSound, OutcomeSound
<1>6. CASE Write(r, f)
  <2>1. server'[r] = f
    BY <1>1, <1>6 DEF Write, TypeOK, StoreTypeOK
  <2>2. Advancing(r)
    BY <1>1, <1>2, <1>3, <2>1, Fields DEF Advancing, Advances
  <2>3. VersionsSound(r)'
    BY <1>1, <1>2, <1>3, <1>6, <2>2, WriteSound DEF Sound
  <2>4. LockSound(r)'
    BY <1>2, <1>4, <2>1 DEF LockSound
  <2>5. WorkSound(r)'
    BY <1>1, <1>3, Fields DEF WorkSound
  <2>6. OutcomeSound(r)'
    BY <1>1, <1>2, <1>3, <2>1, Fields DEF OutcomeSound
  <2>. QED
    BY <2>3, <2>4, <2>5, <2>6 DEF ReportSound
<1>. QED
  BY <1>5, <1>6 DEF Create, CreateFails

\* The fields of the object a status patch leaves.
LEMMA StatusFields ==
  ASSUME NEW s \in Objects, NEW o,
         o = [s EXCEPT !.rv = @ + 1, !.diag = "full", !.phase = "Pending"]
  PROVE  /\ o.state = s.state /\ o.created = s.created /\ o.notified = s.notified
         /\ o.rv = s.rv + 1 /\ o.diag = "full" /\ o.phase = "Pending"
BY DEF Objects

\* The agent's status patch is carried out: the lock holds, so nobody has
\* written the report since Create.
LEMMA PatchSound ==
  ASSUME LifecycleInv, TypeOK', NEW r \in Reports, PatchStatus(r) \/ PatchAnswerLost(r),
         UNCHANGED reconcilerVars
  PROVE  ReportSound(r)'
<1>. DEFINE v == [server[r] EXCEPT !.rv = @ + 1, !.diag = "full", !.phase = "Pending"]
<1>1. /\ TypeOK /\ VersionsSound(r) /\ LockSound(r) /\ WorkSound(r) /\ OutcomeSound(r)
      /\ server[r] \in Objects /\ v \in Objects /\ now \in Nat
  BY StatusTyping, Zenon DEF LifecycleInv, ReportSound, TypeOK, StoreTypeOK
<1>2. /\ server[r].state = "present" /\ server[r].rv = 1 /\ server[r].phase = "unset"
      /\ ~server[r].notified
  <2>1. /\ writer[r].pc = "patch"
        /\ server[r].state = "present" /\ server[r].rv = writer[r].base
    BY DEF PatchStatus, PatchAnswerLost, Attempts, Locked
  <2>2. writer[r].base = 1
    BY <1>1, <2>1 DEF LockSound
  <2>. QED
    BY <1>1, <2>1, <2>2 DEF LockSound
<1>3. /\ delivered' = delivered /\ dropped' = dropped /\ events' = events /\ rec' = rec
      /\ now' = now /\ cache' = cache
  BY DEF PatchStatus, PatchAnswerLost, reconcilerVars, workerVars, alertVars
<1>4. /\ writer'[r].pc # "create"
      /\ writer'[r].pc = "patch" => writer'[r].base = 1
  BY <1>1 DEF PatchStatus, PatchAnswerLost, Attempts, RetryStatus, Ends, Ended, LockSound,
              TypeOK, ReporterTypeOK, WriterStates
<1>5. Write(r, v) /\ server'[r] = v
  BY <1>1 DEF PatchStatus, PatchAnswerLost, WriteStatus, Write, TypeOK, StoreTypeOK
<1>6. /\ v.state = "present" /\ v.created = server[r].created /\ ~v.notified
      /\ v.rv = 2 /\ v.diag = "full" /\ v.phase = "Pending"
  <2>1. /\ v.state = server[r].state /\ v.created = server[r].created
        /\ v.notified = server[r].notified
        /\ v.rv = server[r].rv + 1 /\ v.diag = "full" /\ v.phase = "Pending"
    <3>1. server[r] \in Objects
      BY <1>1
    <3>. QED
      BY <3>1, StatusFields, Zenon
  <2>. QED
    BY <1>2, <2>1
<1>. HIDE DEF v
<1>7. Advancing(r)
  BY <1>1, <1>3, <1>5, <1>6, SMTT(60) DEF Advancing, Advances
<1>8. Sound(v, v, delivered[r]', now')
  BY <1>6 DEF Sound
<1>9. VersionsSound(r)'
  BY <1>1, <1>3, <1>5, <1>7, <1>8, WriteSound
<1>10. LockSound(r)'
  BY <1>4, <1>5, <1>6 DEF LockSound
<1>11. WorkSound(r)'
  BY <1>1, <1>2, <1>3, <1>5, <1>6 DEF WorkSound, InGrace
<1>12. OutcomeSound(r)'
  BY <1>1, <1>2, <1>3, <1>5, <1>6 DEF OutcomeSound, InGrace
<1>. QED
  BY <1>9, <1>10, <1>11, <1>12 DEF ReportSound

\* The agent's steps that write nothing only end the call or use up an attempt.
LEMMA WriterSound ==
  ASSUME LifecycleInv, NEW r \in Reports,
         UNCHANGED <<storeVars, reconcilerVars>>,
         writer'[r].pc # "create" \/ writer'[r] = writer[r],
         writer'[r].pc = "patch" => writer[r].pc = "patch" /\ writer'[r].base = writer[r].base
  PROVE  ReportSound(r)'
<1>1. /\ VersionsSound(r) /\ LockSound(r) /\ WorkSound(r) /\ OutcomeSound(r)
  BY DEF LifecycleInv, ReportSound
<1>2. /\ delivered' = delivered /\ dropped' = dropped /\ events' = events /\ rec' = rec
      /\ now' = now /\ cache' = cache /\ server' = server /\ watch' = watch
  BY DEF reconcilerVars, workerVars, alertVars, storeVars
<1>3. LockSound(r)'
  BY <1>1, <1>2, SMTT(90) DEF LockSound
<1>4. VersionsSound(r)' /\ WorkSound(r)' /\ OutcomeSound(r)'
  BY <1>1, <1>2 DEF VersionsSound, WorkSound, OutcomeSound
<1>. QED
  BY <1>3, <1>4 DEF ReportSound

\* Every step of the agent keeps every report sound.
LEMMA AgentSound == ASSUME LifecycleInv, Agent PROVE \A s \in Reports : ReportSound(s)'
<1>1. TypeOK /\ TypeOK' /\ UNCHANGED reconcilerVars
  BY AgentTyping DEF LifecycleInv, Agent
<1>2. CASE CancelReports
  BY <1>1, <1>2, WriterSound DEF CancelReports, LifecycleInv
<1>3. CASE AgentDies
  <2>1. ASSUME NEW s \in Reports PROVE writer'[s].pc = "dead" \/ writer'[s] = writer[s]
    BY <1>1, <1>3 DEF AgentDies, Ended
  <2>. QED
    BY <1>1, <1>3, <2>1, WriterSound DEF AgentDies
<1>4. ASSUME NEW r \in Reports, ReporterStep(r), NEW s \in Reports PROVE ReportSound(s)'
  <2>1. CASE s = r
    <3>1. CASE PatchTransient(r) \/ PatchRefused(r) \/ PatchCancelled(r)
      <4>1. /\ writer'[r].pc # "create"
            /\ writer'[r].pc = "patch" => writer[r].pc = "patch" /\ writer'[r].base = writer[r].base
        BY <1>1, <3>1 DEF PatchTransient, PatchRefused, PatchCancelled, Attempts, RetryStatus,
                          Ends, Ended, TypeOK, ReporterTypeOK, WriterStates
      <4>. QED
        BY <1>1, <2>1, <3>1, <4>1, WriterSound DEF PatchTransient, PatchRefused, PatchCancelled
    <3>. QED
      BY <1>1, <1>4, <2>1, <3>1, CreateSound, PatchSound DEF ReporterStep
  <2>2. CASE s # r
    <3>1. UNCHANGED <<now, server[s], cache[s], watch[s], writer[s]>>
      BY <1>1, <1>4, <2>2
         DEF ReporterStep, Create, CreateFails, PatchStatus, PatchAnswerLost, PatchTransient,
             PatchRefused, PatchCancelled, RetryStatus, Ends, WriteStatus, Write, storeVars,
             TypeOK, StoreTypeOK, ReporterTypeOK
    <3>2. UNCHANGED <<rec[s], delivered[s], dropped[s], events[s]>>
      BY <1>1 DEF reconcilerVars, workerVars, alertVars
    <3>. QED
      BY <3>1, <3>2, Untouched DEF LifecycleInv
  <2>. QED
    BY <2>1, <2>2
<1>. QED
  BY <1>2, <1>3, <1>4 DEF Agent, ReporterNext

-----------------------------------------------------------------------------

\* A step of a worker that writes nothing to the server.
LEMMA QuietStep ==
  ASSUME LifecycleInv, TypeOK', NEW r \in Reports, UNCHANGED <<storeVars, writer>>,
         delivered[r] \subseteq delivered'[r], WorkSound(r)', OutcomeSound(r)'
  PROVE  ReportSound(r)'
<1>1. /\ TypeOK /\ VersionsSound(r) /\ LockSound(r) /\ now \in Nat
      /\ now' = now /\ cache' = cache /\ server' = server /\ watch' = watch
  BY DEF LifecycleInv, ReportSound, TypeOK, StoreTypeOK, storeVars
<1>2. Advancing(r)
  BY <1>1 DEF Advancing, Advances
<1>3. VersionsSound(r)'
  BY <1>1, <1>2, KeepSound
<1>4. LockSound(r)'
  BY <1>1 DEF LockSound
<1>. QED
  BY <1>3, <1>4 DEF ReportSound

\* A reconcile begins with an object that is sound, and late enough.
LEMMA BeginSound ==
  ASSUME LifecycleInv, TypeOK', NEW r \in Reports, ReconcileBegins(r), UNCHANGED reporterVars
  PROVE  ReportSound(r)'
<1>1. /\ TypeOK /\ Sound(cache[r], server[r], delivered[r], now) /\ OutcomeSound(r)
      /\ cache[r] \in Objects /\ server[r] \in Objects /\ now \in Nat
  BY DEF LifecycleInv, ReportSound, VersionsSound, TypeOK, StoreTypeOK
<1>2. /\ UNCHANGED <<storeVars, writer>>
      /\ delivered' = delivered /\ dropped' = dropped /\ events' = events
      /\ server' = server /\ now' = now
  BY DEF ReconcileBegins, alertVars, reporterVars, storeVars
<1>3. /\ rec'[r].obj = cache[r] /\ rec'[r].payload = cache[r].diag
      /\ rec'[r].notified = cache[r].notified
      /\ rec'[r].pc \in {"patch", "reread", "send"}
      /\ rec'[r].pc = "patch" /\ WebhookEnabled => cache[r].notified
      /\ rec'[r].pc # "patch" => WebhookEnabled
  BY <1>1, SMTT(90) DEF ReconcileBegins, TypeOK, ReconcilerTypeOK
<1>4. /\ cache[r].state = "present" /\ server[r].state # "absent"
      /\ cache[r].created = server[r].created
  BY <1>1 DEF ReconcileBegins, Sound
<1>5. InGrace(server[r], now) => cache[r].diag # "none" /\ server[r].diag = "full"
  <2>1. CASE cache[r].phase = "unset"
    BY <1>4, <2>1 DEF ReconcileBegins, AwaitsDiagnostics, InGrace
  <2>2. CASE cache[r].phase # "unset"
    BY <1>1, <2>2 DEF Sound
  <2>. QED
    BY <2>1, <2>2
<1>6. cache[r].notified => delivered[r] # {}
  BY <1>1 DEF Sound
<1>7. WorkSound(r)'
  BY <1>2, <1>3, <1>4, <1>5, <1>6, SMTT(30) DEF WorkSound, InGrace
<1>8. OutcomeSound(r)'
  BY <1>1, <1>2 DEF OutcomeSound
<1>. QED
  BY <1>2, <1>7, <1>8, QuietStep

\* The uncached read brings diagnostics inside the grace period.
LEMMA RereadSound ==
  ASSUME LifecycleInv, TypeOK', NEW r \in Reports, Reread(r), UNCHANGED reporterVars
  PROVE  ReportSound(r)'
<1>1. /\ TypeOK /\ WorkSound(r) /\ OutcomeSound(r) /\ rec[r].pc = "reread"
  BY DEF LifecycleInv, ReportSound, Reread
<1>2. /\ UNCHANGED <<storeVars, writer>>
      /\ delivered' = delivered /\ dropped' = dropped /\ events' = events
      /\ server' = server /\ now' = now
  BY DEF Reread, alertVars, reporterVars, storeVars
<1>3. /\ rec'[r].pc = "send" /\ rec'[r].obj = rec[r].obj /\ rec'[r].notified = rec[r].notified
      /\ rec'[r].payload \in {rec[r].payload, server[r].diag}
  BY <1>1 DEF Reread, TypeOK, ReconcilerTypeOK, ReconcileStates
<1>4. WorkSound(r)'
  BY <1>1, <1>2, <1>3 DEF WorkSound, InGrace
<1>5. OutcomeSound(r)'
  BY <1>1, <1>2 DEF OutcomeSound
<1>. QED
  BY <1>2, <1>4, <1>5, QuietStep

\* What the receiver may be told, and what is dropped.
LEMMA SendSound ==
  ASSUME LifecycleInv, TypeOK', NEW r \in Reports, SendSucceeds(r) \/ SendFails(r),
         UNCHANGED reporterVars
  PROVE  ReportSound(r)'
<1>1. /\ TypeOK /\ WorkSound(r) /\ OutcomeSound(r) /\ rec[r].pc = "send"
  BY DEF LifecycleInv, ReportSound, SendSucceeds, SendFails
<1>2. /\ UNCHANGED <<storeVars, writer>> /\ events' = events
      /\ server' = server /\ now' = now
  BY DEF SendSucceeds, SendFails, reporterVars, storeVars
<1>3. /\ delivered[r] \subseteq delivered'[r]
      /\ delivered'[r] \subseteq delivered[r] \cup {rec[r].payload}
  BY <1>1 DEF SendSucceeds, SendFails, TypeOK, ReconcilerTypeOK
<1>4. \/ rec'[r] = Idle /\ dropped' = dropped
      \/ /\ rec'[r].pc = "patch" /\ rec'[r].obj = rec[r].obj /\ rec'[r].payload = rec[r].payload
         /\ \/ delivered'[r] # {} /\ dropped' = dropped
            \/ dropped'[r] /\ rec'[r].notified = rec[r].notified
  <2>1. CASE SendSucceeds(r)
    <3>1. delivered'[r] # {} /\ dropped' = dropped
      BY <1>1, <2>1 DEF SendSucceeds, TypeOK, ReconcilerTypeOK
    <3>2. rec'[r].pc = "patch" /\ rec'[r].obj = rec[r].obj /\ rec'[r].payload = rec[r].payload
      BY <1>1, <2>1 DEF SendSucceeds, TypeOK, ReconcilerTypeOK, ReconcileStates
    <3>. QED
      BY <3>1, <3>2
  <2>2. CASE SendFails(r)
    <3>1. \/ rec' = [rec EXCEPT ![r] = Idle] /\ dropped' = dropped
          \/ rec' = [rec EXCEPT ![r].pc = "patch"] /\ dropped' = [dropped EXCEPT ![r] = TRUE]
      BY <2>2 DEF SendFails
    <3>2. dropped' = [dropped EXCEPT ![r] = TRUE] => dropped'[r]
      BY <1>1 DEF TypeOK, ReconcilerTypeOK
    <3>. QED
      BY <1>1, <3>1, <3>2 DEF TypeOK, ReconcilerTypeOK, ReconcileStates
  <2>. QED
    BY <2>1, <2>2
<1>5. WorkSound(r)'
  BY <1>1, <1>2, <1>3, <1>4, Fields DEF WorkSound, InGrace
<1>6. dropped[r] => dropped'[r]
  BY <1>1, SMTT(30) DEF SendSucceeds, SendFails, TypeOK, ReconcilerTypeOK
<1>7. OutcomeSound(r)'
  BY <1>1, <1>2, <1>3, <1>6 DEF WorkSound, OutcomeSound, InGrace
<1>. QED
  BY <1>2, <1>3, <1>5, <1>7, QuietStep

\* The event is emitted by a reconcile that has marked the report.
LEMMA EmitSound ==
  ASSUME LifecycleInv, TypeOK', NEW r \in Reports, EmitEvent(r), UNCHANGED reporterVars
  PROVE  ReportSound(r)'
<1>1. /\ TypeOK /\ WorkSound(r) /\ OutcomeSound(r) /\ rec[r].pc = "emit"
  BY DEF LifecycleInv, ReportSound, EmitEvent
<1>2. /\ UNCHANGED <<storeVars, writer>> /\ server' = server /\ now' = now
      /\ delivered' = delivered /\ dropped' = dropped /\ rec'[r] = Idle
  BY <1>1 DEF EmitEvent, reporterVars, storeVars, TypeOK, ReconcilerTypeOK
<1>3. WorkSound(r)'
  BY <1>1, <1>2, Fields, SMTT(30) DEF WorkSound
<1>4. OutcomeSound(r)'
  BY <1>1, <1>2 DEF WorkSound, OutcomeSound
<1>. QED
  BY <1>2, <1>3, <1>4, QuietStep

\* The fields of the object the controller's patch leaves, and of a deleted one.
LEMMA ProcessedFields ==
  ASSUME NEW r \in Reports, NEW v, server[r] \in Objects, v = ProcessedObject(r)
  PROVE  /\ v.state = server[r].state /\ v.created = server[r].created /\ v.diag = server[r].diag
         /\ v.rv = server[r].rv + 1 /\ v.phase = "Processed"
         /\ v.notified => server[r].notified \/ rec[r].notified
<1>1. v.state = server[r].state /\ v.created = server[r].created /\ v.diag = server[r].diag
  BY DEF Objects, ProcessedObject
<1>2. v.rv = server[r].rv + 1
  BY DEF Objects, ProcessedObject
<1>3. v.phase = "Processed"
  BY DEF Objects, ProcessedObject
<1>4. v.notified = (server[r].notified \/ rec[r].notified)
  BY DEF Objects, ProcessedObject
<1>. QED
  BY <1>1, <1>2, <1>3, <1>4, Zenon

\* What Delete leaves of an object: its state and its version change, nothing else.
LEMMA GoneFields ==
  ASSUME NEW s \in Objects, NEW o, o = [s EXCEPT !.state = "gone", !.rv = @ + 1]
  PROVE  /\ o.state = "gone" /\ o.created = s.created /\ o.diag = s.diag
         /\ o.rv = s.rv + 1 /\ o.phase = s.phase /\ o.notified = s.notified
BY DEF Objects

\* The controller's patch is carried out, whether or not it is answered.
LEMMA MarkSound ==
  ASSUME LifecycleInv, TypeOK', NEW r \in Reports, MarkProcessed(r) \/ MarkFails(r),
         UNCHANGED reporterVars
  PROVE  ReportSound(r)'
<1>. DEFINE v == ProcessedObject(r)
<1>1. /\ TypeOK /\ VersionsSound(r) /\ LockSound(r) /\ WorkSound(r) /\ OutcomeSound(r)
      /\ server[r] \in Objects /\ v \in Objects /\ now \in Nat /\ rec[r].pc = "patch"
  BY ProcessedTyping DEF LifecycleInv, ReportSound, TypeOK, StoreTypeOK, MarkProcessed, MarkFails
<1>2. /\ delivered' = delivered /\ dropped' = dropped /\ events' = events
      /\ now' = now /\ cache' = cache /\ writer' = writer
  BY DEF MarkProcessed, MarkFails, alertVars, reporterVars
<1>3. rec'[r].notified = FALSE /\ rec'[r].pc \in {"idle", "emit"}
  <2>1. [Idle EXCEPT !.pc = "emit"].notified = FALSE /\ [Idle EXCEPT !.pc = "emit"].pc = "emit"
    BY DEF Idle
  <2>. QED
    BY <1>1, <2>1, Fields, Zenon DEF MarkProcessed, MarkFails, TypeOK, ReconcilerTypeOK
<1>4. CASE UNCHANGED <<server, watch>> /\ MarkFails(r)
  <2>1. rec'[r] = Idle
    BY <1>1, <1>4 DEF MarkFails, TypeOK, ReconcilerTypeOK
  <2>2. VersionsSound(r)' /\ LockSound(r)' /\ OutcomeSound(r)'
    BY <1>1, <1>2, <1>4, ZenonT(30) DEF VersionsSound, LockSound, OutcomeSound
  <2>3. WorkSound(r)'
    BY <2>1, Fields DEF WorkSound
  <2>. QED
    BY <2>2, <2>3, SMTT(30) DEF ReportSound
<1>5. CASE Write(r, v) /\ server[r].state = "present"
  <2>1. server'[r] = v
    BY <1>1, <1>5 DEF Write, TypeOK, StoreTypeOK
  <2>2. /\ v.state = "present" /\ v.created = server[r].created /\ v.diag = server[r].diag
        /\ v.rv = server[r].rv + 1 /\ v.phase = "Processed"
        /\ v.notified => server[r].notified \/ rec[r].notified
    <3>1. server[r] \in Objects /\ server[r].state = "present"
      BY <1>1, <1>5
    <3>. QED
      BY <3>1, ProcessedFields
  <2>. HIDE DEF v
  <2>3. Advancing(r)
    BY <1>1, <1>2, <2>1, <2>2, SMTT(90) DEF Advancing, Advances
  <2>4. Sound(v, v, delivered[r]', now')
    <3>1. v.notified => delivered[r] # {}
      BY <1>1, <2>2, SMTT(90) DEF VersionsSound, Sound, WorkSound
    <3>2. InGrace(v, now) => v.diag = "full"
      BY <1>1, <2>2 DEF WorkSound, InGrace
    <3>. QED
      BY <1>2, <2>2, <3>1, <3>2, SMTT(90) DEF Sound
  <2>5. VersionsSound(r)'
    BY <1>1, <1>2, <1>5, <2>3, <2>4, WriteSound, Zenon
  <2>6. v.rv \in Nat /\ v.rv > 1
    <3>1. server[r].rv \in Nat
      BY <1>1 DEF Objects
    <3>2. server[r].rv >= 1
      <4>1. LockSound(r) /\ server[r].state # "absent"
        BY <1>1, <1>5
      <4>. QED
        BY <4>1 DEF LockSound
    <3>3. v.rv = server[r].rv + 1
      BY <2>2
    <3>. QED
      BY <3>1, <3>2, <3>3
  <2>7. LockSound(r)'
    <3>1. writer[r].pc # "create"
      <4>1. LockSound(r) /\ server[r].state = "present"
        BY <1>1, <1>5
      <4>. QED
        BY <4>1, Fields DEF LockSound
    <3>2. writer[r].pc = "patch" => writer[r].base = 1
      BY <1>1 DEF LockSound
    <3>. QED
      BY <1>2, <2>1, <2>6, <3>1, <3>2 DEF LockSound
  <2>8. WorkSound(r)'
    BY <1>3, <2>1, <2>2 DEF WorkSound
  <2>9. OutcomeSound(r)'
    BY <1>1, <1>2, <2>1, <2>2 DEF WorkSound, OutcomeSound, InGrace
  <2>. QED
    BY <2>5, <2>7, <2>8, <2>9 DEF ReportSound
<1>. QED
  BY <1>4, <1>5 DEF MarkProcessed, MarkFails

\* Every step of a worker keeps every report sound.
LEMMA WorkerSound ==
  ASSUME LifecycleInv, NEW r \in Reports, Worker(r), NEW s \in Reports
  PROVE  ReportSound(s)'
<1>1. TypeOK /\ TypeOK' /\ UNCHANGED reporterVars
  BY WorkerTyping, SMTT(30) DEF LifecycleInv, Worker
<1>2. CASE ReconcileSkips(r) \/ ReconcileWaits(r)
  BY <1>1, <1>2, Untouched
     DEF ReconcileSkips, ReconcileWaits, storeVars, alertVars, reporterVars, LifecycleInv
<1>3. CASE s = r
  BY <1>1, <1>2, <1>3, BeginSound, RereadSound, SendSound, MarkSound, EmitSound
     DEF Worker, ReconcileStep
<1>4. CASE s # r /\ ~(ReconcileSkips(r) \/ ReconcileWaits(r))
  <2>1. UNCHANGED <<now, cache, writer, server[s], watch[s]>>
    BY <1>1, <1>4, SMTT(30)
       DEF Worker, ReconcileStep, ReconcileBegins, Reread, SendSucceeds, SendFails,
           MarkProcessed, MarkFails, EmitEvent, Write, storeVars, reporterVars,
           TypeOK, StoreTypeOK
  <2>2. UNCHANGED <<rec[s], delivered[s], events[s]>>
    BY <1>1, <1>4
       DEF Worker, ReconcileStep, ReconcileBegins, Reread, SendSucceeds, SendFails,
           MarkProcessed, MarkFails, EmitEvent, alertVars, TypeOK, ReconcilerTypeOK
  <2>3. dropped'[s] = dropped[s]
    <3>1. dropped' = dropped \/ dropped' = [dropped EXCEPT ![r] = TRUE]
      BY <1>4 DEF Worker, ReconcileStep, ReconcileBegins, Reread, SendSucceeds, SendFails,
                  MarkProcessed, MarkFails, EmitEvent, alertVars
    <3>. QED
      BY <1>1, <1>4, <3>1 DEF TypeOK, ReconcilerTypeOK
  <2>. QED
    BY <2>1, <2>2, <2>3, Untouched, Zenon DEF LifecycleInv
<1>. QED
  BY <1>2, <1>3, <1>4

-----------------------------------------------------------------------------

\* Stripping the log lines keeps a version sound.
LEMMA StripSound ==
  ASSUME NEW o \in Objects, NEW s, NEW told, NEW t, Sound(o, s, told, t)
  PROVE  Sound(StripCachedLogLines(o), s, told, t)
<1>1. CASE o.diag = "full"
  <2>. DEFINE v == [o EXCEPT !.diag = "bare"]
  <2>1. /\ v.state = o.state /\ v.created = o.created /\ v.phase = o.phase
        /\ v.diag = "bare"
    BY DEF Objects
  <2>2. v.notified = o.notified
    BY DEF Objects
  <2>3. o.state # "absent"
    BY <1>1, Fields DEF Sound
  <2>4. StripCachedLogLines(o) = v
    BY <1>1 DEF StripCachedLogLines
  <2>. HIDE DEF v
  <2>. QED
    BY <2>1, <2>2, <2>3, <2>4 DEF Sound
<1>2. CASE o.diag # "full"
  BY <1>2 DEF StripCachedLogLines
<1>. QED
  BY <1>1, <1>2

\* An absent version is sound.
LEMMA AbsentSound == \A s, told, t : Sound(NoObject, s, told, t)
BY Fields DEF Sound

\* The controller process may die and come back at any moment.
LEMMA RestartSound ==
  ASSUME LifecycleInv, Stop \/ Start, NEW r \in Reports
  PROVE  ReportSound(r)'
<1>1. /\ TypeOK /\ TypeOK' /\ VersionsSound(r) /\ LockSound(r) /\ WorkSound(r) /\ OutcomeSound(r)
  BY RestartTyping DEF LifecycleInv, ReportSound
<1>2. /\ now' = now /\ server' = server /\ delivered' = delivered /\ dropped' = dropped
      /\ events' = events /\ writer' = writer
  BY DEF Stop, Start, ControllerStops, ControllerStarts, alertVars, reporterVars
<1>3. LockSound(r)' /\ OutcomeSound(r)'
  BY <1>1, <1>2 DEF LockSound, OutcomeSound
<1>4. CASE Stop
  <2>1. cache'[r] = NoObject /\ watch'[r] = <<>> /\ rec'[r] = Idle
    BY <1>4, SMTT(30) DEF Stop, ControllerStops
  <2>2. VersionsSound(r)'
    <3>1. Sound(server[r], server[r], delivered[r], now)'
      <4>1. Sound(server[r], server[r], delivered[r], now)
        BY <1>1 DEF VersionsSound
      <4>. QED
        BY <1>2, <4>1 DEF Sound, InGrace
    <3>2. Sound(cache[r], server[r], delivered[r], now)'
      BY <2>1, AbsentSound
    <3>3. 1..Len(watch'[r]) = {}
      BY <2>1
    <3>. QED
      BY <3>1, <3>2, <3>3 DEF VersionsSound
  <2>3. WorkSound(r)'
    BY <2>1, Fields DEF WorkSound
  <2>. QED
    BY <1>3, <2>2, <2>3 DEF ReportSound
<1>5. CASE Start
  <2>1. /\ cache'[r] \in {NoObject, StripCachedLogLines(server[r])}
        /\ watch' = watch /\ rec' = rec
    BY <1>5 DEF Start, ControllerStarts
  <2>2. server[r] \in Objects
    BY <1>1, SMTT(30) DEF TypeOK, StoreTypeOK
  <2>3. VersionsSound(r)'
    <3>1. /\ Sound(server[r], server[r], delivered[r], now)
          /\ \A i \in 1..Len(watch[r]) : Sound(watch[r][i], server[r], delivered[r], now)
      BY <1>1, Zenon DEF VersionsSound
    <3>2. Sound(NoObject, server[r], delivered[r], now)
      BY AbsentSound, Zenon
    <3>3. Sound(StripCachedLogLines(server[r]), server[r], delivered[r], now)
      BY <2>2, <3>1, StripSound, Zenon
    <3>4. Sound(cache'[r], server[r], delivered[r], now)
      BY <2>1, <3>2, <3>3, Zenon
    <3>5. /\ Sound(server[r], server[r], delivered[r], now)'
          /\ Sound(cache[r], server[r], delivered[r], now)'
          /\ \A i \in 1..Len(watch'[r]) : Sound(watch[r][i], server[r], delivered[r], now)'
      BY <1>2, <2>1, <3>1, <3>4, Zenon DEF Sound, InGrace
    <3>. QED
      BY <3>5, Zenon DEF VersionsSound
  <2>4. WorkSound(r)'
    BY <1>1, <1>2, <2>1 DEF WorkSound
  <2>. QED
    BY <1>3, <2>3, <2>4 DEF ReportSound
<1>. QED
  BY <1>4, <1>5

\* Time passes: the grace period only ends.
LEMMA ClockSound ==
  ASSUME LifecycleInv, Clock, NEW r \in Reports
  PROVE  ReportSound(r)'
<1>1. /\ TypeOK /\ TypeOK' /\ VersionsSound(r) /\ LockSound(r) /\ WorkSound(r) /\ OutcomeSound(r)
      /\ now \in Nat /\ now' = now + 1 /\ server[r] \in Objects
  BY SurroundingsTyping DEF LifecycleInv, ReportSound, Clock, Tick, TypeOK, StoreTypeOK
<1>2. /\ delivered' = delivered /\ dropped' = dropped /\ events' = events /\ rec' = rec
      /\ cache' = cache /\ server' = server /\ watch' = watch /\ writer' = writer
  BY DEF Clock, Tick, reconcilerVars, workerVars, alertVars, reporterVars
<1>3. InGrace(server[r], now') => InGrace(server[r], now)
  BY <1>1, ReconcilerAssumption DEF InGrace, Objects
<1>4. Advancing(r)
  BY <1>1, <1>2 DEF Advancing, Advances
<1>5. VersionsSound(r)'
  BY <1>1, <1>2, <1>4, KeepSound
<1>6. LockSound(r)' /\ WorkSound(r)'
  BY <1>1, <1>2, <1>3, Zenon DEF LockSound, WorkSound
<1>7. OutcomeSound(r)'
  BY <1>1, <1>2, <1>3, Zenon DEF OutcomeSound
<1>. QED
  BY <1>5, <1>6, <1>7 DEF ReportSound

\* The informer moves a sound version from the watch to the cache.
LEMMA InformerSound ==
  ASSUME LifecycleInv, NEW r \in Reports, Informer(r), NEW s \in Reports
  PROVE  ReportSound(s)'
<1>1. /\ TypeOK /\ VersionsSound(r) /\ LockSound(r) /\ WorkSound(r) /\ OutcomeSound(r)
      /\ watch[r] \in Seq(Objects) /\ watch[r] # <<>>
  BY DEF LifecycleInv, ReportSound, Informer, Observe, Deliver, TypeOK, StoreTypeOK
<1>2. /\ delivered' = delivered /\ dropped' = dropped /\ events' = events /\ rec' = rec
      /\ server' = server /\ writer' = writer /\ now' = now
  BY DEF Informer, Observe, Deliver, alertVars, reporterVars
<1>3. CASE s = r
  <2>1. cache'[r] = StripCachedLogLines(Head(watch[r])) /\ watch'[r] = Tail(watch[r])
    BY <1>1 DEF Informer, Observe, Deliver, TypeOK, StoreTypeOK
  <2>2. /\ Head(watch[r]) = watch[r][1] /\ 1 \in 1..Len(watch[r]) /\ Head(watch[r]) \in Objects
        /\ \A i \in 1..Len(Tail(watch[r])) : /\ i + 1 \in 1..Len(watch[r])
                                             /\ Tail(watch[r])[i] = watch[r][i + 1]
    BY <1>1, SMTT(30)
  <2>3. VersionsSound(r)'
    BY <1>1, <1>2, <2>1, <2>2, StripSound DEF VersionsSound
  <2>4. LockSound(r)' /\ WorkSound(r)' /\ OutcomeSound(r)'
    BY <1>1, <1>2, Zenon DEF LockSound, WorkSound, OutcomeSound
  <2>. QED
    BY <1>3, <2>3, <2>4 DEF ReportSound
<1>4. CASE s # r
  <2>1. cache'[s] = cache[s] /\ watch'[s] = watch[s]
    BY <1>1, <1>4 DEF Informer, Observe, Deliver, TypeOK, StoreTypeOK
  <2>. QED
    BY <1>2, <2>1, Untouched, Zenon DEF LifecycleInv
<1>. QED
  BY <1>3, <1>4

\* A report may be deleted at any moment.
LEMMA DeletionSound ==
  ASSUME LifecycleInv, NEW r \in Reports, Deletion(r), NEW s \in Reports
  PROVE  ReportSound(s)'
<1>. DEFINE v == [server[r] EXCEPT !.state = "gone", !.rv = @ + 1]
<1>1. /\ TypeOK /\ TypeOK' /\ VersionsSound(r) /\ LockSound(r) /\ WorkSound(r) /\ OutcomeSound(r)
      /\ server[r] \in Objects /\ v \in Objects /\ now \in Nat
  BY SurroundingsTyping, DeleteTyping, Zenon DEF LifecycleInv, ReportSound, TypeOK, StoreTypeOK
<1>2. /\ delivered' = delivered /\ dropped' = dropped /\ events' = events /\ rec' = rec
      /\ cache' = cache /\ now' = now /\ writer' = writer
      /\ Write(r, v) /\ server[r].state = "present"
  BY DEF Deletion, Removed, Delete, reconcilerVars, workerVars, alertVars, reporterVars
<1>3. CASE s = r
  <2>1. server'[r] = v
    BY <1>1, <1>2 DEF Write, TypeOK, StoreTypeOK
  <2>2. /\ v.state = "gone" /\ v.created = server[r].created /\ v.diag = server[r].diag
        /\ v.rv = server[r].rv + 1 /\ v.phase = server[r].phase
        /\ v.notified = server[r].notified
    <3>1. server[r] \in Objects
      BY <1>1
    <3>. QED
      BY <3>1, GoneFields, Zenon
  <2>. HIDE DEF v
  <2>3. Advancing(r)
    BY <1>1, <1>2, <2>1, <2>2, SMTT(60) DEF Advancing, Advances
  <2>4. Sound(v, v, delivered[r]', now')
    BY <1>1, <1>2, <2>2, Zenon DEF VersionsSound, Sound, InGrace
  <2>5. VersionsSound(r)'
    BY <1>1, <1>2, <2>3, <2>4, WriteSound, Zenon
  <2>6. v.rv \in Nat /\ v.rv > 1
    <3>1. server[r].rv \in Nat
      BY <1>1 DEF Objects
    <3>2. server[r].rv >= 1
      BY <1>1, <1>2, ZenonT(30) DEF LockSound
    <3>. QED
      BY <2>2, <3>1, <3>2
  <2>7. LockSound(r)'
    <3>1. writer[r].pc # "create"
      BY <1>1, <1>2, Fields DEF LockSound
    <3>2. writer[r].pc = "patch" => writer[r].base = 1
      BY <1>1 DEF LockSound
    <3>. QED
      BY <1>2, <2>1, <2>6, <3>1, <3>2, SMTT(90) DEF LockSound
  <2>8. WorkSound(r)'
    BY <1>1, <1>2, <2>1, <2>2, Zenon DEF WorkSound, InGrace
  <2>9. OutcomeSound(r)'
    BY <1>1, <1>2, <2>1, <2>2, Zenon DEF OutcomeSound, InGrace
  <2>. QED
    BY <1>3, <2>5, <2>7, <2>8, <2>9 DEF ReportSound
<1>4. CASE s # r
  <2>1. server'[s] = server[s] /\ watch'[s] = watch[s]
    BY <1>1, <1>2, <1>4 DEF Write, TypeOK, StoreTypeOK
  <2>. QED
    BY <1>2, <2>1, Untouched DEF LifecycleInv
<1>. QED
  BY <1>3, <1>4

-----------------------------------------------------------------------------

\* LifecycleInv is inductive.
LEMMA NextSound == LifecycleInv /\ [Next]_vars => LifecycleInv'
<1>. SUFFICES ASSUME LifecycleInv, [Next]_vars PROVE LifecycleInv'
  OBVIOUS
<1>1. TypeOK'
  BY NextTyping DEF LifecycleInv
<1>2. ASSUME NEW s \in Reports, UNCHANGED vars PROVE ReportSound(s)'
  BY <1>2, Untouched, Zenon DEF LifecycleInv, vars, storeVars, reporterVars, reconcilerVars,
                         workerVars, alertVars
<1>3. ASSUME NEW s \in Reports, NEW r \in Reports, Timer(r) PROVE ReportSound(s)'
  BY <1>3, Untouched, Zenon DEF LifecycleInv, Timer, Requeue, storeVars, reporterVars, alertVars
<1>4. ASSUME NEW s \in Reports PROVE ReportSound(s)'
  BY <1>2, <1>3, <1>4, AgentSound, RestartSound, ClockSound, InformerSound, WorkerSound,
     DeletionSound DEF Next
<1>. QED
  BY <1>1, <1>4 DEF LifecycleInv

\* The inductive invariant holds throughout: every version of a report that the
\* server, the watch, the cache or a reconcile holds is sound.
THEOREM LifecycleSafe == Spec => []LifecycleInv
BY InitSound, NextSound, PTL DEF Spec

\* At-least-once alerting: no report is marked Processed before its alert was
\* delivered or recorded as dropped, whatever crashes and whatever is stale.
THEOREM AlertsAreAccounted == Spec => []AlertAccounted
<1>1. LifecycleInv => AlertAccounted
  BY SMTT(30) DEF LifecycleInv, ReportSound, OutcomeSound, AlertAccounted
<1>. QED
  BY <1>1, LifecycleSafe, PTL

\* notifiedAt on a report is evidence that the receiver accepted a message.
THEOREM NotificationsAreReal == Spec => []NotifiedMeansDelivered
<1>1. LifecycleInv => NotifiedMeansDelivered
  BY SMTT(90) DEF LifecycleInv, ReportSound, VersionsSound, Sound, NotifiedMeansDelivered
<1>. QED
  BY <1>1, LifecycleSafe, PTL

\* Inside the grace period nothing is processed or notified without the
\* diagnostics the agent attaches.
THEOREM GracePeriodHolds == Spec => []DiagnosticsFirst
<1>1. LifecycleInv => DiagnosticsFirst
  BY DEF LifecycleInv, ReportSound, VersionsSound, Sound, OutcomeSound, InGrace, DiagnosticsFirst
<1>. QED
  BY <1>1, LifecycleSafe, PTL

-----------------------------------------------------------------------------

\* What one step can do to a stored object: nothing, create it, diagnose it
\* while it has no phase, mark it, or delete it.
Evolves(s, s2) ==
  \/ s2 = s
  \/ /\ s.state = "absent" /\ s.phase = "unset" /\ s.diag = "none" /\ ~s.notified
     /\ s2.state = "present" /\ s2.phase = "unset"
  \/ /\ s.state = "present" /\ s.phase = "unset" /\ ~s.notified
     /\ s2.state = "present" /\ s2.phase = "Pending" /\ s2.diag = "full"
  \/ /\ s.state = "present"
     /\ s2.state = "present" /\ s2.phase = "Processed" /\ s2.diag = s.diag
     /\ s.notified => s2.notified
  \/ /\ s.state = "present"
     /\ s2.state = "gone" /\ s2.phase = s.phase /\ s2.diag = s.diag
     /\ s.notified => s2.notified

\* The agent creates or, under its lock, diagnoses.
LEMMA AgentEvolves ==
  ASSUME LifecycleInv, NEW r \in Reports, ReporterStep(r)
  PROVE  /\ Evolves(server[r], server'[r])
         /\ \A s \in Reports \ {r} : server'[s] = server[s]
<1>1. /\ TypeOK /\ LockSound(r) /\ server[r] \in Objects /\ now \in Nat
  BY DEF LifecycleInv, ReportSound, TypeOK, StoreTypeOK
<1>2. CASE server' = server
  BY <1>2 DEF Evolves
<1>3. CASE (Create(r) \/ CreateFails(r)) /\ Write(r, FreshObject(now))
  <2>1. server[r] = NoObject
    BY <1>1, <1>3 DEF Create, CreateFails, LockSound
  <2>2. FreshObject(now).state = "present" /\ FreshObject(now).phase = "unset"
    BY DEF FreshObject, NoObject
  <2>3. server' = [server EXCEPT ![r] = FreshObject(now)]
    BY <1>3 DEF Write
  <2>4. server'[r] = FreshObject(now) /\ \A s \in Reports \ {r} : server'[s] = server[s]
    BY <1>1, <2>3, SMTT(30) DEF TypeOK, StoreTypeOK
  <2>. QED
    BY <2>1, <2>2, <2>4, Fields DEF Evolves
<1>4. CASE PatchStatus(r) \/ PatchAnswerLost(r)
  <2>. DEFINE v == [server[r] EXCEPT !.rv = @ + 1, !.diag = "full", !.phase = "Pending"]
  <2>1. /\ writer[r].pc = "patch" /\ server[r].state = "present"
        /\ server[r].rv = writer[r].base
    BY <1>4 DEF PatchStatus, PatchAnswerLost, Attempts, Locked
  <2>2. writer[r].base = 1
    BY <1>1, <2>1 DEF LockSound
  <2>3. server[r].phase = "unset" /\ ~server[r].notified
    BY <1>1, <2>1, <2>2 DEF LockSound
  <2>4. server' = [server EXCEPT ![r] = v]
    BY <1>4 DEF PatchStatus, PatchAnswerLost, WriteStatus, Write
  <2>5. v.state = server[r].state /\ v.phase = "Pending" /\ v.diag = "full"
    BY <1>1, StatusFields, Zenon
  <2>. HIDE DEF v
  <2>6. server'[r] = v /\ \A s \in Reports \ {r} : server'[s] = server[s]
    BY <1>1, <2>4 DEF TypeOK, StoreTypeOK
  <2>. QED
    BY <2>1, <2>3, <2>5, <2>6 DEF Evolves
<1>. QED
  BY <1>2, <1>3, <1>4 DEF ReporterStep, Create, CreateFails, PatchTransient, PatchRefused,
                          PatchCancelled, storeVars

\* The controller marks.
LEMMA WorkerEvolves ==
  ASSUME LifecycleInv, NEW r \in Reports, Worker(r)
  PROVE  /\ Evolves(server[r], server'[r])
         /\ \A s \in Reports \ {r} : server'[s] = server[s]
<1>1. TypeOK /\ server[r] \in Objects
  BY DEF LifecycleInv, TypeOK, StoreTypeOK
<1>2. CASE server' = server
  BY <1>2 DEF Evolves
<1>3. CASE server[r].state = "present" /\ server' = [server EXCEPT ![r] = ProcessedObject(r)]
  <2>. DEFINE v == ProcessedObject(r)
  <2>1. v.state = "present" /\ v.phase = "Processed" /\ v.diag = server[r].diag
    BY <1>1, <1>3, ProcessedFields
  <2>2. server[r].notified => v.notified
    <3>1. v.notified = (server[r].notified \/ rec[r].notified)
      BY <1>1 DEF ProcessedObject, Objects
    <3>. QED
      BY <3>1, Zenon
  <2>. HIDE DEF v
  <2>3. server'[r] = v /\ \A s \in Reports \ {r} : server'[s] = server[s]
    BY <1>1, <1>3 DEF TypeOK, StoreTypeOK, v
  <2>. QED
    BY <1>3, <2>1, <2>2, <2>3 DEF Evolves
<1>. QED
  BY <1>2, <1>3 DEF Worker, ReconcileStep, ReconcileSkips, ReconcileWaits, ReconcileBegins, Reread,
                    SendSucceeds, SendFails, MarkProcessed, MarkFails, EmitEvent, Write, storeVars

\* A deletion deletes.
LEMMA DeletionEvolves ==
  ASSUME LifecycleInv, NEW r \in Reports, Deletion(r)
  PROVE  /\ Evolves(server[r], server'[r])
         /\ \A s \in Reports \ {r} : server'[s] = server[s]
<1>. DEFINE v == [server[r] EXCEPT !.state = "gone", !.rv = @ + 1]
<1>1. TypeOK /\ server[r] \in Objects /\ server[r].state = "present"
  BY DEF LifecycleInv, TypeOK, StoreTypeOK, Deletion, Removed
<1>2. server' = [server EXCEPT ![r] = v]
  BY DEF Deletion, Removed, Delete, Write
<1>3. v.state = "gone" /\ v.phase = server[r].phase /\ v.diag = server[r].diag
      /\ v.notified = server[r].notified
  <2>1. server[r] \in Objects
    BY <1>1
  <2>. QED
    BY <2>1, GoneFields, Zenon
<1>. HIDE DEF v
<1>4. server'[r] = v /\ \A s \in Reports \ {r} : server'[s] = server[s]
  BY <1>1, <1>2 DEF TypeOK, StoreTypeOK
<1>. QED
  BY <1>1, <1>3, <1>4 DEF Evolves

\* Every step of the system.
LEMMA ServerEvolves ==
  ASSUME LifecycleInv, [Next]_vars, NEW s \in Reports
  PROVE  Evolves(server[s], server'[s])
<1>1. CASE server' = server
  BY <1>1, SMTT(30) DEF Evolves
<1>2. ASSUME NEW r \in Reports, ReporterStep(r) \/ Worker(r) \/ Deletion(r)
      PROVE  Evolves(server[s], server'[s])
  <2>1. Evolves(server[r], server'[r]) /\ \A q \in Reports \ {r} : server'[q] = server[q]
    BY <1>2, AgentEvolves, WorkerEvolves, DeletionEvolves
  <2>. QED
    BY <2>1, SMTT(90) DEF Evolves
<1>3. \/ server' = server
      \/ \E r \in Reports : ReporterStep(r) \/ Worker(r) \/ Deletion(r)
  BY DEF Next, Agent, ReporterNext, CancelReports, AgentDies, Stop, ControllerStops, Start,
         ControllerStarts, Clock, Tick, Informer, Observe, Deliver, Timer, Requeue, vars, storeVars
<1>. QED
  BY <1>1, <1>2, <1>3

\* The mark is final: no write of the agent, however late, takes it back.
THEOREM TheMarkIsFinal == Spec => ProcessedIsFinal
<1>1. ASSUME LifecycleInv, [Next]_vars, NEW r \in Reports, server[r].phase = "Processed"
      PROVE  server'[r].phase = "Processed"
  BY <1>1, ServerEvolves DEF Evolves
<1>2. LifecycleInv /\ [Next]_vars
        => [\A r \in Reports : server[r].phase = "Processed"
                                 => server'[r].phase = "Processed"]_vars
  BY <1>1
<1>. QED
  BY <1>2, LifecycleSafe, PTL DEF Spec, ProcessedIsFinal

\* Diagnostics and notifiedAt survive every later write.
THEOREM TheStatusSurvives == Spec => StatusNeverLost
<1>1. ASSUME LifecycleInv, [Next]_vars, NEW r \in Reports
      PROVE  /\ server[r].diag = "full" => server'[r].diag = "full"
             /\ server[r].notified => server'[r].notified
  BY <1>1, ServerEvolves DEF Evolves
<1>2. LifecycleInv /\ [Next]_vars
        => [\A r \in Reports : /\ server[r].diag = "full" => server'[r].diag = "full"
                               /\ server[r].notified => server'[r].notified]_vars
  BY <1>1
<1>. QED
  BY <1>2, LifecycleSafe, PTL DEF Spec, StatusNeverLost

-----------------------------------------------------------------------------
\* ReportLifecycle implements CrashAlert.

\* The abstract state a report's object and alert map to.
StageOf == [r \in Reports |-> Stage(server[r])]
AccountedOf == [r \in Reports |-> delivered[r] # {} \/ dropped[r]]

\* The stage of an object in each of its states.
LEMMA StageValues ==
  ASSUME NEW o
  PROVE  /\ o.state = "absent" => Stage(o) = "none"
         /\ o.state = "gone" => Stage(o) = "gone"
         /\ o.state = "present" /\ o.phase = "unset" => Stage(o) = "raw"
         /\ o.state = "present" /\ o.phase = "Pending" => Stage(o) = "diagnosed"
         /\ o.state = "present" /\ o.phase = "Processed" => Stage(o) = "settled"
BY SMTT(60) DEF Stage

\* A step that moves the stage of one report.
LEMMA StageMoves ==
  ASSUME NEW r \in Reports, \A s \in Reports \ {r} : server'[s] = server[s]
  PROVE  StageOf' = [StageOf EXCEPT ![r] = Stage(server'[r])]
BY Zenon DEF StageOf

\* A step of one report's object, with its alert untouched, is a step of
\* CrashAlert or changes nothing there.
LEMMA ObjectStep ==
  ASSUME LifecycleInv, LifecycleInv', NEW r \in Reports, Evolves(server[r], server'[r]),
         \A s \in Reports \ {r} : server'[s] = server[s],
         UNCHANGED <<delivered, dropped>>
  PROVE  [Alert!AlertNext]_(Alert!alertState)
<1>1. /\ StageOf[r] = Stage(server[r]) /\ AccountedOf' = AccountedOf
      /\ StageOf' = [StageOf EXCEPT ![r] = Stage(server'[r])]
      /\ StageOf = [StageOf EXCEPT ![r] = Stage(server[r])]
  BY StageMoves, Zenon DEF StageOf, AccountedOf
<1>2. CASE Stage(server'[r]) = Stage(server[r])
  <2>1. StageOf' = StageOf
    BY <1>1, <1>2
  <2>. QED
    BY <1>1, <2>1 DEF Alert!alertState, StageOf, AccountedOf
<1>3. CASE server[r].state = "absent" /\ server'[r].state = "present" /\ server'[r].phase = "unset"
  <2>1. Alert!File(r)
    BY <1>1, <1>3, StageValues, Zenon DEF Alert!File, Alert!Moves, StageOf, AccountedOf
  <2>. QED
    BY <2>1 DEF Alert!AlertNext
<1>4. CASE /\ server[r].state = "present" /\ server[r].phase = "unset"
           /\ server'[r].state = "present" /\ server'[r].phase = "Pending"
  <2>1. Alert!Diagnose(r)
    BY <1>1, <1>4, StageValues, Zenon DEF Alert!Diagnose, Alert!Moves, StageOf, AccountedOf
  <2>. QED
    BY <2>1 DEF Alert!AlertNext
<1>5. CASE /\ server[r].state = "present"
           /\ server'[r].state = "present" /\ server'[r].phase = "Processed"
  <2>1. server[r].phase \in {"unset", "Pending", "Processed"}
    BY DEF LifecycleInv, TypeOK, StoreTypeOK, Objects, Phases
  <2>2. CASE server[r].phase = "Processed"
    BY <1>2, <1>5, <2>2, StageValues
  <2>3. CASE server[r].phase # "Processed"
    <3>1. Stage(server[r]) \in {"raw", "diagnosed"} /\ Stage(server'[r]) = "settled"
      BY <1>5, <2>1, <2>3, StageValues
    <3>2. WebhookEnabled => delivered[r] # {} \/ dropped[r]
      BY <1>5 DEF LifecycleInv, ReportSound, OutcomeSound
    <3>3. WebhookEnabled => AccountedOf[r]
      BY <3>2, Zenon DEF AccountedOf
    <3>4. Alert!Settle(r)
      BY <1>1, <3>1, <3>3 DEF Alert!Settle, Alert!Open, Alert!Moves, StageOf, AccountedOf
    <3>. QED
      BY <3>4 DEF Alert!AlertNext
  <2>. QED
    BY <2>2, <2>3
<1>6. CASE server[r].state = "present" /\ server'[r].state = "gone"
  <2>1. server[r].phase \in {"unset", "Pending", "Processed"}
    BY DEF LifecycleInv, TypeOK, StoreTypeOK, Objects, Phases
  <2>2. Stage(server[r]) \in {"raw", "diagnosed", "settled"} /\ Stage(server'[r]) = "gone"
    BY <1>6, <2>1, StageValues
  <2>3. Alert!Remove(r)
    BY <1>1, <2>2 DEF Alert!Remove, Alert!Open, Alert!Moves, StageOf, AccountedOf
  <2>. QED
    BY <2>3 DEF Alert!AlertNext
<1>. QED
  BY <1>2, <1>3, <1>4, <1>5, <1>6 DEF Evolves

\* A delivery or a drop accounts for the alert of one report.
LEMMA SendStep ==
  ASSUME LifecycleInv, NEW r \in Reports, SendSucceeds(r) \/ SendFails(r)
  PROVE  [Alert!AlertNext]_(Alert!alertState)
<1>1. /\ server' = server /\ rec[r].pc = "send"
      /\ WebhookEnabled /\ server[r].state \in {"present", "gone"}
  BY DEF SendSucceeds, SendFails, storeVars, LifecycleInv, ReportSound, WorkSound, TypeOK,
         StoreTypeOK, Objects
<1>2. StageOf' = StageOf
  BY <1>1 DEF StageOf
<1>3. /\ \A s \in Reports \ {r} : delivered'[s] = delivered[s]
      /\ delivered[r] # {} => delivered'[r] # {}
  BY DEF SendSucceeds, SendFails, LifecycleInv, TypeOK, ReconcilerTypeOK
<1>4. /\ \A s \in Reports \ {r} : dropped'[s] = dropped[s]
      /\ dropped[r] => dropped'[r]
  <2>1. dropped' = dropped \/ dropped' = [dropped EXCEPT ![r] = TRUE]
    BY DEF SendSucceeds, SendFails
  <2>. QED
    BY <2>1 DEF LifecycleInv, TypeOK, ReconcilerTypeOK
<1>5. CASE AccountedOf'[r] = AccountedOf[r]
  <2>1. AccountedOf' = AccountedOf
    BY <1>3, <1>4, <1>5 DEF AccountedOf
  <2>. QED
    BY <1>2, <2>1 DEF Alert!alertState, StageOf, AccountedOf
<1>6. CASE AccountedOf'[r] # AccountedOf[r]
  <2>1. ~AccountedOf[r] /\ AccountedOf'[r] = TRUE
    BY <1>3, <1>4, <1>6, Zenon DEF AccountedOf
  <2>2. AccountedOf' = [AccountedOf EXCEPT ![r] = TRUE]
    BY <1>3, <1>4, <2>1, Zenon DEF AccountedOf
  <2>3. server[r].phase \in {"unset", "Pending", "Processed"}
    BY DEF LifecycleInv, TypeOK, StoreTypeOK, Objects, Phases
  <2>4. StageOf[r] # "none"
    BY <1>1, <2>3, StageValues DEF StageOf
  <2>5. Alert!Account(r)
    BY <1>1, <1>2, <2>1, <2>2, <2>4 DEF Alert!Account, StageOf, AccountedOf
  <2>. QED
    BY <2>5 DEF Alert!AlertNext
<1>. QED
  BY <1>5, <1>6

\* Every step of the lifecycle is a step of CrashAlert or a stutter there.
LEMMA NextImplements == LifecycleInv /\ [Next]_vars => [Alert!AlertNext]_(Alert!alertState)
<1>. SUFFICES ASSUME LifecycleInv, [Next]_vars PROVE [Alert!AlertNext]_(Alert!alertState)
  OBVIOUS
<1>1. LifecycleInv'
  BY NextSound
<1>2. CASE UNCHANGED <<server, delivered, dropped>>
  BY <1>2 DEF Alert!alertState
<1>3. ASSUME NEW r \in Reports,
             ReporterStep(r) \/ Worker(r) \/ Deletion(r), UNCHANGED <<delivered, dropped>>
      PROVE  [Alert!AlertNext]_(Alert!alertState)
  <2>1. /\ Evolves(server[r], server'[r])
        /\ \A s \in Reports \ {r} : server'[s] = server[s]
    <3>1. CASE ReporterStep(r)
      BY <3>1, AgentEvolves
    <3>2. CASE Worker(r)
      BY <3>2, WorkerEvolves
    <3>3. CASE Deletion(r)
      BY <3>3, DeletionEvolves
    <3>. QED
      BY <1>3, <3>1, <3>2, <3>3
  <2>. QED
    BY <1>1, <1>3, <2>1, ObjectStep
<1>4. \/ UNCHANGED <<server, delivered, dropped>>
      \/ \E r \in Reports : /\ ReporterStep(r) \/ Worker(r) \/ Deletion(r)
                            /\ UNCHANGED <<delivered, dropped>>
      \/ \E r \in Reports : SendSucceeds(r) \/ SendFails(r)
  <2>1. CASE Agent
    BY <2>1 DEF Agent, ReporterNext, CancelReports, AgentDies, storeVars, reconcilerVars, alertVars
  <2>2. CASE Stop \/ Start \/ Clock \/ UNCHANGED vars
    BY <2>2 DEF Stop, ControllerStops, Start, ControllerStarts, Clock, Tick, vars, storeVars,
                reconcilerVars, alertVars
  <2>3. CASE \E r \in Reports : Informer(r) \/ Timer(r)
    BY <2>3 DEF Informer, Observe, Deliver, Timer, Requeue, storeVars, alertVars
  <2>4. ASSUME NEW r \in Reports, Worker(r)
        PROVE  SendSucceeds(r) \/ SendFails(r) \/ UNCHANGED <<delivered, dropped>>
    BY <2>4 DEF Worker, ReconcileStep, ReconcileSkips, ReconcileWaits, ReconcileBegins, Reread,
                MarkProcessed, MarkFails, EmitEvent, alertVars
  <2>5. ASSUME NEW r \in Reports, Deletion(r)
        PROVE  UNCHANGED <<delivered, dropped>>
    BY <2>5 DEF Deletion, reconcilerVars, alertVars
  <2>. QED
    BY <2>1, <2>2, <2>3, <2>4, <2>5 DEF Next
<1>. QED
  BY <1>2, <1>3, <1>4, SendStep

\* The initial states agree.
LEMMA InitImplements == Init => Alert!AlertInit
<1>. SUFFICES ASSUME Init PROVE Alert!AlertInit
  OBVIOUS
<1>1. \A r \in Reports : Stage(server[r]) = "none"
  BY Fields, StageValues, Zenon DEF Init, StoreInit
<1>2. \A r \in Reports : (delivered[r] # {} \/ dropped[r]) = FALSE
  BY Zenon DEF Init, ReconcilerInit
<1>. QED
  BY <1>1, <1>2, Zenon DEF Alert!AlertInit

\* Whatever the agent, the cache, the workers and the crashes do, a report is
\* filed, diagnosed at most once, settled only with its alert accounted for,
\* and never unsettled.
THEOREM LifecycleImplementsAlert == Spec => Alert!AlertSafety
BY InitImplements, NextImplements, LifecycleSafe, PTL DEF Spec, Alert!AlertSafety

=============================================================================
