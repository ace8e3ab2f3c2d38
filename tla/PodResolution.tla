---------------------------- MODULE PodResolution ----------------------------
(***************************************************************************)
(* How a worker finds out whose container was killed and reads its log:    *)
(* Reporter.ResolvePodMeta over the agent's pod cache, and then            *)
(* LogCapturer.CaptureLogTail, while the kubelet restarts, replaces and    *)
(* removes the very container they are looking for.                        *)
(*                                                                         *)
(* Every pod has one container.  Its incarnations are numbered from 0, and *)
(* the container ID of one is its pod and its number.                      *)
(*   live[p]  what the kubelet is doing: the state and the incarnation     *)
(*   seen[p]  the container status of p in the agent's informer cache,     *)
(*            some status the kubelet had to publish earlier, or none      *)
(*   logs[p]  the incarnations whose log file is on the node: <n>.log      *)
(*   frozen   the manager has stopped, and its cache with it               *)
(*   cancelled reportCtx is done                                           *)
(*   job      the worker, see Jobs                                         *)
(***************************************************************************)
EXTENDS Integers, FiniteSets, FiniteSetsExt

CONSTANTS
  Pods,
  LastIncarnation,    \* bound on restarts
  ResolveSteps,       \* resolveRetryBackoff.Steps
  logCaptureRetries,
  CaptureLogs

ASSUME ResolutionAssumption ==
  /\ LastIncarnation \in Nat /\ ResolveSteps \in Nat \ {0}
  /\ logCaptureRetries \in Nat \ {0} /\ CaptureLogs \in BOOLEAN

VARIABLES live, seen, logs, frozen, cancelled, job

kubeletVars == <<live, logs>>
vars == <<live, seen, logs, frozen, cancelled, job>>

NoIncarnation == -1

Incarnations == 0..LastIncarnation

\* Somebody's process outside any pod: a systemd unit, sshd, the kubelet.
NoPod == "outside"

Victims == (Pods \X Incarnations) \cup {<<NoPod, 0>>}

\* What the cache holds of a container: its state, the ID of the current incarnation,
\* the one in lastState.terminated, and the restart count. State "none" is a pod that
\* is not in the cache, or that has no container status yet.
Statuses ==
  [state : {"none", "waiting", "running", "terminated"},
   id    : Incarnations \cup {NoIncarnation},
   last  : Incarnations \cup {NoIncarnation},
   count : Nat]

NoStatus == [state |-> "none", id |-> NoIncarnation, last |-> NoIncarnation, count |-> 0]

\* What the kubelet may publish. The ID of a container that has just started may be
\* missing, and the restart count may not have been updated: it is then still 0.
StatusesOf(l) ==
  LET n == l.inc
      at(s, ids, last) == [state : {s}, id : ids, last : {last}, count : {n, 0}]
  IN  CASE l.state = "creating" -> {NoStatus} \cup at("waiting", {NoIncarnation}, NoIncarnation)
        [] l.state = "running"  -> at("running", {n, NoIncarnation}, n - 1)
        [] l.state = "dead"     -> at("terminated", {n}, n - 1)
        [] l.state = "backoff"  -> at("waiting", {n}, n)
        [] l.state = "removed"  -> {NoStatus}

\* The restart count of a status that names a container is not the one of its IDs.
CountBehind(s) == s.count \notin {s.id, s.last + 1}

\* pc is "idle", "lookup", "capture" or "done". outcome says how ResolvePodMeta
\* returned; "final", "exhausted" and "cancelled" are all counted as StageNoPod.
\* behind records that the status the pod was found by had an old restart count.
Jobs ==
  [pc      : {"idle", "lookup", "capture", "done"},
   victim  : Victims,
   tries   : Nat,
   outcome : {"none", "resolved", "list_pods", "final", "exhausted", "cancelled"},
   pod     : Pods \cup {NoPod},
   index   : Incarnations \cup {NoIncarnation},
   behind  : BOOLEAN,
   log     : Incarnations \cup {NoIncarnation}]

Init ==
  /\ live = [p \in Pods |-> [state |-> "creating", inc |-> 0]]
  /\ seen = [p \in Pods |-> NoStatus]
  /\ logs = [p \in Pods |-> {}]
  /\ frozen = FALSE /\ cancelled = FALSE
  /\ job = [pc |-> "idle", victim |-> <<NoPod, 0>>, tries |-> ResolveSteps, outcome |-> "none",
            pod |-> NoPod, index |-> NoIncarnation, behind |-> FALSE, log |-> NoIncarnation]

-----------------------------------------------------------------------------
\* The kubelet and the kernel.

\* An incarnation starts; of the dead ones the kubelet keeps only the last.
ContainerStarts(p) ==
  LET n == IF live[p].state = "creating" THEN 0 ELSE live[p].inc + 1
  IN  /\ live[p].state \in {"creating", "dead", "backoff"}
      /\ n <= LastIncarnation
      /\ live' = [live EXCEPT ![p] = [state |-> "running", inc |-> n]]
      /\ logs' = [logs EXCEPT ![p] = (@ \cap {n - 1}) \cup {n}]
      /\ UNCHANGED <<seen, frozen, cancelled, job>>

BacksOff(p) ==
  /\ live[p].state = "dead"
  /\ live' = [live EXCEPT ![p].state = "backoff"]
  /\ UNCHANGED <<seen, logs, frozen, cancelled, job>>

PodRemoved(p) ==
  /\ live[p].state # "removed"
  /\ live' = [live EXCEPT ![p].state = "removed"]
  /\ logs' = [logs EXCEPT ![p] = {}]
  /\ UNCHANGED <<seen, frozen, cancelled, job>>

LogRemoved(p) ==
  /\ logs[p] # {}
  /\ \E n \in logs[p] : logs' = [logs EXCEPT ![p] = @ \ {n}]
  /\ UNCHANGED <<live, seen, frozen, cancelled, job>>

\* A process of the container is killed and a worker is given the event. The
\* container dies with it unless it was not the main process.
OOMKill(p) ==
  /\ live[p].state = "running" /\ job.pc = "idle"
  /\ \/ live' = [live EXCEPT ![p].state = "dead"]
     \/ UNCHANGED live
  /\ job' = [job EXCEPT !.pc = "lookup", !.victim = <<p, live[p].inc>>]
  /\ UNCHANGED <<seen, logs, frozen, cancelled>>

OutsiderKilled ==
  /\ job.pc = "idle"
  /\ job' = [job EXCEPT !.pc = "lookup"]
  /\ UNCHANGED <<kubeletVars, seen, frozen, cancelled>>

\* A container that nobody asks about dies.
ContainerExits(p) ==
  /\ live[p].state = "running"
  /\ live' = [live EXCEPT ![p].state = "dead"]
  /\ UNCHANGED <<seen, logs, frozen, cancelled, job>>

\* The cache catches up with p, as far as the kubelet has.
Observe(p) ==
  /\ ~frozen
  /\ \E s \in StatusesOf(live[p]) : seen' = [seen EXCEPT ![p] = s]
  /\ UNCHANGED <<kubeletVars, frozen, cancelled, job>>

\* SIGTERM stops the manager; reportCtx is cancelled when the drain is over.
ManagerStops ==
  /\ ~frozen
  /\ frozen' = TRUE
  /\ UNCHANGED <<kubeletVars, seen, cancelled, job>>

ReportsCancelled ==
  /\ frozen /\ ~cancelled
  /\ cancelled' = TRUE
  /\ UNCHANGED <<kubeletVars, seen, frozen, job>>

-----------------------------------------------------------------------------
\* The worker.

\* findContainerByID: the current ID is compared first, then the previous one.
containerIDsMatch(id, n) == id # NoIncarnation /\ id = n

Finds(p, v) ==
  /\ p = v[1]
  /\ containerIDsMatch(seen[p].id, v[2]) \/ containerIDsMatch(seen[p].last, v[2])

\* Variant: the previous incarnation is given the current one's log index.
findContainerByID_current(p, n) == seen[p].count

findContainerByID(p, n) ==
  IF containerIDsMatch(seen[p].id, n) THEN seen[p].count ELSE seen[p].count - 1

\* Variant: a single lookup.
anyContainerIDPending_never == FALSE

anyContainerIDPending ==
  \E p \in Pods : /\ seen[p].state # "none"
                  /\ \/ seen[p].id = NoIncarnation /\ seen[p].state # "terminated"
                     \/ seen[p].state = "waiting"

Ends(outcome) ==
  /\ job' = [job EXCEPT !.pc = "done", !.outcome = outcome]
  /\ UNCHANGED <<kubeletVars, seen, frozen, cancelled>>

ListFails == job.pc = "lookup" /\ Ends("list_pods")

Resolves(p) ==
  /\ job.pc = "lookup"
  /\ Finds(p, job.victim)
  /\ job' = [job EXCEPT !.pc = IF CaptureLogs THEN "capture" ELSE "done",
                        !.tries = logCaptureRetries,
                        !.outcome = "resolved",
                        !.pod = p,
                        !.index = findContainerByID(p, job.victim[2]),
                        !.behind = CountBehind(seen[p])]
  /\ UNCHANGED <<kubeletVars, seen, frozen, cancelled>>

NotFound == job.pc = "lookup" /\ \A p \in Pods : ~Finds(p, job.victim)

\* No container in the cache is waiting for its ID: the answer is taken as final.
GivesUp == NotFound /\ ~anyContainerIDPending /\ Ends("final")

LooksAgain ==
  /\ NotFound /\ anyContainerIDPending
  /\ IF job.tries = 1 THEN Ends("exhausted")
     ELSE /\ job' = [job EXCEPT !.tries = @ - 1]
          /\ UNCHANGED <<kubeletVars, seen, frozen, cancelled>>

\* reportCtx is done while retryOnBackoff sleeps before another attempt.
LookupCancelled ==
  /\ job.pc = "lookup" /\ cancelled /\ job.tries < ResolveSteps
  /\ Ends("cancelled")

\* Variant: always the newest file.
LogFiles_newest == {n \in logs[job.pod] : n = Max(logs[job.pod])}

\* findLogFile: the file of the named incarnation, or the newest when the index
\* is negative.
LogFiles == IF job.index >= 0 THEN logs[job.pod] \cap {job.index}
            ELSE {n \in logs[job.pod] : n = Max(logs[job.pod])}

CaptureSucceeds ==
  /\ job.pc = "capture"
  /\ \E n \in LogFiles : job' = [job EXCEPT !.pc = "done", !.log = n]
  /\ UNCHANGED <<kubeletVars, seen, frozen, cancelled>>

\* No such file, or it cannot be read just now; after the last attempt the report
\* goes out without log lines.
CaptureFails ==
  /\ job.pc = "capture"
  /\ job' = IF job.tries = 1 THEN [job EXCEPT !.pc = "done"] ELSE [job EXCEPT !.tries = @ - 1]
  /\ UNCHANGED <<kubeletVars, seen, frozen, cancelled>>

-----------------------------------------------------------------------------

Kubelet(p) == \/ ContainerStarts(p) \/ BacksOff(p) \/ PodRemoved(p) \/ LogRemoved(p)
              \/ ContainerExits(p) \/ OOMKill(p) \/ Observe(p)

Worker ==
  \/ ListFails \/ GivesUp \/ LooksAgain \/ LookupCancelled
  \/ CaptureSucceeds \/ CaptureFails
  \/ \E p \in Pods : Resolves(p)

Next == \/ OutsiderKilled \/ ManagerStops \/ ReportsCancelled \/ Worker
        \/ \E p \in Pods : Kubelet(p)

Spec == Init /\ [][Next]_vars

-----------------------------------------------------------------------------

\* A report names the victim's pod and, through the log index, the incarnation that
\* was killed, however many restarts the cache has or has not seen. Only an old
\* restart count can make the index another one, or unknown (findContainerByID).
ResolvedIsVictim ==
  job.outcome = "resolved" =>
    /\ job.pod = job.victim[1]
    /\ job.behind \/ job.index = job.victim[2]

\* Unless the restart count was old, the log attached to a report was written by the
\* incarnation that was killed, never by the one that replaced it, although the files
\* are looked up after the status was read and the kubelet goes on in between
\* (findLogFile). With an old count it is whatever file the index names, or the newest.
CapturedIsVictims ==
  job.log # NoIncarnation /\ ~job.behind => <<job.pod, job.log>> = job.victim

\* A container killed right after its first start, of which the cache has a status,
\* is not discarded: its lookup is given up early only when the pod has been removed,
\* or has since been restarted so often that the status no longer mentions the victim
\* (anyContainerIDPending, and the previous incarnation in findContainerByID).
FirstKillNotDiscarded ==
  [][job.outcome = "none" /\ job'.outcome = "final" =>
       \A p \in Pods : job.victim = <<p, 0>> /\ seen[p].state # "none" =>
         live[p].state = "removed" \/ live[p].inc >= 2]_vars

-----------------------------------------------------------------------------

\* The comment in ResolvePodMeta says that once every ID is published the answer is
\* final and the victim belongs to no pod. Here the victim's pod is still there, and
\* the victim is its current incarnation.
FinalMeansOutsider ==
  job.outcome = "final" =>
    \A p \in Pods : job.victim[1] = p =>
      live[p].state = "removed" \/ live[p].inc # job.victim[2]

=============================================================================
