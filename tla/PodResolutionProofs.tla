------------------------- MODULE PodResolutionProofs -------------------------
(***************************************************************************)
(* Whose container was killed, for any number of pods and restarts: the    *)
(* properties of PodResolution follow from what a cached status, however   *)
(* old, says of the incarnations.                                          *)
(***************************************************************************)
EXTENDS PodResolution, TLAPS

LiveStates == [state : {"creating", "running", "dead", "backoff", "removed"},
               inc   : Incarnations]

\* A status in the cache, if there is one, was published by the kubelet at some time: it
\* is not ahead of the kubelet.
SeenInv ==
  /\ live \in [Pods -> LiveStates]
  /\ \A p \in Pods : live[p].state = "creating" => live[p].inc = 0
  /\ DOMAIN seen = Pods
  /\ \A p \in Pods : \E l \in LiveStates : seen[p] \in StatusesOf(l) /\ l.inc <= live[p].inc

JobInv ==
  /\ job \in Jobs /\ job.tries \in Nat \ {0}
  /\ job.pc = "idle" => job.outcome = "none"
  /\ job.pc \in {"idle", "lookup"} => job.log = NoIncarnation
  /\ job.pc = "capture" => job.outcome = "resolved"
  /\ job.outcome = "resolved" => job.pod \in Pods
  /\ logs \in [Pods -> SUBSET Incarnations]

ResolutionInv == SeenInv /\ JobInv /\ ResolvedIsVictim /\ CapturedIsVictims

\* What a status says: the current ID, when it is there, is the incarnation, and the
\* previous one, unless it is the same, is one less.
StatusSays(l, s) ==
  /\ l.inc \in Nat
  /\ s.state \in {"none", "waiting", "running", "terminated"}
  /\ s.count \in {l.inc, 0}
  /\ s.id \in {l.inc, NoIncarnation}
  /\ s.last \in {l.inc - 1, l.inc, NoIncarnation}
  /\ s.last = l.inc => s.id = l.inc
  /\ s.id # NoIncarnation => s.last # NoIncarnation \/ l.inc = 0
  /\ s.state \in {"running", "terminated"} => s.last = l.inc - 1
  /\ s.state = "terminated" => s.id = l.inc

\* Every status the kubelet may publish says so.
LEMMA StatusFacts ==
  ASSUME NEW l \in LiveStates, NEW s \in StatusesOf(l)
  PROVE  StatusSays(l, s)
<1>1. l.inc \in Nat /\ l.state \in {"creating", "running", "dead", "backoff", "removed"}
  BY ResolutionAssumption DEF LiveStates, Incarnations
<1>2. CASE s = NoStatus
  BY <1>1, <1>2 DEF StatusSays, NoStatus, NoIncarnation
<1>3. CASE l.state = "creating" /\ s # NoStatus
  BY <1>1, <1>3 DEF StatusesOf, StatusSays, NoIncarnation
<1>4. CASE l.state = "running"
  BY <1>1, <1>4 DEF StatusesOf, StatusSays, NoIncarnation
<1>5. CASE l.state = "dead"
  BY <1>1, <1>5 DEF StatusesOf, StatusSays, NoIncarnation
<1>6. CASE l.state = "backoff"
  BY <1>1, <1>6 DEF StatusesOf, StatusSays, NoIncarnation
<1>7. CASE l.state = "removed"
  BY <1>2, <1>7 DEF StatusesOf
<1>8. QED
  BY <1>1, <1>2, <1>3, <1>4, <1>5, <1>6, <1>7

\* The log index findContainerByID returns is a number or -1, and, when the restart count
\* is not old, the incarnation it was asked for.
LEMMA IndexIsVictims ==
  ASSUME SeenInv, NEW p \in Pods, NEW v \in Victims, Finds(p, v)
  PROVE  /\ p = v[1]
         /\ findContainerByID(p, v[2]) \in Incarnations \cup {NoIncarnation}
         /\ CountBehind(seen[p]) \/ findContainerByID(p, v[2]) = v[2]
<1>1. PICK l \in LiveStates : seen[p] \in StatusesOf(l)
  BY DEF SeenInv
<1> DEFINE s == seen[p]
<1>2. StatusSays(l, s)
  BY <1>1, StatusFacts
<1>3. p = v[1] /\ l.inc \in Incarnations
  BY DEF Finds, LiveStates
<1>4. s.count \in Nat /\ s.count \in Incarnations /\ s.count - 1 \in Incarnations \cup {NoIncarnation}
  BY <1>2, <1>3, ResolutionAssumption DEF StatusSays, Incarnations, NoIncarnation
<1> HIDE DEF s
<1>5. CASE containerIDsMatch(s.id, v[2])
  <2>1. s.id = l.inc /\ v[2] = l.inc /\ s.id # NoIncarnation
    BY <1>2, <1>5 DEF StatusSays, containerIDsMatch
  <2>2. s.count \in {s.id, s.last + 1} => s.count = l.inc
    BY <1>2, <2>1 DEF StatusSays, NoIncarnation
  <2>3. findContainerByID(p, v[2]) = s.count
    BY <1>5 DEF findContainerByID, s
  <2>4. QED
    BY <1>3, <1>4, <2>1, <2>2, <2>3 DEF CountBehind, s
<1>6. CASE ~containerIDsMatch(s.id, v[2])
  <2>1. s.last # NoIncarnation /\ s.last = v[2]
    BY <1>6 DEF Finds, containerIDsMatch, s
  <2>2. s.last # l.inc
    BY <1>2, <1>6, <2>1 DEF StatusSays, containerIDsMatch, NoIncarnation
  <2>3. s.last = l.inc - 1 /\ l.inc # 0
    BY <1>2, <2>1, <2>2 DEF StatusSays, NoIncarnation
  <2>4. s.count \in {s.id, s.last + 1} => s.count = l.inc
    BY <1>2, <2>3 DEF StatusSays, NoIncarnation
  <2>5. findContainerByID(p, v[2]) = s.count - 1
    BY <1>6 DEF findContainerByID, s
  <2>6. s.count = l.inc => s.count - 1 = v[2]
    BY <2>1, <2>3
  <2>7. QED
    BY <1>3, <1>4, <2>4, <2>5, <2>6 DEF CountBehind, s
<1>7. QED
  BY <1>5, <1>6

\* What the kubelet does to a pod is never undone.
Forward ==
  /\ live' \in [Pods -> LiveStates]
  /\ \A p \in Pods : /\ live[p].inc <= live'[p].inc
                     /\ live'[p].state = "creating" => live'[p].inc = 0

\* Incarnations are numbers.
LEMMA Incs ==
  ASSUME NEW l \in LiveStates
  PROVE  l.inc \in Nat /\ l.inc \in Incarnations
BY ResolutionAssumption DEF LiveStates, Incarnations

\* A pod that is given a later state moves on.
LEMMA SetLive ==
  ASSUME SeenInv, NEW p \in Pods, NEW l \in LiveStates, l.state # "creating",
         live[p].inc <= l.inc, live[p].state # "removed", live' = [live EXCEPT ![p] = l]
  PROVE  Forward
<1>1. \A q \in Pods : live[q] \in LiveStates /\ live[q].inc \in Nat
  BY Incs DEF SeenInv
<1>2. live' \in [Pods -> LiveStates]
  BY DEF SeenInv
<1>3. live'[p] = l /\ \A q \in Pods \ {p} : live'[q] = live[q]
  BY DEF SeenInv
<1>4. ASSUME NEW q \in Pods
      PROVE  /\ live[q].inc <= live'[q].inc
             /\ live'[q].state = "creating" => live'[q].inc = 0
  <2>1. CASE q = p
    BY <1>3, <2>1
  <2>2. CASE q # p
    BY <1>1, <1>3, <2>2 DEF SeenInv
  <2>3. QED
    BY <2>1, <2>2
<1>5. QED
  BY <1>2, <1>4 DEF Forward

\* The kubelet only moves pods on.
LEMMA KubeletForward ==
  ASSUME SeenInv, NEW p \in Pods,
         \/ ContainerStarts(p) \/ BacksOff(p) \/ PodRemoved(p) \/ LogRemoved(p)
         \/ ContainerExits(p) \/ OOMKill(p)
  PROVE  Forward
<1>1. live \in [Pods -> LiveStates] /\ live[p] \in LiveStates
  BY DEF SeenInv
<1>2. live[p].inc \in Nat
  BY <1>1, Incs
<1>3. ASSUME NEW st \in {"dead", "backoff", "removed"}, live[p].state # "removed",
             live' = [live EXCEPT ![p].state = st]
      PROVE  Forward
  <2> DEFINE l == [live[p] EXCEPT !.state = st]
  <2>1. l \in LiveStates /\ l.inc = live[p].inc /\ l.state # "creating"
    BY <1>1 DEF LiveStates
  <2>2. live' = [live EXCEPT ![p] = l]
    BY <1>3
  <2>3. live[p].inc <= l.inc
    BY <1>2, <2>1
  <2> HIDE DEF l
  <2>4. QED
    BY <1>3, <2>1, <2>2, <2>3, SetLive, Zenon
<1>4. CASE live' = live
  <2>1. \A q \in Pods : live[q].inc \in Nat
    BY <1>1, Incs
  <2>2. QED
    BY <1>1, <1>4, <2>1 DEF Forward, SeenInv
<1>5. CASE ContainerStarts(p)
  <2> DEFINE n == IF live[p].state = "creating" THEN 0 ELSE live[p].inc + 1
             l == [state |-> "running", inc |-> n]
  <2>1. /\ n <= LastIncarnation /\ live' = [live EXCEPT ![p] = l]
        /\ live[p].state \in {"creating", "dead", "backoff"}
    BY <1>5 DEF ContainerStarts
  <2>2. n \in Nat
    BY <1>2
  <2>3. l \in LiveStates /\ l.inc = n /\ l.state # "creating"
    BY <2>1, <2>2, ResolutionAssumption DEF LiveStates, Incarnations
  <2>4. CASE live[p].state # "creating"
    <3>1. live[p].inc <= l.inc
      BY <1>2, <2>3, <2>4
    <3> HIDE DEF l
    <3>2. QED
      BY <2>1, <2>3, <3>1, SetLive, Zenon
  <2>5. CASE live[p].state = "creating"
    <3>1. live[p].inc = 0
      BY <2>5 DEF SeenInv
    <3>2. live[p].inc <= l.inc
      BY <2>2, <2>3, <3>1
    <3> HIDE DEF l
    <3>3. QED
      BY <2>1, <2>3, <3>2, SetLive, Zenon
  <2>6. QED
    BY <2>4, <2>5
<1>6. CASE BacksOff(p)
  BY <1>3, <1>6 DEF BacksOff
<1>7. CASE PodRemoved(p)
  BY <1>3, <1>7 DEF PodRemoved
<1>8. CASE LogRemoved(p)
  BY <1>4, <1>8 DEF LogRemoved
<1>9. CASE ContainerExits(p)
  BY <1>3, <1>9 DEF ContainerExits
<1>10. CASE OOMKill(p)
  BY <1>3, <1>4, <1>10 DEF OOMKill
<1>11. QED
  BY <1>5, <1>6, <1>7, <1>8, <1>9, <1>10

\* The kubelet going forward, a cached status stays one it has published,
LEMMA SeenForward ==
  ASSUME SeenInv, Forward, seen' = seen PROVE SeenInv'
<1>1. ASSUME NEW p \in Pods
      PROVE  \E l \in LiveStates : seen[p] \in StatusesOf(l) /\ l.inc <= live'[p].inc
  <2>1. PICK l \in LiveStates : seen[p] \in StatusesOf(l) /\ l.inc <= live[p].inc
    BY DEF SeenInv
  <2>2. l.inc \in Nat /\ live[p].inc \in Nat /\ live'[p].inc \in Nat
    BY Incs DEF SeenInv, Forward
  <2>3. l.inc <= live'[p].inc
    BY <2>1, <2>2 DEF Forward
  <2>4. QED
    BY <2>1, <2>3
<1>2. QED
  BY <1>1 DEF SeenInv, Forward

\* and so does a fresh one.
LEMMA SeenObserve ==
  ASSUME SeenInv, NEW p \in Pods, Observe(p) PROVE SeenInv'
<1>1. PICK s \in StatusesOf(live[p]) : seen' = [seen EXCEPT ![p] = s]
  BY Zenon DEF Observe
<1>2. /\ live' = live /\ DOMAIN seen' = Pods
      /\ seen'[p] = s /\ \A q \in Pods \ {p} : seen'[q] = seen[q]
  BY <1>1 DEF Observe, SeenInv, kubeletVars
<1>3. live[p] \in LiveStates /\ live[p].inc <= live[p].inc
  BY Incs DEF SeenInv
<1>4. \E l \in LiveStates : seen'[p] \in StatusesOf(l) /\ l.inc <= live[p].inc
  BY <1>2, <1>3
<1>5. QED
  BY <1>2, <1>4 DEF SeenInv

\* The kubelet keeps logs of incarnations.
LEMMA LogsKept ==
  ASSUME JobInv, SeenInv, NEW p \in Pods,
         \/ ContainerStarts(p) \/ BacksOff(p) \/ PodRemoved(p) \/ LogRemoved(p)
         \/ ContainerExits(p) \/ OOMKill(p)
  PROVE  logs' \in [Pods -> SUBSET Incarnations]
<1>1. logs \in [Pods -> SUBSET Incarnations] /\ live[p].inc \in Nat
  BY Incs DEF JobInv, SeenInv
<1>2. CASE ContainerStarts(p)
  BY <1>1, <1>2, ResolutionAssumption DEF ContainerStarts, Incarnations
<1>3. CASE PodRemoved(p) \/ LogRemoved(p)
  BY <1>1, <1>3 DEF PodRemoved, LogRemoved
<1>4. CASE BacksOff(p) \/ ContainerExits(p) \/ OOMKill(p)
  BY <1>1, <1>4 DEF BacksOff, ContainerExits, OOMKill
<1>5. QED
  BY <1>2, <1>3, <1>4

\* A worker is given a kill: nothing has been concluded yet.
LEMMA JobStarts ==
  ASSUME ResolutionInv, job.pc = "idle", NEW v \in Victims,
         job' = [job EXCEPT !.pc = "lookup", !.victim = v],
         logs' \in [Pods -> SUBSET Incarnations]
  PROVE  JobInv' /\ ResolvedIsVictim' /\ CapturedIsVictims'
<1>1. /\ job \in Jobs /\ job.outcome = "none" /\ job.log = NoIncarnation
      /\ job.tries \in Nat \ {0}
  BY DEF ResolutionInv, JobInv
<1>2. /\ job' \in Jobs /\ job'.pc = "lookup" /\ job'.tries = job.tries
      /\ job'.outcome = "none" /\ job'.log = NoIncarnation
  BY <1>1, Zenon DEF Jobs
<1>3. QED
  BY <1>1, <1>2 DEF JobInv, ResolvedIsVictim, CapturedIsVictims

\* The lookup ends without a pod.
LEMMA JobEnds ==
  ASSUME ResolutionInv, job.pc = "lookup",
         NEW o \in {"list_pods", "final", "exhausted", "cancelled"}, Ends(o)
  PROVE  ResolutionInv' /\ job'.outcome = o
<1>1. /\ job \in Jobs /\ job.log = NoIncarnation /\ SeenInv /\ job.tries \in Nat \ {0}
      /\ logs \in [Pods -> SUBSET Incarnations]
  BY DEF ResolutionInv, JobInv
<1>2. /\ job' = [job EXCEPT !.pc = "done", !.outcome = o]
      /\ live' = live /\ seen' = seen /\ logs' = logs
  BY DEF Ends, kubeletVars
<1>3. /\ job' \in Jobs /\ job'.pc = "done" /\ job'.outcome = o
      /\ job'.log = NoIncarnation /\ job'.tries = job.tries
  BY <1>1, <1>2, Zenon DEF Jobs
<1>4. SeenInv'
  BY <1>1, <1>2 DEF SeenInv
<1>5. JobInv' /\ ResolvedIsVictim' /\ CapturedIsVictims'
  BY <1>1, <1>2, <1>3 DEF JobInv, ResolvedIsVictim, CapturedIsVictims
<1>6. QED
  BY <1>3, <1>4, <1>5 DEF ResolutionInv

\* A final answer: no cached status is waiting for an ID, and the one of the victim's pod
\* no longer mentions incarnation 0.
LEMMA FinalAnswer ==
  ASSUME SeenInv, NotFound, ~anyContainerIDPending,
         NEW p \in Pods, job.victim = <<p, 0>>, seen[p].state # "none"
  PROVE  live[p].inc >= 2
<1>1. PICK l \in LiveStates : seen[p] \in StatusesOf(l) /\ l.inc <= live[p].inc
  BY DEF SeenInv
<1>2. StatusSays(l, seen[p]) /\ live[p].inc \in Nat
  BY <1>1, StatusFacts, Incs DEF SeenInv
<1>3. seen[p].state # "waiting" /\ (seen[p].id # NoIncarnation \/ seen[p].state = "terminated")
  BY DEF anyContainerIDPending
<1>4. seen[p].id = l.inc /\ seen[p].last = l.inc - 1
  BY <1>2, <1>3 DEF StatusSays
<1>5. ~containerIDsMatch(seen[p].id, 0) /\ ~containerIDsMatch(seen[p].last, 0)
  BY DEF NotFound, Finds
<1>6. l.inc \in Nat /\ l.inc # 0 /\ l.inc - 1 # 0
  BY <1>2, <1>4, <1>5 DEF StatusSays, containerIDsMatch, NoIncarnation
<1>7. QED
  BY <1>1, <1>2, <1>6

\* The pod is found,
LEMMA PodFound ==
  ASSUME ResolutionInv, NEW p \in Pods, Resolves(p) PROVE ResolutionInv'
<1> DEFINE i == findContainerByID(p, job.victim[2])
           b == CountBehind(seen[p])
<1>1. /\ job \in Jobs /\ job.log = NoIncarnation /\ SeenInv /\ job.victim \in Victims
      /\ logs \in [Pods -> SUBSET Incarnations]
  BY DEF ResolutionInv, JobInv, Resolves, Jobs
<1>2. p = job.victim[1] /\ i \in Incarnations \cup {NoIncarnation} /\ (b \/ i = job.victim[2])
  BY <1>1, IndexIsVictims DEF Resolves
<1>3. b \in BOOLEAN
  BY DEF CountBehind
<1>4. /\ job' = [job EXCEPT !.pc = IF CaptureLogs THEN "capture" ELSE "done",
                            !.tries = logCaptureRetries, !.outcome = "resolved",
                            !.pod = p, !.index = i, !.behind = b]
      /\ live' = live /\ seen' = seen /\ logs' = logs
  BY DEF Resolves, kubeletVars
<1> HIDE DEF i, b
<1>5. /\ job' \in Jobs /\ job'.pc \in {"capture", "done"} /\ job'.outcome = "resolved"
      /\ job'.pod = p /\ job'.index = i /\ job'.behind = b
      /\ job'.victim = job.victim /\ job'.log = NoIncarnation
      /\ job'.tries \in Nat \ {0}
  BY <1>1, <1>2, <1>3, <1>4, ResolutionAssumption, Zenon DEF Jobs
<1>6. SeenInv'
  BY <1>1, <1>4 DEF SeenInv
<1>7. JobInv'
  BY <1>1, <1>4, <1>5 DEF JobInv
<1>8. ResolvedIsVictim' /\ CapturedIsVictims'
  BY <1>2, <1>5, Zenon DEF ResolvedIsVictim, CapturedIsVictims
<1>9. QED
  BY <1>6, <1>7, <1>8 DEF ResolutionInv

\* and its log: with the restart count right, the file the index names.
LEMMA LogFound ==
  ASSUME ResolutionInv, CaptureSucceeds PROVE ResolutionInv'
<1>1. /\ job \in Jobs /\ SeenInv /\ job.victim \in Victims /\ job.outcome = "resolved"
      /\ job.tries \in Nat \ {0} /\ job.pod \in Pods
      /\ logs \in [Pods -> SUBSET Incarnations]
      /\ job.pod = job.victim[1] /\ (job.behind \/ job.index = job.victim[2])
  BY DEF ResolutionInv, JobInv, CaptureSucceeds, Jobs, ResolvedIsVictim
<1>2. PICK n \in LogFiles : job' = [job EXCEPT !.pc = "done", !.log = n]
  BY Zenon DEF CaptureSucceeds
<1>3. n \in Incarnations
  BY <1>1, <1>2, Zenon DEF LogFiles
<1>4. /\ job' \in Jobs /\ job'.pc = "done" /\ job'.outcome = "resolved"
      /\ job'.pod = job.pod /\ job'.index = job.index /\ job'.behind = job.behind
      /\ job'.victim = job.victim /\ job'.log = n /\ job'.tries = job.tries
  BY <1>1, <1>2, <1>3, Zenon DEF Jobs
<1>5. live' = live /\ seen' = seen /\ logs' = logs
  BY DEF CaptureSucceeds, kubeletVars
<1>6. SeenInv'
  BY <1>1, <1>5 DEF SeenInv
<1>7. JobInv' /\ ResolvedIsVictim'
  BY <1>1, <1>4, <1>5, Zenon DEF JobInv, ResolvedIsVictim
<1>8. ASSUME ~job.behind PROVE <<job.pod, n>> = job.victim
  <2>1. 0 \in Incarnations
    BY ResolutionAssumption DEF Incarnations
  <2>2. job.victim[2] \in Incarnations /\ job.victim = <<job.victim[1], job.victim[2]>>
    BY <1>1, <2>1 DEF Victims
  <2>3. job.index >= 0
    BY <1>1, <1>8, <2>2, ResolutionAssumption DEF Incarnations
  <2>4. n = job.index
    BY <1>2, <2>3 DEF LogFiles
  <2>5. QED
    BY <1>1, <1>8, <2>2, <2>4
<1>9. CapturedIsVictims'
  BY <1>4, <1>8, Zenon DEF CapturedIsVictims
<1>10. QED
  BY <1>6, <1>7, <1>9 DEF ResolutionInv

\* The rest of a job staying what it was, so does what was concluded.
LEMMA JobGoesOn ==
  ASSUME ResolutionInv, NEW pc \in {"lookup", "capture", "done"}, NEW k \in Nat \ {0},
         job.pc \in {"lookup", "capture"},
         pc # "done" => pc = job.pc, pc = "done" => job.pc = "capture",
         job' = [job EXCEPT !.pc = pc, !.tries = k], UNCHANGED <<kubeletVars, seen>>
  PROVE  ResolutionInv'
<1>1. job \in Jobs /\ JobInv /\ SeenInv /\ logs \in [Pods -> SUBSET Incarnations]
  BY DEF ResolutionInv, JobInv
<1>2. /\ job' \in Jobs /\ job'.pc = pc /\ job'.outcome = job.outcome /\ job'.pod = job.pod
      /\ job'.index = job.index /\ job'.victim = job.victim /\ job'.log = job.log
      /\ job'.behind = job.behind /\ job'.tries = k
  BY <1>1, Zenon DEF Jobs
<1>3. live' = live /\ seen' = seen /\ logs' = logs
  BY DEF kubeletVars
<1>4. SeenInv' /\ JobInv'
  BY <1>1, <1>2, <1>3 DEF SeenInv, JobInv
<1>5. ResolvedIsVictim' /\ CapturedIsVictims'
  BY <1>2, Zenon DEF ResolutionInv, ResolvedIsVictim, CapturedIsVictims
<1>6. QED
  BY <1>4, <1>5 DEF ResolutionInv

\* The invariant holds before the first container starts.
LEMMA ResolutionInit ==
  ASSUME Init PROVE ResolutionInv
<1> DEFINE l == [state |-> "creating", inc |-> 0]
<1>1. l \in LiveStates /\ 0 \in Incarnations
  BY ResolutionAssumption DEF LiveStates, Incarnations
<1>2. NoStatus \in StatusesOf(l)
  BY DEF StatusesOf
<1>3. \A p \in Pods : live[p] = l /\ seen[p] = NoStatus
  BY DEF Init
<1>4. live \in [Pods -> LiveStates] /\ DOMAIN seen = Pods
  BY <1>1 DEF Init
<1>5. l.state = "creating" /\ l.inc = 0
  OBVIOUS
<1> HIDE DEF l
<1>6. SeenInv
  BY <1>1, <1>2, <1>3, <1>4, <1>5 DEF SeenInv
<1>7. /\ job \in Jobs /\ job.pc = "idle" /\ job.outcome = "none" /\ job.log = NoIncarnation
      /\ job.tries \in Nat \ {0}
  BY <1>1, ResolutionAssumption DEF Init, Jobs, Victims
<1>8. logs \in [Pods -> SUBSET Incarnations]
  BY DEF Init
<1>9. QED
  BY <1>6, <1>7, <1>8 DEF ResolutionInv, JobInv, ResolvedIsVictim, CapturedIsVictims

\* Every step keeps the invariant.
LEMMA ResolutionStep ==
  ASSUME ResolutionInv, [Next]_vars PROVE ResolutionInv'
<1>1. SeenInv /\ JobInv /\ job \in Jobs /\ job.tries \in Nat \ {0}
  BY DEF ResolutionInv, JobInv
<1>2. ASSUME job' = job, SeenInv', logs' \in [Pods -> SUBSET Incarnations]
      PROVE  ResolutionInv'
  BY <1>2 DEF ResolutionInv, JobInv, ResolvedIsVictim, CapturedIsVictims
<1>3. ASSUME NEW p \in Pods, \/ ContainerStarts(p) \/ BacksOff(p) \/ PodRemoved(p)
                             \/ LogRemoved(p) \/ ContainerExits(p)
      PROVE  ResolutionInv'
  <2>1. Forward /\ logs' \in [Pods -> SUBSET Incarnations]
    BY <1>1, <1>3, KubeletForward, LogsKept
  <2>2. seen' = seen /\ job' = job
    BY <1>3 DEF ContainerStarts, BacksOff, PodRemoved, LogRemoved, ContainerExits
  <2>3. QED
    BY <1>1, <1>2, <2>1, <2>2, SeenForward
<1>4. ASSUME NEW p \in Pods, OOMKill(p) PROVE ResolutionInv'
  <2>1. SeenInv'
    BY <1>1, <1>4, KubeletForward, SeenForward, Zenon DEF OOMKill
  <2>2. <<p, live[p].inc>> \in Victims
    BY <1>1, Incs DEF SeenInv, Victims
  <2>3. logs' \in [Pods -> SUBSET Incarnations]
    BY <1>1, <1>4, LogsKept
  <2>4. QED
    BY <1>4, <2>1, <2>2, <2>3, JobStarts, Zenon DEF OOMKill, ResolutionInv
<1>5. ASSUME NEW p \in Pods, Observe(p) PROVE ResolutionInv'
  <2>1. logs' = logs /\ job' = job
    BY <1>5 DEF Observe, kubeletVars
  <2>2. QED
    BY <1>1, <1>2, <1>5, <2>1, SeenObserve DEF JobInv
<1>6. CASE OutsiderKilled
  <2>1. SeenInv'
    BY <1>1, <1>6 DEF OutsiderKilled, kubeletVars, SeenInv
  <2>2. job.victim \in Victims /\ job' = [job EXCEPT !.pc = "lookup", !.victim = job.victim]
    BY <1>1, <1>6, Zenon DEF OutsiderKilled, Jobs
  <2>3. logs' \in [Pods -> SUBSET Incarnations]
    BY <1>1, <1>6 DEF OutsiderKilled, kubeletVars, JobInv
  <2>4. QED
    BY <1>6, <2>1, <2>2, <2>3, JobStarts, Zenon DEF OutsiderKilled, ResolutionInv
<1>7. CASE ListFails \/ GivesUp \/ LookupCancelled
  BY <1>7, JobEnds DEF ListFails, GivesUp, NotFound, LookupCancelled
<1>8. ASSUME job.tries # 1, job.pc \in {"lookup", "capture"},
             job' = [job EXCEPT !.tries = @ - 1], UNCHANGED <<kubeletVars, seen>>
      PROVE  ResolutionInv'
  <2>1. job.tries - 1 \in Nat \ {0}
    BY <1>1, <1>8
  <2>2. job' = [job EXCEPT !.pc = job.pc, !.tries = job.tries - 1]
    BY <1>1, <1>8, Zenon DEF Jobs
  <2>3. QED
    BY <1>8, <2>1, <2>2, JobGoesOn, Zenon
<1>9. CASE LooksAgain
  <2>1. CASE job.tries = 1
    BY <1>9, <2>1, JobEnds DEF LooksAgain, NotFound
  <2>2. CASE job.tries # 1
    BY <1>8, <1>9, <2>2 DEF LooksAgain, NotFound
  <2>3. QED
    BY <2>1, <2>2
<1>10. CASE CaptureFails
  <2>1. CASE job.tries = 1
    <3>1. job' = [job EXCEPT !.pc = "done", !.tries = job.tries] /\ UNCHANGED <<kubeletVars, seen>>
      BY <1>1, <1>10, <2>1, Zenon DEF CaptureFails, Jobs
    <3>2. QED
      BY <1>1, <1>10, <3>1, JobGoesOn, Zenon DEF CaptureFails
  <2>2. CASE job.tries # 1
    BY <1>8, <1>10, <2>2 DEF CaptureFails
  <2>3. QED
    BY <2>1, <2>2
<1>11. CASE ManagerStops \/ ReportsCancelled \/ UNCHANGED vars
  <2>1. live' = live /\ seen' = seen /\ logs' = logs /\ job' = job
    BY <1>11 DEF ManagerStops, ReportsCancelled, vars, kubeletVars
  <2>2. QED
    BY <1>1, <1>2, <2>1 DEF SeenInv, JobInv
<1>12. QED
  BY <1>3, <1>4, <1>5, <1>6, <1>7, <1>9, <1>10, <1>11, PodFound, LogFound
     DEF Next, Worker, Kubelet

\* The invariant holds always.
LEMMA ResolutionInvariant == Spec => []ResolutionInv
BY ResolutionInit, ResolutionStep, PTL DEF Spec

\* Only GivesUp answers that a victim belongs to no pod.
LEMMA FinalStep ==
  ASSUME ResolutionInv, [Next]_vars, job.outcome = "none", job'.outcome = "final"
  PROVE  GivesUp
<1>1. job \in Jobs
  BY DEF ResolutionInv, JobInv
<1>2. job' # job
  OBVIOUS
<1>3. CASE \E p \in Pods : Kubelet(p)
  BY <1>1, <1>2, <1>3, Zenon DEF Kubelet, ContainerStarts, BacksOff, PodRemoved, LogRemoved,
                          ContainerExits, OOMKill, Observe, Jobs
<1>4. CASE OutsiderKilled \/ ManagerStops \/ ReportsCancelled \/ UNCHANGED vars
  BY <1>1, <1>2, <1>4 DEF OutsiderKilled, ManagerStops, ReportsCancelled, vars, Jobs
<1>5. CASE ListFails \/ LookupCancelled
  BY <1>1, <1>5, Zenon DEF ListFails, LookupCancelled, Ends, Jobs
<1>6. CASE LooksAgain
  BY <1>1, <1>6, Zenon DEF LooksAgain, Ends, Jobs
<1>7. CASE CaptureSucceeds \/ CaptureFails
  BY <1>1, <1>7, Zenon DEF CaptureSucceeds, CaptureFails, Jobs
<1>8. CASE \E p \in Pods : Resolves(p)
  BY <1>1, <1>8 DEF Resolves, Jobs
<1>9. QED
  BY <1>3, <1>4, <1>5, <1>6, <1>7, <1>8 DEF Next, Worker

-----------------------------------------------------------------------------

\* A report names the pod that was killed and, with a restart count that is not old, the
\* incarnation, for any number of pods, restarts and stale statuses (findContainerByID).
THEOREM NamesTheVictim == Spec => []ResolvedIsVictim
BY ResolutionInvariant, PTL DEF ResolutionInv

\* No report found by a status with the right restart count carries the log of another
\* incarnation (findLogFile).
THEOREM LogIsTheVictims == Spec => []CapturedIsVictims
BY ResolutionInvariant, PTL DEF ResolutionInv

\* A kill right after a first start is not taken for one outside every pod, once the
\* cache has a status of the container (anyContainerIDPending).
THEOREM FirstKillIsFound == Spec => FirstKillNotDiscarded
<1>1. ASSUME ResolutionInv, [Next]_vars
      PROVE  [job.outcome = "none" /\ job'.outcome = "final" =>
                \A p \in Pods : job.victim = <<p, 0>> /\ seen[p].state # "none" =>
                  live[p].state = "removed" \/ live[p].inc >= 2]_vars
  <2>1. ASSUME job.outcome = "none", job'.outcome = "final", NEW p \in Pods,
               job.victim = <<p, 0>>, seen[p].state # "none"
        PROVE  live[p].inc >= 2
    BY <1>1, <2>1, FinalStep, FinalAnswer DEF GivesUp, ResolutionInv
  <2>2. QED
    BY <2>1
<1>2. QED
  BY <1>1, ResolutionInvariant, PTL DEF Spec, FirstKillNotDiscarded
=============================================================================
