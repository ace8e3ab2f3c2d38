--------------------------- MODULE RetentionProofs ---------------------------
(***************************************************************************)
(* The garbage collector, for any number of reports and every cap: in the  *)
(* complete system it is only another deleter, and a pass of its own       *)
(* enforces the cap without costing a report that fits under it. Then the  *)
(* configuration it is given: what loadConfig accepts is usable and is     *)
(* what was asked for, whatever texts the operator may give.               *)
(***************************************************************************)
EXTENDS KubeAutopsy, Config, FiniteSetTheorems, TLAPS

-----------------------------------------------------------------------------
\* The collector in the complete system.

\* All the collector does to reports is delete them.
LEMMA CollectorDeletes ==
  ASSUME Collector PROVE (\E r \in Reports : Deletion(r)) \/ UNCHANGED vars
<1>1. UNCHANGED <<reporterVars, reconcilerVars>>
  BY DEF Collector
<1>2. CASE StartPass
  BY <1>1, <1>2 DEF StartPass, vars
<1>3. ASSUME NEW r \in Reports, Keep(r) \/ AlreadyGone(r) \/ CollectFails(r)
      PROVE  UNCHANGED vars
  BY <1>1, <1>3 DEF Keep, AlreadyGone, CollectFails, vars
<1>4. ASSUME NEW r \in Reports, Collect(r) \/ CollectAnswerLost(r)
      PROVE  Deletion(r)
  BY <1>1, <1>4 DEF Collect, CollectAnswerLost, Deletion, Removed
<1>5. QED
  BY <1>2, <1>3, <1>4 DEF Collector, CollectorNext

\* The complete system is a ReportLifecycle, in which anybody may delete a report:
\* what is proved there holds next to deleteExpiredReports, which works from the
\* stale cache and deletes by name.
THEOREM SystemIsLifecycle == SystemSpec => Spec
<1>1. SystemInit => Init
  BY DEF SystemInit
<1>2. [SystemNext]_systemVars => [Next]_vars
  <2> SUFFICES ASSUME [SystemNext]_systemVars PROVE [Next]_vars
    OBVIOUS
  <2>1. CASE UNCHANGED systemVars
    BY <2>1 DEF systemVars
  <2>2. CASE ProcessStops
    BY <2>2 DEF ProcessStops, Next
  <2>3. CASE Lives
    BY <2>3 DEF Lives, Next
  <2>4. CASE Collector
    BY <2>4, CollectorDeletes DEF Next
  <2>5. QED
    BY <2>1, <2>2, <2>3, <2>4 DEF SystemNext
<1>3. QED
  BY <1>1, <1>2, PTL DEF SystemSpec, Spec

-----------------------------------------------------------------------------
\* The collector by itself. A pass is described by what it has dealt with so far.

Passed == gc.listed \ gc.todo

LivePassed == {r \in Passed : ~Expired(r, gc.asOf)}

Remaining == {r \in LivePassed : Present(server[r])}

Allowance == overCap(gc.listed, gc.asOf)

StoreInv ==
  /\ now \in Nat
  /\ server \in [Reports -> Objects]
  /\ DOMAIN watch = Reports /\ DOMAIN cache = Reports
  /\ \A r \in Reports : server[r].state = "absent" => watch[r] = <<>> /\ ~Present(cache[r])

PassTypeOK ==
  /\ gc \in [pc : {"idle", "run"}, listed : SUBSET Reports, asOf : Nat,
             todo : SUBSET Reports, trim : Nat,
             collected : SUBSET Reports, failed : SUBSET Reports]
  /\ gc.todo \subseteq gc.listed
  /\ gc.collected \subseteq Passed /\ gc.failed \subseteq Passed
  /\ gc.pc = "idle" => gc.todo = {}
  /\ \A r \in gc.listed : server[r].state # "absent"

\* The countdown is exact: what is left of the allowance is what the live reports
\* passed so far have not used up; each of those was deleted, or failed, or had
\* gone. Deletions go oldest first, so none overtakes a report that is kept.
CountInv ==
  /\ \A p \in Passed, t \in gc.todo : server[p].created <= server[t].created
  /\ gc.trim = IF Allowance > Cardinality(LivePassed)
                 THEN Allowance - Cardinality(LivePassed) ELSE 0
  /\ Cardinality(LivePassed \cap gc.collected) + gc.trim <= Allowance
  /\ gc.failed = {} =>
       /\ \A r \in Passed : Expired(r, gc.asOf) => ~Present(server[r])
       /\ Cardinality(Remaining) + Allowance <= Cardinality(LivePassed) + gc.trim

KeepInv ==
  /\ gc.trim > 0 =>
       \A k \in LivePassed \ (gc.collected \cup gc.failed) : ~Present(server[k])
  /\ \A t \in LivePassed \cap gc.collected, k \in LivePassed \ (gc.collected \cup gc.failed) :
       Present(server[k]) => server[t].created <= server[k].created

PassInv == PassTypeOK /\ CountInv /\ KeepInv

\* What any step does to the reports that exist: they keep their age and do not
\* come back.
Ages ==
  \A r \in Reports :
    server[r].state # "absent" =>
      /\ server'[r].state # "absent"
      /\ server'[r].created = server[r].created
      /\ Present(server'[r]) => Present(server[r])

\* Deleted and fresh objects are objects, and keep their creation time.
LEMMA ObjectFacts ==
  /\ \A o \in Objects : o.created \in Nat /\ o.rv \in Nat
  /\ \A o \in Objects : /\ [o EXCEPT !.state = "gone", !.rv = @ + 1] \in Objects
                        /\ [o EXCEPT !.state = "gone", !.rv = @ + 1].state = "gone"
                        /\ [o EXCEPT !.state = "gone", !.rv = @ + 1].created = o.created
  /\ \A t \in Nat : FreshObject(t) \in Objects /\ FreshObject(t).state = "present"
<1>1. \A o \in Objects : o.created \in Nat /\ o.rv \in Nat
  BY DEF Objects
<1>2. ASSUME NEW o \in Objects, NEW n \in Nat
      PROVE  LET d == [o EXCEPT !.state = "gone", !.rv = n]
             IN  d \in Objects /\ d.state = "gone" /\ d.created = o.created
  BY Zenon DEF Objects
<1>3. ASSUME NEW o \in Objects
      PROVE  LET d == [o EXCEPT !.state = "gone", !.rv = @ + 1]
             IN  d \in Objects /\ d.state = "gone" /\ d.created = o.created
  <2>1. o.rv + 1 \in Nat
    BY <1>1
  <2>2. QED
    BY <2>1, <1>2, Zenon
<1>4. ASSUME NEW t \in Nat
      PROVE  FreshObject(t) \in Objects /\ FreshObject(t).state = "present"
  BY Zenon DEF Objects, FreshObject, NoObject, Phases, Diagnostics
<1>5. QED
  BY <1>1, <1>3, <1>4, Zenon

\* Every write leaves a report that exists, and the watch of no other.
LEMMA WriteStore ==
  ASSUME StoreInv, NEW r \in Reports, NEW o \in Objects, o.state # "absent",
         Write(r, o), cache' = cache, now' = now
  PROVE  /\ StoreInv' /\ server'[r] = o
         /\ \A s \in Reports \ {r} : server'[s] = server[s]
<1>1. /\ server' = [server EXCEPT ![r] = o]
      /\ server' \in [Reports -> Objects]
  BY DEF Write, StoreInv
<1>2. server'[r] = o /\ \A s \in Reports \ {r} : server'[s] = server[s]
  BY <1>1 DEF StoreInv
<1>3. DOMAIN watch' = Reports /\ \A s \in Reports \ {r} : watch'[s] = watch[s]
  BY DEF Write, StoreInv
<1>4. QED
  BY <1>1, <1>2, <1>3 DEF StoreInv

\* A delete keeps the store typed, takes the report away and brings none back.
LEMMA DeleteStore ==
  ASSUME StoreInv, NEW r \in Reports, Present(server[r]), Delete(r), cache' = cache, now' = now
  PROVE  StoreInv' /\ Ages /\ ~Present(server'[r])
<1> DEFINE o == [server[r] EXCEPT !.state = "gone", !.rv = @ + 1]
<1>1. server[r] \in Objects
  BY DEF StoreInv
<1>2. o \in Objects /\ o.state = "gone" /\ o.created = server[r].created
  BY <1>1, ObjectFacts, Zenon
<1> HIDE DEF o
<1>3. Write(r, o)
  BY DEF Delete, o
<1>4. /\ StoreInv' /\ server'[r] = o
      /\ \A s \in Reports \ {r} : server'[s] = server[s]
  BY <1>2, <1>3, WriteStore
<1>5. QED
  BY <1>2, <1>4 DEF Ages, Present

\* A new report keeps the store typed and brings no deleted one back.
LEMMA ArriveStore ==
  ASSUME StoreInv, NEW r \in Reports, Arrives(r)
  PROVE  StoreInv' /\ Ages
<1>1. FreshObject(now) \in Objects /\ FreshObject(now).state = "present"
  BY ObjectFacts, Zenon DEF StoreInv
<1>2. /\ StoreInv' /\ \A s \in Reports \ {r} : server'[s] = server[s]
  BY <1>1, WriteStore DEF Arrives
<1>3. QED
  BY <1>2 DEF Ages, Arrives

\* The watch keeps the store typed.
LEMMA DeliverStore ==
  ASSUME StoreInv, NEW r \in Reports, Deliver(r)
  PROVE  StoreInv' /\ Ages
<1>1. server' = server /\ now' = now /\ watch[r] # <<>>
  BY DEF Deliver
<1>2. server[r].state # "absent"
  BY <1>1 DEF StoreInv
<1>3. /\ DOMAIN watch' = Reports /\ DOMAIN cache' = Reports
      /\ \A s \in Reports \ {r} : watch'[s] = watch[s] /\ cache'[s] = cache[s]
  BY DEF Deliver, StoreInv
<1>4. QED
  BY <1>1, <1>2, <1>3 DEF StoreInv, Ages

\* The reports of a pass are finite in number, and so is every part of them.
LEMMA Counting ==
  ASSUME NEW S \in SUBSET Reports
  PROVE  /\ IsFiniteSet(S) /\ Cardinality(S) \in Nat
         /\ \A T \in SUBSET S : Cardinality(T) <= Cardinality(S)
         /\ Cardinality(S) = 0 <=> S = {}
         /\ \A r \in Reports \ S : Cardinality(S \cup {r}) = Cardinality(S) + 1
<1>1. IsFiniteSet(S)
  BY CollectorAssumption, FS_Subset
<1>2. /\ Cardinality(S) \in Nat
      /\ \A T \in SUBSET S : Cardinality(T) <= Cardinality(S)
  BY <1>1, FS_CardinalityType, FS_Subset
<1>3. Cardinality(S) = 0 <=> S = {}
  BY <1>1, FS_EmptySet
<1>4. \A r \in Reports \ S : Cardinality(S \cup {r}) = Cardinality(S) + 1
  BY <1>1, FS_AddElement
<1>5. QED
  BY <1>1, <1>2, <1>3, <1>4

\* A step that keeps the pass's list and time changes none of its verdicts.
LEMMA SameVerdicts ==
  ASSUME PassTypeOK, Ages, gc'.listed = gc.listed, gc'.asOf = gc.asOf
  PROVE  /\ \A r \in gc.listed :
              /\ server[r].state # "absent" /\ server'[r].state # "absent"
              /\ server'[r].created = server[r].created
              /\ Present(server'[r]) => Present(server[r])
              /\ Expired(r, gc.asOf)' <=> Expired(r, gc.asOf)
         /\ Live(gc.listed, gc.asOf)' = Live(gc.listed, gc.asOf)
         /\ Allowance' = Allowance
<1>1. \A r \in gc.listed :
        /\ server[r].state # "absent" /\ server'[r].state # "absent"
        /\ server'[r].created = server[r].created
        /\ Present(server'[r]) => Present(server[r])
  BY DEF PassTypeOK, Ages
<1>2. \A r \in gc.listed : Expired(r, gc.asOf)' <=> Expired(r, gc.asOf)
  BY <1>1 DEF Expired
<1>3. Live(gc.listed, gc.asOf)' = Live(gc.listed, gc.asOf)
  BY <1>2 DEF Live
<1>4. Allowance' = Allowance
  BY <1>3 DEF Allowance, overCap
<1>5. QED
  BY <1>1, <1>2, <1>3, <1>4

\* The allowance is what the unexpired reports exceed the cap by.
LEMMA AllowanceFacts ==
  ASSUME PassTypeOK
  PROVE  /\ Live(gc.listed, gc.asOf) \in SUBSET Reports
         /\ LivePassed \in SUBSET Live(gc.listed, gc.asOf)
         /\ Remaining \in SUBSET LivePassed
         /\ Allowance \in Nat
         /\ Allowance <= Cardinality(Live(gc.listed, gc.asOf))
         /\ Allowance = IF maxReports > 0 /\ Cardinality(Live(gc.listed, gc.asOf)) > maxReports
                          THEN Cardinality(Live(gc.listed, gc.asOf)) - maxReports ELSE 0
<1> DEFINE live == Live(gc.listed, gc.asOf)
<1>1. live \in SUBSET Reports /\ LivePassed \in SUBSET live /\ Remaining \in SUBSET LivePassed
  BY DEF PassTypeOK, Live, LivePassed, Remaining, Passed
<1>2. Cardinality(live) \in Nat
  BY <1>1, Counting
<1>3. Allowance = IF maxReports > 0 /\ Cardinality(live) > maxReports
                    THEN Cardinality(live) - maxReports ELSE 0
  BY DEF Allowance, overCap
<1> HIDE DEF live
<1>4. Allowance \in Nat /\ Allowance <= Cardinality(live)
  BY <1>2, <1>3, CollectorAssumption
<1>5. QED
  BY <1>1, <1>3, <1>4 DEF live
\* What happens around the pass does not disturb it: reports that arrive are not on
\* its list, and those that are deleted make fewer.
LEMMA Surroundings ==
  ASSUME StoreInv, PassInv, Ages, gc' = gc
  PROVE  PassInv'
<1>1. /\ PassTypeOK /\ CountInv /\ KeepInv
      /\ \A r \in gc.listed :
           /\ server'[r].state # "absent"
           /\ server'[r].created = server[r].created
           /\ Present(server'[r]) => Present(server[r])
           /\ Expired(r, gc.asOf)' <=> Expired(r, gc.asOf)
      /\ Allowance' = Allowance
  BY SameVerdicts DEF PassInv
<1>2. /\ Passed' = Passed /\ Passed \subseteq gc.listed /\ gc.todo \subseteq gc.listed
      /\ LivePassed' = LivePassed /\ LivePassed \subseteq Passed
  BY <1>1 DEF Passed, LivePassed, PassTypeOK
<1>3. PassTypeOK'
  BY <1>1, <1>2 DEF PassTypeOK
<1>4. Remaining' \subseteq Remaining
  BY <1>1, <1>2 DEF Remaining
<1>5. CountInv'
  <2>1. \A p \in Passed', t \in gc'.todo : server'[p].created <= server'[t].created
    BY <1>1, <1>2 DEF CountInv
  <2>2. /\ gc'.trim = IF Allowance' > Cardinality(LivePassed')
                        THEN Allowance' - Cardinality(LivePassed') ELSE 0
        /\ Cardinality(LivePassed' \cap gc'.collected) + gc'.trim <= Allowance'
    BY <1>1, <1>2 DEF CountInv
  <2>3. ASSUME gc'.failed = {}
        PROVE  \A r \in Passed' : Expired(r, gc.asOf)' => ~Present(server'[r])
    BY <1>1, <1>2, <2>3 DEF CountInv
  <2>4. ASSUME gc'.failed = {}
        PROVE  Cardinality(Remaining') + Allowance' <= Cardinality(LivePassed') + gc'.trim
    <3>1. Cardinality(Remaining) + Allowance <= Cardinality(LivePassed) + gc.trim
      BY <2>4 DEF CountInv, PassInv
    <3>2. Remaining \in SUBSET Reports /\ LivePassed \in SUBSET Reports /\ Allowance \in Nat
      BY <1>1, AllowanceFacts
    <3>3. Remaining' \in SUBSET Reports
      BY <1>4, <3>2
    <3>4. /\ Cardinality(Remaining') <= Cardinality(Remaining)
          /\ Cardinality(Remaining) \in Nat /\ Cardinality(LivePassed) \in Nat
      BY <1>4, <3>2, Counting
    <3>5. Cardinality(Remaining') \in Nat
      BY <3>3, Counting
    <3>6. gc.trim \in Nat
      BY <1>1 DEF PassTypeOK
    <3>7. QED
      BY <1>1, <1>2, <3>1, <3>2, <3>4, <3>5, <3>6
  <2>5. QED
    BY <2>1, <2>2, <2>3, <2>4 DEF CountInv
<1>6. KeepInv'
  BY <1>1, <1>2 DEF KeepInv, PassTypeOK
<1>7. QED
  BY <1>3, <1>5, <1>6 DEF PassInv
\* The pass moves on from r, with C added to the collected and F to the failed.
MovesOn(r, C, F) ==
  /\ gc'.listed = gc.listed /\ gc'.asOf = gc.asOf
  /\ gc'.todo = gc.todo \ {r}
  /\ gc'.trim = IF Trims(r) THEN gc.trim - 1 ELSE gc.trim
  /\ gc'.collected = gc.collected \cup C /\ gc'.failed = gc.failed \cup F
  /\ DOMAIN gc' = DOMAIN gc /\ gc' = [f \in DOMAIN gc' |-> gc'[f]]
  /\ gc'.pc = IF gc.todo = {r} THEN "idle" ELSE "run"

\* What the pass has dealt with after r: one report more, and one live report more
\* unless r has expired.
LEMMA OneMore ==
  ASSUME StoreInv, PassTypeOK, Ages, NEW r \in Reports, Reaches(r),
         NEW C \in SUBSET {r}, NEW F \in SUBSET {r}, MovesOn(r, C, F)
  PROVE  /\ PassTypeOK'
         /\ r \in gc.todo /\ r \in gc.listed /\ r \notin Passed /\ r \notin LivePassed
         /\ Passed' = Passed \cup {r}
         /\ Expired(r, gc.asOf) => LivePassed' = LivePassed
         /\ ~Expired(r, gc.asOf) => LivePassed' = LivePassed \cup {r}
         /\ Present(server'[r]) /\ ~Expired(r, gc.asOf) => Remaining' \subseteq Remaining \cup {r}
         /\ ~Present(server'[r]) \/ Expired(r, gc.asOf) => Remaining' \subseteq Remaining
<1>1. /\ \A s \in gc.listed :
           /\ server'[s].state # "absent"
           /\ Present(server'[s]) => Present(server[s])
           /\ Expired(s, gc.asOf)' <=> Expired(s, gc.asOf)
  BY SameVerdicts DEF MovesOn
<1>2. r \in gc.todo /\ r \in gc.listed /\ r \notin Passed /\ r \notin LivePassed
  BY DEF Reaches, PassTypeOK, Passed, LivePassed
<1>3. Passed' = Passed \cup {r}
  BY <1>2 DEF MovesOn, Passed
<1>4. /\ LivePassed' = {s \in Passed \cup {r} : ~Expired(s, gc.asOf)}
      /\ Passed \subseteq gc.listed
  BY <1>1, <1>2, <1>3 DEF LivePassed, MovesOn, Passed
<1>5. /\ Expired(r, gc.asOf) => LivePassed' = LivePassed
      /\ ~Expired(r, gc.asOf) => LivePassed' = LivePassed \cup {r}
  BY <1>4 DEF LivePassed
<1>6. Remaining' = {s \in LivePassed' : Present(server'[s])}
  BY DEF Remaining
<1>7. /\ Present(server'[r]) /\ ~Expired(r, gc.asOf) => Remaining' \subseteq Remaining \cup {r}
      /\ ~Present(server'[r]) \/ Expired(r, gc.asOf) => Remaining' \subseteq Remaining
  BY <1>1, <1>4, <1>5, <1>6 DEF Remaining, LivePassed
<1>8. PassTypeOK'
  <2>1. gc.trim \in Nat /\ (Trims(r) => gc.trim > 0)
    BY DEF PassTypeOK, Trims
  <2>2. gc'.trim \in Nat
    BY <2>1 DEF MovesOn
  <2>3. /\ gc'.listed \in SUBSET Reports /\ gc'.asOf \in Nat /\ gc'.todo \in SUBSET Reports
        /\ gc'.collected \in SUBSET Reports /\ gc'.failed \in SUBSET Reports
        /\ gc'.pc \in {"idle", "run"}
    BY DEF MovesOn, PassTypeOK
  <2>4. DOMAIN gc' = {"pc", "listed", "asOf", "todo", "trim", "collected", "failed"}
    BY DEF MovesOn, PassTypeOK
  <2>5. gc' \in [pc : {"idle", "run"}, listed : SUBSET Reports, asOf : Nat,
                 todo : SUBSET Reports, trim : Nat,
                 collected : SUBSET Reports, failed : SUBSET Reports]
    BY <2>2, <2>3, <2>4 DEF MovesOn
  <2>6. /\ gc'.todo \subseteq gc'.listed
        /\ gc'.collected \subseteq Passed' /\ gc'.failed \subseteq Passed'
        /\ gc'.pc = "idle" => gc'.todo = {}
    BY <1>3 DEF MovesOn, PassTypeOK
  <2>7. \A s \in gc'.listed : server'[s].state # "absent"
    BY <1>1 DEF MovesOn
  <2>8. QED
    BY <2>5, <2>6, <2>7 DEF PassTypeOK
<1>9. QED
  BY <1>2, <1>3, <1>5, <1>7, <1>8
\* A deletion is tried of every report that is expired or to be trimmed, and of no
\* other; unless it fails, the report is gone.
Dealt(r, C, F) ==
  /\ Expired(r, gc.asOf) \/ Trims(r) => F = {r} \/ ~Present(server'[r])
  /\ ~Expired(r, gc.asOf) /\ ~Trims(r) => C = {} /\ F = {}

\* The arithmetic of one report more: a the allowance, n, m and k the live reports
\* passed, collected and remaining, t the trims left.
LEMMA CountingDown ==
  ASSUME NEW a \in Nat, NEW n \in Nat, NEW t \in Nat, t = IF a > n THEN a - n ELSE 0
  PROVE  (IF t > 0 THEN t - 1 ELSE t) = IF a > n + 1 THEN a - (n + 1) ELSE 0
OBVIOUS

\* One delete more is paid for with one of the allowance.
LEMMA TrimsInBudget ==
  ASSUME NEW a \in Nat, NEW m \in Nat, NEW t \in Nat, NEW j \in Nat,
         m + t <= a, t > 0, j <= m + 1
  PROVE  j + (t - 1) <= a
OBVIOUS

\* What is still to come fits what is left of the cap.
LEMMA RemainderFits ==
  ASSUME NEW a \in Nat, NEW n \in Nat, NEW k \in Nat, NEW t \in Nat, NEW i \in Nat,
         k + a <= n + t
  PROVE  /\ i <= k => i + a <= n + t
         /\ i <= k /\ t > 0 => i + a <= (n + 1) + (t - 1)
         /\ i <= k + 1 => i + a <= (n + 1) + t
OBVIOUS

\* Passing a report keeps the count of the allowance.
LEMMA StepCounts ==
  ASSUME StoreInv, PassInv, Ages, NEW r \in Reports, Reaches(r),
         NEW C \in SUBSET {r}, NEW F \in SUBSET {r}, MovesOn(r, C, F), Dealt(r, C, F)
  PROVE  CountInv'
<1> DEFINE n == Cardinality(LivePassed)
           m == Cardinality(LivePassed \cap gc.collected)
           k == Cardinality(Remaining)
<1>0. PassTypeOK /\ CountInv
  BY DEF PassInv
<1>1. /\ r \in gc.todo /\ r \in gc.listed /\ r \notin Passed /\ r \notin LivePassed
      /\ Passed' = Passed \cup {r}
      /\ Expired(r, gc.asOf) => LivePassed' = LivePassed
      /\ ~Expired(r, gc.asOf) => LivePassed' = LivePassed \cup {r}
      /\ Present(server'[r]) /\ ~Expired(r, gc.asOf) => Remaining' \subseteq Remaining \cup {r}
      /\ ~Present(server'[r]) \/ Expired(r, gc.asOf) => Remaining' \subseteq Remaining
  BY <1>0, OneMore
<1>2. /\ \A s \in gc.listed :
           /\ server'[s].created = server[s].created
           /\ Present(server'[s]) => Present(server[s])
           /\ Expired(s, gc.asOf)' <=> Expired(s, gc.asOf)
      /\ Allowance' = Allowance
  BY <1>0, SameVerdicts DEF MovesOn
<1>3. /\ LivePassed \in SUBSET Reports /\ Remaining \in SUBSET Reports
      /\ LivePassed \cap gc.collected \in SUBSET Reports
      /\ Allowance \in Nat
  BY <1>0, AllowanceFacts
<1>4. n \in Nat /\ m \in Nat /\ k \in Nat /\ gc.trim \in Nat
  BY <1>0, <1>3, Counting DEF PassTypeOK
<1>5. /\ gc.trim = IF Allowance > n THEN Allowance - n ELSE 0
      /\ m + gc.trim <= Allowance
      /\ gc.failed = {} => k + Allowance <= n + gc.trim
  BY <1>0 DEF CountInv
<1>6. /\ gc'.trim = IF Trims(r) THEN gc.trim - 1 ELSE gc.trim
      /\ Trims(r) <=> ~Expired(r, gc.asOf) /\ gc.trim > 0
      /\ gc'.collected = gc.collected \cup C /\ gc'.failed = gc.failed \cup F
  BY DEF MovesOn, Trims
<1>7. /\ Cardinality(LivePassed \cup {r}) = n + 1
      /\ Cardinality(Remaining \cup {r}) = k + 1
  BY <1>1, <1>3, Counting, Zenon DEF Remaining
<1>8. /\ Remaining' \in SUBSET Reports
      /\ Present(server'[r]) /\ ~Expired(r, gc.asOf) => Cardinality(Remaining') <= k + 1
      /\ ~Present(server'[r]) \/ Expired(r, gc.asOf) => Cardinality(Remaining') <= k
  <2>1. Remaining' \in SUBSET Reports
    BY <1>1, <1>3
  <2>2. Remaining \cup {r} \in SUBSET Reports
    BY <1>3
  <2>3. CASE Present(server'[r]) /\ ~Expired(r, gc.asOf)
    <3>1. Remaining' \in SUBSET (Remaining \cup {r})
      BY <1>1, <2>3
    <3>2. Cardinality(Remaining') <= Cardinality(Remaining \cup {r})
      BY <2>2, <3>1, Counting
    <3>3. QED
      BY <1>7, <2>1, <2>3, <3>2
  <2>4. CASE ~Present(server'[r]) \/ Expired(r, gc.asOf)
    <3>1. Remaining' \in SUBSET Remaining
      BY <1>1, <2>4
    <3>2. QED
      BY <1>3, <2>1, <2>4, <3>1, Counting
  <2>5. QED
    BY <2>3, <2>4
<1>9. Cardinality(Remaining') \in Nat
  BY <1>8, Counting
<1>10. \A p \in Passed', t \in gc'.todo : server'[p].created <= server'[t].created
  <2>1. Passed \subseteq gc.listed /\ gc.todo \subseteq gc.listed /\ gc'.todo = gc.todo \ {r}
    BY <1>0 DEF Passed, PassTypeOK, MovesOn
  <2>2. \A p \in Passed \cup {r}, t \in gc.todo : server[p].created <= server[t].created
    BY <1>0 DEF CountInv, Reaches
  <2>3. QED
    BY <1>1, <1>2, <2>1, <2>2
<1>11. /\ Expired(r, gc.asOf) => Cardinality(LivePassed') = n
       /\ ~Expired(r, gc.asOf) => Cardinality(LivePassed') = n + 1
  BY <1>1, <1>7
<1>12. gc'.trim = IF Allowance' > Cardinality(LivePassed')
                    THEN Allowance' - Cardinality(LivePassed') ELSE 0
  <2>1. CASE Expired(r, gc.asOf)
    <3>1. gc'.trim = gc.trim /\ Cardinality(LivePassed') = n
      BY <1>6, <1>11, <2>1, SMTT(90)
    <3>2. QED
      BY <1>2, <1>5, <3>1
  <2>2. CASE ~Expired(r, gc.asOf)
    <3>1. /\ gc'.trim = IF gc.trim > 0 THEN gc.trim - 1 ELSE gc.trim
          /\ Cardinality(LivePassed') = n + 1
      BY <1>6, <1>11, <2>2
    <3> HIDE DEF n, m, k
    <3>2. (IF gc.trim > 0 THEN gc.trim - 1 ELSE gc.trim)
            = IF Allowance > n + 1 THEN Allowance - (n + 1) ELSE 0
      BY <1>3, <1>4, <1>5, CountingDown
    <3>3. QED
      BY <1>2, <3>1, <3>2
  <2>3. QED
    BY <2>1, <2>2
<1>13. Cardinality(LivePassed' \cap gc'.collected) + gc'.trim <= Allowance'
  <2>1. CASE Expired(r, gc.asOf)
    <3>1. LivePassed' \cap gc'.collected = LivePassed \cap gc.collected
      BY <1>1, <1>6, <2>1, SMTT(30)
    <3>2. QED
      BY <1>2, <1>5, <1>6, <2>1, <3>1, ZenonT(30)
  <2>2. CASE Trims(r)
    <3>1. /\ r \notin gc.collected
          /\ \/ LivePassed' \cap gc'.collected = LivePassed \cap gc.collected
             \/ LivePassed' \cap gc'.collected = (LivePassed \cap gc.collected) \cup {r}
      <4>1. LivePassed' = LivePassed \cup {r} /\ gc'.collected = gc.collected \cup C
        BY <1>1, <1>6, <2>2, SMTT(90)
      <4>2. r \notin gc.collected
        BY <1>0, <1>1 DEF PassTypeOK
      <4>3. C = {} \/ C = {r}
        OBVIOUS
      <4>4. CASE C = {}
        BY <1>1, <4>1, <4>2, <4>4, SMTT(30)
      <4>5. CASE C = {r}
        BY <1>1, <4>1, <4>2, <4>5, SMTT(30)
      <4>6. QED
        BY <4>2, <4>3, <4>4, <4>5, SMTT(30)
    <3>2. Cardinality((LivePassed \cap gc.collected) \cup {r}) = m + 1
      BY <1>1, <1>3, Counting
    <3>3. /\ Cardinality(LivePassed' \cap gc'.collected) \in Nat
          /\ Cardinality(LivePassed' \cap gc'.collected) <= m + 1
      <4>1. \/ Cardinality(LivePassed' \cap gc'.collected) = m
            \/ Cardinality(LivePassed' \cap gc'.collected) = m + 1
        BY <3>1, <3>2, SMTT(30)
      <4>2. ASSUME NEW c, NEW d \in Nat, c = d \/ c = d + 1 PROVE c \in Nat /\ c <= d + 1
        BY <4>2
      <4> HIDE DEF m
      <4>3. QED
        BY <1>4, <4>1, <4>2
    <3>4. gc.trim > 0 /\ gc'.trim = gc.trim - 1
      BY <1>6, <2>2
    <3> HIDE DEF m
    <3>5. Cardinality(LivePassed' \cap gc'.collected) + (gc.trim - 1) <= Allowance
      BY <1>3, <1>4, <1>5, <3>3, <3>4, TrimsInBudget
    <3>6. QED
      BY <1>2, <3>4, <3>5
  <2>3. CASE ~Expired(r, gc.asOf) /\ ~Trims(r)
    <3>1. LivePassed' \cap gc'.collected = LivePassed \cap gc.collected
      BY <1>0, <1>1, <1>6, <2>3 DEF Dealt, PassTypeOK
    <3>2. QED
      BY <1>2, <1>5, <1>6, <2>3, <3>1, ZenonT(30)
  <2>4. QED
    BY <1>6, <2>1, <2>2, <2>3
<1>14. ASSUME gc'.failed = {}
       PROVE  /\ \A s \in Passed' : Expired(s, gc.asOf)' => ~Present(server'[s])
              /\ Cardinality(Remaining') + Allowance' <= Cardinality(LivePassed') + gc'.trim
  <2>1. gc.failed = {} /\ F = {}
    BY <1>6, <1>14
  <2>2. Expired(r, gc.asOf) \/ Trims(r) => ~Present(server'[r])
    BY <2>1 DEF Dealt
  <2>3. Passed \subseteq gc.listed
    BY SMTT(30) DEF Passed
  <2>4. \A s \in Passed' : Expired(s, gc.asOf)' => ~Present(server'[s])
    BY <1>0, <1>1, <1>2, <2>1, <2>2, <2>3, SMTT(90) DEF CountInv
  <2>5. k + Allowance <= n + gc.trim
    BY <1>5, <2>1
  <2>6. Cardinality(Remaining') + Allowance' <= Cardinality(LivePassed') + gc'.trim
    <3>1. CASE Expired(r, gc.asOf)
      <4>1. /\ Cardinality(Remaining') <= k
            /\ Cardinality(LivePassed') = n /\ gc'.trim = gc.trim
        BY <1>6, <1>8, <1>11, <3>1
      <4> HIDE DEF n, m, k
      <4>2. Cardinality(Remaining') + Allowance <= n + gc.trim
        BY <1>3, <1>4, <1>9, <2>5, <4>1, RemainderFits, SMTT(30)
      <4>3. QED
        BY <1>2, <4>1, <4>2, SMTT(30)
    <3>2. CASE Trims(r)
      <4>1. /\ Cardinality(Remaining') <= k /\ gc.trim > 0
            /\ Cardinality(LivePassed') = n + 1 /\ gc'.trim = gc.trim - 1
        BY <1>6, <1>8, <1>11, <2>2, <3>2, SMTT(30)
      <4> HIDE DEF n, m, k
      <4>2. Cardinality(Remaining') + Allowance <= (n + 1) + (gc.trim - 1)
        BY <1>3, <1>4, <1>9, <2>5, <4>1, RemainderFits, SMTT(90)
      <4>3. QED
        BY <1>2, <4>1, <4>2, SMTT(90)
    <3>3. CASE ~Expired(r, gc.asOf) /\ ~Trims(r)
      <4>1. Cardinality(LivePassed') = n + 1 /\ gc'.trim = gc.trim
        BY <1>6, <1>11, <3>3
      <4>2. Cardinality(Remaining') <= k + 1
        <5>1. CASE Present(server'[r])
          BY <1>8, <3>3, <5>1
        <5>2. CASE ~Present(server'[r])
          <6>1. Cardinality(Remaining') <= k
            BY <1>8, <5>2
          <6> HIDE DEF k
          <6>2. QED
            BY <1>4, <1>9, <6>1
        <5>3. QED
          BY <5>1, <5>2
      <4> HIDE DEF n, m, k
      <4>3. Cardinality(Remaining') + Allowance <= (n + 1) + gc.trim
        BY <1>3, <1>4, <1>9, <2>5, <4>2, RemainderFits, SMTT(30)
      <4>4. QED
        BY <1>2, <4>1, <4>3
    <3>4. QED
      BY <3>1, <3>2, <3>3, SMTT(30)
  <2>7. QED
    BY <2>4, <2>6
<1>15. QED
  <2>1. gc'.asOf = gc.asOf
    BY DEF MovesOn
  <2>2. QED
    BY <1>10, <1>12, <1>13, <1>14, <2>1 DEF CountInv
\* Passing a report keeps what is known of the reports passed.
LEMMA StepKeeps ==
  ASSUME StoreInv, PassInv, Ages, NEW r \in Reports, Reaches(r),
         NEW C \in SUBSET {r}, NEW F \in SUBSET {r}, MovesOn(r, C, F), Dealt(r, C, F)
  PROVE  KeepInv'
<1>0. PassTypeOK /\ CountInv /\ KeepInv
  BY DEF PassInv
<1>1. /\ r \in gc.todo /\ r \in gc.listed /\ r \notin Passed
      /\ Expired(r, gc.asOf) => LivePassed' = LivePassed
      /\ ~Expired(r, gc.asOf) => LivePassed' = LivePassed \cup {r}
      /\ LivePassed \subseteq Passed /\ Passed \subseteq gc.listed
  BY <1>0, OneMore, Zenon DEF LivePassed, Passed
<1>2. \A s \in gc.listed :
        /\ server'[s].created = server[s].created
        /\ Present(server'[s]) => Present(server[s])
  BY <1>0, SameVerdicts DEF MovesOn
<1>3. /\ gc'.trim = IF Trims(r) THEN gc.trim - 1 ELSE gc.trim
      /\ Trims(r) <=> ~Expired(r, gc.asOf) /\ gc.trim > 0
      /\ gc'.collected = gc.collected \cup C /\ gc'.failed = gc.failed \cup F
      /\ gc.trim \in Nat
  BY <1>0, SMTT(30) DEF MovesOn, Trims, PassTypeOK
<1>4. gc'.trim > 0 => gc.trim > 0
  BY <1>3, SMTT(90)
<1>5. ASSUME NEW s \in LivePassed' \ (gc'.collected \cup gc'.failed)
      PROVE  \/ s \in LivePassed \ (gc.collected \cup gc.failed)
             \/ s = r /\ ~Expired(r, gc.asOf) /\ r \notin F
  BY <1>1, <1>3
<1>6. ASSUME NEW s \in LivePassed' \ (gc'.collected \cup gc'.failed), gc.trim > 0
      PROVE  ~Present(server'[s])
  <2>1. CASE s \in LivePassed \ (gc.collected \cup gc.failed)
    BY <1>0, <1>1, <1>2, <1>6, <2>1, SMTT(30) DEF KeepInv
  <2>2. CASE s = r /\ ~Expired(r, gc.asOf) /\ r \notin F
    BY <1>3, <1>6, <2>2 DEF Dealt
  <2>3. QED
    BY <1>5, <2>1, <2>2, SMTT(30)
<1>7. ASSUME NEW t \in LivePassed' \cap gc'.collected,
             NEW s \in LivePassed' \ (gc'.collected \cup gc'.failed), Present(server'[s])
      PROVE  server'[t].created <= server'[s].created
  <2>1. ~(gc.trim > 0)
    BY <1>6, <1>7, SMTT(30)
  <2>2. t \in LivePassed \cap gc.collected
    <3>1. t = r => Expired(r, gc.asOf) \/ t \in gc.collected
      BY <1>3, <2>1 DEF Dealt
    <3>2. QED
      BY <1>0, <1>1, <1>3, <3>1, SMTT(30) DEF PassTypeOK
  <2>3. CASE s \in LivePassed \ (gc.collected \cup gc.failed)
    <3>1. Present(server[s])
      BY <1>1, <1>2, <1>7, <2>3
    <3>2. server[t].created <= server[s].created
      BY <1>0, <2>2, <2>3, <3>1, SMTT(30) DEF KeepInv
    <3>3. t \in gc.listed /\ s \in gc.listed
      BY <1>1, <2>2, <2>3, SMTT(30)
    <3>4. QED
      BY <1>2, <3>2, <3>3, SMTT(30)
  <2>4. CASE s = r
    <3>1. server[t].created <= server[r].created
      BY <1>0, <1>1, <2>2 DEF CountInv
    <3>2. t \in gc.listed /\ r \in gc.listed
      BY <1>1, <2>2
    <3>3. QED
      BY <1>2, <2>4, <3>1, <3>2, SMTT(30)
  <2>5. QED
    BY <1>5, <2>3, <2>4
<1>8. QED
  BY <1>4, <1>6, <1>7 DEF KeepInv

\* Passing a report keeps the invariant of the pass.
LEMMA PassStep ==
  ASSUME StoreInv, PassInv, Ages, NEW r \in Reports, Reaches(r),
         NEW C \in SUBSET {r}, NEW F \in SUBSET {r}, MovesOn(r, C, F), Dealt(r, C, F)
  PROVE  PassInv'
BY OneMore, StepCounts, StepKeeps, Zenon DEF PassInv

\* A pass begins with nothing dealt with and the whole allowance.
LEMMA PassStarts ==
  ASSUME StoreInv, StartPass PROVE PassInv'
<1> DEFINE S == {s \in Reports : Present(cache[s])}
<1>1. /\ gc' = [pc |-> "run", listed |-> S, asOf |-> now, todo |-> S,
                trim |-> overCap(S, now), collected |-> {}, failed |-> {}]
      /\ server' = server
  BY DEF StartPass, storeVars
<1>2. \A s \in S : server[s].state # "absent"
  BY DEF StoreInv
<1> HIDE DEF S
<1>3. S \in SUBSET Reports /\ now \in Nat
  BY DEF S, StoreInv
<1>4. Cardinality(Live(S, now)) \in Nat
  BY <1>3, Counting DEF Live
<1>5. overCap(S, now) \in Nat
  BY <1>4, CollectorAssumption DEF overCap
<1>7. Allowance' = overCap(S, now)
  BY <1>1 DEF Allowance, overCap, Live, Expired
<1>8. Passed' = {} /\ LivePassed' = {} /\ Remaining' = {}
  BY <1>1 DEF Passed, LivePassed, Remaining
<1>9. Cardinality({}) = 0
  BY FS_EmptySet
<1>10. PassTypeOK'
  BY <1>1, <1>2, <1>3, <1>5, <1>8 DEF PassTypeOK
<1>11. CountInv'
  <2>1. gc'.trim = overCap(S, now) /\ gc'.collected = {} /\ gc'.failed = {}
    BY <1>1
  <2>2. {} \cap gc'.collected = {}
    OBVIOUS
  <2>3. gc'.trim = IF Allowance' > 0 THEN Allowance' - 0 ELSE 0
    BY <1>5, <1>7, <2>1, SMTT(60)
  <2>4. 0 + gc'.trim <= Allowance' /\ 0 + Allowance' <= 0 + gc'.trim
    BY <1>5, <1>7, <2>1
  <2>5. QED
    BY <1>8, <1>9, <2>1, <2>2, <2>3, <2>4, ZenonT(30) DEF CountInv
<1>12. KeepInv'
  BY <1>8 DEF KeepInv
<1>13. QED
  BY <1>10, <1>11, <1>12, SMTT(30) DEF PassInv
\* PassAfter(r) is what MovesOn describes.
LEMMA AfterMoves ==
  ASSUME PassTypeOK, NEW r \in Reports, Reaches(r)
  PROVE  /\ gc' = PassAfter(r) => MovesOn(r, {}, {})
         /\ gc' = [PassAfter(r) EXCEPT !.collected = @ \cup {r}] => MovesOn(r, {r}, {})
         /\ gc' = [PassAfter(r) EXCEPT !.failed = @ \cup {r}] => MovesOn(r, {}, {r})
         /\ gc' = [PassAfter(r) EXCEPT !.collected = @ \cup {r}, !.failed = @ \cup {r}]
              => MovesOn(r, {r}, {r})
<1>1. gc \in [pc : {"idle", "run"}, listed : SUBSET Reports, asOf : Nat,
              todo : SUBSET Reports, trim : Nat,
              collected : SUBSET Reports, failed : SUBSET Reports]
  BY DEF PassTypeOK
<1>2. gc' = PassAfter(r) => MovesOn(r, {}, {})
  BY <1>1, Zenon DEF PassAfter, MovesOn
<1>3. gc' = [PassAfter(r) EXCEPT !.collected = @ \cup {r}] => MovesOn(r, {r}, {})
  BY <1>1, Zenon DEF PassAfter, MovesOn
<1>4. gc' = [PassAfter(r) EXCEPT !.failed = @ \cup {r}] => MovesOn(r, {}, {r})
  BY <1>1, Zenon DEF PassAfter, MovesOn
<1>5. gc' = [PassAfter(r) EXCEPT !.collected = @ \cup {r}, !.failed = @ \cup {r}]
        => MovesOn(r, {r}, {r})
  BY <1>1, Zenon DEF PassAfter, MovesOn
<1>6. QED
  BY <1>2, <1>3, <1>4, <1>5

RetentionInv == StoreInv /\ PassInv

\* A step that leaves the store alone keeps it typed and brings no report back.
LEMMA SameStore ==
  ASSUME StoreInv, UNCHANGED storeVars PROVE StoreInv' /\ Ages
<1>1. /\ now' = now /\ server' = server /\ watch' = watch /\ cache' = cache
  BY DEF storeVars
<1>2. StoreInv'
  BY <1>1 DEF StoreInv
<1>3. Ages
  BY <1>1, Zenon DEF Ages
<1>4. QED
  BY <1>2, <1>3

\* The invariant holds before the first pass.
LEMMA InitialPass ==
  ASSUME RetentionInit PROVE RetentionInv
<1>1. StoreInv
  <2>1. NoObject \in Objects /\ NoObject.state = "absent"
    BY DEF NoObject, Objects, Phases, Diagnostics
  <2>2. QED
    BY <2>1 DEF RetentionInit, StoreInit, StoreInv, Present
<1>2. gc = NoPass
  BY DEF RetentionInit, CollectorInit
<1>3. Passed = {} /\ LivePassed = {} /\ Remaining = {}
  BY <1>2 DEF Passed, LivePassed, Remaining, NoPass
<1>4. Cardinality({}) = 0
  BY FS_EmptySet
<1>5. PassTypeOK
  BY <1>2, <1>3 DEF PassTypeOK, NoPass
<1>6. Allowance = 0
  <2>1. Live(gc.listed, gc.asOf) = {}
    BY <1>2 DEF Live, NoPass
  <2>2. QED
    BY <1>4, <2>1, CollectorAssumption DEF Allowance, overCap
<1>7. CountInv
  <2>1. gc.trim = 0 /\ gc.collected = {} /\ {} \cap gc.collected = {}
    BY <1>2 DEF NoPass
  <2>2. gc.trim = (IF 0 > 0 THEN 0 - 0 ELSE 0) /\ 0 + gc.trim <= 0 /\ 0 + 0 <= 0 + gc.trim
    BY <2>1
  <2>3. QED
    BY <1>3, <1>4, <1>6, <2>1, <2>2, Zenon DEF CountInv
<1>8. KeepInv
  BY <1>3 DEF KeepInv
<1>9. QED
  BY <1>1, <1>5, <1>7, <1>8 DEF RetentionInv, PassInv

\* Every step keeps the invariant.
LEMMA RetentionSteps ==
  ASSUME RetentionInv, [RetentionNext]_retentionVars PROVE RetentionInv'
<1>1. StoreInv /\ PassInv /\ PassTypeOK
  BY DEF RetentionInv, PassInv
<1>2. CASE StartPass
  <2>1. StoreInv'
    BY <1>1, <1>2, SameStore DEF StartPass
  <2>2. QED
    BY <1>1, <1>2, <2>1, PassStarts DEF RetentionInv
<1>3. ASSUME NEW r \in Reports, Keep(r) PROVE RetentionInv'
  <2>1. StoreInv' /\ Ages
    BY <1>1, <1>3, SameStore DEF Keep
  <2>2. MovesOn(r, {}, {}) /\ Reaches(r)
    BY <1>1, <1>3, AfterMoves, Zenon DEF Keep
  <2>3. Dealt(r, {}, {})
    BY <1>3 DEF Keep, Dealt
  <2>4. QED
    BY <1>1, <2>1, <2>2, <2>3, PassStep DEF RetentionInv
<1>4. ASSUME NEW r \in Reports, Collect(r) PROVE RetentionInv'
  <2>1. StoreInv' /\ Ages /\ ~Present(server'[r])
    BY <1>1, <1>4, DeleteStore DEF Collect
  <2>2. MovesOn(r, {r}, {}) /\ Reaches(r)
    BY <1>1, <1>4, AfterMoves, Zenon DEF Collect, Collects
  <2>3. Dealt(r, {r}, {})
    BY <1>4, <2>1 DEF Collect, Collects, Dealt
  <2>4. QED
    BY <1>1, <2>1, <2>2, <2>3, PassStep DEF RetentionInv
<1>5. ASSUME NEW r \in Reports, AlreadyGone(r) PROVE RetentionInv'
  <2>1. StoreInv' /\ Ages /\ server' = server
    BY <1>1, <1>5, SameStore DEF AlreadyGone, storeVars
  <2>2. MovesOn(r, {}, {}) /\ Reaches(r)
    BY <1>1, <1>5, AfterMoves, Zenon DEF AlreadyGone, Collects
  <2>3. Dealt(r, {}, {})
    BY <1>5, <2>1 DEF AlreadyGone, Collects, Dealt
  <2>4. QED
    BY <1>1, <2>1, <2>2, <2>3, PassStep DEF RetentionInv
<1>6. ASSUME NEW r \in Reports, CollectFails(r) PROVE RetentionInv'
  <2>1. StoreInv' /\ Ages
    BY <1>1, <1>6, SameStore DEF CollectFails
  <2>2. MovesOn(r, {}, {r}) /\ Reaches(r)
    BY <1>1, <1>6, AfterMoves, Zenon DEF CollectFails, Collects
  <2>3. Dealt(r, {}, {r})
    BY <1>6 DEF CollectFails, Collects, Dealt
  <2>4. QED
    BY <1>1, <2>1, <2>2, <2>3, PassStep DEF RetentionInv
<1>7. ASSUME NEW r \in Reports, CollectAnswerLost(r) PROVE RetentionInv'
  <2>1. StoreInv' /\ Ages /\ ~Present(server'[r])
    BY <1>1, <1>7, DeleteStore DEF CollectAnswerLost
  <2>2. MovesOn(r, {r}, {r}) /\ Reaches(r)
    BY <1>1, <1>7, AfterMoves, Zenon DEF CollectAnswerLost, Collects
  <2>3. Dealt(r, {r}, {r})
    BY <1>7, <2>1 DEF CollectAnswerLost, Collects, Dealt
  <2>4. QED
    BY <1>1, <2>1, <2>2, <2>3, PassStep DEF RetentionInv
<1>8. ASSUME UNCHANGED gcVars,
             Tick \/ \E r \in Reports : Arrives(r) \/ Deliver(r) \/ Removed(r)
      PROVE  RetentionInv'
  <2>1. CASE Tick
    <3>1. now' = now + 1 /\ server' = server /\ watch' = watch /\ cache' = cache
      BY <2>1 DEF Tick
    <3>2. StoreInv'
      BY <1>1, <3>1 DEF StoreInv
    <3>3. Ages
      BY <3>1 DEF Ages
    <3>4. QED
      BY <1>1, <1>8, <3>2, <3>3, Surroundings DEF RetentionInv, gcVars
  <2>2. ASSUME NEW r \in Reports, Arrives(r) \/ Deliver(r) \/ Removed(r)
        PROVE  StoreInv' /\ Ages
    <3>1. CASE Arrives(r)
      BY <1>1, <3>1, ArriveStore
    <3>2. CASE Deliver(r)
      BY <1>1, <3>2, DeliverStore
    <3>3. CASE Removed(r)
      BY <1>1, <3>3, DeleteStore DEF Removed
    <3>4. QED
      BY <2>2, <3>1, <3>2, <3>3
  <2>3. QED
    BY <1>1, <1>8, <2>1, <2>2, Surroundings DEF RetentionInv, gcVars
<1>9. CASE UNCHANGED retentionVars
  <2>1. StoreInv' /\ Ages /\ gc' = gc
    BY <1>1, <1>9, SameStore DEF retentionVars, gcVars
  <2>2. QED
    BY <1>1, <2>1, Surroundings DEF RetentionInv
<1>10. QED
  BY <1>2, <1>3, <1>4, <1>5, <1>6, <1>7, <1>8, <1>9 DEF RetentionNext, CollectorNext

\* The invariant holds always.
LEMMA RetentionInvariant == RetentionSpec => []RetentionInv
BY InitialPass, RetentionSteps, PTL DEF RetentionSpec
-----------------------------------------------------------------------------

\* A finished pass without errors has enforced the cap and the ttl, whatever was
\* created, deleted or delivered around it, for any number of reports
\* (deleteExpiredReports).
THEOREM CapIsEnforced == RetentionSpec => []RetentionEnforced
<1>1. RetentionInv => RetentionEnforced
  <2> SUFFICES ASSUME RetentionInv, gc.pc = "idle", gc.failed = {}
               PROVE  LET left == {r \in gc.listed : Present(server[r])}
                      IN  /\ \A r \in left : ~Expired(r, gc.asOf)
                          /\ maxReports > 0 => Cardinality(left) <= maxReports
    BY DEF RetentionEnforced
  <2> DEFINE left == {r \in gc.listed : Present(server[r])}
             live == Live(gc.listed, gc.asOf)
  <2>1. PassTypeOK /\ CountInv
    BY DEF RetentionInv, PassInv
  <2>2. Passed = gc.listed
    BY <2>1 DEF Passed, PassTypeOK
  <2>3. \A r \in left : ~Expired(r, gc.asOf)
    BY <2>1, <2>2, Zenon DEF CountInv
  <2>4. left = Remaining /\ LivePassed = live
    BY <2>2, <2>3 DEF Remaining, LivePassed, Live
  <2>5. /\ Cardinality(left) + Allowance <= Cardinality(live) + gc.trim
        /\ gc.trim = IF Allowance > Cardinality(live) THEN Allowance - Cardinality(live) ELSE 0
    BY <2>1, <2>4, Zenon DEF CountInv
  <2>6. /\ live \in SUBSET Reports /\ left \in SUBSET Reports /\ Allowance \in Nat
        /\ Allowance <= Cardinality(live)
        /\ Allowance = IF maxReports > 0 /\ Cardinality(live) > maxReports
                         THEN Cardinality(live) - maxReports ELSE 0
    BY <2>1, <2>4, AllowanceFacts, Zenon
  <2>7. Cardinality(live) \in Nat /\ Cardinality(left) \in Nat
    BY <2>6, Counting, Zenon
  <2>8. maxReports > 0 => Cardinality(left) <= maxReports
    <3> HIDE DEF left, live
    <3>1. QED
      BY <2>5, <2>6, <2>7, CollectorAssumption
  <2>9. QED
    BY <2>3, <2>8, Zenon
<1>2. QED
  BY <1>1, RetentionInvariant, PTL

\* At every moment of a pass, the cap has cost no report that fits under it and the
\* ones deleted for it are the oldest (remainingTrim).
THEOREM CapKeepsTheNewest == RetentionSpec => []NewestSurvive
<1>1. RetentionInv => NewestSurvive
  <2> SUFFICES ASSUME RetentionInv PROVE NewestSurvive
    OBVIOUS
  <2> DEFINE live == Live(gc.listed, gc.asOf)
             kept == live \ gc.collected
             lost == live \cap gc.collected
  <2>1. PassTypeOK /\ CountInv /\ KeepInv
    BY DEF RetentionInv, PassInv
  <2>2. lost = LivePassed \cap gc.collected
    BY <2>1, Zenon DEF PassTypeOK, LivePassed, Passed, Live
  <2>3. /\ live \in SUBSET Reports /\ lost \in SUBSET Reports /\ kept \in SUBSET Reports
        /\ Allowance \in Nat
        /\ Allowance = IF maxReports > 0 /\ Cardinality(live) > maxReports
                         THEN Cardinality(live) - maxReports ELSE 0
    BY <2>1, AllowanceFacts
  <2>4. /\ Cardinality(live) \in Nat /\ Cardinality(lost) \in Nat /\ Cardinality(kept) \in Nat
        /\ Cardinality(lost) = 0 => lost = {}
    BY <2>3, Counting, Zenon
  <2>5. Cardinality(lost) <= Allowance
    <3>1. Cardinality(lost) + gc.trim <= Allowance /\ gc.trim \in Nat
      BY <2>1, <2>2, Zenon DEF CountInv, PassTypeOK
    <3>2. Cardinality(lost) \in Nat /\ Allowance \in Nat
      BY <2>3, <2>4, Zenon
    <3> HIDE DEF lost
    <3>3. QED
      BY <3>1, <3>2
  <2>6. Cardinality(live) = Cardinality(kept) + Cardinality(lost)
    <3>1. IsFiniteSet(kept) /\ IsFiniteSet(lost) /\ kept \cap lost = {} /\ live = kept \cup lost
      BY <2>3, Counting, Zenon
    <3> HIDE DEF live, kept, lost
    <3>2. Cardinality(kept \cup lost) = Cardinality(kept) + Cardinality(lost) - Cardinality({})
      BY <3>1, FS_Union
    <3>3. QED
      BY <2>4, <3>1, <3>2, FS_EmptySet
  <2>7. Allowance = 0 => kept = live
    <3>1. lost = {} => kept = live
      OBVIOUS
    <3> HIDE DEF live, kept, lost
    <3>2. QED
      BY <2>4, <2>5, <3>1
  <2>8. /\ maxReports = 0 => kept = live
        /\ Cardinality(live) < maxReports => kept = live
        /\ Cardinality(live) >= maxReports => Cardinality(kept) >= maxReports
    <3> HIDE DEF live, kept, lost
    <3>1. maxReports \in Nat
      BY CollectorAssumption
    <3>2. maxReports = 0 \/ Cardinality(live) < maxReports => Allowance = 0
      BY <2>3, <2>4, <3>1
    <3>3. Allowance + maxReports <= Cardinality(live) \/ Allowance = 0
      BY <2>3, <2>4, <3>1
    <3>4. Cardinality(live) >= maxReports => Cardinality(kept) >= maxReports
      <4>1. CASE Allowance = 0
        BY <2>7, <4>1
      <4>2. CASE Allowance + maxReports <= Cardinality(live)
        BY <2>3, <2>4, <2>5, <2>6, <3>1, <4>2
      <4>3. QED
        BY <3>3, <4>1, <4>2
    <3>5. QED
      BY <2>7, <3>2, <3>4
  <2>9. ASSUME NEW t \in lost, NEW k \in kept \ (gc.failed \cup gc.todo), Present(server[k])
        PROVE  server[t].created <= server[k].created
    <3>1. k \in LivePassed \ (gc.collected \cup gc.failed)
      BY Zenon DEF LivePassed, Passed, Live
    <3>2. QED
      BY <2>1, <2>2, <2>9, <3>1, Zenon DEF KeepInv
  <2>10. QED
    BY <2>8, <2>9, Zenon DEF NewestSurvive
<1>2. QED
  BY <1>1, RetentionInvariant, PTL

-----------------------------------------------------------------------------
\* The configuration: the cap and the age the collector runs with among its settings.

\* How far the Config is at each step of loadConfig.
Overridden(s) ==
  IF s \in Found \ {"WebhookURL"} /\ env[s].parses
    THEN IF s = "WebhookAuthHeader" THEN TrimSpace(env[s].value) ELSE env[s].value
    ELSE Defaults[s]

FromFlags(s) ==
  IF s \in DOMAIN args THEN args[s].value
  ELSE IF s = "WebhookURL" THEN NoText ELSE Overridden(s)

EnvURL == IF "WebhookURL" \in Found THEN TrimSpace(env["WebhookURL"].value) ELSE NoText

Resolved(s) ==
  IF s = "WebhookURL" /\ s \notin DOMAIN args THEN EnvURL ELSE FromFlags(s)

ConfigInv ==
  /\ DOMAIN config = Settings
  /\ pc = "env" => \A s \in Settings : config[s] = Defaults[s]
  /\ pc = "flags" => \A s \in Settings : config[s] = Overridden(s)
  /\ pc = "resolve" => \A s \in Settings : config[s] = FromFlags(s)
  /\ pc \in {"validate", "running"} => \A s \in Settings : config[s] = Resolved(s)
  /\ urlFromEnv = IF pc = "env" THEN NoText ELSE EnvURL
  /\ pc \in {"flags", "resolve", "validate", "running"} =>
       (envErr <=> \E s \in Found : ~env[s].parses)
  /\ pc = "running" => Valid /\ ~envErr
  /\ pc \in {"env", "flags", "resolve", "validate", "running", "rejected", "usage"}

\* Nothing is set before loadConfig.
LEMMA ConfigInitially == ConfigInit => ConfigInv
BY ConfigAssumption DEF ConfigInit, ConfigInv, Settings

\* The environment replaces defaults.
LEMMA LoadKeeps == ConfigInv /\ LoadFromEnv => ConfigInv'
<1> SUFFICES ASSUME ConfigInv, LoadFromEnv PROVE ConfigInv'
  OBVIOUS
<1>1. pc = "env" /\ pc' = "flags" /\ env' = env /\ args' = args
  BY DEF LoadFromEnv
<1>2. Found' = Found /\ EnvURL' = EnvURL
  BY <1>1 DEF Found, EnvURL
<1>3. config' = FromEnv /\ DOMAIN config' = Settings
  BY DEF LoadFromEnv, FromEnv
<1>4. \A s \in Settings : config'[s] = Overridden(s)
  BY <1>1, <1>3 DEF FromEnv, Overridden, ConfigInv
<1>5. \A s \in Settings : Overridden(s)' = Overridden(s)
  BY <1>1, <1>2 DEF Overridden
<1>6. urlFromEnv' = EnvURL
  BY <1>1 DEF LoadFromEnv, EnvURL, ConfigInv
<1>7. envErr' <=> \E s \in Found : ~env[s].parses
  BY DEF LoadFromEnv
<1>8. QED
  BY <1>1, <1>2, <1>3, <1>4, <1>5, <1>6, <1>7 DEF ConfigInv

\* The flags replace what the environment left.
LEMMA ParseKeeps == ConfigInv /\ ParseFlags => ConfigInv'
<1> SUFFICES ASSUME ConfigInv, ParseFlags PROVE ConfigInv'
  OBVIOUS
<1>1. pc = "flags" /\ env' = env /\ args' = args /\ urlFromEnv' = urlFromEnv
      /\ envErr' = envErr
  BY DEF ParseFlags
<1>2. Found' = Found /\ EnvURL' = EnvURL
  BY <1>1 DEF Found, EnvURL
<1>3. CASE pc' = "usage" /\ config' = config
  BY <1>1, <1>2, <1>3 DEF ConfigInv
<1>4. CASE /\ pc' = "resolve"
           /\ config' = [s \in Settings |->
                           IF s \in DOMAIN args THEN args[s].value
                           ELSE IF s = "WebhookURL" THEN NoText
                           ELSE config[s]]
  <2>1. \A s \in Settings : config'[s] = FromFlags(s)
    BY <1>1, <1>4 DEF FromFlags, ConfigInv
  <2>2. \A s \in Settings : FromFlags(s)' = FromFlags(s)
    BY <1>1, <1>2 DEF FromFlags, Overridden
  <2>3. DOMAIN config' = Settings
    BY <1>4
  <2>4. QED
    BY <1>1, <1>2, <1>4, <2>1, <2>2, <2>3 DEF ConfigInv
<1>5. QED
  BY <1>3, <1>4 DEF ParseFlags

\* The webhook URL gets its value after the flags.
LEMMA ResolveKeeps == ConfigInv /\ ResolveSecrets => ConfigInv'
<1> SUFFICES ASSUME ConfigInv, ResolveSecrets PROVE ConfigInv'
  OBVIOUS
<1>1. pc = "resolve" /\ pc' = "validate" /\ env' = env /\ args' = args
      /\ urlFromEnv' = urlFromEnv /\ envErr' = envErr
  BY DEF ResolveSecrets
<1>2. Found' = Found /\ EnvURL' = EnvURL /\ urlFromEnv = EnvURL
  BY <1>1 DEF Found, EnvURL, ConfigInv
<1>3. DOMAIN config' = Settings
  BY DEF ResolveSecrets, ConfigInv
<1>4. \A s \in Settings : config'[s] = Resolved(s)
  <2>1. "WebhookURL" \in Settings
    BY DEF Settings, Credentials
  <2>2. \A s \in Settings \ {"WebhookURL"} : config'[s] = config[s]
    BY DEF ResolveSecrets, ConfigInv
  <2>3. config'["WebhookURL"] = IF "WebhookURL" \in DOMAIN args THEN config["WebhookURL"]
                                ELSE urlFromEnv
    BY <2>1, Zenon DEF ResolveSecrets, ConfigInv
  <2>4. QED
    BY <1>1, <1>2, <2>1, <2>2, <2>3 DEF Resolved, ConfigInv
<1>5. \A s \in Settings : Resolved(s)' = Resolved(s)
  BY <1>1, <1>2 DEF Resolved, FromFlags, Overridden
<1>6. QED
  BY <1>1, <1>2, <1>3, <1>4, <1>5 DEF ConfigInv

\* Validate changes no setting.
LEMMA ValidateKeeps == ConfigInv /\ Validate => ConfigInv'
<1> SUFFICES ASSUME ConfigInv, Validate PROVE ConfigInv'
  OBVIOUS
<1>1. /\ pc = "validate" /\ env' = env /\ args' = args /\ config' = config
      /\ urlFromEnv' = urlFromEnv /\ envErr' = envErr
  BY DEF Validate
<1>2. Found' = Found /\ EnvURL' = EnvURL /\ Valid' = Valid
  BY <1>1 DEF Found, EnvURL, Valid
<1>3. \A s \in Settings : Resolved(s)' = Resolved(s)
  BY <1>1, <1>2 DEF Resolved, FromFlags, Overridden
<1>4. pc' = IF envErr \/ ~Valid THEN "rejected" ELSE "running"
  BY DEF Validate
<1>5. QED
  BY <1>1, <1>2, <1>3, <1>4 DEF ConfigInv

\* Every setting has its value from the right source at each step of loadConfig.
LEMMA ConfigInductive == ConfigSpec => []ConfigInv
<1>1. ConfigInv /\ UNCHANGED configVars => ConfigInv'
  <2> SUFFICES ASSUME ConfigInv, UNCHANGED configVars PROVE ConfigInv'
    OBVIOUS
  <2>1. /\ env' = env /\ args' = args /\ pc' = pc /\ config' = config
        /\ urlFromEnv' = urlFromEnv /\ envErr' = envErr
    BY DEF configVars
  <2>2. Found' = Found /\ EnvURL' = EnvURL /\ Valid' = Valid
    BY <2>1 DEF Found, EnvURL, Valid
  <2>3. \A s \in Settings : /\ Overridden(s)' = Overridden(s)
                           /\ FromFlags(s)' = FromFlags(s)
                           /\ Resolved(s)' = Resolved(s)
    BY <2>1, <2>2 DEF Resolved, FromFlags, Overridden
  <2>4. QED
    BY <2>1, <2>2, <2>3 DEF ConfigInv
<1>2. QED
  BY <1>1, ConfigInitially, LoadKeeps, ParseKeeps, ResolveKeeps, ValidateKeeps, PTL
     DEF ConfigSpec, ConfigNext

\* A product that fits does not wrap.
LEMMA FitsUnwrapped ==
  ASSUME NEW x \in 0..MaxInt PROVE Wrapped(x) = x
<1>1. x + MaxInt + 1 \in 0..(2 * (MaxInt + 1) - 1) /\ 2 * (MaxInt + 1) > 0
  BY ConfigAssumption
<1>2. (x + MaxInt + 1) % (2 * (MaxInt + 1)) = x + MaxInt + 1
  BY <1>1, ConfigAssumption
<1>3. QED
  BY <1>2, ConfigAssumption DEF Wrapped

\* Multiplication by the hour keeps the order.
LEMMA ProductGrows ==
  ASSUME NEW a \in Nat, NEW b \in Nat, NEW h \in Nat, a <= b
  PROVE  a * h <= b * h
OBVIOUS

\* Validate's bound on the hours is what keeps the retention from wrapping to a
\* duration under which the collector would delete everything.
THEOREM AcceptedConfigIsUsable == ConfigSpec => []AcceptedIsUsable
<1>1. ConfigInv => AcceptedIsUsable
  <2> SUFFICES ASSUME ConfigInv, pc = "running"
               PROVE  /\ TTLDuration = config["TTLHours"] * Hour /\ TTLDuration > 0
                      /\ config["LogTailLines"] \in 1..MaxLogLines
                      /\ config["MaxConcurrentReports"] >= 1
                      /\ config["MaxConcurrentReconciles"] >= 1
                      /\ config["WebhookURL"] # NoText => validateWebhookURL(config["WebhookURL"])
    BY DEF AcceptedIsUsable
  <2> DEFINE hours == config["TTLHours"]
  <2> HIDE DEF hours
  <2>1. Valid
    BY DEF ConfigInv
  <2>2. hours \in 1..maxTTLHours
    BY <2>1 DEF Valid, hours
  <2>3. hours * Hour \in 0..MaxInt /\ hours * Hour > 0
    <3>1. hours \in Nat /\ hours <= maxTTLHours /\ maxTTLHours \in Nat /\ Hour \in Nat
      BY <2>2, ConfigAssumption
    <3>2. hours * Hour <= maxTTLHours * Hour
      BY <3>1, ProductGrows
    <3>3. 1 * Hour <= hours * Hour
      BY <2>2, <3>1, ProductGrows
    <3>4. hours * Hour \in Nat /\ maxTTLHours * Hour \in Nat
      BY <3>1
    <3>5. QED
      BY <3>2, <3>3, <3>4, ConfigAssumption
  <2>4. TTLDuration = hours * Hour
    BY <2>3, FitsUnwrapped DEF TTLDuration, hours
  <2>5. QED
    BY <2>1, <2>3, <2>4 DEF Valid, hours
<1>2. QED
  BY <1>1, ConfigInductive, PTL

\* Flag, then variable, then default, for every setting LoadFromEnv knows, and no
\* variable that does not parse goes unnoticed.
THEOREM AskedConfigRuns == ConfigSpec => []AskedIsWhatRuns
<1>1. ConfigInv => AskedIsWhatRuns
  <2> SUFFICES ASSUME ConfigInv, pc = "running", NEW s \in EnvSettings
               PROVE  /\ config[s] = Asked(s)
                      /\ s \in DOMAIN env => env[s].empty \/ env[s].parses
    BY DEF AskedIsWhatRuns
  <2>1. s \in Settings /\ config[s] = Resolved(s)
    BY DEF EnvSettings, ConfigInv
  <2>2. \A t \in Found : env[t].parses
    BY DEF ConfigInv
  <2>3. s \in Found <=> s \in DOMAIN env /\ ~env[s].empty
    BY DEF Found
  <2>4. Defaults["WebhookURL"] = NoText
    BY ConfigAssumption
  <2>5. s \in Credentials <=> s \in {"WebhookURL", "WebhookAuthHeader"}
    BY DEF Credentials
  <2>6. config[s] = Asked(s)
    BY <2>1, <2>2, <2>3, <2>4, <2>5 DEF Resolved, FromFlags, Overridden, EnvURL, Asked
  <2>7. QED
    BY <2>2, <2>3, <2>6
<1>2. QED
  BY <1>1, ConfigInductive, PTL
=============================================================================
