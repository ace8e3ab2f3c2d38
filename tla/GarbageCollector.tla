-------------------------- MODULE GarbageCollector --------------------------
(***************************************************************************)
(* The retention pass, GarbageCollector.deleteExpiredReports, and the loop *)
(* in Start that runs it.                                                  *)
(*                                                                         *)
(* gc is the current pass, or the last one once pc is "idle":              *)
(*   listed     the reports the pass was given: the informer cache         *)
(*   asOf       the time it took before looking at any of them             *)
(*   todo       those the loop has not reached                             *)
(*   trim       remainingTrim                                              *)
(*   collected  those this pass deleted, whether or not it was told so     *)
(*   failed     those whose deletion returned an error (lastErr, and       *)
(*              GCErrorsTotal)                                             *)
(* trimmedReports is what ReportsTrimmedTotal counts.                      *)
(***************************************************************************)
EXTENDS ReportStore, FiniteSets

CONSTANTS
  ttl,
  maxReports     \* 0 means no cap

ASSUME CollectorAssumption ==
  ttl \in Nat /\ maxReports \in Nat /\ IsFiniteSet(Reports)

VARIABLES gc, trimmedReports

gcVars == <<gc, trimmedReports>>

NoPass == [pc |-> "idle", listed |-> {}, asOf |-> 0, todo |-> {}, trim |-> 0,
           collected |-> {}, failed |-> {}]

CollectorInit ==
  /\ gc = NoPass
  /\ trimmedReports = {}

Expired(r, t) == t > server[r].created + ttl

\* The reports of S that a pass at time t would not expire.
Live(S, t) == {r \in S : ~Expired(r, t)}

\* Variant: expired reports count towards the cap.
overCap_all(S, t) ==
  IF maxReports > 0 /\ Cardinality(S) > maxReports THEN Cardinality(S) - maxReports ELSE 0

overCap(S, t) ==
  LET live == Cardinality(Live(S, t))
  IN  IF maxReports > 0 /\ live > maxReports THEN live - maxReports ELSE 0

-----------------------------------------------------------------------------

\* List, from the cache, and the decision how many to trim.
StartPass ==
  LET S == {r \in Reports : Present(cache[r])}
  IN  /\ up
      /\ gc.pc = "idle"
      /\ S # {}
      /\ gc' = [pc |-> "run", listed |-> S, asOf |-> now, todo |-> S,
                trim |-> overCap(S, now), collected |-> {}, failed |-> {}]
      /\ UNCHANGED <<storeVars, trimmedReports>>

\* The loop has reached r. sort.Slice orders by creation time; it is not stable,
\* so reports created in the same second come in any order.
Reaches(r) ==
  /\ gc.pc = "run"
  /\ r \in gc.todo
  /\ \A s \in gc.todo : server[r].created <= server[s].created

Trims(r) == ~Expired(r, gc.asOf) /\ gc.trim > 0

\* Variant: an expired report uses up the trim count too.
PassAfter_countsExpired(r) ==
  [gc EXCEPT !.todo = @ \ {r},
             !.trim = IF @ > 0 THEN @ - 1 ELSE 0,
             !.pc = IF gc.todo = {r} THEN "idle" ELSE "run"]

\* The pass moves on from r.
PassAfter(r) ==
  [gc EXCEPT !.todo = @ \ {r},
             !.trim = IF Trims(r) THEN @ - 1 ELSE @,
             !.pc = IF gc.todo = {r} THEN "idle" ELSE "run"]

Keep(r) ==
  /\ Reaches(r)
  /\ ~Expired(r, gc.asOf)
  /\ ~Trims(r)
  /\ gc' = PassAfter(r)
  /\ UNCHANGED <<storeVars, trimmedReports>>

Collects(r) == Reaches(r) /\ (Expired(r, gc.asOf) \/ Trims(r))

\* client.Delete succeeds.
Collect(r) ==
  /\ Collects(r)
  /\ Present(server[r])
  /\ Delete(r)
  /\ gc' = [PassAfter(r) EXCEPT !.collected = @ \cup {r}]
  /\ trimmedReports' = IF Trims(r) THEN trimmedReports \cup {r} ELSE trimmedReports
  /\ UNCHANGED <<now, cache, up>>

\* client.Delete finds the report gone: neither an error nor a deletion.
AlreadyGone(r) ==
  /\ Collects(r)
  /\ ~Present(server[r])
  /\ gc' = PassAfter(r)
  /\ UNCHANGED <<storeVars, trimmedReports>>

\* Variant: an error ends the loop in Start.
CollectFails_ends(r) ==
  /\ Collects(r)
  /\ gc' = [PassAfter(r) EXCEPT !.failed = @ \cup {r}, !.pc = "ended"]
  /\ UNCHANGED <<storeVars, trimmedReports>>

\* client.Delete fails in any other way: the pass goes on with the next report.
CollectFails(r) ==
  /\ Collects(r)
  /\ gc' = [PassAfter(r) EXCEPT !.failed = @ \cup {r}]
  /\ UNCHANGED <<storeVars, trimmedReports>>

\* client.Delete reports an error, a timeout for instance, although the server has
\* deleted the report: it is counted as a failure, and not as a trim.
CollectAnswerLost(r) ==
  /\ Collects(r)
  /\ Present(server[r])
  /\ Delete(r)
  /\ gc' = [PassAfter(r) EXCEPT !.collected = @ \cup {r}, !.failed = @ \cup {r}]
  /\ UNCHANGED <<now, cache, up, trimmedReports>>

CollectorNext ==
  \/ StartPass
  \/ \E r \in Reports : \/ Keep(r) \/ Collect(r) \/ AlreadyGone(r)
                       \/ CollectFails(r) \/ CollectAnswerLost(r)

-----------------------------------------------------------------------------

\* The collector by itself, in a cluster where reports come and go.
Arrives(r) ==
  /\ server[r].state = "absent"
  /\ now <= LastStart
  /\ Write(r, FreshObject(now))
  /\ UNCHANGED <<now, cache, up>>

RetentionInit == StoreInit /\ CollectorInit

RetentionNext ==
  \/ CollectorNext
  \/ /\ \/ Tick
        \/ \E r \in Reports : Arrives(r) \/ Deliver(r) \/ Removed(r)
     /\ UNCHANGED gcVars

retentionVars == <<storeVars, gcVars>>

RetentionSpec == RetentionInit /\ [][RetentionNext]_retentionVars

-----------------------------------------------------------------------------

\* A pass without errors leaves at most maxReports of the unexpired reports it
\* listed, and none of the expired ones, whatever was created, deleted or
\* delivered to the cache while it ran (deleteExpiredReports).
RetentionEnforced ==
  (gc.pc = "idle" /\ gc.failed = {}) =>
    LET left == {r \in gc.listed : Present(server[r])}
    IN  /\ \A r \in left : ~Expired(r, gc.asOf)
        /\ maxReports > 0 => Cardinality(left) <= maxReports

\* The cap never costs a report that fits under it: of the unexpired reports it
\* listed, a pass leaves alone at least as many as the cap allows, and those it
\* does delete are no newer than any it leaves (the countdown of remainingTrim).
NewestSurvive ==
  LET live == Live(gc.listed, gc.asOf)
      kept == live \ gc.collected
  IN  /\ maxReports = 0 => kept = live
      /\ Cardinality(live) >= maxReports => Cardinality(kept) >= maxReports
      /\ Cardinality(live) < maxReports => kept = live
      /\ \A t \in live \cap gc.collected, k \in kept \ (gc.failed \cup gc.todo) :
           Present(server[k]) => server[t].created <= server[k].created

=============================================================================
