------------------------- MODULE AgentPipelineProofs -------------------------
(***************************************************************************)
(* The agent's pipeline, for any number of containers, kills, slots and    *)
(* any cooldown.  A kill moves through the ring, the reader and a worker;  *)
(* the invariant says where each kill is, in which order the kills of a    *)
(* container come, what the cooldown remembers of them, what the slots and *)
(* the wait group count, and how far the drain has got.                    *)
(***************************************************************************)
EXTENDS AgentPipeline, FiniteSetTheorems, TLAPS

\* Kill j of a container came before kill k.
Before(j, k) == j[1] = k[1] /\ j[2] < k[2]

StateInv ==
  /\ now \in Nat
  /\ ring \in Seq(Kills)
  /\ fate \in [Kills -> Fates]
  /\ detectedAt \in [Kills -> Nat]
  /\ worker \in [Kills -> {"none", "done"} \cup Working]

\* Where kill k is.
KillInv(k) ==
  /\ fate[k] = "read" <=> reader = "allow" /\ held = k
  /\ (fate[k] = "accepted" /\ worker[k] = "none") <=> (reader \in {"slot", "add"} /\ held = k)
  /\ worker[k] = "handle" => fate[k] = "accepted"
  /\ worker[k] \in {"release", "finish", "done"} => fate[k] \in {"reported", "failed"}

HeldInv ==
  /\ reader \in {"allow", "slot", "add"} => held \in Kills
  /\ \A k \in Kills : KillInv(k)

\* The kills the reader has taken from the ring.
Past == {"read", "suppressed", "accepted", "abandoned", "reported", "failed"}

RingInv ==
  /\ \A i \in 1..Len(ring) : fate[ring[i]] = "buffered"
  /\ \A i, j \in 1..Len(ring) : i < j /\ ring[i][1] = ring[j][1] => Before(ring[i], ring[j])
  /\ \A k \in Kills : fate[k] = "buffered" => \E i \in 1..Len(ring) : ring[i] = k

OrderInv ==
  \A j, k \in Kills : Before(j, k) =>
    /\ fate[k] # "pending" => fate[j] # "pending"
    /\ fate[k] \in Past => fate[j] \notin {"pending", "buffered", "read"}

FateInv == HeldInv /\ RingInv /\ OrderInv

\* The time of the next decision of the cooldown, or a lower bound of it.
DecisionTime == IF reader = "allow" THEN detectedAt[held] ELSE now

\* What the cooldown has forgotten is a window old by the next decision.
CoolInv ==
  /\ \A k \in Kills : fate[k] \in Past => detectedAt[k] <= now
  /\ ReportCooldown = 0 => DOMAIN last = {}
  /\ \A c \in DOMAIN last :
       /\ last[c] <= DecisionTime
       /\ \E k \in Kills : k[1] = c /\ Admitted(k) /\ detectedAt[k] = last[c]
  /\ \A k \in Kills : Admitted(k) =>
       \/ k[1] \in DOMAIN last /\ detectedAt[k] <= last[k[1]]
       \/ detectedAt[k] + ReportCooldown <= DecisionTime

Handling == {k \in Kills : worker[k] \in {"handle", "release"}}

Grouped == {k \in Kills : worker[k] \in Working}

CountsInv ==
  /\ slots = Cardinality(Handling) + (IF reader = "add" THEN 1 ELSE 0)
  /\ slots <= MaxConcurrentReports
  /\ wg = Cardinality(Grouped)

\* Once the group is waited for, the reader has stopped or the drain is over.
DrainInv ==
  /\ run = "start" => reader = "off"
  /\ run \in {"start", "select", "drainReader"} => waiter = "none"
  /\ waiter # "none" => reader = "done" \/ drainExpired
  /\ waiter = "drained" /\ ~drainExpired => Grouped = {}
  /\ run = "returned" => waiter = "drained" \/ drainExpired
  /\ reportCtxDone => run \in {"returned", "failed", "exited"}
  /\ reportCtxDone => drainExpired \/ watchErrCh \/ (reader = "done" /\ Grouped = {})
  /\ \A k \in Kills : fate[k] = "abandoned" => reader = "done"
  /\ \A j, k \in Kills : fate[j] = "abandoned" /\ fate[k] = "abandoned" => j = k

PipelineInv ==
  /\ StateInv /\ FateInv
  /\ CoolInv /\ CooldownEvicts /\ CooldownSpacing /\ SuppressedIsRepeat
  /\ CountsInv /\ DrainInv
-----------------------------------------------------------------------------
\* The kills of one container are ordered.

\* A kill is a container and a number.
LEMMA KillFacts ==
  ASSUME NEW k \in Kills
  PROVE  k[1] \in Containers /\ k[2] \in 1..KillsEach /\ k = <<k[1], k[2]>>
BY DEF Kills

\* The kills of one container are totally ordered by when they happened.
LEMMA KillOrder ==
  /\ \A k \in Kills : ~Before(k, k)
  /\ \A j, k \in Kills : ~(Before(j, k) /\ Before(k, j))
  /\ \A j, k \in Kills : j[1] = k[1] => j = k \/ Before(j, k) \/ Before(k, j)
<1>1. \A k \in Kills : ~Before(k, k)
  BY KillFacts, PipelineAssumption DEF Before
<1>2. \A j, k \in Kills : ~(Before(j, k) /\ Before(k, j))
  BY KillFacts, PipelineAssumption DEF Before
<1>3. ASSUME NEW j \in Kills, NEW k \in Kills, j[1] = k[1]
      PROVE  j = k \/ Before(j, k) \/ Before(k, j)
  <2>1. j[2] \in Nat /\ k[2] \in Nat
    BY KillFacts, PipelineAssumption
  <2>2. CASE j[2] = k[2]
    BY <1>3, <2>2, KillFacts
  <2>3. CASE j[2] # k[2]
    BY <1>3, <2>1, <2>3 DEF Before
  <2>4. QED
    BY <2>2, <2>3
<1>4. QED
  BY <1>1, <1>2, <1>3

\* The guard of OOMKill: the earlier kills of the container have happened.
LEMMA EarlierKills ==
  ASSUME NEW k \in Kills, \A n \in 1..(k[2] - 1) : fate[<<k[1], n>>] # "pending"
  PROVE  \A j \in Kills : Before(j, k) => fate[j] # "pending"
<1> SUFFICES ASSUME NEW j \in Kills, Before(j, k) PROVE fate[j] # "pending"
  OBVIOUS
<1>1. j[1] = k[1] /\ j[2] < k[2]
  BY DEF Before
<1>2. j[2] \in 1..KillsEach /\ k[2] \in 1..KillsEach /\ j = <<j[1], j[2]>>
  BY KillFacts
<1>3. j[2] \in 1..(k[2] - 1)
  BY <1>1, <1>2, PipelineAssumption
<1>4. QED
  BY <1>1, <1>2, <1>3

-----------------------------------------------------------------------------
\* Where the kills are.

\* A step that decides about one kill leaves the others where they are.
LEMMA OneFate ==
  ASSUME StateInv, NEW h \in Kills, NEW f \in Fates, fate' = [fate EXCEPT ![h] = f]
  PROVE  /\ fate' \in [Kills -> Fates] /\ fate'[h] = f
         /\ \A k \in Kills \ {h} : fate'[k] = fate[k]
BY DEF StateInv

\* A kill the reader has taken goes on: the ring and the order do not notice.
LEMMA Settles ==
  ASSUME StateInv, RingInv, OrderInv, NEW h \in Kills, NEW f \in Past \ {"read"},
         fate[h] \in Past, fate' = [fate EXCEPT ![h] = f], ring' = ring
  PROVE  RingInv' /\ OrderInv'
<1>1. /\ f \in Fates /\ fate'[h] = f
      /\ \A k \in Kills \ {h} : fate'[k] = fate[k]
  BY OneFate, Zenon DEF Past, Fates
<1>2. \A i \in 1..Len(ring) : ring[i] \in Kills
  BY DEF StateInv
<1>3. fate[h] # "buffered" /\ f \notin {"buffered", "pending", "read"} /\ fate[h] # "pending"
  BY DEF Past
<1>4. RingInv'
  BY <1>1, <1>2, <1>3 DEF RingInv
<1>5. OrderInv'
  BY <1>1, <1>3 DEF OrderInv
<1>6. QED
  BY <1>4, <1>5

\* A step that moves no kill keeps the ring and the order of decisions.
LEMMA SameFates ==
  ASSUME RingInv, OrderInv, fate' = fate, ring' = ring
  PROVE  RingInv' /\ OrderInv'
BY DEF RingInv, OrderInv

\* The kernel fills the ring in the order of the kills.
LEMMA KillFates ==
  ASSUME StateInv, FateInv, NEW k \in Kills, OOMKill(k)
  PROVE  StateInv' /\ FateInv'
<1>1. /\ fate[k] = "pending" /\ reader' = reader /\ held' = held /\ worker' = worker
      /\ now' = now /\ detectedAt' = detectedAt
  BY DEF OOMKill, readerVars, workVars
<1>2. \A j \in Kills : Before(j, k) => fate[j] # "pending"
  BY EarlierKills DEF OOMKill
<1>3. \A j \in Kills : Before(k, j) => fate[j] = "pending"
  BY <1>1 DEF FateInv, OrderInv
<1>4. PICK f \in {"buffered", "lost"} :
        /\ fate' = [fate EXCEPT ![k] = f]
        /\ ring' = IF f = "buffered" THEN Append(ring, k) ELSE ring
  BY DEF OOMKill
<1>5. /\ fate' \in [Kills -> Fates] /\ fate'[k] = f
      /\ \A j \in Kills \ {k} : fate'[j] = fate[j]
  BY <1>4, OneFate, Zenon DEF Fates
<1>6. \A i \in 1..Len(ring) : ring[i] \in Kills /\ fate[ring[i]] = "buffered"
  BY DEF StateInv, FateInv, RingInv
<1>7. ring' \in Seq(Kills)
  BY <1>4 DEF StateInv
<1>8. HeldInv'
  BY <1>1, <1>5 DEF FateInv, HeldInv, KillInv
<1>9. OrderInv'
  BY <1>1, <1>2, <1>3, <1>5, KillOrder DEF FateInv, OrderInv, Past
<1>10. RingInv'
  <2>1. CASE f = "lost"
    BY <1>1, <1>4, <1>5, <1>6, <2>1 DEF FateInv, RingInv
  <2>2. CASE f = "buffered"
    <3>1. /\ Len(ring') = Len(ring) + 1 /\ ring'[Len(ring) + 1] = k /\ Len(ring) \in Nat
          /\ \A i \in 1..Len(ring) : ring'[i] = ring[i]
      BY <1>4, <2>2 DEF StateInv
    <3>2. \A i \in 1..Len(ring') : i \in 1..Len(ring) \/ i = Len(ring) + 1
      BY <3>1
    <3>3. \A i \in 1..Len(ring') : fate'[ring'[i]] = "buffered"
      BY <1>1, <1>5, <1>6, <2>2, <3>1, <3>2
    <3>4. ASSUME NEW i \in 1..Len(ring'), NEW j \in 1..Len(ring'), i < j,
                 ring'[i][1] = ring'[j][1]
          PROVE  Before(ring'[i], ring'[j])
      <4>1. i \in 1..Len(ring)
        BY <3>1, <3>2, <3>4
      <4>2. CASE j \in 1..Len(ring)
        BY <3>1, <3>4, <4>1, <4>2 DEF FateInv, RingInv
      <4>3. CASE j = Len(ring) + 1
        <5>1. ring[i] \in Kills /\ fate[ring[i]] = "buffered" /\ ring[i][1] = k[1]
          BY <1>6, <3>1, <3>4, <4>1, <4>3
        <5>2. Before(ring[i], k)
          BY <1>1, <1>3, <5>1, KillOrder
        <5>3. QED
          BY <3>1, <4>1, <4>3, <5>2
      <4>4. QED
        BY <3>2, <4>2, <4>3
    <3>5. ASSUME NEW j \in Kills, fate'[j] = "buffered"
          PROVE  \E i \in 1..Len(ring') : ring'[i] = j
      <4>1. CASE j = k
        BY <3>1, <4>1
      <4>2. CASE j # k
        <5>1. PICK i \in 1..Len(ring) : ring[i] = j
          BY <1>5, <3>5, <4>2 DEF FateInv, RingInv
        <5>2. QED
          BY <3>1, <5>1
      <4>3. QED
        BY <4>1, <4>2
    <3>6. QED
      BY <3>3, <3>4, <3>5 DEF RingInv
  <2>3. QED
    BY <2>1, <2>2
<1>11. QED
  BY <1>1, <1>5, <1>7, <1>8, <1>9, <1>10 DEF StateInv, FateInv
\* The reader takes the oldest record: it is the next kill of its container.
LEMMA ReadFates ==
  ASSUME StateInv, FateInv, ReadEvent
  PROVE  /\ StateInv' /\ FateInv'
         /\ Head(ring) \in Kills /\ fate[Head(ring)] = "buffered"
<1> DEFINE h == Head(ring)
<1>1. /\ ring # <<>> /\ ring' = Tail(ring) /\ fate' = [fate EXCEPT ![h] = "read"]
      /\ detectedAt' = [detectedAt EXCEPT ![h] = now]
      /\ held' = h /\ reader = "read" /\ reader' = "allow" /\ worker' = worker /\ now' = now
  BY DEF ReadEvent, workVars
<1>2. /\ Len(ring) \in Nat /\ Len(ring) >= 1 /\ h = ring[1] /\ h \in Kills
      /\ ring' \in Seq(Kills) /\ Len(ring') = Len(ring) - 1
      /\ \A i \in 1..Len(ring') : i + 1 \in 1..Len(ring) /\ ring'[i] = ring[i + 1]
  BY <1>1 DEF StateInv
<1>3. \A i \in 1..Len(ring) : ring[i] \in Kills /\ fate[ring[i]] = "buffered"
  BY DEF StateInv, FateInv, RingInv
<1>4. fate[h] = "buffered"
  BY <1>2, <1>3
<1> HIDE DEF h
<1>5. /\ fate' \in [Kills -> Fates] /\ fate'[h] = "read"
      /\ \A k \in Kills \ {h} : fate'[k] = fate[k]
  BY <1>1, <1>2, OneFate, Zenon DEF Fates
<1>6. \A i \in 2..Len(ring) : ring[i] # h /\ (ring[i][1] = h[1] => Before(h, ring[i]))
  <2> SUFFICES ASSUME NEW i \in 2..Len(ring)
               PROVE  ring[i] # h /\ (ring[i][1] = h[1] => Before(h, ring[i]))
    OBVIOUS
  <2>1. 1 \in 1..Len(ring) /\ i \in 1..Len(ring) /\ 1 < i
    BY <1>2
  <2>2. ring[i][1] = h[1] => Before(h, ring[i])
    BY <1>2, <2>1 DEF FateInv, RingInv
  <2>3. QED
    BY <1>2, <2>2, KillOrder
<1>7. RingInv'
  <2>1. \A i \in 1..Len(ring') : i + 1 \in 2..Len(ring)
    BY <1>2
  <2>2. \A i \in 1..Len(ring') : fate'[ring'[i]] = "buffered"
    BY <1>2, <1>3, <1>5, <1>6, <2>1
  <2>3. ASSUME NEW i \in 1..Len(ring'), NEW j \in 1..Len(ring'), i < j,
               ring'[i][1] = ring'[j][1]
        PROVE  Before(ring'[i], ring'[j])
    <3>1. /\ i + 1 \in 1..Len(ring) /\ j + 1 \in 1..Len(ring) /\ i + 1 < j + 1
          /\ ring'[i] = ring[i + 1] /\ ring'[j] = ring[j + 1]
      BY <1>2, <2>3
    <3>2. QED
      BY <2>3, <3>1 DEF FateInv, RingInv
  <2>4. ASSUME NEW k \in Kills, fate'[k] = "buffered"
        PROVE  \E i \in 1..Len(ring') : ring'[i] = k
    <3>1. k # h /\ fate[k] = "buffered"
      BY <1>2, <1>5, <2>4
    <3>2. PICK i \in 1..Len(ring) : ring[i] = k
      BY <3>1 DEF FateInv, RingInv
    <3>3. i # 1
      BY <1>2, <3>1, <3>2
    <3>4. i - 1 \in 1..Len(ring') /\ (i - 1) + 1 = i
      BY <1>2, <3>3
    <3>5. ring'[i - 1] = ring[(i - 1) + 1]
      BY <1>2, <3>4
    <3>6. QED
      BY <3>2, <3>4, <3>5
  <2>5. QED
    BY <2>2, <2>3, <2>4 DEF RingInv
<1>8. \A j \in Kills : Before(j, h) => fate[j] \notin {"pending", "buffered", "read"}
  <2> SUFFICES ASSUME NEW j \in Kills, Before(j, h)
               PROVE  fate[j] \notin {"pending", "buffered", "read"}
    OBVIOUS
  <2>1. fate[j] # "pending"
    BY <1>2, <1>4 DEF FateInv, OrderInv
  <2>2. fate[j] # "read"
    BY <1>1 DEF FateInv, HeldInv, KillInv
  <2>3. ASSUME fate[j] = "buffered" PROVE FALSE
    <3>1. PICK i \in 1..Len(ring) : ring[i] = j
      BY <2>3 DEF FateInv, RingInv
    <3>2. j # h /\ j[1] = h[1]
      BY <1>2, KillOrder DEF Before
    <3>3. i \in 2..Len(ring)
      BY <1>2, <3>1, <3>2
    <3>4. QED
      BY <1>2, <1>6, <3>1, <3>2, <3>3, KillOrder
  <2>4. QED
    BY <2>1, <2>2, <2>3
<1>9. \A k \in Kills : Before(h, k) => fate[k] \notin Past
  BY <1>2, <1>4 DEF FateInv, OrderInv
<1>10. OrderInv'
  <2> SUFFICES ASSUME NEW j \in Kills, NEW k \in Kills, Before(j, k)
               PROVE  /\ fate'[k] # "pending" => fate'[j] # "pending"
                      /\ fate'[k] \in Past => fate'[j] \notin {"pending", "buffered", "read"}
    BY DEF OrderInv
  <2>1. j # k
    BY KillOrder
  <2>2. CASE k = h
    BY <1>5, <1>8, <2>1, <2>2
  <2>3. CASE j = h
    BY <1>5, <1>9, <2>1, <2>3
  <2>4. CASE j # h /\ k # h
    BY <1>5, <2>4 DEF FateInv, OrderInv
  <2>5. QED
    BY <2>2, <2>3, <2>4
<1>11. HeldInv'
  <2>1. fate[h] # "accepted" /\ worker[h] = "none"
    BY <1>2, <1>4, Zenon DEF FateInv, HeldInv, KillInv, StateInv, Working
  <2>2. \A k \in Kills : KillInv(k)'
    BY <1>1, <1>2, <1>5, <2>1 DEF FateInv, HeldInv, KillInv
  <2>3. QED
    BY <1>1, <1>2, <2>2 DEF HeldInv
<1>12. StateInv'
  <2>1. detectedAt' \in [Kills -> Nat]
    BY <1>1, Zenon DEF StateInv
  <2>2. QED
    BY <1>1, <1>2, <1>5, <2>1 DEF StateInv
<1>13. QED
  BY <1>2, <1>4, <1>7, <1>10, <1>11, <1>12 DEF FateInv, h

\* The reader decides on the kill it holds, or hands it to a worker.
LEMMA ReaderFates ==
  ASSUME StateInv, FateInv, Suppress \/ Allow \/ TakeSlot \/ Abandon \/ Spawn
  PROVE  StateInv' /\ FateInv'
<1>1. /\ ring' = ring /\ now' = now /\ detectedAt' = detectedAt
      /\ held \in Kills
  BY DEF Suppress, Allow, TakeSlot, Abandon, Spawn, kernelVars, FateInv, HeldInv
<1>2. KillInv(held) /\ \A k \in Kills : KillInv(k)
  BY <1>1 DEF FateInv, HeldInv
<1>3. worker[held] \in {"none", "done", "handle", "release", "finish"}
  BY <1>1 DEF StateInv, Working
<1>4. ASSUME Suppress \/ Allow \/ Abandon
      PROVE  /\ RingInv' /\ OrderInv' /\ fate' \in [Kills -> Fates] /\ worker' = worker
             /\ \A k \in Kills \ {held} : fate'[k] = fate[k]
             /\ Suppress => fate'[held] = "suppressed" /\ reader' = "read" /\ reader = "allow"
             /\ Allow => fate'[held] = "accepted" /\ reader' = "slot" /\ held' = held /\ reader = "allow"
             /\ Abandon => fate'[held] = "abandoned" /\ reader' = "done" /\ reader = "slot"
  <2>1. fate[held] \in Past
    BY <1>1, <1>2, <1>4, SMTT(90) DEF KillInv, Past, Suppress, Allow, Abandon
  <2>2. PICK f \in {"suppressed", "accepted", "abandoned"} :
          /\ fate' = [fate EXCEPT ![held] = f]
          /\ Suppress => f = "suppressed"
          /\ Allow => f = "accepted"
          /\ Abandon => f = "abandoned"
    BY <1>4 DEF Suppress, Allow, Abandon
  <2>3. f \in Past \ {"read"} /\ f \in Fates
    BY DEF Past, Fates
  <2>4. RingInv' /\ OrderInv'
    BY <1>1, <2>1, <2>2, <2>3, Settles, Zenon DEF FateInv
  <2>5. /\ fate' \in [Kills -> Fates] /\ fate'[held] = f
        /\ \A k \in Kills \ {held} : fate'[k] = fate[k]
    BY <1>1, <2>2, <2>3, OneFate, ZenonT(30)
  <2>6. QED
    BY <1>4, <2>2, <2>4, <2>5, SMTT(30) DEF Suppress, Allow, Abandon, workVars
<1>5. CASE Suppress
  <2>1. \A k \in Kills : KillInv(k)'
    BY <1>1, <1>2, <1>3, <1>4, <1>5, SMTT(30) DEF KillInv
  <2>2. QED
    BY <1>1, <1>4, <1>5, <2>1, SMTT(90) DEF FateInv, HeldInv, StateInv
<1>6. CASE Allow
  <2>1. worker[held] = "none"
    BY <1>2, <1>3, <1>4, <1>6 DEF KillInv
  <2>2. \A k \in Kills : KillInv(k)'
    BY <1>1, <1>2, <1>4, <1>6, <2>1 DEF KillInv
  <2>3. QED
    BY <1>1, <1>4, <1>6, <2>2 DEF FateInv, HeldInv, StateInv
<1>7. CASE Abandon
  <2>1. \A k \in Kills : KillInv(k)'
    BY <1>1, <1>2, <1>3, <1>4, <1>7 DEF KillInv
  <2>2. QED
    BY <1>1, <1>4, <1>7, <2>1 DEF FateInv, HeldInv, StateInv
<1>8. CASE TakeSlot
  <2>1. /\ fate' = fate /\ worker' = worker /\ held' = held
        /\ reader = "slot" /\ reader' = "add"
    BY <1>8 DEF TakeSlot
  <2>2. \A k \in Kills : KillInv(k)'
    BY <1>2, <2>1 DEF KillInv
  <2>3. QED
    BY <1>1, <2>1, <2>2, SameFates DEF FateInv, HeldInv, StateInv
<1>9. CASE Spawn
  <2>1. /\ fate' = fate /\ reader = "add" /\ reader' = "read"
        /\ worker' \in [Kills -> {"none", "done"} \cup Working]
        /\ worker'[held] = "handle" /\ \A k \in Kills \ {held} : worker'[k] = worker[k]
    BY <1>1, <1>9 DEF Spawn, StateInv, Working
  <2>2. \A k \in Kills : KillInv(k)'
    BY <1>1, <1>2, <2>1 DEF KillInv
  <2>3. QED
    BY <1>1, <2>1, <2>2, SameFates DEF FateInv, HeldInv, StateInv
<1>10. QED
  BY <1>5, <1>6, <1>7, <1>8, <1>9
\* A worker's steps.
LEMMA WorkerFates ==
  ASSUME StateInv, FateInv, NEW k \in Kills, Worker(k)
  PROVE  StateInv' /\ FateInv'
<1>1. /\ ring' = ring /\ now' = now /\ detectedAt' = detectedAt
      /\ reader' = reader /\ held' = held
  BY DEF Worker, handleCrashEvent, ReleaseSlot, WorkerDone, kernelVars, readerVars
<1>2. \A j \in Kills : KillInv(j)
  BY DEF FateInv, HeldInv
<1>3. PICK w \in {"release", "finish", "done"} :
        /\ worker' = [worker EXCEPT ![k] = w]
        /\ worker[k] \in {"handle", "release", "finish"}
        /\ w # "release" => fate' = fate /\ worker[k] # "handle"
        /\ w = "release" => handleCrashEvent(k)
  BY DEF Worker, handleCrashEvent, ReleaseSlot, WorkerDone
<1>4. /\ worker' \in [Kills -> {"none", "done"} \cup Working]
      /\ worker'[k] = w /\ \A j \in Kills \ {k} : worker'[j] = worker[j]
  BY <1>3 DEF StateInv, Working
<1>5. CASE w = "release"
  <2>1. PICK f \in {"reported", "failed"} : fate' = [fate EXCEPT ![k] = f]
    BY <1>3, <1>5 DEF handleCrashEvent
  <2>2. f \in Past \ {"read"} /\ f \in Fates /\ fate[k] = "accepted" /\ fate[k] \in Past
    BY <1>2, <1>3, <1>5 DEF Past, Fates, handleCrashEvent, KillInv
  <2>3. /\ fate' \in [Kills -> Fates] /\ fate'[k] = f
        /\ \A j \in Kills \ {k} : fate'[j] = fate[j]
    BY <2>1, <2>2, OneFate, Zenon
  <2>4. RingInv' /\ OrderInv'
    BY <1>1, <2>1, <2>2, Settles, Zenon DEF FateInv
  <2>5. \A j \in Kills : KillInv(j)'
    BY <1>1, <1>2, <1>3, <1>4, <1>5, <2>2, <2>3 DEF KillInv
  <2>6. QED
    BY <1>1, <1>4, <2>3, <2>4, <2>5 DEF FateInv, HeldInv, StateInv
<1>6. CASE w # "release"
  <2>1. fate' = fate /\ fate[k] \in {"reported", "failed"}
    BY <1>2, <1>3, <1>6 DEF KillInv
  <2>2. \A j \in Kills : KillInv(j)'
    BY <1>1, <1>2, <1>3, <1>4, <1>6, <2>1 DEF KillInv
  <2>3. QED
    BY <1>1, <1>4, <2>1, <2>2, SameFates DEF FateInv, HeldInv, StateInv
<1>7. QED
  BY <1>5, <1>6

\* What no other step of the agent touches.
fateVars == <<ring, fate, detectedAt, worker, held, last, slots, wg>>

\* The reader stops, or starts, with nothing in hand.
Rests == /\ UNCHANGED <<fateVars, now, waiter, drainExpired>>
         /\ reader \in {"off", "read"} /\ reader' \in {"read", "done"}

Quiet == UNCHANGED <<fateVars, reader>> /\ now' \in {now, now + 1}

\* A step that moves no kill keeps what is known of where each is.
LEMMA RestFates ==
  ASSUME StateInv, FateInv, Rests \/ Quiet
  PROVE  StateInv' /\ FateInv'
<1>1. /\ ring' = ring /\ fate' = fate /\ detectedAt' = detectedAt /\ worker' = worker
      /\ held' = held
  BY DEF Rests, Quiet, fateVars
<1>2. now' \in Nat
  BY DEF Rests, Quiet, StateInv
<1>3. RingInv' /\ OrderInv'
  BY <1>1, SameFates DEF FateInv
<1>4. CASE Quiet
  BY <1>1, <1>2, <1>3, <1>4 DEF Quiet, StateInv, FateInv, HeldInv, KillInv
<1>5. CASE Rests
  <2>1. \A k \in Kills : KillInv(k)'
    BY <1>1, <1>5 DEF Rests, FateInv, HeldInv, KillInv
  <2>2. QED
    BY <1>1, <1>2, <1>3, <1>5, <2>1 DEF Rests, StateInv, FateInv, HeldInv
<1>6. QED
  BY <1>4, <1>5

-----------------------------------------------------------------------------
\* The cooldown.

CooldownInv == CoolInv /\ CooldownEvicts /\ CooldownSpacing /\ SuppressedIsRepeat

\* Kill k comes less than a window after an admitted one of its container.
Shadowed(k) ==
  \E j \in Kills : /\ Before(j, k) /\ Admitted(j)
                   /\ detectedAt[k] < detectedAt[j] + ReportCooldown

\* The times the cooldown compares are numbers, and the kill it decides about was read.
LEMMA CooldownTypes ==
  ASSUME StateInv, FateInv, CoolInv
  PROVE  /\ now \in Nat /\ DecisionTime \in Nat
         /\ \A k \in Kills : detectedAt[k] \in Nat
         /\ \A c \in DOMAIN last : last[c] \in Nat
         /\ reader = "allow" => /\ held \in Kills /\ fate[held] = "read"
                                /\ DecisionTime = detectedAt[held] /\ DecisionTime <= now
<1>1. now \in Nat /\ \A k \in Kills : detectedAt[k] \in Nat
  BY DEF StateInv
<1>2. \A c \in DOMAIN last : last[c] \in Nat
  BY <1>1 DEF CoolInv
<1>3. ASSUME reader = "allow"
      PROVE  /\ held \in Kills /\ fate[held] = "read"
             /\ DecisionTime = detectedAt[held] /\ DecisionTime <= now
  <2>1. held \in Kills
    BY <1>3 DEF FateInv, HeldInv
  <2>2. fate[held] = "read" /\ "read" \in Past
    BY <1>3, <2>1 DEF FateInv, HeldInv, KillInv, Past
  <2>3. QED
    BY <1>3, <2>1, <2>2 DEF CoolInv, DecisionTime
<1>4. DecisionTime \in Nat
  BY <1>1, <1>3 DEF DecisionTime
<1>5. QED
  BY <1>1, <1>2, <1>3, <1>4

\* Adding up under a bound.
LEMMA AtMost == \A a, b, c, d \in Nat : a + b <= c /\ c <= d => a + b <= d
OBVIOUS

\* Steps that admit nothing keep the cooldown's books in order.
LEMMA CoolFrame ==
  ASSUME StateInv, StateInv', CooldownInv, FateInv, last' = last,
         DecisionTime' \in Nat, DecisionTime <= DecisionTime',
         \A k \in Kills :
           /\ Admitted(k)' <=> Admitted(k)
           /\ Admitted(k) \/ fate'[k] = "suppressed" => detectedAt'[k] = detectedAt[k]
           /\ fate'[k] \in Past => detectedAt'[k] <= now'
           /\ fate'[k] = "suppressed" => fate[k] = "suppressed" \/ Shadowed(k)
  PROVE  CooldownInv'
<1>1. /\ DecisionTime \in Nat
      /\ \A k \in Kills : detectedAt[k] \in Nat /\ detectedAt'[k] \in Nat
      /\ \A c \in DOMAIN last : last[c] \in Nat
  BY CooldownTypes DEF CooldownInv, StateInv
<1>2. ASSUME NEW c \in DOMAIN last' PROVE last'[c] <= DecisionTime'
  <2>1. c \in DOMAIN last /\ last'[c] = last[c] /\ last[c] <= DecisionTime
    BY DEF CooldownInv, CoolInv
  <2>2. last[c] + 0 <= DecisionTime'
    BY <1>1, <2>1, AtMost
  <2>3. QED
    BY <1>1, <2>1, <2>2
<1>3. ASSUME NEW c \in DOMAIN last'
      PROVE  \E k \in Kills : k[1] = c /\ Admitted(k)' /\ detectedAt'[k] = last'[c]
  <2>1. PICK k \in Kills : k[1] = c /\ Admitted(k) /\ detectedAt[k] = last[c]
    BY DEF CooldownInv, CoolInv
  <2>2. QED
    BY <2>1
<1>4. ASSUME NEW k \in Kills, Admitted(k)'
      PROVE  \/ k[1] \in DOMAIN last' /\ detectedAt'[k] <= last'[k[1]]
             \/ detectedAt'[k] + ReportCooldown <= DecisionTime'
  <2>1. Admitted(k) /\ detectedAt'[k] = detectedAt[k]
    BY <1>4
  <2>2. CASE k[1] \in DOMAIN last /\ detectedAt[k] <= last[k[1]]
    BY <2>1, <2>2
  <2>3. CASE detectedAt[k] + ReportCooldown <= DecisionTime
    <3>1. detectedAt[k] + ReportCooldown <= DecisionTime'
      BY <1>1, <2>3, AtMost, PipelineAssumption
    <3>2. QED
      BY <2>1, <3>1
  <2>4. QED
    BY <2>1, <2>2, <2>3 DEF CooldownInv, CoolInv
<1>5. CoolInv'
  BY <1>2, <1>3, <1>4, Zenon DEF CooldownInv, CoolInv
<1>6. CooldownEvicts'
  BY DEF CooldownInv, CooldownEvicts
<1>7. \A c \in Containers : \A n \in 1..KillsEach : <<c, n>> \in Kills
  BY DEF Kills
<1>8. CooldownSpacing'
  BY <1>7 DEF CooldownInv, CooldownSpacing
<1>9. SuppressedIsRepeat'
  <2> SUFFICES ASSUME NEW c \in Containers, NEW n \in 1..KillsEach,
                      fate'[<<c, n>>] = "suppressed"
               PROVE  \E m \in 1..(n - 1) :
                        /\ Admitted(<<c, m>>)'
                        /\ detectedAt'[<<c, n>>] < detectedAt'[<<c, m>>] + ReportCooldown
    BY Zenon DEF SuppressedIsRepeat
  <2>1. <<c, n>> \in Kills /\ detectedAt'[<<c, n>>] = detectedAt[<<c, n>>]
    BY <1>7
  <2>2. PICK m \in 1..(n - 1) :
          /\ Admitted(<<c, m>>)
          /\ detectedAt[<<c, n>>] < detectedAt[<<c, m>>] + ReportCooldown
    <3>1. CASE fate[<<c, n>>] = "suppressed"
      BY <3>1 DEF CooldownInv, SuppressedIsRepeat
    <3>2. CASE Shadowed(<<c, n>>)
      <4>1. PICK j \in Kills : /\ Before(j, <<c, n>>) /\ Admitted(j)
                               /\ detectedAt[<<c, n>>] < detectedAt[j] + ReportCooldown
        BY <3>2 DEF Shadowed
      <4>2. j[1] = c /\ j[2] < n
        BY <4>1 DEF Before
      <4>3. j[2] \in 1..KillsEach /\ j = <<j[1], j[2]>>
        BY KillFacts
      <4>4. j[2] \in 1..(n - 1) /\ j = <<c, j[2]>>
        BY <4>2, <4>3, PipelineAssumption
      <4>5. QED
        BY <4>1, <4>4
    <3>3. QED
      BY <2>1, <3>1, <3>2
  <2>3. m \in 1..KillsEach
    BY PipelineAssumption
  <2>4. Admitted(<<c, m>>)' /\ detectedAt'[<<c, m>>] = detectedAt[<<c, m>>]
    BY <1>7, <2>2, <2>3
  <2>5. QED
    BY <2>1, <2>2, <2>4, Zenon
<1>10. QED
  BY <1>5, <1>6, <1>8, <1>9 DEF CooldownInv

\* reportCooldown.allow lets a kill through: the earlier admitted kills of its container
\* are a window old, those it remembers by the comparison and the others because it has
\* forgotten them.
LEMMA CoolAllow ==
  ASSUME StateInv, FateInv, CooldownInv, Allow PROVE CooldownInv'
<1>0. PICK h \in Kills : h = held
  BY CooldownTypes, Zenon DEF CooldownInv, Allow
<1> DEFINE c == h[1]
           t == detectedAt[h]
<1>1. /\ now \in Nat /\ \A k \in Kills : detectedAt[k] \in Nat
      /\ \A d \in DOMAIN last : last[d] \in Nat
      /\ fate[h] = "read" /\ DecisionTime = t /\ t <= now
  BY <1>0, CooldownTypes DEF CooldownInv, Allow
<1>2. /\ reader' = "slot" /\ now' = now /\ detectedAt' = detectedAt
      /\ ReportCooldown > 0 /\ c \in DOMAIN last => t >= last[c] + ReportCooldown
      /\ last' = IF ReportCooldown = 0 THEN last
                 ELSE [d \in Remembers(t) \cup {c} |-> IF d = c THEN t ELSE last[d]]
      /\ fate' = [fate EXCEPT ![h] = "accepted"]
  BY <1>0 DEF Allow
<1>3. fate'[h] = "accepted" /\ \A k \in Kills \ {h} : fate'[k] = fate[k]
  BY <1>1, <1>2 DEF StateInv
<1>4. /\ Admitted(h)' /\ ~Admitted(h)
      /\ \A k \in Kills \ {h} : Admitted(k)' <=> Admitted(k)
  BY <1>1, <1>3 DEF Admitted
<1>5. DecisionTime' = now
  BY <1>2 DEF DecisionTime
<1>6. t \in Nat /\ ReportCooldown \in Nat
  BY <1>1, PipelineAssumption
<1>7. \A d \in DOMAIN last : last[d] <= t
  BY <1>1 DEF CooldownInv, CoolInv
<1> HIDE DEF c, t
<1>8. \A d \in Remembers(t) : d \in DOMAIN last /\ t < last[d] + ReportCooldown
  BY DEF Remembers
<1>9. ASSUME NEW d \in DOMAIN last'
      PROVE  /\ ReportCooldown # 0
             /\ \/ d = c /\ last'[d] = t
                \/ /\ d # c /\ d \in DOMAIN last /\ last'[d] = last[d]
                   /\ t < last[d] + ReportCooldown
  <2>1. ReportCooldown # 0
    BY <1>2, <1>9 DEF CooldownInv, CoolInv
  <2>2. /\ d \in Remembers(t) \cup {c}
        /\ last'[d] = IF d = c THEN t ELSE last[d]
    BY <1>2, <1>9, <2>1
  <2>3. QED
    BY <1>8, <2>1, <2>2
<1>10. ASSUME NEW k \in Kills, Admitted(k), k[1] = c
       PROVE  detectedAt[k] + ReportCooldown <= t
  <2>1. CASE k[1] \in DOMAIN last /\ detectedAt[k] <= last[k[1]]
    <3>1. ReportCooldown > 0
      BY <1>6, <2>1 DEF CooldownInv, CoolInv
    <3>2. t >= last[c] + ReportCooldown /\ last[c] \in Nat
      BY <1>1, <1>2, <1>10, <2>1, <3>1
    <3>3. QED
      BY <1>1, <1>6, <1>10, <2>1, <3>2
  <2>2. CASE detectedAt[k] + ReportCooldown <= DecisionTime
    BY <1>1, <2>2
  <2>3. QED
    BY <1>10, <2>1, <2>2 DEF CooldownInv, CoolInv
<1>11. c = h[1] /\ t = detectedAt[h]
  BY DEF c, t
<1>12. CoolInv'
  <2>1. \A k \in Kills : fate'[k] \in Past => detectedAt'[k] <= now'
    BY <1>1, <1>2, <1>3, <1>11 DEF CooldownInv, CoolInv
  <2>2. ReportCooldown = 0 => DOMAIN last' = {}
    BY <1>2 DEF CooldownInv, CoolInv
  <2>3. ASSUME NEW d \in DOMAIN last'
        PROVE  /\ last'[d] <= DecisionTime'
               /\ \E k \in Kills : k[1] = d /\ Admitted(k)' /\ detectedAt'[k] = last'[d]
    <3>1. CASE d = c /\ last'[d] = t
      BY <1>1, <1>2, <1>4, <1>5, <1>11, <3>1
    <3>2. CASE d # c /\ d \in DOMAIN last /\ last'[d] = last[d]
      <4>1. PICK k \in Kills : k[1] = d /\ Admitted(k) /\ detectedAt[k] = last[d]
        BY <3>2 DEF CooldownInv, CoolInv
      <4>2. last[d] <= now
        BY <1>1, <1>6, <1>7, <3>2
      <4>3. last'[d] <= DecisionTime'
        BY <1>2, <1>5, <3>2, <4>2
      <4>4. QED
        BY <1>2, <1>4, <1>5, <3>2, <4>1, <4>3
    <3>3. QED
      BY <1>9, <3>1, <3>2
  <2>4. ASSUME NEW k \in Kills, Admitted(k)'
        PROVE  \/ k[1] \in DOMAIN last' /\ detectedAt'[k] <= last'[k[1]]
               \/ detectedAt'[k] + ReportCooldown <= DecisionTime'
    <3>1. CASE ReportCooldown = 0
      <4>1. detectedAt'[k] <= now'
        BY <2>1, <2>4 DEF Admitted, Past
      <4>2. QED
        BY <1>1, <1>2, <1>5, <3>1, <4>1
    <3>2. CASE ReportCooldown # 0
      <4>0. /\ DOMAIN last' = Remembers(t) \cup {c} /\ last'[c] = t
            /\ \A d \in Remembers(t) \ {c} : last'[d] = last[d]
        BY <1>2, <3>2
      <4>1. CASE k = h
        BY <1>2, <1>6, <1>11, <4>0, <4>1
      <4>2. CASE k # h /\ k[1] = c
        <5>1. detectedAt[k] + ReportCooldown <= t
          BY <1>4, <1>10, <2>4, <4>2
        <5>2. detectedAt[k] <= t
          BY <1>1, <1>6, <5>1
        <5>3. QED
          BY <1>2, <4>0, <4>2, <5>2
      <4>3. CASE k # h /\ k[1] # c
        <5>1. Admitted(k)
          BY <1>4, <2>4, <4>3
        <5>2. CASE k[1] \in DOMAIN last /\ detectedAt[k] <= last[k[1]]
          <6>1. CASE k[1] \in Remembers(t)
            BY <1>2, <4>0, <4>3, <5>2, <6>1
          <6>2. CASE k[1] \notin Remembers(t)
            <7>1. ~(t < last[k[1]] + ReportCooldown) /\ last[k[1]] \in Nat
              BY <1>1, <5>2, <6>2 DEF Remembers
            <7>2. detectedAt[k] + ReportCooldown <= now
              BY <1>1, <1>6, <5>2, <7>1
            <7>3. QED
              BY <1>2, <1>5, <7>2
          <6>3. QED
            BY <6>1, <6>2
        <5>3. CASE detectedAt[k] + ReportCooldown <= DecisionTime
          BY <1>1, <1>2, <1>5, <1>6, <5>3
        <5>4. QED
          BY <5>1, <5>2, <5>3 DEF CooldownInv, CoolInv
      <4>4. QED
        BY <4>1, <4>2, <4>3
    <3>3. QED
      BY <3>1, <3>2
  <2>5. QED
    BY <2>1, <2>2, <2>3, <2>4 DEF CoolInv
<1>13. CooldownEvicts'
  <2> SUFFICES ASSUME NEW d \in DOMAIN last', NEW e \in DOMAIN last'
               PROVE  last'[d] < last'[e] + ReportCooldown
    BY DEF CooldownEvicts
  <2>1. ReportCooldown > 0 /\ (d # c => last[d] \in Nat) /\ (e # c => last[e] \in Nat)
    BY <1>1, <1>6, <1>9
  <2>2. CASE d = c
    BY <1>6, <1>9, <2>1, <2>2
  <2>3. CASE d # c /\ e = c
    <3>1. last'[d] = last[d] /\ last[d] <= t /\ last'[e] = t
      BY <1>7, <1>9, <2>3
    <3>2. QED
      BY <1>6, <2>1, <2>3, <3>1
  <2>4. CASE d # c /\ e # c
    BY <1>9, <2>4 DEF CooldownInv, CooldownEvicts
  <2>5. QED
    BY <2>2, <2>3, <2>4
<1>14. \A b \in Containers : \A n \in 1..KillsEach : <<b, n>> \in Kills
  BY DEF Kills
<1>15. CooldownSpacing'
  <2> SUFFICES ASSUME NEW b \in Containers, NEW m \in 1..KillsEach, NEW n \in 1..KillsEach,
                      m < n, Admitted(<<b, m>>)', Admitted(<<b, n>>)'
               PROVE  detectedAt[<<b, n>>] >= detectedAt[<<b, m>>] + ReportCooldown
    BY <1>2 DEF CooldownSpacing
  <2>1. Before(<<b, m>>, <<b, n>>) /\ <<b, m>> \in Kills /\ <<b, n>> \in Kills
    BY <1>14 DEF Before
  <2>2. <<b, m>> # <<b, n>>
    BY <2>1, KillOrder
  <2>3. CASE <<b, n>> = h
    <3>1. Admitted(<<b, m>>) /\ <<b, m>>[1] = c
      BY <1>4, <1>11, <2>1, <2>2, <2>3
    <3>2. QED
      BY <1>1, <1>6, <1>10, <1>11, <2>1, <2>3, <3>1
  <2>4. CASE <<b, m>> = h
    <3>1. Admitted(<<b, n>>)
      BY <1>4, <2>1, <2>2, <2>4
    <3>2. fate[<<b, n>>] \in Past
      BY <3>1 DEF Admitted, Past
    <3>3. QED
      BY <1>1, <2>1, <2>4, <3>2 DEF FateInv, OrderInv
  <2>5. CASE <<b, m>> # h /\ <<b, n>> # h
    BY <1>4, <2>1, <2>5 DEF CooldownInv, CooldownSpacing
  <2>6. QED
    BY <2>3, <2>4, <2>5
<1>16. SuppressedIsRepeat'
  <2> SUFFICES ASSUME NEW b \in Containers, NEW n \in 1..KillsEach,
                      fate'[<<b, n>>] = "suppressed"
               PROVE  \E m \in 1..(n - 1) :
                        /\ Admitted(<<b, m>>)'
                        /\ detectedAt[<<b, n>>] < detectedAt[<<b, m>>] + ReportCooldown
    BY <1>2, Zenon DEF SuppressedIsRepeat
  <2>1. fate[<<b, n>>] = "suppressed"
    BY <1>3, <1>14
  <2>2. PICK m \in 1..(n - 1) :
          /\ Admitted(<<b, m>>)
          /\ detectedAt[<<b, n>>] < detectedAt[<<b, m>>] + ReportCooldown
    BY <2>1 DEF CooldownInv, SuppressedIsRepeat
  <2>3. <<b, m>> \in Kills
    BY <1>14, PipelineAssumption
  <2>4. Admitted(<<b, m>>)'
    BY <1>4, <2>2, <2>3
  <2>5. QED
    BY <2>2, <2>4
<1>17. QED
  BY <1>12, <1>13, <1>15, <1>16 DEF CooldownInv
\* A kill that is read is given the present time, which no decision has passed.
LEMMA CoolRead ==
  ASSUME StateInv, FateInv, StateInv', FateInv', CooldownInv, ReadEvent PROVE CooldownInv'
<1>1. PICK h \in Kills : h = Head(ring) /\ fate[h] = "buffered"
  BY ReadFates
<1>2. /\ fate' = [fate EXCEPT ![h] = "read"] /\ detectedAt' = [detectedAt EXCEPT ![h] = now]
      /\ held' = h /\ reader = "read" /\ reader' = "allow" /\ last' = last /\ now' = now
  BY <1>1 DEF ReadEvent
<1>3. /\ fate'[h] = "read" /\ detectedAt'[h] = now
      /\ \A k \in Kills \ {h} : fate'[k] = fate[k] /\ detectedAt'[k] = detectedAt[k]
  BY <1>2 DEF StateInv
<1>4. now \in Nat /\ DecisionTime = now /\ DecisionTime' = now
  BY <1>2, <1>3 DEF DecisionTime, StateInv
<1>5. DecisionTime' \in Nat /\ DecisionTime <= DecisionTime'
  BY <1>4
<1>6. ~Admitted(h) /\ ~Admitted(h)'
  BY <1>1, <1>3 DEF Admitted
<1>7. ASSUME NEW k \in Kills
      PROVE  /\ Admitted(k)' <=> Admitted(k)
             /\ Admitted(k) \/ fate'[k] = "suppressed" => detectedAt'[k] = detectedAt[k]
             /\ fate'[k] \in Past => detectedAt'[k] <= now'
             /\ fate'[k] = "suppressed" => fate[k] = "suppressed"
  <2>1. CASE k = h
    BY <1>2, <1>3, <1>4, <1>6, <2>1
  <2>2. CASE k # h
    <3>1. fate'[k] = fate[k] /\ detectedAt'[k] = detectedAt[k] /\ now' = now
      BY <1>2, <1>3, <2>2
    <3>2. Admitted(k)' <=> Admitted(k)
      BY <3>1 DEF Admitted
    <3>3. fate[k] \in Past => detectedAt[k] <= now
      BY DEF CooldownInv, CoolInv
    <3>4. QED
      BY <3>1, <3>2, <3>3
  <2>3. QED
    BY <2>1, <2>2
<1>8. QED
  BY <1>2, <1>5, <1>7, CoolFrame

\* A kill is suppressed in the shadow of the admission its container is remembered for.
LEMMA CoolSuppress ==
  ASSUME StateInv, FateInv, StateInv', CooldownInv, Suppress PROVE CooldownInv'
<1>1. PICK h \in Kills : h = held
  BY CooldownTypes DEF CooldownInv, Suppress
<1>2. /\ fate[h] = "read" /\ DecisionTime = detectedAt[h] /\ DecisionTime <= now
      /\ DecisionTime \in Nat /\ now \in Nat
  BY <1>1, CooldownTypes DEF CooldownInv, Suppress
<1>3. /\ h[1] \in DOMAIN last /\ detectedAt[h] < last[h[1]] + ReportCooldown
      /\ fate' = [fate EXCEPT ![h] = "suppressed"] /\ reader' = "read"
      /\ last' = last /\ detectedAt' = detectedAt /\ now' = now
  BY <1>1 DEF Suppress
<1>4. fate'[h] = "suppressed" /\ \A k \in Kills \ {h} : fate'[k] = fate[k]
  BY <1>3 DEF StateInv
<1>5. Shadowed(h)
  <2>1. PICK j \in Kills : j[1] = h[1] /\ Admitted(j) /\ detectedAt[j] = last[h[1]]
    BY <1>3 DEF CooldownInv, CoolInv
  <2>2. j # h /\ fate[j] \in Past
    BY <1>2, <2>1 DEF Admitted, Past
  <2>3. ~Before(h, j)
    BY <1>2, <2>2 DEF FateInv, OrderInv
  <2>4. Before(j, h)
    BY <2>1, <2>2, <2>3, KillOrder
  <2>5. QED
    BY <1>3, <2>1, <2>4 DEF Shadowed
<1>6. DecisionTime' = now /\ DecisionTime' \in Nat /\ DecisionTime <= DecisionTime'
  BY <1>2, <1>3 DEF DecisionTime
<1>7. ~Admitted(h) /\ ~Admitted(h)' /\ fate[h] \in Past
  BY <1>2, <1>4 DEF Admitted, Past
<1>8. ASSUME NEW k \in Kills
      PROVE  /\ Admitted(k)' <=> Admitted(k)
             /\ Admitted(k) \/ fate'[k] = "suppressed" => detectedAt'[k] = detectedAt[k]
             /\ fate'[k] \in Past => detectedAt'[k] <= now'
             /\ fate'[k] = "suppressed" => fate[k] = "suppressed" \/ Shadowed(k)
  <2>1. CASE k = h
    BY <1>2, <1>3, <1>5, <1>7, <2>1
  <2>2. CASE k # h
    BY <1>3, <1>4, <2>2 DEF Admitted, CooldownInv, CoolInv
  <2>3. QED
    BY <2>1, <2>2
<1>9. QED
  BY <1>3, <1>6, <1>8, CoolFrame, Zenon

\* No other step decides anything.
LEMMA CoolOther ==
  ASSUME StateInv, FateInv, StateInv', CooldownInv, last' = last, detectedAt' = detectedAt,
         now <= now', reader' = "allow" <=> reader = "allow", reader = "allow" => held' = held,
         \A k \in Kills : /\ fate'[k] \in Past <=> fate[k] \in Past
                          /\ Admitted(k)' <=> Admitted(k)
                          /\ fate'[k] = "suppressed" => fate[k] = "suppressed"
  PROVE  CooldownInv'
<1>1. now \in Nat /\ now' \in Nat
  BY DEF StateInv
<1>2. DecisionTime \in Nat
  BY CooldownTypes DEF CooldownInv
<1>3. DecisionTime' \in Nat /\ DecisionTime <= DecisionTime'
  <2>1. CASE reader = "allow"
    <3>1. DecisionTime' = DecisionTime
      BY <2>1 DEF DecisionTime
    <3>2. QED
      BY <1>2, <3>1
  <2>2. CASE reader # "allow"
    BY <1>1, <2>2 DEF DecisionTime
  <2>3. QED
    BY <2>1, <2>2
<1>4. ASSUME NEW k \in Kills, fate'[k] \in Past PROVE detectedAt'[k] <= now'
  <2>1. detectedAt[k] <= now /\ detectedAt[k] \in Nat
    BY <1>4 DEF CooldownInv, CoolInv, StateInv
  <2>2. QED
    BY <1>1, <2>1
<1>5. QED
  BY <1>3, <1>4, CoolFrame, Zenon

-----------------------------------------------------------------------------
\* The slots and the group.

\* Counting sets of kills.
LEMMA CountKills ==
  ASSUME NEW S \in SUBSET Kills
  PROVE  /\ IsFiniteSet(S) /\ Cardinality(S) \in Nat
         /\ Cardinality(S) = 0 <=> S = {}
         /\ \A k \in Kills \ S : Cardinality(S \cup {k}) = Cardinality(S) + 1
         /\ \A k \in S : Cardinality(S \ {k}) = Cardinality(S) - 1
<1>1. IsFiniteSet(1..KillsEach)
  BY FS_Interval, PipelineAssumption
<1>2. IsFiniteSet(Kills)
  BY <1>1, FS_Product, PipelineAssumption DEF Kills
<1>3. IsFiniteSet(S)
  BY <1>2, FS_Subset
<1>4. Cardinality(S) \in Nat /\ (Cardinality(S) = 0 <=> S = {})
  BY <1>3, FS_CardinalityType, FS_EmptySet
<1>5. \A k \in Kills \ S : Cardinality(S \cup {k}) = Cardinality(S) + 1
  BY <1>3, FS_AddElement
<1>6. \A k \in S : Cardinality(S \ {k}) = Cardinality(S) - 1
  BY <1>3, FS_RemoveElement
<1>7. QED
  BY <1>3, <1>4, <1>5, <1>6

\* A step that moves no worker keeps the counts.
LEMMA SameCounts ==
  ASSUME CountsInv, worker' = worker, slots' = slots, wg' = wg,
         reader' = "add" <=> reader = "add"
  PROVE  CountsInv' /\ Grouped' = Grouped
<1>1. Handling' = Handling /\ Grouped' = Grouped
  BY DEF Handling, Grouped
<1>2. QED
  BY <1>1 DEF CountsInv

\* Taking a slot: the reader holds it until the worker does.
LEMMA SlotCounts ==
  ASSUME CountsInv, TakeSlot PROVE CountsInv' /\ Grouped' = Grouped
<1>1. /\ worker' = worker /\ wg' = wg /\ slots' = slots + 1 /\ slots < MaxConcurrentReports
      /\ reader = "slot" /\ reader' = "add"
  BY DEF TakeSlot
<1>2. Handling' = Handling /\ Grouped' = Grouped
  BY <1>1 DEF Handling, Grouped
<1>3. Cardinality(Handling) \in Nat
  BY CountKills DEF Handling
<1>4. slots = Cardinality(Handling)
  BY <1>1, <1>3 DEF CountsInv
<1>5. slots' = Cardinality(Handling') + 1 /\ slots' <= MaxConcurrentReports
  BY <1>1, <1>2, <1>3, <1>4, PipelineAssumption
<1>6. QED
  BY <1>1, <1>2, <1>5 DEF CountsInv

\* Starting a worker hands the slot to it and adds it to the group.
LEMMA SpawnCounts ==
  ASSUME StateInv, FateInv, CountsInv, Spawn PROVE CountsInv'
<1>1. PICK h \in Kills : h = held
  BY DEF Spawn, FateInv, HeldInv
<1>2. /\ worker' = [worker EXCEPT ![h] = "handle"] /\ wg' = wg + 1 /\ slots' = slots
      /\ reader = "add" /\ reader' = "read"
  BY <1>1 DEF Spawn
<1>3. worker[h] = "none"
  BY <1>1, <1>2 DEF FateInv, HeldInv, KillInv
<1>4. worker'[h] = "handle" /\ \A k \in Kills \ {h} : worker'[k] = worker[k]
  BY <1>2 DEF StateInv
<1>5. /\ Handling' = Handling \cup {h} /\ h \notin Handling /\ Handling \in SUBSET Kills
      /\ Grouped' = Grouped \cup {h} /\ h \notin Grouped /\ Grouped \in SUBSET Kills
  BY <1>3, <1>4 DEF Handling, Grouped, Working
<1>6. /\ Cardinality(Handling') = Cardinality(Handling) + 1
      /\ Cardinality(Grouped') = Cardinality(Grouped) + 1
  BY <1>5, CountKills
<1>7. Cardinality(Handling) \in Nat /\ Cardinality(Handling') \in Nat
  BY <1>5, <1>6, CountKills
<1>8. slots = Cardinality(Handling) + 1 /\ wg = Cardinality(Grouped)
  BY <1>2 DEF CountsInv
<1>9. slots' = Cardinality(Handling') + 0 /\ wg' = Cardinality(Grouped')
  BY <1>2, <1>6, <1>7, <1>8
<1>10. QED
  BY <1>2, <1>9 DEF CountsInv

\* One worker less and one slot less is the same balance.
LEMMA SlotFreed ==
  ASSUME NEW c \in Nat, NEW m \in Nat, NEW x \in {0, 1}, NEW s, NEW d,
         s = c + x, s <= m, d = c - 1
  PROVE  s - 1 = d + x /\ s - 1 <= m
OBVIOUS

\* A worker's steps give back what it took, and add nobody to the group.
LEMMA WorkerCounts ==
  ASSUME StateInv, CountsInv, NEW k \in Kills, Worker(k)
  PROVE  CountsInv' /\ Grouped' \subseteq Grouped
<1>1. reader' = reader
  BY DEF Worker, handleCrashEvent, ReleaseSlot, WorkerDone, readerVars
<1>2. ASSUME NEW w, worker' = [worker EXCEPT ![k] = w]
      PROVE  worker'[k] = w /\ \A j \in Kills \ {k} : worker'[j] = worker[j]
  BY <1>2 DEF StateInv
<1>3. CASE handleCrashEvent(k)
  <2>1. /\ worker[k] = "handle" /\ worker'[k] = "release" /\ slots' = slots /\ wg' = wg
        /\ \A j \in Kills \ {k} : worker'[j] = worker[j]
    BY <1>2, <1>3, Zenon DEF handleCrashEvent
  <2>2. Handling' = Handling /\ Grouped' = Grouped
    BY <2>1 DEF Handling, Grouped, Working
  <2>3. QED
    BY <1>1, <2>1, <2>2 DEF CountsInv
<1>4. CASE ReleaseSlot(k)
  <2>1. /\ worker[k] = "release" /\ worker'[k] = "finish" /\ slots' = slots - 1 /\ wg' = wg
        /\ \A j \in Kills \ {k} : worker'[j] = worker[j]
    BY <1>2, <1>4, Zenon DEF ReleaseSlot
  <2>2. Handling' = Handling \ {k} /\ k \in Handling /\ Grouped' = Grouped
    BY <2>1, Zenon DEF Handling, Grouped, Working
  <2>3. /\ Cardinality(Handling') = Cardinality(Handling) - 1
        /\ Cardinality(Handling) \in Nat
    BY <2>2, CountKills, ZenonT(30) DEF Handling
  <2>4. /\ slots' = Cardinality(Handling') + (IF reader = "add" THEN 1 ELSE 0)
        /\ slots' <= MaxConcurrentReports
    <3>1. PICK x \in {0, 1} : x = IF reader = "add" THEN 1 ELSE 0
      OBVIOUS
    <3>2. slots = Cardinality(Handling) + x /\ slots <= MaxConcurrentReports
      BY <3>1 DEF CountsInv
    <3>3. slots - 1 = Cardinality(Handling') + x /\ slots - 1 <= MaxConcurrentReports
      BY <2>3, <3>2, SlotFreed, PipelineAssumption
    <3>4. QED
      BY <2>1, <3>1, <3>3
  <2>5. QED
    BY <1>1, <2>1, <2>2, <2>4 DEF CountsInv
<1>5. CASE WorkerDone(k)
  <2>1. /\ worker[k] = "finish" /\ worker'[k] = "done" /\ slots' = slots /\ wg' = wg - 1
        /\ \A j \in Kills \ {k} : worker'[j] = worker[j]
    BY <1>2, <1>5, Zenon DEF WorkerDone
  <2>2. Handling' = Handling /\ k \in Grouped /\ Grouped' = Grouped \ {k}
    BY <2>1 DEF Handling, Grouped, Working
  <2>3. Cardinality(Grouped') = Cardinality(Grouped) - 1
    BY <2>2, CountKills, ZenonT(30) DEF Grouped
  <2>4. QED
    BY <1>1, <2>1, <2>2, <2>3 DEF CountsInv
<1>6. QED
  BY <1>3, <1>4, <1>5 DEF Worker
-----------------------------------------------------------------------------
\* The drain.

\* The reader and the workers at work: the group grows only through a reader that has
\* not stopped.
LEMMA DrainFrame ==
  ASSUME DrainInv, UNCHANGED <<run, waiter, drainExpired, reportCtxDone>>,
         watchErrCh => watchErrCh',
         reader = "done" => reader' = "done", reader' = reader \/ reader # "off",
         Grouped' \subseteq Grouped \/ reader # "done",
         \A k \in Kills : fate'[k] = "abandoned" <=> fate[k] = "abandoned"
  PROVE  DrainInv'
<1>1. /\ run' = run /\ waiter' = waiter /\ drainExpired' = drainExpired
      /\ reportCtxDone' = reportCtxDone
  OBVIOUS
<1>2. /\ run' = "start" => reader' = "off"
      /\ run' \in {"start", "select", "drainReader"} => waiter' = "none"
  BY <1>1 DEF DrainInv
<1>3. /\ waiter' # "none" => reader' = "done" \/ drainExpired'
      /\ run' = "returned" => waiter' = "drained" \/ drainExpired'
      /\ reportCtxDone' => run' \in {"returned", "failed", "exited"}
  <2>1. /\ waiter # "none" => reader = "done" \/ drainExpired
        /\ run = "returned" => waiter = "drained" \/ drainExpired
        /\ reportCtxDone => run \in {"returned", "failed", "exited"}
    BY DEF DrainInv
  <2>2. QED
    BY <1>1, <2>1
<1>4. /\ waiter' = "drained" /\ ~drainExpired' => Grouped' = {}
      /\ reportCtxDone' => drainExpired' \/ watchErrCh' \/ (reader' = "done" /\ Grouped' = {})
  <2>1. CASE reader # "done"
    <3>1. /\ waiter = "drained" => drainExpired
          /\ reportCtxDone => drainExpired \/ watchErrCh
      BY <2>1, Zenon DEF DrainInv
    <3>2. QED
      BY <1>1, <3>1
  <2>2. CASE reader = "done"
    <3>1. reader' = "done" /\ (Grouped = {} => Grouped' = {})
      BY <2>2
    <3>2. /\ waiter = "drained" /\ ~drainExpired => Grouped = {}
          /\ reportCtxDone => drainExpired \/ watchErrCh \/ Grouped = {}
      BY DEF DrainInv
    <3>3. QED
      BY <1>1, <3>1, <3>2
  <2>3. QED
    BY <2>1, <2>2
<1>5. /\ \A k \in Kills : fate'[k] = "abandoned" => reader' = "done"
      /\ \A j, k \in Kills : fate'[j] = "abandoned" /\ fate'[k] = "abandoned" => j = k
  BY DEF DrainInv
<1>6. QED
  BY <1>2, <1>3, <1>4, <1>5, Zenon DEF DrainInv

\* The reader gives up the one kill it holds, and stops.
LEMMA DrainAbandon ==
  ASSUME StateInv, FateInv, DrainInv, Abandon PROVE DrainInv'
<1>1. PICK h \in Kills : h = held
  BY DEF Abandon, FateInv, HeldInv
<1>2. /\ reader = "slot" /\ reader' = "done" /\ fate' = [fate EXCEPT ![h] = "abandoned"]
      /\ worker' = worker /\ run' = run /\ waiter' = waiter /\ drainExpired' = drainExpired
      /\ reportCtxDone' = reportCtxDone /\ watchErrCh' = watchErrCh
  BY <1>1 DEF Abandon, workVars, mainVars
<1>3. Grouped' = Grouped
  BY <1>2 DEF Grouped
<1>4. fate'[h] = "abandoned" /\ \A k \in Kills \ {h} : fate'[k] = fate[k]
  BY <1>2 DEF StateInv
<1>5. \A k \in Kills : fate[k] # "abandoned"
  BY <1>2 DEF DrainInv
<1>6. /\ run' = "start" => reader' = "off"
      /\ run' \in {"start", "select", "drainReader"} => waiter' = "none"
      /\ waiter' # "none" => reader' = "done" \/ drainExpired'
      /\ waiter' = "drained" /\ ~drainExpired' => Grouped' = {}
      /\ run' = "returned" => waiter' = "drained" \/ drainExpired'
      /\ reportCtxDone' => run' \in {"returned", "failed", "exited"}
      /\ reportCtxDone' => drainExpired' \/ watchErrCh' \/ (reader' = "done" /\ Grouped' = {})
  BY <1>2, <1>3 DEF DrainInv
<1>7. /\ \A k \in Kills : fate'[k] = "abandoned" => reader' = "done"
      /\ \A j, k \in Kills : fate'[j] = "abandoned" /\ fate'[k] = "abandoned" => j = k
  BY <1>2, <1>4, <1>5
<1>8. QED
  BY <1>6, <1>7, Zenon DEF DrainInv

\* The main goroutine, its timer, its waiter and its end.
LEMMA DrainMain ==
  ASSUME CountsInv, DrainInv, Main \/ DrainExpires \/ WaitReturns \/ Killed
  PROVE  /\ DrainInv' /\ Grouped' = Grouped
         /\ \/ reader' = reader
            \/ reader \in {"off", "read"} /\ reader' = "read"
         /\ UNCHANGED <<fateVars, now>>
<1>1. /\ UNCHANGED <<fateVars, now>> /\ watchErrCh' = watchErrCh /\ fate' = fate
      /\ worker' = worker /\ wg' = wg
  BY Zenon DEF Main, Attach, AttachFails, WatchFailed, ShutDown, StartWait, Drained, Exit, Returns,
         Moves, DrainExpires, WaitReturns, Killed, fateVars, kernelVars, readerVars, workVars
<1>2. Grouped' = Grouped
  BY <1>1 DEF Grouped
<1>3. CASE Attach
  <2>1. /\ run = "start" /\ run' = "select" /\ reader' = "read" /\ waiter' = waiter
        /\ drainExpired' = drainExpired /\ reportCtxDone' = reportCtxDone
    BY <1>3 DEF Attach
  <2>2. reader = "off" /\ ~reportCtxDone /\ waiter = "none"
    BY <2>1 DEF DrainInv
  <2>3. \A k \in Kills : fate[k] # "abandoned"
    BY <2>2 DEF DrainInv
  <2>4. QED
    BY <1>1, <1>2, <2>1, <2>2, <2>3 DEF DrainInv
<1>4. CASE AttachFails \/ Exit \/ Killed
  <2>1. /\ run' \in {"failed", "exited"} /\ reader' = reader /\ waiter' = waiter
        /\ drainExpired' = drainExpired /\ reportCtxDone' = reportCtxDone
    BY <1>4 DEF AttachFails, Exit, Killed, readerVars
  <2>2. QED
    BY <1>1, <1>2, <2>1 DEF DrainInv
<1>5. CASE WatchFailed
  <2>1. /\ run = "select" /\ watchErrCh /\ run' = "failed" /\ reader' = reader
        /\ waiter' = waiter /\ drainExpired' = drainExpired
    BY <1>5 DEF WatchFailed, Returns, readerVars
  <2>2. QED
    BY <1>1, <1>2, <2>1 DEF DrainInv
<1>6. CASE ShutDown
  <2>1. /\ run = "select" /\ run' = "drainReader" /\ reader' = reader /\ waiter' = waiter
        /\ drainExpired' = drainExpired /\ reportCtxDone' = reportCtxDone
    BY <1>6 DEF ShutDown, Moves, readerVars
  <2>2. QED
    BY <1>1, <1>2, <2>1 DEF DrainInv
<1>7. CASE StartWait
  <2>1. /\ reader = "done" \/ drainExpired
        /\ run = "drainReader" /\ run' = "drainWait" /\ reader' = reader
        /\ waiter' = "waiting" /\ drainExpired' = drainExpired
        /\ reportCtxDone' = reportCtxDone
    BY <1>7 DEF StartWait, Moves, readerVars
  <2>2. QED
    BY <1>1, <1>2, <2>1, Zenon DEF DrainInv
<1>8. CASE Drained
  <2>1. /\ run = "drainWait" /\ (waiter = "drained" \/ drainExpired) /\ run' = "returned"
        /\ reader' = reader /\ waiter' = waiter /\ drainExpired' = drainExpired
    BY <1>8 DEF Drained, Returns, readerVars
  <2>2. drainExpired \/ (reader = "done" /\ Grouped = {})
    BY <2>1 DEF DrainInv
  <2>3. QED
    BY <1>1, <1>2, <2>1, <2>2 DEF DrainInv
<1>9. CASE DrainExpires
  <2>1. /\ run' = run /\ reader' = reader /\ waiter' = waiter /\ drainExpired'
        /\ reportCtxDone' = reportCtxDone
    BY <1>9 DEF DrainExpires, readerVars
  <2>2. QED
    BY <1>1, <1>2, <2>1 DEF DrainInv
<1>10. CASE WaitReturns
  <2>1. /\ run' = run /\ reader' = reader /\ waiter = "waiting" /\ waiter' = "drained"
        /\ wg = 0 /\ drainExpired' = drainExpired /\ reportCtxDone' = reportCtxDone
    BY <1>10 DEF WaitReturns, readerVars
  <2>2. Grouped = {}
    BY <2>1, CountKills DEF CountsInv, Grouped
  <2>3. QED
    BY <1>1, <1>2, <2>1, <2>2 DEF DrainInv
<1>11. QED
  BY <1>3, <1>4, <1>5, <1>6, <1>7, <1>8, <1>9, <1>10 DEF Main
-----------------------------------------------------------------------------
\* The whole invariant.

\* The invariant holds when Run begins.
LEMMA PipelineStarts == Init => PipelineInv
<1> SUFFICES ASSUME Init PROVE PipelineInv
  OBVIOUS
<1>1. StateInv
  BY DEF Init, StateInv, Fates
<1>2. \A k \in Kills : fate[k] = "pending" /\ worker[k] = "none" /\ ~Admitted(k)
  BY DEF Init, Admitted
<1>3. FateInv
  <2>1. HeldInv
    BY <1>2 DEF Init, HeldInv, KillInv
  <2>2. Len(ring) = 0
    BY DEF Init
  <2>3. RingInv
    BY <1>2, <2>2 DEF RingInv
  <2>4. OrderInv
    BY <1>2 DEF OrderInv, Past
  <2>5. QED
    BY <2>1, <2>3, <2>4 DEF FateInv
<1>4. DOMAIN last = {}
  BY DEF Init
<1>5. CoolInv /\ CooldownEvicts
  BY <1>2, <1>4 DEF CoolInv, CooldownEvicts, Past
<1>6. CooldownSpacing /\ SuppressedIsRepeat
  BY <1>2 DEF CooldownSpacing, SuppressedIsRepeat, Kills
<1>7. Handling = {} /\ Grouped = {}
  BY <1>2 DEF Handling, Grouped, Working
<1>8. CountsInv
  BY <1>7, FS_EmptySet, PipelineAssumption DEF CountsInv, Init
<1>9. DrainInv
  BY <1>2, <1>7 DEF DrainInv, Init
<1>10. QED
  BY <1>1, <1>3, <1>5, <1>6, <1>8, <1>9 DEF PipelineInv

\* Steps that move no kill.
LEMMA StillStep ==
  ASSUME PipelineInv, Rests \/ Quiet, DrainInv' PROVE PipelineInv'
<1>1. StateInv' /\ FateInv'
  BY RestFates DEF PipelineInv
<1>2. /\ last' = last /\ detectedAt' = detectedAt /\ fate' = fate /\ held' = held
      /\ worker' = worker /\ slots' = slots /\ wg' = wg
      /\ reader' = "allow" <=> reader = "allow"
      /\ reader' = "add" <=> reader = "add"
  BY DEF Rests, Quiet, fateVars
<1>3. now <= now'
  BY DEF Rests, Quiet, PipelineInv, StateInv
<1>4. \A k \in Kills : Admitted(k)' <=> Admitted(k)
  BY <1>2 DEF Admitted
<1>5. CooldownInv'
  BY <1>1, <1>2, <1>3, <1>4, CoolOther DEF PipelineInv, CooldownInv
<1>6. CountsInv'
  BY <1>2, SameCounts DEF PipelineInv
<1>7. QED
  BY <1>1, <1>5, <1>6 DEF PipelineInv, CooldownInv

\* The kernel, the reader and the workers leave the main goroutine alone.
LEMMA LeavesMain ==
  ASSUME Tick \/ Signal \/ Reader \/ ReadFails
           \/ \E k \in Kills : OOMKill(k) \/ Worker(k)
  PROVE  /\ UNCHANGED <<run, waiter, drainExpired, reportCtxDone>>
         /\ watchErrCh => watchErrCh'
<1>1. CASE Tick \/ Signal \/ ReadFails
  <2>1. UNCHANGED mainVars
    BY <1>1 DEF Tick, Signal, ReadFails
  <2>2. watchErrCh => watchErrCh'
    BY <1>1, Zenon DEF Tick, Signal, ReadFails
  <2>3. QED
    BY <2>1, <2>2 DEF mainVars
<1>2. CASE Reader
  <2>1. UNCHANGED <<mainVars, watchErrCh>>
    BY <1>2, Zenon DEF Reader, ReadEvent, CloseRing, ReaderStops, Suppress, Allow, TakeSlot, Abandon,
                Spawn
  <2>2. QED
    BY <2>1 DEF mainVars
<1>3. ASSUME NEW k \in Kills, OOMKill(k) \/ Worker(k)
      PROVE  UNCHANGED <<run, waiter, drainExpired, reportCtxDone, watchErrCh>>
  <2>1. UNCHANGED <<mainVars, watchErrCh>>
    BY <1>3, Zenon DEF OOMKill, Worker, handleCrashEvent, ReleaseSlot, WorkerDone
  <2>2. QED
    BY <2>1 DEF mainVars
<1>4. QED
  BY <1>1, <1>2, <1>3

\* A kill in the kernel keeps the invariant.
LEMMA KillStep ==
  ASSUME PipelineInv, NEW k \in Kills, OOMKill(k) PROVE PipelineInv'
<1>1. StateInv' /\ FateInv'
  BY KillFates DEF PipelineInv
<1>2. /\ now' = now /\ detectedAt' = detectedAt /\ reader' = reader /\ held' = held
      /\ last' = last /\ worker' = worker /\ slots' = slots /\ wg' = wg
  BY Zenon DEF OOMKill, readerVars, workVars
<1>3. PICK f \in {"buffered", "lost"} : fate' = [fate EXCEPT ![k] = f]
  BY DEF OOMKill
<1>4. /\ fate[k] = "pending" /\ fate'[k] = f
      /\ \A j \in Kills \ {k} : fate'[j] = fate[j]
  BY <1>3 DEF OOMKill, PipelineInv, StateInv
<1>5. \A j \in Kills : /\ fate'[j] \in Past <=> fate[j] \in Past
                       /\ Admitted(j)' <=> Admitted(j)
                       /\ fate'[j] = "suppressed" => fate[j] = "suppressed"
                       /\ fate'[j] = "abandoned" <=> fate[j] = "abandoned"
  BY <1>4, Zenon DEF Past, Admitted
<1>6. now <= now'
  BY <1>2 DEF PipelineInv, StateInv
<1>7. CooldownInv'
  BY <1>1, <1>2, <1>5, <1>6, CoolOther, Zenon DEF PipelineInv, CooldownInv
<1>8. CountsInv' /\ Grouped' = Grouped
  BY <1>2, SameCounts DEF PipelineInv
<1>9. DrainInv'
  BY <1>2, <1>5, <1>8, LeavesMain, DrainFrame, Zenon DEF PipelineInv
<1>10. QED
  BY <1>1, <1>7, <1>8, <1>9 DEF PipelineInv, CooldownInv

\* Reading an event keeps the invariant.
LEMMA ReadStep ==
  ASSUME PipelineInv, ReadEvent PROVE PipelineInv'
<1>1. StateInv' /\ FateInv' /\ Head(ring) \in Kills /\ fate[Head(ring)] = "buffered"
  BY ReadFates DEF PipelineInv
<1>2. CooldownInv'
  BY <1>1, CoolRead DEF PipelineInv, CooldownInv
<1>3. /\ reader = "read" /\ reader' = "allow" /\ worker' = worker /\ slots' = slots /\ wg' = wg
      /\ fate' = [fate EXCEPT ![Head(ring)] = "read"]
  BY DEF ReadEvent, workVars
<1>4. CountsInv' /\ Grouped' = Grouped
  BY <1>3, SameCounts DEF PipelineInv
<1>5. \A k \in Kills : fate'[k] = "abandoned" <=> fate[k] = "abandoned"
  BY <1>1, <1>3 DEF PipelineInv, StateInv
<1>6. DrainInv'
  BY <1>3, <1>4, <1>5, LeavesMain, DrainFrame DEF PipelineInv, Reader
<1>7. QED
  BY <1>1, <1>2, <1>4, <1>6 DEF PipelineInv, CooldownInv
\* The reader decides on the kill it holds, and passes it on.
LEMMA DecideStep ==
  ASSUME PipelineInv, Suppress \/ Allow PROVE PipelineInv'
<1>1. StateInv' /\ FateInv'
  BY ReaderFates DEF PipelineInv
<1>2. CooldownInv'
  BY <1>1, CoolSuppress, CoolAllow DEF PipelineInv, CooldownInv
<1>3. PICK h \in Kills : h = held
  BY Zenon DEF PipelineInv, FateInv, HeldInv, Suppress, Allow
<1>4. /\ reader = "allow" /\ reader' \in {"read", "slot"} /\ worker' = worker
      /\ slots' = slots /\ wg' = wg
  BY Zenon DEF Suppress, Allow, workVars
<1>5. fate[h] = "read"
  BY <1>3, <1>4, Zenon DEF PipelineInv, FateInv, HeldInv, KillInv
<1>6. PICK f \in {"suppressed", "accepted"} : fate' = [fate EXCEPT ![h] = f]
  BY <1>3, Zenon DEF Suppress, Allow
<1>7. \A k \in Kills : fate'[k] = "abandoned" <=> fate[k] = "abandoned"
  BY <1>5, <1>6 DEF PipelineInv, StateInv
<1>8. CountsInv' /\ Grouped' = Grouped
  BY <1>4, SameCounts DEF PipelineInv
<1>9. DrainInv'
  BY <1>4, <1>7, <1>8, LeavesMain, DrainFrame DEF PipelineInv, Reader
<1>10. QED
  BY <1>1, <1>2, <1>8, <1>9 DEF PipelineInv, CooldownInv

\* Handing a kill over to a worker, or giving it up, keeps the invariant.
LEMMA HandOverStep ==
  ASSUME PipelineInv, TakeSlot \/ Abandon \/ Spawn PROVE PipelineInv'
<1>1. StateInv' /\ FateInv'
  BY ReaderFates DEF PipelineInv
<1>2. /\ last' = last /\ detectedAt' = detectedAt /\ now' = now
      /\ reader \in {"slot", "add"} /\ reader' \in {"add", "done", "read"}
  BY DEF TakeSlot, Abandon, Spawn
<1>3. now <= now'
  BY <1>2 DEF PipelineInv, StateInv
<1>4. CASE TakeSlot \/ Spawn
  <2>1. fate' = fate
    BY <1>4 DEF TakeSlot, Spawn
  <2>2. \A k \in Kills : Admitted(k)' <=> Admitted(k)
    BY <2>1 DEF Admitted
  <2>3. CooldownInv'
    BY <1>1, <1>2, <1>3, <2>1, <2>2, CoolOther DEF PipelineInv, CooldownInv
  <2>4. CountsInv'
    BY <1>4, SlotCounts, SpawnCounts DEF PipelineInv
  <2>5. DrainInv'
    BY <1>2, <1>4, <2>1, LeavesMain, DrainFrame DEF PipelineInv, Reader
  <2>6. QED
    BY <1>1, <2>3, <2>4, <2>5 DEF PipelineInv, CooldownInv
<1>5. CASE Abandon
  <2>1. PICK h \in Kills : h = held
    BY <1>2 DEF PipelineInv, FateInv, HeldInv
  <2>2. /\ reader = "slot" /\ reader' = "done" /\ worker' = worker /\ slots' = slots /\ wg' = wg
        /\ fate' = [fate EXCEPT ![h] = "abandoned"]
    BY <1>5, <2>1 DEF Abandon, workVars
  <2>3. fate[h] = "accepted"
    BY <2>1, <2>2 DEF PipelineInv, FateInv, HeldInv, KillInv
  <2>4. fate'[h] = "abandoned" /\ \A k \in Kills \ {h} : fate'[k] = fate[k]
    BY <2>2 DEF PipelineInv, StateInv
  <2>5. \A k \in Kills : /\ fate'[k] \in Past <=> fate[k] \in Past
                         /\ Admitted(k)' <=> Admitted(k)
                         /\ fate'[k] = "suppressed" => fate[k] = "suppressed"
    BY <2>3, <2>4 DEF Past, Admitted
  <2>6. CooldownInv'
    BY <1>1, <1>2, <1>3, <2>5, CoolOther, Zenon DEF PipelineInv, CooldownInv
  <2>7. CountsInv'
    BY <2>2, SameCounts DEF PipelineInv
  <2>8. DrainInv'
    BY <1>5, DrainAbandon DEF PipelineInv
  <2>9. QED
    BY <1>1, <2>6, <2>7, <2>8 DEF PipelineInv, CooldownInv
<1>6. QED
  BY <1>4, <1>5

\* A worker's step keeps the invariant.
LEMMA WorkerStep ==
  ASSUME PipelineInv, NEW k \in Kills, Worker(k) PROVE PipelineInv'
<1>1. StateInv' /\ FateInv'
  BY WorkerFates DEF PipelineInv
<1>2. /\ last' = last /\ detectedAt' = detectedAt /\ now' = now /\ reader' = reader
      /\ held' = held
  BY DEF Worker, handleCrashEvent, ReleaseSlot, WorkerDone, readerVars
<1>3. now <= now'
  BY <1>2 DEF PipelineInv, StateInv
<1>4. \/ fate' = fate
      \/ /\ fate[k] = "accepted"
         /\ \E f \in {"reported", "failed"} : fate' = [fate EXCEPT ![k] = f]
  BY DEF Worker, handleCrashEvent, ReleaseSlot, WorkerDone, PipelineInv, FateInv, HeldInv, KillInv
<1>5. \A j \in Kills : /\ fate'[j] \in Past <=> fate[j] \in Past
                       /\ Admitted(j)' <=> Admitted(j)
                       /\ fate'[j] = "suppressed" => fate[j] = "suppressed"
                       /\ fate'[j] = "abandoned" <=> fate[j] = "abandoned"
  BY <1>4 DEF PipelineInv, StateInv, Past, Admitted
<1>6. CooldownInv'
  BY <1>1, <1>2, <1>3, <1>5, CoolOther, Zenon DEF PipelineInv, CooldownInv
<1>7. CountsInv' /\ Grouped' \subseteq Grouped
  BY WorkerCounts DEF PipelineInv
<1>8. DrainInv'
  BY <1>2, <1>5, <1>7, LeavesMain, DrainFrame, Zenon DEF PipelineInv
<1>9. QED
  BY <1>1, <1>6, <1>7, <1>8 DEF PipelineInv, CooldownInv
\* Every step keeps the invariant.
LEMMA PipelineStep == PipelineInv /\ [Next]_vars => PipelineInv'
<1> SUFFICES ASSUME PipelineInv, [Next]_vars PROVE PipelineInv'
  OBVIOUS
<1>1. CASE Tick \/ Signal \/ CloseRing
  <2>1. Quiet
    BY <1>1 DEF Tick, Signal, CloseRing, Quiet, fateVars, kernelVars, readerVars, workVars
  <2>2. Grouped' = Grouped /\ reader' = reader /\ fate' = fate
    BY <2>1 DEF Quiet, fateVars, Grouped
  <2>3. DrainInv'
    BY <1>1, <2>2, LeavesMain, DrainFrame DEF PipelineInv, Reader
  <2>4. QED
    BY <2>1, <2>3, StillStep
<1>2. CASE ReaderStops \/ ReadFails
  <2>1. /\ reader = "read" /\ reader' = "done" /\ fate' = fate /\ worker' = worker
    BY <1>2 DEF ReaderStops, ReadFails, workVars
  <2>2. UNCHANGED <<run, waiter, drainExpired, reportCtxDone>> /\ (watchErrCh => watchErrCh')
    BY <1>2, LeavesMain DEF Reader
  <2>3. Rests
    BY <1>2, <2>1, <2>2 DEF ReaderStops, ReadFails, Rests, fateVars, kernelVars, workVars
  <2>4. DrainInv'
    BY <2>1, <2>2, DrainFrame DEF PipelineInv
  <2>5. QED
    BY <2>3, <2>4, StillStep
<1>3. CASE ReadEvent
  BY <1>3, ReadStep
<1>4. CASE Suppress \/ Allow
  BY <1>4, DecideStep
<1>5. CASE TakeSlot \/ Abandon \/ Spawn
  BY <1>5, HandOverStep
<1>6. CASE \E k \in Kills : OOMKill(k) \/ Worker(k)
  BY <1>6, KillStep, WorkerStep
<1>7. CASE Main \/ DrainExpires \/ WaitReturns \/ Killed
  <2>1. /\ DrainInv' /\ UNCHANGED <<fateVars, now>>
        /\ reader' = reader \/ Attach
    <3>1. DrainInv' /\ UNCHANGED <<fateVars, now>>
      BY <1>7, DrainMain DEF PipelineInv
    <3>2. reader' = reader \/ Attach
      BY <1>7, Zenon DEF Main, AttachFails, WatchFailed, ShutDown, StartWait, Drained, Exit, Returns,
                  Moves, DrainExpires, WaitReturns, Killed, readerVars
    <3>3. QED
      BY <3>1, <3>2
  <2>2. CASE reader' = reader
    BY <2>1, <2>2, StillStep DEF Quiet
  <2>3. CASE Attach
    <3>1. reader = "off" /\ reader' = "read" /\ UNCHANGED <<waiter, drainExpired>>
      BY <2>3 DEF Attach, PipelineInv, DrainInv
    <3>2. QED
      BY <2>1, <3>1, StillStep DEF Rests
  <2>4. QED
    BY <2>1, <2>2, <2>3
<1>8. CASE UNCHANGED vars
  <2>1. Quiet
    BY <1>8 DEF vars, Quiet, fateVars, kernelVars, readerVars, workVars
  <2>2. /\ UNCHANGED <<run, waiter, drainExpired, reportCtxDone, watchErrCh, reader, fate>>
        /\ Grouped' = Grouped
    BY <1>8 DEF vars, mainVars, readerVars, workVars, Grouped
  <2>3. DrainInv'
    BY <2>2, DrainFrame DEF PipelineInv
  <2>4. QED
    BY <2>1, <2>3, StillStep
<1>9. QED
  BY <1>1, <1>2, <1>3, <1>4, <1>5, <1>6, <1>7, <1>8 DEF Next, Reader

\* The invariant holds always.
LEMMA PipelineInvariant == Spec => []PipelineInv
BY PipelineStarts, PipelineStep, PTL DEF Spec

-----------------------------------------------------------------------------

\* The semaphore of Run counts its handlers, and never lets in too many.
THEOREM SlotsAreAccounted == Spec => []SlotsAccounted
<1>1. PipelineInv => SlotsAccounted
  BY DEF PipelineInv, CountsInv, Handling, SlotsAccounted
<1>2. QED
  BY <1>1, PipelineInvariant, PTL

\* wg.Add never races with wg.Wait, unless the reader outlives the drain timeout.
THEOREM GroupIsClosed == Spec => NoLateAdd
<1>1. PipelineInv /\ [Next]_vars => [wg' > wg /\ waiter # "none" => drainExpired]_vars
  <2> SUFFICES ASSUME PipelineInv, [Next]_vars, wg' > wg, waiter # "none" PROVE drainExpired
    OBVIOUS
  <2>1. wg \in Nat
    BY CountKills DEF PipelineInv, CountsInv, Grouped
  <2>2. wg' # wg /\ wg' # wg - 1
    BY <2>1
  <2>3. Spawn
    <3>1. ~ UNCHANGED vars
      BY <2>2 DEF vars, workVars
    <3>2. ~(Tick \/ Signal \/ ReadFails \/ DrainExpires \/ WaitReturns \/ Killed)
      BY <2>2, Zenon DEF Tick, Signal, ReadFails, DrainExpires, WaitReturns, Killed, workVars
    <3>3. ~Main
      BY <2>2, Zenon DEF Main, Attach, AttachFails, WatchFailed, ShutDown, StartWait, Drained, Exit,
                  Returns, Moves, workVars
    <3>4. ASSUME NEW k \in Kills, OOMKill(k) \/ Worker(k) PROVE FALSE
      <4>1. wg' \in {wg, wg - 1}
        BY <3>4, Zenon DEF OOMKill, Worker, handleCrashEvent, ReleaseSlot, WorkerDone, workVars
      <4>2. QED
        BY <2>2, <4>1
    <3>5. ~(ReadEvent \/ CloseRing \/ ReaderStops \/ Suppress \/ Allow \/ TakeSlot \/ Abandon)
      BY <2>2, Zenon DEF ReadEvent, CloseRing, ReaderStops, Suppress, Allow, TakeSlot, Abandon, workVars
    <3>6. QED
      BY <3>1, <3>2, <3>3, <3>4, <3>5 DEF Next, Reader
  <2>4. reader = "add"
    BY <2>3 DEF Spawn
  <2>5. QED
    BY <2>4 DEF PipelineInv, DrainInv
<1>2. QED
  BY <1>1, PipelineInvariant, PTL DEF Spec, NoLateAdd

\* A drain that ends in time has settled every kill the reader had taken.
THEOREM DrainIsClean == Spec => []CleanDrain
<1>1. PipelineInv => CleanDrain
  <2> SUFFICES ASSUME PipelineInv, run = "returned", ~drainExpired
               PROVE  /\ \A k \in Kills : /\ worker[k] \notin Working
                                          /\ fate[k] \notin {"read", "accepted"}
                      /\ Cardinality({k \in Kills : fate[k] = "abandoned"}) <= 1
    BY DEF CleanDrain
  <2>1. reader = "done" /\ Grouped = {}
    BY DEF PipelineInv, DrainInv
  <2>2. \A k \in Kills : worker[k] \notin Working
    BY <2>1 DEF Grouped
  <2>3. \A k \in Kills : worker[k] \in {"none", "done"}
    BY <2>2 DEF PipelineInv, StateInv
  <2>4. \A k \in Kills : fate[k] \notin {"read", "accepted"}
    BY <2>1, <2>3 DEF PipelineInv, FateInv, HeldInv, KillInv
  <2> DEFINE S == {k \in Kills : fate[k] = "abandoned"}
  <2>5. Cardinality(S) <= 1
    <3>1. CASE S = {}
      BY <3>1, FS_EmptySet
    <3>2. CASE S # {}
      <4>1. PICK h \in S : TRUE
        BY <3>2
      <4>2. \A j, k \in S : j = k
        BY DEF PipelineInv, DrainInv
      <4> HIDE DEF S
      <4>3. S = {h}
        BY <4>1, <4>2
      <4>4. Cardinality({h}) = 1
        BY FS_Singleton
      <4>5. QED
        BY <4>3, <4>4
    <3>3. QED
      BY <3>1, <3>2
  <2>6. QED
    BY <2>2, <2>4, <2>5
<1>2. QED
  BY <1>1, PipelineInvariant, PTL

\* Only the drain timeout or a broken tracer cancels a report in flight.
THEOREM ReportsRunOn == Spec => []ReportsNotCutShort
<1>1. PipelineInv => ReportsNotCutShort
  BY DEF PipelineInv, DrainInv, Grouped, Working, ReportsNotCutShort
<1>2. QED
  BY <1>1, PipelineInvariant, PTL

\* One report per container and window, for any pattern of kills and evictions.
THEOREM CooldownSpaces == Spec => []CooldownSpacing
<1>1. PipelineInv => CooldownSpacing
  BY DEF PipelineInv
<1>2. QED
  BY <1>1, PipelineInvariant, PTL

\* Only a repeat of an admitted kill is suppressed.
THEOREM SuppressesRepeats == Spec => []SuppressedIsRepeat
<1>1. PipelineInv => SuppressedIsRepeat
  BY DEF PipelineInv
<1>2. QED
  BY <1>1, PipelineInvariant, PTL

\* The cooldown's memory spans one window.
THEOREM CooldownForgets == Spec => []CooldownEvicts
<1>1. PipelineInv => CooldownEvicts
  BY DEF PipelineInv
<1>2. QED
  BY <1>1, PipelineInvariant, PTL
-----------------------------------------------------------------------------
\* What the types need beyond PipelineInv: the clock's bound, and the control.
ClockInv == now \in 0..MaxTime /\ detectedAt \in [Kills -> 0..MaxTime]

ControlInv ==
  /\ reader \in {"off", "read", "allow", "slot", "add", "done"}
  /\ held \in Kills \cup {NoKill}
  /\ run \in {"start", "select", "drainReader", "drainWait", "returned", "failed", "exited"}
  /\ waiter \in {"none", "waiting", "drained"}

\* Every step keeps the clock and the detection times within the bound.
LEMMA ClockStep == PipelineInv /\ ClockInv /\ [Next]_vars => ClockInv'
<1> SUFFICES ASSUME PipelineInv, ClockInv, [Next]_vars PROVE ClockInv'
  OBVIOUS
<1>1. CASE ReadEvent
  <2>1. Head(ring) \in Kills
    BY <1>1, ReadFates DEF PipelineInv
  <2>2. QED
    BY <1>1, <2>1 DEF ReadEvent, ClockInv
<1>2. CASE Tick
  BY <1>2, PipelineAssumption DEF Tick, ClockInv
<1>3. CASE UNCHANGED <<now, detectedAt>>
  BY <1>3 DEF ClockInv
<1>4. ReadEvent \/ Tick \/ UNCHANGED <<now, detectedAt>>
  BY Zenon DEF Next, vars, Reader, Main, Worker, Signal, CloseRing, ReaderStops, ReadFails, Suppress,
         Allow, TakeSlot, Abandon, Spawn, OOMKill, handleCrashEvent, ReleaseSlot, WorkerDone,
         Attach, AttachFails, WatchFailed, ShutDown, StartWait, Drained, Exit, Returns, Moves,
         DrainExpires, WaitReturns, Killed
<1>5. QED
  BY <1>1, <1>2, <1>3, <1>4

\* The flags only ever go from one Boolean to another.
FlagsInv ==
  /\ closed \in BOOLEAN /\ tracing \in BOOLEAN /\ ctxDone \in BOOLEAN
  /\ drainExpired \in BOOLEAN /\ watchErrCh \in BOOLEAN /\ reportCtxDone \in BOOLEAN

\* Every step keeps the flags Boolean.
LEMMA FlagsStep == FlagsInv /\ [Next]_vars => FlagsInv'
<1> SUFFICES ASSUME FlagsInv, [Next]_vars PROVE FlagsInv'
  OBVIOUS
<1>1. CASE Tick \/ Signal \/ UNCHANGED vars
  BY <1>1, Zenon DEF FlagsInv, Tick, Signal, vars, kernelVars, mainVars
<1>2. ASSUME NEW k \in Kills, OOMKill(k) \/ Worker(k) PROVE FlagsInv'
  BY <1>2, Zenon DEF FlagsInv, OOMKill, Worker, handleCrashEvent, ReleaseSlot, WorkerDone, kernelVars,
              mainVars
<1>3. CASE Reader \/ ReadFails
  BY <1>3, Zenon DEF Reader, FlagsInv, ReadEvent, CloseRing, ReaderStops, ReadFails, Suppress, Allow,
              TakeSlot, Abandon, Spawn, kernelVars, mainVars
<1>4. CASE Main
  BY <1>4, Zenon DEF Main, FlagsInv, Attach, AttachFails, WatchFailed, ShutDown, StartWait, Drained,
              Exit, Returns, Moves, kernelVars
<1>5. CASE DrainExpires \/ WaitReturns \/ Killed
  BY <1>5, Zenon DEF FlagsInv, DrainExpires, WaitReturns, Killed, kernelVars
<1>6. QED
  BY <1>1, <1>2, <1>3, <1>4, <1>5 DEF Next

\* Every step keeps the control state typed.
LEMMA ControlStep == PipelineInv /\ ControlInv /\ [Next]_vars => ControlInv'
<1> SUFFICES ASSUME PipelineInv, ControlInv, [Next]_vars PROVE ControlInv'
  OBVIOUS
<1>1. CASE Tick \/ Signal \/ UNCHANGED vars
  BY <1>1 DEF ControlInv, Tick, Signal, vars, readerVars, mainVars
<1>2. ASSUME NEW k \in Kills, OOMKill(k) \/ Worker(k) PROVE ControlInv'
  BY <1>2 DEF ControlInv, OOMKill, Worker, handleCrashEvent, ReleaseSlot, WorkerDone, readerVars,
              mainVars
<1>3. CASE ReadEvent
  <2>1. Head(ring) \in Kills
    BY <1>3, ReadFates DEF PipelineInv
  <2>2. QED
    BY <1>3, <2>1 DEF ReadEvent, ControlInv, mainVars
<1>4. CASE CloseRing \/ ReaderStops \/ ReadFails
  BY <1>4 DEF ControlInv, CloseRing, ReaderStops, ReadFails, readerVars, mainVars
<1>5. CASE Suppress \/ Allow \/ TakeSlot \/ Abandon \/ Spawn
  BY <1>5 DEF ControlInv, Suppress, Allow, TakeSlot, Abandon, Spawn, mainVars
<1>6. CASE Main
  BY <1>6 DEF Main, ControlInv, Attach, AttachFails, WatchFailed, ShutDown, StartWait, Drained,
              Exit, Returns, Moves, readerVars
<1>7. CASE DrainExpires \/ WaitReturns \/ Killed
  BY <1>7 DEF ControlInv, DrainExpires, WaitReturns, Killed, readerVars
<1>8. QED
  BY <1>1, <1>2, <1>3, <1>4, <1>5, <1>6, <1>7 DEF Next, Reader

\* Every variable keeps its type. The counters of the semaphore and of the group
\* stay natural numbers, although each worker takes one off both (Run's workers).
THEOREM PipelineIsTyped == Spec => []PipelineTypeOK
<1>1. Init => ClockInv /\ ControlInv /\ FlagsInv
  <2> SUFFICES ASSUME Init PROVE ClockInv /\ ControlInv /\ FlagsInv
    OBVIOUS
  <2>1. ClockInv
    BY PipelineAssumption DEF Init, ClockInv
  <2>2. ControlInv /\ FlagsInv
    BY Zenon DEF Init, ControlInv, FlagsInv
  <2>3. QED
    BY <2>1, <2>2
<1>2. PipelineInv /\ ClockInv /\ ControlInv /\ FlagsInv => PipelineTypeOK
  <2> SUFFICES ASSUME PipelineInv, ClockInv, ControlInv, FlagsInv PROVE PipelineTypeOK
    OBVIOUS
  <2>1. slots \in Nat /\ wg \in Nat
    <3>1. Cardinality(Handling) \in Nat /\ Cardinality(Grouped) \in Nat
      BY CountKills DEF Handling, Grouped
    <3>2. QED
      BY <3>1 DEF PipelineInv, CountsInv
  <2>2. ASSUME NEW c \in DOMAIN last PROVE c \in Containers /\ last[c] \in 0..MaxTime
    <3>1. PICK k \in Kills : k[1] = c /\ detectedAt[k] = last[c]
      BY DEF PipelineInv, CoolInv
    <3>2. QED
      BY <3>1, KillFacts DEF ClockInv
  <2>3. {tracing, ctxDone, drainExpired, watchErrCh, reportCtxDone} \subseteq BOOLEAN
    BY DEF FlagsInv
  <2>4. QED
    BY <2>1, <2>2, <2>3
       DEF PipelineInv, StateInv, ClockInv, ControlInv, FlagsInv, PipelineTypeOK
<1>3. QED
  BY <1>1, <1>2, ClockStep, ControlStep, FlagsStep, PipelineInvariant, PTL DEF Spec
=============================================================================
