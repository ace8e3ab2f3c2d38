------------------------- MODULE CrashFiguresProofs -------------------------
(***************************************************************************)
(* The limiter keeps its two promises for every cap, every set of names    *)
(* and any number of concurrent samples, and what is published of a kill   *)
(* is true of it for every set of victims, every ring and every layout.    *)
(***************************************************************************)
EXTENDS CrashFigures, FiniteSetTheorems, TLAPS

\* What the lock protects is within the cap, and every series is accounted for: it
\* was admitted, or it is one of the two that need no admission. The name a sample
\* waits with is never the one that needs no lock.
LimiterInv ==
  /\ IsFiniteSet(seen) /\ Cardinality(seen) <= maxLabelCardinality
  /\ exported \subseteq seen \cup {unknownLabel, overflowLabel}
  /\ \A c \in Samples : call[c].pc = "waiting" => call[c].value # unknownLabel
  /\ DOMAIN call = Samples

\* A call that returns touches its own record only.
LEMMA ReturnsFrame ==
  ASSUME NEW c \in Samples, NEW v, NEW l, DOMAIN call = Samples, Returns(c, v, l)
  PROVE  /\ DOMAIN call' = Samples
         /\ call'[c].pc = "returned" /\ call'[c].value = v /\ call'[c].label = l
         /\ \A d \in Samples \ {c} : call'[d] = call[d]
         /\ exported' = exported \cup {l}
BY DEF Returns

\* A sample that takes a label without the lock, or asks for it, keeps the limiter's
\* books.
LEMMA BoundKeeps ==
  ASSUME LimiterInv, NEW c \in Samples, NEW v, Bound(c, v)
  PROVE  LimiterInv'
<1> DEFINE clean == sanitizeLabelValue(v)
<1> HIDE DEF clean
<1>1. seen' = seen
  BY DEF Bound
<1>2. CASE clean = unknownLabel
  <2>1. Returns(c, clean, clean)
    BY <1>2 DEF Bound, clean
  <2>2. /\ DOMAIN call' = Samples /\ call'[c].pc = "returned"
        /\ \A d \in Samples \ {c} : call'[d] = call[d]
        /\ exported' = exported \cup {clean}
    BY <2>1, ReturnsFrame DEF LimiterInv
  <2>3. QED
    BY <1>1, <1>2, <2>2 DEF LimiterInv
<1>3. CASE clean # unknownLabel
  <2>1. /\ call' = [call EXCEPT ![c] = [pc |-> "waiting", value |-> clean, label |-> <<>>]]
        /\ exported' = exported
    BY <1>3 DEF Bound, clean
  <2>2. \A d \in Samples : call'[d].pc = "waiting" => call'[d].value # unknownLabel
    BY <1>3, <2>1 DEF LimiterInv
  <2>3. DOMAIN call' = Samples
    BY <2>1 DEF LimiterInv
  <2>4. QED
    BY <1>1, <2>1, <2>2, <2>3 DEF LimiterInv
<1>4. QED
  BY <1>2, <1>3

\* What a sample finds once it holds the lock.
LEMMA LockedOutcome ==
  ASSUME LimiterInv, NEW c \in Samples, Locked(c)
  PROVE  LET value == call[c].value
         IN  \/ /\ value \notin seen
                /\ Cardinality(seen) >= maxLabelCardinality
                /\ Returns(c, value, overflowLabel) /\ seen' = seen
             \/ /\ value \in seen \/ ~(Cardinality(seen) >= maxLabelCardinality)
                /\ Returns(c, value, value) /\ seen' = seen \cup {value}
BY DEF Locked

\* So does what is done under the lock.
LEMMA LockedKeeps ==
  ASSUME LimiterInv, NEW c \in Samples, Locked(c)
  PROVE  LimiterInv'
<1> DEFINE value == call[c].value
<1> HIDE DEF value
<1>1. Cardinality(seen) \in Nat /\ maxLabelCardinality \in Nat
  BY FS_CardinalityType, LimiterAssumption DEF LimiterInv
<1>2. CASE /\ Returns(c, value, overflowLabel) /\ seen' = seen
  <2>1. /\ DOMAIN call' = Samples /\ call'[c].pc = "returned"
        /\ \A d \in Samples \ {c} : call'[d] = call[d]
        /\ exported' = exported \cup {overflowLabel}
    BY <1>2, ReturnsFrame DEF LimiterInv
  <2>2. QED
    BY <1>2, <2>1 DEF LimiterInv
<1>3. CASE /\ value \in seen \/ ~(Cardinality(seen) >= maxLabelCardinality)
           /\ Returns(c, value, value) /\ seen' = seen \cup {value}
  <2>1. /\ DOMAIN call' = Samples /\ call'[c].pc = "returned"
        /\ \A d \in Samples \ {c} : call'[d] = call[d]
        /\ exported' = exported \cup {value}
    BY <1>3, ReturnsFrame DEF LimiterInv
  <2>2. /\ IsFiniteSet(seen')
        /\ Cardinality(seen') = IF value \in seen THEN Cardinality(seen)
                                ELSE Cardinality(seen) + 1
    BY <1>3, FS_AddElement, SMTT(30) DEF LimiterInv
  <2>3. Cardinality(seen') <= maxLabelCardinality
    BY <1>1, <1>3, <2>2 DEF LimiterInv
  <2>4. exported' \subseteq seen' \cup {unknownLabel, overflowLabel}
    BY <1>3, <2>1 DEF LimiterInv
  <2>5. QED
    BY <2>1, <2>2, <2>3, <2>4 DEF LimiterInv
<1>4. QED
  BY <1>2, <1>3, LockedOutcome DEF value

\* The limiter's books are right always.
LEMMA LimiterInductive == FiguresSpec => []LimiterInv
<1>1. FiguresInit => LimiterInv
  <2> SUFFICES ASSUME FiguresInit PROVE LimiterInv
    OBVIOUS
  <2>1. IsFiniteSet(seen) /\ Cardinality(seen) = 0
    BY FS_EmptySet DEF FiguresInit, LimiterInit
  <2>2. QED
    BY <2>1, LimiterAssumption DEF FiguresInit, LimiterInit, LimiterInv
<1>2. LimiterInv /\ [FiguresNext]_figuresVars => LimiterInv'
  <2> SUFFICES ASSUME LimiterInv, [FiguresNext]_figuresVars PROVE LimiterInv'
    OBVIOUS
  <2>1. CASE UNCHANGED limiterVars
    BY <2>1 DEF limiterVars, LimiterInv
  <2>2. ASSUME NEW k \in Kills, Observe(k) PROVE LimiterInv'
    BY <2>2, BoundKeeps, FiguresAssumption DEF Observe
  <2>3. ASSUME NEW k \in Kills, Locked(k) PROVE LimiterInv'
    BY <2>3, LockedKeeps, FiguresAssumption
  <2>4. QED
    BY <2>1, <2>2, <2>3 DEF FiguresNext, figuresVars
<1>3. QED
  BY <1>1, <1>2, PTL DEF FiguresSpec

\* The cap holds however many names the workloads make up and however the workers
\* interleave: labelLimiter.bound decides and admits under one lock.
THEOREM SeriesAreBounded == FiguresSpec => []SeriesBounded
<1>1. LimiterInv => SeriesBounded
  <2> SUFFICES ASSUME LimiterInv PROVE SeriesBounded
    OBVIOUS
  <2> DEFINE own == exported \ {unknownLabel, overflowLabel}
  <2>1. own \subseteq seen
    BY DEF LimiterInv
  <2>2. IsFiniteSet(own) /\ Cardinality(own) <= Cardinality(seen)
    BY <2>1, FS_Subset DEF LimiterInv
  <2>3. Cardinality(own) \in Nat /\ Cardinality(seen) \in Nat /\ maxLabelCardinality \in Nat
    BY <2>2, FS_CardinalityType, LimiterAssumption DEF LimiterInv
  <2>4. IsFiniteSet(exported)
    <3>1. IsFiniteSet(seen \cup {unknownLabel})
      BY FS_AddElement DEF LimiterInv
    <3>2. IsFiniteSet((seen \cup {unknownLabel}) \cup {overflowLabel})
      BY <3>1, FS_AddElement
    <3>3. exported \subseteq (seen \cup {unknownLabel}) \cup {overflowLabel}
      BY DEF LimiterInv
    <3>4. QED
      BY <3>2, <3>3, FS_Subset
  <2>5. QED
    BY <2>2, <2>3, <2>4 DEF SeriesBounded, LimiterInv
<1>2. QED
  BY <1>1, LimiterInductive, PTL

\* A name with a series of its own is never folded into "other": bound looks the
\* name up before it looks at the cap.
THEOREM NamesAreKept == FiguresSpec => NameIsKept
<1> DEFINE Kept == \A c \in Samples :
                     /\ call'[c].pc = "returned" /\ call[c].pc # "returned"
                     /\ call'[c].value \in exported
                     => call'[c].label = call'[c].value
<1>1. LimiterInv /\ [FiguresNext]_figuresVars => [Kept]_limiterVars
  <2> SUFFICES ASSUME LimiterInv, [FiguresNext]_figuresVars, ~UNCHANGED limiterVars,
                      NEW c \in Samples,
                      call'[c].pc = "returned", call[c].pc # "returned",
                      call'[c].value \in exported
               PROVE  call'[c].label = call'[c].value
    OBVIOUS
  <2>1. ASSUME NEW k \in Kills, Observe(k) PROVE call'[c].label = call'[c].value
    <3> DEFINE clean == sanitizeLabelValue(diag[k].comm)
    <3> HIDE DEF clean
    <3>1. k \in Samples
      BY FiguresAssumption
    <3>2. CASE clean = unknownLabel
      <4>1. Returns(k, clean, clean)
        BY <2>1, <3>2 DEF Observe, Bound, clean
      <4>2. QED
        BY <3>1, <4>1, ReturnsFrame DEF LimiterInv
    <3>3. CASE clean # unknownLabel
      <4>1. call' = [call EXCEPT ![k] = [pc |-> "waiting", value |-> clean, label |-> <<>>]]
        BY <2>1, <3>3 DEF Observe, Bound, clean
      <4>2. QED
        BY <3>1, <4>1 DEF LimiterInv
    <3>4. QED
      BY <3>2, <3>3
  <2>2. ASSUME NEW k \in Kills, Locked(k) PROVE call'[c].label = call'[c].value
    <3> DEFINE value == call[k].value
    <3> HIDE DEF value
    <3>1. k \in Samples /\ call[k].pc = "waiting" /\ value # unknownLabel
      BY <2>2, FiguresAssumption DEF Locked, LimiterInv, value
    <3>2. CASE Returns(k, value, value)
      BY <3>1, <3>2, ReturnsFrame DEF LimiterInv
    <3>3. CASE value \notin seen /\ Returns(k, value, overflowLabel)
      <4>1. c = k /\ call'[c].value = value /\ call'[c].label = overflowLabel
        BY <3>1, <3>3, ReturnsFrame DEF LimiterInv
      <4>2. value = overflowLabel
        BY <3>1, <3>3, <4>1 DEF LimiterInv
      <4>3. QED
        BY <4>1, <4>2
    <3>4. QED
      BY <2>2, <3>1, <3>2, <3>3, LockedOutcome DEF value
  <2>3. QED
    BY <2>1, <2>2 DEF FiguresNext, figuresVars
<1>2. QED
  BY <1>1, LimiterInductive, PTL DEF FiguresSpec, NameIsKept
-----------------------------------------------------------------------------
\* The record of kill k, as the probe leaves it in the ring.
RecordOf(k) == Populated(ZeroRecord, k, victim[k])

\* Whatever a slot holds is the record of a kill that happened, and every record
\* the reader has yet to take is one. An event is made of the record of its own
\* kill, and a report of the event of its own kill.
FiguresInv ==
  /\ written \in Nat /\ taken \in Nat
  /\ victim \in [Kills -> Victims \cup {None}]
  /\ DOMAIN slot = 0..(RingSlots - 1) /\ DOMAIN event = Kills /\ DOMAIN diag = Kills
  /\ \A i \in 0..(RingSlots - 1), k \in Kills : slot[i].kill = k =>
       victim[k] # None /\ slot[i] = RecordOf(k)
  /\ \A j \in 0..(written - 1) : slot[j % RingSlots].kill \in Kills
  /\ \A k \in Kills : event[k] # None => victim[k] # None /\ event[k] = CrashEvent(RecordOf(k))
  /\ \A k \in Kills : diag[k] # None => event[k] # None /\ diag[k] = Diagnostics(event[k])

\* A zeroed record is of no kill.
LEMMA ZeroIsNoKill == ZeroRecord.kill = 0 /\ 0 \notin Kills
BY ProbeAssumption DEF ZeroRecord, Kills

\* The ring's index is within the ring.
LEMMA RingIndex ==
  ASSUME NEW n \in Nat
  PROVE  n % RingSlots \in 0..(RingSlots - 1)
BY ProbeAssumption

\* Nothing was recorded before the first kill.
LEMMA FiguresInitially == ProbeInit => FiguresInv
<1> SUFFICES ASSUME ProbeInit PROVE FiguresInv
  OBVIOUS
<1>1. \A i \in 0..(RingSlots - 1) : slot[i].kill \notin Kills
  BY ZeroIsNoKill DEF ProbeInit
<1>2. QED
  BY <1>1 DEF ProbeInit, FiguresInv

\* A kill is written into a slot of the ring, whose old bytes are gone.
LEMMA KillKeeps ==
  ASSUME FiguresInv, NEW k \in Kills, NEW v \in Victims, Kill(k, v)
  PROVE  FiguresInv'
<1>1. /\ victim[k] = None /\ victim' = [victim EXCEPT ![k] = v]
      /\ layout' = layout /\ taken' = taken /\ event' = event /\ diag' = diag
  BY DEF Kill
<1>2. victim' \in [Kills -> Victims \cup {None}] /\ victim'[k] = v /\ v # None
  BY <1>1, ProbeAssumption DEF FiguresInv
<1>3. \A n \in Kills : victim[n] # None => victim'[n] = victim[n]
  BY <1>1 DEF FiguresInv
<1>4. \A n \in Kills : victim[n] # None => RecordOf(n)' = RecordOf(n)
  <2> SUFFICES ASSUME NEW n \in Kills, victim[n] # None PROVE RecordOf(n)' = RecordOf(n)
    OBVIOUS
  <2>1. victim'[n] = victim[n]
    BY <1>3
  <2>2. layout' = layout
    BY <1>1
  <2>3. QED
    BY <2>1, <2>2, ZenonT(60) DEF RecordOf, Populated
<1>5. \A n \in Kills : event'[n] # None =>
        victim'[n] # None /\ event'[n] = CrashEvent(RecordOf(n))'
  <2>1. \A r : CrashEvent(r)' = CrashEvent(r)
    BY DEF CrashEvent
  <2>2. QED
    BY <1>1, <1>3, <1>4, <2>1 DEF FiguresInv
<1>6. CASE UNCHANGED <<slot, written>>
  <2>1. \A i \in 0..(RingSlots - 1), n \in Kills : slot'[i].kill = n =>
          victim'[n] # None /\ slot'[i] = RecordOf(n)'
    BY <1>3, <1>4, <1>6 DEF FiguresInv
  <2>2. QED
    BY <1>1, <1>2, <1>5, <1>6, <2>1 DEF FiguresInv
<1>7. CASE /\ slot' = [slot EXCEPT ![written % RingSlots] =
                         Populated(Reserved(slot[written % RingSlots]), k, v)]
           /\ written' = written + 1
  <2> DEFINE i == written % RingSlots
             rec == Populated(ZeroRecord, k, v)
  <2>1. i \in 0..(RingSlots - 1)
    BY RingIndex DEF FiguresInv
  <2>2. rec.kill = k
    BY DEF Populated, ZeroRecord
  <2>3. RecordOf(k)' = rec
    BY <1>1, <1>2 DEF RecordOf, Populated
  <2> HIDE DEF i, rec
  <2>4. slot' = [slot EXCEPT ![i] = rec]
    BY <1>7 DEF i, rec, Reserved
  <2>5. slot'[i] = rec /\ DOMAIN slot' = DOMAIN slot
    BY <2>1, <2>4 DEF FiguresInv
  <2>6. \A n \in 0..(RingSlots - 1) : n # i => slot'[n] = slot[n]
    BY <2>1, <2>4 DEF FiguresInv
  <2>7. ASSUME NEW n \in 0..(RingSlots - 1), NEW m \in Kills, slot'[n].kill = m
        PROVE  victim'[m] # None /\ slot'[n] = RecordOf(m)'
    <3>1. CASE n = i
      BY <1>2, <2>2, <2>3, <2>5, <2>7, <3>1
    <3>2. CASE n # i
      BY <1>3, <1>4, <2>6, <2>7, <3>2 DEF FiguresInv
    <3>3. QED
      BY <3>1, <3>2
  <2>8. \A j \in 0..(written' - 1) : slot'[j % RingSlots].kill \in Kills
    <3> SUFFICES ASSUME NEW j \in 0..(written' - 1) PROVE slot'[j % RingSlots].kill \in Kills
      OBVIOUS
    <3>1. j % RingSlots \in 0..(RingSlots - 1)
      BY <1>7, RingIndex DEF FiguresInv
    <3>2. CASE j % RingSlots = i
      BY <2>2, <2>5, <3>2
    <3>3. CASE j % RingSlots # i
      <4>1. j \in 0..(written - 1)
        BY <1>7, <3>3 DEF FiguresInv, i
      <4>2. QED
        BY <2>6, <3>1, <3>3, <4>1 DEF FiguresInv
    <3>4. QED
      BY <3>2, <3>3
  <2>9. QED
    BY <1>1, <1>2, <1>5, <1>7, <2>5, <2>7, <2>8 DEF FiguresInv
<1>8. QED
  BY <1>6, <1>7 DEF Kill

\* The reader takes the record of a kill, never an unwritten slot.
LEMMA ReadKeeps ==
  ASSUME FiguresInv, Read
  PROVE  FiguresInv'
<1> DEFINE r == slot[taken % RingSlots]
           n == r.kill
<1>1. /\ taken < written /\ taken' = taken + 1
      /\ event' = [event EXCEPT ![n] = CrashEvent(r)]
      /\ UNCHANGED <<layout, victim, slot, written, diag>>
  BY DEF Read
<1>2. n \in Kills
  BY <1>1 DEF FiguresInv
<1>3. victim[n] # None /\ r = RecordOf(n)
  BY <1>2, RingIndex DEF FiguresInv
<1> HIDE DEF r, n
<1>4. \A k \in Kills : RecordOf(k)' = RecordOf(k)
  BY <1>1 DEF RecordOf, Populated
<1>5. \A x : CrashEvent(x)' = CrashEvent(x)
  BY DEF CrashEvent
<1>6. DOMAIN event' = Kills /\ event'[n] = CrashEvent(RecordOf(n))
  BY <1>1, <1>2, <1>3 DEF FiguresInv
<1>7. \A k \in Kills : k # n => event'[k] = event[k]
  BY <1>1, <1>2 DEF FiguresInv
<1>8. \A k \in Kills : event'[k] # None =>
        victim'[k] # None /\ event'[k] = CrashEvent(RecordOf(k))'
  BY <1>1, <1>3, <1>4, <1>5, <1>6, <1>7 DEF FiguresInv
<1>9. \A k \in Kills : diag'[k] # None => event'[k] # None /\ diag'[k] = Diagnostics(event'[k])
  BY <1>1, <1>6, <1>7 DEF FiguresInv
<1>10. /\ written' \in Nat /\ taken' \in Nat /\ victim' \in [Kills -> Victims \cup {None}]
       /\ DOMAIN slot' = 0..(RingSlots - 1) /\ DOMAIN diag' = Kills
       /\ \A j \in 0..(written' - 1) : slot'[j % RingSlots].kill \in Kills
  BY <1>1 DEF FiguresInv
<1>11. \A i \in 0..(RingSlots - 1), k \in Kills : slot'[i].kill = k =>
         victim'[k] # None /\ slot'[i] = RecordOf(k)'
  BY <1>1, <1>4 DEF FiguresInv
<1>12. QED
  BY <1>6, <1>8, <1>9, <1>10, <1>11 DEF FiguresInv

\* Publishing a report keeps the record, the event and the report of a kill in
\* agreement.
LEMMA PublishKeeps ==
  ASSUME FiguresInv, NEW k \in Kills, Publish(k)
  PROVE  FiguresInv'
<1>1. /\ event[k] # None /\ diag' = [diag EXCEPT ![k] = Diagnostics(event[k])]
      /\ UNCHANGED <<layout, victim, slot, written, taken, event>>
  BY DEF Publish
<1>2. DOMAIN diag' = Kills /\ \A n \in Kills :
        diag'[n] # None => event'[n] # None /\ diag'[n] = Diagnostics(event'[n])
  BY <1>1 DEF FiguresInv
<1>3. \A n \in Kills : RecordOf(n)' = RecordOf(n)
  BY <1>1 DEF RecordOf, Populated
<1>4. \A x : CrashEvent(x)' = CrashEvent(x)
  BY DEF CrashEvent
<1>5. QED
  BY <1>1, <1>2, <1>3, <1>4 DEF FiguresInv
\* They agree always.
LEMMA FiguresInductive == FiguresSpec => []FiguresInv
<1>1. FiguresInit => FiguresInv
  BY FiguresInitially DEF FiguresInit
<1>2. FiguresInv /\ [FiguresNext]_figuresVars => FiguresInv'
  <2> SUFFICES ASSUME FiguresInv, [FiguresNext]_figuresVars PROVE FiguresInv'
    OBVIOUS
  <2>1. CASE UNCHANGED probeVars
    <3>1. \A n \in Kills : RecordOf(n)' = RecordOf(n)
      BY <2>1 DEF probeVars, RecordOf, Populated
    <3>2. \A x : CrashEvent(x)' = CrashEvent(x)
      BY DEF CrashEvent
    <3>3. QED
      BY <2>1, <3>1, <3>2 DEF probeVars, FiguresInv
  <2>2. CASE Read
    BY <2>2, ReadKeeps
  <2>3. ASSUME NEW k \in Kills, Publish(k) PROVE FiguresInv'
    BY <2>3, PublishKeeps
  <2>4. ASSUME NEW k \in Kills, NEW v \in Victims, Kill(k, v) PROVE FiguresInv'
    BY <2>4, KillKeeps
  <2>5. QED
    BY <2>1, <2>2, <2>3, <2>4 DEF FiguresNext, ProbeNext, figuresVars
<1>3. QED
  BY <1>1, <1>2, PTL DEF FiguresSpec

-----------------------------------------------------------------------------
\* What a machine can have of a resource, in pages, the three counters together.
MostPages == 3 * (LastKill + Skew)

\* Pages to bytes: bounds are kept.
LEMMA ScaledBound ==
  ASSUME NEW x \in Nat, NEW y \in Nat, NEW p \in Nat, x <= y
  PROVE  x * p \in Nat /\ x * p <= y * p
<1>1. PICK z \in Nat : y = x + z
  BY y - x \in Nat
<1>2. y * p = x * p + z * p /\ z * p \in Nat /\ x * p \in Nat
  BY <1>1
<1>3. QED
  BY <1>2

\* A word that is less than half of the range keeps its value.
LEMMA WordRoundTrip ==
  ASSUME NEW x \in Nat, 2 * x < WordSize
  PROVE  Unsigned(x) = x /\ Signed(x) = x
BY ProbeAssumption DEF Unsigned, Signed

\* The conversion to bytes is exact for what a machine can have.
LEMMA BytesAreExact ==
  ASSUME NEW x \in 0..MostPages
  PROVE  /\ Unsigned(x) = x /\ Signed(x) = x /\ Bytes(x) = x * pageSize
         /\ x * pageSize \in Nat /\ 2 * (x * pageSize) < WordSize
<1>1. x \in Nat /\ MostPages \in Nat /\ x <= MostPages /\ pageSize \in Nat /\ 1 <= pageSize
      /\ WordSize \in Nat
  BY ProbeAssumption DEF MostPages
<1>2. x * pageSize \in Nat /\ x * pageSize <= MostPages * pageSize
  BY <1>1, ScaledBound
<1>3. 2 * (MostPages * pageSize) < WordSize /\ MostPages * pageSize \in Nat
  BY <1>1, WordAssumption DEF MostPages
<1>4. 2 * (x * pageSize) < WordSize
  BY <1>1, <1>2, <1>3
<1>5. x <= x * pageSize
  <2>1. 1 * x <= pageSize * x
    BY <1>1, ScaledBound
  <2>2. QED
    BY <1>1, <2>1
<1>6. 2 * x < WordSize
  BY <1>1, <1>2, <1>4, <1>5
<1>7. QED
  BY <1>1, <1>2, <1>4, <1>6, WordRoundTrip DEF Bytes

\* A counter that is read is near the truth and is never negative.
LEMMA CountIsNear ==
  ASSUME NEW k \in Kills, NEW v \in Victims, NEW c \in Counters
  PROVE  LET n == clamp_counter(ReadCount(k, v, c))
         IN  /\ n \in 0..(LastKill + Skew) /\ trueCount(k, v, c) \in 0..LastKill
             /\ n <= trueCount(k, v, c) + Skew /\ trueCount(k, v, c) <= n + Skew
<1> DEFINE t == trueCount(k, v, c)
           x == ReadCount(k, v, c)
<1>1. t \in 0..LastKill /\ LastKill \in Nat /\ Skew \in Nat
  BY ProbeAssumption DEF trueCount, Kills
<1>2. v.delta[c] \in (-Skew)..Skew
  BY ProbeAssumption DEF Counters
<1>3. x \in Int /\ t - Skew <= x /\ x <= t + Skew
  BY <1>1, <1>2 DEF ReadCount
<1> HIDE DEF t, x
<1>4. CASE x < 0
  BY <1>1, <1>3, <1>4 DEF clamp_counter, t, x
<1>5. CASE ~(x < 0)
  <2>1. x \in 0..MostPages
    BY <1>1, <1>3, <1>5 DEF MostPages
  <2>2. Unsigned(x) = x
    BY <2>1, BytesAreExact
  <2>3. QED
    BY <1>1, <1>3, <1>5, <2>2 DEF clamp_counter, t, x
<1>6. QED
  BY <1>4, <1>5

\* Pages to bytes: distances are kept.
LEMMA ScaledWithin ==
  ASSUME NEW x \in Nat, NEW y \in Nat, NEW d \in Nat, NEW p \in Nat,
         x <= y + d, y <= x + d
  PROVE  Within(x * p, y * p, d * p)
<1>1. x * p <= (y + d) * p /\ y * p <= (x + d) * p
  BY ScaledBound
<1>2. (y + d) * p = y * p + d * p /\ (x + d) * p = x * p + d * p
  OBVIOUS
<1>3. x * p \in Nat /\ y * p \in Nat /\ d * p \in Nat
  BY ScaledBound
<1>4. QED
  BY <1>1, <1>2, <1>3 DEF Within

\* The figures of a victim whose counters could be read: each near the truth, and
\* their sum the RSS, none of them wrapped.
LEMMA FiguresAreNear ==
  ASSUME NEW k \in Kills, NEW v \in Victims,
         NEW pages, pages = [c \in Counters |-> clamp_counter(ReadCount(k, v, c))],
         NEW rss, rss = [c \in Counters |-> Bytes(pages[c])]
  PROVE  /\ \A c \in Counters :
              rss[c] >= 0 /\ Within(rss[c], trueCount(k, v, c) * pageSize, Skew * pageSize)
         /\ Signed(Unsigned(rss["anon"] + rss["file"] + rss["shmem"])) =
              rss["anon"] + rss["file"] + rss["shmem"]
<1>1. \A c \in Counters :
        /\ pages[c] \in 0..(LastKill + Skew) /\ trueCount(k, v, c) \in 0..LastKill
        /\ pages[c] <= trueCount(k, v, c) + Skew /\ trueCount(k, v, c) <= pages[c] + Skew
  BY CountIsNear
<1>2. LastKill \in Nat /\ Skew \in Nat /\ pageSize \in Nat
  BY ProbeAssumption
<1>3. \A c \in Counters : pages[c] \in 0..MostPages
  BY <1>1, <1>2 DEF MostPages
<1>4. \A c \in Counters : rss[c] = pages[c] * pageSize /\ rss[c] \in Nat
  BY <1>3, BytesAreExact
<1>5. ASSUME NEW c \in Counters
      PROVE  rss[c] >= 0 /\ Within(rss[c], trueCount(k, v, c) * pageSize, Skew * pageSize)
  <2>1. /\ pages[c] \in Nat /\ trueCount(k, v, c) \in Nat
        /\ pages[c] <= trueCount(k, v, c) + Skew /\ trueCount(k, v, c) <= pages[c] + Skew
    BY <1>1
  <2>2. Within(pages[c] * pageSize, trueCount(k, v, c) * pageSize, Skew * pageSize)
    BY <1>2, <2>1, ScaledWithin
  <2>3. QED
    BY <1>4, <2>2
<1>6. Signed(Unsigned(rss["anon"] + rss["file"] + rss["shmem"])) =
        rss["anon"] + rss["file"] + rss["shmem"]
  <2> DEFINE a == pages["anon"]
             f == pages["file"]
             s == pages["shmem"]
  <2>1. a \in 0..(LastKill + Skew) /\ f \in 0..(LastKill + Skew) /\ s \in 0..(LastKill + Skew)
    BY <1>1 DEF Counters
  <2>2. /\ rss["anon"] = a * pageSize /\ rss["file"] = f * pageSize
        /\ rss["shmem"] = s * pageSize
    BY <1>4 DEF Counters
  <2> HIDE DEF a, f, s
  <2>3. a + f + s \in 0..MostPages
    BY <1>2, <2>1 DEF MostPages
  <2>4. rss["anon"] + rss["file"] + rss["shmem"] = (a + f + s) * pageSize
    BY <1>2, <2>1, <2>2
  <2>5. QED
    BY <2>3, <2>4, BytesAreExact, WordRoundTrip
<1>7. QED
  BY <1>5, <1>6

\* What the reports say is what the kernel knew, for every victim the probe may
\* find, every kernel layout and every size of the ring.
THEOREM FiguresAreTrue == FiguresSpec => []PublishedIsTrue
<1>1. FiguresInv => PublishedIsTrue
  <2> SUFFICES ASSUME FiguresInv, NEW k \in Kills, diag[k] # None
               PROVE  LET v == victim[k]
                          d == diag[k]
                      IN  /\ d.comm = v.comm /\ d.score = k /\ d.scope = scopeOf(k) * pageSize
                          /\ d.context = IF v.memcg THEN "ContainerLimit" ELSE "NodeExhaustion"
                          /\ d.adj = IF v.sig THEN adjOf(k) ELSE 0
                          /\ event[k].container = IF v.chain = 5 THEN k ELSE 0
                          /\ IF v.mm /\ layout # "other"
                               THEN LET rss == d.dissection[1]
                                    IN  /\ d.dissection[2] = k
                                        /\ d.victimRSS = rss["anon"] + rss["file"] + rss["shmem"]
                                        /\ \A c \in Counters :
                                             /\ rss[c] >= 0
                                             /\ Within(rss[c], trueCount(k, v, c) * pageSize,
                                                       Skew * pageSize)
                               ELSE d.dissection = <<>> /\ d.victimRSS = 0
    BY DEF PublishedIsTrue
  <2> DEFINE v == victim[k]
             r == RecordOf(k)
             e == event[k]
             d == diag[k]
             counted == v.mm /\ layout # "other"
             rss == [c \in Counters |-> Bytes(r.pages[c])]
  <2>1. v \in Victims /\ e = CrashEvent(r) /\ d = Diagnostics(e)
    BY DEF FiguresInv
  <2>2. /\ r.comm = v.comm /\ r.score = k
        /\ r.adj = (IF v.sig THEN adjOf(k) ELSE 0)
        /\ r.scope = Unsigned(scopeOf(k)) /\ r.global = ~v.memcg
        /\ r.pgtables = (IF v.mm THEN Unsigned(k) ELSE 0)
        /\ r.pages = (IF counted
                        THEN [c \in Counters |-> clamp_counter(ReadCount(k, v, c))]
                        ELSE [c \in Counters |-> 0])
        /\ r.valid = (IF counted THEN TRUE ELSE FALSE)
        /\ r.name = (IF v.chain >= 5 THEN k ELSE 0)
    <3>1. r = Populated(ZeroRecord, k, v)
      BY DEF RecordOf
    <3> HIDE DEF r, v
    <3>2. QED
      BY <3>1 DEF Populated, ZeroRecord
  <2> HIDE DEF r
  <2>3. /\ e.comm = r.comm /\ e.adj = r.adj /\ e.score = r.score /\ e.scope = Bytes(r.scope)
        /\ e.global = r.global /\ e.container = r.name /\ e.pgtables = Signed(r.pgtables)
        /\ e.rss = rss /\ e.valid = r.valid
        /\ e.victimRSS = Signed(Unsigned(rss["anon"] + rss["file"] + rss["shmem"]))
    BY <2>1 DEF CrashEvent
  <2> HIDE DEF e, v
  <2>4. /\ d.comm = e.comm /\ d.score = e.score /\ d.scope = e.scope /\ d.adj = e.adj
        /\ d.context = (IF e.global THEN "NodeExhaustion" ELSE "ContainerLimit")
        /\ d.victimRSS = (IF e.valid THEN e.victimRSS ELSE 0)
        /\ d.dissection = (IF e.valid THEN <<e.rss, e.pgtables>> ELSE <<>>)
    BY <2>1 DEF Diagnostics
  <2> HIDE DEF d
  <2>5. k \in 0..MostPages /\ scopeOf(k) \in 0..MostPages
    BY ProbeAssumption DEF Kills, MostPages, scopeOf
  <2>6. /\ Unsigned(k) = k /\ Signed(k) = k
        /\ Unsigned(scopeOf(k)) = scopeOf(k) /\ Bytes(scopeOf(k)) = scopeOf(k) * pageSize
    BY <2>5, BytesAreExact
  <2>7. d.comm = v.comm /\ d.score = k /\ d.scope = scopeOf(k) * pageSize
    BY <2>2, <2>3, <2>4, <2>6
  <2>8. d.adj = IF v.sig THEN adjOf(k) ELSE 0
    BY <2>2, <2>3, <2>4
  <2>9. d.context = IF v.memcg THEN "ContainerLimit" ELSE "NodeExhaustion"
    <3>1. v.memcg \in BOOLEAN
      BY <2>1, ProbeAssumption
    <3>2. QED
      BY <2>2, <2>3, <2>4, <3>1
  <2>10. e.container = IF v.chain = 5 THEN k ELSE 0
    <3>1. v.chain \in 0..5
      BY <2>1, ProbeAssumption
    <3>2. QED
      BY <2>2, <2>3, <3>1
  <2>11. CASE counted
    <3>1. v.mm /\ e.valid
      BY <2>2, <2>3, <2>11
    <3>2. d.dissection[1] = rss /\ d.dissection[2] = k
      <4>1. e.rss = rss /\ e.pgtables = k
        BY <2>2, <2>3, <2>6, <3>1, SMTT(60)
      <4>2. d.dissection = <<e.rss, e.pgtables>>
        BY <2>4, <3>1
      <4> HIDE DEF rss
      <4>3. QED
        BY <4>1, <4>2
    <3>3. r.pages = [c \in Counters |-> clamp_counter(ReadCount(k, v, c))]
      BY <2>2, <2>11
    <3> HIDE DEF rss
    <3>4. /\ \A c \in Counters :
               rss[c] >= 0 /\ Within(rss[c], trueCount(k, v, c) * pageSize, Skew * pageSize)
          /\ Signed(Unsigned(rss["anon"] + rss["file"] + rss["shmem"])) =
               rss["anon"] + rss["file"] + rss["shmem"]
      BY <2>1, <3>3, FiguresAreNear DEF rss
    <3>5. d.victimRSS = rss["anon"] + rss["file"] + rss["shmem"]
      BY <2>3, <2>4, <3>1, <3>4
    <3>6. QED
      BY <2>7, <2>8, <2>9, <2>10, <2>11, <3>2, <3>4, <3>5 DEF e, v, d
  <2>12. CASE ~counted
    <3>1. ~e.valid
      BY <2>2, <2>3, <2>12
    <3>2. d.dissection = <<>> /\ d.victimRSS = 0
      BY <2>4, <3>1
    <3>3. QED
      BY <2>7, <2>8, <2>9, <2>10, <2>12, <3>2 DEF e, v, d
  <2>13. QED
    BY <2>11, <2>12
<1>2. QED
  BY <1>1, FiguresInductive, PTL
=============================================================================
