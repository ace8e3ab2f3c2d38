-------------------------- MODULE LogFramingProofs --------------------------
(***************************************************************************)
(* What CaptureLogTail makes of the lines once it has them, for any number *)
(* of lines of any kind: parseLogLines loses none, and splices no two      *)
(* streams.                                                                *)
(***************************************************************************)
EXTENDS LogTailProofs

-----------------------------------------------------------------------------
\* parseLogLines.

AllStreams == Streams \cup {unframed}

\* The lines read so far that no full line of their stream has followed yet.
OpenSet(s) ==
  {i \in 1..(nextRaw - 1) :
     raw[i].stream = s /\ \A k \in i..(nextRaw - 1) : raw[k].stream = s => raw[k].partial}

\* The full lines read so far, and the lines they complete.
Full == {i \in 1..(nextRaw - 1) : ~raw[i].partial}

Completed == [l \in 1..Cardinality(Full) |-> LineOf(InOrder(Full)[l])]

FramingInv ==
  /\ raw \in Seq(RawLines) /\ nextRaw \in 1..(Len(raw) + 1)
  /\ partials = [s \in AllStreams |-> InOrder(OpenSet(s))]
  /\ framingDone \in BOOLEAN
  /\ ~framingDone => parsed = Completed
  /\ framingDone => /\ nextRaw = Len(raw) + 1
                    /\ parsed = Completed \o Open("stderr") \o Open("stdout")

IsJoin(u, X, s, t) ==
  /\ u \in Seq(X) /\ Len(u) = Len(s) + Len(t)
  /\ \A i \in 1..Len(s) : u[i] = s[i]
  /\ \A i \in 1..Len(t) : u[Len(s) + i] = t[i]

\* The places of a concatenation.
LEMMA JoinedSeq ==
  ASSUME NEW X, NEW s \in Seq(X), NEW t \in Seq(X)
  PROVE  IsJoin(s \o t, X, s, t)
BY DEF IsJoin

\* Nothing, in order.
LEMMA InOrderEmpty == Positions({}) /\ InOrder({}) = <<>>
<1>1. Positions({})
  BY FS_EmptySet DEF Positions
<1>2. Cardinality({}) = 0
  BY FS_EmptySet
<1>3. InOrder({}) \in Seq(Nat) /\ Len(InOrder({})) = 0
  BY <1>1, <1>2, InOrderType
<1>4. QED
  BY <1>1, <1>3

\* A member greater than all others comes last.
LEMMA InOrderAppend ==
  ASSUME NEW S, Positions(S), NEW j \in Nat, \A x \in S : x < j
  PROVE  Positions(S \cup {j}) /\ InOrder(S \cup {j}) = Append(InOrder(S), j)
<1> DEFINE n == Cardinality(S)
           g == InOrder(S)
           f == Append(g, j)
<1>1. n \in Nat /\ g \in [1..n -> S] /\ g \in Seq(Nat) /\ Len(g) = n /\ S \subseteq Nat
  BY InOrderPlaces, InOrderType, Zenon DEF Positions
<1>2. \A i, k \in 1..n : i < k => g[i] < g[k]
  BY InOrderGrows
<1>3. \A x \in S : \E k \in 1..n : g[k] = x
  BY InOrderPlaces
<1> HIDE DEF n, g
<1>4. /\ f \in Seq(Nat) /\ Len(f) = n + 1 /\ f[n + 1] = j
      /\ \A i \in 1..n : f[i] = g[i]
  BY <1>1
<1> HIDE DEF f
<1>5. n + 1 \in Nat /\ f \in [1..(n + 1) -> Nat] /\ \A i \in 1..(n + 1) : i \in 1..n \/ i = n + 1
  BY <1>1, <1>4
<1>6. \A i, k \in 1..(n + 1) : i < k => f[i] < f[k]
  <2> SUFFICES ASSUME NEW i \in 1..(n + 1), NEW k \in 1..(n + 1), i < k PROVE f[i] < f[k]
    OBVIOUS
  <2>1. i \in 1..n
    BY <1>1
  <2>2. CASE k \in 1..n
    BY <1>2, <1>4, <2>1, <2>2
  <2>3. CASE k = n + 1
    BY <1>1, <1>4, <2>1, <2>3
  <2>4. QED
    BY <1>5, <2>2, <2>3
<1>7. S \cup {j} = {f[i] : i \in 1..(n + 1)}
  <2>1. ASSUME NEW x \in S \cup {j} PROVE \E i \in 1..(n + 1) : f[i] = x
    <3>1. CASE x \in S
      <4>1. PICK k \in 1..n : g[k] = x
        BY <1>3, <3>1
      <4>2. k \in 1..(n + 1) /\ f[k] = x
        BY <1>1, <1>4, <4>1
      <4>3. QED
        BY <4>2
    <3>2. CASE x = j
      <4>1. n + 1 \in 1..(n + 1)
        BY <1>1
      <4>2. QED
        BY <1>4, <3>2, <4>1
    <3>3. QED
      BY <3>1, <3>2
  <2>2. ASSUME NEW i \in 1..(n + 1) PROVE f[i] \in S \cup {j}
    BY <1>1, <1>4, <1>5
  <2>3. QED
    BY <2>1, <2>2
<1>8. QED
  BY <1>5, <1>6, <1>7, GrowingIsInOrder, Zenon DEF f, g

\* What has been read are lines of the log.
LEMMA FramingSets ==
  ASSUME raw \in Seq(RawLines), nextRaw \in 1..(Len(raw) + 1)
  PROVE  /\ Positions(Full) /\ Full \subseteq 1..(nextRaw - 1)
         /\ \A s : Positions(OpenSet(s)) /\ OpenSet(s) \subseteq 1..(nextRaw - 1)
         /\ nextRaw - 1 \in 0..Len(raw)
<1>1. Len(raw) \in Nat
  OBVIOUS
<1>2. nextRaw - 1 \in Nat /\ nextRaw - 1 \in 0..Len(raw)
  BY <1>1
<1>3. Full \subseteq 1..(nextRaw - 1)
  BY DEF Full
<1>4. \A s : OpenSet(s) \subseteq 1..(nextRaw - 1)
  BY DEF OpenSet
<1>5. QED
  BY <1>2, <1>3, <1>4, IntervalPositions, Zenon

\* The messages of the line that raw line j ends.
LinesBefore(j) == {i \in 1..j : Before(i, j)}

\* A line ends with the raw line that completes it.
LEMMA LineEndsIt ==
  ASSUME raw \in Seq(RawLines), NEW j \in 1..Len(raw)
  PROVE  /\ Positions(LinesBefore(j)) /\ LineOf(j) = InOrder(LinesBefore(j))
         /\ LineOf(j) \in Seq(Nat) /\ LineOf(j) # <<>> /\ Last(LineOf(j)) = j
<1> DEFINE T == LinesBefore(j) \ {j}
<1>1. j \in Nat /\ LinesBefore(j) \subseteq 1..j /\ j \in LinesBefore(j)
  BY DEF LinesBefore, Before
<1>2. Positions(LinesBefore(j))
  BY <1>1, IntervalPositions
<1>3. T \subseteq 1..j /\ \A x \in T : x < j
  BY <1>1
<1>4. LinesBefore(j) = T \cup {j}
  BY <1>1
<1> HIDE DEF T
<1>5. Positions(T)
  BY <1>1, <1>3, IntervalPositions, Zenon
<1>6. InOrder(LinesBefore(j)) = Append(InOrder(T), j) /\ InOrder(T) \in Seq(Nat)
  BY <1>1, <1>3, <1>4, <1>5, InOrderAppend, InOrderType, Zenon
<1>7. LineOf(j) = InOrder(LinesBefore(j))
  BY DEF LineOf, LinesBefore
<1>8. LineOf(j) \in Seq(Nat) /\ Len(LineOf(j)) = Len(InOrder(T)) + 1 /\ Len(InOrder(T)) \in Nat
      /\ LineOf(j)[Len(InOrder(T)) + 1] = j
  BY <1>1, <1>6, <1>7
<1>9. LineOf(j) # <<>> /\ Last(LineOf(j)) = j
  BY <1>8 DEF Last
<1>10. QED
  BY <1>2, <1>7, <1>8, <1>9

\* The invariant holds before the first raw line,
LEMMA FramingStarts ==
  ASSUME raw \in Seq(RawLines), nextRaw = 1, partials = NoPartials, parsed = <<>>,
         framingDone = FALSE
  PROVE  FramingInv
<1>1. Len(raw) \in Nat /\ nextRaw \in 1..(Len(raw) + 1)
  OBVIOUS
<1>2. \A s : OpenSet(s) = {}
  BY DEF OpenSet
<1>3. Full = {}
  BY DEF Full
<1>4. partials = [s \in AllStreams |-> InOrder(OpenSet(s))]
  BY <1>2, InOrderEmpty, Zenon DEF NoPartials, AllStreams
<1>5. Completed = <<>>
  BY <1>3, FS_EmptySet DEF Completed
<1>6. QED
  BY <1>1, <1>4, <1>5, Zenon DEF FramingInv

\* also in a later call.
LEMMA FramingRestarts ==
  ASSUME NEW n \in Nat, Parse(n)
  PROVE  FramingInv'
<1>1. raw' \in Seq(RawLines) /\ nextRaw' = 1 /\ partials' = NoPartials /\ parsed' = <<>>
      /\ framingDone' = FALSE
  BY DEF Parse
<1>2. Len(raw') \in Nat /\ nextRaw' \in 1..(Len(raw') + 1)
  BY <1>1
<1>3. ASSUME NEW s PROVE OpenSet(s)' = {}
  BY <1>1 DEF OpenSet
<1>4. Full' = {}
  BY <1>1 DEF Full
<1>5. partials' = [s \in AllStreams |-> InOrder(OpenSet(s)')]
  BY <1>1, <1>3, InOrderEmpty, Zenon DEF NoPartials, AllStreams
<1>6. Completed' = <<>>
  BY <1>4, FS_EmptySet DEF Completed
<1>7. QED
  BY <1>1, <1>2, <1>5, <1>6, Zenon DEF FramingInv, AllStreams

\* Reading one more line changes what is open on its stream only.
LEMMA OpenStep ==
  ASSUME FramingInv, Reading, nextRaw' = nextRaw + 1, raw' = raw,
         NEW t, t = Stream, NEW j, j = nextRaw
  PROVE  /\ \A s : s # t => OpenSet(s)' = OpenSet(s)
         /\ raw[j].partial => OpenSet(t)' = OpenSet(t) \cup {j}
         /\ ~raw[j].partial => OpenSet(t)' = {}
         /\ Full' = IF raw[j].partial THEN Full ELSE Full \cup {j}
         /\ LinesBefore(j) = OpenSet(t) \cup {j}
<1>1. j \in Nat \ {0} /\ j <= Len(raw) /\ (j + 1) - 1 = j /\ nextRaw' = j + 1 /\ raw' = raw
      /\ raw[j].stream = t
  BY DEF FramingInv, Reading, Stream
<1>2. \A i : i \in 1..j <=> i \in 1..(j - 1) \/ i = j
  BY <1>1
<1>3. \A i \in 1..(j - 1) : \A k : k \in i..j <=> k \in i..(j - 1) \/ k = j
  BY <1>1
<1>4. \A k : k \in j..j <=> k = j
  BY <1>1
<1>5. ASSUME NEW s
      PROVE  /\ OpenSet(s)' = {i \in 1..j : raw[i].stream = s /\ \A k \in i..j : raw[k].stream = s => raw[k].partial}
             /\ OpenSet(s) = {i \in 1..(j - 1) : raw[i].stream = s /\ \A k \in i..(j - 1) : raw[k].stream = s => raw[k].partial}
  BY <1>1 DEF OpenSet
<1>6. Full' = {i \in 1..j : ~raw[i].partial} /\ Full = {i \in 1..(j - 1) : ~raw[i].partial}
  BY <1>1 DEF Full
<1>7. ASSUME NEW s, s # t PROVE OpenSet(s)' = OpenSet(s)
  <2>1. raw[j].stream # s
    BY <1>1, <1>7
  <2>2. \A i \in 1..(j - 1) : (\A k \in i..j : raw[k].stream = s => raw[k].partial)
          <=> (\A k \in i..(j - 1) : raw[k].stream = s => raw[k].partial)
    BY <1>3, <2>1, Zenon
  <2>3. QED
    BY <1>2, <1>5, <2>1, <2>2
<1>8. ASSUME raw[j].partial PROVE OpenSet(t)' = OpenSet(t) \cup {j}
  <2>1. \A k \in j..j : raw[k].stream = t => raw[k].partial
    BY <1>4, <1>8, Zenon
  <2>2. \A i \in 1..(j - 1) : (\A k \in i..j : raw[k].stream = t => raw[k].partial)
          <=> (\A k \in i..(j - 1) : raw[k].stream = t => raw[k].partial)
    BY <1>3, <1>8, Zenon
  <2>3. QED
    BY <1>1, <1>2, <1>5, <2>1, <2>2, Zenon
<1>9. ASSUME ~raw[j].partial PROVE OpenSet(t)' = {}
  <2>1. \A i \in 1..j : j \in i..j
    BY <1>1
  <2>2. QED
    BY <1>1, <1>5, <1>9, <2>1
<1>10. Full' = IF raw[j].partial THEN Full ELSE Full \cup {j}
  BY <1>2, <1>6, Zenon
<1>11. LinesBefore(j) = OpenSet(t) \cup {j}
  <2>1. \A i \in 1..j : i <= j
    BY <1>1
  <2>2. \A i \in 1..j : Before(i, j) <=>
          raw[i].stream = t /\ \A k \in i..(j - 1) : raw[k].stream = t => raw[k].partial
    BY <1>1, <2>1 DEF Before
  <2>3. \A k : k \notin j..(j - 1)
    BY <1>1
  <2>4. QED
    BY <1>1, <1>2, <1>5, <2>2, <2>3, Zenon DEF LinesBefore
<1>12. QED
  BY <1>7, <1>8, <1>9, <1>10, <1>11

\* The completed lines, one for each full raw line.
LEMMA CompletedType ==
  ASSUME raw \in Seq(RawLines), nextRaw \in 1..(Len(raw) + 1)
  PROVE  /\ Cardinality(Full) \in Nat
         /\ Completed \in Seq(Seq(Nat)) /\ Len(Completed) = Cardinality(Full)
         /\ \A l \in 1..Cardinality(Full) :
              /\ InOrder(Full)[l] \in Full /\ InOrder(Full)[l] \in 1..Len(raw)
              /\ Completed[l] = LineOf(InOrder(Full)[l])
<1>1. Positions(Full) /\ Full \subseteq 1..(nextRaw - 1) /\ nextRaw - 1 \in 0..Len(raw)
      /\ Len(raw) \in Nat
  BY FramingSets
<1>2. Cardinality(Full) \in Nat /\ \A l \in 1..Cardinality(Full) : InOrder(Full)[l] \in Full
  BY <1>1, InOrderPlaces
<1>3. \A l \in 1..Cardinality(Full) : InOrder(Full)[l] \in 1..Len(raw)
  <2>1. Full \subseteq 1..Len(raw)
    BY <1>1
  <2>2. QED
    BY <1>2, <2>1, Zenon
<1>4. \A l \in 1..Cardinality(Full) : LineOf(InOrder(Full)[l]) \in Seq(Nat)
  BY <1>3, LineEndsIt
<1> DEFINE c == Cardinality(Full)
           e(l) == LineOf(InOrder(Full)[l])
<1>5. Completed = [l \in 1..c |-> e(l)] /\ c \in Nat /\ \A l \in 1..c : e(l) \in Seq(Nat)
  BY <1>2, <1>4 DEF Completed
<1> HIDE DEF c, e
<1>6. Completed \in Seq(Seq(Nat)) /\ Len(Completed) = c /\ \A l \in 1..c : Completed[l] = e(l)
  BY <1>5
<1>7. QED
  BY <1>2, <1>3, <1>6, Zenon DEF c, e

\* A partial line joins the ones open on its stream.
LEMMA HoldKeeps ==
  ASSUME FramingInv, Hold PROVE FramingInv'
<1>1. PICK t : t = Stream
  OBVIOUS
<1>2. PICK j : j = nextRaw
  OBVIOUS
<1>3. /\ Reading /\ raw[j].partial /\ nextRaw' = j + 1
      /\ partials' = [partials EXCEPT ![t] = Append(@, j)]
      /\ raw' = raw /\ parsed' = parsed /\ framingDone' = framingDone
  BY <1>1, <1>2 DEF Hold
<1>4. /\ raw \in Seq(RawLines) /\ j \in 1..(Len(raw) + 1) /\ Len(raw) \in Nat
      /\ partials = [s \in AllStreams |-> InOrder(OpenSet(s))] /\ framingDone \in BOOLEAN
  BY <1>2 DEF FramingInv
<1>5. j \in 1..Len(raw) /\ j + 1 \in 1..(Len(raw) + 1) /\ ~framingDone /\ j \in Nat
  BY <1>2, <1>3, <1>4 DEF FramingInv, Reading
<1>6. /\ \A s : s # t => OpenSet(s)' = OpenSet(s)
      /\ OpenSet(t)' = OpenSet(t) \cup {j} /\ Full' = Full
  BY <1>1, <1>2, <1>3, OpenStep
<1>7. InOrder(OpenSet(t)') = Append(InOrder(OpenSet(t)), j)
  <2>1. Positions(OpenSet(t)) /\ OpenSet(t) \subseteq 1..(j - 1)
    BY <1>2, <1>4, FramingSets
  <2>2. \A x \in OpenSet(t) : x < j
    BY <1>5, <2>1
  <2>3. QED
    BY <1>5, <1>6, <2>1, <2>2, InOrderAppend, Zenon
<1>8. t \in AllStreams
  <2>1. raw[j] \in RawLines
    BY <1>4, <1>5
  <2>2. QED
    BY <1>1, <1>2, <2>1, Zenon DEF Stream, RawLines, AllStreams
<1>9. partials' = [s \in AllStreams |-> InOrder(OpenSet(s)')]
  <2>1. DOMAIN partials = AllStreams /\ partials[t] = InOrder(OpenSet(t))
    BY <1>4, <1>8
  <2>2. partials' = [s \in AllStreams |-> IF s = t THEN Append(InOrder(OpenSet(t)), j) ELSE partials[s]]
    BY <1>3, <2>1, Zenon
  <2>3. ASSUME NEW s \in AllStreams
        PROVE  InOrder(OpenSet(s)') = IF s = t THEN Append(InOrder(OpenSet(t)), j) ELSE partials[s]
    BY <1>4, <1>6, <1>7, Zenon
  <2>4. QED
    BY <2>2, <2>3, Zenon
<1>10. Completed' = Completed
  BY <1>3, <1>6 DEF Completed, LineOf, Before
<1>11. parsed' = Completed'
  BY <1>3, <1>5, <1>10 DEF FramingInv
<1>12. AllStreams' = AllStreams
  BY DEF AllStreams
<1>13. QED
  BY <1>2, <1>3, <1>4, <1>5, <1>9, <1>11, <1>12, Zenon DEF FramingInv

\* A full line completes exactly what is open on its stream.
LEMMA FlushKeeps ==
  ASSUME FramingInv, Flush PROVE FramingInv'
<1>1. PICK t : t = Stream
  OBVIOUS
<1>2. PICK j : j = nextRaw
  OBVIOUS
<1>3. /\ Reading /\ ~raw[j].partial /\ nextRaw' = j + 1
      /\ parsed' = Append(parsed, Append(partials[t], j))
      /\ partials' = [partials EXCEPT ![t] = <<>>]
      /\ raw' = raw /\ framingDone' = framingDone
  BY <1>1, <1>2 DEF Flush
<1>4. /\ raw \in Seq(RawLines) /\ j \in 1..(Len(raw) + 1) /\ Len(raw) \in Nat
      /\ partials = [s \in AllStreams |-> InOrder(OpenSet(s))] /\ framingDone \in BOOLEAN
  BY <1>2 DEF FramingInv
<1>5. j \in 1..Len(raw) /\ j + 1 \in 1..(Len(raw) + 1) /\ ~framingDone /\ j \in Nat
      /\ parsed = Completed
  BY <1>2, <1>3, <1>4 DEF FramingInv, Reading
<1>6. /\ \A s : s # t => OpenSet(s)' = OpenSet(s)
      /\ OpenSet(t)' = {} /\ Full' = Full \cup {j} /\ LinesBefore(j) = OpenSet(t) \cup {j}
  BY <1>1, <1>2, <1>3, OpenStep
<1>7. LineOf(j) = Append(InOrder(OpenSet(t)), j)
  <2>1. Positions(OpenSet(t)) /\ OpenSet(t) \subseteq 1..(j - 1)
    BY <1>2, <1>4, FramingSets
  <2>2. \A x \in OpenSet(t) : x < j
    BY <1>5, <2>1
  <2>3. InOrder(LinesBefore(j)) = Append(InOrder(OpenSet(t)), j)
    BY <1>5, <1>6, <2>1, <2>2, InOrderAppend, Zenon
  <2>4. QED
    BY <1>4, <1>5, <2>3, LineEndsIt
<1>8. t \in AllStreams
  <2>1. raw[j] \in RawLines
    BY <1>4, <1>5
  <2>2. QED
    BY <1>1, <1>2, <2>1, Zenon DEF Stream, RawLines, AllStreams
<1>9. DOMAIN partials = AllStreams /\ partials[t] = InOrder(OpenSet(t))
  BY <1>4, <1>8
<1>10. partials' = [s \in AllStreams |-> InOrder(OpenSet(s)')]
  <2>1. partials' = [s \in AllStreams |-> IF s = t THEN <<>> ELSE partials[s]]
    BY <1>3, <1>9, Zenon
  <2>2. ASSUME NEW s \in AllStreams
        PROVE  InOrder(OpenSet(s)') = IF s = t THEN <<>> ELSE partials[s]
    BY <1>4, <1>6, InOrderEmpty, Zenon
  <2>3. QED
    BY <2>1, <2>2, Zenon
<1>11. Completed' = Append(Completed, LineOf(j))
  <2> DEFINE c == Cardinality(Full)
             g == InOrder(Full)
  <2>1. Positions(Full) /\ \A x \in Full : x < j
    BY <1>2, <1>4, <1>5, FramingSets
  <2>2. Positions(Full \cup {j}) /\ InOrder(Full \cup {j}) = Append(g, j)
    BY <1>5, <2>1, InOrderAppend, Zenon
  <2>3. c \in Nat /\ g \in Seq(Nat) /\ Len(g) = c
    BY <2>1, InOrderPlaces, InOrderType
  <2>4. Cardinality(Full \cup {j}) = c + 1
    <3>1. Len(InOrder(Full \cup {j})) = Cardinality(Full \cup {j})
      BY <2>2, InOrderType
    <3>2. Len(Append(g, j)) = c + 1
      BY <1>5, <2>3
    <3>3. QED
      BY <2>2, <3>1, <3>2
  <2>5. Completed' = [l \in 1..Cardinality(Full') |-> LineOf(InOrder(Full')[l])]
    BY <1>3 DEF Completed, LineOf, Before
  <2>6. Completed' = [l \in 1..(c + 1) |-> LineOf(Append(g, j)[l])]
    BY <1>6, <2>2, <2>4, <2>5, Zenon
  <2>7. Completed = [l \in 1..c |-> LineOf(g[l])]
    BY DEF Completed
  <2> HIDE DEF c, g
  <2>8. \A l \in 1..(c + 1) : Append(g, j)[l] = IF l \in 1..c THEN g[l] ELSE j
    BY <1>5, <2>3
  <2>9. Completed' = [l \in 1..(c + 1) |-> IF l \in 1..c THEN LineOf(g[l]) ELSE LineOf(j)]
    BY <2>6, <2>8, Zenon
  <2>10. QED
    BY <2>3, <2>7, <2>9
<1>12. parsed' = Completed'
  BY <1>3, <1>5, <1>7, <1>9, <1>11
<1>13. AllStreams' = AllStreams
  BY DEF AllStreams
<1>14. QED
  BY <1>2, <1>3, <1>4, <1>5, <1>10, <1>12, <1>13, Zenon DEF FramingInv

\* What is open at the end comes after the completed lines.
LEMMA EmitOpenKeeps ==
  ASSUME FramingInv, EmitOpen PROVE FramingInv'
<1>1. /\ ~Reading /\ ~framingDone /\ parsed' = parsed \o Open("stderr") \o Open("stdout")
      /\ framingDone' = TRUE /\ raw' = raw /\ nextRaw' = nextRaw /\ partials' = partials
  BY DEF EmitOpen
<1>2. /\ raw \in Seq(RawLines) /\ nextRaw \in 1..(Len(raw) + 1) /\ Len(raw) \in Nat
      /\ partials = [s \in AllStreams |-> InOrder(OpenSet(s))] /\ parsed = Completed
  BY <1>1 DEF FramingInv
<1>3. nextRaw = Len(raw) + 1
  BY <1>1, <1>2 DEF Reading
<1>4. ASSUME NEW s PROVE OpenSet(s)' = OpenSet(s) /\ Open(s)' = Open(s)
  BY <1>1 DEF OpenSet, Open
<1>5. Completed' = Completed /\ AllStreams' = AllStreams
  BY <1>1 DEF Completed, Full, LineOf, Before, AllStreams
<1>6. partials' = [s \in AllStreams |-> InOrder(OpenSet(s)')]
  BY <1>1, <1>2, <1>4, Zenon
<1>7. parsed' = Completed' \o Open("stderr")' \o Open("stdout")'
  <2>1. Open("stderr")' = Open("stderr") /\ Open("stdout")' = Open("stdout")
    BY <1>1, Zenon DEF Open
  <2>2. QED
    BY <1>1, <1>2, <1>5, <2>1, Zenon
<1>8. QED
  BY <1>1, <1>2, <1>3, <1>5, <1>6, <1>7, Zenon DEF FramingInv

\* What is open on a stream is the line its latest raw line would end.
LEMMA OpenIsLine ==
  ASSUME FramingInv, NEW s, OpenSet(s) # {}
  PROVE  \E M \in OpenSet(s) : /\ M \in 1..Len(raw) /\ raw[M].partial
                               /\ OpenSet(s) = LinesBefore(M)
<1>1. /\ raw \in Seq(RawLines) /\ nextRaw \in 1..(Len(raw) + 1) /\ Len(raw) \in Nat
      /\ nextRaw - 1 \in Nat /\ nextRaw - 1 <= Len(raw)
  BY DEF FramingInv
<1>2. Positions(OpenSet(s)) /\ OpenSet(s) \subseteq 1..(nextRaw - 1)
  BY <1>1, FramingSets
<1>3. PICK M \in OpenSet(s) : \A x \in OpenSet(s) : x <= M
  BY <1>2, LastIsGreatest
<1>4. M \in 1..(nextRaw - 1) /\ M \in 1..Len(raw)
  BY <1>1, <1>2
<1>5. raw[M].stream = s /\ \A k \in M..(nextRaw - 1) : raw[k].stream = s => raw[k].partial
  BY DEF OpenSet
<1>6. raw[M].partial
  <2>1. M \in M..(nextRaw - 1)
    BY <1>1, <1>4
  <2>2. QED
    BY <1>5, <2>1
<1>7. ASSUME NEW i \in OpenSet(s) PROVE i \in LinesBefore(M)
  <2>1. i \in 1..(nextRaw - 1) /\ i <= M /\ raw[i].stream = s
        /\ \A k \in i..(nextRaw - 1) : raw[k].stream = s => raw[k].partial
    BY <1>3 DEF OpenSet
  <2>2. i \in 1..M /\ \A k \in i..(M - 1) : k \in i..(nextRaw - 1)
    BY <1>1, <1>4, <2>1
  <2>3. QED
    BY <1>5, <2>1, <2>2, Zenon DEF LinesBefore, Before
<1>8. ASSUME NEW i \in LinesBefore(M) PROVE i \in OpenSet(s)
  <2>1. i \in 1..M /\ raw[i].stream = s
        /\ \A k \in i..(M - 1) : raw[k].stream = s => raw[k].partial
    BY <1>5 DEF LinesBefore, Before
  <2>2. i \in 1..(nextRaw - 1)
        /\ \A k \in i..(nextRaw - 1) : k \in i..(M - 1) \/ k \in M..(nextRaw - 1)
    BY <1>1, <1>4, <2>1
  <2>3. QED
    BY <1>5, <2>1, <2>2, Zenon DEF OpenSet
<1>9. OpenSet(s) = LinesBefore(M)
  BY <1>7, <1>8
<1>10. QED
  BY <1>4, <1>6, <1>9, Zenon

\* The stream whose open line a line after the completed ones is.
Owner(l) ==
  IF l = Cardinality(Full) + 1 /\ OpenSet("stderr") # {} THEN "stderr" ELSE "stdout"

\* The lines that come parsed: the completed ones, and after them at most one that is
\* still open for each stream.
LEMMA ParsedShape ==
  ASSUME FramingInv
  PROVE  /\ Cardinality(Full) \in Nat /\ Len(parsed) \in Nat /\ Len(parsed) >= Cardinality(Full)
         /\ \A l \in 1..Cardinality(Full) :
              /\ InOrder(Full)[l] \in Full /\ InOrder(Full)[l] \in 1..Len(raw)
              /\ parsed[l] = LineOf(InOrder(Full)[l])
         /\ \A l \in (Cardinality(Full) + 1)..Len(parsed) :
              parsed[l] = InOrder(OpenSet(Owner(l))) /\ OpenSet(Owner(l)) # {}
         /\ \A l, m \in (Cardinality(Full) + 1)..Len(parsed) : Owner(l) = Owner(m) => l = m
         /\ framingDone => \A s \in Streams : OpenSet(s) # {} =>
              \E l \in (Cardinality(Full) + 1)..Len(parsed) : Owner(l) = s
<1> DEFINE K == Cardinality(Full)
           e == Open("stderr")
           o == Open("stdout")
<1>1. raw \in Seq(RawLines) /\ nextRaw \in 1..(Len(raw) + 1) /\ framingDone \in BOOLEAN
      /\ partials = [s \in AllStreams |-> InOrder(OpenSet(s))]
  BY DEF FramingInv
<1>2. /\ K \in Nat /\ Completed \in Seq(Seq(Nat)) /\ Len(Completed) = K
      /\ \A l \in 1..K : /\ InOrder(Full)[l] \in Full /\ InOrder(Full)[l] \in 1..Len(raw)
                         /\ Completed[l] = LineOf(InOrder(Full)[l])
  BY <1>1, CompletedType
<1>3. ASSUME NEW s \in Streams
      PROVE  /\ InOrder(OpenSet(s)) \in Seq(Nat)
             /\ Open(s) = IF OpenSet(s) = {} THEN <<>> ELSE <<InOrder(OpenSet(s))>>
  <2>1. partials[s] = InOrder(OpenSet(s)) /\ Positions(OpenSet(s))
    BY <1>1, FramingSets DEF AllStreams
  <2>2. InOrder(OpenSet(s)) \in Seq(Nat) /\ Len(InOrder(OpenSet(s))) = Cardinality(OpenSet(s))
    BY <2>1, InOrderType
  <2>3. CASE OpenSet(s) = {}
    BY <2>1, <2>2, <2>3, InOrderEmpty DEF Open
  <2>4. CASE OpenSet(s) # {}
    <3>1. Cardinality(OpenSet(s)) \in Nat \ {0}
      BY <2>1, <2>4, LastIsGreatest
    <3>2. InOrder(OpenSet(s)) # <<>>
      BY <2>2, <3>1
    <3>3. QED
      BY <2>1, <2>2, <2>4, <3>2 DEF Open
  <2>5. QED
    BY <2>3, <2>4
<1>4. /\ InOrder(OpenSet("stderr")) \in Seq(Nat) /\ InOrder(OpenSet("stdout")) \in Seq(Nat)
      /\ e = IF OpenSet("stderr") = {} THEN <<>> ELSE <<InOrder(OpenSet("stderr"))>>
      /\ o = IF OpenSet("stdout") = {} THEN <<>> ELSE <<InOrder(OpenSet("stdout"))>>
  BY <1>3 DEF Streams
<1>5. CASE ~framingDone
  <2>1. parsed = Completed
    BY <1>5 DEF FramingInv
  <2>2. \A l : l \notin (K + 1)..Len(parsed)
    BY <1>2, <2>1
  <2> HIDE DEF K
  <2>3. Len(parsed) \in Nat /\ Len(parsed) >= K
    BY <1>2, <2>1
  <2>4. QED
    BY <1>2, <1>5, <2>1, <2>2, <2>3 DEF K
<1>6. CASE framingDone
  <2> HIDE DEF K, e, o
  <2>1. parsed = Completed \o e \o o
    BY <1>6 DEF FramingInv, e, o
  <2> DEFINE a == IF OpenSet("stderr") = {} THEN 0 ELSE 1
             b == IF OpenSet("stdout") = {} THEN 0 ELSE 1
  <2>2. e \in Seq(Seq(Nat)) /\ Len(e) = a /\ o \in Seq(Seq(Nat)) /\ Len(o) = b
    BY <1>4
  <2>3. a \in {0, 1} /\ b \in {0, 1}
    OBVIOUS
  <2> HIDE DEF a, b
  <2>4. parsed \in Seq(Seq(Nat)) /\ Len(parsed) = K + a + b
    BY <1>2, <2>1, <2>2, <2>3
  <2>5. \A l \in 1..K : parsed[l] = Completed[l]
    BY <1>2, <2>1, <2>2, <2>3
  <2>6. a = 1 => parsed[K + 1] = InOrder(OpenSet("stderr"))
    <3> SUFFICES ASSUME a = 1 PROVE parsed[K + 1] = InOrder(OpenSet("stderr"))
      OBVIOUS
    <3>1. parsed[K + 1] = e[1]
      <4> DEFINE d == Completed \o e
      <4>1. Completed \in Seq(Seq(Nat)) /\ e \in Seq(Seq(Nat)) /\ Len(Completed) = K
            /\ o \in Seq(Seq(Nat)) /\ Len(e) = 1 /\ K \in Nat
        BY <1>2, <2>2
      <4>2. IsJoin(d, Seq(Nat), Completed, e)
        BY <4>1, JoinedSeq
      <4> HIDE DEF d
      <4>3. d \in Seq(Seq(Nat)) /\ Len(d) = K + 1 /\ d[K + 1] = e[1]
        BY <4>1, <4>2 DEF IsJoin
      <4>4. parsed = d \o o
        BY <2>1 DEF d
      <4>5. IsJoin(parsed, Seq(Nat), d, o)
        BY <4>1, <4>3, <4>4, JoinedSeq
      <4>6. QED
        BY <4>1, <4>3, <4>5 DEF IsJoin
    <3>2. e = <<InOrder(OpenSet("stderr"))>>
      BY <1>4 DEF a
    <3>3. QED
      BY <3>1, <3>2
  <2>7. b = 1 => parsed[K + a + 1] = InOrder(OpenSet("stdout"))
    <3> SUFFICES ASSUME b = 1 PROVE parsed[K + a + 1] = InOrder(OpenSet("stdout"))
      OBVIOUS
    <3>1. parsed[K + a + 1] = o[1]
      <4> DEFINE d == Completed \o e
      <4>1. Completed \in Seq(Seq(Nat)) /\ e \in Seq(Seq(Nat)) /\ Len(Completed) = K
            /\ o \in Seq(Seq(Nat)) /\ Len(e) = a /\ Len(o) = 1
        BY <1>2, <2>2
      <4>2. IsJoin(d, Seq(Nat), Completed, e)
        BY <4>1, JoinedSeq
      <4> HIDE DEF d
      <4>3. d \in Seq(Seq(Nat)) /\ Len(d) = K + a
        BY <4>1, <4>2, Zenon DEF IsJoin
      <4>4. parsed = d \o o
        BY <2>1 DEF d
      <4>5. IsJoin(parsed, Seq(Nat), d, o)
        BY <4>1, <4>3, <4>4, JoinedSeq
      <4>6. QED
        BY <4>1, <4>3, <4>5 DEF IsJoin
    <3>2. o = <<InOrder(OpenSet("stdout"))>>
      BY <1>4 DEF b
    <3>3. QED
      BY <3>1, <3>2
  <2>8. (OpenSet("stderr") # {} <=> a = 1) /\ (OpenSet("stdout") # {} <=> b = 1)
    BY DEF a, b
  <2>9. ASSUME NEW l \in (K + 1)..Len(parsed)
        PROVE  \/ l = K + 1 /\ a = 1 /\ Owner(l) = "stderr"
               \/ l = K + a + 1 /\ b = 1 /\ Owner(l) = "stdout"
    <3>1. CASE l = K + 1 /\ a = 1
      BY <2>8, <3>1 DEF Owner, K
    <3>2. CASE ~(l = K + 1 /\ a = 1)
      <4>1. l = K + a + 1 /\ b = 1
        BY <1>2, <2>3, <2>4, <3>2
      <4>2. Owner(l) = "stdout"
        BY <2>8, <3>2 DEF Owner, K
      <4>3. QED
        BY <4>1, <4>2
    <3>3. QED
      BY <3>1, <3>2
  <2>10. \A l \in (K + 1)..Len(parsed) :
           parsed[l] = InOrder(OpenSet(Owner(l))) /\ OpenSet(Owner(l)) # {}
    BY <2>6, <2>7, <2>8, <2>9
  <2>11. \A l, m \in (K + 1)..Len(parsed) : Owner(l) = Owner(m) => l = m
    <3>1. "stderr" # "stdout"
      OBVIOUS
    <3>2. QED
      BY <2>9, <3>1, Zenon
  <2>12. \A s \in Streams : OpenSet(s) # {} => \E l \in (K + 1)..Len(parsed) : Owner(l) = s
    <3>1. a = 1 => K + 1 \in (K + 1)..Len(parsed) /\ Owner(K + 1) = "stderr"
      BY <1>2, <2>3, <2>4, <2>8 DEF Owner, K
    <3>2. b = 1 => K + a + 1 \in (K + 1)..Len(parsed) /\ Owner(K + a + 1) = "stdout"
      <4>1. b = 1 => K + a + 1 \in (K + 1)..Len(parsed) /\ (a = 1 => K + a + 1 # K + 1)
        BY <1>2, <2>3, <2>4
      <4>2. QED
        BY <2>8, <4>1 DEF Owner, K
    <3>3. QED
      BY <2>8, <3>1, <3>2 DEF Streams
  <2>13. Len(parsed) \in Nat /\ Len(parsed) >= K
    BY <1>2, <2>3, <2>4
  <2>14. QED
    BY <1>2, <2>5, <2>10, <2>11, <2>12, <2>13 DEF K
<1>7. QED
  BY <1>1, <1>5, <1>6

\* The invariant implies that no two streams are spliced,
LEMMA InvNoSplice == FramingInv => NoSplice
<1> SUFFICES ASSUME FramingInv, NEW l \in 1..Len(parsed)
             PROVE  /\ parsed[l] = LineOf(Last(parsed[l]))
                    /\ l > 1 /\ ~raw[Last(parsed[l])].partial => Last(parsed[l - 1]) < Last(parsed[l])
  BY DEF NoSplice
<1> DEFINE K == Cardinality(Full)
           F == InOrder(Full)
<1>1. raw \in Seq(RawLines) /\ nextRaw \in 1..(Len(raw) + 1) /\ Positions(Full)
  BY FramingSets DEF FramingInv
<1>2. /\ K \in Nat /\ Len(parsed) \in Nat /\ Len(parsed) >= K
      /\ \A k \in 1..K : F[k] \in 1..Len(raw) /\ parsed[k] = LineOf(F[k])
  BY ParsedShape
<1>3. \A k \in 1..K : Last(parsed[k]) = F[k]
  BY <1>1, <1>2, LineEndsIt
<1>4. CASE l \in 1..K
  <2>1. parsed[l] = LineOf(Last(parsed[l]))
    BY <1>2, <1>3, <1>4
  <2>2. ASSUME l > 1 PROVE Last(parsed[l - 1]) < Last(parsed[l])
    <3>1. l - 1 \in 1..K /\ l - 1 < l
      BY <1>2, <1>4, <2>2
    <3>2. F[l - 1] < F[l]
      BY <1>1, <1>4, <3>1, InOrderGrows
    <3>3. QED
      BY <1>3, <1>4, <3>1, <3>2
  <2>3. QED
    BY <2>1, <2>2
<1>5. CASE l \notin 1..K
  <2>1. l \in (K + 1)..Len(parsed)
    BY <1>2, <1>5
  <2>2. parsed[l] = InOrder(OpenSet(Owner(l))) /\ OpenSet(Owner(l)) # {}
    BY <2>1, ParsedShape
  <2>3. PICK M \in OpenSet(Owner(l)) :
          M \in 1..Len(raw) /\ raw[M].partial /\ OpenSet(Owner(l)) = LinesBefore(M)
    BY <2>2, OpenIsLine
  <2>4. LineOf(M) = InOrder(LinesBefore(M)) /\ Last(LineOf(M)) = M
    BY <1>1, <2>3, LineEndsIt
  <2>5. parsed[l] = LineOf(M)
    BY <2>2, <2>3, <2>4
  <2>6. QED
    BY <2>3, <2>4, <2>5
<1>6. QED
  BY <1>4, <1>5

\* The messages a line that came parsed is made of.
Members(l) ==
  IF l \in 1..Cardinality(Full) THEN LinesBefore(InOrder(Full)[l]) ELSE OpenSet(Owner(l))

\* The raw lines of a parsed line, in order.
LEMMA ParsedMembers ==
  ASSUME FramingInv, NEW l \in 1..Len(parsed)
  PROVE  /\ Positions(Members(l)) /\ parsed[l] = InOrder(Members(l))
         /\ Members(l) \subseteq 1..Len(raw)
<1>1. raw \in Seq(RawLines) /\ nextRaw \in 1..(Len(raw) + 1) /\ Len(raw) \in Nat
  BY DEF FramingInv
<1>2. CASE l \in 1..Cardinality(Full)
  <2> DEFINE j == InOrder(Full)[l]
  <2>1. j \in 1..Len(raw) /\ parsed[l] = LineOf(j)
    BY <1>2, ParsedShape
  <2> HIDE DEF j
  <2>2. Positions(LinesBefore(j)) /\ LineOf(j) = InOrder(LinesBefore(j))
    BY <1>1, <2>1, LineEndsIt
  <2>3. LinesBefore(j) \subseteq 1..Len(raw)
    BY <1>1, <2>1 DEF LinesBefore
  <2>4. QED
    BY <1>2, <2>1, <2>2, <2>3 DEF Members, j
<1>3. CASE l \notin 1..Cardinality(Full)
  <2>1. l \in (Cardinality(Full) + 1)..Len(parsed)
    <3>1. Cardinality(Full) \in Nat /\ Len(parsed) \in Nat
      BY ParsedShape
    <3>2. QED
      BY <1>3, <3>1
  <2>2. parsed[l] = InOrder(OpenSet(Owner(l)))
    BY <2>1, ParsedShape
  <2>3. Positions(OpenSet(Owner(l))) /\ OpenSet(Owner(l)) \subseteq 1..(nextRaw - 1)
        /\ nextRaw - 1 \in 0..Len(raw)
    BY <1>1, FramingSets
  <2>4. OpenSet(Owner(l)) \subseteq 1..Len(raw)
    BY <1>1, <2>3
  <2>5. QED
    BY <1>3, <2>2, <2>3, <2>4 DEF Members
<1>4. QED
  BY <1>2, <1>3

\* No message is part of two lines.
LEMMA MembersApart ==
  ASSUME FramingInv, NEW l \in 1..Len(parsed), NEW m \in 1..Len(parsed), l < m,
         NEW x \in Members(l), x \in Members(m)
  PROVE  FALSE
<1> DEFINE K == Cardinality(Full)
<1>1. /\ raw \in Seq(RawLines) /\ nextRaw \in 1..(Len(raw) + 1) /\ Len(raw) \in Nat
      /\ Positions(Full) /\ Full \subseteq 1..(nextRaw - 1)
  BY FramingSets DEF FramingInv
<1>2. K \in Nat /\ Len(parsed) \in Nat /\ \A k \in 1..K : InOrder(Full)[k] \in Full
  BY ParsedShape
<1>3. CASE l \in 1..K
  <2> DEFINE f == InOrder(Full)[l]
  <2>1. f \in 1..(nextRaw - 1) /\ ~raw[f].partial
    BY <1>1, <1>2, <1>3 DEF Full
  <2>2. x \in 1..f /\ raw[x].stream = raw[f].stream
    BY <1>3 DEF Members, LinesBefore, Before
  <2>3. CASE m \in 1..K
    <3> DEFINE g == InOrder(Full)[m]
    <3>1. f < g
      BY <1>1, <1>3, <2>3, InOrderGrows
    <3>2. \A k \in x..(g - 1) : raw[k].stream = raw[x].stream => raw[k].partial
      BY <2>3 DEF Members, LinesBefore, Before
    <3>3. g \in Nat
      BY <1>1, <1>2, <2>3, Zenon DEF Positions
    <3> HIDE DEF f, g
    <3>4. f \in x..(g - 1)
      BY <1>1, <2>1, <2>2, <3>1, <3>3
    <3>5. QED
      BY <2>1, <2>2, <3>2, <3>4
  <2>4. CASE m \notin 1..K
    <3>1. raw[x].stream = Owner(m)
          /\ \A k \in x..(nextRaw - 1) : raw[k].stream = Owner(m) => raw[k].partial
      BY <2>4 DEF Members, OpenSet
    <3> HIDE DEF f
    <3>2. f \in x..(nextRaw - 1)
      BY <1>1, <2>1, <2>2
    <3>3. QED
      BY <2>1, <2>2, <3>1, <3>2, Zenon
  <2>5. QED
    BY <2>3, <2>4
<1>4. CASE l \notin 1..K
  <2>1. l \in (K + 1)..Len(parsed) /\ m \in (K + 1)..Len(parsed) /\ m \notin 1..K /\ l # m
    BY <1>2, <1>4
  <2>2. raw[x].stream = Owner(l) /\ raw[x].stream = Owner(m)
    BY <1>4, <2>1 DEF Members, OpenSet
  <2>3. QED
    BY <2>1, <2>2, ParsedShape, Zenon
<1>5. QED
  BY <1>3, <1>4

\* What InOrder lists, the sequence contains.
LEMMA ListedIsContained ==
  ASSUME NEW S, Positions(S), NEW x \in S
  PROVE  Contains(InOrder(S), x)
<1>1. Len(InOrder(S)) = Cardinality(S)
  BY InOrderType
<1>2. \E k \in 1..Cardinality(S) : InOrder(S)[k] = x
  BY InOrderPlaces, Zenon
<1>3. QED
  BY <1>1, <1>2, Zenon DEF Contains

\* Every message is part of a line.
LEMMA MembersCover ==
  ASSUME FramingInv, framingDone, NEW i \in 1..Len(raw)
  PROVE  \E l \in 1..Len(parsed) : i \in Members(l)
<1> DEFINE t == raw[i].stream
           ends == {k \in i..Len(raw) : raw[k].stream = t /\ ~raw[k].partial}
           K == Cardinality(Full)
<1>1. /\ raw \in Seq(RawLines) /\ Len(raw) \in Nat /\ nextRaw = Len(raw) + 1
      /\ nextRaw - 1 = Len(raw) /\ Positions(Full)
  BY FramingSets DEF FramingInv
<1>2. K \in Nat /\ Len(parsed) \in Nat /\ Len(parsed) >= K
  BY ParsedShape
<1>3. CASE ends # {}
  <2>1. ends \subseteq Nat
    BY <1>1
  <2>2. PICK j \in ends : \A k \in ends : j <= k
    BY <1>3, <2>1, HasLeast, Zenon
  <2>3. j \in i..Len(raw) /\ raw[j].stream = t /\ ~raw[j].partial
    BY <2>2
  <2>4. \A k \in i..(j - 1) : raw[k].stream = t => raw[k].partial
    <3> SUFFICES ASSUME NEW k \in i..(j - 1), raw[k].stream = t, ~raw[k].partial PROVE FALSE
      OBVIOUS
    <3>1. k \in i..Len(raw) /\ ~(j <= k)
      BY <1>1, <2>3
    <3>2. k \in ends
      BY <3>1
    <3>3. QED
      BY <2>2, <3>1, <3>2
  <2>5. i \in 1..j /\ i <= j
    BY <1>1, <2>3
  <2>6. i \in LinesBefore(j)
    BY <2>3, <2>4, <2>5, Zenon DEF LinesBefore, Before
  <2>7. j \in Full
    BY <1>1, <2>3 DEF Full
  <2>8. PICK l \in 1..K : InOrder(Full)[l] = j
    BY <1>1, <2>7, InOrderPlaces
  <2>9. l \in 1..Len(parsed)
    BY <1>2
  <2>10. i \in Members(l)
    BY <2>6, <2>8, Zenon DEF Members
  <2>11. QED
    BY <2>9, <2>10
<1>4. CASE ends = {}
  <2>1. raw[i] \in RawLines /\ i \in i..Len(raw)
    BY <1>1
  <2>2. raw[i].partial
    BY <1>4, <2>1
  <2>3. t \in Streams
    BY <2>1, <2>2, Zenon DEF RawLines
  <2>4. i \in OpenSet(t)
    BY <1>1, <1>4 DEF OpenSet
  <2>5. PICK l \in (K + 1)..Len(parsed) : Owner(l) = t
    BY <2>3, <2>4, ParsedShape
  <2>6. l \in 1..Len(parsed) /\ l \notin 1..K
    BY <1>2
  <2>7. i \in Members(l)
    BY <2>4, <2>5, <2>6 DEF Members
  <2>8. QED
    BY <2>6, <2>7
<1>5. QED
  BY <1>3, <1>4

\* and that every message comes parsed exactly once.
LEMMA InvNothingLost == FramingInv => NothingLost
<1> SUFFICES ASSUME FramingInv, framingDone
             PROVE  /\ \A i \in 1..Len(raw) : \E l \in 1..Len(parsed) : Contains(parsed[l], i)
                    /\ \A l, m \in 1..Len(parsed) : \A i \in 1..Len(parsed[l]), j \in 1..Len(parsed[m]) :
                         /\ parsed[l][i] \in 1..Len(raw)
                         /\ parsed[l][i] = parsed[m][j] => l = m /\ i = j
  BY DEF NothingLost
<1>1. ASSUME NEW i \in 1..Len(raw) PROVE \E l \in 1..Len(parsed) : Contains(parsed[l], i)
  <2>1. PICK l \in 1..Len(parsed) : i \in Members(l)
    BY MembersCover
  <2>2. Contains(parsed[l], i)
    BY <2>1, ParsedMembers, ListedIsContained
  <2>3. QED
    BY <2>2
<1>2. ASSUME NEW l \in 1..Len(parsed), NEW i \in 1..Len(parsed[l])
      PROVE  /\ parsed[l] = InOrder(Members(l)) /\ Positions(Members(l))
             /\ i \in 1..Cardinality(Members(l))
             /\ parsed[l][i] \in Members(l) /\ Members(l) \subseteq 1..Len(raw)
  <2>1. Positions(Members(l)) /\ parsed[l] = InOrder(Members(l)) /\ Members(l) \subseteq 1..Len(raw)
    BY ParsedMembers
  <2>2. Len(parsed[l]) = Cardinality(Members(l))
    BY <2>1, InOrderType
  <2>3. QED
    BY <2>1, <2>2, InOrderPlaces
<1>3. ASSUME NEW l \in 1..Len(parsed), NEW m \in 1..Len(parsed),
             NEW i \in 1..Len(parsed[l]), NEW j \in 1..Len(parsed[m]),
             parsed[l][i] = parsed[m][j]
      PROVE  l = m /\ i = j
  <2>1. parsed[l][i] \in Members(l) /\ parsed[l][i] \in Members(m)
    BY <1>2, <1>3
  <2>2. ~(l < m) /\ ~(m < l)
    BY <2>1, MembersApart
  <2>3. l = m
    BY <2>2, ParsedShape
  <2>4. i = j
    <3> DEFINE S == Members(l)
    <3>1. /\ Positions(S) /\ i \in 1..Cardinality(S) /\ j \in 1..Cardinality(S)
          /\ InOrder(S)[i] = InOrder(S)[j] /\ InOrder(S)[i] \in S
      BY <1>2, <1>3, <2>3
    <3>2. Cardinality(S) \in Nat /\ Cardinality(Below(S, InOrder(S)[i])) = i - 1
          /\ Cardinality(Below(S, InOrder(S)[j])) = j - 1
      BY <3>1, InOrderPlaces
    <3> HIDE DEF S
    <3>3. i - 1 = j - 1
      BY <3>1, <3>2
    <3>4. QED
      BY <3>1, <3>2, <3>3
  <2>5. QED
    BY <2>3, <2>4
<1>4. QED
  BY <1>1, <1>2, <1>3

\* What tailFile returns is a list of lines.
LEMMA ResultType ==
  ASSUME TailInv, tailDone PROVE result \in Seq(Seq(Nat)) /\ Len(result) \in Nat
<1>1. CASE file = <<>>
  <2>1. result = <<>>
    BY <1>1 DEF TailInv
  <2>2. QED
    BY <2>1
<1>2. CASE file # <<>>
  <2>1. result = LastLines(AllLines) /\ file \in Seq(Bytes) /\ remaining \in Nat
    BY <1>2 DEF TailInv
  <2>2. remaining < Len(file)
    BY <1>2, SomethingWasRead
  <2>3. AllLines \in Seq(Seq(Nat))
    <3>1. LinesOf(LaterStarts) \in Seq(Seq(Nat)) /\ Lines \in Seq(Seq(Nat))
      BY <2>1, LaterLinesAreEnd, LinesOfType, LinesType
    <3>2. <<LineFrom(remaining + 1)>> \in Seq(Seq(Nat))
      <4>1. LineFrom(remaining + 1) \in Seq(Nat)
        BY <2>1, LineFromType
      <4>2. QED
        BY <4>1
    <3>3. remaining = 0 \/ remaining > 0
      BY <2>1
    <3>4. QED
      BY <2>2, <3>1, <3>2, <3>3, AllLinesAre, Zenon
  <2>4. QED
    BY <2>1, <2>3, LastLinesShape
<1>3. QED
  BY <1>1, <1>2

\* Every step keeps the invariant.
LEMMA FramingInductive == TailInv /\ FramingInv /\ [Next]_vars => FramingInv'
<1> SUFFICES ASSUME TailInv, FramingInv, [Next]_vars PROVE FramingInv'
  OBVIOUS
<1>1. CASE UNCHANGED framingVars
  <2>1. raw' = raw /\ nextRaw' = nextRaw /\ partials' = partials /\ parsed' = parsed
        /\ framingDone' = framingDone
    BY <1>1 DEF framingVars
  <2>2. ASSUME NEW s PROVE OpenSet(s)' = OpenSet(s) /\ Open(s)' = Open(s)
    BY <2>1 DEF OpenSet, Open
  <2>3. Completed' = Completed /\ AllStreams' = AllStreams
    BY <2>1, Zenon DEF Completed, Full, LineOf, Before, AllStreams
  <2>4. Open("stderr")' = Open("stderr") /\ Open("stdout")' = Open("stdout")
    BY <2>1, Zenon DEF Open
  <2>5. [s \in AllStreams |-> InOrder(OpenSet(s))]' = [s \in AllStreams |-> InOrder(OpenSet(s))]
    BY <2>2, <2>3, Zenon
  <2>6. QED
    BY <2>1, <2>3, <2>4, <2>5, Zenon DEF FramingInv
<1>2. CASE Hold
  BY <1>2, HoldKeeps
<1>3. CASE Flush
  BY <1>3, FlushKeeps
<1>4. CASE EmitOpen
  BY <1>4, EmitOpenKeeps
<1>5. CASE CallsParse
  <2>1. Parse(Len(result)) /\ Len(result) \in Nat
    BY <1>5, ResultType DEF CallsParse
  <2>2. QED
    BY <2>1, FramingRestarts
<1>6. CASE CallsTruncate
  BY <1>6, FramingRestarts DEF CallsTruncate
<1>7. QED
  BY <1>1, <1>2, <1>3, <1>4, <1>5, <1>6, Zenon DEF Next, vars, Tails, Parses, FramingNext,
    Truncates, CallsSend, Sends

\* The parser keeps its books.
THEOREM FramingAlways == Spec => []FramingInv
<1>1. Init => FramingInv
  <2>1. raw = <<>> => raw \in Seq(RawLines)
    OBVIOUS
  <2>2. QED
    BY <2>1, FramingStarts, Zenon DEF Init, FramingInit
<1>2. QED
  BY <1>1, TailAlways, FramingInductive, PTL DEF Spec

\* Every message of the log comes parsed exactly once, however many lines there are and
\* however the streams and their partial lines interleave (parseLogLines).
THEOREM NothingIsEverLost == Spec => []NothingLost
BY FramingAlways, InvNothingLost, PTL

\* No two streams are ever spliced, and the completed lines keep their order (flush).
THEOREM NothingIsSpliced == Spec => []NoSplice
BY FramingAlways, InvNoSplice, PTL
=============================================================================
