-------------------------- MODULE LogCaptureProofs --------------------------
(***************************************************************************)
(* How the lines are made to fit, for any number of lines of any size and  *)
(* every limit: truncateLines for the event, and escapeSlackText and       *)
(* slackLogBlock for the message that Send posts.                          *)
(***************************************************************************)
EXTENDS LogFramingProofs

-----------------------------------------------------------------------------
\* truncateLines.

\* What truncateLines returns is a list of these.
Entries == [line : Nat, size : Nat]

\* Entries for the lines from the first one kept, as far as the loop has come.
IsKept(entries) ==
  /\ entries \in Seq(Entries) /\ Len(entries) = nextLine - FirstKept
  /\ \A i \in 1..Len(entries) : entries[i].line = FirstKept + i - 1
  /\ IsFiniteSet(EntryBytes(entries)) /\ Cardinality(EntryBytes(entries)) <= budget

\* Lines that are missing at the front are announced there.
FrontMarker == IF Dropped THEN <<MarkerEntry>> ELSE <<>>

\* While the loop runs, out is the lines kept so far, within the budget; in the end the
\* markers stand at the ends at which lines are missing.
TruncateInv ==
  /\ sizes \in Seq(Nat) /\ nextLine \in FirstKept..(Len(sizes) + 1)
  /\ truncateDone \in BOOLEAN
  /\ ~truncateDone => IsKept(out) /\ total = Cardinality(EntryBytes(out))
  /\ truncateDone =>
       \E kept : /\ IsKept(kept)
                 /\ out = FrontMarker \o (IF nextLine <= Len(sizes) THEN Append(kept, MarkerEntry) ELSE kept)

\* The window of lines that can be kept, and the bytes there are for it.
LEMMA FirstKeptType ==
  ASSUME sizes \in Seq(Nat)
  PROVE  /\ Len(sizes) \in Nat /\ FirstKept \in 1..(Len(sizes) + 1)
         /\ Dropped => FirstKept = Len(sizes) - MaxLogLines + 2
         /\ ~Dropped => FirstKept = 1 /\ Len(sizes) <= MaxLogLines
         /\ budget \in Nat /\ Marker \in Nat /\ MaxLogLines \in Nat \ {0}
         /\ budget = IF Dropped THEN maxLogTotalBytes - Marker ELSE maxLogTotalBytes
         /\ maxLogTotalBytes \in Nat
<1>1. Len(sizes) \in Nat /\ MaxLogLines \in Nat \ {0} /\ maxLogTotalBytes \in Nat
      /\ Marker \in 0..maxLogTotalBytes
  BY TruncateAssumption
<1>2. Dropped \in BOOLEAN
  BY DEF Dropped
<1>3. CASE Dropped
  BY <1>1, <1>3 DEF Dropped, FirstKept, budget
<1>4. CASE ~Dropped
  BY <1>1, <1>4 DEF Dropped, FirstKept, budget
<1>5. QED
  BY <1>3, <1>4

\* There are n numbers up to n.
LEMMA CountedTo ==
  ASSUME NEW n \in Nat PROVE IsFiniteSet(1..n) /\ Cardinality(1..n) = n
BY FS_Interval

\* No entries have no bytes.
LEMMA NoBytes == IsFiniteSet(EntryBytes(<<>>)) /\ Cardinality(EntryBytes(<<>>)) = 0
<1>1. EntryBytes(<<>>) = {}
  BY DEF EntryBytes
<1>2. QED
  BY <1>1, FS_EmptySet

\* An entry more at the end adds its bytes,
LEMMA BytesAppended ==
  ASSUME NEW e \in Seq(Entries), NEW x \in Entries, IsFiniteSet(EntryBytes(e))
  PROVE  /\ IsFiniteSet(EntryBytes(Append(e, x)))
         /\ Cardinality(EntryBytes(Append(e, x))) = Cardinality(EntryBytes(e)) + x.size
<1> DEFINE n == Len(e)
           f == Append(e, x)
           A == EntryBytes(e)
           B == {n + 1} \X (1..x.size)
<1>1. n \in Nat /\ x.size \in Nat
  BY DEF Entries
<1>2. Len(f) = n + 1 /\ f[n + 1] = x /\ \A i \in 1..n : f[i] = e[i]
  BY <1>1
<1>3. EntryBytes(f) = A \cup B
  <2> HIDE DEF f
  <2>1. 1..(n + 1) = (1..n) \cup {n + 1}
    BY <1>1
  <2>2. \A b : b \in EntryBytes(f) <=> \E i \in 1..(n + 1) : b \in {i} \X (1..f[i].size)
    BY <1>2 DEF EntryBytes
  <2>3. \A b : b \in A <=> \E i \in 1..n : b \in {i} \X (1..e[i].size)
    BY DEF EntryBytes
  <2> HIDE DEF A, n
  <2>4. \A b : b \in EntryBytes(f) <=> b \in A \/ b \in {n + 1} \X (1..f[n + 1].size)
    BY <1>2, <2>1, <2>2, <2>3, Zenon
  <2>5. QED
    BY <1>2, <2>4, Zenon
<1>4. A \cap B = {}
  <2>1. \A b \in A : b[1] \in 1..n
    BY DEF EntryBytes
  <2>2. \A b \in B : b[1] = n + 1
    OBVIOUS
  <2>3. n + 1 \notin 1..n
    BY <1>1
  <2>4. QED
    BY <2>1, <2>2, <2>3, Zenon
<1>5. IsFiniteSet(B) /\ Cardinality(B) = x.size
  <2>1. IsFiniteSet({n + 1}) /\ Cardinality({n + 1}) = 1
    BY FS_Singleton, Zenon
  <2>2. IsFiniteSet(1..x.size) /\ Cardinality(1..x.size) = x.size
    BY <1>1, CountedTo
  <2>3. IsFiniteSet(B) /\ Cardinality(B) = Cardinality({n + 1}) * Cardinality(1..x.size)
    BY <2>1, <2>2, FS_Product, Zenon
  <2>4. QED
    BY <1>1, <2>1, <2>2, <2>3
<1> HIDE DEF A, B
<1>6. IsFiniteSet(A \cup B) /\ Cardinality(A \cup B) = Cardinality(A) + Cardinality(B) - Cardinality(A \cap B)
  BY <1>5, FS_Union DEF A
<1>7. Cardinality(A \cap B) = 0 /\ Cardinality(A) \in Nat
  BY <1>4, FS_EmptySet, FS_CardinalityType, Zenon DEF A
<1>8. Cardinality(A \cup B) = Cardinality(A) + x.size
  BY <1>1, <1>5, <1>6, <1>7
<1>9. QED
  BY <1>3, <1>6, <1>8, Zenon DEF A, f

\* and so does one in front.
LEMMA BytesPrepended ==
  ASSUME NEW e \in Seq(Entries), NEW x \in Entries, IsFiniteSet(EntryBytes(e))
  PROVE  /\ IsFiniteSet(EntryBytes(<<x>> \o e))
         /\ Cardinality(EntryBytes(<<x>> \o e)) = Cardinality(EntryBytes(e)) + x.size
<1> DEFINE n == Len(e)
           f == <<x>> \o e
           A == EntryBytes(e)
           S == {<<b[1] + 1, b[2]>> : b \in A}
           B == {1} \X (1..x.size)
<1>1. n \in Nat /\ x.size \in Nat
  BY DEF Entries
<1>2. Len(f) = n + 1 /\ f[1] = x /\ \A i \in 1..n : f[i + 1] = e[i]
  BY <1>1
<1>3. ASSUME NEW b PROVE b \in A <=> \E i \in 1..n : \E j \in 1..e[i].size : b = <<i, j>>
  BY DEF EntryBytes
<1>4. EntryBytes(f) = S \cup B
  <2> HIDE DEF f
  <2>1. ASSUME NEW b
        PROVE  b \in EntryBytes(f) <=> \E i \in 1..(n + 1) : \E j \in 1..f[i].size : b = <<i, j>>
    BY <1>2 DEF EntryBytes
  <2>2. ASSUME NEW b PROVE b \in B <=> \E j \in 1..f[1].size : b = <<1, j>>
    BY <1>2
  <2>3. ASSUME NEW b PROVE b \in S <=> \E i \in 1..n : \E j \in 1..f[i + 1].size : b = <<i + 1, j>>
    <3>1. ASSUME b \in S PROVE \E i \in 1..n : \E j \in 1..f[i + 1].size : b = <<i + 1, j>>
      <4>1. PICK a \in A : b = <<a[1] + 1, a[2]>>
        BY <3>1
      <4>2. PICK i \in 1..n : \E j \in 1..e[i].size : a = <<i, j>>
        BY <1>3
      <4>3. PICK j \in 1..e[i].size : a = <<i, j>>
        BY <4>2
      <4>4. b = <<i + 1, j>> /\ j \in 1..f[i + 1].size
        BY <1>2, <4>1, <4>3
      <4>5. QED
        BY <4>4
    <3>2. ASSUME NEW i \in 1..n, NEW j \in 1..f[i + 1].size, b = <<i + 1, j>> PROVE b \in S
      <4>1. <<i, j>> \in A
        BY <1>2, <1>3
      <4>2. <<<<i, j>>[1] + 1, <<i, j>>[2]>> = b
        BY <3>2
      <4> HIDE DEF A
      <4>3. QED
        BY <4>1, <4>2
    <3>3. QED
      BY <3>1, <3>2
  <2>4. (\A i \in 1..n : i + 1 \in 1..(n + 1)) /\ 1 \in 1..(n + 1)
        /\ \A i \in 1..(n + 1) : i = 1 \/ \E k \in 1..n : i = k + 1
    <3>1. \A i \in 1..(n + 1) : i = 1 \/ (i - 1 \in 1..n /\ i = (i - 1) + 1)
      BY <1>1
    <3>2. QED
      BY <1>1, <3>1
  <2> HIDE DEF n, S, B
  <2>5. QED
    BY <2>1, <2>2, <2>3, <2>4, ZenonT(60)
<1>5. S \cap B = {}
  <2>1. \A b \in S : b[1] # 1
    <3> SUFFICES ASSUME NEW b \in S PROVE b[1] # 1
      OBVIOUS
    <3>1. PICK a \in A : b = <<a[1] + 1, a[2]>>
      OBVIOUS
    <3>2. PICK i \in 1..n : \E j \in 1..e[i].size : a = <<i, j>>
      BY <1>3
    <3>3. b[1] = i + 1
      BY <3>1, <3>2
    <3>4. QED
      BY <1>1, <3>3
  <2>2. \A b \in B : b[1] = 1
    OBVIOUS
  <2>3. QED
    BY <2>1, <2>2, Zenon
<1>6. IsFiniteSet(S) /\ Cardinality(S) = Cardinality(A)
  <2> DEFINE g == [b \in A |-> <<b[1] + 1, b[2]>>]
  <2>1. \A b \in A : b = <<b[1], b[2]>> /\ b[1] \in Nat
    BY <1>1, <1>3
  <2> HIDE DEF A
  <2>2. \A b, c \in A : g[b] = g[c] => b = c
    BY <2>1
  <2>3. g \in Bijection(A, S)
    BY <2>2, Zenon DEF Bijection, Injection, Surjection, IsInjective
  <2> HIDE DEF g, S
  <2>4. QED
    BY <2>3, FS_Bijection DEF ExistsBijection, A
<1>7. IsFiniteSet(B) /\ Cardinality(B) = x.size
  <2>1. IsFiniteSet({1}) /\ Cardinality({1}) = 1
    BY FS_Singleton, Zenon
  <2>2. IsFiniteSet(1..x.size) /\ Cardinality(1..x.size) = x.size
    BY <1>1, CountedTo
  <2>3. IsFiniteSet(B) /\ Cardinality(B) = Cardinality({1}) * Cardinality(1..x.size)
    BY <2>1, <2>2, FS_Product, Zenon
  <2>4. QED
    BY <1>1, <2>1, <2>2, <2>3
<1> HIDE DEF A, B, S
<1>8. IsFiniteSet(S \cup B) /\ Cardinality(S \cup B) = Cardinality(S) + Cardinality(B) - Cardinality(S \cap B)
  BY <1>6, <1>7, FS_Union
<1>9. Cardinality(S \cap B) = 0 /\ Cardinality(A) \in Nat
  BY <1>5, FS_EmptySet, FS_CardinalityType, Zenon DEF A
<1>10. Cardinality(S \cup B) = Cardinality(A) + x.size
  BY <1>1, <1>6, <1>7, <1>8, <1>9
<1>11. QED
  BY <1>4, <1>8, <1>10, Zenon DEF A, f

\* truncateLines before the first line it looks at.
TruncateStart ==
  /\ sizes \in Seq(Nat) /\ nextLine = FirstKept
  /\ out = <<>> /\ total = 0 /\ truncateDone = FALSE

\* The invariant holds before the first line is looked at.
LEMMA TruncateStarts == TruncateStart => TruncateInv
<1> SUFFICES ASSUME TruncateStart PROVE TruncateInv
  OBVIOUS
<1>1. sizes \in Seq(Nat) /\ nextLine = FirstKept /\ out = <<>> /\ total = 0 /\ ~truncateDone
      /\ truncateDone \in BOOLEAN
  BY Zenon DEF TruncateStart
<1>2. Len(sizes) \in Nat /\ FirstKept \in 1..(Len(sizes) + 1) /\ budget \in Nat
  BY <1>1, FirstKeptType
<1>3. nextLine \in FirstKept..(Len(sizes) + 1) /\ nextLine - FirstKept = 0
  BY <1>1, <1>2
<1>4. IsFiniteSet(EntryBytes(out)) /\ Cardinality(EntryBytes(out)) = 0
  BY <1>1, NoBytes
<1>5. out \in Seq(Entries) /\ Len(out) = 0
  BY <1>1
<1>6. IsKept(out)
  BY <1>2, <1>3, <1>4, <1>5 DEF IsKept
<1>7. QED
  BY <1>1, <1>3, <1>4, <1>6 DEF TruncateInv

\* A line that fits the budget is kept behind the ones before it.
LEMMA KeepLineKeeps ==
  ASSUME TruncateInv, KeepLine PROVE TruncateInv'
<1>1. PICK size \in Shortened(sizes[nextLine]) :
        /\ total + size <= budget /\ total' = total + size
        /\ out' = Append(out, [line |-> nextLine, size |-> size])
  BY DEF KeepLine
<1>2. PICK n : n = nextLine
  OBVIOUS
<1>3. PICK x : x = [line |-> n, size |-> size]
  BY Zenon
<1>4. PICK e : e = out
  OBVIOUS
<1>5. /\ ~truncateDone /\ n <= Len(sizes) /\ nextLine' = n + 1 /\ sizes' = sizes
      /\ truncateDone' = truncateDone /\ out' = Append(e, x)
  BY <1>1, <1>2, <1>3, <1>4 DEF KeepLine
<1>6. /\ sizes \in Seq(Nat) /\ n \in FirstKept..(Len(sizes) + 1) /\ IsKept(e)
      /\ total = Cardinality(EntryBytes(e))
  BY <1>2, <1>4, <1>5 DEF TruncateInv
<1>7. Len(sizes) \in Nat /\ FirstKept \in 1..(Len(sizes) + 1) /\ budget \in Nat /\ Marker \in Nat
  BY <1>6, FirstKeptType
<1>8. FirstKept' = FirstKept /\ budget' = budget
  BY <1>5 DEF FirstKept, budget, Dropped
<1>9. n \in Nat \ {0} /\ n + 1 \in FirstKept..(Len(sizes) + 1)
  BY <1>5, <1>6, <1>7
<1>10. size \in Nat
  <2>1. sizes[n] \in Nat
    BY <1>5, <1>6, <1>7, <1>9
  <2>2. maxLogLineBytes \in Nat
    BY LimitsAssumption
  <2>3. QED
    BY <1>1, <1>2, <1>7, <2>1, <2>2 DEF Shortened
<1>11. x \in Entries /\ x.line = n /\ x.size = size
  BY <1>3, <1>9, <1>10 DEF Entries
<1>12. /\ e \in Seq(Entries) /\ Len(e) = n - FirstKept
       /\ \A i \in 1..Len(e) : e[i].line = FirstKept + i - 1
       /\ IsFiniteSet(EntryBytes(e))
  BY <1>2, <1>6 DEF IsKept
<1> DEFINE f == Append(e, x)
<1>13. f \in Seq(Entries) /\ Len(f) = (n + 1) - FirstKept
       /\ \A i \in 1..Len(f) : f[i].line = FirstKept + i - 1
  <2>1. f \in Seq(Entries) /\ Len(f) = Len(e) + 1 /\ f[Len(e) + 1] = x
        /\ \A i \in 1..Len(e) : f[i] = e[i]
    BY <1>11, <1>12
  <2> HIDE DEF f
  <2>2. Len(f) = (n + 1) - FirstKept /\ Len(e) \in Nat
    BY <1>7, <1>9, <1>12, <2>1
  <2>3. ASSUME NEW i \in 1..Len(f) PROVE f[i].line = FirstKept + i - 1
    <3>1. CASE i \in 1..Len(e)
      BY <1>12, <2>1, <3>1
    <3>2. CASE i = Len(e) + 1
      BY <1>7, <1>9, <1>11, <1>12, <2>1, <3>2
    <3>3. QED
      BY <2>1, <2>2, <3>1, <3>2
  <2>4. QED
    BY <2>1, <2>2, <2>3
<1>14. IsFiniteSet(EntryBytes(f)) /\ Cardinality(EntryBytes(f)) = total + size
  BY <1>6, <1>11, <1>12, BytesAppended
<1> HIDE DEF f
<1>15. out' = f /\ total' = total + size /\ total + size <= budget
  BY <1>1, <1>5 DEF f
<1>16. IsKept(out)'
  BY <1>5, <1>8, <1>13, <1>14, <1>15 DEF IsKept
<1>17. total' = Cardinality(EntryBytes(out'))
  BY <1>14, <1>15
<1>18. QED
  BY <1>5, <1>6, <1>8, <1>9, <1>16, <1>17 DEF TruncateInv

\* The markers go around what was kept.
LEMMA FinishKeeps ==
  ASSUME TruncateInv, CutOff \/ AllKept PROVE TruncateInv'
<1>1. PICK e : e = out
  OBVIOUS
<1>2. ~truncateDone /\ IsKept(e) /\ sizes \in Seq(Nat) /\ nextLine \in FirstKept..(Len(sizes) + 1)
  BY <1>1 DEF TruncateInv, CutOff, AllKept
<1>3. /\ sizes' = sizes /\ nextLine' = nextLine /\ truncateDone' = TRUE
      /\ out' = FrontMarker \o (IF nextLine <= Len(sizes) THEN Append(e, MarkerEntry) ELSE e)
  <2>1. CASE CutOff
    BY <1>1, <2>1 DEF CutOff, Finish, FrontMarker
  <2>2. CASE AllKept
    <3>1. ~(nextLine <= Len(sizes))
      BY <1>2, <2>2, FirstKeptType DEF AllKept
    <3>2. QED
      BY <1>1, <2>2, <3>1 DEF AllKept, Finish, FrontMarker
  <2>3. QED
    BY <2>1, <2>2, Zenon
<1>4. FirstKept' = FirstKept /\ budget' = budget /\ FrontMarker' = FrontMarker /\ MarkerEntry' = MarkerEntry
  BY <1>3 DEF FirstKept, budget, Dropped, FrontMarker, MarkerEntry
<1>5. IsKept(e)'
  BY <1>2, <1>3, <1>4 DEF IsKept
<1>6. QED
  BY <1>2, <1>3, <1>4, <1>5, Zenon DEF TruncateInv

\* The invariant holds when truncateLines is called,
LEMMA TruncateRestarts ==
  ASSUME NEW n \in Nat, Truncate(n) PROVE TruncateInv'
<1>1. sizes' \in [1..n -> 0..MaxSize] /\ nextLine' = FirstKept'
      /\ out' = <<>> /\ total' = 0 /\ truncateDone' = FALSE
  BY DEF Truncate
<1>2. \A m \in 0..MaxSize : m \in Nat
  BY TruncateAssumption
<1>3. \A f \in [1..n -> 0..MaxSize] : f \in Seq(Nat)
  BY <1>2
<1>4. TruncateStart'
  BY <1>1, <1>3 DEF TruncateStart
<1>5. QED
  BY <1>4, TruncateStarts, PTL

\* and when it has returned.
LEMMA TruncateEnds ==
  ASSUME TruncateReturned PROVE TruncateInv'
<1>1. sizes' = <<>> /\ nextLine' = 1
      /\ out' = <<>> /\ total' = 0 /\ truncateDone' = FALSE
  BY DEF TruncateReturned
<1>2. Len(sizes') = 0 /\ sizes' \in Seq(Nat)
  BY <1>1
<1>3. FirstKept' = 1
  BY <1>2, TruncateAssumption DEF FirstKept, Dropped
<1>4. TruncateStart'
  BY <1>1, <1>2, <1>3 DEF TruncateStart
<1>5. QED
  BY <1>4, TruncateStarts, PTL

\* Every step keeps the invariant.
LEMMA TruncateInductive ==
  FramingInv /\ TruncateInv /\ [Next]_vars => TruncateInv'
<1> SUFFICES ASSUME FramingInv, TruncateInv, [Next]_vars PROVE TruncateInv'
  OBVIOUS
<1>1. CASE UNCHANGED truncateVars
  <2>1. sizes' = sizes /\ nextLine' = nextLine /\ out' = out /\ total' = total
        /\ truncateDone' = truncateDone
    BY <1>1 DEF truncateVars
  <2>2. FirstKept' = FirstKept /\ budget' = budget /\ FrontMarker' = FrontMarker /\ MarkerEntry' = MarkerEntry
    BY <2>1 DEF FirstKept, budget, Dropped, FrontMarker, MarkerEntry
  <2>3. ASSUME NEW e PROVE IsKept(e)' <=> IsKept(e)
    BY <2>1, <2>2 DEF IsKept
  <2>4. IsKept(out)' <=> IsKept(out)
    BY <2>1, <2>2 DEF IsKept
  <2>5. QED
    BY <2>1, <2>2, <2>3, <2>4, Zenon DEF TruncateInv
<1>2. CASE KeepLine
  BY <1>2, KeepLineKeeps
<1>3. CASE CutOff \/ AllKept
  BY <1>3, FinishKeeps
<1>4. CASE CallsTruncate
  <2>1. Truncate(Len(parsed)) /\ Len(parsed) \in Nat
    BY <1>4, ParsedShape DEF CallsTruncate
  <2>2. QED
    BY <2>1, TruncateRestarts
<1>5. CASE CallsSend
  BY <1>5, TruncateEnds DEF CallsSend
<1>6. QED
  BY <1>1, <1>2, <1>3, <1>4, <1>5, Zenon DEF Next, vars, Tails, CallsParse, Parses,
    Truncates, TruncateNext, Sends

\* What is kept of the lines, and how far it is, at every step of truncateLines.
THEOREM TruncateAlways == Spec => []TruncateInv
<1>1. Init => TruncateInv
  <2> SUFFICES ASSUME Init PROVE TruncateInv
    OBVIOUS
  <2>1. sizes = <<>> /\ nextLine = 1 /\ out = <<>> /\ total = 0 /\ truncateDone = FALSE
    BY DEF Init, TruncateInit
  <2>2. Len(sizes) = 0 /\ sizes \in Seq(Nat)
    BY <2>1
  <2>3. FirstKept = 1
    BY <2>2, TruncateAssumption DEF FirstKept, Dropped
  <2>4. QED
    BY <2>1, <2>2, <2>3, TruncateStarts DEF TruncateStart
<1>2. QED
  BY <1>1, FramingAlways, TruncateInductive, PTL DEF Spec

\* How many entries are the marker in front, lines, and the marker behind.
Lead  == IF Dropped THEN 1 ELSE 0
Kept  == nextLine - FirstKept
Trail == IF nextLine <= Len(sizes) THEN 1 ELSE 0

\* What truncateLines returns: the marker in front, the lines kept, the marker behind.
LEMMA ReturnedShape ==
  ASSUME TruncateInv, truncateDone
  PROVE  /\ Lead \in 0..1 /\ Kept \in Nat /\ Trail \in 0..1
         /\ Len(out) = Lead + Kept + Trail
         /\ Lead = 1 => out[1].line = 0
         /\ Trail = 1 => out[Len(out)].line = 0
         /\ \A i \in (Lead + 1)..(Lead + Kept) : out[i].line = FirstKept + i - Lead - 1
         /\ Cardinality(EntryBytes(out)) <= maxLogTotalBytes + Marker
<1>1. PICK kept :
        /\ IsKept(kept)
        /\ out = FrontMarker \o (IF nextLine <= Len(sizes) THEN Append(kept, MarkerEntry) ELSE kept)
  BY Zenon DEF TruncateInv
<1>2. /\ Len(sizes) \in Nat /\ FirstKept \in 1..(Len(sizes) + 1)
      /\ budget \in Nat /\ Marker \in Nat /\ maxLogTotalBytes \in Nat
      /\ budget = IF Dropped THEN maxLogTotalBytes - Marker ELSE maxLogTotalBytes
  BY FirstKeptType DEF TruncateInv
<1>3. nextLine \in FirstKept..(Len(sizes) + 1)
  BY DEF TruncateInv
<1>4. Lead \in 0..1 /\ Kept \in Nat /\ Trail \in 0..1
  BY <1>2, <1>3 DEF Lead, Kept, Trail
<1>5. PICK x : x = MarkerEntry
  OBVIOUS
<1>6. x \in Entries /\ x.line = 0 /\ x.size = Marker
  BY <1>2, <1>5 DEF MarkerEntry, Entries
<1>7. /\ kept \in Seq(Entries) /\ Len(kept) = Kept
      /\ \A i \in 1..Len(kept) : kept[i].line = FirstKept + i - 1
      /\ IsFiniteSet(EntryBytes(kept)) /\ Cardinality(EntryBytes(kept)) <= budget
  BY <1>1 DEF IsKept, Kept
<1>8. Cardinality(EntryBytes(kept)) \in Nat
  BY <1>7, FS_CardinalityType
<1>9. PICK m : m = IF nextLine <= Len(sizes) THEN Append(kept, x) ELSE kept
  BY Zenon
<1>10. /\ m \in Seq(Entries) /\ Len(m) = Kept + Trail
       /\ \A i \in 1..Kept : m[i].line = FirstKept + i - 1
       /\ Trail = 1 => m[Kept + 1].line = 0
       /\ IsFiniteSet(EntryBytes(m)) /\ Cardinality(EntryBytes(m)) \in Nat
       /\ Cardinality(EntryBytes(m)) <= budget + Marker
  <2>1. CASE nextLine <= Len(sizes)
    <3>1. m = Append(kept, x) /\ Trail = 1
      BY <1>9, <2>1 DEF Trail
    <3>2. IsFiniteSet(EntryBytes(m)) /\ Cardinality(EntryBytes(m)) = Cardinality(EntryBytes(kept)) + Marker
      BY <1>6, <1>7, <3>1, BytesAppended
    <3>3. m \in Seq(Entries) /\ Len(m) = Len(kept) + 1 /\ m[Len(kept) + 1] = x
          /\ \A i \in 1..Len(kept) : m[i] = kept[i]
      BY <1>6, <1>7, <3>1
    <3>4. Cardinality(EntryBytes(m)) \in Nat /\ Cardinality(EntryBytes(m)) <= budget + Marker
      BY <1>2, <1>7, <1>8, <3>2
    <3>5. QED
      BY <1>6, <1>7, <3>1, <3>2, <3>3, <3>4
  <2>2. CASE ~(nextLine <= Len(sizes))
    <3>1. m = kept /\ Trail = 0
      BY <1>9, <2>2 DEF Trail
    <3>2. Cardinality(EntryBytes(m)) <= budget + Marker
      BY <1>2, <1>7, <1>8, <3>1
    <3>3. QED
      BY <1>4, <1>7, <1>8, <3>1, <3>2
  <2>3. QED
    BY <2>1, <2>2
<1>11. CASE Dropped
  <2>1. out = <<x>> \o m /\ Lead = 1 /\ budget = maxLogTotalBytes - Marker
    BY <1>1, <1>2, <1>5, <1>9, <1>11 DEF FrontMarker, Lead
  <2>2. Cardinality(EntryBytes(out)) = Cardinality(EntryBytes(m)) + Marker
    BY <1>6, <1>10, <2>1, BytesPrepended
  <2>3. Len(out) = Len(m) + 1 /\ out[1] = x /\ \A i \in 1..Len(m) : out[i + 1] = m[i]
    BY <1>6, <1>10, <2>1
  <2>4. Cardinality(EntryBytes(out)) <= maxLogTotalBytes + Marker
    BY <1>2, <1>10, <2>1, <2>2
  <2>5. Len(out) = Lead + Kept + Trail
    BY <1>4, <1>10, <2>1, <2>3
  <2>6. ASSUME NEW i \in (Lead + 1)..(Lead + Kept) PROVE out[i].line = FirstKept + i - Lead - 1
    <3>1. i - 1 \in 1..Kept /\ (i - 1) + 1 = i /\ i - 1 \in 1..Len(m) /\ i \in Int
      BY <1>4, <1>10, <2>1
    <3>2. out[i] = m[i - 1]
      BY <2>3, <3>1
    <3>3. m[i - 1].line = FirstKept + (i - 1) - 1
      BY <1>10, <3>1
    <3>4. QED
      BY <1>2, <2>1, <3>1, <3>2, <3>3
  <2>7. Trail = 1 => out[Len(out)].line = 0
    <3> SUFFICES ASSUME Trail = 1 PROVE out[Len(out)].line = 0
      OBVIOUS
    <3>1. Kept + 1 \in 1..Len(m) /\ Len(out) = (Kept + 1) + 1
      BY <1>4, <1>10, <2>1, <2>5
    <3>2. QED
      BY <1>10, <2>3, <3>1
  <2>8. QED
    BY <1>4, <1>6, <2>3, <2>4, <2>5, <2>6, <2>7
<1>12. CASE ~Dropped
  <2>1. out = m /\ Lead = 0 /\ budget = maxLogTotalBytes
    BY <1>1, <1>2, <1>5, <1>9, <1>10, <1>12 DEF FrontMarker, Lead
  <2>2. Len(out) = Lead + Kept + Trail
    BY <1>4, <1>10, <2>1
  <2>3. ASSUME NEW i \in (Lead + 1)..(Lead + Kept) PROVE out[i].line = FirstKept + i - Lead - 1
    BY <1>2, <1>4, <1>10, <2>1
  <2>4. QED
    BY <1>4, <1>10, <2>1, <2>2, <2>3
<1>13. QED
  BY <1>11, <1>12

\* The invariant implies that what is returned fits the limits,
LEMMA InvFitsTheLimits == TruncateInv => FitsTheLimits
<1> SUFFICES ASSUME TruncateInv, truncateDone
             PROVE  Len(out) <= MaxLogLines /\ Cardinality(EntryBytes(out)) <= maxLogTotalBytes + Marker
  BY DEF FitsTheLimits
<1>1. Len(out) = Lead + Kept + Trail /\ Cardinality(EntryBytes(out)) <= maxLogTotalBytes + Marker
  BY ReturnedShape
<1>2. /\ Len(sizes) \in Nat /\ FirstKept \in 1..(Len(sizes) + 1) /\ MaxLogLines \in Nat \ {0}
      /\ Dropped => FirstKept = Len(sizes) - MaxLogLines + 2
      /\ ~Dropped => FirstKept = 1 /\ Len(sizes) <= MaxLogLines
      /\ nextLine \in FirstKept..(Len(sizes) + 1)
  BY FirstKeptType DEF TruncateInv
<1>3. Kept + Trail <= Len(sizes) + 1 - FirstKept /\ Kept \in Nat /\ Trail \in Nat
  BY <1>2 DEF Kept, Trail
<1>4. CASE Dropped
  <2>1. Lead = 1
    BY <1>4 DEF Lead
  <2>2. QED
    BY <1>1, <1>2, <1>3, <1>4, <2>1
<1>5. CASE ~Dropped
  <2>1. Lead = 0
    BY <1>5 DEF Lead
  <2>2. QED
    BY <1>1, <1>2, <1>3, <1>5, <2>1
<1>6. QED
  BY <1>4, <1>5

\* and that what is missing is marked.
LEMMA InvOmissionsAreMarked == TruncateInv => OmissionsAreMarked
<1> SUFFICES ASSUME TruncateInv, truncateDone, sizes # <<>>
             PROVE  /\ out # <<>> /\ out[1].line \in {0, 1} /\ Last(out).line \in {0, Len(sizes)}
                    /\ \A i \in 2..(Len(out) - 1) : out[i].line # 0
                    /\ \A i \in 1..(Len(out) - 1) :
                         out[i].line # 0 /\ out[i + 1].line # 0 => out[i + 1].line = out[i].line + 1
  BY Zenon DEF OmissionsAreMarked
<1> DEFINE n == Len(sizes)
<1>1. n \in Nat \ {0}
  BY DEF TruncateInv
<1>2. /\ FirstKept \in 1..(n + 1) /\ nextLine \in FirstKept..(n + 1)
      /\ ~Dropped => FirstKept = 1
  BY FirstKeptType DEF TruncateInv
<1>3. /\ Lead \in 0..1 /\ Kept \in Nat /\ Trail \in 0..1
      /\ Len(out) = Lead + Kept + Trail
      /\ Lead = 1 => out[1].line = 0
      /\ Trail = 1 => out[Len(out)].line = 0
      /\ \A i \in (Lead + 1)..(Lead + Kept) : out[i].line = FirstKept + i - Lead - 1
  BY ReturnedShape
<1>4. /\ FirstKept \in Nat \ {0} /\ nextLine \in Nat \ {0} /\ FirstKept + Kept = nextLine
      /\ Trail = 0 => nextLine = n + 1
      /\ Lead = 0 => FirstKept = 1
  BY <1>1, <1>2 DEF Kept, Trail, Lead
<1> HIDE DEF n
<1>5. Len(out) >= 1
  BY <1>1, <1>3, <1>4
<1>6. out # <<>>
  BY <1>5
<1>7. out[1].line \in {0, 1}
  <2>1. CASE Lead = 0 /\ Kept # 0
    <3>1. 1 \in (Lead + 1)..(Lead + Kept)
      BY <1>3, <2>1
    <3>2. out[1].line = FirstKept + 1 - Lead - 1
      BY <1>3, <3>1
    <3>3. QED
      BY <1>4, <2>1, <3>2
  <2>2. CASE Lead = 0 /\ Kept = 0
    <3>1. Trail = 1 /\ Len(out) = 1
      BY <1>3, <1>5, <2>2
    <3>2. QED
      BY <1>3, <3>1, Zenon
  <2>3. QED
    BY <1>3, <2>1, <2>2
<1>8. Last(out).line \in {0, n}
  <2>1. Last(out) = out[Len(out)]
    BY DEF Last
  <2>2. CASE Trail = 0 /\ Kept # 0
    <3>1. Len(out) \in (Lead + 1)..(Lead + Kept) /\ Len(out) = Lead + Kept
      BY <1>3, <2>2
    <3>2. out[Len(out)].line = FirstKept + Len(out) - Lead - 1
      BY <1>3, <3>1
    <3>3. out[Len(out)].line = n
      BY <1>1, <1>3, <1>4, <2>2, <3>1, <3>2
    <3>4. QED
      BY <2>1, <3>3
  <2>3. CASE Trail = 0 /\ Kept = 0
    <3>1. Lead = 1 /\ Len(out) = 1
      BY <1>3, <1>5, <2>3
    <3>2. QED
      BY <1>3, <2>1, <3>1, Zenon
  <2>4. QED
    BY <1>3, <2>1, <2>2, <2>3
<1>9. ASSUME NEW i \in 2..(Len(out) - 1) PROVE out[i].line # 0
  <2>1. i \in (Lead + 1)..(Lead + Kept) /\ i \in Nat /\ i >= Lead + 1
    BY <1>3
  <2>2. out[i].line = FirstKept + i - Lead - 1
    BY <1>3, <2>1
  <2>3. QED
    BY <1>3, <1>4, <2>1, <2>2
<1>10. ASSUME NEW i \in 1..(Len(out) - 1), out[i].line # 0, out[i + 1].line # 0
       PROVE  out[i + 1].line = out[i].line + 1
  <2>1. i \in Nat /\ i >= 1 /\ i + 1 <= Len(out) /\ Len(out) \in Nat
    BY <1>3
  <2>2. i >= Lead + 1
    <3>1. ~(Lead = 1 /\ i = 1)
      BY <1>3, <1>10
    <3>2. QED
      BY <1>3, <2>1, <3>1
  <2>3. i + 1 <= Lead + Kept
    <3>1. ~(Trail = 1 /\ i + 1 = Len(out))
      BY <1>3, <1>10
    <3>2. QED
      BY <1>3, <2>1, <3>1
  <2>4. i \in (Lead + 1)..(Lead + Kept) /\ i + 1 \in (Lead + 1)..(Lead + Kept)
    BY <1>3, <2>1, <2>2, <2>3
  <2>5. out[i].line = FirstKept + i - Lead - 1 /\ out[i + 1].line = FirstKept + (i + 1) - Lead - 1
    BY <1>3, <2>4
  <2>6. QED
    BY <1>3, <1>4, <2>1, <2>5
<1>11. QED
  BY <1>6, <1>7, <1>8, <1>9, <1>10 DEF n

\* The lines written to the report fit the list limit, markers included, and the byte
\* cap by a marker, for every number and lengths of lines and every value of the limits
\* (truncateLines).
THEOREM TheLimitsAreKept == Spec => []FitsTheLimits
BY TruncateAlways, InvFitsTheLimits, PTL

\* No line goes missing without a marker where it is missing (truncateLines).
THEOREM OmissionsAreAlwaysMarked == Spec => []OmissionsAreMarked
BY TruncateAlways, InvOmissionsAreMarked, PTL

-----------------------------------------------------------------------------
\* The log block of a Slack message.

\* The kinds of characters, and the bytes they become.
Kinds == {"plain", "markup", "wide", "newline"}

SlackBytes == [char : Nat, start : BOOLEAN, newline : BOOLEAN]

\* Where the lines end, and where runes start.
LineEnds(e) == {i \in 1..Len(e) : e[i].newline}

RuneStarts(e) == {i \in 1..Len(e) : e[i].start}

\* A character has one to five bytes, a line break one.
LEMMA WidthType == \A c : Width(c) \in 1..5 /\ (c = "newline" => Width(c) = 1)
BY DEF Width

\* The bytes of a text, counted character by character.
LEMMA CharBytesMember ==
  ASSUME NEW t, NEW n \in Nat, NEW b
  PROVE  b \in CharBytes(t, n) <=> \E i \in 1..n : \E j \in 1..Width(t[i]) : b = <<i, j>>
BY DEF CharBytes

\* A text has finitely many bytes,
LEMMA CharBytesFinite ==
  ASSUME NEW t, NEW n \in Nat
  PROVE  IsFiniteSet(CharBytes(t, n)) /\ Cardinality(CharBytes(t, n)) \in Nat
<1>1. CharBytes(t, n) \subseteq (1..n) \X (1..5)
  <2> SUFFICES ASSUME NEW b \in CharBytes(t, n) PROVE b \in (1..n) \X (1..5)
    OBVIOUS
  <2>1. PICK i \in 1..n : \E j \in 1..Width(t[i]) : b = <<i, j>>
    BY CharBytesMember
  <2>2. PICK j \in 1..Width(t[i]) : b = <<i, j>>
    BY <2>1
  <2>3. j \in 1..5
    BY WidthType
  <2>4. QED
    BY <2>2, <2>3
<1>2. IsFiniteSet(1..n) /\ IsFiniteSet(1..5)
  BY CountedTo, Zenon
<1>3. IsFiniteSet((1..n) \X (1..5))
  BY <1>2, FS_Product, Zenon
<1>4. IsFiniteSet(CharBytes(t, n))
  BY <1>1, <1>3, FS_Subset, Zenon
<1>5. QED
  BY <1>4, FS_CardinalityType

\* a longer one no fewer,
LEMMA CharBytesGrow ==
  ASSUME NEW t, NEW n \in Nat, NEW m \in Nat, n <= m
  PROVE  Cardinality(CharBytes(t, n)) <= Cardinality(CharBytes(t, m))
<1>1. CharBytes(t, n) \subseteq CharBytes(t, m)
  <2>1. \A i \in 1..n : i \in 1..m
    OBVIOUS
  <2>2. ASSUME NEW b \in CharBytes(t, n) PROVE b \in CharBytes(t, m)
    <3>1. PICK i \in 1..n : \E j \in 1..Width(t[i]) : b = <<i, j>>
      BY CharBytesMember
    <3>2. i \in 1..m /\ \E j \in 1..Width(t[i]) : b = <<i, j>>
      BY <2>1, <3>1
    <3>3. QED
      BY <3>2, CharBytesMember
  <2>3. QED
    BY <2>2
<1>2. QED
  BY <1>1, CharBytesFinite, FS_Subset

\* and a character adds its width.
LEMMA CharBytesStep ==
  ASSUME NEW t, NEW n \in Nat
  PROVE  Cardinality(CharBytes(t, n + 1)) = Cardinality(CharBytes(t, n)) + Width(t[n + 1])
<1> DEFINE A == CharBytes(t, n)
           w == Width(t[n + 1])
           B == {n + 1} \X (1..w)
<1>1. w \in Nat
  BY WidthType
<1>2. IsFiniteSet(A) /\ Cardinality(A) \in Nat
  BY CharBytesFinite
<1>3. CharBytes(t, n + 1) = A \cup B
  <2>1. 1..(n + 1) = (1..n) \cup {n + 1} /\ n + 1 \in Nat
    OBVIOUS
  <2>2. \A b : b \in B <=> \E j \in 1..w : b = <<n + 1, j>>
    OBVIOUS
  <2>3. ASSUME NEW b
        PROVE  b \in CharBytes(t, n + 1) <=> \E i \in 1..(n + 1) : \E j \in 1..Width(t[i]) : b = <<i, j>>
    BY <2>1, CharBytesMember
  <2>4. ASSUME NEW b PROVE b \in A <=> \E i \in 1..n : \E j \in 1..Width(t[i]) : b = <<i, j>>
    BY CharBytesMember
  <2> HIDE DEF A, B
  <2>5. QED
    BY <2>1, <2>2, <2>3, <2>4, Zenon DEF w
<1>4. A \cap B = {}
  <2>1. \A b \in A : b[1] \in 1..n
    BY CharBytesMember
  <2>2. \A b \in B : b[1] = n + 1
    OBVIOUS
  <2>3. n + 1 \notin 1..n
    OBVIOUS
  <2>4. QED
    BY <2>1, <2>2, <2>3, Zenon
<1>5. IsFiniteSet(B) /\ Cardinality(B) = w
  <2>1. IsFiniteSet({n + 1}) /\ Cardinality({n + 1}) = 1
    BY FS_Singleton, Zenon
  <2> HIDE DEF w
  <2>2. IsFiniteSet(1..w) /\ Cardinality(1..w) = w
    BY <1>1, CountedTo
  <2>3. IsFiniteSet(B) /\ Cardinality(B) = Cardinality({n + 1}) * Cardinality(1..w)
    BY <2>1, <2>2, FS_Product, Zenon
  <2>4. QED
    BY <1>1, <2>1, <2>2, <2>3
<1> HIDE DEF A, B, w
<1>6. Cardinality(A \cup B) = Cardinality(A) + Cardinality(B) - Cardinality(A \cap B)
  BY <1>2, <1>5, FS_Union
<1>7. Cardinality(A \cap B) = 0
  BY <1>4, FS_EmptySet, Zenon
<1>8. Cardinality(A \cup B) = Cardinality(A) + w
  BY <1>1, <1>2, <1>5, <1>6, <1>7
<1>9. QED
  BY <1>3, <1>8, Zenon DEF A, w

\* A byte of character i stands after those of the characters before it.
LEMMA IndexIs ==
  ASSUME NEW t, NEW n \in Nat, NEW i \in 1..n, NEW j \in 1..Width(t[i])
  PROVE  /\ Index(t, <<i, j>>) = Cardinality(CharBytes(t, i - 1)) + j
         /\ Index(t, <<i, j>>) \in Nat \ {0}
         /\ Index(t, <<i, j>>) <= Cardinality(CharBytes(t, i))
         /\ Cardinality(CharBytes(t, i)) <= Cardinality(CharBytes(t, n))
<1>1. Index(t, <<i, j>>) = Cardinality(CharBytes(t, i - 1)) + j
  BY DEF Index
<1>2. i - 1 \in Nat /\ (i - 1) + 1 = i /\ i \in Nat /\ i <= n
  OBVIOUS
<1>3. Cardinality(CharBytes(t, i)) = Cardinality(CharBytes(t, i - 1)) + Width(t[i])
  BY <1>2, CharBytesStep
<1>4. Cardinality(CharBytes(t, i - 1)) \in Nat /\ Width(t[i]) \in Nat
  BY <1>2, CharBytesFinite, WidthType
<1>5. Cardinality(CharBytes(t, i)) <= Cardinality(CharBytes(t, n))
  BY <1>2, CharBytesGrow
<1>6. QED
  BY <1>1, <1>3, <1>4, <1>5

\* Of two bytes of different characters the one of the earlier character comes first.
LEMMA IndexOrders ==
  ASSUME NEW t, NEW n \in Nat, NEW i \in 1..n, NEW j \in 1..Width(t[i]),
         NEW k \in 1..n, NEW l \in 1..Width(t[k]), i < k
  PROVE  Index(t, <<i, j>>) < Index(t, <<k, l>>)
<1>1. Index(t, <<i, j>>) <= Cardinality(CharBytes(t, i)) /\ Index(t, <<i, j>>) \in Nat
  BY IndexIs
<1>2. Index(t, <<k, l>>) = Cardinality(CharBytes(t, k - 1)) + l
  BY DEF Index
<1>3. i \in Nat /\ k - 1 \in Nat /\ i <= k - 1 /\ l \in Nat \ {0}
  BY WidthType
<1>4. Cardinality(CharBytes(t, i)) <= Cardinality(CharBytes(t, k - 1))
  BY <1>3, CharBytesGrow
<1>5. Cardinality(CharBytes(t, i)) \in Nat /\ Cardinality(CharBytes(t, k - 1)) \in Nat
  BY <1>3, CharBytesFinite
<1>6. QED
  BY <1>1, <1>2, <1>3, <1>4, <1>5

\* Every index has its byte.
LEMMA EveryIndexHasAByte ==
  ASSUME NEW t, NEW n \in Nat, NEW k \in 1..Cardinality(CharBytes(t, n))
  PROVE  \E b \in CharBytes(t, n) : Index(t, b) = k
<1> DEFINE A == CharBytes(t, n)
           N == Cardinality(A)
           f == [b \in A |-> Index(t, b)]
<1>1. N \in Nat /\ IsFiniteSet(A)
  BY CharBytesFinite
<1>2. \A b \in A : Index(t, b) \in 1..N
  <2> SUFFICES ASSUME NEW b \in A PROVE Index(t, b) \in 1..N
    OBVIOUS
  <2>1. PICK i \in 1..n : \E j \in 1..Width(t[i]) : b = <<i, j>>
    BY CharBytesMember
  <2>2. PICK j \in 1..Width(t[i]) : b = <<i, j>>
    BY <2>1
  <2>3. /\ Index(t, <<i, j>>) \in Nat \ {0} /\ Index(t, <<i, j>>) <= Cardinality(CharBytes(t, i))
        /\ Cardinality(CharBytes(t, i)) <= N /\ Cardinality(CharBytes(t, i)) \in Nat
    BY IndexIs, CharBytesFinite
  <2> HIDE DEF N
  <2>4. QED
    BY <1>1, <2>2, <2>3
<1>3. \A b, c \in A : Index(t, b) = Index(t, c) => b = c
  <2> SUFFICES ASSUME NEW b \in A, NEW c \in A, Index(t, b) = Index(t, c) PROVE b = c
    OBVIOUS
  <2>1. PICK i \in 1..n : \E j \in 1..Width(t[i]) : b = <<i, j>>
    BY CharBytesMember
  <2>2. PICK j \in 1..Width(t[i]) : b = <<i, j>>
    BY <2>1
  <2>3. PICK g \in 1..n : \E h \in 1..Width(t[g]) : c = <<g, h>>
    BY CharBytesMember
  <2>4. PICK h \in 1..Width(t[g]) : c = <<g, h>>
    BY <2>3
  <2>5. Index(t, b) = Index(t, <<i, j>>) /\ Index(t, c) = Index(t, <<g, h>>)
        /\ Index(t, b) \in Nat /\ Index(t, c) \in Nat
    BY <1>1, <1>2, <2>2, <2>4
  <2>6. ~(i < g) /\ ~(g < i)
    <3>1. PICK x : x = Index(t, <<i, j>>) /\ x = Index(t, <<g, h>>) /\ x \in Nat
      BY <2>5, Zenon
    <3>2. ~(x < x)
      BY <3>1
    <3>3. ASSUME i < g PROVE Index(t, <<i, j>>) < Index(t, <<g, h>>)
      BY <3>3, IndexOrders
    <3>4. ASSUME g < i PROVE Index(t, <<g, h>>) < Index(t, <<i, j>>)
      BY <3>4, IndexOrders
    <3>5. QED
      BY <3>1, <3>2, <3>3, <3>4, Zenon
  <2>7. i = g
    BY <2>6
  <2>8. /\ Index(t, <<i, j>>) = Cardinality(CharBytes(t, i - 1)) + j
        /\ Index(t, <<g, h>>) = Cardinality(CharBytes(t, g - 1)) + h
    BY DEF Index
  <2>9. i - 1 \in Nat /\ j \in Nat /\ h \in Nat
    BY WidthType
  <2>10. PICK C : C = Cardinality(CharBytes(t, i - 1)) /\ C \in Nat
    BY <2>9, CharBytesFinite
  <2>11. j = h
    <3>1. C + j = C + h
      BY <2>5, <2>7, <2>8, <2>10, Zenon
    <3>2. QED
      BY <2>9, <2>10, <3>1
  <2>12. QED
    BY <2>2, <2>4, <2>7, <2>11
<1> HIDE DEF A, N
<1>4. f \in Injection(A, 1..N)
  <2>1. f \in [A -> 1..N]
    BY <1>2
  <2>2. QED
    BY <1>3, <2>1 DEF Injection, IsInjective
<1>5. IsFiniteSet(1..N) /\ Cardinality(1..N) = Cardinality(A)
  BY <1>1, CountedTo DEF N
<1> HIDE DEF f
<1>6. f \in Surjection(A, 1..N)
  BY <1>4, <1>5, FS_Injection
<1>7. k \in 1..N
  BY DEF N, A
<1>8. PICK b \in A : f[b] = k
  BY <1>6, <1>7 DEF Surjection
<1>9. QED
  BY <1>8 DEF f, A

\* An escaped line break is one byte, and what follows it starts a rune.
LEMMA EscapedBytes ==
  ASSUME NEW t \in Seq(Kinds), NEW e, e = escapeSlackText(t)
  PROVE  /\ e \in Seq(SlackBytes)
         /\ LineEnds(e) \subseteq RuneStarts(e)
         /\ \A k \in LineEnds(e) : k + 1 <= Len(e) => k + 1 \in RuneStarts(e)
<1> DEFINE n == Len(t)
           A == CharBytes(t, n)
           N == Cardinality(A)
           at(k) == CHOOSE b \in A : Index(t, b) = k
<1>1. n \in Nat /\ N \in Nat
  BY CharBytesFinite
<1>2. e = [k \in 1..N |-> [char |-> at(k)[1], start |-> t[at(k)[1]] # "wide" \/ at(k)[2] = 1,
                           newline |-> t[at(k)[1]] = "newline"]]
  BY DEF escapeSlackText
<1>3. ASSUME NEW k \in 1..N PROVE at(k) \in A /\ Index(t, at(k)) = k
  BY <1>1, EveryIndexHasAByte
<1> HIDE DEF N, at
<1>4. ASSUME NEW k \in 1..N
      PROVE  \E i \in 1..n : \E j \in 1..Width(t[i]) : at(k) = <<i, j>> /\ Index(t, <<i, j>>) = k
  <2>1. PICK b : b = at(k) /\ b \in CharBytes(t, n)
    BY <1>3, Zenon
  <2>2. PICK i \in 1..n : \E j \in 1..Width(t[i]) : b = <<i, j>>
    BY <1>1, <2>1, CharBytesMember
  <2>3. PICK j \in 1..Width(t[i]) : b = <<i, j>>
    BY <2>2, Zenon
  <2>4. QED
    BY <1>3, <2>1, <2>3, Zenon
<1>5. ASSUME NEW k \in 1..N
      PROVE  /\ e[k] \in SlackBytes
             /\ e[k].start <=> (t[at(k)[1]] # "wide" \/ at(k)[2] = 1)
             /\ e[k].newline <=> t[at(k)[1]] = "newline"
  <2>1. PICK i \in 1..n : \E j \in 1..Width(t[i]) : at(k) = <<i, j>>
    BY <1>4, Zenon
  <2>2. PICK j : at(k) = <<i, j>>
    BY <2>1
  <2>3. e[k] = [char |-> i, start |-> t[i] # "wide" \/ j = 1, newline |-> t[i] = "newline"]
    BY <1>2, <2>2
  <2>4. i \in Nat
    BY <1>1
  <2>5. PICK st \in BOOLEAN : st = (t[i] # "wide" \/ j = 1)
    BY Zenon
  <2>6. PICK nl \in BOOLEAN : nl = (t[i] = "newline")
    BY Zenon
  <2>7. e[k] = [char |-> i, start |-> st, newline |-> nl]
    BY <2>3, <2>5, <2>6, Zenon
  <2>8. e[k] \in SlackBytes /\ e[k].start = st /\ e[k].newline = nl
    BY <2>4, <2>7 DEF SlackBytes
  <2>9. at(k)[1] = i /\ at(k)[2] = j
    BY <2>2
  <2>10. QED
    BY <2>5, <2>6, <2>8, <2>9, Zenon
<1>6. Len(e) = N /\ e \in Seq(SlackBytes)
  <2>1. e = [k \in 1..N |-> e[k]]
    BY <1>2
  <2>2. e \in [1..N -> SlackBytes]
    BY <1>5, <2>1
  <2>3. QED
    BY <1>1, <2>2
<1>7. LineEnds(e) \subseteq RuneStarts(e)
  BY <1>5, <1>6 DEF LineEnds, RuneStarts
<1>8. ASSUME NEW k \in LineEnds(e), k + 1 <= Len(e) PROVE k + 1 \in RuneStarts(e)
  <2>1. k \in 1..N /\ k + 1 \in 1..N /\ k \in Nat
    BY <1>1, <1>6, <1>8 DEF LineEnds
  <2>2. t[at(k)[1]] = "newline"
    BY <1>5, <2>1 DEF LineEnds
  <2>3. PICK i \in 1..n : \E j \in 1..Width(t[i]) : at(k) = <<i, j>> /\ Index(t, <<i, j>>) = k
    BY <1>4, <2>1
  <2>4. PICK j \in 1..Width(t[i]) : at(k) = <<i, j>> /\ Index(t, <<i, j>>) = k
    BY <2>3, Zenon
  <2>5. Width(t[i]) = 1 /\ j = 1
    <3>1. t[i] = "newline"
      BY <2>2, <2>4
    <3>2. Width(t[i]) = 1
      BY <3>1, WidthType
    <3>3. QED
      BY <3>2
  <2>6. PICK g \in 1..n : \E h \in 1..Width(t[g]) : at(k + 1) = <<g, h>> /\ Index(t, <<g, h>>) = k + 1
    BY <1>4, <2>1
  <2>7. PICK h \in 1..Width(t[g]) : at(k + 1) = <<g, h>> /\ Index(t, <<g, h>>) = k + 1
    BY <2>6, Zenon
  <2>8. i \in Nat /\ i - 1 \in Nat /\ g \in Nat /\ g - 1 \in Nat /\ h \in Nat \ {0}
        /\ (i - 1) + 1 = i
    BY <1>1, WidthType
  <2>9. Cardinality(CharBytes(t, i)) = k
    <3>1. Cardinality(CharBytes(t, i)) = Cardinality(CharBytes(t, i - 1)) + 1
      BY <2>5, <2>8, CharBytesStep
    <3>2. Index(t, <<i, j>>) = Cardinality(CharBytes(t, i - 1)) + j
      BY DEF Index
    <3>3. QED
      BY <2>4, <2>5, <3>1, <3>2
  <2>10. i < g
    <3>1. ASSUME g <= i PROVE Cardinality(CharBytes(t, g)) <= Cardinality(CharBytes(t, i))
      BY <2>8, <3>1, CharBytesGrow
    <3>2. Index(t, <<g, h>>) <= Cardinality(CharBytes(t, g))
      BY <1>1, IndexIs
    <3>3. PICK C : C = Cardinality(CharBytes(t, g)) /\ C \in Nat
      BY <2>8, CharBytesFinite
    <3>4. k + 1 <= C /\ (g <= i => C <= k)
      BY <2>7, <2>9, <3>1, <3>2, <3>3
    <3>5. QED
      BY <2>1, <2>8, <3>3, <3>4
  <2>11. h = 1
    <3>1. i <= g - 1
      BY <2>8, <2>10
    <3>2. Cardinality(CharBytes(t, i)) <= Cardinality(CharBytes(t, g - 1))
      BY <2>8, <3>1, CharBytesGrow
    <3>3. PICK C : C = Cardinality(CharBytes(t, g - 1)) /\ C \in Nat
      BY <2>8, CharBytesFinite
    <3>4. Index(t, <<g, h>>) = Cardinality(CharBytes(t, g - 1)) + h
      BY DEF Index
    <3>5. k <= C /\ k + 1 = C + h
      BY <2>7, <2>9, <3>2, <3>3, <3>4
    <3>6. QED
      BY <2>1, <2>8, <3>3, <3>5
  <2>12. at(k + 1)[2] = 1
    BY <2>7, <2>11
  <2>13. e[k + 1].start
    BY <1>5, <2>1, <2>12
  <2>14. QED
    BY <1>6, <2>1, <2>13 DEF RuneStarts
<1>9. QED
  BY <1>6, <1>7, <1>8

\* The walk ends at the first rune that starts at the cut or after it, or at the end.
LEMMA RuneBoundaryIs ==
  ASSUME NEW e \in Seq(SlackBytes), NEW c \in 1..(Len(e) + 1)
  PROVE  /\ RuneBoundary(e, c) \in c..(Len(e) + 1)
         /\ RuneBoundary(e, c) <= Len(e) => RuneBoundary(e, c) \in RuneStarts(e)
         /\ \A j \in c..(RuneBoundary(e, c) - 1) : j \notin RuneStarts(e)
<1> DEFINE n == Len(e)
           S == {i \in c..(n + 1) : i > n \/ i \in RuneStarts(e)}
           P(i) == (i > n \/ e[i].start) /\ \A j \in c..(i - 1) : ~e[j].start
<1>1. n \in Nat /\ c \in Nat \ {0}
  OBVIOUS
<1>2. n + 1 \in S /\ S \subseteq Nat
  BY <1>1
<1>3. PICK m \in S : \A i \in S : m <= i
  BY <1>2, HasLeast, Zenon
<1>4. ASSUME NEW i \in 1..n PROVE e[i].start <=> i \in RuneStarts(e)
  BY DEF RuneStarts
<1>5. m \in c..(n + 1) /\ (m > n \/ m \in RuneStarts(e)) /\ \A j \in c..(m - 1) : j \notin S
  BY <1>1, <1>3
<1>6. \A j \in c..(m - 1) : j \in 1..n
  BY <1>1, <1>5
<1>7. \A j \in c..(m - 1) : j \notin RuneStarts(e)
  BY <1>1, <1>5, <1>6
<1>8. m > n \/ m \in 1..n
  BY <1>1, <1>5
<1>9. P(m)
  BY <1>4, <1>5, <1>6, <1>7, <1>8, Zenon
<1>10. RuneBoundary(e, c) = CHOOSE i \in c..(n + 1) : P(i)
  BY Zenon DEF RuneBoundary
<1>11. PICK r : r = RuneBoundary(e, c)
  OBVIOUS
<1>12. r \in c..(n + 1) /\ P(r)
  BY <1>5, <1>9, <1>10, <1>11, Zenon
<1>13. r <= n => r \in 1..n /\ ~(r > n)
  BY <1>1, <1>12
<1>14. \A j \in c..(r - 1) : j \in 1..n
  BY <1>1, <1>12
<1>15. (r <= n => r \in RuneStarts(e)) /\ \A j \in c..(r - 1) : j \notin RuneStarts(e)
  BY <1>4, <1>12, <1>13, <1>14, Zenon
<1>16. QED
  BY <1>11, <1>12, <1>15

\* FromNextLine leaves what follows from s on: all of it if no line starts in it, or
\* else what starts at the first of its lines.
NextLineAt(e, s) ==
  /\ FromNextLine(e) = SubSeq(e, s, Len(e))
  /\ \/ s = 1 /\ \A i \in LineEnds(e) : i = Len(e)
     \/ s - 1 \in LineEnds(e) /\ s <= Len(e)
  /\ \A i \in LineEnds(e) : i < Len(e) => s <= i + 1

\* FromNextLine is what NextLineAt says.
LEMMA FromNextLineIs ==
  ASSUME NEW e \in Seq(SlackBytes)
  PROVE  \E s \in 1..(Len(e) + 1) : NextLineAt(e, s)
<1> DEFINE n == Len(e)
           B == LineEnds(e)
<1>1. n \in Nat
  OBVIOUS
<1>2. B \subseteq 1..n /\ B \subseteq Nat
  BY DEF LineEnds
<1>3. FromNextLine(e) = IF B # {} /\ Min(B) < n THEN SubSeq(e, Min(B) + 1, n) ELSE e
  BY Zenon DEF FromNextLine, LineEnds
<1> HIDE DEF B, n
<1>4. ASSUME B # {} PROVE Min(B) \in B /\ Min(B) \in 1..n /\ \A i \in B : Min(B) <= i
  BY <1>2, <1>4, MinIsLeast, Zenon
<1>5. CASE B # {} /\ Min(B) < n
  <2>1. PICK s : s = Min(B) + 1
    OBVIOUS
  <2>2. s \in 1..(n + 1) /\ s - 1 \in B /\ s <= n /\ FromNextLine(e) = SubSeq(e, s, n)
    <3>1. FromNextLine(e) = SubSeq(e, s, n)
      BY <1>3, <1>5, <2>1, Zenon
    <3>2. PICK m \in B : m = Min(B) /\ m \in 1..n
      BY <1>4, <1>5, Zenon
    <3>3. s = m + 1 /\ m < n
      BY <1>5, <2>1, <3>2, Zenon
    <3>4. s \in 1..(n + 1) /\ s - 1 = m /\ s <= n
      BY <1>1, <3>2, <3>3
    <3>5. QED
      BY <3>1, <3>2, <3>4, Zenon
  <2>3. \A i \in B : s <= i + 1
    BY <1>1, <1>2, <1>4, <1>5, <2>1
  <2>4. NextLineAt(e, s)
    BY <2>2, <2>3, Zenon DEF n, B, NextLineAt
  <2>5. s \in 1..(Len(e) + 1)
    BY <2>2 DEF n
  <2>6. QED
    BY <2>4, <2>5, Zenon
<1>6. CASE ~(B # {} /\ Min(B) < n)
  <2>1. \A i \in B : i = n
    BY <1>1, <1>2, <1>4, <1>6
  <2>2. FromNextLine(e) = e
    BY <1>3, <1>6
  <2>3. e = SubSeq(e, 1, n)
    BY DEF n
  <2>4. 1 \in 1..(n + 1) /\ \A i \in B : i < n => 1 <= i + 1
    BY <1>1, <1>2
  <2>5. NextLineAt(e, 1)
    BY <2>1, <2>2, <2>3, <2>4, Zenon DEF n, B, NextLineAt
  <2>6. QED
    BY <2>4, <2>5 DEF n
<1>7. QED
  BY <1>5, <1>6

\* The end of the end of a sequence.
LEMMA EndOfEnd ==
  ASSUME NEW X, NEW e \in Seq(X), NEW c \in 1..(Len(e) + 1), NEW s \in 1..(Len(e) - c + 2)
  PROVE  /\ SubSeq(e, c, Len(e)) \in Seq(X) /\ Len(SubSeq(e, c, Len(e))) = Len(e) - c + 1
         /\ \A i \in 1..(Len(e) - c + 1) : SubSeq(e, c, Len(e))[i] = e[c + i - 1]
         /\ SubSeq(SubSeq(e, c, Len(e)), s, Len(e) - c + 1) = SubSeq(e, c + s - 1, Len(e))
<1> DEFINE n == Len(e)
           d == SubSeq(e, c, n)
           f == SubSeq(d, s, n - c + 1)
           g == SubSeq(e, c + s - 1, n)
<1>1. n \in Nat
  OBVIOUS
<1>2. d \in Seq(X) /\ Len(d) = n - c + 1 /\ \A i \in 1..(n - c + 1) : d[i] = e[c + i - 1]
  BY <1>1
<1> HIDE DEF d
<1>3. f \in Seq(X) /\ Len(f) = n - c - s + 2 /\ \A i \in 1..Len(f) : f[i] = d[s + i - 1]
  BY <1>1, <1>2
<1>4. g \in Seq(X) /\ Len(g) = n - c - s + 2 /\ \A i \in 1..Len(g) : g[i] = e[c + s - 1 + i - 1]
  BY <1>1
<1> HIDE DEF f, g, n
<1>5. ASSUME NEW i \in 1..Len(f) PROVE f[i] = g[i]
  <2>1. s + i - 1 \in 1..(n - c + 1) /\ c + (s + i - 1) - 1 = c + s - 1 + i - 1 /\ i \in 1..Len(g)
    BY <1>1, <1>3, <1>4 DEF n
  <2>2. f[i] = d[s + i - 1] /\ g[i] = e[c + s - 1 + i - 1]
    BY <1>3, <1>4, <2>1
  <2>3. d[s + i - 1] = e[c + (s + i - 1) - 1]
    BY <1>2, <2>1, Zenon
  <2>4. QED
    BY <2>1, <2>2, <2>3
<1>6. f = g
  BY <1>3, <1>4, <1>5, SameSeq
<1>7. QED
  BY <1>2, <1>6 DEF d, f, g, n

\* A block that had to be cut: the log from some byte on, which starts a rune, and a
\* line if one starts in what could be kept.
CutAt(e, keep, b, first) ==
  /\ b = SubSeq(e, first, Len(e))
  /\ first <= Len(e) => first \in RuneStarts(e)
  /\ \A i \in LineEnds(e) : i >= Len(e) - keep + 1 /\ i < Len(e) =>
       first - 1 \in LineEnds(e) /\ first <= Len(e) /\ first - 1 >= Len(e) - keep + 1 /\ first <= i + 1

\* Where a cut inside what was cut already falls in the whole.
LEMMA CutPlaces ==
  ASSUME NEW n \in Nat, NEW c \in Nat, NEW cut \in c..(n + 1), NEW s \in 1..(n - cut + 2),
         NEW first, first = cut + s - 1
  PROVE  /\ s \in Nat /\ first \in Nat /\ first \in c..(n + 1)
         /\ s - 1 >= 1 /\ s <= n - cut + 1 => first - 1 >= c /\ first <= n
OBVIOUS

\* Trimming to a rune and then to a line gives what CutAt says.
LEMMA BlockIsCut ==
  ASSUME NEW e \in Seq(SlackBytes), LineEnds(e) \subseteq RuneStarts(e),
         \A k \in LineEnds(e) : k + 1 <= Len(e) => k + 1 \in RuneStarts(e),
         NEW keep \in 1..Len(e), NEW cut \in (Len(e) - keep + 1)..(Len(e) + 1),
         cut <= Len(e) => cut \in RuneStarts(e),
         \A j \in (Len(e) - keep + 1)..(cut - 1) : j \notin RuneStarts(e)
  PROVE  \E first \in (Len(e) - keep + 1)..(Len(e) + 1) :
           CutAt(e, keep, FromNextLine(SubSeq(e, cut, Len(e))), first)
<1> DEFINE n == Len(e)
           c == n - keep + 1
           d == SubSeq(e, cut, n)
<1>1. n \in Nat /\ c \in 1..(n + 1) /\ c \in Nat
  OBVIOUS
<1>2. /\ cut \in c..(n + 1)
      /\ cut <= n => cut \in RuneStarts(e)
      /\ \A j \in c..(cut - 1) : j \notin RuneStarts(e)
  OBVIOUS
<1>3. cut \in 1..(n + 1)
  BY <1>1, <1>2
<1>4. d \in Seq(SlackBytes) /\ Len(d) = n - cut + 1 /\ \A i \in 1..(n - cut + 1) : d[i] = e[cut + i - 1]
  BY <1>3, EndOfEnd
<1> HIDE DEF d, c
<1>5. PICK s \in 1..(Len(d) + 1) : NextLineAt(d, s)
  BY <1>4, FromNextLineIs
<1>6. PICK first : first = cut + s - 1
  OBVIOUS
<1>7. s \in 1..(n - cut + 2) /\ first \in c..(n + 1) /\ s \in Nat /\ first \in Nat
  <2>1. Len(d) = n - cut + 1
    BY <1>4, Zenon
  <2>2. cut \in c..(n + 1) /\ s \in 1..(n - cut + 2)
    <3>1. (n - cut + 1) + 1 = n - cut + 2
      BY <1>1, <1>3
    <3>2. QED
      BY <1>2, <1>5, <2>1, <3>1, Zenon
  <2> HIDE DEF n
  <2>3. QED
    BY <1>1, <1>6, <2>2, CutPlaces
<1>8. FromNextLine(d) = SubSeq(e, first, n)
  <2>1. FromNextLine(d) = SubSeq(d, s, n - cut + 1)
    BY <1>4, <1>5 DEF NextLineAt
  <2>2. SubSeq(d, s, n - cut + 1) = SubSeq(e, cut + s - 1, n)
    BY <1>3, <1>7, EndOfEnd, Zenon DEF d
  <2>3. QED
    BY <1>6, <2>1, <2>2, Zenon
<1>9. ASSUME NEW i \in 1..(n - cut + 1) PROVE i \in LineEnds(d) <=> cut + i - 1 \in LineEnds(e)
  <2>1. cut + i - 1 \in 1..n /\ i \in 1..Len(d) /\ d[i] = e[cut + i - 1]
    BY <1>1, <1>3, <1>4
  <2>2. QED
    BY <2>1, Zenon DEF LineEnds
<1>10. ASSUME NEW i \in LineEnds(e), i >= c, i < n
       PROVE  i - cut + 1 \in LineEnds(d) /\ i - cut + 1 < Len(d) /\ i \in 1..n
  <2>1. i \in 1..n /\ i \in RuneStarts(e)
    BY DEF LineEnds
  <2>2. i >= cut
    <3>1. ~(i \in c..(cut - 1))
      BY <1>2, <2>1
    <3>2. QED
      BY <1>1, <1>3, <1>10, <2>1, <3>1
  <2>3. i - cut + 1 \in 1..(n - cut + 1) /\ cut + (i - cut + 1) - 1 = i
    BY <1>1, <1>3, <2>1, <2>2
  <2>4. i - cut + 1 \in LineEnds(d)
    BY <1>9, <2>3
  <2>5. QED
    BY <1>1, <1>3, <1>4, <1>10, <2>1, <2>4
<1>11. ASSUME s - 1 \in LineEnds(d), s <= Len(d)
       PROVE  first - 1 \in LineEnds(e) /\ first <= n /\ first - 1 >= c
  <2>1. s - 1 \in 1..(n - cut + 1)
    BY <1>4, <1>11 DEF LineEnds
  <2>2. cut + (s - 1) - 1 \in LineEnds(e)
    BY <1>9, <1>11, <2>1
  <2>3. cut + (s - 1) - 1 = first - 1
    BY <1>3, <1>6, <1>7
  <2>4. first - 1 >= c /\ first <= n
    <3>1. s <= n - cut + 1 /\ cut >= c
      BY <1>1, <1>2, <1>4, <1>11
    <3>2. s - 1 >= 1
      BY <1>7, <2>1
    <3> HIDE DEF n
    <3>3. QED
      <4>1. s - 1 >= 1 /\ s <= n - cut + 1 => first - 1 >= c /\ first <= n
        BY <1>1, <1>2, <1>6, <1>7, CutPlaces
      <4>2. QED
        BY <3>1, <3>2, <4>1, Zenon
  <2>5. QED
    BY <2>2, <2>3, <2>4
<1>12. \/ s = 1 /\ \A i \in LineEnds(d) : i = Len(d)
       \/ s - 1 \in LineEnds(d) /\ s <= Len(d)
  BY <1>5, Zenon DEF NextLineAt
<1>13. ASSUME first <= n PROVE first \in RuneStarts(e)
  <2>1. CASE s = 1
    <3>1. first = cut
      BY <1>3, <1>6, <2>1
    <3>2. QED
      BY <1>2, <1>13, <3>1
  <2>2. CASE s - 1 \in LineEnds(d) /\ s <= Len(d)
    <3>1. first - 1 \in LineEnds(e) /\ (first - 1) + 1 = first
      BY <1>7, <1>11, <2>2
    <3>2. QED
      BY <1>13, <3>1
  <2>3. QED
    BY <1>12, <2>1, <2>2
<1>14. ASSUME NEW i \in LineEnds(e), i >= c, i < n
       PROVE  first - 1 \in LineEnds(e) /\ first <= n /\ first - 1 >= c /\ first <= i + 1
  <2>1. i - cut + 1 \in LineEnds(d) /\ i - cut + 1 < Len(d) /\ i \in 1..n
    BY <1>10, <1>14
  <2>2. s - 1 \in LineEnds(d) /\ s <= Len(d)
    <3>1. i - cut + 1 # Len(d)
      BY <1>1, <1>3, <1>4, <2>1
    <3>2. QED
      BY <1>12, <2>1, <3>1, Zenon
  <2>3. s <= (i - cut + 1) + 1
    BY <1>5, <2>1, Zenon DEF NextLineAt
  <2>4. first <= i + 1
    BY <1>1, <1>3, <1>6, <1>7, <2>1, <2>3
  <2>5. QED
    BY <1>11, <2>2, <2>4
<1>15. CutAt(e, keep, FromNextLine(d), first)
  BY <1>8, <1>13, <1>14, Zenon DEF CutAt, c
<1>16. QED
  BY <1>7, <1>15 DEF c, d

\* The block in the message is the one slackLogBlock makes of the escaped text in the room
\* that the rest of the message leaves.
SlackInv ==
  /\ text \in Seq(Kinds) /\ fields \in Nat
  /\ slackDone => block = slackLogBlock(escapeSlackText(text), slackMaxTextBytes - fields)

\* What Send puts in the message, of e in the room that is left.
BlockIs(e, room, k) ==
  \/ room <= slackTruncationMarker /\ k = NoBlock
  \/ room > slackTruncationMarker /\ Len(e) <= room /\ k = [marked |-> FALSE, bytes |-> e]
  \/ /\ room > slackTruncationMarker /\ Len(e) > room
     /\ k = [marked |-> TRUE, bytes |-> k.bytes]
     /\ room - slackTruncationMarker \in 1..Len(e)
     /\ \E first \in (Len(e) - (room - slackTruncationMarker) + 1)..(Len(e) + 1) :
          CutAt(e, room - slackTruncationMarker, k.bytes, first)

\* slackLogBlock gives one of the three.
LEMMA BlockShape ==
  ASSUME NEW e \in Seq(SlackBytes), LineEnds(e) \subseteq RuneStarts(e),
         \A k \in LineEnds(e) : k + 1 <= Len(e) => k + 1 \in RuneStarts(e),
         NEW room \in Int, NEW k, k = slackLogBlock(e, room)
  PROVE  BlockIs(e, room, k)
<1>1. slackTruncationMarker \in Nat /\ Len(e) \in Nat
  BY SlackAssumption
<1>2. CASE room <= slackTruncationMarker
  BY <1>2 DEF slackLogBlock, BlockIs
<1>3. CASE ~(room <= slackTruncationMarker) /\ Len(e) <= room
  <2>1. room > slackTruncationMarker
    BY <1>1, <1>3
  <2>2. k = [marked |-> FALSE, bytes |-> e]
    BY <1>3, Zenon DEF slackLogBlock
  <2>3. QED
    BY <1>3, <2>1, <2>2, Zenon DEF BlockIs
<1>4. CASE ~(room <= slackTruncationMarker) /\ ~(Len(e) <= room)
  <2>1. room > slackTruncationMarker /\ Len(e) > room
    BY <1>1, <1>4
  <2>2. PICK keep : keep = room - slackTruncationMarker
    OBVIOUS
  <2>3. keep \in 1..Len(e) /\ Len(e) - keep + 1 \in 1..(Len(e) + 1)
    BY <1>1, <2>1, <2>2
  <2>4. PICK cut : cut = RuneBoundary(e, Len(e) - keep + 1)
    OBVIOUS
  <2>5. PICK f : f = FromNextLine(SubSeq(e, cut, Len(e)))
    OBVIOUS
  <2>6. k = [marked |-> TRUE, bytes |-> f]
    BY <1>4, <2>2, <2>4, <2>5, Zenon DEF slackLogBlock
  <2>7. k.bytes = f
    BY <2>6
  <2>8. PICK c : c = Len(e) - keep + 1 /\ c \in 1..(Len(e) + 1)
    BY <2>3
  <2>9. /\ cut \in c..(Len(e) + 1)
        /\ cut <= Len(e) => cut \in RuneStarts(e)
        /\ \A j \in c..(cut - 1) : j \notin RuneStarts(e)
    <3>1. cut = RuneBoundary(e, c)
      BY <2>4, <2>8, Zenon
    <3>2. QED
      BY <2>8, <3>1, RuneBoundaryIs
  <2>10. \E first \in (Len(e) - keep + 1)..(Len(e) + 1) :
           CutAt(e, keep, FromNextLine(SubSeq(e, cut, Len(e))), first)
    <3>1. /\ cut \in (Len(e) - keep + 1)..(Len(e) + 1)
          /\ cut <= Len(e) => cut \in RuneStarts(e)
          /\ \A j \in (Len(e) - keep + 1)..(cut - 1) : j \notin RuneStarts(e)
      BY <2>8, <2>9, Zenon
    <3>2. QED
      BY <2>3, <3>1, BlockIsCut
  <2>11. \E first \in (Len(e) - keep + 1)..(Len(e) + 1) : CutAt(e, keep, k.bytes, first)
    BY <2>5, <2>7, <2>10, Zenon
  <2>12. QED
    BY <2>1, <2>2, <2>3, <2>6, <2>7, <2>11, Zenon DEF BlockIs
<1>5. QED
  BY <1>2, <1>3, <1>4, Zenon

\* The lengths and the end of a block that had to be cut.
LEMMA CutBlock ==
  ASSUME NEW e \in Seq(SlackBytes), NEW keep \in 1..Len(e), NEW b,
         NEW f \in (Len(e) - keep + 1)..(Len(e) + 1), CutAt(e, keep, b, f)
  PROVE  /\ b \in Seq(SlackBytes) /\ Len(b) = Len(e) - f + 1 /\ Len(b) \in 0..keep
         /\ f = Len(e) - Len(b) + 1 /\ f \in 1..(Len(e) + 1)
<1>1. b = SubSeq(e, f, Len(e))
  BY DEF CutAt
<1>2. PICK n : n = Len(e) /\ n \in Nat
  OBVIOUS
<1>3. f \in 1..(n + 1)
  BY <1>2
<1>4. b \in Seq(SlackBytes) /\ Len(b) = n - f + 1
  BY <1>1, <1>2, <1>3
<1>5. QED
  BY <1>2, <1>3, <1>4

\* The invariant implies that the message fits,
LEMMA InvSlackFits == SlackInv => SlackFits
<1> SUFFICES ASSUME SlackInv, slackDone, block # NoBlock PROVE fields + BlockBytes <= slackMaxTextBytes
  BY DEF SlackFits
<1>1. slackMaxTextBytes \in Nat /\ slackTruncationMarker \in Nat /\ fields \in Nat /\ text \in Seq(Kinds)
  BY SlackAssumption DEF SlackInv
<1>2. PICK e : e = escapeSlackText(text)
  OBVIOUS
<1>3. /\ e \in Seq(SlackBytes) /\ LineEnds(e) \subseteq RuneStarts(e)
      /\ \A k \in LineEnds(e) : k + 1 <= Len(e) => k + 1 \in RuneStarts(e)
  BY <1>1, <1>2, EscapedBytes
<1>4. PICK room \in Int : room = slackMaxTextBytes - fields
  BY <1>1
<1>5. PICK k : k = block
  OBVIOUS
<1>6. k = slackLogBlock(e, room)
  BY <1>2, <1>4, <1>5, Zenon DEF SlackInv
<1>7. CASE Len(e) <= room /\ k = [marked |-> FALSE, bytes |-> e]
  <2>1. BlockBytes = Len(e) + 0
    BY <1>5, <1>7 DEF BlockBytes
  <2>2. Len(e) \in Nat
    BY <1>3
  <2>3. QED
    BY <1>1, <1>4, <1>7, <2>1, <2>2
<1>8. CASE /\ room > slackTruncationMarker /\ k = [marked |-> TRUE, bytes |-> k.bytes]
           /\ room - slackTruncationMarker \in 1..Len(e)
           /\ \E first \in (Len(e) - (room - slackTruncationMarker) + 1)..(Len(e) + 1) :
                CutAt(e, room - slackTruncationMarker, k.bytes, first)
  <2>1. PICK keep : keep = room - slackTruncationMarker /\ keep \in 1..Len(e)
    BY <1>8
  <2>2. PICK f \in (Len(e) - keep + 1)..(Len(e) + 1) : CutAt(e, keep, k.bytes, f)
    BY <1>8, <2>1, Zenon
  <2>3. Len(k.bytes) \in 0..keep
    BY <1>3, <2>1, <2>2, CutBlock
  <2>4. k.marked = TRUE
    BY <1>8
  <2>5. BlockBytes = Len(k.bytes) + slackTruncationMarker
    BY <1>5, <2>4 DEF BlockBytes
  <2>6. QED
    BY <1>1, <1>4, <2>1, <2>3, <2>5
<1>9. BlockIs(e, room, k)
  BY <1>3, <1>6, BlockShape
<1>10. QED
  BY <1>5, <1>7, <1>8, <1>9, Zenon DEF BlockIs

\* and that what had to be cut keeps its end.
LEMMA InvSlackKeepsTheEnd == SlackInv => SlackKeepsTheEnd
<1> SUFFICES ASSUME SlackInv, slackDone PROVE SlackKeepsTheEnd
  BY Zenon DEF SlackKeepsTheEnd
<1>1. slackMaxTextBytes \in Nat /\ slackTruncationMarker \in Nat /\ fields \in Nat /\ text \in Seq(Kinds)
  BY SlackAssumption DEF SlackInv
<1>2. PICK e : e = escapeSlackText(text)
  OBVIOUS
<1>3. /\ e \in Seq(SlackBytes) /\ LineEnds(e) \subseteq RuneStarts(e)
      /\ \A k \in LineEnds(e) : k + 1 <= Len(e) => k + 1 \in RuneStarts(e)
  BY <1>1, <1>2, EscapedBytes
<1>4. PICK room \in Int : room = slackMaxTextBytes - fields
  BY <1>1
<1>5. PICK k : k = block
  OBVIOUS
<1>6. k = slackLogBlock(e, room)
  BY <1>2, <1>4, <1>5, Zenon DEF SlackInv
<1>7. BlockIs(e, room, k)
  BY <1>3, <1>6, BlockShape
<1> DEFINE N == Len(e)
           kept == Len(k.bytes)
           first == N - kept + 1
           could == {i \in {j \in 2..N : e[j - 1].newline} : i >= N - (room - slackTruncationMarker) + 2}
           Goal == /\ k.bytes = SubSeq(e, first, N)
                   /\ N <= room /\ room > slackTruncationMarker => kept = N /\ ~k.marked
                   /\ k.marked => /\ kept > 0 => e[first].start
                                  /\ could # {} => first \in could /\ \A i \in could : first <= i
<1>8. N \in Nat
  BY <1>3
<1>9. ASSUME room <= slackTruncationMarker, k = NoBlock PROVE Goal
  <2>1. k.bytes = <<>> /\ k.marked = FALSE
    BY <1>9 DEF NoBlock
  <2>2. kept = 0 /\ first = N + 1
    BY <1>8, <2>1
  <2>3. SubSeq(e, N + 1, N) = <<>>
    BY <1>3, <1>8
  <2>4. ~(room > slackTruncationMarker)
    BY <1>1, <1>9
  <2> HIDE DEF N, kept, first, could
  <2>5. QED
    BY <2>1, <2>2, <2>3, <2>4, Zenon
<1>10. ASSUME Len(e) <= room, k = [marked |-> FALSE, bytes |-> e] PROVE Goal
  <2>1. k.bytes = e /\ k.marked = FALSE
    BY <1>10
  <2>2. kept = N /\ first = 1
    BY <1>8, <2>1
  <2>3. SubSeq(e, 1, N) = e
    BY <1>3, <1>8
  <2> HIDE DEF N, kept, first, could
  <2>4. QED
    BY <2>1, <2>2, <2>3, Zenon
<1>11. ASSUME room > slackTruncationMarker, Len(e) > room, k = [marked |-> TRUE, bytes |-> k.bytes],
              room - slackTruncationMarker \in 1..Len(e),
              \E f \in (Len(e) - (room - slackTruncationMarker) + 1)..(Len(e) + 1) :
                 CutAt(e, room - slackTruncationMarker, k.bytes, f)
       PROVE  Goal
  <2>1. PICK keep : keep = room - slackTruncationMarker /\ keep \in 1..N
    BY <1>11
  <2>2. PICK f \in (N - keep + 1)..(N + 1) : CutAt(e, keep, k.bytes, f)
    BY <1>11, <2>1, Zenon
  <2>3. f = first /\ kept = N - f + 1 /\ f \in 1..(N + 1) /\ f \in Nat
    <3>1. Len(k.bytes) = Len(e) - f + 1 /\ f = Len(e) - Len(k.bytes) + 1 /\ f \in 1..(Len(e) + 1)
      BY <1>3, <2>1, <2>2, CutBlock, Zenon
    <3>2. QED
      BY <1>8, <3>1
  <2>4. /\ k.bytes = SubSeq(e, f, N)
        /\ f <= N => f \in RuneStarts(e)
        /\ \A i \in LineEnds(e) : i >= N - keep + 1 /\ i < N =>
             f - 1 \in LineEnds(e) /\ f <= N /\ f - 1 >= N - keep + 1 /\ f <= i + 1
    BY <2>2, Zenon DEF CutAt
  <2>5. ~(N <= room)
    BY <1>8, <1>11
  <2>6. ASSUME NEW i \in 2..N PROVE i - 1 \in 1..N /\ (e[i - 1].newline <=> i - 1 \in LineEnds(e))
    <3>1. i - 1 \in 1..N
      BY <1>8
    <3>2. QED
      BY <3>1, Zenon DEF LineEnds
  <2> HIDE DEF N, kept, first
  <2>7. kept > 0 => e[f].start
    <3>1. kept > 0 => f <= N
      BY <1>8, <2>3
    <3>2. QED
      BY <2>4, <3>1, Zenon DEF RuneStarts
  <2>8. ASSUME NEW i \in could
        PROVE  /\ i \in 2..N /\ i - 1 \in LineEnds(e) /\ i - 1 >= N - keep + 1 /\ i - 1 < N
               /\ (i - 1) + 1 = i
    <3>1. i \in 2..N /\ e[i - 1].newline /\ i >= N - keep + 2
      BY <2>1
    <3>2. i - 1 >= N - keep + 1 /\ i - 1 < N /\ (i - 1) + 1 = i
      BY <1>8, <2>1, <3>1
    <3>3. QED
      BY <2>6, <3>1, <3>2
  <2>9. \A i \in could : f <= i /\ f - 1 \in LineEnds(e) /\ f <= N /\ f - 1 >= N - keep + 1
    BY <2>4, <2>8, Zenon
  <2>10. ASSUME f - 1 \in LineEnds(e), f <= N, f - 1 >= N - keep + 1 PROVE f \in could
    <3>1. f \in 2..N /\ f >= N - keep + 2
      BY <1>8, <2>1, <2>3, <2>10
    <3>2. e[f - 1].newline
      BY <2>6, <2>10, <3>1
    <3>3. QED
      BY <2>1, <3>1, <3>2
  <2> HIDE DEF could
  <2>11. could # {} => f \in could /\ \A i \in could : f <= i
    BY <2>9, <2>10, Zenon
  <2>12. QED
    BY <2>3, <2>4, <2>5, <2>7, <2>11, Zenon
<1>12. Goal
  <2> HIDE DEF Goal
  <2>1. QED
    BY <1>7, <1>9, <1>10, <1>11, Zenon DEF BlockIs
<1>13. QED
  BY <1>2, <1>4, <1>5, <1>12, Zenon DEF SlackKeepsTheEnd

\* Every step keeps the invariant.
LEMMA SlackInductive == SlackInv /\ [Next]_vars => SlackInv'
<1> SUFFICES ASSUME SlackInv, [Next]_vars PROVE SlackInv'
  OBVIOUS
<1>1. CASE UNCHANGED slackVars
  <2>1. text' = text /\ fields' = fields /\ block' = block /\ slackDone' = slackDone
    BY <1>1 DEF slackVars
  <2>2. QED
    BY <2>1, Zenon DEF SlackInv
<1>2. CASE Compose
  <2>1. text' = text /\ fields' = fields
        /\ block' = slackLogBlock(escapeSlackText(text), slackMaxTextBytes - fields)
    BY <1>2 DEF Compose
  <2>2. QED
    BY <2>1, Zenon DEF SlackInv
<1>3. ASSUME NEW n, Send(n) PROVE SlackInv'
  <2>1. PICK m \in 0..MaxText : text' \in [1..m -> Kinds]
    BY <1>3, Zenon DEF Send, Kinds
  <2>2. m \in Nat
    BY SlackAssumption
  <2>3. text' \in Seq(Kinds)
    BY <2>1, <2>2
  <2>4. fields' \in Nat /\ slackDone' = FALSE
    BY <1>3, SlackAssumption, Zenon DEF Send
  <2>5. QED
    BY <2>3, <2>4, Zenon DEF SlackInv
<1>4. CASE CallsSend
  BY <1>3, <1>4 DEF CallsSend
<1>5. QED
  BY <1>1, <1>2, <1>4, Zenon DEF Next, vars, Tails, CallsParse, Parses, CallsTruncate, Truncates, Sends

\* What Send keeps of the log is what slackLogBlock makes of the escaped lines.
THEOREM SlackAlways == Spec => []SlackInv
<1>1. Init => SlackInv
  <2> SUFFICES ASSUME Init PROVE SlackInv
    OBVIOUS
  <2>1. text = <<>> /\ fields = 0 /\ slackDone = FALSE
    BY DEF Init, SlackInit
  <2>2. text \in Seq(Kinds) /\ fields \in Nat
    BY <2>1
  <2>3. QED
    BY <2>1, <2>2, Zenon DEF SlackInv
<1>2. QED
  BY <1>1, SlackInductive, PTL DEF Spec

\* A Slack message with a log block is within Slack's limit, whatever the lines hold and
\* however long the rest of the message is (Send, escapeSlackText, slackLogBlock).
THEOREM SlackAlwaysFits == Spec => []SlackFits
BY SlackAlways, InvSlackFits, PTL

\* A block that had to be cut is the end of the log: whole runes, whole lines if it can,
\* and no line that could have stayed but for one is left out (slackLogBlock).
THEOREM SlackAlwaysKeepsTheEnd == Spec => []SlackKeepsTheEnd
BY SlackAlways, InvSlackKeepsTheEnd, PTL
=============================================================================
