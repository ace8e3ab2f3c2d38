--------------------------- MODULE LogTailProofs ----------------------------
(***************************************************************************)
(* Reading the lines of a log: tailFile returns the last lines of the      *)
(* file, for files of any size and any number of lines, chunk and cap.     *)
(* First what InOrder does to finite sets of numbers, then the scan.       *)
(***************************************************************************)
EXTENDS LogCapture, FiniteSetTheorems, TLAPS

-----------------------------------------------------------------------------
\* Finite sets of numbers, in order.

Positions(S) == S \subseteq Nat /\ IsFiniteSet(S)

Below(S, x) == {y \in S : y < x}

\* A set of numbers that is not empty has a least one,
LEMMA HasLeast ==
  ASSUME NEW S, S \subseteq Nat, S # {}
  PROVE  \E m \in S : \A n \in S : m <= n
<1> DEFINE R == OpToRel(<, Nat)
<1>1. IsWellFoundedOn(R, Nat)
  BY NatLessThanWellFounded, Zenon
<1> HIDE DEF R
<1>2. PICK m \in S : \A n \in S : ~(<<n, m>> \in R)
  BY <1>1, WFMin, Zenon
<1>3. ASSUME NEW n \in S PROVE m <= n
  <2>1. n \in Nat /\ m \in Nat
    OBVIOUS
  <2>2. n < m => <<n, m>> \in R
    BY <2>1 DEF R, OpToRel
  <2>3. ~(n < m)
    BY <1>2, <2>2
  <2>4. QED
    BY <2>1, <2>3
<1>4. QED
  BY <1>3

\* which is its Min.
LEMMA MinIsLeast ==
  ASSUME NEW S, S \subseteq Nat, S # {}
  PROVE  Min(S) \in S /\ \A n \in S : Min(S) <= n
BY HasLeast, Zenon DEF Min

\* What lies in an interval is a finite set of numbers.
LEMMA IntervalPositions ==
  ASSUME NEW a \in Nat, NEW b \in Nat, NEW S, S \subseteq a..b
  PROVE  Positions(S)
<1>1. IsFiniteSet(a..b)
  BY FS_Interval
<1>2. IsFiniteSet(S)
  BY <1>1, FS_Subset, Zenon
<1>3. S \subseteq Nat
  OBVIOUS
<1>4. QED
  BY <1>2, <1>3 DEF Positions

\* The place of a number in a set is how many are below it.
LEMMA RankBound ==
  ASSUME NEW S, Positions(S), NEW x \in S
  PROVE  /\ Positions(Below(S, x)) /\ Cardinality(Below(S, x)) \in Nat
         /\ Cardinality(S) \in Nat /\ Cardinality(Below(S, x)) < Cardinality(S)
<1>1. Below(S, x) \subseteq S \ {x} /\ x \in Nat
  BY DEF Below, Positions
<1>2. IsFiniteSet(S \ {x}) /\ Cardinality(S \ {x}) = Cardinality(S) - 1
  BY FS_RemoveElement DEF Positions
<1>3. IsFiniteSet(Below(S, x)) /\ Cardinality(Below(S, x)) <= Cardinality(S \ {x})
  BY <1>1, <1>2, FS_Subset
<1>4. Cardinality(S) \in Nat /\ Cardinality(Below(S, x)) \in Nat
  BY <1>3, FS_CardinalityType DEF Positions
<1>5. Positions(Below(S, x))
  BY <1>1, <1>3, Zenon DEF Positions
<1>6. Cardinality(Below(S, x)) < Cardinality(S)
  BY <1>2, <1>3, <1>4
<1>7. QED
  BY <1>4, <1>5, <1>6

\* A greater member has more members below it.
LEMMA RankGrows ==
  ASSUME NEW S, Positions(S), NEW x \in S, NEW y \in S, x < y
  PROVE  Cardinality(Below(S, x)) < Cardinality(Below(S, y))
<1>1. x \in Nat /\ y \in Nat
  BY DEF Positions
<1>2. Positions(Below(S, y)) /\ x \in Below(S, y)
  BY RankBound DEF Below
<1>3. Below(Below(S, y), x) = Below(S, x)
  <2>1. ASSUME NEW z \in S, z < x PROVE z < y
    <3>1. z \in Nat
      BY DEF Positions
    <3>2. QED
      BY <1>1, <2>1, <3>1
  <2>2. QED
    BY <2>1 DEF Below
<1>4. QED
  BY <1>2, <1>3, RankBound

\* InOrder lists the set, each number at its place.
LEMMA InOrderPlaces ==
  ASSUME NEW S, Positions(S)
  PROVE  /\ Cardinality(S) \in Nat
         /\ DOMAIN InOrder(S) = 1..Cardinality(S)
         /\ \A k \in 1..Cardinality(S) :
              InOrder(S)[k] \in S /\ Cardinality(Below(S, InOrder(S)[k])) = k - 1
         /\ \A x \in S : /\ Cardinality(Below(S, x)) + 1 \in 1..Cardinality(S)
                         /\ InOrder(S)[Cardinality(Below(S, x)) + 1] = x
<1> DEFINE c == Cardinality(S)
           f == [x \in S |-> Cardinality(Below(S, x)) + 1]
<1>1. c \in Nat
  BY FS_CardinalityType DEF Positions
<1> HIDE DEF c
<1>2. \A x \in S : Cardinality(Below(S, x)) + 1 \in 1..c
  BY <1>1, RankBound DEF c
<1>3. \A x, y \in S : f[x] = f[y] => x = y
  <2> SUFFICES ASSUME NEW x \in S, NEW y \in S, x # y PROVE f[x] # f[y]
    OBVIOUS
  <2>1. x \in Nat /\ y \in Nat
    BY DEF Positions
  <2>2. Cardinality(Below(S, x)) \in Nat /\ Cardinality(Below(S, y)) \in Nat
    BY RankBound
  <2>3. Cardinality(Below(S, x)) # Cardinality(Below(S, y))
    BY <2>1, <2>2, RankGrows
  <2>4. QED
    BY <2>2, <2>3
<1>4. f \in Injection(S, 1..c)
  BY <1>2, <1>3 DEF Injection, IsInjective
<1>5. IsFiniteSet(1..c) /\ Cardinality(1..c) = c
  BY <1>1, FS_Interval
<1>6. f \in Surjection(S, 1..c)
  BY <1>4, <1>5, FS_Injection DEF c
<1>7. ASSUME NEW k \in 1..c
      PROVE  InOrder(S)[k] \in S /\ Cardinality(Below(S, InOrder(S)[k])) = k - 1
  <2>1. PICK x \in S : f[x] = k
    BY <1>6, Zenon DEF Surjection
  <2>2. Cardinality(Below(S, x)) \in Nat
    BY RankBound
  <2>3. Cardinality({y \in S : y < x}) = k - 1
    BY <2>1, <2>2 DEF Below
  <2>4. InOrder(S)[k] = CHOOSE z \in S : Cardinality({y \in S : y < z}) = k - 1
    BY DEF InOrder, c
  <2>5. QED
    BY <2>3, <2>4, Zenon DEF Below
<1>8. ASSUME NEW x \in S PROVE InOrder(S)[Cardinality(Below(S, x)) + 1] = x
  <2> DEFINE k == Cardinality(Below(S, x)) + 1
             z == InOrder(S)[k]
  <2>1. k \in 1..c /\ Cardinality(Below(S, x)) \in Nat
    BY <1>2, RankBound
  <2>2. z \in S /\ Cardinality(Below(S, z)) = k - 1
    BY <1>7, <2>1
  <2>3. f[z] = f[x]
    BY <2>1, <2>2
  <2>4. QED
    BY <1>3, <2>2, <2>3
<1>9. QED
  BY <1>1, <1>2, <1>7, <1>8, Zenon DEF InOrder, c

\* InOrder lists the members of a set,
LEMMA InOrderType ==
  ASSUME NEW S, Positions(S)
  PROVE  /\ InOrder(S) \in Seq(S) /\ InOrder(S) \in Seq(Nat)
         /\ Len(InOrder(S)) = Cardinality(S)
         /\ InOrder(S) \in [1..Cardinality(S) -> S]
<1> DEFINE c == Cardinality(S)
           f == InOrder(S)
<1>1. c \in Nat /\ DOMAIN f = 1..c /\ \A k \in 1..c : f[k] \in S
  BY InOrderPlaces
<1> DEFINE e(k) == CHOOSE x \in S : Cardinality({y \in S : y < x}) = k - 1
<1>2. f = [k \in 1..c |-> e(k)]
  BY DEF InOrder
<1> HIDE DEF c, f, e
<1>3. f \in [1..c -> S]
  BY <1>1, <1>2
<1>4. S \subseteq Nat
  BY DEF Positions
<1>5. f \in Seq(S) /\ Len(f) = c
  BY <1>1, <1>3
<1>6. f \in Seq(Nat)
  <2>1. \A k \in 1..c : f[k] \in Nat
    BY <1>1, <1>4, Zenon
  <2>2. f \in [1..c -> Nat]
    BY <1>3, <2>1
  <2>3. QED
    BY <1>1, <2>2
<1>7. QED
  BY <1>3, <1>5, <1>6 DEF c, f

\* smallest first,
LEMMA InOrderGrows ==
  ASSUME NEW S, Positions(S),
         NEW k \in 1..Cardinality(S), NEW l \in 1..Cardinality(S), k < l
  PROVE  InOrder(S)[k] < InOrder(S)[l]
<1> DEFINE x == InOrder(S)[k]
           y == InOrder(S)[l]
<1>1. x \in S /\ y \in S /\ Cardinality(Below(S, x)) = k - 1
      /\ Cardinality(Below(S, y)) = l - 1 /\ Cardinality(S) \in Nat
  BY InOrderPlaces
<1> HIDE DEF x, y
<1>2. x \in Nat /\ y \in Nat
  BY <1>1 DEF Positions
<1>3. y < x => l - 1 < k - 1
  BY <1>1, RankGrows
<1>4. x # y
  BY <1>1
<1>5. QED
  BY <1>1, <1>2, <1>3, <1>4 DEF x, y

\* and so the greatest last.
LEMMA LastIsGreatest ==
  ASSUME NEW S, Positions(S), S # {}
  PROVE  /\ Cardinality(S) \in Nat \ {0}
         /\ InOrder(S)[Cardinality(S)] \in S
         /\ \A x \in S : x <= InOrder(S)[Cardinality(S)]
<1> DEFINE c == Cardinality(S)
           m == InOrder(S)[c]
<1>1. PICK z \in S : TRUE
  OBVIOUS
<1>2. c \in Nat /\ c > 0
  BY <1>1, RankBound
<1>3. m \in S /\ S \subseteq Nat
  <2>1. c \in 1..c
    BY <1>2
  <2>2. QED
    BY <2>1, InOrderPlaces, Zenon DEF Positions
<1>4. ASSUME NEW x \in S PROVE x <= m
  <2>1. PICK k \in 1..c : InOrder(S)[k] = x
    BY InOrderPlaces
  <2>2. x \in Nat /\ m \in Nat
    BY <1>3, Zenon
  <2>3. CASE k = c
    BY <2>1, <2>2, <2>3
  <2>4. CASE k < c
    <3>1. x < m
      BY <1>2, <2>1, <2>4, InOrderGrows
    <3>2. QED
      BY <2>2, <3>1
  <2>5. QED
    BY <1>2, <2>3, <2>4
<1>5. c \in Nat \ {0}
  BY <1>2
<1>6. QED
  BY <1>3, <1>4, <1>5, Zenon

\* A sequence that grows is its numbers in order.
LEMMA GrowingIsInOrder ==
  ASSUME NEW n \in Nat, NEW f \in [1..n -> Nat],
         \A i, j \in 1..n : i < j => f[i] < f[j],
         NEW S, S = {f[i] : i \in 1..n}
  PROVE  Positions(S) /\ Cardinality(S) = n /\ InOrder(S) = f
<1>1. \A k \in 0..n : \A T : T = {f[i] : i \in 1..k} =>
        Positions(T) /\ Cardinality(T) = k
  <2> SUFFICES ASSUME NEW k \in 0..n, NEW T, T = {f[i] : i \in 1..k}
               PROVE  Positions(T) /\ Cardinality(T) = k
    OBVIOUS
  <2> DEFINE g == [i \in 1..k |-> f[i]]
  <2>1. \A i \in 1..k : i \in 1..n
    OBVIOUS
  <2>2. \A i, j \in 1..k : f[i] = f[j] => i = j
    <3> SUFFICES ASSUME NEW i \in 1..k, NEW j \in 1..k, i # j PROVE f[i] # f[j]
      OBVIOUS
    <3>1. i \in 1..n /\ j \in 1..n /\ (i < j \/ j < i)
      BY <2>1
    <3>2. f[i] \in Nat /\ f[j] \in Nat /\ (f[i] < f[j] \/ f[j] < f[i])
      BY <3>1
    <3>3. QED
      BY <3>2
  <2>3. g \in Bijection(1..k, T)
    BY <2>1, <2>2 DEF Bijection, Injection, Surjection, IsInjective
  <2>4. IsFiniteSet(1..k) /\ Cardinality(1..k) = k
    BY FS_Interval
  <2>5. IsFiniteSet(T) /\ Cardinality(T) = k
    BY <2>3, <2>4, FS_Bijection DEF ExistsBijection
  <2>6. T \subseteq Nat
    BY <2>1
  <2>7. QED
    BY <2>5, <2>6 DEF Positions
<1>2. Positions(S) /\ Cardinality(S) = n
  BY <1>1
<1>3. ASSUME NEW k \in 1..n PROVE Cardinality(Below(S, f[k])) = k - 1
  <2>1. \A i \in 1..n : f[i] < f[k] <=> i \in 1..(k - 1)
    <3> TAKE i \in 1..n
    <3>1. f[i] \in Nat /\ f[k] \in Nat
      OBVIOUS
    <3>2. CASE i < k
      BY <3>1, <3>2
    <3>3. CASE k < i
      BY <3>1, <3>3
    <3>4. CASE k = i
      BY <3>1, <3>4
    <3>5. QED
      BY <3>2, <3>3, <3>4
  <2>2. Below(S, f[k]) = {f[i] : i \in 1..(k - 1)}
    <3>1. \A i \in 1..(k - 1) : i \in 1..n
      OBVIOUS
    <3>2. QED
      BY <2>1, <3>1 DEF Below
  <2>3. k - 1 \in 0..n
    OBVIOUS
  <2>4. QED
    BY <1>1, <2>2, <2>3, Zenon
<1>4. \A k \in 1..n : InOrder(S)[k] = f[k]
  <2> TAKE k \in 1..n
  <2>1. f[k] \in S
    OBVIOUS
  <2>2. InOrder(S)[Cardinality(Below(S, f[k])) + 1] = f[k]
    BY <1>2, <2>1, InOrderPlaces
  <2>3. QED
    BY <1>3, <2>2
<1>5. InOrder(S) \in [1..n -> S]
  BY <1>2, InOrderType, Zenon
<1>6. InOrder(S) = [k \in 1..n |-> InOrder(S)[k]] /\ f = [k \in 1..n |-> f[k]]
  BY <1>5, Zenon
<1>7. InOrder(S) = f
  BY <1>4, <1>6, Zenon
<1>8. QED
  BY <1>2, <1>7, Zenon

\* An interval in order.
LEMMA InOrderInterval ==
  ASSUME NEW a \in Nat \ {0}, NEW b \in Nat, a <= b + 1
  PROVE  /\ Positions(a..b) /\ Cardinality(a..b) = b + 1 - a
         /\ InOrder(a..b) = [k \in 1..(b + 1 - a) |-> a + k - 1]
<1> DEFINE n == b + 1 - a
           f == [k \in 1..n |-> a + k - 1]
<1>1. n \in Nat /\ f \in [1..n -> Nat] /\ \A i, j \in 1..n : i < j => f[i] < f[j]
  OBVIOUS
<1>2. a..b = {f[i] : i \in 1..n}
  <2>1. \A x \in a..b : x - a + 1 \in 1..n /\ f[x - a + 1] = x
    OBVIOUS
  <2>2. \A i \in 1..n : f[i] \in a..b
    OBVIOUS
  <2> HIDE DEF f, n
  <2>3. QED
    BY <2>1, <2>2
<1> HIDE DEF f, n
<1>3. Positions(a..b) /\ Cardinality(a..b) = n /\ InOrder(a..b) = f
  BY <1>1, <1>2, GrowingIsInOrder, Zenon
<1>4. QED
  BY <1>3 DEF f, n

\* A set that is moved is listed in the same order.
LEMMA InOrderShift ==
  ASSUME NEW S, Positions(S), NEW r \in Nat, NEW T, T = {r + x : x \in S}
  PROVE  /\ Positions(T) /\ Cardinality(T) = Cardinality(S)
         /\ InOrder(T) = [k \in 1..Cardinality(S) |-> r + InOrder(S)[k]]
<1> DEFINE n == Cardinality(S)
           g == InOrder(S)
           f == [k \in 1..n |-> r + g[k]]
<1>1. n \in Nat /\ g \in [1..n -> S] /\ S \subseteq Nat
  BY InOrderPlaces, InOrderType, Zenon DEF Positions
<1>2. \A i, j \in 1..n : i < j => g[i] < g[j]
  BY InOrderGrows
<1>3. \A x \in S : \E k \in 1..n : g[k] = x
  BY InOrderPlaces
<1> HIDE DEF n, g
<1>4. f \in [1..n -> Nat]
  <2>1. ASSUME NEW k \in 1..n PROVE r + g[k] \in Nat
    <3>1. g[k] \in Nat
      BY <1>1, Zenon
    <3>2. QED
      BY <3>1
  <2>2. QED
    BY <2>1
<1>5. \A i, j \in 1..n : i < j => f[i] < f[j]
  <2> SUFFICES ASSUME NEW i \in 1..n, NEW j \in 1..n, i < j PROVE f[i] < f[j]
    OBVIOUS
  <2>1. g[i] \in Nat /\ g[j] \in Nat /\ g[i] < g[j]
    BY <1>1, <1>2, Zenon
  <2>2. QED
    BY <2>1
<1>6. T = {f[i] : i \in 1..n}
  BY <1>1, <1>3, Zenon
<1> HIDE DEF f
<1>7. Positions(T) /\ Cardinality(T) = n /\ InOrder(T) = f
  BY <1>1, <1>4, <1>5, <1>6, GrowingIsInOrder, Zenon
<1>8. QED
  BY <1>7 DEF f, n, g

\* A set cut in two: the numbers of the lower part come first.
UpperPart(S, U) ==
  /\ Cardinality(S \ U) \in 0..Cardinality(S)
  /\ Positions(U) /\ Cardinality(U) = Cardinality(S) - Cardinality(S \ U)
  /\ \A k \in 1..Cardinality(U) : InOrder(U)[k] = InOrder(S)[Cardinality(S \ U) + k]
  /\ Positions(S \ U)
  /\ \A k \in 1..Cardinality(S \ U) : InOrder(S \ U)[k] = InOrder(S)[k]

\* The upper part of a set is listed as the end of the whole list.
LEMMA InOrderCut ==
  ASSUME NEW S, Positions(S), NEW U, U \subseteq S,
         \A x \in S \ U, y \in U : x < y
  PROVE  UpperPart(S, U)
<1> DEFINE n == Cardinality(S)
           m == Cardinality(S \ U)
           g == InOrder(S)
           hi == [k \in 1..(n - m) |-> g[m + k]]
           lo == [k \in 1..m |-> g[k]]
<1>1. n \in Nat /\ g \in [1..n -> S] /\ S \subseteq Nat
  BY InOrderPlaces, InOrderType, Zenon DEF Positions
<1>2. \A i, j \in 1..n : i < j => g[i] < g[j]
  BY InOrderGrows
<1>3. \A x \in S : \E k \in 1..n : g[k] = x
  BY InOrderPlaces
<1>4. IsFiniteSet(S \ U) /\ m <= n /\ m \in Nat
  BY FS_Subset, FS_CardinalityType DEF Positions
<1>5. \A i \in 1..n : g[i] \in U => m <= i - 1
  <2> SUFFICES ASSUME NEW i \in 1..n, g[i] \in U PROVE m <= i - 1
    OBVIOUS
  <2>1. S \ U \subseteq Below(S, g[i])
    BY DEF Below
  <2>2. IsFiniteSet(Below(S, g[i])) /\ Cardinality(Below(S, g[i])) = i - 1
    BY InOrderPlaces, RankBound, Zenon DEF Positions
  <2>3. QED
    BY <2>1, <2>2, FS_Subset
<1>6. \A i \in 1..n : g[i] \notin U => i <= m
  <2> SUFFICES ASSUME NEW i \in 1..n, g[i] \notin U PROVE i <= m
    OBVIOUS
  <2>1. g[i] \in S \ U /\ g[i] \in Nat
    BY <1>1, Zenon
  <2>2. Below(S, g[i]) = Below(S \ U, g[i])
    <3>1. ASSUME NEW x \in U, x < g[i] PROVE FALSE
      BY <1>1, <2>1, <3>1
    <3>2. QED
      BY <3>1 DEF Below
  <2>3. Positions(S \ U)
    BY <1>1, <1>4 DEF Positions
  <2>4. Cardinality(Below(S \ U, g[i])) < m /\ Cardinality(Below(S, g[i])) = i - 1
    BY <2>1, <2>3, RankBound, InOrderPlaces
  <2>5. QED
    BY <1>1, <1>4, <2>2, <2>4
<1> HIDE DEF n, m, g
<1>7. \A i \in 1..n : g[i] \in U <=> i > m
  BY <1>1, <1>4, <1>5, <1>6
<1>8. Positions(U) /\ Cardinality(U) = n - m /\ InOrder(U) = hi
  <2>1. n - m \in Nat /\ \A k \in 1..(n - m) : m + k \in 1..n /\ m + k > m
    BY <1>1, <1>4
  <2>2. hi \in [1..(n - m) -> Nat]
    BY <1>1, <2>1, Zenon
  <2>3. \A i, j \in 1..(n - m) : i < j => hi[i] < hi[j]
    <3> SUFFICES ASSUME NEW i \in 1..(n - m), NEW j \in 1..(n - m), i < j
                 PROVE  hi[i] < hi[j]
      OBVIOUS
    <3>1. m + i \in 1..n /\ m + j \in 1..n /\ m + i < m + j
      BY <1>4, <2>1
    <3>2. QED
      BY <1>2, <3>1
  <2>4. U = {hi[i] : i \in 1..(n - m)}
    <3>1. ASSUME NEW x \in U PROVE \E i \in 1..(n - m) : hi[i] = x
      <4>1. PICK k \in 1..n : g[k] = x
        BY <1>3
      <4>2. k > m /\ k - m \in 1..(n - m) /\ m + (k - m) = k
        BY <1>1, <1>4, <1>7, <4>1
      <4>3. hi[k - m] = x
        BY <4>1, <4>2
      <4>4. QED
        BY <4>2, <4>3
    <3>2. \A i \in 1..(n - m) : hi[i] \in U
      BY <1>7, <2>1
    <3> HIDE DEF hi
    <3>3. QED
      BY <3>1, <3>2
  <2> HIDE DEF hi
  <2>5. QED
    BY <2>1, <2>2, <2>3, <2>4, GrowingIsInOrder, Zenon
<1>9. Positions(S \ U) /\ InOrder(S \ U) = lo
  <2>1. \A k \in 1..m : k \in 1..n /\ ~(k > m)
    BY <1>1, <1>4
  <2>2. lo \in [1..m -> Nat]
    BY <1>1, <2>1, Zenon
  <2>3. \A i, j \in 1..m : i < j => lo[i] < lo[j]
    BY <1>2, <2>1
  <2>4. S \ U = {lo[i] : i \in 1..m}
    <3>1. ASSUME NEW x \in S \ U PROVE \E i \in 1..m : lo[i] = x
      <4>1. PICK k \in 1..n : g[k] = x
        BY <1>3
      <4>2. k \in 1..m
        BY <1>1, <1>4, <1>7, <4>1
      <4>3. QED
        BY <4>1, <4>2
    <3>2. \A i \in 1..m : lo[i] \in S \ U
      BY <1>1, <1>7, <2>1
    <3> HIDE DEF lo
    <3>3. QED
      BY <3>1, <3>2
  <2> HIDE DEF lo
  <2>5. QED
    BY <1>4, <2>2, <2>3, <2>4, GrowingIsInOrder
<1>10. m \in 0..n
  BY <1>1, <1>4
<1>11. QED
  BY <1>8, <1>9, <1>10, Zenon DEF UpperPart, n, m, g, hi, lo

-----------------------------------------------------------------------------
\* tailFile.

\* What the scan knows: what has been collected is the end of the file, with as many
\* newlines as were counted; a result was made from that when the scan was over.
TailInv ==
  /\ file \in Seq(Bytes)
  /\ remaining \in 0..Len(file)
  /\ collected = [i \in 1..(Len(file) - remaining) |-> remaining + i]
  /\ read = Len(file) - remaining
  /\ lineCount = Cardinality({p \in (remaining + 1)..Len(file) : file[p] = "nl"})
  /\ read < maxReadBytes + tailChunkSize
  /\ tailDone \in BOOLEAN
  /\ tailDone =>
       ~WantsMore /\ result = IF file = <<>> THEN <<>> ELSE LastLines(AllLines)

\* Products of numbers are numbers.
LEMMA ProductIsNat ==
  ASSUME NEW a \in Nat, NEW b \in Nat
  PROVE  a * b * 2 \in Nat
<1>1. a * b \in Nat
  OBVIOUS
<1>2. QED
  BY <1>1

\* The read cap is a number and at least a chunk.
LEMMA CapType == maxReadBytes \in Nat /\ maxReadBytes >= tailChunkSize /\ tailChunkSize \in Nat \ {0}
<1>1. lines * maxLogLineBytes * 2 \in Nat
  BY ProductIsNat, TailAssumption, LimitsAssumption
<1>2. QED
  BY <1>1, TailAssumption DEF maxReadBytes

\* The invariant holds before the first chunk is read,
LEMMA TailInitially ==
  ASSUME TailInit PROVE TailInv
<1>1. file \in Seq(Bytes) /\ Len(file) \in Nat
  BY DEF TailInit
<1>2. collected = [i \in 1..(Len(file) - remaining) |-> remaining + i]
  BY <1>1 DEF TailInit
<1>3. {p \in (remaining + 1)..Len(file) : file[p] = "nl"} = {}
  BY <1>1 DEF TailInit
<1>4. lineCount = Cardinality({p \in (remaining + 1)..Len(file) : file[p] = "nl"})
  BY <1>3, FS_EmptySet, Zenon DEF TailInit
<1>5. read < maxReadBytes + tailChunkSize
  BY CapType DEF TailInit
<1>6. remaining \in 0..Len(file) /\ read = Len(file) - remaining /\ tailDone = FALSE
  BY <1>1 DEF TailInit
<1>7. QED
  BY <1>1, <1>2, <1>4, <1>5, <1>6, Zenon DEF TailInv

\* and when tailFile has returned.
LEMMA TailForgets ==
  ASSUME TailReturned PROVE TailInv'
<1>1. file' \in Seq(Bytes) /\ Len(file') = 0
  BY DEF TailReturned
<1>2. collected' = [i \in 1..(Len(file') - remaining') |-> remaining' + i]
  BY <1>1 DEF TailReturned
<1>3. {p \in (remaining' + 1)..Len(file') : file'[p] = "nl"} = {}
  BY <1>1 DEF TailReturned
<1>4. lineCount' = Cardinality({p \in (remaining' + 1)..Len(file') : file'[p] = "nl"})
  BY <1>3, FS_EmptySet DEF TailReturned
<1>5. read' < maxReadBytes' + tailChunkSize
  BY CapType DEF TailReturned, maxReadBytes
<1>6. remaining' \in 0..Len(file') /\ read' = Len(file') - remaining' /\ tailDone' = FALSE
  BY <1>1 DEF TailReturned
<1>7. QED
  BY <1>1, <1>2, <1>4, <1>5, <1>6, Zenon DEF TailInv

\* A chunk more is read: what is collected is still the end of the file.
LEMMA ReadChunkKeeps ==
  ASSUME TailInv, ReadChunk PROVE TailInv'
<1> DEFINE n == Len(file)
           size == IF tailChunkSize > remaining THEN remaining ELSE tailChunkSize
           offset == remaining - size
           chunk == [i \in 1..size |-> offset + i]
           new == {p \in (offset + 1)..remaining : file[p] = "nl"}
           old == {p \in (remaining + 1)..n : file[p] = "nl"}
<1>1. n \in Nat /\ remaining \in 0..n /\ file \in Seq(Bytes) /\ remaining > 0
  BY DEF TailInv, ReadChunk, WantsMore
<1>2. size \in 1..remaining /\ size <= tailChunkSize /\ offset \in 0..n
      /\ offset + size = remaining /\ offset < remaining /\ offset \in Nat
  BY <1>1, CapType
<1>3. /\ ~tailDone /\ WantsMore /\ collected' = chunk \o collected
      /\ lineCount' = lineCount + Cardinality({i \in 1..size : file[chunk[i]] = "nl"})
      /\ remaining' = offset /\ read' = read + size
      /\ file' = file /\ result' = result /\ tailDone' = tailDone
  BY DEF ReadChunk
<1> HIDE DEF size, offset
<1>4. collected' = [i \in 1..(n - offset) |-> offset + i]
  <2>1. chunk \in Seq(Nat) /\ Len(chunk) = size
    BY <1>2
  <2>2. collected \in Seq(Nat) /\ Len(collected) = n - remaining
    <3>1. n - remaining \in Nat /\ \A i \in 1..(n - remaining) : remaining + i \in Nat
      BY <1>1
    <3>2. collected = [i \in 1..(n - remaining) |-> remaining + i]
      BY DEF TailInv
    <3> HIDE DEF n
    <3>3. QED
      BY <3>1, <3>2
  <2>3. \A i \in 1..(n - remaining) : collected[i] = remaining + i
    BY <1>1 DEF TailInv
  <2> HIDE DEF chunk, n
  <2>4. collected' \in Seq(Nat) /\ Len(collected') = n - offset
    BY <1>1, <1>2, <1>3, <2>1, <2>2
  <2>5. ASSUME NEW i \in 1..(n - offset) PROVE collected'[i] = offset + i
    <3>1. CASE i <= size
      BY <1>2, <1>3, <2>1, <2>2, <3>1 DEF chunk
    <3>2. CASE i > size
      <4>1. collected'[i] = collected[i - size] /\ i - size \in 1..(n - remaining)
        BY <1>1, <1>2, <1>3, <2>1, <2>2, <3>2
      <4>2. QED
        BY <1>1, <1>2, <2>3, <4>1
    <3>3. QED
      BY <1>2, <3>1, <3>2
  <2>6. QED
    BY <2>4, <2>5
<1>5. lineCount' = Cardinality({p \in (offset + 1)..n : file[p] = "nl"})
  <2> DEFINE marks == {i \in 1..size : file[chunk[i]] = "nl"}
  <2>1. Positions(marks)
    <3>1. size \in Nat /\ marks \subseteq 1..size
      BY <1>2
    <3> HIDE DEF marks
    <3>2. QED
      BY <3>1, IntervalPositions, Zenon
  <2>2. new = {offset + i : i \in marks}
    <3>1. \A i \in 1..size : chunk[i] = offset + i /\ offset + i \in (offset + 1)..remaining
      BY <1>1, <1>2
    <3>2. \A p \in (offset + 1)..remaining : p - offset \in 1..size /\ offset + (p - offset) = p
      BY <1>1, <1>2
    <3> HIDE DEF chunk
    <3>3. QED
      BY <3>1, <3>2
  <2>3. Positions(new) /\ Cardinality(new) = Cardinality(marks)
    <3> HIDE DEF new, marks
    <3>1. QED
      BY <1>2, <2>1, <2>2, InOrderShift
  <2>4. Positions(old)
    BY <1>1, IntervalPositions
  <2>5. new \cap old = {}
    BY <1>1, <1>2
  <2>6. new \cup old = {p \in (offset + 1)..n : file[p] = "nl"}
    BY <1>1, <1>2
  <2>7. Cardinality(new \cup old) = Cardinality(new) + Cardinality(old)
    <3>1. IsFiniteSet(new) /\ IsFiniteSet(old)
      BY <2>3, <2>4 DEF Positions
    <3> HIDE DEF new, old
    <3>2. Cardinality(new \cap old) = 0
      BY <2>5, FS_EmptySet
    <3>3. Cardinality(new) \in Nat /\ Cardinality(old) \in Nat
      BY <3>1, FS_CardinalityType
    <3>4. Cardinality(new \cup old) = Cardinality(new) + Cardinality(old) - Cardinality(new \cap old)
      BY <3>1, FS_Union
    <3>5. QED
      BY <3>2, <3>3, <3>4
  <2>8. lineCount = Cardinality(old)
    BY DEF TailInv
  <2>9. Cardinality(marks) \in Nat /\ Cardinality(old) \in Nat
    BY <2>1, <2>4, FS_CardinalityType DEF Positions
  <2>10. lineCount' = lineCount + Cardinality(marks)
    BY <1>3
  <2> HIDE DEF marks, new, old
  <2>11. lineCount' = Cardinality(new) + Cardinality(old)
    BY <2>3, <2>8, <2>9, <2>10
  <2>12. QED
    BY <2>6, <2>7, <2>11, Zenon
<1>6. read' = n - offset /\ read' < maxReadBytes + tailChunkSize
  <2>1. read = n - remaining /\ read < maxReadBytes
    BY <1>3 DEF TailInv, WantsMore
  <2>2. read' = read + size
    BY <1>3
  <2>3. n \in Nat /\ remaining \in 0..n /\ size \in Nat /\ size <= tailChunkSize
        /\ offset = remaining - size
    BY <1>1, <1>2 DEF offset
  <2> HIDE DEF n
  <2>4. QED
    BY <2>1, <2>2, <2>3, CapType
<1>7. maxReadBytes' = maxReadBytes /\ ~tailDone'
  BY <1>3 DEF maxReadBytes
<1>8. QED
  BY <1>1, <1>2, <1>3, <1>4, <1>5, <1>6, <1>7, Zenon DEF TailInv

\* A line runs from its start to the next newline.
LEMMA LineFromTo ==
  ASSUME file \in Seq(Bytes), NEW a \in 1..(Len(file) + 1), NEW b \in 0..Len(file), a <= b + 1,
         \A q \in a..b : file[q] # "nl",
         b < Len(file) => file[b + 1] = "nl"
  PROVE  LineFrom(a) = [k \in 1..(b + 1 - a) |-> a + k - 1]
<1> DEFINE n == Len(file)
<1>1. n \in Nat /\ a \in Nat \ {0} /\ b \in Nat
  OBVIOUS
<1>2. ASSUME NEW p \in a..n PROVE (\A q \in a..p : file[q] # "nl") <=> p \in a..b
  <2>1. p \in a..b => \A q \in a..p : file[q] # "nl"
    BY <1>1
  <2>2. p > b => b + 1 \in a..p /\ b < n
    BY <1>1
  <2> HIDE DEF n
  <2>3. QED
    BY <1>1, <2>1, <2>2 DEF n
<1>3. {p \in a..n : \A q \in a..p : file[q] # "nl"} = a..b
  BY <1>1, <1>2
<1>4. QED
  BY <1>1, <1>3, InOrderInterval, Zenon DEF LineFrom

\* A piece of what was collected is the line that starts where it starts.
LEMMA PieceIsLine ==
  ASSUME TailInv, NEW s \in 1..(Len(file) - remaining + 1)
  PROVE  Piece(collected, s) = LineFrom(remaining + s)
<1> DEFINE n == Len(file)
           r == remaining
           ends == {i \in Breaks(collected) : i >= s} \cup {Len(collected) + 1}
           e == Min(ends)
<1>1. n \in Nat /\ r \in 0..n /\ file \in Seq(Bytes) /\ n - r \in Nat
  BY DEF TailInv
<1>2. /\ collected \in Seq(Nat) /\ Len(collected) = n - r
      /\ \A i \in 1..(n - r) : collected[i] = r + i
  <2>1. \A i \in 1..(n - r) : r + i \in Nat
    BY <1>1
  <2>2. collected = [i \in 1..(n - r) |-> r + i]
    BY DEF TailInv
  <2> HIDE DEF n, r
  <2>3. QED
    BY <1>1, <2>1, <2>2
<1>3. Breaks(collected) = {i \in 1..(n - r) : file[r + i] = "nl"}
  BY <1>2 DEF Breaks
<1>4. ends \subseteq Nat /\ ends # {} /\ ends = {i \in s..(n - r) : file[r + i] = "nl"} \cup {n - r + 1}
  BY <1>1, <1>2, <1>3
<1> HIDE DEF ends
<1>5. e \in ends /\ \A i \in ends : e <= i
  BY <1>4, MinIsLeast, Zenon
<1>6. e \in s..(n - r + 1)
  BY <1>1, <1>4, <1>5
<1>7. \A i \in s..(e - 1) : file[r + i] # "nl"
  <2> SUFFICES ASSUME NEW i \in s..(e - 1), file[r + i] = "nl" PROVE FALSE
    OBVIOUS
  <2>1. i \in s..(n - r) /\ i < e
    BY <1>1, <1>6
  <2>2. i \in ends
    BY <1>4, <2>1
  <2>3. e <= i
    BY <1>5, <2>2
  <2>4. QED
    BY <1>1, <1>6, <2>1, <2>3
<1>8. e <= n - r => file[r + e] = "nl"
  BY <1>1, <1>4, <1>5, <1>6
<1> HIDE DEF e
<1> DEFINE a == r + s
           b == r + e - 1
<1>9. a \in 1..(n + 1) /\ b \in 0..n /\ a <= b + 1 /\ b + 1 - a = e - s
  BY <1>1, <1>6
<1>10. \A q \in a..b : file[q] # "nl"
  <2> SUFFICES ASSUME NEW q \in a..b PROVE file[q] # "nl"
    OBVIOUS
  <2>1. q - r \in s..(e - 1) /\ r + (q - r) = q
    BY <1>1, <1>6
  <2>2. QED
    BY <1>7, <2>1
<1>11. b < n => file[b + 1] = "nl"
  <2>1. b + 1 = r + e /\ (b < n => e <= n - r)
    BY <1>1, <1>6
  <2>2. QED
    BY <1>8, <2>1
<1>12. LineFrom(a) = [k \in 1..(e - s) |-> a + k - 1]
  <2>1. LineFrom(a) = [k \in 1..(b + 1 - a) |-> a + k - 1]
    <3> HIDE DEF a, b
    <3>1. QED
      BY <1>1, <1>9, <1>10, <1>11, LineFromTo DEF n
  <2>2. QED
    BY <1>9, <2>1
<1>13. Piece(collected, s) = SubSeq(collected, s, e - 1)
  BY DEF Piece, e, ends
<1>14. SubSeq(collected, s, e - 1) = [k \in 1..(e - s) |-> a + k - 1]
  <2>1. (e - 1) - s + 1 = e - s
    BY <1>1, <1>6
  <2>2. SubSeq(collected, s, e - 1) = [k \in 1..(e - s) |-> collected[s + k - 1]]
    BY <1>1, <1>2, <1>6, <2>1
  <2>3. \A k \in 1..(e - s) : collected[s + k - 1] = a + k - 1
    <3> TAKE k \in 1..(e - s)
    <3>1. s + k - 1 \in 1..(n - r) /\ r + (s + k - 1) = a + k - 1
      BY <1>1, <1>6
    <3>2. QED
      BY <1>2, <3>1
  <2>4. QED
    BY <2>2, <2>3
<1>15. QED
  BY <1>12, <1>13, <1>14, Zenon DEF a

\* The lines that start at the given positions.
LinesOf(P) == [k \in 1..Cardinality(P) |-> LineFrom(InOrder(P)[k])]

\* A line is a sequence of positions.
LEMMA LineFromType ==
  ASSUME file \in Seq(Bytes), NEW s \in Nat
  PROVE  LineFrom(s) \in Seq(Nat)
<1> DEFINE S == {p \in s..Len(file) : \A q \in s..p : file[q] # "nl"}
<1>1. S \subseteq s..Len(file) /\ Len(file) \in Nat
  OBVIOUS
<1> HIDE DEF S
<1>2. Positions(S)
  BY <1>1, IntervalPositions, Zenon
<1>3. QED
  BY <1>2, InOrderType DEF LineFrom, S

\* The lines that start at given places, one for each.
LEMMA LinesOfType ==
  ASSUME file \in Seq(Bytes), NEW P, Positions(P)
  PROVE  /\ LinesOf(P) \in Seq(Seq(Nat)) /\ Len(LinesOf(P)) = Cardinality(P)
         /\ \A k \in 1..Cardinality(P) : LinesOf(P)[k] = LineFrom(InOrder(P)[k])
<1>1. Cardinality(P) \in Nat /\ \A k \in 1..Cardinality(P) : InOrder(P)[k] \in Nat
  BY InOrderPlaces, Zenon DEF Positions
<1>2. \A k \in 1..Cardinality(P) : LineFrom(InOrder(P)[k]) \in Seq(Nat)
  BY <1>1, LineFromType, Zenon
<1>3. QED
  BY <1>1, <1>2 DEF LinesOf

UpperLines(P, U) ==
  /\ Cardinality(P \ U) \in 0..Cardinality(P)
  /\ Cardinality(U) = Cardinality(P) - Cardinality(P \ U)
  /\ Positions(U) /\ Positions(P \ U)
  /\ LinesOf(U) = SubSeq(LinesOf(P), Cardinality(P \ U) + 1, Cardinality(P))
  /\ LinesOf(P \ U) = SubSeq(LinesOf(P), 1, Cardinality(P \ U))

\* The lines that start in the upper part of the places are the last ones.
LEMMA LinesOfCut ==
  ASSUME file \in Seq(Bytes), NEW P, Positions(P), NEW U, U \subseteq P,
         \A x \in P \ U, y \in U : x < y
  PROVE  UpperLines(P, U)
<1> DEFINE m == Cardinality(P \ U)
           c == Cardinality(P)
           g == InOrder(P)
           L == LinesOf(P)
<1>1. /\ m \in 0..c /\ Cardinality(U) = c - m /\ Positions(U) /\ Positions(P \ U)
      /\ \A k \in 1..Cardinality(U) : InOrder(U)[k] = g[m + k]
      /\ \A k \in 1..m : InOrder(P \ U)[k] = g[k]
  <2>1. UpperPart(P, U)
    BY InOrderCut
  <2>2. QED
    BY <2>1, Zenon DEF UpperPart
<1>2. c \in Nat
  BY InOrderPlaces
<1>3. L \in Seq(Seq(Nat)) /\ Len(L) = c /\ \A k \in 1..c : L[k] = LineFrom(g[k])
  BY LinesOfType
<1>4. LinesOf(U) = [k \in 1..(c - m) |-> LineFrom(InOrder(U)[k])]
  BY <1>1 DEF LinesOf
<1>5. LinesOf(P \ U) = [k \in 1..m |-> LineFrom(InOrder(P \ U)[k])]
  BY DEF LinesOf
<1> HIDE DEF m, c, g, L
<1>6. LinesOf(U) = SubSeq(L, m + 1, c)
  <2>1. SubSeq(L, m + 1, c) = [k \in 1..(c - m) |-> L[m + k]]
    <3>1. c - (m + 1) + 1 = c - m /\ \A k \in 1..(c - m) : (m + 1) + k - 1 = m + k
      BY <1>1, <1>2
    <3>2. SubSeq(L, m + 1, c) = [k \in 1..(c - (m + 1) + 1) |-> L[(m + 1) + k - 1]]
      BY <1>1, <1>2, <1>3
    <3>3. QED
      BY <3>1, <3>2
  <2>2. \A k \in 1..(c - m) : L[m + k] = LineFrom(InOrder(U)[k])
    <3> TAKE k \in 1..(c - m)
    <3>1. m + k \in 1..c
      BY <1>1, <1>2
    <3>2. InOrder(U)[k] = g[m + k]
      BY <1>1
    <3>3. QED
      BY <1>3, <3>1, <3>2
  <2>3. QED
    BY <1>4, <2>1, <2>2
<1>7. LinesOf(P \ U) = SubSeq(L, 1, m)
  <2>1. SubSeq(L, 1, m) = [k \in 1..m |-> L[k]]
    <3>1. m - 1 + 1 = m /\ \A k \in 1..m : 1 + k - 1 = k
      BY <1>1, <1>2
    <3>2. SubSeq(L, 1, m) = [k \in 1..(m - 1 + 1) |-> L[1 + k - 1]]
      BY <1>1, <1>2, <1>3
    <3>3. QED
      BY <3>1, <3>2
  <2>2. \A k \in 1..m : L[k] = LineFrom(InOrder(P \ U)[k])
    <3> TAKE k \in 1..m
    <3>1. k \in 1..c
      BY <1>1, <1>2
    <3>2. InOrder(P \ U)[k] = g[k]
      BY <1>1, Zenon
    <3>3. QED
      BY <1>3, <3>1, <3>2
  <2>3. QED
    BY <1>5, <2>1, <2>2, Zenon
<1>8. QED
  BY <1>1, <1>6, <1>7, Zenon DEF UpperLines, m, c, g, L

\* Where the pieces of what was read start, in the file.
PieceStarts == {remaining + 1} \cup {p + 1 : p \in {q \in (remaining + 1)..Len(file) : file[q] = "nl"}}

\* The pieces strings.Split makes are the lines that start in what was read, the first
\* perhaps without its beginning.
LEMMA SplitIsLines ==
  ASSUME TailInv
  PROVE  Positions(PieceStarts) /\ Split(collected) = LinesOf(PieceStarts)
<1> DEFINE n == Len(file)
           r == remaining
           T == {1} \cup {i + 1 : i \in Breaks(collected)}
           c == Cardinality(T)
<1>1. n \in Nat /\ r \in 0..n /\ file \in Seq(Bytes) /\ n - r \in Nat /\ r \in Nat
  BY DEF TailInv
<1>2. Breaks(collected) = {i \in 1..(n - r) : file[r + i] = "nl"}
  <2>1. Len(collected) = n - r /\ \A i \in 1..(n - r) : collected[i] = r + i
    <3>1. collected = [i \in 1..(n - r) |-> r + i]
      BY DEF TailInv
    <3> HIDE DEF n, r
    <3>2. QED
      BY <1>1, <3>1
  <2>2. QED
    BY <2>1 DEF Breaks
<1>3. T \subseteq 1..(n - r + 1)
  BY <1>1, <1>2
<1>4. PieceStarts = {r + x : x \in T}
  <2>1. ASSUME NEW y \in PieceStarts PROVE \E x \in T : y = r + x
    <3>1. CASE y = r + 1
      BY <3>1
    <3>2. CASE y # r + 1
      <4>1. PICK p \in (r + 1)..n : file[p] = "nl" /\ y = p + 1
        BY <2>1, <3>2 DEF PieceStarts
      <4>2. p - r \in 1..(n - r) /\ r + (p - r) = p /\ r + ((p - r) + 1) = y
        BY <1>1, <4>1
      <4>3. (p - r) + 1 \in T
        BY <1>2, <4>1, <4>2
      <4>4. QED
        BY <4>2, <4>3
    <3>3. QED
      BY <3>1, <3>2
  <2>2. ASSUME NEW x \in T PROVE r + x \in PieceStarts
    <3>1. CASE x = 1
      BY <3>1 DEF PieceStarts
    <3>2. CASE x # 1
      <4>1. PICK i \in 1..(n - r) : file[r + i] = "nl" /\ x = i + 1
        BY <1>2, <2>2, <3>2
      <4>2. r + i \in (r + 1)..n /\ r + x = (r + i) + 1
        BY <1>1, <4>1
      <4>3. QED
        BY <4>1, <4>2 DEF PieceStarts
    <3>3. QED
      BY <3>1, <3>2
  <2> HIDE DEF T
  <2>3. QED
    BY <2>1, <2>2
<1> HIDE DEF T
<1>5. Positions(T)
  <2>1. n - r + 1 \in Nat
    BY <1>1
  <2>2. QED
    BY <1>3, <2>1, IntervalPositions, Zenon
<1>6. /\ Positions(PieceStarts) /\ Cardinality(PieceStarts) = c
      /\ InOrder(PieceStarts) = [k \in 1..c |-> r + InOrder(T)[k]]
  <2> HIDE DEF r
  <2>1. QED
    BY <1>1, <1>4, <1>5, InOrderShift, ZenonT(60)
<1>7. c \in Nat /\ Len(InOrder(T)) = c /\ \A k \in 1..c : InOrder(T)[k] \in T
  BY <1>5, InOrderType, InOrderPlaces
<1>8. Split(collected) = [k \in 1..c |-> Piece(collected, InOrder(T)[k])]
  BY <1>7 DEF Split, T
<1>9. \A k \in 1..c : Piece(collected, InOrder(T)[k]) = LineFrom(InOrder(PieceStarts)[k])
  <2> TAKE k \in 1..c
  <2>1. InOrder(T)[k] \in 1..(n - r + 1)
    BY <1>3, <1>7, Zenon
  <2>2. InOrder(PieceStarts)[k] = r + InOrder(T)[k]
    BY <1>6
  <2>3. QED
    BY <2>1, <2>2, PieceIsLine
<1>10. LinesOf(PieceStarts) = [k \in 1..c |-> LineFrom(InOrder(PieceStarts)[k])]
  BY <1>6 DEF LinesOf
<1>11. QED
  BY <1>6, <1>8, <1>9, <1>10

\* The same without the empty piece after a final newline.
WholeStarts == {s \in (remaining + 1)..Len(file) : s = remaining + 1 \/ file[s - 1] = "nl"}

\* Without the empty piece after a final newline they are all lines of the file.
LEMMA WholeIsLines ==
  ASSUME TailInv, remaining < Len(file),
         NEW pieces, pieces = Split(collected)
  PROVE  /\ Positions(WholeStarts)
         /\ (IF Last(pieces) = <<>> THEN Front(pieces) ELSE pieces) = LinesOf(WholeStarts)
<1> DEFINE n == Len(file)
           r == remaining
           P == PieceStarts
           Q == WholeStarts
           c == Cardinality(P)
<1>1. n \in Nat /\ r \in 0..n /\ file \in Seq(Bytes) /\ r \in Nat /\ r < n
  BY DEF TailInv
<1>2. Positions(P) /\ pieces = LinesOf(P)
  BY SplitIsLines
<1>3. /\ pieces \in Seq(Seq(Nat)) /\ Len(pieces) = c
      /\ \A k \in 1..c : pieces[k] = LineFrom(InOrder(P)[k])
  BY <1>1, <1>2, LinesOfType
<1>4. c \in Nat /\ r + 1 \in P
  BY <1>2, InOrderPlaces DEF PieceStarts
<1>5. c >= 1
  BY <1>2, <1>4, RankBound
<1>6. Positions(Q)
  <2>1. Q \subseteq (r + 1)..n /\ r + 1 \in Nat
    BY <1>1 DEF WholeStarts
  <2>2. QED
    BY <1>1, <2>1, IntervalPositions, Zenon
<1>7. Q = {s \in P : s <= n}
  <2>1. ASSUME NEW s \in Q PROVE s \in P /\ s <= n
    <3>1. s \in (r + 1)..n /\ (s = r + 1 \/ file[s - 1] = "nl")
      BY <2>1 DEF WholeStarts
    <3>2. CASE s = r + 1
      BY <1>1, <3>1, <3>2 DEF PieceStarts
    <3>3. CASE s # r + 1
      <4>1. s - 1 \in (r + 1)..n /\ (s - 1) + 1 = s /\ s <= n
        BY <1>1, <3>1, <3>3
      <4>2. QED
        BY <3>1, <3>3, <4>1 DEF PieceStarts
    <3>4. QED
      BY <3>2, <3>3
  <2>2. ASSUME NEW s \in P, s <= n PROVE s \in Q
    <3>1. CASE s = r + 1
      BY <1>1, <3>1 DEF WholeStarts
    <3>2. CASE s # r + 1
      <4>1. PICK p \in (r + 1)..n : file[p] = "nl" /\ s = p + 1
        BY <2>2, <3>2 DEF PieceStarts
      <4>2. s \in (r + 1)..n /\ s - 1 = p
        BY <1>1, <2>2, <4>1
      <4>3. QED
        BY <4>1, <4>2 DEF WholeStarts
    <3>3. QED
      BY <3>1, <3>2
  <2>3. QED
    BY <2>1, <2>2, Zenon
<1>8. P \subseteq Q \cup {n + 1} /\ (n + 1 \in P <=> file[n] = "nl") /\ n + 1 \notin Q
  <2>1. \A s \in P : s \in Nat /\ s <= n + 1
    BY <1>1 DEF PieceStarts
  <2>2. \A s \in P : s <= n \/ s = n + 1
    BY <1>1, <2>1
  <2>3. n \in (r + 1)..n /\ n + 1 # r + 1 /\ \A p \in (r + 1)..n : p + 1 = n + 1 <=> p = n
    BY <1>1
  <2>4. n + 1 \in P <=> file[n] = "nl"
    BY <2>3 DEF PieceStarts
  <2>5. n + 1 \notin Q
    BY <1>1, <1>7
  <2>6. QED
    BY <1>7, <2>2, <2>4, <2>5
<1>9. Last(pieces) = LineFrom(InOrder(P)[c]) /\ Front(pieces) = SubSeq(pieces, 1, c - 1)
  BY <1>3, <1>4, <1>5 DEF Last, Front
<1>10. CASE file[n] = "nl"
  <2> DEFINE U == {n + 1}
  <2>1. U \subseteq P /\ P \ U = Q
    BY <1>7, <1>8, <1>10
  <2>2. \A x \in P \ U, y \in U : x < y
    <3>1. \A x \in Q : x < n + 1
      BY <1>1 DEF WholeStarts
    <3>2. QED
      BY <2>1, <3>1
  <2>3. UpperLines(P, U) /\ UpperPart(P, U)
    <3> HIDE DEF U, P
    <3>1. QED
      BY <1>1, <1>2, <2>1, <2>2, LinesOfCut, InOrderCut
  <2>4. Cardinality(U) = 1
    BY FS_Singleton, Zenon
  <2>5. InOrder(U)[1] = n + 1
    <3>1. Positions(U)
      BY <2>3 DEF UpperPart
    <3>2. InOrder(U)[1] \in U
      BY <2>4, <3>1, InOrderPlaces
    <3>3. QED
      BY <3>2
  <2> HIDE DEF U
  <2>6. Cardinality(P \ U) \in 0..c /\ 1 = c - Cardinality(P \ U)
    BY <2>3, <2>4 DEF UpperPart
  <2>7. Cardinality(P \ U) = c - 1
    BY <1>4, <2>6
  <2>8. InOrder(P)[c] = n + 1
    <3>1. \A k \in 1..Cardinality(U) : InOrder(U)[k] = InOrder(P)[Cardinality(P \ U) + k]
      BY <2>3, Zenon DEF UpperPart
    <3>2. Cardinality(P \ U) + 1 = c /\ 1 \in 1..Cardinality(U)
      BY <1>4, <2>4, <2>7
    <3>3. QED
      BY <2>5, <3>1, <3>2
  <2>9. Last(pieces) = <<>>
    <3>1. n + 1 \in 1..(n + 1) /\ n \in 0..n /\ (\A q \in (n + 1)..n : FALSE)
          /\ (n + 1) - (n + 1) = 0
      BY <1>1
    <3>2. LineFrom(n + 1) = [k \in 1..(n + 1 - (n + 1)) |-> n + 1 + k - 1]
      BY <1>1, <3>1, LineFromTo
    <3>3. LineFrom(n + 1) = <<>>
      BY <3>1, <3>2
    <3>4. QED
      BY <1>9, <2>8, <3>3
  <2>10. LinesOf(Q) = SubSeq(pieces, 1, c - 1)
    BY <1>2, <2>1, <2>3, <2>7, Zenon DEF UpperLines
  <2>11. QED
    BY <1>6, <1>9, <2>9, <2>10
<1>11. CASE file[n] # "nl"
  <2>1. P = Q
    BY <1>7, <1>8, <1>11
  <2> DEFINE m == InOrder(P)[c]
  <2>2. m \in P /\ m \in Nat /\ m <= n
    BY <1>2, <1>4, <1>5, <1>7, <2>1, InOrderPlaces DEF Positions
  <2>3. \A s \in P : s <= m
    BY <1>2, <1>4, LastIsGreatest
  <2> HIDE DEF m
  <2>4. file[m] # "nl"
    <3> SUFFICES ASSUME file[m] = "nl" PROVE FALSE
      OBVIOUS
    <3>1. m >= r + 1 /\ m < n
      BY <1>1, <1>4, <1>11, <2>2, <2>3
    <3>2. m + 1 \in Q
      BY <1>1, <2>2, <3>1 DEF WholeStarts
    <3>3. QED
      BY <2>1, <2>2, <2>3, <3>2
  <2>5. LineFrom(m) # <<>>
    <3> DEFINE S == {p \in m..n : \A q \in m..p : file[q] # "nl"}
    <3>1. m \in S /\ S \subseteq m..n
      BY <1>1, <2>2, <2>4
    <3> HIDE DEF S
    <3>2. Positions(S)
      BY <1>1, <2>2, <3>1, IntervalPositions, Zenon
    <3>3. Cardinality(S) \in Nat /\ Cardinality(S) > 0
      BY <3>1, <3>2, RankBound
    <3>4. Len(InOrder(S)) > 0
      BY <3>2, <3>3, InOrderType
    <3>5. LineFrom(m) = InOrder(S)
      BY DEF LineFrom, S
    <3>6. QED
      BY <3>4, <3>5
  <2>6. QED
    BY <1>2, <1>6, <1>9, <2>1, <2>5 DEF m
<1>12. QED
  BY <1>10, <1>11

\* The lines that start beyond the position the scan stopped at.
LaterStarts == {s \in LineStarts : s > remaining + 1}

\* What is returned of the collected bytes: all lines, or the whole ones, or, for want
\* of any, the fragment.
LEMMA AllLinesAre ==
  ASSUME TailInv, remaining < Len(file)
  PROVE  /\ remaining = 0 => AllLines = Lines
         /\ remaining > 0 /\ LaterStarts # {} => AllLines = LinesOf(LaterStarts)
         /\ remaining > 0 /\ LaterStarts = {} => AllLines = <<LineFrom(remaining + 1)>>
<1> DEFINE n == Len(file)
           r == remaining
           Q == WholeStarts
           V == LaterStarts
           pieces == Split(collected)
           whole == IF Last(pieces) = <<>> THEN Front(pieces) ELSE pieces
<1>1. n \in Nat /\ r \in 0..n /\ file \in Seq(Bytes) /\ r \in Nat /\ r < n
  BY DEF TailInv
<1>2. Positions(Q) /\ whole = LinesOf(Q)
  BY WholeIsLines
<1>3. AllLines = IF r > 0 /\ Len(whole) > 1 THEN Tail(whole) ELSE whole
  BY DEF AllLines
<1> HIDE DEF whole, pieces
<1>4. /\ whole \in Seq(Seq(Nat)) /\ Len(whole) = Cardinality(Q)
      /\ \A k \in 1..Cardinality(Q) : whole[k] = LineFrom(InOrder(Q)[k])
  BY <1>1, <1>2, LinesOfType
<1>5. ASSUME r = 0 PROVE AllLines = Lines
  <2>1. Q = LineStarts
    BY <1>1, <1>5 DEF WholeStarts, LineStarts
  <2>2. Lines = LinesOf(Q)
    BY <2>1 DEF Lines, LinesOf
  <2>3. QED
    BY <1>2, <1>3, <1>5, <2>2
<1>6. ASSUME r > 0
      PROVE  /\ V \subseteq Q /\ Q \ V = {r + 1} /\ UpperLines(Q, V)
             /\ Cardinality(V) \in Nat /\ Cardinality(Q) = Cardinality(V) + 1
  <2>1. V = {s \in (r + 2)..n : file[s - 1] = "nl"}
    BY <1>1, <1>6 DEF LaterStarts, LineStarts
  <2>2. V \subseteq Q
    BY <1>1, <2>1 DEF WholeStarts
  <2>3. Q \ V = {r + 1}
    BY <1>1, <2>1 DEF WholeStarts
  <2>4. \A x \in Q \ V, y \in V : x < y
    BY <1>1, <2>1, <2>3
  <2> HIDE DEF Q, V
  <2>5. UpperLines(Q, V)
    BY <1>1, <1>2, <2>2, <2>4, LinesOfCut
  <2>6. Cardinality(Q \ V) = 1
    BY <2>3, FS_Singleton, Zenon
  <2>7. Positions(V) /\ Cardinality(V) = Cardinality(Q) - Cardinality(Q \ V)
    BY <2>5 DEF UpperLines
  <2>8. Cardinality(V) \in Nat /\ Cardinality(Q) \in Nat
    BY <1>2, <2>7, FS_CardinalityType DEF Positions
  <2>9. QED
    BY <2>2, <2>3, <2>5, <2>6, <2>7, <2>8
<1>7. ASSUME r > 0, V # {} PROVE AllLines = LinesOf(V)
  <2>1. PICK v \in V : TRUE
    BY <1>7
  <2>2. UpperLines(Q, V) /\ Cardinality(V) \in Nat /\ Cardinality(Q) = Cardinality(V) + 1
        /\ Q \ V = {r + 1}
    BY <1>6, <1>7
  <2>3. Positions(V) /\ Cardinality(V) > 0
    BY <2>1, <2>2, RankBound DEF UpperLines
  <2>4. LinesOf(V) = SubSeq(whole, 2, Cardinality(Q))
    <3>1. Cardinality(Q \ V) = 1
      BY <2>2, FS_Singleton, Zenon
    <3>2. LinesOf(V) = SubSeq(whole, Cardinality(Q \ V) + 1, Cardinality(Q))
      BY <1>2, <2>2 DEF UpperLines
    <3>3. Cardinality(Q \ V) + 1 = 2
      BY <3>1
    <3>4. QED
      BY <3>2, <3>3, Zenon
  <2>5. Len(whole) > 1
    BY <1>4, <2>2, <2>3
  <2>6. Tail(whole) = SubSeq(whole, 2, Len(whole))
    BY <1>4, <2>5
  <2>7. QED
    BY <1>3, <1>4, <1>7, <2>4, <2>5, <2>6
<1>8. ASSUME r > 0, V = {} PROVE AllLines = <<LineFrom(r + 1)>>
  <2>1. Cardinality(Q) = 1 /\ Q = {r + 1}
    BY <1>6, <1>8, FS_EmptySet
  <2>2. InOrder(Q)[1] = r + 1
    <3>1. InOrder(Q)[1] \in Q
      BY <1>2, <2>1, InOrderPlaces
    <3>2. QED
      BY <2>1, <3>1
  <2>3. whole = <<LineFrom(r + 1)>>
    BY <1>4, <2>1, <2>2
  <2>4. QED
    BY <1>3, <1>4, <2>1, <2>3
<1>9. QED
  BY <1>5, <1>7, <1>8

\* Sequences of the same length and members are equal.
LEMMA SameSeq ==
  ASSUME NEW X, NEW s \in Seq(X), NEW t \in Seq(X), Len(s) = Len(t),
         \A i \in 1..Len(s) : s[i] = t[i]
  PROVE  s = t
OBVIOUS

\* The last lines of a list, by their places in it.
LEMMA LastLinesShape ==
  ASSUME NEW X, NEW L \in Seq(X)
  PROVE  /\ LastLines(L) \in Seq(X)
         /\ Len(LastLines(L)) = IF Len(L) <= lines THEN Len(L) ELSE lines
         /\ \A i \in 1..Len(LastLines(L)) :
              LastLines(L)[i] = L[Len(L) - Len(LastLines(L)) + i]
<1>1. lines \in Nat \ {0} /\ Len(L) \in Nat
  BY TailAssumption
<1>2. CASE Len(L) <= lines
  <2>1. LastLines(L) = L /\ \A i \in 1..Len(L) : Len(L) - Len(L) + i = i
    BY <1>1, <1>2 DEF LastLines
  <2>2. QED
    BY <1>2, <2>1
<1>3. CASE Len(L) > lines
  <2> DEFINE A == SubSeq(L, Len(L) - lines + 1, Len(L))
  <2>1. LastLines(L) = A
    BY <1>1, <1>3 DEF LastLines
  <2>2. Len(L) - lines + 1 \in 1..Len(L) /\ Len(L) - (Len(L) - lines + 1) + 1 = lines
    BY <1>1, <1>3
  <2>3. A \in Seq(X) /\ Len(A) = lines
        /\ \A i \in 1..lines : A[i] = L[(Len(L) - lines + 1) + i - 1]
    BY <1>1, <2>2
  <2>4. \A i \in 1..lines : (Len(L) - lines + 1) + i - 1 = Len(L) - lines + i
    BY <1>1
  <2> HIDE DEF A
  <2>5. QED
    BY <1>1, <1>3, <2>1, <2>3, <2>4
<1>4. QED
  BY <1>1, <1>2, <1>3

\* The last lines of an end of a sequence are an end of its last lines.
LEMMA LastLinesOfEnd ==
  ASSUME NEW X, NEW L \in Seq(X), NEW m \in 0..Len(L),
         NEW W, W = SubSeq(L, m + 1, Len(L))
  PROVE  /\ lines <= Len(L) - m => LastLines(W) = LastLines(L)
         /\ LastLines(W) \in Suffixes(LastLines(L))
         /\ m < Len(L) => LastLines(W) # <<>>
<1> DEFINE A == LastLines(L)
           B == LastLines(W)
           n == Len(L)
<1>1. n \in Nat /\ lines \in Nat \ {0} /\ m \in 0..n
  BY TailAssumption
<1>2. W \in Seq(X) /\ Len(W) = n - m
  BY <1>1
<1>3. \A i \in 1..(n - m) : W[i] = L[m + i]
  <2> SUFFICES ASSUME NEW i \in 1..(n - m) PROVE W[i] = L[m + i]
    OBVIOUS
  <2>1. W[i] = L[(m + 1) + i - 1] /\ (m + 1) + i - 1 = m + i
    BY <1>1
  <2>2. QED
    BY <2>1
<1>4. /\ A \in Seq(X) /\ Len(A) = IF n <= lines THEN n ELSE lines
      /\ \A i \in 1..Len(A) : A[i] = L[n - Len(A) + i]
  BY LastLinesShape
<1>5. /\ B \in Seq(X) /\ Len(B) = IF n - m <= lines THEN n - m ELSE lines
      /\ \A i \in 1..Len(B) : B[i] = W[(n - m) - Len(B) + i]
  <2>1. /\ B \in Seq(X) /\ Len(B) = IF Len(W) <= lines THEN Len(W) ELSE lines
        /\ \A i \in 1..Len(B) : B[i] = W[Len(W) - Len(B) + i]
    BY <1>2, LastLinesShape, Zenon
  <2> HIDE DEF B, n
  <2>2. QED
    BY <1>2, <2>1, Zenon
<1> HIDE DEF A, B, n
<1>6. Len(A) \in Nat /\ Len(B) \in 0..Len(A) /\ Len(B) <= n - m /\ Len(A) <= n
  BY <1>1, <1>4, <1>5
<1>7. \A i \in 1..Len(B) : B[i] = A[Len(A) - Len(B) + i]
  <2> SUFFICES ASSUME NEW i \in 1..Len(B) PROVE B[i] = A[Len(A) - Len(B) + i]
    OBVIOUS
  <2> DEFINE j == (n - m) - Len(B) + i
             k == Len(A) - Len(B) + i
  <2>1. j \in 1..(n - m) /\ k \in 1..Len(A) /\ m + j = n - Len(A) + k
    BY <1>1, <1>6
  <2>2. B[i] = W[j]
    BY <1>5, Zenon
  <2> HIDE DEF j, k
  <2>3. W[j] = L[m + j] /\ A[k] = L[n - Len(A) + k]
    BY <1>3, <1>4, <2>1, Zenon
  <2>4. QED
    BY <2>1, <2>2, <2>3, Zenon DEF k
<1>8. lines <= n - m => B = A
  <2> SUFFICES ASSUME lines <= n - m PROVE B = A
    OBVIOUS
  <2>1. Len(A) = Len(B) /\ \A i \in 1..Len(B) : Len(A) - Len(B) + i = i
    BY <1>1, <1>4, <1>5, <1>6
  <2>2. \A i \in 1..Len(B) : B[i] = A[i]
    BY <1>7, <2>1
  <2>3. QED
    BY <1>4, <1>5, <2>1, <2>2, SameSeq
<1>9. B \in Suffixes(A)
  <2>1. CASE Len(B) = 0
    BY <1>5, <2>1 DEF Suffixes
  <2>2. CASE Len(B) > 0
    <3> DEFINE l == Len(A) - Len(B) + 1
    <3>1. l \in 1..Len(A) /\ Len(A) - l + 1 = Len(B)
          /\ \A i \in 1..Len(B) : l + i - 1 = Len(A) - Len(B) + i
      BY <1>6, <2>2
    <3> HIDE DEF l
    <3>2. SubSeq(A, l, Len(A)) \in Seq(X) /\ Len(SubSeq(A, l, Len(A))) = Len(B)
          /\ \A i \in 1..Len(B) : SubSeq(A, l, Len(A))[i] = A[l + i - 1]
      BY <1>4, <1>6, <3>1
    <3>3. B = SubSeq(A, l, Len(A))
      <4>1. \A i \in 1..Len(B) : B[i] = SubSeq(A, l, Len(A))[i]
        BY <1>7, <3>1, <3>2
      <4>2. QED
        BY <1>5, <3>2, <4>1, SameSeq, Zenon
    <3>4. QED
      BY <3>1, <3>3 DEF Suffixes
  <2>3. QED
    BY <1>6, <2>1, <2>2
<1>10. m < n => B # <<>>
  BY <1>1, <1>5
<1>11. QED
  BY <1>8, <1>9, <1>10 DEF A, B, n

\* The reference is the lines that start at the line starts.
LEMMA LinesType ==
  ASSUME file \in Seq(Bytes)
  PROVE  /\ Positions(LineStarts) /\ Lines = LinesOf(LineStarts)
         /\ Lines \in Seq(Seq(Nat)) /\ Len(Lines) = Cardinality(LineStarts)
<1>1. LineStarts \subseteq 1..Len(file) /\ Len(file) \in Nat
  BY DEF LineStarts
<1>2. Positions(LineStarts)
  BY <1>1, IntervalPositions, Zenon
<1>3. Lines = LinesOf(LineStarts)
  BY DEF Lines, LinesOf
<1>4. QED
  BY <1>2, <1>3, LinesOfType

\* The lines that start in what was read, but for its first byte, are the last lines
\* of the file.
LEMMA LaterLinesAreEnd ==
  ASSUME TailInv
  PROVE  /\ Positions(LaterStarts)
         /\ \E m \in 0..Len(Lines) :
              /\ Cardinality(LaterStarts) = Len(Lines) - m
              /\ LinesOf(LaterStarts) = SubSeq(Lines, m + 1, Len(Lines))
<1>1. file \in Seq(Bytes) /\ remaining \in Nat
  BY DEF TailInv
<1>2. LaterStarts \subseteq LineStarts /\ LineStarts \subseteq Nat
  BY <1>1 DEF LaterStarts, LineStarts
<1>3. \A x \in LineStarts \ LaterStarts, y \in LaterStarts : x < y
  BY <1>1, <1>2 DEF LaterStarts
<1>4. UpperLines(LineStarts, LaterStarts)
  BY <1>1, <1>2, <1>3, LinesType, LinesOfCut, Zenon
<1>5. QED
  BY <1>1, <1>4, LinesType, Zenon DEF UpperLines

\* The scan is not over before anything was read.
LEMMA SomethingWasRead ==
  ASSUME TailInv, tailDone, file # <<>>
  PROVE  remaining < Len(file)
<1>1. /\ file \in Seq(Bytes) /\ Len(file) \in Nat /\ remaining \in 0..Len(file)
      /\ read = Len(file) - remaining /\ ~WantsMore
      /\ lineCount = Cardinality({p \in (remaining + 1)..Len(file) : file[p] = "nl"})
  BY DEF TailInv
<1> SUFFICES ASSUME remaining = Len(file) PROVE FALSE
  BY <1>1
<1>2. Len(file) > 0
  BY <1>1
<1>3. {p \in (remaining + 1)..Len(file) : file[p] = "nl"} = {}
  BY <1>1
<1>4. lineCount = 0
  BY <1>1, <1>3, FS_EmptySet, Zenon
<1>5. read = 0
  BY <1>1
<1>6. QED
  BY <1>1, <1>2, <1>4, <1>5, CapType, TailAssumption DEF WantsMore

\* One line starts after every newline read but the last byte of the file.
LEMMA LaterLinesCounted ==
  ASSUME TailInv, remaining > 0
  PROVE  Cardinality(LaterStarts) \in Nat /\ Cardinality(LaterStarts) >= lineCount - 1
<1> DEFINE n == Len(file)
           r == remaining
           N == {p \in (r + 1)..n : file[p] = "nl"}
           V == LaterStarts
<1>1. n \in Nat /\ r \in 1..n /\ file \in Seq(Bytes) /\ lineCount = Cardinality(N)
  BY DEF TailInv
<1>2. V = {1 + p : p \in N \ {n}}
  <2>1. V = {s \in (r + 2)..n : file[s - 1] = "nl"}
    BY <1>1 DEF LaterStarts, LineStarts
  <2>2. ASSUME NEW s \in V PROVE \E p \in N \ {n} : s = 1 + p
    <3>1. s - 1 \in N \ {n} /\ s = 1 + (s - 1)
      BY <1>1, <2>1, <2>2
    <3>2. QED
      BY <3>1
  <2>3. ASSUME NEW p \in N \ {n} PROVE 1 + p \in V
    <3>1. p \in (r + 1)..n /\ p # n /\ file[p] = "nl"
      BY <2>3
    <3>2. 1 + p \in (r + 2)..n /\ (1 + p) - 1 = p
      BY <1>1, <3>1
    <3>3. QED
      BY <2>1, <3>1, <3>2
  <2> HIDE DEF V, N
  <2>4. QED
    BY <2>2, <2>3
<1>3. N \subseteq 0..n /\ N \ {n} \subseteq 0..n
  BY <1>1
<1> HIDE DEF N, V
<1>4. Positions(N) /\ Positions(N \ {n})
  BY <1>1, <1>3, IntervalPositions
<1>5. Cardinality(V) = Cardinality(N \ {n})
  BY <1>2, <1>4, InOrderShift
<1>6. Cardinality(N) \in Nat /\ Cardinality(N \ {n}) \in Nat
  BY <1>4, FS_CardinalityType DEF Positions
<1>7. Cardinality(N \ {n}) >= Cardinality(N) - 1
  <2>1. CASE n \in N
    <3>1. Cardinality(N \ {n}) = Cardinality(N) - 1
      BY <1>4, <2>1, FS_RemoveElement DEF Positions
    <3>2. QED
      BY <1>6, <3>1
  <2>2. CASE n \notin N
    <3>1. N \ {n} = N
      BY <2>2
    <3>2. Cardinality(N \ {n}) = Cardinality(N)
      BY <3>1, Zenon
    <3>3. QED
      BY <1>6, <3>2
  <2>3. QED
    BY <2>1, <2>2
<1>8. QED
  BY <1>1, <1>5, <1>6, <1>7 DEF V

\* An empty file has no lines.
LEMMA NoFileNoLines ==
  ASSUME file = <<>> PROVE LastLines(Lines) = <<>>
<1>1. LineStarts = {}
  BY DEF LineStarts
<1>2. Cardinality(LineStarts) = 0
  BY <1>1, FS_EmptySet
<1>3. Lines = <<>>
  BY <1>2 DEF Lines
<1>4. QED
  BY <1>3, TailAssumption DEF LastLines

\* The invariant implies that the tail is exact unless the cap cut it short,
LEMMA InvTailIsExact == TailInv => TailIsExact
<1> SUFFICES ASSUME TailInv, tailDone, remaining = 0 \/ lineCount > lines \/ read < maxReadBytes
             PROVE  result = LastLines(Lines)
  BY DEF TailIsExact
<1>1. CASE file = <<>>
  BY <1>1, NoFileNoLines DEF TailInv
<1>2. CASE file # <<>>
  <2>1. result = LastLines(AllLines) /\ ~WantsMore /\ file \in Seq(Bytes) /\ remaining \in Nat
    BY <1>2 DEF TailInv
  <2>2. remaining < Len(file)
    BY <1>2, SomethingWasRead
  <2>3. CASE remaining = 0
    BY <2>1, <2>2, <2>3, AllLinesAre
  <2>4. CASE remaining > 0
    <3>1. lineCount > lines /\ lines \in Nat \ {0} /\ lineCount \in Nat
      <4>1. lineCount \in Nat
        <5> DEFINE N == {p \in (remaining + 1)..Len(file) : file[p] = "nl"}
        <5>1. N \subseteq 0..Len(file) /\ Len(file) \in Nat /\ lineCount = Cardinality(N)
          BY <2>1 DEF TailInv
        <5> HIDE DEF N
        <5>2. Positions(N)
          BY <5>1, IntervalPositions, Zenon
        <5>3. QED
          BY <5>1, <5>2, FS_CardinalityType DEF Positions
      <4>2. QED
        BY <2>1, <2>4, <4>1, TailAssumption DEF WantsMore
    <3>2. Cardinality(LaterStarts) \in Nat /\ Cardinality(LaterStarts) >= lines
      BY <2>4, <3>1, LaterLinesCounted
    <3>3. LaterStarts # {}
      BY <3>1, <3>2, FS_EmptySet
    <3>4. AllLines = LinesOf(LaterStarts)
      BY <2>2, <2>4, <3>3, AllLinesAre
    <3>5. PICK m \in 0..Len(Lines) :
            /\ Cardinality(LaterStarts) = Len(Lines) - m
            /\ LinesOf(LaterStarts) = SubSeq(Lines, m + 1, Len(Lines))
      BY LaterLinesAreEnd
    <3>6. LastLines(AllLines) = LastLines(Lines)
      BY <2>1, <3>2, <3>4, <3>5, LinesType, LastLinesOfEnd, Zenon
    <3>7. QED
      BY <2>1, <3>6
  <2>5. QED
    BY <2>1, <2>3, <2>4
<1>3. QED
  BY <1>1, <1>2

\* A fragment without a newline in it is an end of the last line.
LEMMA FragmentIsEnd ==
  ASSUME TailInv, remaining > 0, remaining < Len(file), LaterStarts = {}
  PROVE  LineFrom(remaining + 1) \in Suffixes(Last(Lines))
<1> DEFINE n == Len(file)
           r == remaining
           c == Cardinality(LineStarts)
           M == InOrder(LineStarts)[c]
           b == IF file[n] = "nl" THEN n - 1 ELSE n
<1>1. n \in Nat /\ r \in 1..n /\ r < n /\ file \in Seq(Bytes)
  BY DEF TailInv
<1>2. Positions(LineStarts) /\ Len(Lines) = c /\ c \in Nat /\ Lines = LinesOf(LineStarts)
  BY <1>1, LinesType, InOrderPlaces
<1>3. 1 \in LineStarts
  BY <1>1 DEF LineStarts
<1>4. c >= 1
  BY <1>2, <1>3, RankBound
<1>5. Last(Lines) = LineFrom(M)
  BY <1>1, <1>2, <1>4, LinesOfType DEF Last
<1>6. M \in LineStarts
  BY <1>2, <1>4, InOrderPlaces
<1>7. \A s \in LineStarts : s <= M
  BY <1>2, <1>3, LastIsGreatest
<1> HIDE DEF c, M
<1>8. M \in 1..n /\ M <= r + 1
  BY <1>1, <1>6 DEF LineStarts, LaterStarts
<1>9. b \in 0..n /\ r <= b /\ (b < n => b + 1 = n /\ file[n] = "nl") /\ (b = n => file[n] # "nl")
  BY <1>1
<1> HIDE DEF b
<1>10. \A q \in M..b : file[q] # "nl"
  <2> SUFFICES ASSUME NEW q \in M..b, file[q] = "nl" PROVE FALSE
    OBVIOUS
  <2>1. q < n
    BY <1>1, <1>8, <1>9
  <2>2. q + 1 \in LineStarts
    BY <1>1, <1>8, <2>1 DEF LineStarts
  <2>3. QED
    BY <1>7, <1>8, <1>9, <2>2
<1>11. b < n => file[b + 1] = "nl"
  BY <1>9
<1> DEFINE A == LineFrom(M)
           B == LineFrom(r + 1)
<1>12. A = [k \in 1..(b + 1 - M) |-> M + k - 1]
  <2>1. M \in 1..(n + 1) /\ M <= b + 1
    BY <1>1, <1>8, <1>9
  <2>2. QED
    BY <1>1, <1>9, <1>10, <1>11, <2>1, LineFromTo
<1>13. B = [k \in 1..(b + 1 - (r + 1)) |-> (r + 1) + k - 1]
  <2>1. r + 1 \in 1..(n + 1) /\ r + 1 <= b + 1
    BY <1>1, <1>8, <1>9
  <2>2. \A q \in (r + 1)..b : file[q] # "nl"
    BY <1>1, <1>8, <1>9, <1>10
  <2>3. QED
    BY <1>1, <1>9, <1>11, <2>1, <2>2, LineFromTo, Zenon
<1> HIDE DEF A, B
<1>14. A \in Seq(Nat) /\ Len(A) = b + 1 - M /\ \A k \in 1..(b + 1 - M) : A[k] = M + k - 1
  <2>1. b + 1 - M \in Nat /\ \A k \in 1..(b + 1 - M) : M + k - 1 \in Nat
    BY <1>1, <1>8, <1>9
  <2>2. QED
    BY <1>12, <2>1
<1>15. B \in Seq(Nat) /\ Len(B) = b - r /\ \A k \in 1..(b - r) : B[k] = r + k
  <2>1. /\ b - r \in Nat /\ b + 1 - (r + 1) = b - r
        /\ \A k \in 1..(b - r) : r + k \in Nat /\ (r + 1) + k - 1 = r + k
    BY <1>1, <1>9
  <2>2. QED
    BY <1>13, <2>1
<1>16. CASE b = r
  <2>1. B = <<>>
    BY <1>1, <1>9, <1>15, <1>16
  <2>2. QED
    BY <1>5, <2>1 DEF Suffixes, B
<1>17. CASE b # r
  <2> DEFINE l == r + 2 - M
             T == SubSeq(A, l, Len(A))
  <2>1. l \in 1..Len(A) /\ Len(A) - l + 1 = b - r /\ Len(A) \in Nat
        /\ \A k \in 1..(b - r) : l + k - 1 \in 1..(b + 1 - M) /\ M + (l + k - 1) - 1 = r + k
    BY <1>1, <1>8, <1>9, <1>14, <1>17
  <2> HIDE DEF l
  <2>2. T \in Seq(Nat) /\ Len(T) = b - r /\ \A k \in 1..(b - r) : T[k] = A[l + k - 1]
    BY <1>14, <2>1
  <2> HIDE DEF T
  <2>3. \A k \in 1..(b - r) : T[k] = B[k]
    BY <1>14, <1>15, <2>1, <2>2
  <2>4. T = B
    BY <1>15, <2>2, <2>3, SameSeq
  <2>5. B \in Suffixes(A)
    BY <2>1, <2>4 DEF Suffixes, T
  <2>6. QED
    BY <1>5, <2>5 DEF A, B
<1>18. QED
  BY <1>16, <1>17

\* that it is of the file in any case,
LEMMA InvTailIsGenuine == TailInv => TailIsGenuine
<1> SUFFICES ASSUME TailInv, tailDone
             PROVE  \/ result = <<>> /\ file = <<>>
                    \/ result \in Suffixes(LastLines(Lines)) /\ result # <<>>
                    \/ Len(result) = 1 /\ result[1] \in Suffixes(Last(Lines))
  BY DEF TailIsGenuine
<1>1. CASE file = <<>>
  BY <1>1 DEF TailInv
<1>2. CASE file # <<>>
  <2>1. result = LastLines(AllLines) /\ file \in Seq(Bytes) /\ remaining \in Nat
    BY <1>2 DEF TailInv
  <2>2. remaining < Len(file)
    BY <1>2, SomethingWasRead
  <2>3. /\ Lines \in Seq(Seq(Nat)) /\ Len(Lines) \in Nat
        /\ Positions(LineStarts) /\ Len(Lines) = Cardinality(LineStarts)
    BY <2>1, LinesType
  <2>4. CASE remaining = 0
    <3>1. 1 \in LineStarts
      BY <2>1, <2>2 DEF LineStarts
    <3>2. 0 < Len(Lines)
      BY <2>3, <3>1, RankBound
    <3>3. Lines = SubSeq(Lines, 0 + 1, Len(Lines)) /\ 0 \in 0..Len(Lines)
      BY <2>3
    <3>4. LastLines(Lines) \in Suffixes(LastLines(Lines)) /\ LastLines(Lines) # <<>>
      BY <2>3, <3>2, <3>3, LastLinesOfEnd
    <3>5. AllLines = Lines
      BY <2>2, <2>4, AllLinesAre
    <3>6. QED
      BY <2>1, <3>4, <3>5
  <2>5. CASE remaining > 0 /\ LaterStarts # {}
    <3>1. AllLines = LinesOf(LaterStarts)
      BY <2>2, <2>5, AllLinesAre
    <3>2. PICK m \in 0..Len(Lines) :
            /\ Cardinality(LaterStarts) = Len(Lines) - m
            /\ LinesOf(LaterStarts) = SubSeq(Lines, m + 1, Len(Lines))
      BY LaterLinesAreEnd
    <3>3. Cardinality(LaterStarts) \in Nat /\ Cardinality(LaterStarts) > 0
      <4>1. PICK v \in LaterStarts : TRUE
        BY <2>5
      <4>2. QED
        BY <4>1, LaterLinesAreEnd, RankBound
    <3>4. m < Len(Lines)
      BY <2>3, <3>2, <3>3
    <3>5. LastLines(AllLines) \in Suffixes(LastLines(Lines)) /\ LastLines(AllLines) # <<>>
      BY <2>3, <3>1, <3>2, <3>4, LastLinesOfEnd, Zenon
    <3>6. QED
      BY <2>1, <3>5
  <2>6. CASE remaining > 0 /\ LaterStarts = {}
    <3>1. AllLines = <<LineFrom(remaining + 1)>>
      BY <2>2, <2>6, AllLinesAre
    <3>2. LastLines(AllLines) = <<LineFrom(remaining + 1)>>
      BY <3>1, TailAssumption DEF LastLines
    <3>3. LineFrom(remaining + 1) \in Suffixes(Last(Lines))
      BY <2>2, <2>6, FragmentIsEnd
    <3>4. QED
      BY <2>1, <3>2, <3>3
  <2>7. QED
    BY <2>1, <2>4, <2>5, <2>6
<1>3. QED
  BY <1>1, <1>2

\* and that no more is read than the cap and a chunk.
LEMMA InvReadIsBounded == TailInv => ReadIsBounded
<1> SUFFICES ASSUME TailInv PROVE ReadIsBounded
  OBVIOUS
<1>1. Len(file) - remaining \in Nat /\ read = Len(file) - remaining
      /\ read < maxReadBytes + tailChunkSize
  BY DEF TailInv
<1>2. collected = [i \in 1..(Len(file) - remaining) |-> remaining + i]
  BY DEF TailInv
<1>3. Len(collected) = Len(file) - remaining
  BY <1>1, <1>2
<1>4. QED
  BY <1>1, <1>3 DEF ReadIsBounded

\* Every step keeps the invariant.
LEMMA TailInductive == TailInv /\ [Next]_vars => TailInv'
<1> SUFFICES ASSUME TailInv, [Next]_vars PROVE TailInv'
  OBVIOUS
<1> DEFINE scanned == <<file, collected, remaining, read, lineCount>>
<1>1. ASSUME UNCHANGED scanned
      PROVE  /\ WantsMore' = WantsMore /\ maxReadBytes' = maxReadBytes
             /\ LastLines(AllLines)' = LastLines(AllLines)
  BY <1>1 DEF WantsMore, maxReadBytes, AllLines, LastLines, Split, Piece, Breaks
<1>2. CASE UNCHANGED tailVars
  <2>1. UNCHANGED scanned /\ result' = result /\ tailDone' = tailDone
    BY <1>2 DEF tailVars
  <2>2. QED
    BY <1>1, <2>1 DEF TailInv
<1>3. CASE ReadChunk
  BY <1>3, ReadChunkKeeps
<1>4. CASE Return
  <2>1. UNCHANGED scanned /\ ~WantsMore /\ tailDone' = TRUE
        /\ result' = IF file = <<>> THEN <<>> ELSE LastLines(AllLines)
    BY <1>4 DEF Return
  <2>2. QED
    BY <1>1, <2>1 DEF TailInv
<1>5. CASE TailReturned
  BY <1>5, TailForgets
<1>6. QED
  BY <1>2, <1>3, <1>4, <1>5, Zenon DEF Next, vars, Tails, TailNext, CallsParse, Parses,
    CallsTruncate, Truncates, CallsSend, Sends

\* The scan keeps its books.
THEOREM TailAlways == Spec => []TailInv
<1>1. Init => TailInv
  BY TailInitially DEF Init
<1>2. QED
  BY <1>1, TailInductive, PTL DEF Spec

\* Unless the read cap cuts the scan short, the lines returned are exactly the last
\* lines of the file: for files of any size, wherever the newlines are, and for every
\* chunk size, line limit and number of lines (tailFile).
THEOREM TailIsAlwaysExact == Spec => []TailIsExact
BY TailAlways, InvTailIsExact, PTL

\* Whatever cut the scan short, the lines returned are the file's (tailFile).
THEOREM TailIsAlwaysGenuine == Spec => []TailIsGenuine
BY TailAlways, InvTailIsGenuine, PTL

\* No file makes the scan read more than the cap and a chunk (maxReadBytes).
THEOREM ReadIsAlwaysBounded == Spec => []ReadIsBounded
BY TailAlways, InvReadIsBounded, PTL
=============================================================================
