--------------------------- MODULE FilterTheorems ---------------------------
(***************************************************************************)
(* What the operators of EmfFilter compute: sums of samples, folded one by *)
(* one over a set of indices, and the sorted samples.                      *)
(*                                                                         *)
(* Both are about data of any length and so take induction, here in terms  *)
(* of sets: a set of numbers that has 0 and with each number the next one  *)
(* has all of them.                                                        *)
(***************************************************************************)
EXTENDS EmfFilter, FiniteSetTheorems, TLAPS

(* Sets of natural numbers have a least element, so that they can be used  *)
(* for induction.                                                          *)
LEMMA LeastNumber ==
    ASSUME NEW A \in SUBSET Nat, A # {}
    PROVE  \E n \in A : \A m \in A : n <= m
  <1>1. PICK n \in A : \A m \in A : ~ (<<m, n>> \in OpToRel(<, Nat))
    BY NatLessThanWellFounded, WFMin
  <1>2. \A m \in A : ~ (m < n)
    BY <1>1 DEF OpToRel
  <1> QED  BY <1>2

LEMMA SetInduction ==
    ASSUME NEW A \in SUBSET Nat, 0 \in A, \A n \in A : n + 1 \in A
    PROVE  A = Nat
  <1> SUFFICES ASSUME A # Nat PROVE FALSE
    OBVIOUS
  <1>1. Nat \ A \in SUBSET Nat /\ Nat \ A # {}
    OBVIOUS
  <1>2. PICK n \in Nat \ A : \A m \in Nat \ A : n <= m
    BY <1>1, LeastNumber
  <1>3. n - 1 \in A
    BY <1>2
  <1>4. n - 1 + 1 = n
    BY <1>2
  <1> QED  BY <1>2, <1>3, <1>4

-----------------------------------------------------------------------------
(* Sums. The index that is added last, and the recursion for the sums over *)
(* all subsets of S.                                                       *)
Chosen(s) == CHOOSE i \in s : TRUE

SumsTo(data, S, g) ==
    g = [s \in SUBSET S |-> IF s = {} THEN 0 ELSE data[Chosen(s)] + g[s \ {Chosen(s)}]]

LEMMA ChosenElement ==
    ASSUME NEW s, s # {}
    PROVE  Chosen(s) \in s
  BY DEF Chosen

LEMMA SumsToFold ==
    ASSUME NEW data, NEW S, \E g : SumsTo(data, S, g)
    PROVE  \E g : SumsTo(data, S, g) /\ SumOf(data, S) = g[S]
  <1> DEFINE iter[s \in SUBSET S] ==
                 IF s = {} THEN 0 ELSE data[Chosen(s)] + iter[s \ {Chosen(s)}]
  <1>1. SumOf(data, S) = iter[S]
    BY DEF SumOf, SumFunctionOnSet, FoldFunctionOnSet, MapThenFoldSet, Chosen
  <1>2. SumsTo(data, S, iter)
    BY DEF SumsTo
  <1> HIDE DEF iter
  <1> QED  BY <1>1, <1>2

LEMMA SumsToStep ==
    ASSUME NEW data, NEW S, NEW g, SumsTo(data, S, g), NEW s \in SUBSET S
    PROVE  g[s] = IF s = {} THEN 0 ELSE data[Chosen(s)] + g[s \ {Chosen(s)}]
  <1> DEFINE f == [t \in SUBSET S |-> IF t = {} THEN 0 ELSE data[Chosen(t)] + g[t \ {Chosen(t)}]]
  <1>1. f[s] = IF s = {} THEN 0 ELSE data[Chosen(s)] + g[s \ {Chosen(s)}]
    OBVIOUS
  <1>2. g = f
    BY DEF SumsTo
  <1> QED  BY <1>1, <1>2, Zenon

(* The sums exist: for the subsets of up to n elements by induction on n.  *)
LEMMA SumsExist ==
    ASSUME NEW data, NEW S, IsFiniteSet(S)
    PROVE  \E g : SumsTo(data, S, g)
  <1> DEFINE Upto(n) == {s \in SUBSET S : Cardinality(s) <= n}
             Body(g, s) == IF s = {} THEN 0 ELSE data[Chosen(s)] + g[s \ {Chosen(s)}]
             Sums(n, g) == \A s \in Upto(n) : g[s] = Body(g, s)
             A == {n \in Nat : \E g : Sums(n, g)}
  <1>0. \A s \in SUBSET S : IsFiniteSet(s) /\ Cardinality(s) \in Nat
    BY FS_Subset, FS_CardinalityType
  <1>1. 0 \in A
    <2> DEFINE g == [s \in SUBSET S |-> 0]
    <2>1. \A s \in Upto(0) : s = {}
      BY <1>0, FS_EmptySet
    <2>2. Sums(0, g)
      BY <2>1
    <2> QED  BY <2>2
  <1>2. ASSUME NEW n \in A PROVE n + 1 \in A
    <2>1. n \in Nat /\ \E g : Sums(n, g)
      OBVIOUS
    <2>2. PICK g : Sums(n, g)
      BY <2>1
    <2> DEFINE h == [s \in SUBSET S |-> IF s \in Upto(n) THEN g[s] ELSE Body(g, s)]
    <2>3. ASSUME NEW s \in Upto(n + 1), s # {}
          PROVE  s \ {Chosen(s)} \in Upto(n)
      <3>1. /\ s \in SUBSET S /\ IsFiniteSet(s) /\ Cardinality(s) \in Nat
            /\ Cardinality(s) <= n + 1
        BY <1>0
      <3>2. Chosen(s) \in s
        BY <2>3, ChosenElement
      <3>3. Cardinality(s \ {Chosen(s)}) = Cardinality(s) - 1
        BY <3>1, <3>2, FS_RemoveElement
      <3>4. Cardinality(s) - 1 <= n
        BY <2>1, <3>1
      <3>5. Cardinality(s \ {Chosen(s)}) <= n
        BY <3>3, <3>4
      <3> QED  BY <3>1, <3>5
    <2>4. ASSUME NEW s \in Upto(n + 1) PROVE h[s] = Body(h, s)
      <3>1. s \in SUBSET S
        OBVIOUS
      <3>2. h[s] = Body(g, s)
        BY <2>2, <3>1
      <3>3. s # {} => h[s \ {Chosen(s)}] = g[s \ {Chosen(s)}]
        BY <2>3
      <3> HIDE DEF h
      <3> QED  BY <3>2, <3>3
    <2> HIDE DEF h
    <2>5. Sums(n + 1, h)
      BY <2>4
    <2>6. \E f : Sums(n + 1, f)
      BY <2>5
    <2>7. n + 1 \in Nat
      BY <2>1
    <2> HIDE DEF Sums
    <2> QED  BY <2>6, <2>7
  <1> HIDE DEF A
  <1>3. A = Nat
    <2>1. A \in SUBSET Nat
      BY DEF A
    <2> QED  BY <1>1, <1>2, <2>1, SetInduction
  <1>4. PICK g : Sums(Cardinality(S), g)
    <2>1. Cardinality(S) \in A
      BY <1>3, FS_CardinalityType
    <2> QED  BY <2>1 DEF A
  <1>5. Upto(Cardinality(S)) = SUBSET S
    BY FS_Subset
  <1> DEFINE f == [s \in SUBSET S |-> g[s]]
  <1>6. ASSUME NEW s \in SUBSET S PROVE f[s] = Body(f, s)
    <2>1. f[s] = Body(g, s)
      BY <1>4, <1>5
    <2>2. f[s \ {Chosen(s)}] = g[s \ {Chosen(s)}]
      OBVIOUS
    <2> HIDE DEF f
    <2> QED  BY <2>1, <2>2
  <1>7. f = [s \in SUBSET S |-> f[s]]
    OBVIOUS
  <1> HIDE DEF f
  <1>8. f = [s \in SUBSET S |-> Body(f, s)]
    BY <1>6, <1>7
  <1> QED  BY <1>8 DEF SumsTo

(* A sum is bounded by that of as many of the largest sample.              *)
LEMMA SumsBounded ==
    ASSUME NEW data, NEW S, IsFiniteSet(S), NEW B \in Nat,
           \A i \in S : data[i] \in Nat /\ data[i] <= B,
           NEW g, SumsTo(data, S, g)
    PROVE  \A s \in SUBSET S : g[s] \in Nat /\ g[s] <= Cardinality(s) * B
  <1> DEFINE A == {n \in Nat : \A s \in SUBSET S :
                      Cardinality(s) = n => g[s] \in Nat /\ g[s] <= n * B}
  <1>0. \A s \in SUBSET S : IsFiniteSet(s) /\ Cardinality(s) \in Nat
    BY FS_Subset, FS_CardinalityType
  <1>1. 0 \in A
    <2>1. ASSUME NEW s \in SUBSET S, Cardinality(s) = 0 PROVE g[s] = 0
      <3>1. s = {}
        BY <1>0, <2>1, FS_EmptySet
      <3> QED  BY <3>1, SumsToStep
    <2>2. 0 <= 0 * B
      OBVIOUS
    <2> QED  BY <2>1, <2>2
  <1>2. ASSUME NEW n \in A PROVE n + 1 \in A
    <2>1. n \in Nat /\ \A s \in SUBSET S : Cardinality(s) = n => g[s] \in Nat /\ g[s] <= n * B
      OBVIOUS
    <2> HIDE DEF A
    <2>2. ASSUME NEW s \in SUBSET S, Cardinality(s) = n + 1
          PROVE  g[s] \in Nat /\ g[s] <= (n + 1) * B
      <3>1. s # {}
        <4>1. n + 1 # 0
          BY <2>1
        <4>2. Cardinality(s) # 0
          BY <2>2, <4>1, Zenon
        <4> QED  BY <4>2, FS_EmptySet, Zenon
      <3>2. PICK c \in s : c = Chosen(s)
        BY <3>1, ChosenElement
      <3>3. Cardinality(s \ {c}) = n
        <4>1. Cardinality(s \ {c}) = Cardinality(s) - 1
          BY <1>0, <3>2, FS_RemoveElement
        <4> QED  BY <2>1, <2>2, <4>1
      <3>4. g[s] = data[c] + g[s \ {c}]
        BY <3>1, <3>2, SumsToStep
      <3>5. PICK r \in Nat : r = g[s \ {c}] /\ r <= n * B
        BY <2>1, <3>3
      <3>6. data[c] \in Nat /\ data[c] <= B
        BY <3>2
      <3>7. (n + 1) * B = n * B + B /\ n * B \in Nat
        BY <2>1
      <3> QED  BY <3>4, <3>5, <3>6, <3>7
    <2> QED  BY <2>1, <2>2 DEF A
  <1>3. A = Nat
    <2>1. A \in SUBSET Nat
      OBVIOUS
    <2> HIDE DEF A
    <2> QED  BY <1>1, <1>2, <2>1, SetInduction
  <1> QED  BY <1>0, <1>3

LEMMA SumBounded ==
    ASSUME NEW data, NEW S, IsFiniteSet(S), NEW B \in Nat,
           \A i \in S : data[i] \in Nat /\ data[i] <= B
    PROVE  SumOf(data, S) \in Nat /\ SumOf(data, S) <= Cardinality(S) * B
  <1>1. PICK g : SumsTo(data, S, g) /\ SumOf(data, S) = g[S]
    BY SumsExist, SumsToFold
  <1>2. \A s \in SUBSET S : g[s] \in Nat /\ g[s] <= Cardinality(s) * B
    BY <1>1, SumsBounded
  <1> QED  BY <1>1, <1>2

(* The integer division by a positive number.                              *)
LEMMA QuotientBelow ==
    ASSUME NEW sum \in Nat, NEW cnt \in Nat, cnt > 0, NEW B \in Nat, sum < cnt * B + cnt
    PROVE  sum \div cnt \in Nat /\ sum \div cnt <= B
  <1>1. PICK q \in Int : q = sum \div cnt
    OBVIOUS
  <1>2. PICK r \in 0 .. cnt - 1 : sum = cnt * q + r
    BY <1>1
  <1>3. q >= 0
    <2> SUFFICES ASSUME q < 0 PROVE FALSE
      BY <1>1
    <2>1. PICK e \in Nat : q = -1 - e
      <3>1. -1 - q \in Nat /\ q = -1 - (-1 - q)
        OBVIOUS
      <3> QED  BY <3>1
    <2>2. cnt * q = - cnt - cnt * e /\ cnt * e \in Nat
      BY <2>1
    <2> QED  BY <1>2, <2>2
  <1>4. q <= B
    <2> SUFFICES ASSUME q > B PROVE FALSE
      BY <1>1
    <2>1. PICK e \in Nat : q = B + 1 + e
      <3>1. q - B - 1 \in Nat /\ q = B + 1 + (q - B - 1)
        OBVIOUS
      <3> QED  BY <3>1
    <2>2. cnt * q = cnt * B + cnt + cnt * e /\ cnt * e \in Nat /\ cnt * B \in Nat
      BY <2>1
    <2> QED  BY <1>2, <2>2
  <1> QED  BY <1>1, <1>3, <1>4

LEMMA QuotientReached ==
    ASSUME NEW sum \in Nat, NEW cnt \in Nat, cnt > 0, NEW A \in Nat, cnt * A <= sum
    PROVE  A <= sum \div cnt
  <1>1. PICK q \in Int : q = sum \div cnt
    OBVIOUS
  <1>2. PICK r \in 0 .. cnt - 1 : sum = cnt * q + r
    BY <1>1
  <1>3. q >= A
    <2> SUFFICES ASSUME q < A PROVE FALSE
      BY <1>1
    <2>1. PICK e \in Nat : q = A - 1 - e
      <3>1. A - 1 - q \in Nat /\ q = A - 1 - (A - 1 - q)
        OBVIOUS
      <3> QED  BY <3>1
    <2>2. cnt * q = cnt * A - cnt - cnt * e /\ cnt * e \in Nat /\ cnt * A \in Nat
      BY <2>1
    <2> QED  BY <1>2, <2>2
  <1> QED  BY <1>1, <1>3

LEMMA QuotientBounded ==
    ASSUME NEW sum \in Nat, NEW cnt \in Nat, cnt > 0, NEW B \in Nat, sum <= cnt * B
    PROVE  sum \div cnt \in Nat /\ sum \div cnt <= B
  <1>1. PICK p \in Nat : p = cnt * B
    OBVIOUS
  <1>2. sum < cnt * B + cnt
    BY <1>1
  <1> QED  BY <1>2, QuotientBelow

-----------------------------------------------------------------------------
(* Sorting. The samples that i samples do not exceed.                      *)
NotExceeded(buf, i) ==
    {v \in Range(buf) : Cardinality({j \in DOMAIN buf : buf[j] <= v}) >= i}

LEMMA LeastOf ==
    ASSUME NEW S \in SUBSET Nat, S # {}
    PROVE  Min(S) \in S /\ \A v \in S : Min(S) <= v
  <1>1. \E n \in S : \A m \in S : n <= m
    BY LeastNumber
  <1> QED  BY <1>1 DEF Min

(* The largest sample is not exceeded by any.                              *)
LEMMA SomeNotExceeded ==
    ASSUME NEW n \in Nat, NEW B \in Nat, NEW buf \in [1 .. n -> 0 .. B], NEW i \in 1 .. n
    PROVE  NotExceeded(buf, i) \in SUBSET Nat /\ NotExceeded(buf, i) # {}
  <1>1. NotExceeded(buf, i) \in SUBSET Nat
    BY DEF NotExceeded, Range
  <1> DEFINE Gaps == {B - buf[j] : j \in 1 .. n}
  <1>2. Gaps \in SUBSET Nat /\ Gaps # {}
    OBVIOUS
  <1>3. PICK k \in 1 .. n : \A j \in 1 .. n : B - buf[k] <= B - buf[j]
    <2>1. PICK d \in Gaps : \A m \in Gaps : d <= m
      BY <1>2, LeastNumber
    <2>2. PICK k \in 1 .. n : d = B - buf[k]
      BY <2>1
    <2>3. \A j \in 1 .. n : B - buf[k] <= B - buf[j]
      BY <2>1, <2>2
    <2> QED  BY <2>3
  <1>4. \A j \in 1 .. n : buf[j] <= buf[k]
    BY <1>3
  <1>5. {j \in DOMAIN buf : buf[j] <= buf[k]} = 1 .. n
    BY <1>4
  <1>6. Cardinality(1 .. n) = n
    BY FS_Interval
  <1>7. buf[k] \in NotExceeded(buf, i)
    <2>1. buf[k] \in Range(buf)
      BY DEF Range
    <2>2. Cardinality({j \in DOMAIN buf : buf[j] <= buf[k]}) = n
      BY <1>5, <1>6, Zenon
    <2>3. n >= i
      OBVIOUS
    <2>4. Cardinality({j \in DOMAIN buf : buf[j] <= buf[k]}) >= i
      BY <2>2, <2>3, Zenon
    <2> QED  BY <2>1, <2>4, Zenon DEF NotExceeded
  <1> QED  BY <1>1, <1>7

Ascending(buf) == \A i, j \in DOMAIN buf : i <= j => buf[i] <= buf[j]

(* The buffer after the measurement: as many samples, each one of those    *)
(* measured, in ascending order.                                           *)
LEMMA SamplesSorted ==
    ASSUME NEW n \in Nat, NEW B \in Nat, NEW buf \in [1 .. n -> 0 .. B]
    PROVE  /\ SortSamples(buf) \in [1 .. n -> 0 .. B]
           /\ \A i \in 1 .. n : SortSamples(buf)[i] \in Range(buf)
           /\ Ascending(SortSamples(buf))
  <1>1. ASSUME NEW i \in 1 .. n
        PROVE  /\ SortSamples(buf)[i] \in NotExceeded(buf, i)
               /\ \A v \in NotExceeded(buf, i) : SortSamples(buf)[i] <= v
    <2>1. SortSamples(buf)[i] = Min(NotExceeded(buf, i))
      BY DEF SortSamples, NotExceeded
    <2> QED  BY <2>1, SomeNotExceeded, LeastOf
  <1>2. ASSUME NEW i \in 1 .. n PROVE SortSamples(buf)[i] \in Range(buf)
    BY <1>1 DEF NotExceeded
  <1>3. Range(buf) \subseteq 0 .. B
    BY DEF Range
  <1>4. SortSamples(buf) \in [1 .. n -> 0 .. B]
    <2>1. SortSamples(buf) = [i \in 1 .. n |-> SortSamples(buf)[i]]
      BY DEF SortSamples
    <2> QED  BY <1>2, <1>3, <2>1
  <1>5. ASSUME NEW i \in 1 .. n, NEW j \in 1 .. n, i <= j
        PROVE  SortSamples(buf)[i] <= SortSamples(buf)[j]
    <2>1. NotExceeded(buf, j) \subseteq NotExceeded(buf, i)
      <3>1. ASSUME NEW v \in NotExceeded(buf, j) PROVE v \in NotExceeded(buf, i)
        <4> DEFINE c == Cardinality({k \in DOMAIN buf : buf[k] <= v})
        <4>1. v \in Range(buf) /\ c >= j
          BY DEF NotExceeded
        <4>2. c \in Nat
          <5>1. {k \in DOMAIN buf : buf[k] <= v} \in SUBSET (1 .. n) /\ IsFiniteSet(1 .. n)
            BY FS_Interval
          <5> QED  BY <5>1, FS_Subset, FS_CardinalityType
        <4> HIDE DEF c
        <4>3. c >= i
          BY <1>5, <4>1, <4>2
        <4> QED  BY <4>1, <4>3 DEF NotExceeded, c
      <3> QED  BY <3>1
    <2> QED  BY <1>1, <2>1
  <1>6. Ascending(SortSamples(buf))
    <2>1. DOMAIN SortSamples(buf) = 1 .. n
      BY <1>4
    <2> QED  BY <1>5, <2>1 DEF Ascending
  <1> QED  BY <1>2, <1>4, <1>6

-----------------------------------------------------------------------------
(* The trimmed mean of sorted samples, against a threshold half-way between*)
(* two of their values. If the mean reaches it, the samples at the high end*)
(* do: those that were cut off and at least one that was not.              *)
MeanReaches(data, kept, threshold) ==
    2 * SumOf(data, kept) >= Cardinality(kept) * threshold

Reaching(data, threshold) == {i \in DOMAIN data : 2 * data[i] >= threshold}

LEMMA TrimmedMeanReached ==
    ASSUME NEW n \in Nat, NEW B \in Nat, NEW sorted \in [1 .. n -> 0 .. B],
           Ascending(sorted),
           NEW l \in Nat, NEW r \in Nat, l + r < n,
           NEW o \in Nat, NEW threshold, threshold = 2 * o + 1,
           MeanReaches(sorted, (l + 1) .. (n - r), threshold)
    PROVE  Cardinality(Reaching(sorted, threshold)) > r
  <1> DEFINE kept == (l + 1) .. (n - r)
             moving == {i \in 1 .. n : 2 * sorted[i] >= 2 * o + 1}
  <1>0. Reaching(sorted, threshold) = moving
    BY DEF Reaching
  <1>1. IsFiniteSet(kept) /\ Cardinality(kept) = n - r - l /\ kept \subseteq 1 .. n
    BY FS_Interval
  <1>2. PICK c \in Nat : Cardinality(kept) = c /\ c > 0
    BY <1>1
  <1>3. \E i \in kept : 2 * sorted[i] >= 2 * o + 1
    <2> SUFFICES ASSUME \A i \in kept : ~ (2 * sorted[i] >= 2 * o + 1)
                 PROVE  FALSE
      OBVIOUS
    <2>1. \A i \in kept : sorted[i] \in Nat /\ sorted[i] <= o
      BY <1>1
    <2>2. PICK sum \in Nat : SumOf(sorted, kept) = sum /\ sum <= c * o
      BY <1>1, <1>2, <2>1, SumBounded
    <2>3. 2 * sum >= c * (2 * o + 1)
      BY <1>2, <2>2, Zenon DEF MeanReaches
    <2>4. PICK p \in Nat : p = c * o
      BY <1>2
    <2>5. c * (2 * o + 1) = 2 * p + c
      BY <1>2, <2>4
    <2> QED  BY <1>2, <2>2, <2>3, <2>4, <2>5
  <1>4. PICK i \in kept : 2 * sorted[i] >= 2 * o + 1
    BY <1>3
  <1>5. (n - r) .. n \subseteq moving
    <2>1. ASSUME NEW j \in (n - r) .. n PROVE j \in moving
      <3>1. i \in 1 .. n /\ j \in 1 .. n /\ i <= j
        BY <1>1
      <3>2. sorted[i] \in Int /\ sorted[j] \in Int /\ sorted[i] <= sorted[j]
        BY <3>1 DEF Ascending
      <3>3. 2 * sorted[j] >= 2 * o + 1
        BY <1>4, <3>2
      <3> QED  BY <3>1, <3>3
    <2> QED  BY <2>1
  <1>6. Cardinality((n - r) .. n) = r + 1
    BY FS_Interval
  <1>7. IsFiniteSet(moving)
    <2>1. IsFiniteSet(1 .. n) /\ moving \in SUBSET (1 .. n)
      BY FS_Interval
    <2> QED  BY <2>1, FS_Subset
  <1>8. PICK m \in Nat : Cardinality(moving) = m
    BY <1>7, FS_CardinalityType
  <1> HIDE DEF moving
  <1>9. r + 1 <= m
    BY <1>5, <1>6, <1>7, <1>8, FS_Subset
  <1> QED  BY <1>0, <1>8, <1>9

-----------------------------------------------------------------------------
(* The calibration at boot. The mean of what is kept is within the samples,*)
(* whatever is kept, rounding included.                                    *)
LEMMA FilteredMeanBounded ==
    ASSUME NEW B \in Nat, NEW data \in Seq(0 .. B), NEW k, NEW m \in FilteredMean(data, k)
    PROVE  m \in 0 .. B
  <1> DEFINE n == Len(data)
             mean == SumOf(data, DOMAIN data) \div n
             square == [i \in DOMAIN data |-> (data[i] - mean) * (data[i] - mean)]
             kept == {i \in DOMAIN data :
                         square[i] * (n - 1) <= k * k * SumOf(square, DOMAIN data)}
             cnt == Cardinality(kept)
             rounded == (2 * SumOf(data, kept) + cnt) \div (2 * cnt)
  <1>1. n \in Nat /\ IsFiniteSet(DOMAIN data) /\ Cardinality(DOMAIN data) = n
    <2>1. PICK len \in Nat : len = n /\ DOMAIN data = 1 .. len
      OBVIOUS
    <2>2. IsFiniteSet(1 .. len)
      BY FS_Interval
    <2>3. Cardinality(1 .. len) = IF 1 > len THEN 0 ELSE len - 1 + 1
      BY FS_Interval
    <2>4. Cardinality(1 .. len) = len
      BY <2>3
    <2> QED  BY <2>1, <2>2, <2>4
  <1>2. \A i \in DOMAIN data : data[i] \in Nat /\ data[i] <= B
    OBVIOUS
  <1>3. IsFiniteSet(kept) /\ cnt \in Nat /\ kept \subseteq DOMAIN data
    BY <1>1, FS_Subset, FS_CardinalityType
  <1>4. \/ n = 1 /\ m = mean
        \/ cnt # 0 /\ m = rounded
    BY DEF FilteredMean
  <1> HIDE DEF kept, n
  <1>5. CASE n = 1 /\ m = mean
    <2>1. PICK sum \in Nat : SumOf(data, DOMAIN data) = sum /\ sum <= n * B
      BY <1>1, <1>2, SumBounded
    <2>2. sum \div n \in Nat /\ sum \div n <= B
      BY <1>1, <1>5, <2>1, QuotientBounded
    <2> QED  BY <1>5, <2>1, <2>2
  <1>6. CASE cnt # 0 /\ m = rounded
    <2>1. PICK c \in Nat : c = cnt /\ c > 0
      BY <1>3, <1>6
    <2>2. PICK sum \in Nat : SumOf(data, kept) = sum /\ sum <= c * B
      BY <1>2, <1>3, <2>1, SumBounded
    <2>3. PICK d \in Nat : d = 2 * c /\ d > 0
      BY <2>1
    <2>4. 2 * sum + c < d * B + d
      <3>1. PICK p \in Nat : p = c * B
        BY <2>1
      <3>2. d * B = 2 * p
        BY <2>3, <3>1
      <3>3. sum <= p
        BY <2>2, <3>1
      <3>4. 2 * sum + c < 2 * p + d
        BY <2>1, <2>3, <3>3
      <3> QED  BY <3>2, <3>4, Zenon
    <2>5. (2 * sum + c) \div d \in Nat /\ (2 * sum + c) \div d <= B
      <3>1. PICK t \in Nat : t = 2 * sum + c
        OBVIOUS
      <3>2. t < d * B + d
        BY <2>4, <3>1, Zenon
      <3>3. t \div d \in Nat /\ t \div d <= B
        BY <2>3, <3>2, QuotientBelow
      <3> QED  BY <3>1, <3>3, Zenon
    <2>6. m = (2 * sum + c) \div d
      BY <1>6, <2>1, <2>2, <2>3, Zenon
    <2> QED  BY <2>5, <2>6
  <1> QED  BY <1>4, <1>5, <1>6

LEMMA OffsetBounded ==
    ASSUME NEW B \in Nat, NEW rev \in Seq(0 .. B), NEW fwd \in Seq(0 .. B)
    PROVE  MeasureAdcOffset(rev, fwd) \in 0 .. B
  <1>1. ASSUME NEW data \in Seq(0 .. B) PROVE OrZero(FilteredMean(data, 2)) \in 0 .. B
    <2>1. CASE FilteredMean(data, 2) = {}
      BY <2>1 DEF OrZero
    <2>2. CASE FilteredMean(data, 2) # {}
      <3>1. OrZero(FilteredMean(data, 2)) \in FilteredMean(data, 2)
        BY <2>2 DEF OrZero
      <3> QED  BY <3>1, FilteredMeanBounded
    <2> QED  BY <2>1, <2>2
  <1>2. PICK f \in 0 .. B : f = OrZero(FilteredMean(fwd, 2))
    BY <1>1
  <1>3. PICK r \in 0 .. B : r = OrZero(FilteredMean(rev, 2))
    BY <1>1
  <1>4. (f + r) \div 2 \in 0 .. B
    OBVIOUS
  <1> QED  BY <1>2, <1>3, <1>4 DEF MeasureAdcOffset

(* Whatever the calibration measures, its result fits the 12 bits of a     *)
(* sample, so that the conversion to u16 (motor/mod.rs:186) loses nothing, *)
(* and what main() stores in CV172 (main.rs:272-283) never is the 255 that *)
(* stands for no offset.                                                   *)
THEOREM CalibrationFits ==
    \A rev, fwd \in Seq(AdcSample) :
        MeasureAdcOffset(rev, fwd) \in AdcSample /\ CalibratedOffset(rev, fwd) \in 0 .. 254
  <1>1. PICK B \in Nat : AdcSample = 0 .. B
    <2>1. PICK B \in Nat : B = 4095
      OBVIOUS
    <2>2. AdcSample = 0 .. B
      BY <2>1 DEF AdcSample
    <2> QED  BY <2>2
  <1>2. ASSUME NEW rev \in Seq(AdcSample), NEW fwd \in Seq(AdcSample)
        PROVE  MeasureAdcOffset(rev, fwd) \in AdcSample /\ CalibratedOffset(rev, fwd) \in 0 .. 254
    <2>1. MeasureAdcOffset(rev, fwd) \in 0 .. B
      BY <1>1, OffsetBounded
    <2>2. MeasureAdcOffset(rev, fwd) \in Nat
      BY <2>1
    <2>3. CalibratedOffset(rev, fwd) \in 0 .. 254
      <3>1. PICK offset \in Nat : offset = MeasureAdcOffset(rev, fwd)
        BY <2>2
      <3>2. CalibratedOffset(rev, fwd) = IF offset > 254 THEN 254 ELSE offset
        BY <3>1, Zenon DEF CalibratedOffset
      <3> QED  BY <3>2
    <2> QED  BY <1>1, <2>1, <2>3
  <1> QED  BY <1>2

=============================================================================
