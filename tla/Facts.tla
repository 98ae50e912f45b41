------------------------------- MODULE Facts -------------------------------
(* Facts about numbers and finite sets that several proofs need.           *)
EXTENDS Subsequence, SequencesExt, FiniteSetTheorems, WellFoundedInduction, TLAPS

\* LeastNatural: every non-empty set of naturals has a least element; 0..n is
\* finite and strict inclusion of finite sets is well founded.
LEMMA LeastNatural ==
  ASSUME NEW T, T \subseteq Nat, T # {}
  PROVE  \E x \in T : \A y \in T : x <= y
<1> DEFINE R == StrictSubsetOrdering(Nat)
           D == {0 .. x : x \in T}
<1>1. IsWellFoundedOn(R, FiniteSubsetsOf(Nat))
  BY FS_StrictSubsetOrderingWellFounded
<1>2. ASSUME NEW x \in T PROVE 0 .. x \in FiniteSubsetsOf(Nat)
  <2>1. IsFiniteSet(0 .. x)
    BY FS_Interval
  <2>2. 0 .. x \subseteq Nat
    OBVIOUS
  <2>3. QED BY <2>1, <2>2 DEF FiniteSubsetsOf
<1>3. D \subseteq FiniteSubsetsOf(Nat) /\ D # {}
  BY <1>2
<1> HIDE DEF R
<1>4. \E d \in D : \A e \in D : <<e, d>> \notin R
  BY <1>1, <1>3, WFMin
<1>5. PICK x \in T : \A y \in T : <<0 .. y, 0 .. x>> \notin R
  BY <1>4
<1>6. ASSUME NEW y \in T, ~(x <= y) PROVE FALSE
  <2>1. x \in Nat /\ y \in Nat /\ y < x
    BY <1>6
  <2>2. 0 .. y \in SUBSET Nat /\ 0 .. x \in SUBSET Nat
    OBVIOUS
  <2>3. x \in 0 .. x /\ x \notin 0 .. y /\ 0 .. y \subseteq 0 .. x
    BY <2>1
  <2>4. <<0 .. y, 0 .. x>> \in (SUBSET Nat) \X (SUBSET Nat) /\ 0 .. y # 0 .. x
    BY <2>2, <2>3
  <2>5. <<0 .. y, 0 .. x>> \in R
    BY <2>3, <2>4 DEF R, StrictSubsetOrdering
  <2>6. QED BY <2>5, <1>5
<1>7. QED BY <1>6

\* GreatestNatural: a non-empty set of naturals with a bound has a greatest.
LEMMA GreatestNatural ==
  ASSUME NEW T, T \subseteq Nat, T # {}, NEW b \in Nat, \A x \in T : x <= b
  PROVE  \E x \in T : \A y \in T : y <= x
<1> DEFINE U == {b - x : x \in T}
<1>1. U \subseteq Nat /\ U # {}
  <2>1. ASSUME NEW x \in T PROVE b - x \in Nat
    <3>1. x \in Nat /\ x <= b
      OBVIOUS
    <3> QED BY <3>1
  <2> QED BY <2>1
<1>2. PICK u \in U : \A v \in U : u <= v
  <2> HIDE DEF U
  <2> QED BY <1>1, LeastNatural
<1>3. PICK x \in T : u = b - x
  BY <1>2
<1>4. ASSUME NEW y \in T PROVE y <= x
  <2>1. b - y \in U
    OBVIOUS
  <2>2. b - x <= b - y
    BY <1>2, <1>3, <2>1
  <2>3. x \in Nat /\ y \in Nat
    OBVIOUS
  <2> QED BY <2>2, <2>3
<1> QED BY <1>4

\* MaxUnique: Max is the element that no other exceeds.
LEMMA MaxUnique ==
  ASSUME NEW S \in SUBSET Int, NEW x \in S, \A y \in S : x >= y
  PROVE  Max(S) = x
<1>1. Max(S) \in S /\ \A y \in S : Max(S) >= y
  BY DEF Max
<1>2. Max(S) >= x /\ x >= Max(S) /\ Max(S) \in Int
  BY <1>1
<1> HIDE DEF Max
<1> QED BY <1>2

\* MinUnique: and Min the one that exceeds no other.
LEMMA MinUnique ==
  ASSUME NEW S \in SUBSET Int, NEW x \in S, \A y \in S : x <= y
  PROVE  Min(S) = x
<1>1. Min(S) \in S /\ \A y \in S : Min(S) <= y
  BY DEF Min
<1>2. Min(S) <= x /\ x <= Min(S) /\ Min(S) \in Int
  BY <1>1
<1> QED BY <1>2

\* MinMaxOfTwo: of two numbers.
LEMMA MinMaxOfTwo ==
  ASSUME NEW a \in Int, NEW b \in Int
  PROVE  /\ Max({a, b}) = IF a >= b THEN a ELSE b
         /\ Min({a, b}) = IF a <= b THEN a ELSE b
<1>1. CASE a <= b
  <2>1. Min({a, b}) = a
    BY <1>1, MinUnique
  <2>2. Max({a, b}) = b
    BY <1>1, MaxUnique
  <2> QED BY <1>1, <2>1, <2>2
<1>2. CASE ~(a <= b)
  <2>1. Min({a, b}) = b
    BY <1>2, MinUnique
  <2>2. Max({a, b}) = a
    BY <1>2, MaxUnique
  <2> QED BY <1>2, <2>1, <2>2
<1> QED BY <1>1, <1>2

\* MaxOfBounded: a bounded set of naturals has a Max.
LEMMA MaxOfBounded ==
  ASSUME NEW S \in SUBSET Nat, S # {}, NEW b \in Nat, \A x \in S : x <= b
  PROVE  Max(S) \in S /\ \A y \in S : Max(S) >= y
<1>1. PICK x \in S : \A y \in S : y <= x
  BY GreatestNatural
<1>2. \A y \in S : x >= y
  BY <1>1
<1>3. Max(S) = x
  BY <1>2, MaxUnique
<1> QED BY <1>2, <1>3

\* CountedBy: a set whose elements are told apart by a number in a .. b is
\* finite and has no more elements than the interval.
LEMMA CountedBy ==
  ASSUME NEW S, NEW a \in Int, NEW b \in Int, a <= b + 1, NEW f \in [S -> a .. b],
         \A x, y \in S : f[x] = f[y] => x = y
  PROVE  IsFiniteSet(S) /\ Cardinality(S) <= b - a + 1
<1>1. f \in Injection(S, a .. b)
  BY DEF Injection, IsInjective
<1>2. IsFiniteSet(a .. b) /\ Cardinality(a .. b) = b - a + 1
  BY FS_Interval
<1> QED BY <1>1, <1>2, FS_Injection
-----------------------------------------------------------------------------
(* Retain.                                                                 *)

\* RankFacts: positions are numbered from 1 in their order, without a gap.
LEMMA RankFacts ==
  ASSUME NEW n \in Nat, NEW I \in SUBSET (1 .. n)
  PROVE  /\ IsFiniteSet(I) /\ Cardinality(I) \in 0 .. n
         /\ \A i \in I : Rank(I, i) \in 1 .. Cardinality(I)
         /\ \A i, j \in I : i < j => Rank(I, i) < Rank(I, j)
<1>1. IsFiniteSet(1 .. n) /\ Cardinality(1 .. n) = n
  BY FS_Interval
<1>2. IsFiniteSet(I) /\ Cardinality(I) \in Nat /\ Cardinality(I) <= n
  BY <1>1, FS_Subset, FS_CardinalityType
<1>3. ASSUME NEW J \in SUBSET I
      PROVE IsFiniteSet(J) /\ Cardinality(J) \in Nat /\ Cardinality(J) <= Cardinality(I)
  BY <1>2, FS_Subset, FS_CardinalityType
<1>4. ASSUME NEW i \in I PROVE Rank(I, i) \in 1 .. Cardinality(I)
  <2> DEFINE J == {j \in I : j <= i}
  <2>1. J \in SUBSET I /\ i \in J
    OBVIOUS
  <2> HIDE DEF J
  <2>2. IsFiniteSet(J) /\ Cardinality(J) \in Nat /\ Cardinality(J) <= Cardinality(I)
    BY <1>3, <2>1
  <2>3. Cardinality(J) # 0
    BY <2>1, <2>2, FS_EmptySet
  <2>4. Rank(I, i) = Cardinality(J)
    BY DEF Rank, J
  <2> QED BY <1>2, <2>2, <2>3, <2>4
<1>5. ASSUME NEW i \in I, NEW j \in I, i < j PROVE Rank(I, i) < Rank(I, j)
  <2> DEFINE J == {k \in I : k <= i}
             K == {k \in I : k <= j}
  <2>1. J \in SUBSET K /\ J # K /\ K \in SUBSET I
    <3>1. i \in Int /\ j \in Int /\ \A k \in I : k \in Int
      OBVIOUS
    <3>2. j \in K /\ j \notin J
      BY <1>5, <3>1
    <3>3. \A k \in I : k <= i => k <= j
      BY <1>5, <3>1
    <3>4. J \in SUBSET K /\ K \in SUBSET I
      BY <3>3
    <3> HIDE DEF J, K
    <3> QED BY <3>2, <3>4
  <2> HIDE DEF J, K
  <2>2. IsFiniteSet(K) /\ Cardinality(K) \in Nat
    BY <1>3, <2>1
  <2>3. Cardinality(J) <= Cardinality(K) /\ Cardinality(J) # Cardinality(K) /\ Cardinality(J) \in Nat
    BY <2>1, <2>2, FS_Subset, FS_CardinalityType
  <2>4. Rank(I, i) = Cardinality(J) /\ Rank(I, j) = Cardinality(K)
    BY DEF Rank, J, K
  <2> QED BY <2>2, <2>3, <2>4
<1> QED BY <1>2, <1>4, <1>5

\* PlaceFacts: so that the k-th position is the one with the number k.
LEMMA PlaceFacts ==
  ASSUME NEW n \in Nat, NEW I \in SUBSET (1 .. n)
  PROVE  /\ \A k \in 1 .. Cardinality(I) : Place(I, k) \in I /\ Rank(I, Place(I, k)) = k
         /\ \A i \in I : Place(I, Rank(I, i)) = i
         /\ \A k, l \in 1 .. Cardinality(I) : k < l => Place(I, k) < Place(I, l)
<1> DEFINE m == Cardinality(I)
           f == [i \in I |-> Rank(I, i)]
<1>1. IsFiniteSet(I) /\ m \in 0 .. n
  BY RankFacts
<1>2. \A i \in I : Rank(I, i) \in 1 .. m
  BY RankFacts
<1>3. \A i, j \in I : i < j => Rank(I, i) < Rank(I, j)
  BY RankFacts
<1>4. \A i, j \in I : Rank(I, i) = Rank(I, j) => i = j
  <2> SUFFICES ASSUME NEW i \in I, NEW j \in I, i # j PROVE Rank(I, i) # Rank(I, j)
    OBVIOUS
  <2>1. i < j \/ j < i
    OBVIOUS
  <2>2. Rank(I, i) \in Int /\ Rank(I, j) \in Int
    BY <1>1, <1>2
  <2> QED BY <1>3, <2>1, <2>2
<1>5. f \in Injection(I, 1 .. m)
  BY <1>2, <1>4 DEF Injection, IsInjective
<1>6. IsFiniteSet(1 .. m) /\ Cardinality(1 .. m) = m
  BY <1>1, FS_Interval
<1>7. f \in Surjection(I, 1 .. m)
  <2> HIDE DEF f
  <2>1. Cardinality(I) = Cardinality(1 .. m)
    BY <1>6
  <2> QED BY <1>5, <1>6, <2>1, FS_Injection
<1>8. ASSUME NEW k \in 1 .. m PROVE Place(I, k) \in I /\ Rank(I, Place(I, k)) = k
  <2>1. \E i \in I : f[i] = k
    BY <1>7 DEF Surjection
  <2>2. \E i \in I : Rank(I, i) = k
    BY <2>1
  <2> QED BY <2>2 DEF Place
<1>9. ASSUME NEW i \in I PROVE Place(I, Rank(I, i)) = i
  BY <1>2, <1>4, <1>8
<1>10. ASSUME NEW k \in 1 .. m, NEW l \in 1 .. m, k < l PROVE Place(I, k) < Place(I, l)
  <2>1. Place(I, k) \in I /\ Place(I, l) \in I /\ Rank(I, Place(I, k)) = k /\ Rank(I, Place(I, l)) = l
    BY <1>8
  <2> DEFINE a == Place(I, k)
             b == Place(I, l)
  <2>2. a \in Int /\ b \in Int /\ k \in Int /\ l \in Int
    <3>1. \A i \in I : i \in Int
      OBVIOUS
    <3>2. k \in Int /\ l \in Int
      BY <1>1
    <3> HIDE DEF a, b
    <3>3. a \in I /\ b \in I
      BY <2>1 DEF a, b
    <3> QED BY <3>1, <3>2, <3>3
  <2>3. a # b /\ ~(b < a)
    <3>1. b < a => l < k
      BY <1>3, <2>1
    <3> QED BY <1>10, <2>1, <2>2, <3>1
  <2> HIDE DEF a, b
  <2>4. a < b
    BY <2>2, <2>3
  <2> QED BY <2>4 DEF a, b
<1> QED BY <1>8, <1>9, <1>10

\* RetainFacts: what Retain keeps are the elements at the positions, each
\* once and in their order.
LEMMA RetainFacts ==
  ASSUME NEW s, NEW n \in Nat, NEW I \in SUBSET (1 .. n)
  PROVE  /\ Cardinality(I) \in 0 .. n
         /\ DOMAIN Retain(s, I) = 1 .. Cardinality(I)
         /\ Len(Retain(s, I)) = Cardinality(I)
         /\ \A k \in 1 .. Cardinality(I) : Place(I, k) \in I /\ Retain(s, I)[k] = s[Place(I, k)]
         /\ \A i \in I : Rank(I, i) \in 1 .. Cardinality(I) /\ Retain(s, I)[Rank(I, i)] = s[i]
         /\ \A k, l \in 1 .. Cardinality(I) : k < l => Place(I, k) < Place(I, l)
<1>1. Cardinality(I) \in 0 .. n /\ \A i \in I : Rank(I, i) \in 1 .. Cardinality(I)
  BY RankFacts
<1>2. /\ \A k \in 1 .. Cardinality(I) : Place(I, k) \in I
      /\ \A i \in I : Place(I, Rank(I, i)) = i
      /\ \A k, l \in 1 .. Cardinality(I) : k < l => Place(I, k) < Place(I, l)
  BY PlaceFacts
<1>3. DOMAIN Retain(s, I) = 1 .. Cardinality(I)
  BY DEF Retain
<1>4. \A k \in 1 .. Cardinality(I) : Retain(s, I)[k] = s[Place(I, k)]
  BY DEF Retain
<1>5. Len(Retain(s, I)) = Cardinality(I)
  BY <1>1 DEF Retain
<1> QED BY <1>1, <1>2, <1>3, <1>4, <1>5

\* RetainSeq: over the same set.
LEMMA RetainSeq ==
  ASSUME NEW X, NEW s \in Seq(X), NEW I \in SUBSET DOMAIN s
  PROVE  Retain(s, I) \in Seq(X) /\ Len(Retain(s, I)) <= Len(s)
<1>1. Len(s) \in Nat /\ I \in SUBSET (1 .. Len(s))
  OBVIOUS
<1>2. /\ Cardinality(I) \in 0 .. Len(s) /\ Len(Retain(s, I)) = Cardinality(I)
      /\ \A k \in 1 .. Cardinality(I) : Place(I, k) \in I
  BY <1>1, RetainFacts
<1>3. \A i \in I : s[i] \in X
  OBVIOUS
<1>4. Retain(s, I) \in [1 .. Cardinality(I) -> X]
  BY <1>2, <1>3 DEF Retain
<1> QED BY <1>2, <1>4

\* RetainSet: what Retain keeps, as a set.
LEMMA RetainSet ==
  ASSUME NEW X, NEW s \in Seq(X), NEW I \in SUBSET DOMAIN s
  PROVE  /\ ToSet(Retain(s, I)) = {s[i] : i \in I}
         /\ IsInjective(s) => IsInjective(Retain(s, I))
<1> DEFINE r == Retain(s, I)
           m == Cardinality(I)
<1>1. Len(s) \in Nat /\ I \in SUBSET (1 .. Len(s)) /\ DOMAIN s = 1 .. Len(s)
  OBVIOUS
<1>2. /\ m \in 0 .. Len(s) /\ DOMAIN r = 1 .. m
      /\ \A k \in 1 .. m : Place(I, k) \in I /\ r[k] = s[Place(I, k)]
      /\ \A i \in I : Rank(I, i) \in 1 .. m /\ r[Rank(I, i)] = s[i]
      /\ \A k, l \in 1 .. m : k < l => Place(I, k) < Place(I, l)
  BY <1>1, RetainFacts
<1> HIDE DEF r, m
<1>3. ToSet(r) = {s[i] : i \in I}
  BY <1>2 DEF ToSet
<1>4. ASSUME IsInjective(s), NEW k \in 1 .. m, NEW l \in 1 .. m, k < l
      PROVE r[k] # r[l]
  <2>1. Place(I, k) \in I /\ Place(I, l) \in I /\ Place(I, k) < Place(I, l)
    BY <1>2, <1>4
  <2>2. Place(I, k) \in Nat /\ Place(I, l) \in Nat /\ Place(I, k) \in DOMAIN s /\ Place(I, l) \in DOMAIN s
    BY <1>1, <2>1
  <2>3. s[Place(I, k)] # s[Place(I, l)]
    BY <1>4, <2>1, <2>2 DEF IsInjective
  <2> QED BY <1>2, <2>3
<1>5. IsInjective(s) => IsInjective(r)
  <2> SUFFICES ASSUME IsInjective(s), NEW k \in 1 .. m, NEW l \in 1 .. m, r[k] = r[l] PROVE k = l
    BY <1>2 DEF IsInjective
  <2>1. k \in Int /\ l \in Int
    OBVIOUS
  <2> QED BY <1>4, <2>1
<1> QED BY <1>3, <1>5 DEF r

\* RetainSuffix: what Retain keeps of the positions from k on is the suffix
\* that begins there.
LEMMA RetainSuffix ==
  ASSUME NEW s, NEW n \in Nat, NEW k \in 1 .. n + 1
  PROVE  /\ DOMAIN Retain(s, k .. n) = 1 .. (n + 1) - k
         /\ Len(Retain(s, k .. n)) = (n + 1) - k
         /\ \A i \in 1 .. (n + 1) - k : Retain(s, k .. n)[i] = s[(i + k) - 1]
<1> DEFINE I == k .. n
<1>1. I \in SUBSET (1 .. n) /\ Cardinality(I) = (n + 1) - k
  <2>1. Cardinality(k .. n) = IF k > n THEN 0 ELSE n - k + 1
    BY FS_Interval
  <2> QED BY <2>1
<1>2. ASSUME NEW i \in I PROVE Rank(I, i) = (i + 1) - k
  <2>1. {j \in I : j <= i} = k .. i
    OBVIOUS
  <2>2. Cardinality(k .. i) = (i + 1) - k
    BY FS_Interval
  <2> QED BY <2>1, <2>2 DEF Rank
<1> HIDE DEF I
<1>3. \A i \in 1 .. Cardinality(I) : Place(I, i) \in I /\ Rank(I, Place(I, i)) = i
  BY <1>1, PlaceFacts
<1>4. ASSUME NEW i \in 1 .. Cardinality(I) PROVE Place(I, i) = (i + k) - 1
  <2>1. Place(I, i) \in Int /\ k \in Int /\ i \in Int
    <3>1. \A j \in I : j \in Int
      BY <1>1
    <3>2. i \in Int
      BY <1>1
    <3> QED BY <1>3, <3>1, <3>2
  <2>2. (Place(I, i) + 1) - k = i
    BY <1>2, <1>3
  <2> QED BY <2>1, <2>2
<1>5. /\ DOMAIN Retain(s, I) = 1 .. Cardinality(I)
      /\ Len(Retain(s, I)) = Cardinality(I)
      /\ \A i \in 1 .. Cardinality(I) : Retain(s, I)[i] = s[Place(I, i)]
  BY <1>1, RetainFacts
<1> QED BY <1>1, <1>4, <1>5 DEF I

\* AppendSet: Append adds one element, at the end.
LEMMA AppendSet ==
  ASSUME NEW X, NEW s \in Seq(X), NEW x \in X
  PROVE  /\ Append(s, x) \in Seq(X) /\ Len(Append(s, x)) = Len(s) + 1
         /\ ToSet(Append(s, x)) = ToSet(s) \cup {x}
         /\ IsInjective(s) /\ x \notin ToSet(s) => IsInjective(Append(s, x))
<1> DEFINE r == Append(s, x)
<1>1. Len(s) \in Nat /\ DOMAIN s = 1 .. Len(s)
  OBVIOUS
<1>2. r \in Seq(X) /\ Len(r) = Len(s) + 1 /\ DOMAIN r = 1 .. Len(s) + 1
  OBVIOUS
<1>3. \A i \in 1 .. Len(s) : r[i] = s[i]
  OBVIOUS
<1>4. r[Len(s) + 1] = x
  OBVIOUS
<1> HIDE DEF r
<1>5. \A i \in DOMAIN r : i \in DOMAIN s \/ i = Len(s) + 1
  BY <1>1, <1>2
<1>6. \A i \in DOMAIN s : i \in DOMAIN r
  BY <1>1, <1>2
<1>7. Len(s) + 1 \in DOMAIN r
  BY <1>1, <1>2
<1>8. ToSet(r) = ToSet(s) \cup {x}
  BY <1>1, <1>3, <1>4, <1>5, <1>6, <1>7 DEF ToSet
<1>9. IsInjective(s) /\ x \notin ToSet(s) => IsInjective(r)
  BY <1>1, <1>3, <1>4, <1>5 DEF ToSet, IsInjective
<1> QED BY <1>2, <1>8, <1>9 DEF r

\* SuffixSet: the end of a sequence.
LEMMA SuffixSet ==
  ASSUME NEW X, NEW s \in Seq(X), NEW k \in 1 .. Len(s) + 1
  PROVE  /\ SubSeq(s, k, Len(s)) \in Seq(X)
         /\ Len(SubSeq(s, k, Len(s))) = (Len(s) + 1) - k
         /\ \A i \in 1 .. (Len(s) + 1) - k : SubSeq(s, k, Len(s))[i] = s[(i + k) - 1]
         /\ ToSet(SubSeq(s, k, Len(s))) \subseteq ToSet(s)
         /\ IsInjective(s) => IsInjective(SubSeq(s, k, Len(s)))
<1> DEFINE r == SubSeq(s, k, Len(s))
           m == (Len(s) + 1) - k
<1>1. Len(s) \in Nat /\ DOMAIN s = 1 .. Len(s) /\ m \in Nat /\ k \in Nat
  OBVIOUS
<1>2. /\ r \in Seq(X) /\ DOMAIN r = 1 .. m /\ Len(r) = m
      /\ \A i \in 1 .. m : r[i] = s[(i + k) - 1]
  OBVIOUS
<1>3. \A i \in 1 .. m : (i + k) - 1 \in DOMAIN s
  BY <1>1
<1> HIDE DEF r
<1>4. ToSet(r) \subseteq ToSet(s)
  BY <1>2, <1>3 DEF ToSet
<1>5. IsInjective(s) => IsInjective(r)
  <2> SUFFICES ASSUME IsInjective(s), NEW i \in 1 .. m, NEW j \in 1 .. m, r[i] = r[j] PROVE i = j
    BY <1>2 DEF IsInjective
  <2>1. (i + k) - 1 = (j + k) - 1
    BY <1>2, <1>3 DEF IsInjective
  <2> QED BY <1>1, <2>1
<1> QED BY <1>2, <1>4, <1>5 DEF r

\* PrefixSet: the beginning of a sequence.
LEMMA PrefixSet ==
  ASSUME NEW X, NEW s \in Seq(X), NEW n \in 0 .. Len(s)
  PROVE  /\ SubSeq(s, 1, n) \in Seq(X)
         /\ DOMAIN SubSeq(s, 1, n) = 1 .. n
         /\ Len(SubSeq(s, 1, n)) = n
         /\ \A i \in 1 .. n : SubSeq(s, 1, n)[i] = s[i]
<1>1. Len(s) \in Nat
  OBVIOUS
<1>2. n \in Nat /\ n <= Len(s)
  BY <1>1
<1> QED BY <1>2

\* TailSet: all but the first.
LEMMA TailSet ==
  ASSUME NEW X, NEW s \in Seq(X), s # << >>
  PROVE  Tail(s) \in Seq(X)
OBVIOUS

\* Widened: r is s with e before the k-th element
Widened(r, s, k, e) ==
  /\ Len(r) = Len(s) + 1
  /\ r[k] = e
  /\ \A j \in 1 .. Len(s) + 1 : (j < k => r[j] = s[j]) /\ (j > k => r[j] = s[j - 1])

\* InsertFacts: InsertAt puts an element before the k-th.
LEMMA InsertFacts ==
  ASSUME NEW X, NEW s \in Seq(X), NEW k \in 1 .. Len(s) + 1, NEW e \in X,
         NEW r, r = InsertAt(s, k, e)
  PROVE  r \in Seq(X) /\ Widened(r, s, k, e)
<1> DEFINE a == SubSeq(s, 1, k - 1)
           b == SubSeq(s, k, Len(s))
           u == a \o <<e>>
<1>1. Len(s) \in Nat /\ k \in Nat /\ k >= 1 /\ k <= Len(s) + 1
  OBVIOUS
<1>2. a \in Seq(X) /\ Len(a) = k - 1 /\ \A j \in 1 .. k - 1 : a[j] = s[j]
  BY <1>1
<1>3. /\ b \in Seq(X) /\ Len(b) = (Len(s) + 1) - k
      /\ \A j \in 1 .. (Len(s) + 1) - k : b[j] = s[(j + k) - 1]
  BY SuffixSet
<1>4. r = u \o b
  BY DEF InsertAt
<1> HIDE DEF a, b
<1>5. u \in Seq(X) /\ Len(u) = k
  BY ONLY <1>1, <1>2, e \in X
<1>6. (\A j \in 1 .. k - 1 : u[j] = a[j]) /\ u[k] = e
  BY ONLY <1>1, <1>2, e \in X
<1> HIDE DEF u
<1>7. u \o b \in Seq(X) /\ Len(u \o b) = Len(u) + Len(b)
  <2>1. u \in Seq(X) /\ b \in Seq(X)
    BY <1>3, <1>5
  <2> QED BY ONLY <2>1
<1>8. \A j \in 1 .. k : (u \o b)[j] = u[j]
  BY ONLY <1>1, <1>3, <1>5
<1>9. \A j \in k + 1 .. Len(s) + 1 : (u \o b)[j] = b[j - k]
  BY ONLY <1>1, <1>3, <1>5
<1>10. \A j \in k + 1 .. Len(s) + 1 : r[j] = s[j - 1]
  <2> SUFFICES ASSUME NEW j \in k + 1 .. Len(s) + 1 PROVE r[j] = s[j - 1]
    OBVIOUS
  <2>1. j - k \in 1 .. (Len(s) + 1) - k /\ ((j - k) + k) - 1 = j - 1
    BY <1>1
  <2>2. b[j - k] = s[((j - k) + k) - 1]
    BY <1>3, <2>1
  <2> QED BY <1>4, <1>9, <2>1, <2>2
<1>11. Len(r) = Len(s) + 1 /\ r \in Seq(X)
  <2>1. Len(u) + Len(b) = Len(s) + 1
    BY <1>1, <1>3, <1>5
  <2> QED BY <1>4, <1>7, <2>1
<1>12. \A j \in 1 .. k - 1 : r[j] = s[j]
  <2>1. \A j \in 1 .. k - 1 : j \in 1 .. k
    BY <1>1
  <2> QED BY <1>2, <1>4, <1>6, <1>8, <2>1
<1>13. r[k] = e
  <2>1. k \in 1 .. k
    BY <1>1
  <2> QED BY <1>4, <1>6, <1>8, <2>1
<1>14. \A j \in 1 .. Len(s) + 1 : (j < k => r[j] = s[j]) /\ (j > k => r[j] = s[j - 1])
  <2>1. ASSUME NEW j \in 1 .. Len(s) + 1, j < k PROVE r[j] = s[j]
    BY <1>1, <1>12, <2>1
  <2>2. ASSUME NEW j \in 1 .. Len(s) + 1, j > k PROVE r[j] = s[j - 1]
    <3>1. j \in k + 1 .. Len(s) + 1
      BY <1>1, <2>2
    <3> QED BY <1>10, <3>1
  <2> QED BY <2>1, <2>2
<1> QED BY <1>11, <1>13, <1>14 DEF Widened

\* Initial: a set of positions with those before each is all up to its size.
LEMMA Initial ==
  ASSUME NEW n \in Nat, NEW T \in SUBSET (1 .. n), \A i \in 1 .. n, j \in T : i <= j => i \in T
  PROVE  Cardinality(T) \in 0 .. n /\ T = 1 .. Cardinality(T)
<1>1. CASE T = {}
  <2>1. Cardinality(T) = 0 /\ T = 1 .. 0
    BY <1>1, FS_EmptySet
  <2> QED BY <2>1
<1>2. CASE T # {}
  <2>1. T \subseteq Nat /\ \A x \in T : x <= n
    OBVIOUS
  <2>2. PICK g \in T : \A y \in T : y <= g
    BY <1>2, <2>1, GreatestNatural
  <2>3. g \in 1 .. n
    OBVIOUS
  <2>4. T = 1 .. g
    <3>1. ASSUME NEW i \in T PROVE i \in 1 .. g
      BY <2>2, <2>3
    <3>2. ASSUME NEW i \in 1 .. g PROVE i \in T
      <4>1. i \in 1 .. n /\ i <= g
        BY <2>3
      <4> QED BY <2>2, <4>1
    <3> QED BY <3>1, <3>2
  <2>5. Cardinality(1 .. g) = g
    BY <2>3, FS_Interval
  <2> QED BY <2>3, <2>4, <2>5
<1> QED BY <1>1, <1>2
-----------------------------------------------------------------------------
(* Loops.                                                                  *)

\* Rounds: f has the values after each round of a loop of n rounds that starts
\* with b in X, where g says what a round makes of the value before it
Rounds(f, X, b, n, g) ==
  f \in [0 .. n -> X] /\ f[0] = b /\ \A k \in 1 .. n : f[k] = g[<<k, f[k - 1]>>]

\* LoopExists: such a loop has a value after each round.
LEMMA LoopExists ==
  ASSUME NEW X, NEW b \in X, NEW n \in Nat, NEW g \in [(1 .. n) \X X -> X]
  PROVE  \E f : Rounds(f, X, b, n, g)
<1> USE DEF Rounds
<1> DEFINE T == {m \in 0 .. n : ~ \E f : Rounds(f, X, b, m, g)}
<1> SUFFICES ASSUME T # {} PROVE FALSE
  <2>1. n \in 0 .. n
    OBVIOUS
  <2> QED BY <2>1
<1>1. PICK m \in T : \A k \in T : m <= k
  <2>1. T \subseteq Nat
    OBVIOUS
  <2> HIDE DEF T
  <2> QED BY <2>1, LeastNatural
<1>2. m \in 0 .. n /\ ~ \E f : Rounds(f, X, b, m, g)
  OBVIOUS
<1>3. CASE m = 0
  <2> DEFINE f == [k \in 0 .. 0 |-> b]
  <2>1. f \in [0 .. 0 -> X] /\ f[0] = b /\ \A k \in 1 .. 0 : FALSE
    OBVIOUS
  <2> QED BY <1>2, <1>3, <2>1
<1>4. CASE m # 0
  <2>1. m - 1 \in 0 .. n /\ ~(m <= m - 1)
    BY <1>2, <1>4
  <2>2. PICK e : Rounds(e, X, b, m - 1, g)
    BY <1>1, <2>1
  <2>3. e[m - 1] \in X /\ m \in 1 .. n
    BY <1>2, <1>4, <2>2
  <2>4. g[<<m, e[m - 1]>>] \in X
    BY <2>3
  <2> DEFINE f == [k \in 0 .. m |-> IF k = m THEN g[<<m, e[m - 1]>>] ELSE e[k]]
  <2>5. \A k \in 0 .. m : k # m => k \in 0 .. m - 1
    BY <1>2
  <2>6. f \in [0 .. m -> X]
    BY <2>2, <2>4, <2>5
  <2>7. f[0] = b /\ f[m] = g[<<m, e[m - 1]>>] /\ \A k \in 0 .. m - 1 : f[k] = e[k]
    <3>1. 0 \in 0 .. m /\ m \in 0 .. m /\ \A k \in 0 .. m - 1 : k \in 0 .. m /\ k # m
      BY <1>2
    <3> QED BY <1>4, <2>2, <3>1
  <2> HIDE DEF f
  <2>8. ASSUME NEW k \in 1 .. m PROVE f[k] = g[<<k, f[k - 1]>>]
    <3>1. k - 1 \in 0 .. m - 1
      BY <1>2
    <3>2. CASE k = m
      BY <2>7, <3>1, <3>2
    <3>3. CASE k # m
      <4>1. k \in 1 .. m - 1 /\ k \in 0 .. m - 1
        BY <1>2, <3>3
      <4> QED BY <2>2, <2>7, <3>1, <4>1
    <3> QED BY <3>2, <3>3
  <2> QED BY <1>2, <2>6, <2>7, <2>8
<1> QED BY <1>3, <1>4
-----------------------------------------------------------------------------
(* Numbers that wrap.                                                      *)

\* A residue lies below the modulus.
LEMMA ModRange ==
  ASSUME NEW a \in Nat, NEW m \in Nat \ {0}
  PROVE  a % m \in 0 .. m - 1
OBVIOUS

\* Division with remainder.
LEMMA DivMod ==
  ASSUME NEW a \in Nat, NEW m \in Nat \ {0}
  PROVE  a = m * (a \div m) + (a % m) /\ a \div m \in Nat
OBVIOUS

\* Quotient and remainder are unique.
LEMMA DivModUnique ==
  ASSUME NEW m \in Nat \ {0}, NEW q1 \in Int, NEW q2 \in Int,
         NEW r1 \in 0 .. m - 1, NEW r2 \in 0 .. m - 1,
         m * q1 + r1 = m * q2 + r2
  PROVE  q1 = q2 /\ r1 = r2
<1>1. m * (q1 - q2) = r2 - r1
  OBVIOUS
<1>2. CASE q1 - q2 >= 1
  <2>1. m * (q1 - q2) >= m
    BY <1>2
  <2>2. QED BY <1>1, <2>1
<1>3. CASE q2 - q1 >= 1
  <2>1. m * (q2 - q1) >= m
    BY <1>3
  <2>2. QED BY <1>1, <2>1
<1>4. QED BY <1>1, <1>2, <1>3

\* ModApart: of two numbers less than m apart the older one, taken from the
\* residue of the later one, wraps to what is missing to m.
LEMMA ModApart ==
  ASSUME NEW m \in Nat \ {0}, NEW a \in Nat, NEW b \in Nat, a < b, b - a < m
  PROVE  a % m # b % m /\ ((a % m) - (b % m)) % m = m - (b - a)
<1> DEFINE q == a \div m
           u == b \div m
           r == a % m
           v == b % m
           d == b - a
           k == u - q
<1>1. a = m * q + r /\ q \in Int /\ r \in 0 .. m - 1
  BY DivMod, ModRange
<1>2. b = m * u + v /\ u \in Int /\ v \in 0 .. m - 1
  BY DivMod, ModRange
<1>3. d \in 1 .. m - 1
  OBVIOUS
<1> HIDE DEF q, u, r, v
<1>4. r - v = m * k - d /\ k \in Int
  BY <1>1, <1>2
<1>5. r - v < m /\ v - r < m
  BY <1>1, <1>2
<1> HIDE DEF d, k
<1>6. k = 0 \/ k = 1
  <2>1. CASE k <= -1
    <3>1. m * k <= -m
      BY <1>4, <2>1
    <3> QED BY <1>1, <1>2, <1>3, <1>4, <1>5, <3>1
  <2>2. CASE k >= 2
    <3>1. m * k >= m + m
      BY <1>4, <2>2
    <3> QED BY <1>1, <1>2, <1>3, <1>4, <1>5, <3>1
  <2> QED BY <1>4, <2>1, <2>2
<1>7. r - v = -d \/ r - v = m - d
  BY <1>3, <1>4, <1>6
<1>8. (-d) % m = m - d /\ (m - d) % m = m - d
  BY <1>3
<1>9. r # v
  BY <1>1, <1>2, <1>3, <1>7
<1> QED BY <1>7, <1>8, <1>9 DEF d, r, v
=============================================================================
