--------------------------- MODULE SemanticProofs ---------------------------
(***************************************************************************)
(* The inductive invariant of the semantic checker, for every program and  *)
(* every value of the bounds: types are built from types, each open call   *)
(* keeps what its kind says, the scopes come first on the stack, and the   *)
(* declarations that are not yet in the table belong to the level they     *)
(* will be declared at.                                                    *)
(***************************************************************************)
EXTENDS Semantic, FiniteSetTheorems, FunctionTheorems, SequenceTheorems, TLAPS

-----------------------------------------------------------------------------
(* Facts about the operators on the symbol tables. *)

(* Induction over the natural numbers, for a set instead of a predicate. *)
LEMMA Induction ==
  ASSUME NEW S, 0 \in S, \A k \in Nat : k \in S => k + 1 \in S
  PROVE  \A k \in Nat : k \in S
<1> DEFINE T == Nat \ S
<1> SUFFICES ASSUME T # {} PROVE FALSE
  OBVIOUS
<1>1. IsWellFoundedOn(OpToRel(<, Nat), Nat)
  BY NatLessThanWellFounded
<1>2. PICK x \in T : \A y \in T : ~ (<<y, x>> \in OpToRel(<, Nat))
  <2> HIDE DEF T
  <2>1. T \subseteq Nat
    BY DEF T
  <2> QED
    BY <1>1, <2>1, WFMin
<1>3. x \in Nat /\ x # 0 /\ x - 1 \in Nat
  OBVIOUS
<1>4. <<x - 1, x>> \in OpToRel(<, Nat)
  BY <1>3 DEF OpToRel
<1>5. x - 1 \notin T
  BY <1>2, <1>4
<1> QED
  BY <1>3, <1>5

(***************************************************************************)
(* How many numbers of a finite set are not above one of its numbers.      *)
(***************************************************************************)
Rank(S, i) == Cardinality({j \in S : j <= i})

LEMMA RankIs ==
  ASSUME NEW S \in SUBSET Nat, IsFiniteSet(S)
  PROVE  /\ Cardinality(S) \in Nat
         /\ \A i \in S : Rank(S, i) \in 1 .. Cardinality(S)
         /\ \A i, j \in S : i < j => Rank(S, i) < Rank(S, j)
         /\ \A k \in 1 .. Cardinality(S) : \E i \in S : Rank(S, i) = k
<1> DEFINE N == Cardinality(S)
           Below(i) == {j \in S : j <= i}
<1>0. \A i \in S : i \in Nat
  OBVIOUS
<1>1. N \in Nat
  BY FS_CardinalityType
<1> HIDE DEF N, Below
<1>2. \A i : IsFiniteSet(Below(i)) /\ Rank(S, i) \in Nat /\ Rank(S, i) <= N
  <2> TAKE i
  <2>1. Below(i) \in SUBSET S
    BY DEF Below
  <2>2. IsFiniteSet(Below(i)) /\ Cardinality(Below(i)) <= N
    BY <2>1, FS_Subset DEF N
  <2>3. Cardinality(Below(i)) \in Nat
    BY <2>2, FS_CardinalityType
  <2>4. Rank(S, i) = Cardinality(Below(i))
    BY DEF Rank, Below
  <2> QED
    BY <2>2, <2>3, <2>4
<1>3. \A i \in S : Rank(S, i) # 0
  <2> TAKE i \in S
  <2>1. i \in Below(i)
    BY <1>0 DEF Below
  <2>2. Cardinality(Below(i)) # 0
    BY <2>1, <1>2, FS_EmptySet
  <2> QED
    BY <2>2 DEF Rank, Below
<1>4. \A i, j \in S : i < j => Rank(S, i) < Rank(S, j)
  <2> SUFFICES ASSUME NEW i \in S, NEW j \in S, i < j
               PROVE  Rank(S, i) < Rank(S, j)
    OBVIOUS
  <2>0. i \in Nat /\ j \in Nat
    BY <1>0
  <2>1. \A k \in S : k <= i => k <= j
    BY <1>0, <2>0
  <2>3. j <= j /\ ~ (j <= i)
    BY <2>0
  <2>4. Below(i) \subseteq Below(j) /\ j \in Below(j) /\ j \notin Below(i)
    BY <2>1, <2>3 DEF Below
  <2>2. Rank(S, i) = Cardinality(Below(i)) /\ Rank(S, j) = Cardinality(Below(j))
    BY DEF Rank, Below
  <2>5. Cardinality(Below(i)) <= Cardinality(Below(j)) /\ Cardinality(Below(i)) # Cardinality(Below(j))
    BY <2>4, <1>2, FS_Subset
  <2> QED
    BY <2>2, <2>5, <1>2
<1>5. \A k \in 1 .. N : \E i \in S : Rank(S, i) = k
  <2> DEFINE f == [i \in S |-> Rank(S, i)]
  <2>1. \A i \in S : f[i] \in 1 .. N
    BY <1>1, <1>2, <1>3
  <2>2. \A i, j \in S : f[i] = f[j] => i = j
    <3> SUFFICES ASSUME NEW i \in S, NEW j \in S, Rank(S, i) = Rank(S, j)
                 PROVE  i = j
      OBVIOUS
    <3>1. i \in Nat /\ j \in Nat /\ Rank(S, i) \in Nat
      BY <1>2
    <3>2. ~ (i < j) /\ ~ (j < i)
      BY <3>1, <1>4
    <3> QED
      BY <3>1, <3>2
  <2>3. f \in [S -> 1 .. N]
    BY <2>1
  <2> HIDE DEF f
  <2>4. f \in Injection(S, 1 .. N)
    BY <2>2, <2>3, Fun_IsInj
  <2>5. IsFiniteSet(1 .. N) /\ Cardinality(1 .. N) = N
    BY <1>1, FS_Interval
  <2>6. f \in Surjection(S, 1 .. N)
    BY <2>4, <2>5, FS_Injection DEF N
  <2>7. \A k \in 1 .. N : \E i \in S : f[i] = k
    BY <2>6, Fun_SurjectionProperties
  <2> QED
    BY <2>7 DEF f
<1>6. \A i \in S : Rank(S, i) \in 1 .. N
  BY <1>1, <1>2, <1>3
<1> QED
  BY <1>1, <1>4, <1>5, <1>6 DEF N

(* s is the set S of numbers, each of them once, the smallest first. *)
Sorts(s, S) ==
  /\ s \in Seq(S)
  /\ \A i, j \in 1 .. Len(s) : i < j => s[i] < s[j]
  /\ \A x \in S : \E i \in 1 .. Len(s) : s[i] = x

(* Ascending does what it is for. *)
LEMMA AscendingIs ==
  ASSUME NEW S \in SUBSET Nat, IsFiniteSet(S)
  PROVE  Sorts(Ascending(S), S) /\ Len(Ascending(S)) = Cardinality(S)
<1> DEFINE N == Cardinality(S)
           s == Ascending(S)
<1>0. \A i \in S : i \in Nat
  OBVIOUS
<1>1. N \in Nat
  BY RankIs
<1>2. s = [k \in 1 .. N |-> CHOOSE i \in S : Rank(S, i) = k]
  BY DEF Ascending, Rank
<1>3. \A k \in 1 .. N : s[k] \in S /\ Rank(S, s[k]) = k
  <2> TAKE k \in 1 .. N
  <2>1. \E i \in S : Rank(S, i) = k
    BY RankIs
  <2>2. s[k] = CHOOSE i \in S : Rank(S, i) = k
    BY <1>2
  <2> HIDE DEF s
  <2> QED
    BY <2>1, <2>2
<1>4. s \in Seq(S) /\ Len(s) = N
  <2> HIDE DEF s, N
  <2>1. s \in [1 .. N -> S]
    BY <1>2, <1>3
  <2> QED
    BY <2>1, <1>1
<1> HIDE DEF s
<1>5. \A i, j \in 1 .. N : i < j => s[i] < s[j]
  <2> SUFFICES ASSUME NEW i \in 1 .. N, NEW j \in 1 .. N, i < j, ~ (s[i] < s[j])
               PROVE  FALSE
    OBVIOUS
  <2>1. s[i] \in Nat /\ s[j] \in Nat
    BY <1>3
  <2>2. s[j] = s[i] \/ s[j] < s[i]
    BY <2>1
  <2>3. Rank(S, s[i]) = i /\ Rank(S, s[j]) = j
    BY <1>3
  <2>4. s[j] < s[i] => j < i
    BY <2>3, <1>3, RankIs
  <2> QED
    BY <2>2, <2>3, <2>4
<1>6. \A x \in S : \E i \in 1 .. N : s[i] = x
  <2> TAKE x \in S
  <2>1. Rank(S, x) \in 1 .. N
    BY RankIs
  <2>2. Rank(S, s[Rank(S, x)]) = Rank(S, x) /\ s[Rank(S, x)] \in S
    BY <2>1, <1>3
  <2>3. s[Rank(S, x)] = x
    <3> DEFINE y == s[Rank(S, x)]
    <3>1. y \in S /\ Rank(S, y) = Rank(S, x)
      BY <2>2
    <3> HIDE DEF y
    <3>2. y \in Nat /\ x \in Nat
      BY <3>1, <1>0
    <3>3. Rank(S, x) \in Nat
      BY <2>1, <1>1
    <3>4. ~ (y < x) /\ ~ (x < y)
      BY <3>1, <3>3, RankIs
    <3> QED
      BY <3>2, <3>4 DEF y
  <2> QED
    BY <2>1, <2>3
<1> QED
  BY <1>4, <1>5, <1>6 DEF Sorts, s

(* And there is one such sequence only. *)
LEMMA AscendingOnly ==
  ASSUME NEW S \in SUBSET Nat, NEW s, Sorts(s, S)
  PROVE  IsFiniteSet(S) /\ Cardinality(S) = Len(s) /\ Ascending(S) = s
<1> DEFINE n == Len(s)
<1>0. \A i \in S : i \in Nat
  OBVIOUS
<1>1. /\ s \in Seq(S) /\ n \in Nat /\ s \in [1 .. n -> S]
      /\ \A i, j \in 1 .. n : i < j => s[i] < s[j]
      /\ \A x \in S : \E i \in 1 .. n : s[i] = x
  BY DEF Sorts
<1> HIDE DEF n
<1>9. \A i \in 1 .. n : s[i] \in Nat /\ i \in Nat
  <2> TAKE i \in 1 .. n
  <2>1. s[i] \in S
    BY <1>1
  <2>2. n \in Nat
    BY <1>1
  <2>3. s[i] \in Nat
    BY <1>0, <2>1
  <2> QED
    BY <2>2, <2>3
<1>2. \A i, j \in 1 .. n : (i < j <=> s[i] < s[j]) /\ (s[i] = s[j] => i = j)
  <2> SUFFICES ASSUME NEW i \in 1 .. n, NEW j \in 1 .. n
               PROVE  (i < j <=> s[i] < s[j]) /\ (s[i] = s[j] => i = j)
    OBVIOUS
  <2>1. s[i] \in Nat /\ s[j] \in Nat /\ i \in Nat /\ j \in Nat
    BY <1>9
  <2>2. (i < j => s[i] < s[j]) /\ (j < i => s[j] < s[i])
    BY <1>1
  <2> QED
    BY <2>1, <2>2
<1>3. IsFiniteSet(S) /\ Cardinality(S) = n
  <2>1. s \in Bijection(1 .. n, S)
    BY <1>1, <1>2, Fun_IsBij
  <2>2. ExistsBijection(1 .. n, S)
    BY <2>1 DEF ExistsBijection
  <2> QED
    BY <2>2, <1>1, FS_NatBijection, FS_CountingElements
<1>4. \A k \in 1 .. n : Rank(S, s[k]) = k
  <2> TAKE k \in 1 .. n
  <2> DEFINE B == {j \in S : j <= s[k]}
             g == [i \in 1 .. k |-> s[i]]
  <2>1. k \in Nat /\ \A i : i \in 1 .. k <=> i \in 1 .. n /\ i <= k
    BY <1>1
  <2>2. \A i \in 1 .. n : s[i] <= s[k] <=> i <= k
    <3> TAKE i \in 1 .. n
    <3>1. s[i] \in Nat /\ s[k] \in Nat /\ i \in Nat
      BY <1>9
    <3>2. (k < i <=> s[k] < s[i])
      BY <1>2
    <3> QED
      BY <2>1, <3>1, <3>2
  <2>3. g \in [1 .. k -> B]
    BY <1>1, <2>1, <2>2
  <2>4. \A x \in B : \E i \in 1 .. k : g[i] = x
    BY <1>1, <2>1, <2>2
  <2>5. \A i, j \in 1 .. k : g[i] = g[j] => i = j
    BY <1>2, <2>1
  <2> HIDE DEF B, g
  <2>6. g \in Bijection(1 .. k, B)
    BY <2>3, <2>4, <2>5, Fun_IsBij
  <2>7. ExistsBijection(1 .. k, B)
    BY <2>6 DEF ExistsBijection
  <2>8. Cardinality(B) = k
    BY <2>1, <2>7, FS_CountingElements
  <2> QED
    BY <2>8 DEF Rank, B
<1>5. Ascending(S) = [k \in 1 .. n |-> CHOOSE i \in S : Rank(S, i) = k]
  BY <1>3 DEF Ascending, Rank
<1>6. \A k \in 1 .. n : (CHOOSE i \in S : Rank(S, i) = k) = s[k]
  <2> TAKE k \in 1 .. n
  <2>1. s[k] \in S /\ Rank(S, s[k]) = k
    BY <1>1, <1>4
  <2>2. \A i \in S : Rank(S, i) = k => i = s[k]
    BY <1>1, <1>4
  <2> QED
    BY <2>1, <2>2
<1>7. Ascending(S) = s
  BY <1>1, <1>5, <1>6
<1> QED
  BY <1>3, <1>7 DEF n

LEMMA SmallestIs ==
  ASSUME NEW S \in SUBSET Nat, S # {}
  PROVE  \E x \in S : \A y \in S : x <= y
<1>1. IsWellFoundedOn(OpToRel(<, Nat), Nat)
  BY NatLessThanWellFounded
<1>2. PICK x \in S : \A y \in S : ~ (<<y, x>> \in OpToRel(<, Nat))
  BY <1>1, WFMin
<1>3. \A y \in S : y \in Nat
  OBVIOUS
<1>4. \A y \in S : y < x => <<y, x>> \in OpToRel(<, Nat)
  BY <1>3 DEF OpToRel
<1>5. \A y \in S : ~ (y < x)
  BY <1>2, <1>4, Zenon
<1>6. \A y \in S : x <= y
  BY <1>3, <1>5
<1> QED
  BY <1>6

LEMMA LargestIs ==
  ASSUME NEW S \in SUBSET Nat, IsFiniteSet(S), S # {}
  PROVE  \E x \in S : \A y \in S : y <= x
<1> DEFINE s == Ascending(S)
           n == Len(s)
<1>0. \A y \in S : y \in Nat
  OBVIOUS
<1>1. Sorts(s, S)
  BY AscendingIs
<1> HIDE DEF s
<1>2. /\ s \in Seq(S) /\ n \in Nat
      /\ \A i, j \in 1 .. n : i < j => s[i] < s[j]
      /\ \A x \in S : \E i \in 1 .. n : s[i] = x
  BY <1>1 DEF Sorts
<1>3. n # 0
  <2>1. PICK x \in S : TRUE
    OBVIOUS
  <2>2. PICK i \in 1 .. n : s[i] = x
    BY <1>2
  <2> QED
    BY <1>2, <2>2
<1> HIDE DEF n
<1>4. n \in 1 .. n
  BY <1>2, <1>3
<1>5. s[n] \in S
  BY <1>2, <1>4 DEF n
<1>6. ASSUME NEW y \in S PROVE y <= s[n]
  <2>1. PICK i \in 1 .. n : s[i] = y
    BY <1>2
  <2>2. i < n => s[i] < s[n]
    BY <1>2, <1>4
  <2>3. i < n \/ i = n
    BY <1>2
  <2>4. y \in Nat /\ s[n] \in Nat
    BY <1>0, <1>5
  <2> QED
    BY <2>1, <2>2, <2>3, <2>4
<1> QED
  BY <1>5, <1>6

-----------------------------------------------------------------------------
(* The entries of m have different ages, and there are finitely many. *)
Aged(m) ==
  /\ IsFiniteSet(m)
  /\ \A e \in m : e.seq \in Nat
  /\ \A e, f \in m : e.seq = f.seq => e = f

(* s is the set S of entries, each of them once, the oldest first. *)
ByAge(s, S) ==
  /\ s \in Seq(S)
  /\ \A i, j \in 1 .. Len(s) : i < j => s[i].seq < s[j].seq
  /\ \A e \in S : \E i \in 1 .. Len(s) : s[i] = e

LEMMA AgesAre ==
  ASSUME NEW S, Aged(S)
  PROVE  {e.seq : e \in S} \in SUBSET Nat /\ IsFiniteSet({e.seq : e \in S})
<1> DEFINE A == {e.seq : e \in S}
           f == [e \in S |-> e.seq]
<1>1. A \in SUBSET Nat
  BY DEF Aged
<1>2. f \in [S -> A] /\ \A a \in A : \E e \in S : f[e] = a
  OBVIOUS
<1> HIDE DEF f, A
<1>3. f \in Surjection(S, A)
  BY <1>2, Fun_IsSurj
<1>4. IsFiniteSet(A)
  BY <1>3, FS_Surjection DEF Aged
<1> QED
  BY <1>1, <1>4 DEF A

LEMMA FirstIs ==
  ASSUME NEW S, Aged(S), S # {}
  PROVE  First(S) \in S /\ \A e \in S : First(S).seq <= e.seq
<1>1. {e.seq : e \in S} \in SUBSET Nat /\ {e.seq : e \in S} # {}
  BY DEF Aged
<1>2. \E a \in {e.seq : e \in S} : \A b \in {e.seq : e \in S} : a <= b
  BY <1>1, SmallestIs
<1>3. \E e \in S : \A f \in S : e.seq <= f.seq
  BY <1>2
<1> QED
  BY <1>3 DEF First

LEMMA SomeAged ==
  ASSUME NEW m, Aged(m), NEW S \in SUBSET m
  PROVE  Aged(S)
<1>1. IsFiniteSet(S)
  BY FS_Subset DEF Aged
<1> QED
  BY <1>1 DEF Aged

LEMMA NamedAged ==
  ASSUME NEW m, Aged(m), NEW n
  PROVE  Aged(Named(m, n)) /\ Named(m, n) \subseteq m
<1>1. Named(m, n) \in SUBSET m
  BY DEF Named
<1>2. IsFiniteSet(Named(m, n))
  BY <1>1, FS_Subset DEF Aged
<1> QED
  BY <1>1, <1>2 DEF Aged

(* equal_range gives the entries of the name by age. *)
LEMMA EqualRangeIs ==
  ASSUME NEW m, Aged(m), NEW n
  PROVE  ByAge(EqualRange(m, n), Named(m, n))
<1> DEFINE S == Named(m, n)
           A == {e.seq : e \in S}
           a == Ascending(A)
           s == EqualRange(m, n)
<1>1. Aged(S)
  BY NamedAged
<1>2. A \in SUBSET Nat /\ IsFiniteSet(A)
  <2> HIDE DEF S
  <2> QED
    BY <1>1, AgesAre
<1>3. Sorts(a, A)
  <2> HIDE DEF A
  <2> QED
    BY <1>2, AscendingIs
<1>4. s = [k \in DOMAIN a |-> CHOOSE e \in S : e.seq = a[k]]
  BY DEF EqualRange
<1> HIDE DEF a, s, S
<1>5. a \in Seq(A) /\ DOMAIN a = 1 .. Len(a) /\ Len(a) \in Nat
  BY <1>3 DEF Sorts
<1>6. \A k \in 1 .. Len(a) : s[k] \in S /\ s[k].seq = a[k]
  <2> TAKE k \in 1 .. Len(a)
  <2>1. a[k] \in A
    BY <1>5
  <2>2. \E e \in S : e.seq = a[k]
    BY <2>1
  <2>3. s[k] = CHOOSE e \in S : e.seq = a[k]
    BY <1>4, <1>5
  <2> QED
    BY <2>2, <2>3
<1>7. s \in Seq(S) /\ Len(s) = Len(a)
  <2>1. s \in [1 .. Len(a) -> S]
    BY <1>4, <1>5, <1>6
  <2> QED
    BY <2>1, <1>5
<1>8. \A i, j \in 1 .. Len(s) : i < j => s[i].seq < s[j].seq
  BY <1>3, <1>6, <1>7 DEF Sorts
<1>9. \A e \in S : \E i \in 1 .. Len(s) : s[i] = e
  <2> TAKE e \in S
  <2>1. e.seq \in A
    OBVIOUS
  <2>2. PICK i \in 1 .. Len(a) : a[i] = e.seq
    BY <1>3, <2>1 DEF Sorts
  <2>3. s[i] = e
    BY <1>1, <1>6, <2>2 DEF Aged
  <2> QED
    BY <1>7, <2>3
<1> QED
  BY <1>7, <1>8, <1>9 DEF ByAge, s, S

LEMMA EqualRangeOnly ==
  ASSUME NEW m, NEW n, Aged(Named(m, n)), NEW s, ByAge(s, Named(m, n))
  PROVE  EqualRange(m, n) = s
<1> DEFINE S == Named(m, n)
           A == {e.seq : e \in S}
           a == [k \in 1 .. Len(s) |-> s[k].seq]
<1>1. /\ s \in Seq(S) /\ Len(s) \in Nat /\ s \in [1 .. Len(s) -> S]
      /\ \A i, j \in 1 .. Len(s) : i < j => s[i].seq < s[j].seq
      /\ \A e \in S : \E i \in 1 .. Len(s) : s[i] = e
  BY DEF ByAge
<1>2. A \in SUBSET Nat
  BY DEF Aged
<1>3. EqualRange(m, n) = [k \in DOMAIN Ascending(A) |-> CHOOSE e \in S : e.seq = Ascending(A)[k]]
  BY DEF EqualRange
<1> HIDE DEF S
<1>4. a \in Seq(A) /\ Len(a) = Len(s)
  <2>1. a \in [1 .. Len(s) -> A]
    BY <1>1
  <2> HIDE DEF a, A
  <2>2. a \in Seq(A)
    BY <1>1, <2>1
  <2>3. DOMAIN a = 1 .. Len(s)
    BY <2>1
  <2> QED
    BY <1>1, <2>2, <2>3
<1>5. Sorts(a, A)
  <2>1. \A i, j \in 1 .. Len(a) : i < j => a[i] < a[j]
    BY <1>1, <1>4
  <2>2. \A x \in A : \E i \in 1 .. Len(a) : a[i] = x
    <3> TAKE x \in A
    <3>1. PICK e \in S : e.seq = x
      OBVIOUS
    <3>2. PICK i \in 1 .. Len(s) : s[i] = e
      BY <1>1
    <3> QED
      BY <1>4, <3>1, <3>2
  <2> HIDE DEF a, A
  <2> QED
    BY <1>4, <2>1, <2>2 DEF Sorts
<1>6. Ascending(A) = a
  <2> HIDE DEF a, A
  <2> QED
    BY <1>2, <1>5, AscendingOnly
<1>7. \A k \in 1 .. Len(s) : (CHOOSE e \in S : e.seq = a[k]) = s[k]
  <2> TAKE k \in 1 .. Len(s)
  <2>1. s[k] \in S /\ s[k].seq = a[k]
    BY <1>1
  <2>2. \A e \in S : e.seq = a[k] => e = s[k]
    BY <2>1 DEF Aged, S
  <2> QED
    BY <2>1, <2>2
<1>8. DOMAIN a = 1 .. Len(s)
  OBVIOUS
<1> HIDE DEF a, A
<1>9. EqualRange(m, n) = [k \in 1 .. Len(s) |-> s[k]]
  BY <1>3, <1>6, <1>7, <1>8
<1>10. s = [k \in 1 .. Len(s) |-> s[k]]
  BY <1>1
<1> QED
  BY <1>9, <1>10

-----------------------------------------------------------------------------
(***************************************************************************)
(* The loop of GetVariable: what it holds after k turns.  FoldLeft is a    *)
(* recursive function on the sets of indices, of which the loop uses the   *)
(* intervals; that there is such a function is proved by adding one index  *)
(* at a time.                                                              *)
(***************************************************************************)
LEMMA MaxIs ==
  ASSUME NEW k \in Nat, NEW t \in SUBSET (1 .. k), k \in t
  PROVE  Max(t) = k
<1>1. \A y \in t : k >= y
  OBVIOUS
<1>2. \A x \in t : (\A y \in t : x >= y) => x = k
  <2> TAKE x \in t
  <2>1. x \in Nat /\ x <= k
    OBVIOUS
  <2> QED
    BY <2>1
<1> QED
  BY <1>1, <1>2 DEF Max

Turns(F, s, N, args, call) ==
  F = [t \in SUBSET (1 .. N) |->
         IF t = {} THEN NotFound(call) ELSE Examine(F[t \ {Max(t)}], s[Max(t)], args, call)]

LEMMA FoldExists ==
  ASSUME NEW s, NEW N \in Nat, NEW args, NEW call
  PROVE  \E F : Turns(F, s, N, args, call)
<1> DEFINE K == {k \in Nat : \E F : Turns(F, s, k, args, call)}
<1>1. 0 \in K
  <2> DEFINE F == [t \in SUBSET (1 .. 0) |-> NotFound(call)]
  <2>1. \A t \in SUBSET (1 .. 0) : t = {}
    OBVIOUS
  <2>2. Turns(F, s, 0, args, call)
    BY <2>1 DEF Turns
  <2> QED
    BY <2>2
<1>2. ASSUME NEW k \in Nat, k \in K
      PROVE  k + 1 \in K
  <2> PICK F : Turns(F, s, k, args, call)
    BY <1>2
  <2> DEFINE G == [t \in SUBSET (1 .. k + 1) |->
                     IF k + 1 \in t THEN Examine(F[t \ {k + 1}], s[k + 1], args, call) ELSE F[t]]
  <2>1. \A t \in SUBSET (1 .. k + 1) : t \ {k + 1} \in SUBSET (1 .. k)
    BY <1>2
  <2>2. \A t \in SUBSET (1 .. k) : t \in SUBSET (1 .. k + 1) /\ k + 1 \notin t /\ G[t] = F[t]
    BY <1>2
  <2>3. ASSUME NEW t \in SUBSET (1 .. k + 1)
        PROVE  G[t] = IF t = {} THEN NotFound(call)
                      ELSE Examine(G[t \ {Max(t)}], s[Max(t)], args, call)
    <3>1. CASE k + 1 \in t
      <4>1. Max(t) = k + 1
        BY <1>2, <3>1, MaxIs
      <4>2. G[t] = Examine(F[t \ {k + 1}], s[k + 1], args, call)
        BY <3>1
      <4>3. G[t \ {k + 1}] = F[t \ {k + 1}]
        BY <2>1, <2>2
      <4> HIDE DEF G
      <4> QED
        BY <3>1, <4>1, <4>2, <4>3
    <3>2. CASE k + 1 \notin t
      <4>1. t \in SUBSET (1 .. k)
        BY <2>1, <3>2
      <4>2. G[t] = F[t]
        BY <2>2, <4>1
      <4>3. F[t] = IF t = {} THEN NotFound(call)
                   ELSE Examine(F[t \ {Max(t)}], s[Max(t)], args, call)
        BY <4>1 DEF Turns
      <4>4. t \ {Max(t)} \in SUBSET (1 .. k)
        BY <4>1
      <4>5. G[t \ {Max(t)}] = F[t \ {Max(t)}]
        BY <2>2, <4>4
      <4> HIDE DEF G
      <4> QED
        BY <4>2, <4>3, <4>5
    <3> QED
      BY <3>1, <3>2
  <2>4. G = [t \in SUBSET (1 .. k + 1) |-> G[t]]
    OBVIOUS
  <2> HIDE DEF G
  <2>5. Turns(G, s, k + 1, args, call)
    BY <2>3, <2>4 DEF Turns
  <2> QED
    BY <1>2, <2>5
<1> HIDE DEF K
<1>3. \A k \in Nat : k \in K
  BY <1>1, <1>2, Induction
<1> QED
  BY <1>3 DEF K

LEMMA LoopIs ==
  ASSUME NEW m, NEW n, NEW args, NEW call,
         NEW N \in Nat, DOMAIN EqualRange(m, n) = 1 .. N
  PROVE  \E h : /\ h[0] = NotFound(call)
                /\ \A k \in 1 .. N : h[k] = Examine(h[k - 1], EqualRange(m, n)[k], args, call)
                /\ h[N] = GetVariable(m, n, args, call)
<1> DEFINE s == EqualRange(m, n)
           iter == CHOOSE F : Turns(F, s, N, args, call)
<1>1. GetVariable(m, n, args, call) = iter[1 .. N]
  BY DEF GetVariable, FoldLeft, MapThenFoldSet, Turns
<1> HIDE DEF s
<1>3. Turns(iter, s, N, args, call)
  BY FoldExists
<1> HIDE DEF iter
<1>4. \A t \in SUBSET (1 .. N) :
        iter[t] = IF t = {} THEN NotFound(call)
                  ELSE Examine(iter[t \ {Max(t)}], s[Max(t)], args, call)
  BY <1>3 DEF Turns
<1> DEFINE h == [k \in 0 .. N |-> iter[1 .. k]]
<1>5. \A k \in 0 .. N : 1 .. k \in SUBSET (1 .. N)
  OBVIOUS
<1>6. h[0] = NotFound(call)
  <2>1. 1 .. 0 = {}
    OBVIOUS
  <2>2. iter[1 .. 0] = NotFound(call)
    BY <1>4, <2>1
  <2> QED
    BY <2>2
<1>7. \A k \in 1 .. N : h[k] = Examine(h[k - 1], s[k], args, call)
  <2> SUFFICES ASSUME NEW k \in 1 .. N
               PROVE  h[k] = Examine(h[k - 1], s[k], args, call)
    OBVIOUS
  <2> DEFINE t == 1 .. k
  <2>0. k \in Nat /\ 1 <= k /\ k <= N
    OBVIOUS
  <2>9. t \in SUBSET (1 .. N) /\ t \in SUBSET (1 .. k)
    BY <2>0
  <2>8. k \in t
    BY <2>0
  <2>1. k \in Nat /\ t \in SUBSET (1 .. k) /\ k \in t /\ t # {} /\ t \in SUBSET (1 .. N)
    BY <2>0, <2>8, <2>9
  <2>2. t \ {k} = 1 .. k - 1
    OBVIOUS
  <2>3. h[k] = iter[t] /\ h[k - 1] = iter[1 .. k - 1]
    OBVIOUS
  <2>4. Max(t) = k
    BY <2>1, MaxIs
  <2> HIDE DEF t, h
  <2>5. iter[t] = Examine(iter[t \ {Max(t)}], s[Max(t)], args, call)
    BY <1>4, <2>1
  <2> QED
    BY <2>2, <2>3, <2>4, <2>5
<1>8. h[N] = GetVariable(m, n, args, call)
  BY <1>1
<1> HIDE DEF h
<1> QED
  BY <1>6, <1>7, <1>8 DEF s

(* What GetVariable answers is the type of an entry of the name, or none,  *)
(* which it does not call OK.                                              *)
LEMMA FoundIs ==
  ASSUME NEW m, Aged(m), NEW n, NEW args, NEW call
  PROVE  /\ GetVariable(m, n, args, call).flag \in 0 .. 15
         /\ GetVariable(m, n, args, call).type \in {EMPTY_TYPE} \union {e.type : e \in Named(m, n)}
         /\ GetVariable(m, n, args, call).flag = OK =>
              GetVariable(m, n, args, call).type \in {e.type : e \in Named(m, n)}
<1> DEFINE s == EqualRange(m, n)
           N == Len(s)
           P == {e.type : e \in Named(m, n)}
           T == {EMPTY_TYPE} \union P
<1>1. N \in Nat /\ DOMAIN s = 1 .. N /\ \A k \in 1 .. N : s[k] \in Named(m, n)
  BY EqualRangeIs DEF ByAge
<1> HIDE DEF s, N
<1>2. PICK h : /\ h[0] = NotFound(call)
               /\ \A k \in 1 .. N : h[k] = Examine(h[k - 1], s[k], args, call)
               /\ h[N] = GetVariable(m, n, args, call)
  BY <1>1, LoopIs DEF s
<1> DEFINE L == {e.level : e \in Named(m, n)} \union {-1}
           R == [flag : 0 .. 15, type : T, level : L]
           Q == {r \in R : r.flag = OK => r.type \in P}
           K == {k \in Nat : k \in 0 .. N => h[k] \in Q}
<1>3. 0 \in K
  BY <1>2 DEF NotFound, FUNCTION_NOT_FOUND, VARIABLE_NOT_FOUND, OK
<1>4. ASSUME NEW k \in Nat, k \in K
      PROVE  k + 1 \in K
  <2> SUFFICES ASSUME k + 1 \in 0 .. N
               PROVE  h[k + 1] \in Q
    OBVIOUS
  <2>1. k \in 0 .. N /\ k + 1 \in 1 .. N /\ (k + 1) - 1 = k
    BY <1>1
  <2>2. h[k] \in Q /\ h[k] \in R
    BY <1>4, <2>1
  <2>3. s[k + 1].type \in P /\ s[k + 1].type \in T /\ s[k + 1].level \in L
    BY <1>1, <2>1
  <2>4. h[k + 1] = Examine(h[k], s[k + 1], args, call)
    BY <1>2, <2>1
  <2> HIDE DEF T, L, P
  <2>5. [flag |-> OK, type |-> s[k + 1].type, level |-> s[k + 1].level] \in Q
    BY <2>3 DEF OK
  <2>6. [h[k] EXCEPT !.flag = APPLY_FUNCTION_ON_VARIABLE] \in Q
    BY <2>2 DEF APPLY_FUNCTION_ON_VARIABLE, OK
  <2>7. [h[k] EXCEPT !.flag = MISMATCH_FUNCTION_ARGUMENTS, !.type = s[k + 1].type] \in Q
    <3>1. [h[k] EXCEPT !.flag = MISMATCH_FUNCTION_ARGUMENTS] \in R
      BY <2>2 DEF MISMATCH_FUNCTION_ARGUMENTS
    <3>2. \A r \in R : [r EXCEPT !.type = s[k + 1].type] \in R /\ [r EXCEPT !.type = s[k + 1].type].flag = r.flag
      BY <2>3
    <3>3. [h[k] EXCEPT !.flag = MISMATCH_FUNCTION_ARGUMENTS].flag # OK
      BY <2>2 DEF MISMATCH_FUNCTION_ARGUMENTS, OK
    <3> HIDE DEF R
    <3> QED
      BY <3>1, <3>2, <3>3
  <2> HIDE DEF R, Q
  <2> QED
    BY <2>2, <2>4, <2>5, <2>6, <2>7 DEF Examine, APPLY_FUNCTION_ON_VARIABLE, MISMATCH_FUNCTION_ARGUMENTS
<1> HIDE DEF K
<1>5. \A k \in Nat : k \in K
  BY <1>3, <1>4, Induction
<1>6. h[N] \in Q
  BY <1>1, <1>5 DEF K
<1> HIDE DEF T, P
<1>7. h[N].flag \in 0 .. 15 /\ h[N].type \in T /\ (h[N].flag = OK => h[N].type \in P)
  BY <1>6
<1> QED
  BY <1>2, <1>7 DEF T, P

(* The entries of a name that GetStructure chooses from. *)
Deepest(m, n) == {e \in Named(m, n) : \A f \in Named(m, n) : f.level <= e.level}

LEMMA GetStructureIs ==
  ASSUME NEW m, Aged(m), \A e \in m : e.level \in Nat, NEW n
  PROVE  /\ Named(m, n) = {} => /\ GetStructure(m, n).flag = STRUCTURE_NOT_FOUND
                                /\ GetStructure(m, n).type = EMPTY_TYPE
         /\ Named(m, n) # {} => /\ GetStructure(m, n).flag = OK
                                /\ First(Deepest(m, n)) \in Deepest(m, n)
                                /\ GetStructure(m, n).type = First(Deepest(m, n)).type
<1> DEFINE S == Named(m, n)
           L == {e.level : e \in S}
<1>1. S \subseteq m /\ Aged(S)
  BY NamedAged
<1> HIDE DEF S
<1>2. L \in SUBSET Nat
  BY <1>1
<1>3. IsFiniteSet(L)
  <2> DEFINE f == [e \in S |-> e.level]
  <2>1. f \in [S -> L] /\ \A a \in L : \E e \in S : f[e] = a
    OBVIOUS
  <2> HIDE DEF f, L
  <2>2. f \in Surjection(S, L)
    BY <2>1, Fun_IsSurj
  <2> QED
    BY <1>1, <2>2, FS_Surjection DEF Aged
<1>4. S # {} => Deepest(m, n) # {}
  <2> SUFFICES ASSUME S # {} PROVE Deepest(m, n) # {}
    OBVIOUS
  <2>1. L # {}
    OBVIOUS
  <2>2. \E a \in L : \A b \in L : b <= a
    <3> HIDE DEF L
    <3> QED
      BY <1>2, <1>3, <2>1, LargestIs
  <2>3. \E e \in S : \A f \in S : f.level <= e.level
    BY <2>2
  <2> QED
    BY <2>3 DEF Deepest, S
<1>5. Aged(Deepest(m, n))
  <2>1. Deepest(m, n) \in SUBSET S
    BY DEF Deepest, S
  <2> QED
    BY <1>1, <2>1, SomeAged
<1>6. S # {} => First(Deepest(m, n)) \in Deepest(m, n)
  BY <1>4, <1>5, FirstIs
<1>7. GetStructure(m, n) = IF S = {} THEN [flag |-> STRUCTURE_NOT_FOUND, type |-> EMPTY_TYPE]
                           ELSE [flag |-> OK, type |-> First(Deepest(m, n)).type]
  BY DEF GetStructure, Deepest, S
<1> QED
  BY <1>6, <1>7 DEF S

(* GetMemberType finds a member of that name. *)
LEMMA GetMemberTypeIs ==
  ASSUME NEW t, DOMAIN t.fields \in SUBSET Nat,
         NEW n, Members(t, n) # {}
  PROVE  \E i \in DOMAIN t.fields : GetMemberType(t, n) = t.fields[i].type /\ t.fields[i].name = n
<1>1. Members(t, n) \in SUBSET Nat
  BY DEF Members
<1>2. \E i \in Members(t, n) : \A j \in Members(t, n) : i <= j
  BY <1>1, SmallestIs
<1> QED
  BY <1>2 DEF GetMemberType, Members

(* The codes that UpdateVariable prints: one for each entry that collides. *)
CodeOf(m, list, c, i) == GetLocalVariable(m \union Inserted(list, i - 1, c), list[i])

Colliding(m, list, c) == {i \in 1 .. Len(list) : CodeOf(m, list, c, i) # OK}

LEMMA RedefinitionsAre ==
  ASSUME NEW m, NEW S, NEW list \in Seq(S), NEW c
  PROVE  /\ IsFiniteSet(Colliding(m, list, c))
         /\ Cardinality(Colliding(m, list, c)) \in Nat
         /\ Redefinitions(m, list, c) \in Seq({VARIABLE_REDEFINED, FUNCTION_REDEFINED})
         /\ Len(Redefinitions(m, list, c)) = Cardinality(Colliding(m, list, c))
         /\ \A k \in 1 .. Cardinality(Colliding(m, list, c)) :
              \E i \in Colliding(m, list, c) : Redefinitions(m, list, c)[k] = CodeOf(m, list, c, i)
<1> DEFINE R == Colliding(m, list, c)
           s == Ascending(R)
           n == Cardinality(R)
           r == Redefinitions(m, list, c)
<1>0. 1 \in Int /\ Len(list) \in Int /\ DOMAIN list = 1 .. Len(list)
  OBVIOUS
<1>1. R \in SUBSET (1 .. Len(list)) /\ IsFiniteSet(1 .. Len(list))
  BY <1>0, FS_Interval DEF Colliding
<1>2. IsFiniteSet(R) /\ R \in SUBSET Nat
  BY <1>1, FS_Subset
<1>3. R = {i \in DOMAIN list : CodeOf(m, list, c, i) # OK}
  BY <1>0 DEF Colliding
<1>4. r = [k \in DOMAIN s |-> CodeOf(m, list, c, s[k])]
  BY <1>3 DEF Redefinitions, CodeOf
<1>5. \A i \in R : CodeOf(m, list, c, i) \in {VARIABLE_REDEFINED, FUNCTION_REDEFINED}
  BY DEF Colliding, CodeOf, GetLocalVariable
<1> HIDE DEF R, r
<1>6. Sorts(s, R) /\ Len(s) = n
  BY <1>2, AscendingIs
<1>7. n \in Nat
  BY <1>2, FS_CardinalityType
<1> HIDE DEF s, n
<1>8. s \in Seq(R) /\ DOMAIN s = 1 .. n
  BY <1>6 DEF Sorts
<1>9. \A k \in 1 .. n : s[k] \in R
  BY <1>6, <1>8
<1>10. \A k \in 1 .. n : r[k] = CodeOf(m, list, c, s[k])
  BY <1>4, <1>8
<1>11. r \in Seq({VARIABLE_REDEFINED, FUNCTION_REDEFINED}) /\ Len(r) = n
  <2>1. r \in [1 .. n -> {VARIABLE_REDEFINED, FUNCTION_REDEFINED}]
    BY <1>4, <1>5, <1>8, <1>9
  <2> QED
    BY <1>7, <2>1
<1> QED
  BY <1>2, <1>7, <1>9, <1>10, <1>11 DEF R, r, n

-----------------------------------------------------------------------------
(***************************************************************************)
(* A table: entries of E that were inserted by the time the clock is c.    *)
(***************************************************************************)
Stored(m, c, E) ==
  /\ m \in SUBSET E
  /\ IsFiniteSet(m)
  /\ \A e \in m : e.seq \in 1 .. c
  /\ \A e, f \in m : e.seq = f.seq => e = f

(* Its order: nothing is deeper than level g, and the younger, the deeper. *)
Layered(m, g) ==
  /\ \A e \in m : e.level <= g
  /\ \A e, f \in m : e.seq < f.seq => e.level <= f.level

LEMMA StoredAged ==
  ASSUME NEW m, NEW c \in Nat, NEW E, Stored(m, c, E)
  PROVE  Aged(m)
BY DEF Stored, Aged

(* Whatever PopScope leaves was there before. *)
LEMMA PopKeeps ==
  ASSUME NEW m, NEW c, NEW E, Stored(m, c, E), NEW level, NEW rest \in PopResults(m, level)
  PROVE  Stored(rest, c, E) /\ rest \subseteq m
<1>1. rest \in SUBSET m
  BY DEF PopResults, Erased, Of
<1>2. IsFiniteSet(rest)
  BY <1>1, FS_Subset DEF Stored
<1> QED
  BY <1>1, <1>2 DEF Stored

(* Unless it steps over a node, it leaves what it should. *)
LEMMA PopErases ==
  ASSUME "skip" \notin PopOutcomes, NEW m, NEW level, NEW rest \in PopResults(m, level)
  PROVE  rest = Erased(m, level)
BY DEF PopResults

LEMMA ErasedLayered ==
  ASSUME NEW m, NEW g \in Nat, Layered(m, g), \A e \in m : e.level \in Nat
  PROVE  Layered(Erased(m, g), g - 1)
<1>1. \A e \in Erased(m, g) : e \in m /\ e.level # g
  BY DEF Erased, Of
<1>2. \A e \in Erased(m, g) : e.level <= g - 1
  BY <1>1 DEF Layered
<1> QED
  BY <1>1, <1>2 DEF Layered

(* One entry, or a list of them, is inserted. *)
LEMMA OneStored ==
  ASSUME NEW m, NEW c \in Nat, NEW E, Stored(m, c, E), NEW e \in E, e.seq = c + 1
  PROVE  Stored(m \union {e}, c + 1, E)
<1>1. IsFiniteSet(m \union {e})
  BY FS_AddElement DEF Stored
<1>2. \A f \in m \union {e} : f.seq \in 1 .. c + 1
  BY DEF Stored
<1>3. \A f \in m : f.seq # c + 1
  BY DEF Stored
<1> QED
  BY <1>1, <1>2, <1>3 DEF Stored

LEMMA OneLayered ==
  ASSUME NEW m, NEW c \in Nat, NEW E, Stored(m, c, E), NEW e, e.seq = c + 1,
         Layered(m, e.level), e.level \in Nat
  PROVE  Layered(m \union {e}, e.level)
<1>1. \A f \in m : f.seq \in Nat /\ f.seq < c + 1
  BY DEF Stored
<1>2. ~ (e.seq < e.seq) /\ e.level <= e.level
  OBVIOUS
<1>3. \A f \in m : ~ (e.seq < f.seq)
  BY <1>1
<1> QED
  BY <1>1, <1>2, <1>3 DEF Layered

LEMMA InsertedIs ==
  ASSUME NEW E, \A e \in E, k \in Nat : [e EXCEPT !.seq = k] \in E /\ [e EXCEPT !.seq = k].seq = k,
         NEW list \in Seq(E), NEW c \in Nat, NEW n \in 0 .. Len(list)
  PROVE  /\ Inserted(list, n, c) \in SUBSET E
         /\ IsFiniteSet(Inserted(list, n, c))
         /\ \A e \in Inserted(list, n, c) : e.seq \in c + 1 .. c + n
         /\ \A e, f \in Inserted(list, n, c) : e.seq = f.seq => e = f
<1> DEFINE S == Inserted(list, n, c)
           f == [i \in 1 .. n |-> [list[i] EXCEPT !.seq = c + i]]
<1>1. \A i \in 1 .. n : f[i] \in E /\ f[i].seq = c + i
  <2> TAKE i \in 1 .. n
  <2>1. list[i] \in E /\ c + i \in Nat
    OBVIOUS
  <2> QED
    BY <2>1
<1>2. S = {f[i] : i \in 1 .. n}
  BY DEF Inserted
<1> HIDE DEF S, f
<1>3. S \in SUBSET E
  BY <1>1, <1>2
<1>4. \A e \in S : e.seq \in c + 1 .. c + n
  BY <1>1, <1>2
<1>5. \A e, g \in S : e.seq = g.seq => e = g
  <2> SUFFICES ASSUME NEW e \in S, NEW g \in S, e.seq = g.seq
               PROVE  e = g
    OBVIOUS
  <2>1. PICK i \in 1 .. n : e = f[i]
    BY <1>2
  <2>2. PICK j \in 1 .. n : g = f[j]
    BY <1>2
  <2>3. c + i = c + j
    BY <1>1, <2>1, <2>2
  <2>4. i = j
    BY <2>3
  <2> QED
    BY <2>1, <2>2, <2>4
<1>6. IsFiniteSet(S)
  <2>0. n \in Int /\ 1 \in Int
    OBVIOUS
  <2>1. IsFiniteSet(1 .. n)
    BY <2>0, FS_Interval
  <2>2. DOMAIN f = 1 .. n
    BY DEF f
  <2>3. f \in [1 .. n -> S]
    BY <1>2, <2>2 DEF f
  <2>4. f \in Surjection(1 .. n, S)
    BY <1>2, <2>3, Fun_IsSurj
  <2> QED
    BY <2>1, <2>4, FS_Surjection
<1> QED
  BY <1>3, <1>4, <1>5, <1>6 DEF S

LEMMA ListStored ==
  ASSUME NEW E, \A e \in E, k \in Nat : [e EXCEPT !.seq = k] \in E /\ [e EXCEPT !.seq = k].seq = k,
         NEW m, NEW c \in Nat, Stored(m, c, E), NEW list \in Seq(E)
  PROVE  Stored(UpdateVariable(m, list, c), c + Len(list), E)
<1> DEFINE S == Inserted(list, Len(list), c)
           N == Len(list)
<1>0. N \in Nat
  OBVIOUS
<1>1. /\ S \in SUBSET E /\ IsFiniteSet(S)
      /\ \A e \in S : e.seq \in c + 1 .. c + N
      /\ \A e, f \in S : e.seq = f.seq => e = f
  <2>1. N \in 0 .. Len(list)
    OBVIOUS
  <2> HIDE DEF N
  <2>2. /\ Inserted(list, N, c) \in SUBSET E /\ IsFiniteSet(Inserted(list, N, c))
        /\ \A e \in Inserted(list, N, c) : e.seq \in c + 1 .. c + N
        /\ \A e, f \in Inserted(list, N, c) : e.seq = f.seq => e = f
    BY <2>1, InsertedIs
  <2> QED
    BY <2>2 DEF N
<1> HIDE DEF S, N
<1>2. IsFiniteSet(m \union S)
  BY <1>1, FS_Union DEF Stored
<1>3. \A e \in m : e.seq \in 1 .. c + N /\ e.seq \notin c + 1 .. c + N
  BY <1>0 DEF Stored
<1>4. \A e \in S : e.seq \in 1 .. c + N
  BY <1>0, <1>1
<1>5. Stored(m \union S, c + N, E)
  BY <1>1, <1>2, <1>3, <1>4 DEF Stored
<1> QED
  BY <1>5 DEF UpdateVariable, S, N

LEMMA ListLayered ==
  ASSUME NEW E,
         \A e \in E, k \in Nat : /\ [e EXCEPT !.seq = k] \in E
                                 /\ [e EXCEPT !.seq = k].seq = k
                                 /\ [e EXCEPT !.seq = k].level = e.level,
         NEW m, NEW c \in Nat, Stored(m, c, E), NEW list \in Seq(E),
         NEW g \in Nat, Layered(m, g), \A i \in 1 .. Len(list) : list[i].level = g
  PROVE  Layered(UpdateVariable(m, list, c), g)
<1> DEFINE S == Inserted(list, Len(list), c)
<1>1. \A e \in S : e.seq \in Nat /\ e.seq > c /\ e.level = g
  <2> SUFFICES ASSUME NEW e \in S
               PROVE  e.seq \in Nat /\ e.seq > c /\ e.level = g
    OBVIOUS
  <2>1. PICK i \in 1 .. Len(list) : e = [list[i] EXCEPT !.seq = c + i]
    BY DEF Inserted
  <2>2. list[i] \in E /\ c + i \in Nat /\ c + i > c
    OBVIOUS
  <2>3. e.seq = c + i /\ e.level = list[i].level
    BY <2>1, <2>2
  <2> QED
    BY <2>2, <2>3
<1> HIDE DEF S
<1>2. \A e \in m : e.seq \in Nat /\ e.seq <= c /\ e.level <= g
  BY DEF Stored, Layered
<1>3. \A e \in S, f \in m : ~ (e.seq < f.seq)
  BY <1>1, <1>2
<1>4. \A e \in S : e.level <= g
  BY <1>1
<1>5. \A e, f \in m \union S : e.seq < f.seq => e.level <= f.level
  <2> SUFFICES ASSUME NEW e \in m \union S, NEW f \in m \union S, e.seq < f.seq
               PROVE  e.level <= f.level
    OBVIOUS
  <2>1. CASE f \in S
    BY <1>1, <1>2, <1>4, <2>1
  <2>2. CASE e \in m /\ f \in m
    BY <2>2 DEF Layered
  <2> QED
    BY <1>3, <2>1, <2>2
<1> QED
  BY <1>2, <1>4, <1>5 DEF Layered, UpdateVariable, S

-----------------------------------------------------------------------------
(* The inductive invariant. *)

(* What is made of types in U: members, entries and frames. *)
Member(U) == [name : Names, type : U]

Scalars(U) == {t \in U : t.kind # "ARRAY"}

(* U has the basic types, and the types that its types are made of. *)
MadeOf(U, t) ==
  \/ t = EMPTY_TYPE
  \/ t.kind = "PRIMITIVE" /\ t = CPrimitive(t.name)
  \/ t.kind = "ARRAY" /\ t = CArray(t.base) /\ t.base \in Scalars(U)
  \/ /\ t.kind = "STRUCTURE" /\ t = CStructure(t.name, t.fields)
     /\ t.name \in SNames /\ t.fields \in Seq(Member(U)) /\ Len(t.fields) <= MaxList

Closed(U) ==
  /\ EMPTY_TYPE \in U
  /\ \A t \in Prims : CPrimitive(t) \in U
  /\ \A params \in ParamLists : \A i \in DOMAIN params : params[i].type \in U
  /\ \A t \in U : MadeOf(U, t)

ArgLists == {[i \in DOMAIN params |-> params[i].type] : params \in ParamLists}

(* Variables are never at level 0, and functions nowhere else. *)
Local(U) ==
  [name : Names, type : U, args : {<< >>}, level : Nat \ {0}, func : {FALSE}, seq : Nat]

Function(U) ==
  [name : Names, type : Scalars(U), args : ArgLists, level : {0}, func : {TRUE}, seq : Nat]

Entry(U) == Local(U) \union Function(U)

Structure(U) ==
  {e \in [name : SNames, type : U, level : Nat, seq : Nat] :
     e.type.kind = "STRUCTURE" /\ e.type.name = e.name}

(* The types that a specifier gives. *)
Specified(U) == {t \in Scalars(U) : t.kind = "PRIMITIVE" => t.name \in Prims}

ScopeKinds == {"fun", "struct", "block", "while"}

FrameOK(U, f) ==
  /\ f.kind = "fun" => /\ f.name \in Names /\ f.type \in Specified(U)
                       /\ \E params \in ParamLists : f.list = Parameters(params, 1)
  /\ f.kind = "struct" => f.name \in SNames /\ f.list \in Seq(Member(U)) /\ Len(f.list) <= MaxList
  /\ f.kind = "def" => f.type \in Specified(U) /\ f.list \in Seq(Local(U))
  /\ f.kind = "dec" => f.name \in Names
  /\ f.late => f.kind \in {"fun", "block", "while"}

Frame(U) ==
  {f \in [kind : ScopeKinds \union {"def", "dec"}, name : Nat, type : U,
          list : Seq(Local(U)) \union Seq(Member(U)), late : BOOLEAN] : FrameOK(U, f)}

Operand(U) == [type : U, tag : {"literal", "assigned", "value"}]

Typed(U) ==
  /\ Closed(U)
  /\ clock \in Nat
  /\ Stored(var_map, clock, Entry(U))
  /\ Stored(structure_map, clock, Structure(U))
  /\ stack \in Seq(Frame(U))
  /\ vals \in Seq(Operand(U))
  /\ reply \in [codes : Seq(Nat), type : U]
  /\ status \in {"running", "done", "crashed"}

(* The open scopes, then a list of declarations, then one of them. *)
Shape ==
  /\ global_scope_level \in Nat
  /\ Depth \in global_scope_level .. global_scope_level + 2
  /\ \A i \in 1 .. global_scope_level : stack[i].kind \in ScopeKinds
  /\ \A i \in 2 .. Depth : stack[i].kind # "fun"
  /\ Depth > global_scope_level => stack[global_scope_level + 1].kind = "def"
  /\ Depth = global_scope_level + 2 => Top.kind = "dec" /\ global_scope_level > 0

(* The types that one specifier can declare. *)
OfSpecifier(t) == {t} \union {CArray(u) : u \in IF "array" \in Productions THEN {t} ELSE {}}

(* The members that the structure around a list of declarations has so far. *)
Before ==
  IF global_scope_level > 0 /\ stack[global_scope_level].kind = "struct"
  THEN Len(stack[global_scope_level].list) ELSE 0

PendingIs(f, begun, level, inserted, before) ==
  /\ \A i \in 1 .. Len(f.list) : /\ f.list[i].level = level
                                 /\ f.list[i].type \in OfSpecifier(f.type)
  /\ inserted + Len(f.list) + begun <= MaxInserts
  /\ before + Len(f.list) + begun <= MaxList

(* The declarations that are not in the table yet, and the one begun. *)
Pending ==
  /\ clock <= MaxInserts
  /\ Depth > global_scope_level =>
       PendingIs(stack[global_scope_level + 1], Depth - global_scope_level - 1,
                 global_scope_level, clock, Before)
  /\ Depth = global_scope_level + 2 => Top.type \in OfSpecifier(Under.type)

IInv == (\E U : Typed(U)) /\ Shape /\ Pending

-----------------------------------------------------------------------------
(* More types: what was made of fewer is still there. *)
LEMMA More ==
  ASSUME NEW U, NEW V, U \subseteq V
  PROVE  /\ Scalars(U) \subseteq Scalars(V)
         /\ Member(U) \subseteq Member(V)
         /\ Local(U) \subseteq Local(V)
         /\ Entry(U) \subseteq Entry(V)
         /\ Structure(U) \subseteq Structure(V)
         /\ Operand(U) \subseteq Operand(V)
         /\ \A t : MadeOf(U, t) => MadeOf(V, t)
<1>1. Scalars(U) \subseteq Scalars(V)
  BY DEF Scalars
<1>2. Member(U) \subseteq Member(V)
  BY DEF Member
<1>3. Local(U) \subseteq Local(V)
  BY DEF Local
<1>4. Function(U) \subseteq Function(V)
  BY <1>1 DEF Function
<1>5. Structure(U) \subseteq Structure(V)
  BY DEF Structure
<1>6. Operand(U) \subseteq Operand(V)
  BY DEF Operand
<1>7. Seq(Member(U)) \subseteq Seq(Member(V))
  BY <1>2, SeqMonotonic
<1>8. \A t : MadeOf(U, t) => MadeOf(V, t)
  BY <1>1, <1>7 DEF MadeOf
<1> QED
  BY <1>1, <1>2, <1>3, <1>4, <1>5, <1>6, <1>8 DEF Entry

LEMMA MoreFrames ==
  ASSUME NEW U, NEW V, U \subseteq V
  PROVE  Frame(U) \subseteq Frame(V)
<1>1. /\ Specified(U) \subseteq Specified(V)
      /\ Seq(Member(U)) \subseteq Seq(Member(V))
      /\ Seq(Local(U)) \subseteq Seq(Local(V))
  BY More, SeqMonotonic DEF Specified
<1>2. \A f : FrameOK(U, f) => FrameOK(V, f)
  BY <1>1 DEF FrameOK
<1> QED
  BY <1>1, <1>2 DEF Frame

LEMMA TypedMore ==
  ASSUME NEW U, Typed(U), NEW V, U \subseteq V, Closed(V)
  PROVE  Typed(V)
<1>1. Seq(Frame(U)) \subseteq Seq(Frame(V)) /\ Seq(Operand(U)) \subseteq Seq(Operand(V))
  BY More, MoreFrames, SeqMonotonic
<1>2. Stored(var_map, clock, Entry(V)) /\ Stored(structure_map, clock, Structure(V))
  BY More DEF Typed, Stored
<1>3. reply \in [codes : Seq(Nat), type : V]
  BY DEF Typed
<1> QED
  BY <1>1, <1>2, <1>3 DEF Typed

(* A type that is made of types of U can be added to them. *)
LEMMA AddType ==
  ASSUME NEW U, Closed(U), NEW t, MadeOf(U, t)
  PROVE  Closed(U \union {t})
<1> DEFINE V == U \union {t}
<1>1. \A u : MadeOf(U, u) => MadeOf(V, u)
  BY More
<1> QED
  BY <1>1 DEF Closed

-----------------------------------------------------------------------------
LEMMA KeepIs ==
  ASSUME NEW S, stack \in Seq(S), NEW n \in 0 .. Depth
  PROVE  /\ Keep(n) \in Seq(S) /\ Len(Keep(n)) = n
         /\ \A i \in 1 .. n : Keep(n)[i] = stack[i]
BY DEF Keep, Depth

LEMMA Appended ==
  ASSUME NEW S, NEW s \in Seq(S), NEW e
  PROVE  /\ Len(Append(s, e)) = Len(s) + 1 /\ Len(s) \in Nat
         /\ Append(s, e)[Len(s) + 1] = e
         /\ \A i \in 1 .. Len(s) : Append(s, e)[i] = s[i]
         /\ e \in S => Append(s, e) \in Seq(S)
OBVIOUS

(* The entries of U stay what they are when they are numbered. *)
LEMMA EntryNumbered ==
  ASSUME NEW U, NEW e \in Entry(U), NEW k \in Nat
  PROVE  LET f == [e EXCEPT !.seq = k]
         IN  /\ f \in Entry(U) /\ f.seq = k /\ f.level = e.level
             /\ f.name = e.name /\ f.type = e.type /\ f.args = e.args /\ f.func = e.func
<1> DEFINE f == [e EXCEPT !.seq = k]
<1>1. CASE e \in Local(U)
  BY <1>1 DEF Local, Entry
<1>2. CASE e \in Function(U)
  BY <1>2 DEF Function, Entry
<1> QED
  BY <1>1, <1>2 DEF Entry

LEMMA Numbering ==
  ASSUME NEW U
  PROVE  \A e \in Entry(U), k \in Nat :
           /\ [e EXCEPT !.seq = k] \in Entry(U) /\ [e EXCEPT !.seq = k].seq = k
           /\ [e EXCEPT !.seq = k].level = e.level /\ [e EXCEPT !.seq = k].name = e.name
           /\ [e EXCEPT !.seq = k].type = e.type /\ [e EXCEPT !.seq = k].args = e.args
           /\ [e EXCEPT !.seq = k].func = e.func
<1> TAKE e \in Entry(U), k \in Nat
<1> QED
  BY EntryNumbered

LEMMA EntriesAre ==
  ASSUME NEW U, NEW e \in Entry(U)
  PROVE  /\ e.name \in Names /\ e.type \in U /\ e.level \in Nat /\ e.seq \in Nat
         /\ e.func \in BOOLEAN /\ (e.func <=> e.level = 0)
         /\ e.func => e.args \in ArgLists /\ e.type \in Scalars(U)
         /\ ~ e.func => e.args = << >>
<1>1. CASE e \in Local(U)
  BY <1>1 DEF Local
<1>2. CASE e \in Function(U)
  <2>1. /\ e.name \in Names /\ e.type \in Scalars(U) /\ e.args \in ArgLists
        /\ e.level = 0 /\ e.func = TRUE /\ e.seq \in Nat
    BY <1>2 DEF Function
  <2>2. e.type \in U
    BY <2>1 DEF Scalars
  <2>3. e.func \in BOOLEAN /\ e.func
    BY <2>1
  <2>4. e.level \in Nat
    BY <2>1
  <2> QED
    BY <2>1, <2>2, <2>3, <2>4
<1> QED
  BY <1>1, <1>2 DEF Entry

(* The types of parameters. *)
OfParameter(t) == Primitive(t) \/ (t.kind = "ARRAY" /\ t = CArray(t.base) /\ Primitive(t.base))

LEMMA ParamsAre ==
  ASSUME NEW params \in ParamLists
  PROVE  /\ DOMAIN params = 1 .. Len(params) /\ Len(params) \in Nat
         /\ \A i \in DOMAIN params : OfParameter(params[i].type)
<1>1. PICK S : params \in Seq(S)
  BY ParamListsAssumption
<1>2. \A i \in DOMAIN params : OfParameter(params[i].type)
  BY ParamListsAssumption DEF OfParameter
<1> QED
  BY <1>1, <1>2

(* The types a program has without declaring one. *)
BasicTypes ==
  {CPrimitive(t) : t \in Prims}
  \union UNION {{params[i].type : i \in DOMAIN params} : params \in ParamLists}

BasicParts == BasicTypes \union {t.base : t \in {u \in BasicTypes : u.kind = "ARRAY"}}

LEMMA BasicAre ==
  \A t \in BasicParts :
    Primitive(t) \/ (t.kind = "ARRAY" /\ t = CArray(t.base) /\ t.base \in BasicParts /\ Primitive(t.base))
<1>1. \A t : Primitive(CPrimitive(t))
  BY DEF Primitive, CPrimitive
<1>2. \A t \in BasicTypes : OfParameter(t)
  BY <1>1, ParamsAre DEF BasicTypes, OfParameter
<1>3. \A t : Primitive(t) => t.kind # "ARRAY"
  BY DEF Primitive
<1> QED
  BY <1>2, <1>3 DEF BasicParts, OfParameter

LEMMA InitIInv == Init => IInv
<1> SUFFICES ASSUME Init PROVE IInv
  OBVIOUS
<1> DEFINE U == {EMPTY_TYPE} \union BasicParts
<1>1. \A t \in U : MadeOf(U, t)
  <2>1. \A t : Primitive(t) => t.kind = "PRIMITIVE" /\ t = CPrimitive(t.name)
    BY DEF Primitive
  <2>2. ASSUME NEW t \in BasicParts PROVE MadeOf(U, t)
    <3>1. CASE Primitive(t)
      BY <2>1, <3>1 DEF MadeOf
    <3>2. CASE ~ Primitive(t)
      <4>1. t.kind = "ARRAY" /\ t = CArray(t.base) /\ t.base \in BasicParts /\ t.base.kind = "PRIMITIVE"
        BY <2>1, <2>2, <3>2, BasicAre
      <4> QED
        BY <4>1 DEF MadeOf, Scalars
    <3> QED
      BY <3>1, <3>2
  <2> HIDE DEF U
  <2>3. MadeOf(U, EMPTY_TYPE)
    BY DEF MadeOf
  <2> QED
    BY <2>2, <2>3 DEF U
<1>4. (\A t \in Prims : CPrimitive(t) \in U)
      /\ \A params \in ParamLists : \A i \in DOMAIN params : params[i].type \in U
  BY DEF BasicParts, BasicTypes
<1>5. Closed(U)
  BY <1>1, <1>4 DEF Closed
<1>6. EMPTY_TYPE \in U
  OBVIOUS
<1> HIDE DEF U
<1>7. Typed(U)
  <2>1. \A E : Stored({}, 0, E)
    BY FS_EmptySet DEF Stored
  <2>2. reply \in [codes : Seq(Nat), type : U]
    BY <1>6 DEF Init, NoReply
  <2> QED
    BY <1>5, <2>1, <2>2 DEF Typed, Init
<1>8. Shape /\ Pending
  BY BoundsAssumption DEF Init, Shape, Pending, Depth
<1> QED
  BY <1>7, <1>8 DEF IInv

-----------------------------------------------------------------------------
(* What a handler answers. *)
LEMMA Replies ==
  ASSUME NEW U, EMPTY_TYPE \in U
  PROVE  /\ NoReply \in [codes : Seq(Nat), type : U]
         /\ \A code \in Nat : Report(code) \in [codes : Seq(Nat), type : U]
         /\ \A found : found.flag \in Nat /\ found.type \in U =>
                         Answer(found) \in [codes : Seq(Nat), type : U]
<1> DEFINE R == [codes : Seq(Nat), type : U]
<1>1. NoReply \in R
  BY DEF NoReply
<1>2. \A code \in Nat : (IF code = OK THEN << >> ELSE <<code>>) \in Seq(Nat)
  OBVIOUS
<1>3. \A codes \in Seq(Nat) : [NoReply EXCEPT !.codes = codes] \in R
  BY <1>1
<1>4. \A code \in Nat : Report(code) \in R
  BY <1>2, <1>3 DEF Report
<1>5. \A r \in R, t \in U : [r EXCEPT !.type = t] \in R
  OBVIOUS
<1> HIDE DEF R
<1>6. \A found : found.flag \in Nat /\ found.type \in U => Answer(found) \in R
  BY <1>4, <1>5 DEF Answer
<1> QED
  BY <1>1, <1>4, <1>6 DEF R

(* A step that changes neither the tables nor the open calls. *)
LEMMA Unmoved ==
  ASSUME Shape, Pending, UNCHANGED <<tables, stack>>
  PROVE  Shape' /\ Pending'
BY DEF Shape, Pending, PendingIs, Before, Depth, Top, Under, tables

LEMMA TypedUnmoved ==
  ASSUME NEW U, Typed(U), UNCHANGED <<tables, stack>>,
         vals' \in Seq(Operand(U)), reply' \in [codes : Seq(Nat), type : U],
         status' \in {"running", "done", "crashed"}
  PROVE  Typed(U)'
BY DEF Typed, tables

(* Types that are found in the tables or in another type. *)
LEMMA EntryTypes ==
  ASSUME NEW U, Typed(U)
  PROVE  /\ \A e \in var_map : e.type \in U
         /\ \A e \in structure_map : e.type \in Scalars(U) /\ e.level \in Nat
         /\ Aged(var_map) /\ Aged(structure_map)
<1>1. \A e \in Entry(U) : e.type \in U
  BY DEF Entry, Local, Function, Scalars
<1>2. \A e \in Structure(U) : e.type \in Scalars(U) /\ e.level \in Nat
  BY DEF Structure, Scalars
<1>3. Aged(var_map) /\ Aged(structure_map)
  BY StoredAged DEF Typed
<1> QED
  BY <1>1, <1>2, <1>3 DEF Typed, Stored

LEMMA VariableFound ==
  ASSUME NEW U, Typed(U), NEW n, NEW args, NEW call
  PROVE  LET found == GetVariable(var_map, n, args, call)
         IN  found.flag \in Nat /\ found.type \in U
<1> DEFINE found == GetVariable(var_map, n, args, call)
<1>1. found.flag \in 0 .. 15 /\ found.type \in {EMPTY_TYPE} \union {e.type : e \in Named(var_map, n)}
  BY EntryTypes, FoundIs
<1>2. \A e \in Named(var_map, n) : e.type \in U
  BY EntryTypes DEF Named
<1>3. EMPTY_TYPE \in U
  BY DEF Typed, Closed
<1> HIDE DEF found
<1>4. found.flag \in Nat
  BY <1>1
<1> QED
  BY <1>1, <1>2, <1>3, <1>4 DEF found

LEMMA StructureFound ==
  ASSUME NEW U, Typed(U), NEW s
  PROVE  LET found == GetStructure(structure_map, s)
         IN  found.flag \in Nat /\ found.type \in Specified(U)
<1> DEFINE found == GetStructure(structure_map, s)
<1>1. EMPTY_TYPE \in Specified(U)
  BY DEF Typed, Closed, Scalars, Specified, EMPTY_TYPE
<1>2. CASE Named(structure_map, s) = {}
  <2>1. found.flag = STRUCTURE_NOT_FOUND /\ found.type = EMPTY_TYPE
    BY <1>2, EntryTypes, GetStructureIs
  <2> QED
    BY <1>1, <2>1 DEF STRUCTURE_NOT_FOUND
<1>3. CASE Named(structure_map, s) # {}
  <2>1. /\ found.flag = OK
        /\ First(Deepest(structure_map, s)) \in Deepest(structure_map, s)
        /\ found.type = First(Deepest(structure_map, s)).type
    BY <1>3, EntryTypes, GetStructureIs
  <2>2. First(Deepest(structure_map, s)) \in structure_map
    BY <2>1 DEF Deepest, Named
  <2>3. found.type.kind = "STRUCTURE"
    BY <2>1, <2>2 DEF Typed, Stored, Structure
  <2>4. found.type \in Specified(U)
    BY <2>1, <2>2, <2>3, EntryTypes DEF Specified
  <2> QED
    BY <2>1, <2>4 DEF OK
<1> QED
  BY <1>2, <1>3

LEMMA PartTypes ==
  ASSUME NEW U, Closed(U), NEW t \in U
  PROVE  /\ t.kind = "ARRAY" => t.base \in Scalars(U)
         /\ t.kind = "STRUCTURE" =>
              \A n : Members(t, n) # {} => GetMemberType(t, n) \in U
<1>1. MadeOf(U, t)
  BY DEF Closed
<1>2. t.kind = "ARRAY" => t.base \in Scalars(U)
  BY <1>1 DEF MadeOf, EMPTY_TYPE
<1>3. ASSUME t.kind = "STRUCTURE", NEW n, Members(t, n) # {}
      PROVE  GetMemberType(t, n) \in U
  <2>1. t.fields \in Seq(Member(U))
    BY <1>1, <1>3 DEF MadeOf, EMPTY_TYPE
  <2>2. DOMAIN t.fields \in SUBSET Nat
    BY <2>1
  <2>3. PICK i \in DOMAIN t.fields : GetMemberType(t, n) = t.fields[i].type
    BY <1>3, <2>2, GetMemberTypeIs
  <2>4. t.fields[i] \in Member(U)
    BY <2>1
  <2> QED
    BY <2>3, <2>4 DEF Member
<1> QED
  BY <1>2, <1>3

LEMMA ValsAre ==
  ASSUME NEW U, vals \in Seq(Operand(U))
  PROVE  /\ NVals \in Nat
         /\ \A i \in 1 .. NVals : vals[i].type \in U /\ vals[i] \in Operand(U)
         /\ \A k \in 0 .. NVals : KeepVals(k) \in Seq(Operand(U))
<1>1. NVals \in Nat /\ \A i \in 1 .. NVals : vals[i] \in Operand(U)
  BY DEF NVals
<1>2. \A v \in Operand(U) : v.type \in U
  BY DEF Operand
<1>3. \A k \in 0 .. NVals : KeepVals(k) \in Seq(Operand(U))
  BY DEF NVals, KeepVals
<1> QED
  BY <1>1, <1>2, <1>3

LEMMA ReturnsTyped ==
  ASSUME NEW U, vals \in Seq(Operand(U)), NEW t \in U, NEW k \in 0 .. NVals, Returns(k, t)
  PROVE  vals' \in Seq(Operand(U))
<1>1. Val(t, "value") \in Operand(U)
  BY DEF Val, Operand
<1>2. NVals - k \in 0 .. NVals
  BY ValsAre
<1>3. KeepVals(NVals - k) \in Seq(Operand(U))
  BY <1>2, ValsAre
<1> QED
  BY <1>1, <1>3 DEF Returns

LEMMA HaveIs ==
  ASSUME NEW U, vals \in Seq(Operand(U)), NEW n \in Nat, Have(n)
  PROVE  n \in 0 .. NVals
BY ValsAre DEF Have

(* Expressions move nothing but their operands, whose types are known. *)
LEMMA ExpressionStep ==
  ASSUME NEW U, Typed(U),
         Expressions \/ ExpStmt \/ Return
  PROVE  Typed(U)' /\ UNCHANGED <<tables, stack>>
<1>1. /\ Closed(U) /\ EMPTY_TYPE \in U /\ vals \in Seq(Operand(U)) /\ NVals \in Nat
      /\ \A i \in 1 .. NVals : vals[i].type \in U
  BY ValsAre DEF Typed, Closed
<1>2. /\ NoReply \in [codes : Seq(Nat), type : U]
      /\ \A code \in Nat : Report(code) \in [codes : Seq(Nat), type : U]
      /\ \A found : found.flag \in Nat /\ found.type \in U =>
                         Answer(found) \in [codes : Seq(Nat), type : U]
  BY <1>1, Replies
<1>3. status \in {"running", "done", "crashed"}
  BY DEF Typed
<1> DEFINE Fine == /\ UNCHANGED <<tables, stack, status>>
                   /\ vals' \in Seq(Operand(U))
                   /\ reply' \in [codes : Seq(Nat), type : U]
<1> SUFFICES Fine
  BY <1>3, TypedUnmoved
<1>5. ASSUME Have(1) PROVE Last_val.type \in U /\ 1 \in 0 .. NVals
  <2>1. 1 \in 0 .. NVals
    BY <1>1, <1>5, HaveIs
  <2>2. NVals \in 1 .. NVals
    BY <1>1, <2>1
  <2> QED
    BY <1>1, <2>1, <2>2 DEF Last_val
<1>6. ASSUME NVals > 1 PROVE vals[NVals - 1].type \in U /\ Last_val.type \in U /\ 2 \in 0 .. NVals
  BY <1>1, <1>6 DEF Last_val
<1>7. ASSUME Have(2) PROVE NVals > 1
  <2>1. 2 \in 0 .. NVals
    BY <1>1, <1>7, HaveIs
  <2> QED
    BY <1>1, <2>1
<1>8. ASSUME NEW t \in Prims, Literal(t)
      PROVE  Fine
  <2>1. Val(CPrimitive(t), "literal") \in Operand(U)
    BY <1>1 DEF Closed, Val, Operand
  <2> QED
    BY <1>1, <1>2, <1>8, <2>1 DEF Literal
<1>9. ASSUME NEW n \in Names, Variable(n)
      PROVE  Fine
  <2> DEFINE found == GetVariable(var_map, n, << >>, FALSE)
  <2>1. found.flag \in Nat /\ found.type \in U
    BY VariableFound
  <2>2. /\ vals' = Append(vals, Val(found.type, "value"))
        /\ reply' = Answer(found)
        /\ UNCHANGED <<tables, stack, status>>
    BY <1>9 DEF Variable
  <2> HIDE DEF found
  <2>3. Val(found.type, "value") \in Operand(U)
    BY <2>1 DEF Val, Operand
  <2>4. vals' \in Seq(Operand(U))
    BY <1>1, <2>2, <2>3
  <2>5. reply' \in [codes : Seq(Nat), type : U]
    BY <1>2, <2>1, <2>2
  <2> QED
    BY <2>2, <2>4, <2>5
<1>10. ASSUME NEW n \in Names, Dot(n)
       PROVE  Fine
  <2> DEFINE type == Last_val.type
  <2>1. type \in U /\ 1 \in 0 .. NVals
    BY <1>5, <1>10 DEF Dot
  <2>2. UNCHANGED <<tables, stack, status>>
    BY <1>10 DEF Dot
  <2>3. CASE Returns(1, EMPTY_TYPE) /\ reply' = Report(ACCESSING_MEMBER_OF_NON_STRUCTURE_VAR)
    BY <1>1, <1>2, <2>1, <2>2, <2>3, ReturnsTyped DEF ACCESSING_MEMBER_OF_NON_STRUCTURE_VAR
  <2>4. CASE Returns(1, EMPTY_TYPE) /\ reply' = Report(STRUCTURE_NOT_FOUND)
    BY <1>1, <1>2, <2>1, <2>2, <2>4, ReturnsTyped DEF STRUCTURE_NOT_FOUND
  <2>5. CASE /\ type.kind = "STRUCTURE"
             /\ Members(type, n) # {}
             /\ Returns(1, GetMemberType(type, n))
             /\ reply' = NoReply
    <3> HIDE DEF type
    <3>1. GetMemberType(type, n) \in U
      BY <1>1, <2>1, <2>5, PartTypes
    <3> QED
      BY <1>1, <1>2, <2>1, <2>2, <2>5, <3>1, ReturnsTyped
  <2> QED
    BY <1>10, <2>3, <2>4, <2>5 DEF Dot
<1>11. ASSUME NEW n \in Names, NEW k \in 0 .. MaxVals, Call(n, k)
       PROVE  Fine
  <2> DEFINE found == GetVariable(var_map, n, Args(k), TRUE)
  <2>1. found.flag \in Nat /\ found.type \in U
    BY VariableFound
  <2>2. Returns(k, found.type) /\ reply' = Answer(found) /\ UNCHANGED <<tables, stack, status>> /\ Have(k)
    BY <1>11 DEF Call
  <2> HIDE DEF found
  <2>3. k \in 0 .. NVals
    BY <1>1, <2>2, HaveIs
  <2> QED
    BY <1>1, <1>2, <2>1, <2>2, <2>3, ReturnsTyped
<1>12. CASE Unary
  BY <1>1, <1>2, <1>5, <1>12, ReturnsTyped DEF Unary
<1>13. CASE Index
  <2> DEFINE type == vals[NVals - 1].type
  <2>1. type \in U /\ 2 \in 0 .. NVals
    BY <1>6, <1>7, <1>13 DEF Index
  <2>2. UNCHANGED <<tables, stack, status>>
    BY <1>13 DEF Index
  <2>3. CASE Returns(2, EMPTY_TYPE) /\ reply' = Report(APPLY_INDEXING_WITH_NON_INT)
    BY <1>1, <1>2, <2>1, <2>2, <2>3, ReturnsTyped DEF APPLY_INDEXING_WITH_NON_INT
  <2>4. CASE Returns(2, EMPTY_TYPE) /\ reply' = Report(APPLYING_INDEXING_FOR_NON_ARRAY)
    BY <1>1, <1>2, <2>1, <2>2, <2>4, ReturnsTyped DEF APPLYING_INDEXING_FOR_NON_ARRAY
  <2>5. CASE type.kind = "ARRAY" /\ Returns(2, type.base) /\ reply' = NoReply
    <3>1. type.base \in U
      BY <1>1, <2>1, <2>5, PartTypes DEF Scalars
    <3> QED
      BY <1>1, <1>2, <2>1, <2>2, <2>5, <3>1, ReturnsTyped
  <2> QED
    BY <1>13, <2>3, <2>4, <2>5 DEF Index
<1>14. CASE AssignLeft
  <2> DEFINE v == Val(IF Last_val.tag = "literal" THEN EMPTY_TYPE ELSE Last_val.type, "assigned")
  <2>1. v \in Operand(U)
    BY <1>1, <1>5, <1>14 DEF AssignLeft, Val, Operand
  <2>2. KeepVals(NVals - 1) \in Seq(Operand(U))
    <3>1. NVals - 1 \in 0 .. NVals
      BY <1>1, <1>5, <1>14 DEF AssignLeft
    <3> QED
      BY <1>1, <3>1, ValsAre
  <2>3. /\ vals' = Append(KeepVals(NVals - 1), v)
        /\ UNCHANGED <<tables, stack, status>>
        /\ reply' = Report(RVALUE_ON_THE_LEFT) \/ reply' = Report(OK)
    BY <1>14 DEF AssignLeft
  <2> HIDE DEF v
  <2>4. vals' \in Seq(Operand(U))
    BY <2>1, <2>2, <2>3
  <2>5. reply' \in [codes : Seq(Nat), type : U]
    BY <1>2, <2>3 DEF RVALUE_ON_THE_LEFT, OK
  <2> QED
    BY <2>3, <2>4, <2>5
<1>15. ASSUME NEW code \in Nat, Combine(code), NVals > 1
       PROVE  Fine
  <2> DEFINE t == IF check_type(vals[NVals - 1].type, Last_val.type)
                  THEN vals[NVals - 1].type ELSE EMPTY_TYPE
  <2>1. t \in U /\ 2 \in 0 .. NVals
    BY <1>1, <1>6, <1>15
  <2>2. /\ Returns(2, t)
        /\ UNCHANGED <<tables, stack, status>>
        /\ reply' = Report(OK) \/ reply' = Report(code)
    BY <1>15 DEF Combine
  <2> HIDE DEF t
  <2> QED
    BY <1>1, <1>2, <1>15, <2>1, <2>2, ReturnsTyped DEF OK
<1>16. CASE Assign
  BY <1>15, <1>16 DEF Assign, UNMATCHING_TYPE_ON_ASSIGN
<1>17. CASE Binary
  BY <1>7, <1>15, <1>17 DEF Binary, UNMATCHING_OPERANDS
<1>18. CASE ExpStmt
  BY <1>2, <1>18 DEF ExpStmt
<1>19. CASE Return
  <2>1. reply' = Report(OK) \/ reply' = Report(MISMATCH_RETURN_TYPE)
    BY <1>19 DEF Return
  <2> QED
    BY <1>2, <1>19, <2>1 DEF Return, OK, MISMATCH_RETURN_TYPE
<1> HIDE DEF Fine
<1> QED
  BY <1>8, <1>9, <1>10, <1>11, <1>12, <1>13, <1>14, <1>16, <1>17, <1>18, <1>19 DEF Expressions

-----------------------------------------------------------------------------
(* Where the innermost open call is, by its kind. *)
LEMMA Places ==
  ASSUME Shape
  PROVE  /\ Depth \in Nat /\ global_scope_level \in Nat /\ global_scope_level <= Depth
         /\ TopIs({"def"}) => Depth = global_scope_level + 1 /\ Top = stack[global_scope_level + 1]
         /\ TopIs({"dec"}) => /\ Depth = global_scope_level + 2
                              /\ Under = stack[global_scope_level + 1]
                              /\ Under.kind = "def"
         /\ \A kinds \in SUBSET ScopeKinds :
              TopIs(kinds) => Depth = global_scope_level /\ Depth > 0
<1>1. /\ Depth \in Nat /\ global_scope_level \in Nat /\ global_scope_level <= Depth
      /\ Depth <= global_scope_level + 2
  BY DEF Shape
<1>2. Depth = global_scope_level + 1 => Top.kind = "def" /\ Top = stack[global_scope_level + 1]
  BY <1>1 DEF Shape, Top
<1>3. Depth = global_scope_level + 2 => Top.kind = "dec" /\ Under = stack[global_scope_level + 1]
                                          /\ Under.kind = "def"
  <2>1. Depth = global_scope_level + 2 => Depth - 1 = global_scope_level + 1 /\ Depth > global_scope_level
    BY <1>1
  <2> QED
    BY <2>1 DEF Shape, Under
<1>4. Depth = global_scope_level /\ Depth > 0 => Top.kind \in ScopeKinds
  BY <1>1 DEF Shape, Top
<1>5. Depth \in {global_scope_level, global_scope_level + 1, global_scope_level + 2}
  BY <1>1
<1>6. TopIs({"def"}) => Depth = global_scope_level + 1
  BY <1>1, <1>3, <1>4, <1>5 DEF TopIs, ScopeKinds
<1>7. TopIs({"dec"}) => Depth = global_scope_level + 2
  BY <1>1, <1>2, <1>4, <1>5 DEF TopIs, ScopeKinds
<1>8. ASSUME NEW kinds \in SUBSET ScopeKinds, TopIs(kinds)
      PROVE  Depth = global_scope_level /\ Depth > 0
  BY <1>1, <1>2, <1>3, <1>5, <1>8 DEF TopIs, ScopeKinds
<1> QED
  BY <1>1, <1>2, <1>3, <1>6, <1>7, <1>8

LEMMA FramesAre ==
  ASSUME NEW U, Typed(U), Shape
  PROVE  /\ stack \in Seq(Frame(U)) /\ Depth = Len(stack)
         /\ \A i \in 1 .. Depth : stack[i] \in Frame(U)
         /\ \A n \in 0 .. Depth : /\ Keep(n) \in Seq(Frame(U)) /\ Len(Keep(n)) = n
                                  /\ \A i \in 1 .. n : Keep(n)[i] = stack[i]
         /\ AtDef => Depth = global_scope_level
         /\ AtStmt => Depth = global_scope_level /\ Depth > 0 /\ Top.kind \in {"fun", "block", "while"}
<1>1. stack \in Seq(Frame(U)) /\ Depth = Len(stack)
  BY DEF Typed, Depth
<1>2. \A i \in 1 .. Depth : stack[i] \in Frame(U)
  BY <1>1
<1>3. \A n \in 0 .. Depth : /\ Keep(n) \in Seq(Frame(U)) /\ Len(Keep(n)) = n
                            /\ \A i \in 1 .. n : Keep(n)[i] = stack[i]
  BY <1>1, KeepIs
<1>4. AtDef => Depth = global_scope_level
  <2>1. {"fun", "block", "struct"} \in SUBSET ScopeKinds
    BY DEF ScopeKinds
  <2> QED
    BY <2>1, Places DEF AtDef
<1>5. AtStmt => Depth = global_scope_level /\ Depth > 0 /\ Top.kind \in {"fun", "block", "while"}
  <2> SUFFICES ASSUME AtStmt
               PROVE  Depth = global_scope_level /\ Depth > 0 /\ Top.kind \in {"fun", "block", "while"}
    OBVIOUS
  <2>1. Depth > 0 /\ Top.late /\ Top \in Frame(U)
    BY <1>2, Places DEF AtStmt, Top
  <2>2. Top.kind \in {"fun", "block", "while"}
    BY <2>1 DEF Frame, FrameOK
  <2>3. {"fun", "block", "while"} \in SUBSET ScopeKinds /\ TopIs({"fun", "block", "while"})
    BY <2>1, <2>2 DEF ScopeKinds, TopIs
  <2> QED
    BY <2>2, <2>3, Places
<1> QED
  BY <1>1, <1>2, <1>3, <1>4, <1>5

(* New frames. *)
LEMMA NewFrames ==
  ASSUME NEW U, EMPTY_TYPE \in U
  PROVE  /\ \A t \in Specified(U) : MkFrame("def", 0, t, << >>, FALSE) \in Frame(U)
         /\ \A s \in SNames : MkFrame("struct", s, EMPTY_TYPE, << >>, FALSE) \in Frame(U)
         /\ \A n \in Names, t \in U : MkFrame("dec", n, t, << >>, FALSE) \in Frame(U)
         /\ MkFrame("block", 0, EMPTY_TYPE, << >>, FALSE) \in Frame(U)
         /\ MkFrame("while", 0, EMPTY_TYPE, << >>, TRUE) \in Frame(U)
<1> DEFINE R == [kind : ScopeKinds \union {"def", "dec"}, name : Nat, type : U,
                 list : Seq(Local(U)) \union Seq(Member(U)), late : BOOLEAN]
<1>1. << >> \in Seq(Local(U)) /\ << >> \in Seq(Member(U)) /\ Len(<< >>) = 0 /\ 0 <= MaxList
  BY BoundsAssumption
<1>2. Specified(U) \subseteq U
  BY DEF Specified, Scalars
<1>3. \A k \in ScopeKinds \union {"def", "dec"}, n \in Nat, t \in U, late \in BOOLEAN :
        MkFrame(k, n, t, << >>, late) \in R
  BY <1>1 DEF MkFrame
<1>5. \A t \in Specified(U) : FrameOK(U, MkFrame("def", 0, t, << >>, FALSE))
  BY <1>1 DEF FrameOK, MkFrame
<1>6. \A s \in SNames : FrameOK(U, MkFrame("struct", s, EMPTY_TYPE, << >>, FALSE))
  BY <1>1 DEF FrameOK, MkFrame
<1>7. \A n \in Names, t \in U : FrameOK(U, MkFrame("dec", n, t, << >>, FALSE))
  BY DEF FrameOK, MkFrame
<1>8. FrameOK(U, MkFrame("block", 0, EMPTY_TYPE, << >>, FALSE))
  BY DEF FrameOK, MkFrame
<1>9. FrameOK(U, MkFrame("while", 0, EMPTY_TYPE, << >>, TRUE))
  BY DEF FrameOK, MkFrame
<1>10. \A n : n \in Names \/ n \in SNames => n \in Nat
  BY NamesAssumption
<1>11. 0 \in Nat /\ TRUE \in BOOLEAN /\ FALSE \in BOOLEAN
       /\ {"def", "dec", "struct", "block", "while"} \subseteq ScopeKinds \union {"def", "dec"}
  BY DEF ScopeKinds
<1>12. \A f : f \in R /\ FrameOK(U, f) => f \in Frame(U)
  BY DEF Frame
<1> HIDE DEF R
<1> QED
  BY <1>2, <1>3, <1>5, <1>6, <1>7, <1>8, <1>9, <1>10, <1>11, <1>12

(* A step that changes the open calls and not the tables. *)
LEMMA TypedMoved ==
  ASSUME NEW U, Typed(U), UNCHANGED <<var_map, structure_map, clock, status>>,
         stack' \in Seq(Frame(U)), vals' \in Seq(Operand(U)),
         reply' \in [codes : Seq(Nat), type : U]
  PROVE  Typed(U)'
BY DEF Typed

-----------------------------------------------------------------------------
(* Steps after which only scopes are open. *)
LEMMA ScopesOnly ==
  ASSUME Shape, Depth' = global_scope_level', global_scope_level' \in Nat,
         global_scope_level' <= global_scope_level,
         \A i \in 1 .. Depth' : stack'[i].kind = stack[i].kind,
         clock' <= MaxInserts
  PROVE  Shape' /\ Pending'
<1> DEFINE g == global_scope_level'
<1>1. Depth' = g /\ g \in Nat /\ global_scope_level \in Nat /\ g <= global_scope_level
      /\ global_scope_level <= Depth /\ Depth \in Nat
  BY Places
<1>2. /\ \A i \in 1 .. global_scope_level : stack[i].kind \in ScopeKinds
      /\ \A i \in 2 .. Depth : stack[i].kind # "fun"
      /\ \A i \in 1 .. g : stack'[i].kind = stack[i].kind
  BY DEF Shape
<1> HIDE DEF g
<1>3. \A i \in 1 .. g : stack'[i].kind \in ScopeKinds
  BY <1>1, <1>2
<1>4. \A i \in 2 .. g : stack'[i].kind # "fun"
  BY <1>1, <1>2
<1>5. ~ (g > g) /\ g # g + 2 /\ g \in g .. g + 2
  BY <1>1
<1>6. Shape'
  BY <1>1, <1>3, <1>4, <1>5 DEF Shape, g
<1>7. Pending'
  BY <1>1, <1>5 DEF Pending, g
<1> QED
  BY <1>6, <1>7

(* A scope is opened. *)
LEMMA ScopePushed ==
  ASSUME NEW U, Typed(U), Shape, Pending, Depth = global_scope_level,
         NEW f, f.kind \in ScopeKinds \ {"fun"},
         stack' = Append(stack, f), global_scope_level' = global_scope_level + 1, clock' = clock
  PROVE  Shape' /\ Pending'
<1> DEFINE g == global_scope_level
<1>1. Depth' = g + 1 /\ g' = g + 1 /\ g \in Nat
  BY Appended DEF Depth, Typed, Shape
<1>2. stack'[g + 1] = f /\ \A i \in 1 .. g : stack'[i] = stack[i]
  BY Appended DEF Depth, Typed
<1>3. /\ \A i \in 1 .. g : stack[i].kind \in ScopeKinds
      /\ \A i \in 2 .. g : stack[i].kind # "fun"
      /\ clock <= MaxInserts
  BY DEF Shape, Pending
<1> HIDE DEF g
<1>4. \A i \in 1 .. g + 1 : i \in 1 .. g \/ i = g + 1
  BY <1>1
<1>5. \A i \in 2 .. g + 1 : i \in 2 .. g \/ i = g + 1
  BY <1>1
<1>6. \A i \in 1 .. g + 1 : stack'[i].kind \in ScopeKinds
  BY <1>2, <1>3, <1>4
<1>7. \A i \in 2 .. g + 1 : stack'[i].kind # "fun"
  <2> TAKE i \in 2 .. g + 1
  <2>1. CASE i \in 2 .. g
    <3>1. i \in 1 .. g
      BY <1>1, <2>1
    <3> QED
      BY <1>2, <1>3, <2>1, <3>1
  <2>2. CASE i = g + 1
    BY <1>2, <2>2
  <2> QED
    BY <1>5, <2>1, <2>2
<1>8. ~ (g + 1 > g + 1) /\ g + 1 # (g + 1) + 2 /\ g + 1 \in g + 1 .. (g + 1) + 2 /\ g + 1 \in Nat
  BY <1>1
<1>9. global_scope_level' = g + 1
  BY DEF g
<1>10. Shape'
  BY <1>1, <1>6, <1>7, <1>8, <1>9 DEF Shape
<1>11. Pending'
  BY <1>1, <1>3, <1>8, <1>9 DEF Pending
<1> QED
  BY <1>10, <1>11

(* A list of declarations begins, over the scopes that stay open. *)
LEMMA DefPushed ==
  ASSUME NEW U, Typed(U), Shape, NEW f, f.kind = "def", f.list = << >>,
         NEW s \in Seq(Frame(U)), Len(s) = global_scope_level',
         global_scope_level' <= global_scope_level,
         \A i \in 1 .. Len(s) : s[i] = stack[i],
         stack' = Append(s, f), clock' <= MaxInserts, clock' \in Nat
  PROVE  Shape' /\ Pending'
<1> DEFINE g == Len(s)
<1>1. /\ g \in Nat /\ global_scope_level' = g /\ Depth' = g + 1 /\ Top' = f
      /\ stack'[g + 1] = f /\ \A i \in 1 .. g : stack'[i] = s[i]
  BY Appended DEF Depth, Top
<1>2. /\ \A i \in 1 .. global_scope_level : stack[i].kind \in ScopeKinds
      /\ \A i \in 2 .. Depth : stack[i].kind # "fun"
      /\ global_scope_level \in Nat /\ Depth \in Nat /\ g <= global_scope_level
      /\ global_scope_level <= Depth
  BY Places DEF Shape
<1>3. \A i \in 1 .. g : s[i] = stack[i] /\ s[i] \in Frame(U)
  OBVIOUS
<1> HIDE DEF g
<1>4. \A i \in 1 .. g : stack'[i].kind \in ScopeKinds
  BY <1>1, <1>2, <1>3
<1>5. \A i \in 2 .. g + 1 : stack'[i].kind # "fun"
  <2>1. \A i \in 2 .. g + 1 : i = g + 1 \/ (i \in 1 .. g /\ i \in 2 .. Depth)
    BY <1>1, <1>2
  <2> QED
    BY <1>1, <1>2, <1>3, <2>1
<1>6. g + 1 \in g .. g + 2 /\ g + 1 # g + 2 /\ g + 1 > g /\ (g + 1) - g - 1 = 0
  BY <1>1
<1>7. Shape'
  BY <1>1, <1>4, <1>5, <1>6 DEF Shape
<1>8. Before' \in Nat /\ Before' <= MaxList
  <2>1. CASE g > 0 /\ stack'[g].kind = "struct"
    <3>1. stack'[g] \in Frame(U)
      BY <1>1, <1>3, <2>1
    <3>2. stack'[g].list \in Seq(Member(U)) /\ Len(stack'[g].list) <= MaxList
      BY <2>1, <3>1 DEF Frame, FrameOK
    <3>3. Before' = Len(stack'[g].list)
      BY <1>1, <2>1 DEF Before
    <3>4. Len(stack'[g].list) \in Nat
      BY <3>2, LenProperties
    <3> QED
      BY <3>2, <3>3, <3>4
  <2>2. CASE ~ (g > 0 /\ stack'[g].kind = "struct")
    <3>1. Before' = 0
      BY <1>1, <2>2 DEF Before
    <3> QED
      BY <3>1, BoundsAssumption
  <2> QED
    BY <2>1, <2>2
<1>9. PendingIs(f, 0, global_scope_level', clock', Before')
  BY <1>8 DEF PendingIs
<1>10. Pending'
  BY <1>1, <1>6, <1>9 DEF Pending
<1> QED
  BY <1>7, <1>10

-----------------------------------------------------------------------------
(* The invariant step by step: specifiers, and scopes that open. *)
LEMMA SpecifierStep ==
  ASSUME NEW U, Typed(U), Shape, Pending,
         \/ \E t \in Prims : TypeSpecifier(t)
         \/ \E s \in SNames : StructUse(s)
  PROVE  IInv'
<1>1. Closed(U) /\ EMPTY_TYPE \in U /\ vals \in Seq(Operand(U)) /\ clock \in Nat
  BY DEF Typed, Closed
<1>2. ASSUME NEW t \in Specified(U), AtDef,
             stack' = Append(stack, MkFrame("def", 0, t, << >>, FALSE)),
             reply' \in [codes : Seq(Nat), type : U],
             UNCHANGED <<tables, vals, status>>
      PROVE  IInv'
  <2> DEFINE f == MkFrame("def", 0, t, << >>, FALSE)
  <2>1. f \in Frame(U) /\ f.kind = "def" /\ f.list = << >>
    BY <1>1, <1>2, NewFrames DEF MkFrame
  <2> HIDE DEF f
  <2>2. stack \in Seq(Frame(U)) /\ Len(stack) = global_scope_level
    BY <1>2, FramesAre
  <2>3. stack' = Append(stack, f)
    BY <1>2 DEF f
  <2>4. stack' \in Seq(Frame(U))
    BY <2>1, <2>2, <2>3
  <2>5. Typed(U)'
    BY <1>1, <1>2, <2>4, TypedMoved DEF tables
  <2>6. Shape' /\ Pending'
    <3>1. global_scope_level' = global_scope_level /\ clock' = clock /\ clock <= MaxInserts
          /\ global_scope_level \in Nat
      BY <1>2, Places DEF tables, Pending
    <3>2. global_scope_level' <= global_scope_level
      BY <3>1
    <3> QED
      BY <1>1, <2>1, <2>2, <2>3, <3>1, <3>2, DefPushed
  <2> QED
    BY <2>5, <2>6 DEF IInv
<1>3. ASSUME NEW t \in Prims, TypeSpecifier(t)
      PROVE  IInv'
  <2>1. CPrimitive(t) \in Specified(U)
    BY <1>1 DEF Closed, Specified, Scalars, CPrimitive
  <2> QED
    BY <1>1, <1>2, <1>3, <2>1, Replies DEF TypeSpecifier, Push
<1>4. ASSUME NEW s \in SNames, StructUse(s)
      PROVE  IInv'
  <2> DEFINE found == GetStructure(structure_map, s)
  <2>1. found.flag \in Nat /\ found.type \in Specified(U)
    BY StructureFound
  <2>2. /\ AtDef
        /\ stack' = Append(stack, MkFrame("def", 0, found.type, << >>, FALSE))
        /\ reply' = Answer(found)
        /\ UNCHANGED <<tables, vals, status>>
    BY <1>4 DEF StructUse, Push
  <2> HIDE DEF found
  <2>3. reply' \in [codes : Seq(Nat), type : U]
    BY <1>1, <2>1, <2>2, Replies DEF Specified, Scalars
  <2> QED
    BY <1>2, <2>1, <2>2, <2>3
<1> QED
  BY <1>3, <1>4

LEMMA OpeningStep ==
  ASSUME NEW U, Typed(U), Shape, Pending,
         \/ \E s \in SNames : StructStart(s)
         \/ BlockStart
         \/ WhileStart
  PROVE  IInv'
<1>1. Closed(U) /\ EMPTY_TYPE \in U /\ vals \in Seq(Operand(U))
  BY DEF Typed, Closed
<1>2. ASSUME NEW f \in Frame(U), f.kind \in ScopeKinds \ {"fun"}, Depth = global_scope_level,
             stack' = Append(stack, f), PushScope, reply' = NoReply,
             UNCHANGED <<var_map, structure_map, clock, vals, status>>
      PROVE  IInv'
  <2>1. stack' \in Seq(Frame(U))
    BY <1>2, FramesAre
  <2>2. Typed(U)'
    BY <1>1, <1>2, <2>1, TypedMoved, Replies
  <2>3. Shape' /\ Pending'
    BY <1>2, ScopePushed DEF PushScope
  <2> QED
    BY <2>2, <2>3 DEF IInv
<1>3. ASSUME NEW s \in SNames, StructStart(s)
      PROVE  IInv'
  <2> DEFINE f == MkFrame("struct", s, EMPTY_TYPE, << >>, FALSE)
  <2>1. f \in Frame(U) /\ f.kind \in ScopeKinds \ {"fun"}
    BY <1>1, NewFrames DEF MkFrame, ScopeKinds
  <2> HIDE DEF f
  <2>2. Depth = global_scope_level
    BY <1>3, FramesAre DEF StructStart
  <2> QED
    BY <1>2, <1>3, <2>1, <2>2 DEF StructStart, Push, f
<1>4. CASE BlockStart
  <2> DEFINE f == MkFrame("block", 0, EMPTY_TYPE, << >>, FALSE)
  <2>1. f \in Frame(U) /\ f.kind \in ScopeKinds \ {"fun"}
    BY <1>1, NewFrames DEF MkFrame, ScopeKinds
  <2> HIDE DEF f
  <2>2. Depth = global_scope_level
    BY <1>4, FramesAre DEF BlockStart
  <2> QED
    BY <1>2, <1>4, <2>1, <2>2 DEF BlockStart, Push, f
<1>5. CASE WhileStart
  <2> DEFINE f == MkFrame("while", 0, EMPTY_TYPE, << >>, TRUE)
  <2>1. f \in Frame(U) /\ f.kind \in ScopeKinds \ {"fun"}
    BY <1>1, NewFrames DEF MkFrame, ScopeKinds
  <2> HIDE DEF f
  <2>2. Depth = global_scope_level
    BY <1>5, FramesAre DEF WhileStart
  <2> QED
    BY <1>2, <1>5, <2>1, <2>2 DEF WhileStart, Push, f
<1> QED
  BY <1>3, <1>4, <1>5

(* A step that ends with the scopes only, the innermost of which may be closed. *)
LEMMA TypedTables ==
  ASSUME NEW U, Typed(U), NEW c \in Nat, clock' = c,
         Stored(var_map', c, Entry(U)), Stored(structure_map', c, Structure(U)),
         stack' \in Seq(Frame(U)), vals' \in Seq(Operand(U)),
         reply' \in [codes : Seq(Nat), type : U], status' = status
  PROVE  Typed(U)'
BY DEF Typed

LEMMA DefListEndStep ==
  ASSUME NEW U, Typed(U), Shape, Pending, DefListEnd
  PROVE  IInv'
<1> DEFINE f == [Top EXCEPT !.late = TRUE]
<1>1. Closed(U) /\ EMPTY_TYPE \in U /\ vals \in Seq(Operand(U))
  BY DEF Typed, Closed
<1>2. /\ TopIs({"fun", "block"}) /\ stack' = Append(Keep(Depth - 1), f)
      /\ reply' = NoReply /\ UNCHANGED <<tables, vals, status>>
  BY DEF DefListEnd, Replace
<1>3. {"fun", "block"} \in SUBSET ScopeKinds
  BY DEF ScopeKinds
<1>4. Depth = global_scope_level /\ Depth > 0 /\ Depth \in Nat
  BY <1>2, <1>3, Places
<1>5. Top \in Frame(U) /\ Top.kind \in {"fun", "block"}
  BY <1>2, <1>4, FramesAre DEF Top, TopIs
<1>6. f \in Frame(U) /\ f.kind = Top.kind
  <2>1. /\ f.kind = Top.kind /\ f.name = Top.name /\ f.type = Top.type /\ f.list = Top.list
        /\ f \in [kind : ScopeKinds \union {"def", "dec"}, name : Nat, type : U,
                  list : Seq(Local(U)) \union Seq(Member(U)), late : BOOLEAN]
    BY <1>5 DEF Frame
  <2>2. FrameOK(U, f)
    BY <1>5, <2>1 DEF Frame, FrameOK
  <2> QED
    BY <2>1, <2>2 DEF Frame
<1> HIDE DEF f
<1>7. /\ Keep(Depth - 1) \in Seq(Frame(U)) /\ Len(Keep(Depth - 1)) = Depth - 1
      /\ \A i \in 1 .. Depth - 1 : Keep(Depth - 1)[i] = stack[i]
  BY <1>4, FramesAre
<1>8. stack' \in Seq(Frame(U)) /\ Len(stack') = Depth
  BY <1>2, <1>4, <1>6, <1>7
<1>9. \A i \in 1 .. Depth : stack'[i].kind = stack[i].kind
  <2>1. \A i \in 1 .. Depth - 1 : stack'[i] = stack[i]
    BY <1>2, <1>4, <1>7
  <2>2. stack'[Depth] = f
    BY <1>2, <1>4, <1>7
  <2>3. \A i \in 1 .. Depth : i \in 1 .. Depth - 1 \/ i = Depth
    BY <1>4
  <2> QED
    BY <1>6, <2>1, <2>2, <2>3 DEF Top
<1>10. Typed(U)'
  BY <1>1, <1>2, <1>8, TypedMoved, Replies DEF tables
<1>11. Shape' /\ Pending'
  <2>1. Depth' = Depth
    BY <1>8 DEF Depth
  <2>2. clock' <= MaxInserts /\ global_scope_level' = global_scope_level
    BY <1>2 DEF tables, Pending
  <2>3. global_scope_level' <= global_scope_level /\ global_scope_level' \in Nat
    BY <1>4, <2>2
  <2> QED
    BY <1>4, <1>9, <2>1, <2>2, <2>3, ScopesOnly
<1> QED
  BY <1>10, <1>11 DEF IInv

LEMMA ScopeEndStep ==
  ASSUME NEW U, Typed(U), Shape, Pending, ScopeEnd
  PROVE  IInv'
<1>1. Closed(U) /\ EMPTY_TYPE \in U /\ vals \in Seq(Operand(U)) /\ clock \in Nat
  BY DEF Typed, Closed
<1>2. /\ AtStmt /\ PopScope /\ stack' = Keep(Depth - 1) /\ reply' = NoReply
      /\ UNCHANGED <<clock, vals, status>>
  BY DEF ScopeEnd
<1>3. Depth = global_scope_level /\ Depth > 0 /\ Depth \in Nat
  BY <1>2, FramesAre, Places
<1>4. /\ stack' \in Seq(Frame(U)) /\ Len(stack') = Depth - 1
      /\ \A i \in 1 .. Depth - 1 : stack'[i] = stack[i]
  <2>1. Depth - 1 \in 0 .. Depth
    BY <1>3
  <2>2. /\ Keep(Depth - 1) \in Seq(Frame(U)) /\ Len(Keep(Depth - 1)) = Depth - 1
        /\ \A i \in 1 .. Depth - 1 : Keep(Depth - 1)[i] = stack[i]
    BY <2>1, FramesAre
  <2>3. stack' = Keep(Depth - 1)
    BY <1>2
  <2> QED
    BY <2>2, <2>3
<1>5. Stored(var_map', clock, Entry(U)) /\ Stored(structure_map', clock, Structure(U))
  BY <1>2, PopKeeps DEF PopScope, Typed
<1>6. Typed(U)'
  BY <1>1, <1>2, <1>4, <1>5, TypedTables, Replies
<1>7. Shape' /\ Pending'
  <2>1. Depth' = Depth - 1 /\ global_scope_level' = global_scope_level - 1
    BY <1>2, <1>4 DEF PopScope, Depth
  <2>2. clock' <= MaxInserts
    BY <1>2 DEF Pending
  <2>3. global_scope_level' <= global_scope_level /\ global_scope_level' \in Nat
    BY <1>3, <2>1
  <2> QED
    BY <1>3, <1>4, <2>1, <2>2, <2>3, ScopesOnly
<1> QED
  BY <1>6, <1>7 DEF IInv

LEMMA ExtDefEndStep ==
  ASSUME NEW U, Typed(U), Shape, Pending, ExtDefEnd
  PROVE  IInv'
<1>1. Closed(U) /\ EMPTY_TYPE \in U /\ vals \in Seq(Operand(U))
  BY DEF Typed, Closed
<1>2. Depth = 1 /\ global_scope_level = 0
  BY Places DEF ExtDefEnd
<1>3. stack' = << >> /\ reply' = NoReply /\ UNCHANGED <<tables, vals, status>>
  BY DEF ExtDefEnd
<1>4. Typed(U)'
  BY <1>1, <1>3, TypedMoved, Replies DEF tables
<1>5. Depth' = 0 /\ global_scope_level' = 0 /\ clock' <= MaxInserts
  BY <1>2, <1>3 DEF Depth, tables, Pending
<1>6. Shape' /\ Pending'
  BY <1>2, <1>5, ScopesOnly
<1> QED
  BY <1>4, <1>6 DEF IInv

-----------------------------------------------------------------------------
(* The invariant step by step: declarations. *)
LEMMA DecStartStep ==
  ASSUME NEW U, Typed(U), Shape, Pending, NEW n \in Names, NEW dims \in 0 .. 1, DecStart(n, dims)
  PROVE  IInv'
<1> DEFINE type == IF dims = 0 THEN Top.type ELSE CArray(Top.type)
           f == MkFrame("dec", n, type, << >>, FALSE)
           g == global_scope_level
<1>1. /\ TopIs({"def"}) /\ Depth > 1
      /\ clock + Len(Top.list) < MaxInserts
      /\ Len(Top.list) + (IF Under.kind = "struct" THEN Len(Under.list) ELSE 0) < MaxList
      /\ dims > 0 => "array" \in Productions
      /\ stack' = Append(stack, f) /\ reply' = NoReply
      /\ UNCHANGED <<tables, vals, status>>
  BY DEF DecStart, Push
<1>2. Depth = g + 1 /\ Top = stack[g + 1] /\ g \in Nat /\ g > 0
  BY <1>1, Places
<1>3. Top \in Frame(U) /\ Top.kind = "def"
  BY <1>1, <1>2, FramesAre DEF TopIs
<1>4. Top.type \in Scalars(U) /\ Top.list \in Seq(Local(U))
  BY <1>3 DEF Frame, FrameOK, Specified
<1>5. type \in OfSpecifier(Top.type)
  BY <1>1 DEF OfSpecifier
<1>6. PICK V : Closed(V) /\ U \subseteq V /\ type \in V
  <2>1. CASE dims = 0
    <3>1. type \in U
      BY <1>4, <2>1 DEF Scalars
    <3> QED
      BY <3>1 DEF Typed
  <2>2. CASE dims # 0
    <3>1. type = CArray(Top.type)
      BY <2>2
    <3>2. MadeOf(U, type)
      BY <1>4, <3>1 DEF MadeOf, CArray
    <3> HIDE DEF type
    <3>3. Closed(U \union {type})
      BY <3>2, AddType DEF Typed
    <3> QED
      BY <3>3
  <2> QED
    BY <2>1, <2>2
<1> HIDE DEF type
<1>7. Typed(V)
  BY <1>6, TypedMore
<1>8. EMPTY_TYPE \in V /\ vals \in Seq(Operand(V)) /\ stack \in Seq(Frame(V))
  BY <1>7 DEF Typed, Closed
<1>9. f \in Frame(V) /\ f.kind = "dec" /\ f.type = type
  BY <1>6, <1>8, NewFrames DEF MkFrame
<1> HIDE DEF f
<1>10. stack' \in Seq(Frame(V))
  BY <1>1, <1>8, <1>9
<1>11. Typed(V)'
  BY <1>1, <1>7, <1>8, <1>10, TypedMoved, Replies DEF tables
<1>12. /\ Depth' = g + 2 /\ stack'[g + 2] = f /\ \A i \in 1 .. g + 1 : stack'[i] = stack[i]
       /\ global_scope_level' = g /\ clock' = clock
  BY <1>1, <1>2, <1>8, Appended DEF Depth, tables
<1>13. Top' = f /\ Under' = Top /\ stack'[g + 1] = Top /\ stack'[g] = stack[g]
  BY <1>2, <1>12 DEF Top, Under
<1>14. Shape'
  <2>1. /\ \A i \in 1 .. g : stack[i].kind \in ScopeKinds
        /\ \A i \in 2 .. g + 1 : stack[i].kind # "fun"
    BY <1>2 DEF Shape
  <2>2. \A i \in 1 .. g : i \in 1 .. g + 1
    BY <1>2
  <2>3. \A i \in 2 .. g + 2 : i = g + 2 \/ (i \in 1 .. g + 1 /\ i \in 2 .. g + 1)
    BY <1>2
  <2>4. \A i \in 2 .. g + 2 : stack'[i].kind # "fun"
    BY <1>9, <1>12, <2>1, <2>3
  <2>5. \A i \in 1 .. g : stack'[i].kind \in ScopeKinds
    BY <1>12, <2>1, <2>2
  <2>6. g + 2 \in g .. g + 2
    BY <1>2
  <2> HIDE DEF g
  <2> QED
    BY <1>2, <1>3, <1>9, <1>12, <1>13, <2>4, <2>5, <2>6 DEF Shape
<1>15. Before' = Before /\ Before = (IF Under.kind = "struct" THEN Len(Under.list) ELSE 0)
  <2>1. Under = stack[g]
    BY <1>2 DEF Under
  <2> QED
    BY <1>2, <1>12, <1>13, <2>1 DEF Before
<1>16. PendingIs(Top, 0, g, clock, Before)
  <2>1. Depth > g /\ Depth - g - 1 = 0
    BY <1>2
  <2> QED
    BY <1>2, <2>1 DEF Pending
<1>17. PendingIs(Top, 1, g, clock, Before)
  <2>1. \A i \in 1 .. Len(Top.list) : Top.list[i].level = g /\ Top.list[i].type \in OfSpecifier(Top.type)
    BY <1>16 DEF PendingIs
  <2>2. clock + Len(Top.list) + 1 <= MaxInserts
    BY <1>1, <1>4, BoundsAssumption DEF Typed
  <2>3. Before + Len(Top.list) + 1 <= MaxList
    <3>1. Before \in Nat
      <4>1. Under \in Frame(U)
        BY <1>2, FramesAre DEF Under
      <4>2. Under.kind = "struct" => Under.list \in Seq(Member(U))
        BY <4>1 DEF Frame, FrameOK
      <4> QED
        BY <1>15, <4>2
    <3>2. Len(Top.list) \in Nat
      BY <1>4
    <3>3. Len(Top.list) + Before < MaxList
      BY <1>1, <1>15
    <3> QED
      BY <3>1, <3>2, <3>3, BoundsAssumption
  <2> QED
    BY <2>1, <2>2, <2>3 DEF PendingIs
<1>18. Pending'
  <2>1. (g + 2) - g - 1 = 1
    BY <1>2
  <2> QED
    BY <1>5, <1>9, <1>12, <1>13, <1>15, <1>17, <2>1 DEF Pending
<1> QED
  BY <1>11, <1>14, <1>18 DEF IInv

LEMMA DecEndStep ==
  ASSUME NEW U, Typed(U), Shape, Pending, DecEnd
  PROVE  IInv'
<1> DEFINE g == global_scope_level
           dec == CVariable(Top.name, Top.type, << >>, g, FALSE)
           f == [Under EXCEPT !.list = Append(@, dec)]
<1>1. /\ TopIs({"dec"})
      /\ reply' \in {NoReply, Report(OK), Report(UNMATCHING_TYPE_ON_ASSIGN)}
      /\ stack' = Append(Keep(Depth - 2), f)
      /\ vals' = << >> /\ UNCHANGED <<tables, status>>
  BY DEF DecEnd
<1>2. Depth = g + 2 /\ Under = stack[g + 1] /\ Under.kind = "def" /\ g \in Nat /\ g > 0
  BY <1>1, Places DEF Shape
<1>3. Under \in Frame(U) /\ Top \in Frame(U) /\ Top.kind = "dec"
  BY <1>1, <1>2, FramesAre DEF Top, TopIs
<1>4. Under.type \in Specified(U) /\ Under.list \in Seq(Local(U))
  BY <1>2, <1>3 DEF Frame, FrameOK
<1>5. Top.name \in Names /\ Top.type \in U
  BY <1>3 DEF Frame, FrameOK
<1>6. dec \in Local(U) /\ dec.level = g /\ dec.type = Top.type
  BY <1>2, <1>5 DEF CVariable, Local
<1> HIDE DEF dec
<1>7. Append(Under.list, dec) \in Seq(Local(U)) /\ Len(Append(Under.list, dec)) = Len(Under.list) + 1
  BY <1>4, <1>6
<1>8. /\ f.kind = "def" /\ f.type = Under.type /\ f.name = Under.name /\ f.late = Under.late
      /\ f.list = Append(Under.list, dec)
      /\ f \in [kind : ScopeKinds \union {"def", "dec"}, name : Nat, type : U,
                list : Seq(Local(U)) \union Seq(Member(U)), late : BOOLEAN]
  BY <1>2, <1>3, <1>7 DEF Frame
<1> HIDE DEF f
<1>9. f \in Frame(U)
  <2>1. FrameOK(U, f)
    BY <1>2, <1>3, <1>4, <1>7, <1>8 DEF Frame, FrameOK
  <2> QED
    BY <1>8, <2>1 DEF Frame
<1>10. /\ Keep(g) \in Seq(Frame(U)) /\ Len(Keep(g)) = g
       /\ \A i \in 1 .. g : Keep(g)[i] = stack[i]
       /\ stack' = Append(Keep(g), f)
  <2>1. g \in 0 .. Depth /\ Depth - 2 = g
    BY <1>2
  <2> QED
    BY <1>1, <2>1, FramesAre
<1>11. /\ stack' \in Seq(Frame(U)) /\ Depth' = g + 1 /\ stack'[g + 1] = f
       /\ \A i \in 1 .. g : stack'[i] = stack[i]
  BY <1>9, <1>10, Appended DEF Depth
<1>12. Typed(U)'
  <2>1. EMPTY_TYPE \in U
    BY DEF Typed, Closed
  <2>2. reply' \in [codes : Seq(Nat), type : U]
    BY <1>1, <2>1, Replies DEF OK, UNMATCHING_TYPE_ON_ASSIGN
  <2> QED
    BY <1>1, <1>11, <2>2, TypedMoved DEF tables
<1>13. global_scope_level' = g /\ clock' = clock
  BY <1>1 DEF tables
<1>14. Shape'
  <2>1. /\ \A i \in 1 .. g : stack[i].kind \in ScopeKinds
        /\ \A i \in 2 .. g + 2 : stack[i].kind # "fun"
    BY <1>2 DEF Shape
  <2>2. \A i \in 2 .. g + 1 : i = g + 1 \/ (i \in 1 .. g /\ i \in 2 .. g + 2)
    BY <1>2
  <2>3. \A i \in 2 .. g + 1 : stack'[i].kind # "fun"
    BY <1>8, <1>11, <2>1, <2>2
  <2>4. \A i \in 1 .. g : stack'[i].kind \in ScopeKinds
    BY <1>11, <2>1
  <2>5. g + 1 \in g .. g + 2 /\ g + 1 # g + 2
    BY <1>2
  <2> HIDE DEF g
  <2> QED
    BY <1>2, <1>8, <1>11, <1>13, <2>3, <2>4, <2>5 DEF Shape
<1>15. PendingIs(Under, 1, g, clock, Before) /\ Top.type \in OfSpecifier(Under.type)
  <2>1. Depth > g /\ Depth - g - 1 = 1
    BY <1>2
  <2> QED
    BY <1>2, <2>1 DEF Pending
<1>16. PendingIs(f, 0, g, clock, Before')
  <2>1. Before' = Before
    BY <1>2, <1>11, <1>13 DEF Before
  <2>2. \A i \in 1 .. Len(f.list) : f.list[i].level = g /\ f.list[i].type \in OfSpecifier(f.type)
    <3> TAKE i \in 1 .. Len(f.list)
    <3>1. CASE i \in 1 .. Len(Under.list)
      <4>1. f.list[i] = Under.list[i]
        BY <1>4, <1>8, <3>1, Appended
      <4> QED
        BY <1>8, <1>15, <3>1, <4>1 DEF PendingIs
    <3>2. CASE i = Len(Under.list) + 1
      <4>1. f.list[i] = dec
        BY <1>4, <1>8, <3>2, Appended
      <4> QED
        BY <1>6, <1>8, <1>15, <4>1
    <3> QED
      BY <1>4, <1>7, <1>8, <3>1, <3>2
  <2>3. clock + Len(Under.list) + 1 <= MaxInserts /\ Before + Len(Under.list) + 1 <= MaxList
    BY <1>15 DEF PendingIs
  <2>4. Len(f.list) = Len(Under.list) + 1 /\ Len(Under.list) \in Nat /\ clock \in Nat /\ Before \in Nat
    <3>1. g > 0 => stack[g] \in Frame(U)
      BY <1>2, FramesAre
    <3>2. g > 0 /\ stack[g].kind = "struct" => stack[g].list \in Seq(Member(U))
      BY <3>1 DEF Frame, FrameOK
    <3>3. Before \in Nat
      BY <3>2 DEF Before
    <3> QED
      BY <1>4, <1>7, <1>8, <3>3 DEF Typed
  <2>5. clock + Len(f.list) + 0 <= MaxInserts /\ Before + Len(f.list) + 0 <= MaxList
    BY <2>3, <2>4
  <2> QED
    BY <1>13, <2>1, <2>2, <2>5 DEF PendingIs
<1>17. Pending'
  <2>1. (g + 1) - g - 1 = 0 /\ g + 1 # g + 2
    BY <1>2
  <2>2. clock <= MaxInserts
    BY DEF Pending
  <2> QED
    BY <1>11, <1>13, <1>16, <2>1, <2>2 DEF Pending
<1> QED
  BY <1>12, <1>14, <1>17 DEF IInv

(* The codes of a list of declarations, as a reply. *)
LEMMA RedefinedReply ==
  ASSUME NEW U, EMPTY_TYPE \in U, NEW m, NEW S, NEW list \in Seq(S), NEW c
  PROVE  [NoReply EXCEPT !.codes = Redefinitions(m, list, c)] \in [codes : Seq(Nat), type : U]
<1>1. VARIABLE_REDEFINED \in Nat /\ FUNCTION_REDEFINED \in Nat
  BY DEF VARIABLE_REDEFINED, FUNCTION_REDEFINED
<1>2. {VARIABLE_REDEFINED, FUNCTION_REDEFINED} \subseteq Nat
  BY <1>1
<1>3. Redefinitions(m, list, c) \in Seq(Nat)
  BY <1>2, RedefinitionsAre, SeqMonotonic
<1> HIDE DEF Redefinitions
<1> QED
  BY <1>3 DEF NoReply

(* What the members of the structure around a list of declarations become. *)
LEMMA WithMembersIs ==
  ASSUME NEW U, NEW s \in Seq(Frame(U)), Len(s) > 0, NEW list \in Seq(Local(U)),
         s[Len(s)].kind = "struct" => Len(s[Len(s)].list) + Len(list) <= MaxList
  PROVE  /\ WithMembers(s, list) \in Seq(Frame(U))
         /\ Len(WithMembers(s, list)) = Len(s)
         /\ \A i \in 1 .. Len(s) : WithMembers(s, list)[i].kind = s[i].kind
<1> DEFINE d == Len(s)
           members == [i \in DOMAIN list |-> [name |-> list[i].name, type |-> list[i].type]]
           f == [s[d] EXCEPT !.list = @ \o members]
<1>1. d \in 1 .. d /\ s[d] \in Frame(U) /\ d \in Nat
  OBVIOUS
<1>2. CASE s[d].kind # "struct"
  <2>1. WithMembers(s, list) = s
    BY <1>2 DEF WithMembers
  <2> QED
    BY <2>1
<1>3. CASE s[d].kind = "struct"
  <2>1. WithMembers(s, list) = [s EXCEPT ![d] = f]
    BY <1>3 DEF WithMembers
  <2>2. members \in Seq(Member(U)) /\ Len(members) = Len(list)
    <3>1. \A i \in 1 .. Len(list) : list[i] \in Local(U)
      OBVIOUS
    <3>5. \A e \in Local(U) : [name |-> e.name, type |-> e.type] \in Member(U)
      BY DEF Local, Member
    <3>6. \A i \in 1 .. Len(list) : members[i] = [name |-> list[i].name, type |-> list[i].type]
      OBVIOUS
    <3>2. \A i \in 1 .. Len(list) : members[i] \in Member(U)
      BY <3>1, <3>5, <3>6
    <3>3. DOMAIN members = 1 .. Len(list) /\ Len(list) \in Nat
      OBVIOUS
    <3>4. members \in [1 .. Len(list) -> Member(U)]
      BY <3>2, <3>3
    <3> HIDE DEF members
    <3> QED
      BY <3>3, <3>4
  <2> HIDE DEF members
  <2>3. /\ s[d].name \in SNames /\ s[d].list \in Seq(Member(U))
        /\ s[d].late \in BOOLEAN /\ ~ s[d].late
    BY <1>1, <1>3 DEF Frame, FrameOK
  <2>4. /\ s[d].list \o members \in Seq(Member(U))
        /\ Len(s[d].list \o members) = Len(s[d].list) + Len(list)
    <3> DEFINE a == s[d].list
    <3>1. a \in Seq(Member(U))
      BY <2>3
    <3> HIDE DEF a
    <3>2. a \o members \in Seq(Member(U)) /\ Len(a \o members) = Len(a) + Len(members)
      BY <2>2, <3>1, ConcatProperties
    <3> QED
      BY <2>2, <3>2 DEF a
  <2>5. Len(s[d].list \o members) <= MaxList
    BY <1>3, <2>4
  <2>6. /\ f.kind = "struct" /\ f.name = s[d].name /\ f.list = s[d].list \o members
        /\ f.late = s[d].late
        /\ f \in [kind : ScopeKinds \union {"def", "dec"}, name : Nat, type : U,
                  list : Seq(Local(U)) \union Seq(Member(U)), late : BOOLEAN]
    BY <1>1, <1>3, <2>4 DEF Frame
  <2> HIDE DEF f
  <2>7. f \in Frame(U)
    <3>1. FrameOK(U, f)
      BY <2>3, <2>4, <2>5, <2>6 DEF FrameOK
    <3> QED
      BY <2>6, <3>1 DEF Frame
  <2>8. [s EXCEPT ![d] = f] \in Seq(Frame(U))
    BY <1>1, <2>7
  <2>9. Len([s EXCEPT ![d] = f]) = d
    BY <1>1
  <2>10. \A i \in 1 .. d : [s EXCEPT ![d] = f][i].kind = s[i].kind
    BY <1>1, <1>3, <2>6
  <2> QED
    BY <2>1, <2>8, <2>9, <2>10
<1> QED
  BY <1>2, <1>3

LEMMA DecListEndStep ==
  ASSUME NEW U, Typed(U), Shape, Pending, DecListEnd
  PROVE  IInv'
<1> DEFINE g == global_scope_level
           list == Top.list
<1>1. /\ TopIs({"def"}) /\ Depth > 1
      /\ var_map' = UpdateVariable(var_map, list, clock)
      /\ clock' = clock + Len(list)
      /\ reply' = [NoReply EXCEPT !.codes = Redefinitions(var_map, list, clock)]
      /\ stack' = WithMembers(Keep(Depth - 1), list)
      /\ UNCHANGED <<structure_map, global_scope_level, vals, status>>
  BY DEF DecListEnd
<1>2. Depth = g + 1 /\ Top = stack[g + 1] /\ g \in Nat /\ g > 0
  BY <1>1, Places
<1>3. list \in Seq(Local(U))
  <2>1. Top \in Frame(U) /\ Top.kind = "def"
    BY <1>1, <1>2, FramesAre DEF TopIs
  <2> QED
    BY <2>1 DEF Frame, FrameOK
<1>4. PendingIs(Top, 0, g, clock, Before) /\ Len(list) \in Nat /\ clock \in Nat
  <2>1. Depth > g /\ Depth - g - 1 = 0
    BY <1>2
  <2> QED
    BY <1>2, <1>3, <2>1 DEF Pending, Typed
<1>5. /\ Keep(g) \in Seq(Frame(U)) /\ Len(Keep(g)) = g
      /\ \A i \in 1 .. g : Keep(g)[i] = stack[i]
      /\ stack' = WithMembers(Keep(g), list)
  <2>1. Depth - 1 = g /\ g \in 0 .. Depth
    BY <1>2
  <2> QED
    BY <1>1, <2>1, FramesAre
<1>6. /\ stack' \in Seq(Frame(U)) /\ Len(stack') = g
      /\ \A i \in 1 .. g : stack'[i].kind = stack[i].kind
  <2>1. Keep(g)[g] = stack[g]
    BY <1>2, <1>5
  <2>2. stack[g].kind = "struct" => Len(stack[g].list) + Len(list) <= MaxList
    <3> SUFFICES ASSUME stack[g].kind = "struct"
                 PROVE  Len(stack[g].list) + Len(list) <= MaxList
      OBVIOUS
    <3>1. Before = Len(stack[g].list)
      BY <1>2 DEF Before
    <3>2. stack[g] \in Frame(U)
      BY <1>2, FramesAre
    <3>3. stack[g].list \in Seq(Member(U))
      BY <3>2 DEF Frame, FrameOK
    <3>4. Before + Len(list) + 0 <= MaxList
      BY <1>4 DEF PendingIs
    <3>5. Before \in Nat
      BY <3>1, <3>3
    <3>6. Len(list) \in Nat /\ MaxList \in Nat
      BY <1>4, BoundsAssumption
    <3> HIDE DEF list, g
    <3>7. Before + Len(list) <= MaxList
      BY <3>4, <3>5, <3>6
    <3> QED
      BY <3>1, <3>7
  <2> HIDE DEF list
  <2>3. Keep(g)[Len(Keep(g))].kind = "struct" => Len(Keep(g)[Len(Keep(g))].list) + Len(list) <= MaxList
    BY <1>5, <2>1, <2>2
  <2>4. /\ WithMembers(Keep(g), list) \in Seq(Frame(U))
        /\ Len(WithMembers(Keep(g), list)) = Len(Keep(g))
        /\ \A i \in 1 .. Len(Keep(g)) : WithMembers(Keep(g), list)[i].kind = Keep(g)[i].kind
    <3>1. Len(Keep(g)) > 0
      BY <1>2, <1>5
    <3> QED
      BY <1>3, <1>5, <2>3, <3>1, WithMembersIs
  <2> QED
    BY <1>5, <2>4
<1>7. Stored(var_map', clock + Len(list), Entry(U))
  <2>1. list \in Seq(Entry(U))
    BY <1>3, SeqMonotonic DEF Entry
  <2> HIDE DEF list
  <2>2. \A e \in Entry(U), k \in Nat : [e EXCEPT !.seq = k] \in Entry(U) /\ [e EXCEPT !.seq = k].seq = k
    BY EntryNumbered
  <2> QED
    BY <1>1, <2>1, <2>2, ListStored DEF Typed
<1>8. Stored(structure_map', clock + Len(list), Structure(U))
  <2>1. \A i : i \in 1 .. clock => i \in 1 .. clock + Len(list)
    BY <1>4
  <2> QED
    BY <1>1, <2>1 DEF Typed, Stored
<1>9. Typed(U)'
  <2>1. EMPTY_TYPE \in U /\ vals \in Seq(Operand(U)) /\ clock + Len(list) \in Nat
    BY <1>4 DEF Typed, Closed
  <2>2. reply' \in [codes : Seq(Nat), type : U]
    BY <1>1, <1>3, <2>1, RedefinedReply
  <2> QED
    BY <1>1, <1>6, <1>7, <1>8, <2>1, <2>2, TypedTables
<1>10. Shape' /\ Pending'
  <2>1. Depth' = g /\ global_scope_level' = g
    BY <1>1, <1>6 DEF Depth
  <2>2. clock' <= MaxInserts
    <3>1. clock + Len(list) + 0 <= MaxInserts
      BY <1>4 DEF PendingIs
    <3> QED
      BY <1>1, <1>4, <3>1
  <2>3. global_scope_level' <= global_scope_level /\ global_scope_level' \in Nat
    BY <1>2, <2>1
  <2> QED
    BY <1>6, <2>1, <2>2, <2>3, ScopesOnly
<1> QED
  BY <1>9, <1>10 DEF IInv

(* The parameters of a function are variables of its scope. *)
LEMMA ParametersAre ==
  ASSUME NEW U, Closed(U), NEW params \in ParamLists
  PROVE  /\ Parameters(params, 1) \in Seq(Local(U))
         /\ Len(Parameters(params, 1)) = Len(params)
         /\ \A i \in 1 .. Len(params) : Parameters(params, 1)[i].level = 1
         /\ [i \in DOMAIN Parameters(params, 1) |-> Parameters(params, 1)[i].type] \in ArgLists
<1> DEFINE p == Parameters(params, 1)
           T == {params[i].type : i \in DOMAIN params}
           R == [name : Names, type : T]
<1>1. params \in Seq(R)
  BY ParamListsAssumption
<1>2. DOMAIN params = 1 .. Len(params) /\ Len(params) \in Nat
  <2> HIDE DEF R
  <2> QED
    BY <1>1
<1>3. \A i \in 1 .. Len(params) : params[i].name \in Names /\ params[i].type \in U
  <2> TAKE i \in 1 .. Len(params)
  <2> HIDE DEF R
  <2>0. params[i] \in R
    BY <1>1
  <2>1. params[i] \in [name : Names, type : T]
    BY <2>0 DEF R
  <2>2. params[i].type \in U
    BY <1>2 DEF Closed
  <2> QED
    BY <2>1, <2>2
<1>4. p = [i \in 1 .. Len(params) |-> CVariable(params[i].name, params[i].type, << >>, 1, FALSE)]
  BY <1>2 DEF Parameters
<1>5. \A n \in Names, t \in U : /\ CVariable(n, t, << >>, 1, FALSE) \in Local(U)
                                /\ CVariable(n, t, << >>, 1, FALSE).level = 1
                                /\ CVariable(n, t, << >>, 1, FALSE).type = t
  BY DEF CVariable, Local
<1> HIDE DEF p, T, R
<1>6. \A i \in 1 .. Len(params) : p[i] \in Local(U) /\ p[i].level = 1 /\ p[i].type = params[i].type
  BY <1>3, <1>4, <1>5
<1>7. p \in Seq(Local(U)) /\ Len(p) = Len(params) /\ DOMAIN p = 1 .. Len(params)
  <2>1. p \in [1 .. Len(params) -> Local(U)]
    BY <1>4, <1>6
  <2> QED
    BY <1>2, <2>1
<1>8. [i \in DOMAIN p |-> p[i].type] = [i \in DOMAIN params |-> params[i].type]
  BY <1>2, <1>6, <1>7
<1> QED
  BY <1>6, <1>7, <1>8 DEF p, ArgLists

LEMMA FunDecStep ==
  ASSUME NEW U, Typed(U), Shape, Pending, NEW n \in Names, NEW params \in ParamLists, FunDec(n, params)
  PROVE  IInv'
<1> DEFINE args == Parameters(params, 1)
           f == MkFrame("fun", n, Top.type, args, FALSE)
<1>1. Depth = 1 /\ global_scope_level = 0 /\ TopIs({"def"})
  BY Places DEF FunDec
<1>2. /\ clock + Len(args) < MaxInserts
      /\ global_scope_level' = 1
      /\ var_map' = UpdateVariable(var_map, args, clock)
      /\ clock' = clock + Len(args)
      /\ reply' = [NoReply EXCEPT !.codes = Redefinitions(var_map, args, clock)]
      /\ stack' = Append(Keep(0), f)
      /\ UNCHANGED <<structure_map, vals, status>>
  <2>1. global_scope_level + 1 = 1 /\ Depth - 1 = 0
    BY <1>1
  <2> QED
    BY <2>1 DEF FunDec, PushScope, Replace
<1>3. args \in Seq(Local(U)) /\ Len(args) \in Nat /\ clock \in Nat
  <2>1. Closed(U) /\ clock \in Nat
    BY DEF Typed
  <2>2. args \in Seq(Local(U))
    BY <2>1, ParametersAre
  <2> HIDE DEF args
  <2> QED
    BY <2>1, <2>2
<1>4. f \in Frame(U) /\ f.kind = "fun"
  <2>1. Top \in Frame(U) /\ Top.kind = "def"
    BY <1>1, FramesAre DEF TopIs, Top
  <2>2. Top.type \in Specified(U) /\ Top.type \in U
    BY <2>1 DEF Frame, FrameOK, Specified, Scalars
  <2>3. n \in Nat
    BY NamesAssumption
  <2>4. f.kind = "fun" /\ f.name = n /\ f.type = Top.type /\ f.list = args /\ ~ f.late
    BY DEF MkFrame
  <2>5. f \in [kind : ScopeKinds \union {"def", "dec"}, name : Nat, type : U,
               list : Seq(Local(U)) \union Seq(Member(U)), late : BOOLEAN]
    BY <1>3, <2>2, <2>3 DEF MkFrame, ScopeKinds
  <2> HIDE DEF f
  <2>6. FrameOK(U, f)
    BY <2>2, <2>4 DEF FrameOK
  <2> QED
    BY <2>4, <2>5, <2>6 DEF Frame
<1> HIDE DEF f, args
<1>5. Keep(0) \in Seq(Frame(U)) /\ Len(Keep(0)) = 0
  BY <1>1, FramesAre
<1>6. stack' \in Seq(Frame(U)) /\ Len(stack') = 1 /\ stack'[1] = f
  BY <1>2, <1>4, <1>5
<1>7. Stored(var_map', clock + Len(args), Entry(U))
  <2>1. args \in Seq(Entry(U))
    BY <1>3, SeqMonotonic DEF Entry
  <2>2. \A e \in Entry(U), k \in Nat : [e EXCEPT !.seq = k] \in Entry(U) /\ [e EXCEPT !.seq = k].seq = k
    BY EntryNumbered
  <2> QED
    BY <1>2, <1>3, <2>1, <2>2, ListStored DEF Typed
<1>8. Stored(structure_map', clock + Len(args), Structure(U))
  <2>1. \A i : i \in 1 .. clock => i \in 1 .. clock + Len(args)
    BY <1>3
  <2> QED
    BY <1>2, <2>1 DEF Typed, Stored
<1>9. Typed(U)'
  <2>1. EMPTY_TYPE \in U /\ vals \in Seq(Operand(U)) /\ clock + Len(args) \in Nat
    BY <1>3 DEF Typed, Closed
  <2>2. reply' \in [codes : Seq(Nat), type : U]
    BY <1>2, <1>3, <2>1, RedefinedReply
  <2> QED
    BY <1>2, <1>6, <1>7, <1>8, <2>1, <2>2, TypedTables
<1>10. Shape' /\ Pending'
  <2>1. Depth' = 1
    BY <1>6 DEF Depth
  <2>2. \A i \in 1 .. 1 : stack'[i].kind \in ScopeKinds
    BY <1>4, <1>6 DEF ScopeKinds
  <2>3. Shape'
    BY <1>2, <2>1, <2>2 DEF Shape
  <2>4. Pending'
    BY <1>2, <1>3, <2>1, BoundsAssumption DEF Pending
  <2> QED
    BY <2>3, <2>4
<1> QED
  BY <1>9, <1>10 DEF IInv

(* The function that the end of its definition registers. *)
LEMMA DeclaredIs ==
  ASSUME NEW U, Typed(U), Shape, TopIs({"fun"}), AtStmt
  PROVE  /\ Depth = 1 /\ global_scope_level = 1
         /\ Declared(0) \in Function(U)
         /\ Declared(0) \in Entry(U) /\ Declared(0).level = 0
         /\ Top \in Frame(U)
<1>1. Depth = global_scope_level /\ Depth > 0 /\ Depth \in Nat
  BY FramesAre, Places
<1>2. Top \in Frame(U) /\ Top.kind = "fun"
  BY <1>1, FramesAre DEF Top, TopIs
<1>3. Depth = 1
  <2>1. Depth \notin 2 .. Depth
    BY <1>2 DEF Shape, Top
  <2> QED
    BY <1>1, <2>1
<1>4. Top.name \in Names /\ Top.type \in Scalars(U)
  BY <1>2 DEF Frame, FrameOK, Specified
<1>5. PICK params \in ParamLists : Top.list = Parameters(params, 1)
  BY <1>2 DEF Frame, FrameOK
<1>6. [i \in DOMAIN Top.list |-> Top.list[i].type] \in ArgLists
  BY <1>5, ParametersAre DEF Typed
<1>7. Declared(0) \in Function(U) /\ Declared(0).level = 0
  BY <1>4, <1>6 DEF Declared, CVariable, Function
<1> QED
  BY <1>1, <1>2, <1>3, <1>7 DEF Entry

LEMMA FunEndStep ==
  ASSUME NEW U, Typed(U), Shape, Pending, FunEnd
  PROVE  IInv'
<1> DEFINE fun == Declared(0)
<1>1. TopIs({"fun"}) /\ AtStmt
  BY DEF FunEnd
<1>2. Depth = 1 /\ global_scope_level = 1 /\ fun \in Entry(U)
  BY <1>1, DeclaredIs
<1>3. global_scope_level - 1 = 0 /\ Depth - 1 = 0
  BY <1>2
<1>4. PICK rest \in PopResults(var_map, global_scope_level) :
        /\ var_map' = UpdateVariable(rest, <<fun>>, clock)
        /\ reply' = [NoReply EXCEPT !.codes = Redefinitions(rest, <<fun>>, clock)]
  BY <1>3 DEF FunEnd
<1>5. /\ structure_map' \in PopResults(structure_map, global_scope_level)
      /\ global_scope_level' = 0 /\ clock < MaxInserts /\ clock' = clock + 1
      /\ stack' = Keep(0) /\ UNCHANGED <<vals, status>>
  BY <1>3 DEF FunEnd
<1> HIDE DEF fun
<1>6. <<fun>> \in Seq(Entry(U)) /\ Len(<<fun>>) = 1 /\ clock \in Nat
  BY <1>2 DEF Typed
<1>7. Stored(var_map', clock + 1, Entry(U))
  <2>1. Stored(rest, clock, Entry(U))
    BY PopKeeps DEF Typed
  <2>2. \A e \in Entry(U), k \in Nat : [e EXCEPT !.seq = k] \in Entry(U) /\ [e EXCEPT !.seq = k].seq = k
    BY EntryNumbered
  <2>3. Stored(UpdateVariable(rest, <<fun>>, clock), clock + Len(<<fun>>), Entry(U))
    BY <1>6, <2>1, <2>2, ListStored
  <2> QED
    BY <1>4, <1>6, <2>3
<1>8. Stored(structure_map', clock + 1, Structure(U))
  <2>1. Stored(structure_map', clock, Structure(U))
    BY <1>5, PopKeeps DEF Typed
  <2>2. \A i : i \in 1 .. clock => i \in 1 .. clock + 1
    BY <1>6
  <2> QED
    BY <2>1, <2>2 DEF Stored
<1>9. stack' \in Seq(Frame(U)) /\ Len(stack') = 0
  BY <1>2, <1>5, FramesAre
<1>10. Typed(U)'
  <2>1. EMPTY_TYPE \in U /\ vals \in Seq(Operand(U)) /\ clock + 1 \in Nat
    BY <1>6 DEF Typed, Closed
  <2>2. reply' \in [codes : Seq(Nat), type : U]
    BY <1>4, <1>6, <2>1, RedefinedReply
  <2> QED
    BY <1>5, <1>7, <1>8, <1>9, <2>1, <2>2, TypedTables
<1>11. Shape' /\ Pending'
  <2>1. Depth' = 0 /\ global_scope_level' = 0 /\ 0 <= global_scope_level
    BY <1>2, <1>5, <1>9 DEF Depth
  <2>2. clock' <= MaxInserts
    BY <1>5, <1>6, BoundsAssumption
  <2> QED
    BY <2>1, <2>2, ScopesOnly
<1> QED
  BY <1>10, <1>11 DEF IInv

(* A structure's definition becomes a type. *)
LEMMA StructEndStep ==
  ASSUME NEW U, Typed(U), Shape, Pending, StructEnd
  PROVE  IInv'
<1> DEFINE g == global_scope_level
           type == CStructure(Top.name, Top.list)
           e == [name |-> Top.name, type |-> type, level |-> g - 1, seq |-> clock + 1]
           f == MkFrame("def", 0, type, << >>, FALSE)
<1>1. TopIs({"struct"}) /\ clock < MaxInserts
  BY DEF StructEnd
<1>2. PICK rest \in PopResults(structure_map, g) :
        /\ structure_map' = rest \union {e}
        /\ reply' = Report(GetLocalStructure(rest, Top.name, g - 1))
  BY DEF StructEnd
<1>3. /\ var_map' \in PopResults(var_map, g)
      /\ stack' = Append(Keep(Depth - 1), f)
      /\ global_scope_level' = g - 1 /\ clock' = clock + 1
      /\ UNCHANGED <<vals, status>>
  BY DEF StructEnd, Replace
<1>4. Depth = g /\ g > 0 /\ g \in Nat /\ clock \in Nat
  BY <1>1, Places DEF ScopeKinds, Typed
<1>5. Top \in Frame(U) /\ Top.kind = "struct"
  BY <1>1, <1>4, FramesAre DEF Top, TopIs
<1>6. Top.name \in SNames /\ Top.list \in Seq(Member(U)) /\ Len(Top.list) <= MaxList
  BY <1>5 DEF Frame, FrameOK
<1>7. type.kind = "STRUCTURE" /\ type.name = Top.name /\ MadeOf(U, type)
  BY <1>6 DEF MadeOf, CStructure
<1> HIDE DEF type
<1>8. PICK V : Closed(V) /\ U \subseteq V /\ type \in V
  <2>1. Closed(U) /\ MadeOf(U, type)
    BY <1>7 DEF Typed
  <2>2. Closed(U \union {type})
    BY <2>1, AddType
  <2>3. U \subseteq U \union {type} /\ type \in U \union {type}
    OBVIOUS
  <2> QED
    BY <2>2, <2>3
<1>9. Typed(V)
  BY <1>8, TypedMore
<1>10. type \in Specified(V)
  BY <1>7, <1>8 DEF Scalars, Specified
<1>11. f \in Frame(V) /\ f.kind = "def" /\ f.list = << >>
  BY <1>9, <1>10, NewFrames DEF MkFrame, Typed, Closed
<1> HIDE DEF f
<1>12. e \in Structure(V) /\ e.seq = clock + 1
  BY <1>4, <1>6, <1>7, <1>8 DEF Structure
<1> HIDE DEF e
<1>13. Stored(structure_map', clock + 1, Structure(V))
  <2>1. Stored(rest, clock, Structure(V))
    BY <1>9, PopKeeps DEF Typed
  <2> QED
    BY <1>2, <1>4, <1>12, <2>1, OneStored
<1>14. Stored(var_map', clock + 1, Entry(V))
  <2>1. Stored(var_map', clock, Entry(V))
    BY <1>3, <1>9, PopKeeps DEF Typed
  <2>2. \A i : i \in 1 .. clock => i \in 1 .. clock + 1
    BY <1>4
  <2> QED
    BY <2>1, <2>2 DEF Stored
<1>15. /\ Keep(g - 1) \in Seq(Frame(V)) /\ Len(Keep(g - 1)) = g - 1
       /\ \A i \in 1 .. g - 1 : Keep(g - 1)[i] = stack[i]
       /\ stack' = Append(Keep(g - 1), f)
  <2>1. g - 1 \in 0 .. Depth
    BY <1>4
  <2> QED
    BY <1>3, <1>4, <1>9, <2>1, FramesAre
<1>16. Typed(V)'
  <2>1. EMPTY_TYPE \in V /\ vals \in Seq(Operand(V)) /\ clock + 1 \in Nat
    BY <1>4, <1>9 DEF Typed, Closed
  <2>2. stack' \in Seq(Frame(V))
    BY <1>11, <1>15
  <2>3. reply' \in [codes : Seq(Nat), type : V]
    BY <1>2, <2>1, Replies DEF GetLocalStructure, OK, STRUCTURE_REDEFINED
  <2> QED
    BY <1>3, <1>9, <1>13, <1>14, <2>1, <2>2, <2>3, TypedTables
<1>17. Shape' /\ Pending'
  <2>1. clock' <= MaxInserts /\ clock' \in Nat
    BY <1>1, <1>3, <1>4, BoundsAssumption
  <2>2. global_scope_level' = g - 1 /\ global_scope_level' <= global_scope_level
    BY <1>3, <1>4
  <2> HIDE DEF g
  <2> QED
    BY <1>9, <1>11, <1>15, <2>1, <2>2, DefPushed
<1> QED
  BY <1>16, <1>17 DEF IInv

-----------------------------------------------------------------------------
LEMMA EndStep ==
  ASSUME NEW U, Typed(U), Shape, Pending, Die \/ Finish
  PROVE  IInv'
<1>1. EMPTY_TYPE \in U /\ vals \in Seq(Operand(U))
  BY DEF Typed, Closed
<1>2. UNCHANGED <<tables, stack, vals>> /\ reply' = NoReply /\ status' \in {"crashed", "done"}
  BY DEF Die, Finish
<1>3. Typed(U)'
  BY <1>1, <1>2, TypedUnmoved, Replies
<1> QED
  BY <1>2, <1>3, Unmoved DEF IInv

LEMMA NextIInv == IInv /\ [Next]_vars => IInv'
<1> SUFFICES ASSUME IInv, [Next]_vars PROVE IInv'
  OBVIOUS
<1>1. PICK U : Typed(U)
  BY DEF IInv
<1>2. Shape /\ Pending
  BY DEF IInv
<1>3. CASE Declarations
  BY <1>1, <1>2, <1>3, SpecifierStep, OpeningStep, StructEndStep, DecStartStep, DecEndStep,
     DecListEndStep, ExtDefEndStep, FunDecStep, FunEndStep DEF Declarations
<1>4. CASE DefListEnd \/ BlockStart \/ WhileStart \/ ScopeEnd
  BY <1>1, <1>2, <1>4, DefListEndStep, OpeningStep, ScopeEndStep
<1>5. CASE Expressions \/ ExpStmt \/ Return
  BY <1>1, <1>2, <1>5, ExpressionStep, Unmoved DEF IInv
<1>6. CASE Die \/ Finish
  BY <1>1, <1>2, <1>6, EndStep
<1>7. CASE UNCHANGED vars
  <2>1. UNCHANGED <<tables, stack, vals, reply, status>>
    BY <1>7 DEF vars
  <2>2. Typed(U)'
    BY <1>1, <2>1, TypedUnmoved DEF Typed
  <2> QED
    BY <1>2, <2>1, <2>2, Unmoved DEF IInv
<1> QED
  BY <1>3, <1>4, <1>5, <1>6, <1>7 DEF Next, Statements

(***************************************************************************)
(* In every program, of any size, and whatever PopScope's use of a freed   *)
(* node leaves in the tables: types are made of types, each open call of   *)
(* the walk keeps what its kind says, the scopes come first on the stack,  *)
(* and what is declared but not yet in the table belongs to the level it   *)
(* will be declared at (semantic.cpp:27-512).                              *)
(***************************************************************************)
THEOREM SemanticInvariant == Spec => []IInv
<1>1. Init => IInv
  BY InitIInv
<1>2. IInv /\ [Next]_vars => IInv'
  BY NextIInv
<1> QED
  BY <1>1, <1>2, PTL DEF Spec

-----------------------------------------------------------------------------
(***************************************************************************)
(* What a step does to the tables, and their order.  A build whose         *)
(* PopScope steps over entries is left out (Exact): the order is lost there*)
(* (run scopes_skip).                                                      *)
(***************************************************************************)
Exact == "skip" \notin PopOutcomes

Quiet == UNCHANGED <<var_map, structure_map, global_scope_level>>

Opens ==
  global_scope_level' = global_scope_level + 1 /\ UNCHANGED <<var_map, structure_map>>

Enters(U) ==
  /\ \E list \in Seq(Local(U)) :
       /\ \A i \in 1 .. Len(list) : list[i].level = global_scope_level'
       /\ var_map' = UpdateVariable(var_map, list, clock)
  /\ global_scope_level' \in {global_scope_level, global_scope_level + 1}
  /\ structure_map' = structure_map

Closes ==
  /\ global_scope_level > 0 /\ global_scope_level' = global_scope_level - 1
  /\ var_map' = Erased(var_map, global_scope_level)
  /\ structure_map' = Erased(structure_map, global_scope_level)

Registers(U) ==
  /\ global_scope_level = 1 /\ global_scope_level' = 0
  /\ \E fun \in Function(U) :
       var_map' = UpdateVariable(Erased(var_map, 1), <<fun>>, clock)
  /\ structure_map' = Erased(structure_map, 1)

Defines ==
  /\ global_scope_level > 0 /\ global_scope_level' = global_scope_level - 1
  /\ var_map' = Erased(var_map, global_scope_level)
  /\ \E e : /\ e.level = global_scope_level' /\ e.seq = clock + 1
            /\ structure_map' = Erased(structure_map, global_scope_level) \union {e}

LEMMA OpeningEffect ==
  ASSUME \/ \E s \in SNames : StructStart(s)
         \/ BlockStart
         \/ WhileStart
  PROVE  Opens
BY DEF StructStart, BlockStart, WhileStart, PushScope, Opens

LEMMA QuietEffect ==
  ASSUME \/ \E t \in Prims : TypeSpecifier(t)
         \/ \E s \in SNames : StructUse(s)
         \/ \E n \in Names, dims \in 0 .. 1 : DecStart(n, dims)
         \/ DecEnd \/ ExtDefEnd \/ DefListEnd \/ Die \/ Finish \/ UNCHANGED vars
  PROVE  Quiet
BY DEF TypeSpecifier, StructUse, DecStart, DecEnd, ExtDefEnd, DefListEnd, Die, Finish, vars, tables, Quiet

LEMMA DeclaringEffect ==
  ASSUME NEW U, Typed(U), Shape, Pending, DecListEnd
  PROVE  /\ Top.list \in Seq(Local(U))
         /\ \A i \in 1 .. Len(Top.list) : /\ Top.list[i].level = global_scope_level
                                          /\ Top.list[i].type \in OfSpecifier(Top.type)
         /\ Top \in Frame(U) /\ Top.kind = "def" /\ Len(Top.list) <= MaxList
         /\ Depth = global_scope_level + 1 /\ global_scope_level > 0 /\ global_scope_level \in Nat
         /\ Enters(U)
<1>1. /\ TopIs({"def"}) /\ Depth > 1
      /\ var_map' = UpdateVariable(var_map, Top.list, clock)
      /\ UNCHANGED <<structure_map, global_scope_level>>
  BY DEF DecListEnd
<1>2. Depth = global_scope_level + 1 /\ Top = stack[global_scope_level + 1] /\ global_scope_level \in Nat
  BY <1>1, Places
<1>3. Top \in Frame(U) /\ Top.kind = "def"
  BY <1>1, <1>2, FramesAre DEF TopIs
<1>4. Top.list \in Seq(Local(U)) /\ Len(Top.list) \in Nat
  BY <1>3 DEF Frame, FrameOK
<1>5. PendingIs(Top, 0, global_scope_level, clock, Before)
  <2>1. Depth > global_scope_level /\ Depth - global_scope_level - 1 = 0
    BY <1>2
  <2> QED
    BY <1>2, <2>1 DEF Pending
<1>6. Len(Top.list) <= MaxList
  <2>1. Before \in Nat
    <3>1. global_scope_level > 0 => stack[global_scope_level] \in Frame(U)
      BY <1>2, FramesAre
    <3>2. global_scope_level > 0 /\ stack[global_scope_level].kind = "struct" =>
            Len(stack[global_scope_level].list) \in Nat
      BY <3>1 DEF Frame, FrameOK
    <3> QED
      BY <3>2 DEF Before
  <2>2. Before + Len(Top.list) + 0 <= MaxList
    BY <1>5 DEF PendingIs
  <2> QED
    BY <1>4, <2>1, <2>2, BoundsAssumption
<1>7. Enters(U)
  BY <1>1, <1>4, <1>5 DEF Enters, PendingIs
<1> QED
  BY <1>1, <1>2, <1>3, <1>4, <1>5, <1>6, <1>7 DEF PendingIs

LEMMA EnteringEffect ==
  ASSUME NEW U, Typed(U), Shape, NEW n \in Names, NEW params \in ParamLists, FunDec(n, params)
  PROVE  /\ global_scope_level = 0 /\ global_scope_level' = 1
         /\ var_map' = UpdateVariable(var_map, Parameters(params, 1), clock)
         /\ reply' = [NoReply EXCEPT !.codes = Redefinitions(var_map, Parameters(params, 1), clock)]
         /\ structure_map' = structure_map
         /\ Len(stack') = 1 /\ stack'[1].list = Parameters(params, 1)
         /\ Enters(U)
<1>1. Depth = 1 /\ global_scope_level = 0
  BY Places DEF FunDec
<1>2. global_scope_level + 1 = 1
  BY <1>1
<1>3. /\ global_scope_level' = 1
      /\ var_map' = UpdateVariable(var_map, Parameters(params, 1), clock)
      /\ reply' = [NoReply EXCEPT !.codes = Redefinitions(var_map, Parameters(params, 1), clock)]
      /\ structure_map' = structure_map
  BY <1>2 DEF FunDec, PushScope
<1>4. Closed(U)
  BY DEF Typed
<1>5. /\ Parameters(params, 1) \in Seq(Local(U))
      /\ \A i \in 1 .. Len(Parameters(params, 1)) : Parameters(params, 1)[i].level = 1
  BY <1>4, ParametersAre
<1>6. Enters(U)
  BY <1>1, <1>3, <1>5 DEF Enters
<1>7. Len(stack') = 1 /\ stack'[1].list = Parameters(params, 1)
  <2> DEFINE f == MkFrame("fun", n, Top.type, Parameters(params, 1), FALSE)
  <2>1. stack' = Append(Keep(0), f)
    <3>1. global_scope_level + 1 = 1 /\ Depth - 1 = 0
      BY <1>1
    <3> QED
      BY <3>1 DEF FunDec, Replace
  <2>2. Keep(0) \in Seq(Frame(U)) /\ Len(Keep(0)) = 0
    BY <1>1, FramesAre
  <2>3. f.list = Parameters(params, 1)
    BY DEF MkFrame
  <2> HIDE DEF f
  <2>4. Len(stack') = 1 /\ stack'[1] = f
    BY <2>1, <2>2
  <2> QED
    BY <2>3, <2>4
<1> QED
  BY <1>1, <1>3, <1>6, <1>7

LEMMA ClosingEffect ==
  ASSUME Exact, Shape, ScopeEnd
  PROVE  Closes
<1>1. Depth = global_scope_level /\ global_scope_level > 0
  BY Places DEF ScopeEnd, ScopeKinds
<1> QED
  BY <1>1, PopErases DEF ScopeEnd, PopScope, Closes, Exact

LEMMA RegisteringEffect ==
  ASSUME Exact, NEW U, Typed(U), Shape, FunEnd
  PROVE  /\ Declared(0) \in Function(U)
         /\ Top \in Frame(U) /\ Top.kind = "fun"
         /\ global_scope_level = 1 /\ global_scope_level' = 0
         /\ var_map' = UpdateVariable(Erased(var_map, 1), <<Declared(0)>>, clock)
         /\ reply' = [NoReply EXCEPT !.codes = Redefinitions(Erased(var_map, 1), <<Declared(0)>>, clock)]
         /\ structure_map' = Erased(structure_map, 1)
         /\ ~ GetLocalVariableThrows(Erased(var_map, 1), Declared(0))
         /\ Registers(U)
<1>1. TopIs({"fun"}) /\ AtStmt
  BY DEF FunEnd
<1>2. Depth = 1 /\ global_scope_level = 1 /\ Declared(0) \in Function(U) /\ Top \in Frame(U)
  BY <1>1, DeclaredIs
<1>3. global_scope_level - 1 = 0
  BY <1>2
<1>4. PICK rest \in PopResults(var_map, global_scope_level) :
        /\ var_map' = UpdateVariable(rest, <<Declared(0)>>, clock)
        /\ reply' = [NoReply EXCEPT !.codes = Redefinitions(rest, <<Declared(0)>>, clock)]
        /\ ~ GetLocalVariableThrows(rest, Declared(0))
  BY <1>3 DEF FunEnd
<1>5. structure_map' \in PopResults(structure_map, global_scope_level) /\ global_scope_level' = 0
  BY <1>3 DEF FunEnd
<1>6. rest = Erased(var_map, 1) /\ structure_map' = Erased(structure_map, 1)
  BY <1>2, <1>4, <1>5, PopErases DEF Exact
<1>7. Registers(U)
  BY <1>2, <1>4, <1>5, <1>6 DEF Registers
<1> QED
  BY <1>1, <1>2, <1>4, <1>5, <1>6, <1>7 DEF TopIs

LEMMA DefiningEffect ==
  ASSUME Exact, NEW U, Typed(U), Shape, StructEnd
  PROVE  LET type == CStructure(Top.name, Top.list)
             e    == [name |-> Top.name, type |-> type, level |-> global_scope_level', seq |-> clock + 1]
         IN  /\ Top \in Frame(U) /\ Top.kind = "struct"
             /\ structure_map' = Erased(structure_map, global_scope_level) \union {e}
             /\ reply' = Report(GetLocalStructure(Erased(structure_map, global_scope_level),
                                                  Top.name, global_scope_level - 1))
             /\ stack' = Append(Keep(Depth - 1), MkFrame("def", 0, type, << >>, FALSE))
             /\ Depth = global_scope_level
             /\ Defines
<1> DEFINE type == CStructure(Top.name, Top.list)
           e == [name |-> Top.name, type |-> type, level |-> global_scope_level', seq |-> clock + 1]
<1>1. Depth = global_scope_level /\ global_scope_level > 0 /\ TopIs({"struct"})
  BY Places DEF StructEnd, ScopeKinds
<1>2. Top \in Frame(U) /\ Top.kind = "struct"
  BY <1>1, FramesAre DEF TopIs, Top
<1>3. /\ global_scope_level' = global_scope_level - 1
      /\ var_map' \in PopResults(var_map, global_scope_level)
      /\ stack' = Append(Keep(Depth - 1), MkFrame("def", 0, type, << >>, FALSE))
  BY DEF StructEnd, Replace
<1>4. PICK rest \in PopResults(structure_map, global_scope_level) :
        /\ structure_map' = rest \union {e}
        /\ reply' = Report(GetLocalStructure(rest, Top.name, global_scope_level - 1))
  BY <1>3 DEF StructEnd
<1>5. /\ rest = Erased(structure_map, global_scope_level)
      /\ var_map' = Erased(var_map, global_scope_level)
  BY <1>3, <1>4, PopErases DEF Exact
<1>6. e.level = global_scope_level' /\ e.seq = clock + 1
  OBVIOUS
<1> HIDE DEF e
<1>7. Defines
  BY <1>1, <1>3, <1>4, <1>5, <1>6 DEF Defines
<1> QED
  BY <1>1, <1>2, <1>3, <1>4, <1>5, <1>7 DEF e

LEMMA Effects ==
  ASSUME Exact, NEW U, Typed(U), Shape, Pending, [Next]_vars
  PROVE  \/ Quiet \/ Opens \/ Closes \/ Registers(U) \/ Defines
         \/ DecListEnd
         \/ \E n \in Names, params \in ParamLists : FunDec(n, params)
<1>1. CASE Declarations
  <2>1. CASE FunEnd
    BY <2>1, RegisteringEffect
  <2>2. CASE StructEnd
    BY <2>2, DefiningEffect
  <2> QED
    BY <1>1, <2>1, <2>2, OpeningEffect, QuietEffect DEF Declarations
<1>2. CASE DefListEnd \/ BlockStart \/ WhileStart \/ ScopeEnd
  BY <1>2, QuietEffect, OpeningEffect, ClosingEffect
<1>3. CASE Expressions \/ ExpStmt \/ Return
  BY <1>3, ExpressionStep DEF Quiet, tables
<1>4. CASE Die \/ Finish \/ UNCHANGED vars
  BY <1>4, QuietEffect
<1> QED
  BY <1>1, <1>2, <1>3, <1>4 DEF Next, Statements

-----------------------------------------------------------------------------
(* The entries of a list of variables. *)
LEMMA InsertedFrom ==
  ASSUME NEW U, NEW m, NEW list \in Seq(Entry(U)), NEW c \in Nat, NEW e \in UpdateVariable(m, list, c)
  PROVE  \/ e \in m
         \/ \E i \in 1 .. Len(list) : /\ e.name = list[i].name /\ e.level = list[i].level
                                      /\ e.type = list[i].type /\ e.args = list[i].args
                                      /\ e.func = list[i].func /\ e.seq = c + i
<1> SUFFICES ASSUME e \notin m
             PROVE  \E i \in 1 .. Len(list) : /\ e.name = list[i].name /\ e.level = list[i].level
                                              /\ e.type = list[i].type /\ e.args = list[i].args
                                              /\ e.func = list[i].func /\ e.seq = c + i
  OBVIOUS
<1>1. PICK i \in 1 .. Len(list) : e = [list[i] EXCEPT !.seq = c + i]
  BY DEF UpdateVariable, Inserted
<1>2. list[i] \in Entry(U) /\ c + i \in Nat
  OBVIOUS
<1> QED
  BY <1>1, <1>2, EntryNumbered

AllAt(list, level) == \A i \in 1 .. Len(list) : list[i].level = level

(* Variables of one level collide with entries of that level, and each other. *)
LEMMA CollidingIs ==
  ASSUME NEW U, NEW m, NEW c \in Nat, Stored(m, c, Entry(U)),
         NEW list \in Seq(Local(U)), NEW g \in Nat, g > 0, AllAt(list, g),
         NEW i \in 1 .. Len(list)
  PROVE  /\ CodeOf(m, list, c, i) \in {OK, VARIABLE_REDEFINED}
         /\ i \in Colliding(m, list, c) <=>
              \/ \E e \in m : e.name = list[i].name /\ e.level = g
              \/ \E j \in 1 .. i - 1 : list[j].name = list[i].name
<1>0. m \in SUBSET Entry(U) /\ \A j \in 1 .. Len(list) : list[j].level = g
  BY DEF Stored, AllAt
<1>1. Len(list) \in Nat /\ i - 1 \in 0 .. Len(list)
  OBVIOUS
<1>2. \A j \in 1 .. Len(list) : list[j] \in Local(U) /\ list[j] \in Entry(U) /\ list[j].args = << >>
  <2> TAKE j \in 1 .. Len(list)
  <2>1. list[j] \in Local(U)
    OBVIOUS
  <2> QED
    BY <2>1 DEF Local, Entry
<1>3. list \in Seq(Entry(U))
  BY SeqMonotonic DEF Entry
<1>4. \A e \in Entry(U), k \in Nat : [e EXCEPT !.seq = k] \in Entry(U) /\ [e EXCEPT !.seq = k].seq = k
  <2> TAKE e \in Entry(U), k \in Nat
  <2> QED
    BY EntryNumbered
<1> DEFINE before == Inserted(list, i - 1, c)
           all == m \union before
           C == Collisions(all, list[i])
<1>5. /\ before \in SUBSET Entry(U) /\ IsFiniteSet(before)
      /\ \A e \in before : e.seq \in c + 1 .. c + (i - 1)
      /\ \A e, f \in before : e.seq = f.seq => e = f
  <2> HIDE DEF C, all, before
  <2>1. PICK n \in 0 .. Len(list) : n = i - 1
    BY <1>1
  <2>2. /\ Inserted(list, n, c) \in SUBSET Entry(U)
        /\ IsFiniteSet(Inserted(list, n, c))
        /\ \A e \in Inserted(list, n, c) : e.seq \in c + 1 .. c + n
        /\ \A e, f \in Inserted(list, n, c) : e.seq = f.seq => e = f
    BY <1>3, <1>4, InsertedIs
  <2> QED
    BY <2>1, <2>2 DEF before
<1>6. \A j \in 1 .. i - 1 : /\ [list[j] EXCEPT !.seq = c + j] \in before
                            /\ [list[j] EXCEPT !.seq = c + j].name = list[j].name
                            /\ [list[j] EXCEPT !.seq = c + j].level = g
  <2> TAKE j \in 1 .. i - 1
  <2>1. j \in 1 .. Len(list) /\ c + j \in Nat
    BY <1>1
  <2> QED
    BY <1>0, <1>2, <2>1, Numbering DEF Inserted
<1>7. \A e \in before : \E j \in 1 .. i - 1 : e = [list[j] EXCEPT !.seq = c + j]
  BY DEF Inserted
<1> HIDE DEF before
<1>8. Aged(all)
  <2>1. IsFiniteSet(all)
    BY <1>5, FS_Union DEF Stored
  <2>2. \A e \in all : e.seq \in Nat
    BY <1>1, <1>5 DEF Stored
  <2>3. \A e \in m, f \in before : e.seq # f.seq
    <3> TAKE e \in m, f \in before
    <3>1. e.seq \in 1 .. c /\ f.seq \in c + 1 .. c + (i - 1)
      BY <1>5 DEF Stored
    <3> QED
      BY <1>1, <3>1
  <2> QED
    BY <1>5, <2>1, <2>2, <2>3 DEF Aged, Stored
<1>9. \A e \in all : e.level = g => e.args = << >> /\ e.func = FALSE
  <2> TAKE e \in all
  <2>1. e \in Entry(U)
    BY <1>0, <1>5
  <2> QED
    BY <2>1, EntriesAre
<1>10. C = {e \in all : e.name = list[i].name /\ e.level = g}
  <2>1. list[i].level = g /\ list[i].args = << >>
    BY <1>0, <1>2
  <2>2. CheckArgs(<< >>, << >>)
    BY DEF CheckArgs
  <2> QED
    BY <1>9, <2>1, <2>2 DEF Collisions, Named
<1>11. C # {} => ~ First(C).func
  <2>1. C \in SUBSET all
    BY <1>10
  <2>2. Aged(C)
    BY <1>8, <2>1, SomeAged
  <2> HIDE DEF C, all
  <2>3. C # {} => First(C) \in C
    BY <2>2, FirstIs
  <2> QED
    BY <1>9, <1>10, <2>3
<1>12. C # {} <=> \/ \E e \in m : e.name = list[i].name /\ e.level = g
                  \/ \E j \in 1 .. i - 1 : list[j].name = list[i].name
  <2>1. C # {} <=> \/ \E e \in m : e.name = list[i].name /\ e.level = g
                   \/ \E e \in before : e.name = list[i].name /\ e.level = g
    BY <1>10
  <2> HIDE DEF C
  <2>2. (\E e \in before : e.name = list[i].name /\ e.level = g)
          <=> \E j \in 1 .. i - 1 : list[j].name = list[i].name
    <3>1. ASSUME NEW e \in before, e.name = list[i].name
          PROVE  \E j \in 1 .. i - 1 : list[j].name = list[i].name
      <4>1. PICK j \in 1 .. i - 1 : e = [list[j] EXCEPT !.seq = c + j]
        BY <1>7
      <4> QED
        BY <1>6, <3>1, <4>1
    <3>2. ASSUME NEW j \in 1 .. i - 1, list[j].name = list[i].name
          PROVE  \E e \in before : e.name = list[i].name /\ e.level = g
      <4>1. PICK e : e = [list[j] EXCEPT !.seq = c + j]
        OBVIOUS
      <4>2. e \in before /\ e.name = list[j].name /\ e.level = g
        BY <1>6, <4>1
      <4> QED
        BY <3>2, <4>2
    <3> QED
      BY <3>1, <3>2
  <2> QED
    BY <2>1, <2>2
<1>13. CodeOf(m, list, c, i) = IF C = {} THEN OK ELSE VARIABLE_REDEFINED
  BY <1>11 DEF CodeOf, GetLocalVariable, before
<1> HIDE DEF C
<1> QED
  BY <1>12, <1>13 DEF Colliding, OK, VARIABLE_REDEFINED

(* No entry is deeper than the level counter, younger ones are in no outer scope. *)
Layers == Layered(var_map, global_scope_level) /\ Layered(structure_map, global_scope_level)

LEMMA LayersStep ==
  ASSUME Exact, NEW U, Typed(U), Shape, Pending, Layers, [Next]_vars
  PROVE  Layers'
<1> DEFINE g == global_scope_level
<1>1. g \in Nat /\ clock \in Nat
  BY DEF Shape, Typed
<1>2. /\ \A e \in var_map : e.level \in Nat
      /\ \A e \in structure_map : e.level \in Nat
      /\ Stored(var_map, clock, Entry(U)) /\ Stored(structure_map, clock, Structure(U))
  <2>1. Stored(var_map, clock, Entry(U)) /\ Stored(structure_map, clock, Structure(U))
    BY DEF Typed
  <2>2. \A e \in Entry(U) : e.level \in Nat
    BY EntriesAre
  <2>3. \A e \in Structure(U) : e.level \in Nat
    BY DEF Structure
  <2> QED
    BY <2>1, <2>2, <2>3 DEF Stored
<1>3. \A e \in Entry(U), k \in Nat : /\ [e EXCEPT !.seq = k] \in Entry(U)
                                     /\ [e EXCEPT !.seq = k].seq = k
                                     /\ [e EXCEPT !.seq = k].level = e.level
  <2> TAKE e \in Entry(U), k \in Nat
  <2> QED
    BY EntryNumbered
<1>4. \A m, c : Stored(m, c, Entry(U)) => Stored(Erased(m, g), c, Entry(U))
  BY FS_Subset DEF Stored, Erased
<1>5. \A m, c : Stored(m, c, Structure(U)) => Stored(Erased(m, g), c, Structure(U))
  BY FS_Subset DEF Stored, Erased
<1>6. Layered(Erased(var_map, g), g - 1) /\ Layered(Erased(structure_map, g), g - 1)
  BY <1>1, <1>2, ErasedLayered DEF Layers
<1>7. CASE Quiet
  BY <1>7 DEF Quiet, Layers
<1>8. \A m : (\A e \in m : e.level \in Nat) /\ Layered(m, g) => Layered(m, g + 1)
  BY <1>1 DEF Layered
<1>9. CASE Opens
  BY <1>2, <1>8, <1>9 DEF Opens, Layers
<1>10. CASE Enters(U)
  <2>1. PICK list \in Seq(Local(U)) :
          /\ \A i \in 1 .. Len(list) : list[i].level = global_scope_level'
          /\ var_map' = UpdateVariable(var_map, list, clock)
    BY <1>10 DEF Enters
  <2>2. global_scope_level' \in Nat /\ structure_map' = structure_map
    BY <1>1, <1>10 DEF Enters
  <2>3. Layered(var_map, global_scope_level') /\ Layered(structure_map, global_scope_level')
    BY <1>2, <1>8, <1>10 DEF Enters, Layers
  <2>4. list \in Seq(Entry(U))
    BY SeqMonotonic DEF Entry
  <2> HIDE DEF g
  <2>5. PICK level : level = global_scope_level'
    OBVIOUS
  <2>6. Layered(UpdateVariable(var_map, list, clock), level)
    BY <1>1, <1>2, <1>3, <2>1, <2>2, <2>3, <2>4, <2>5, ListLayered
  <2> QED
    BY <2>1, <2>2, <2>3, <2>5, <2>6 DEF Layers
<1>11. CASE Closes
  BY <1>6, <1>11 DEF Closes, Layers
<1>12. CASE Registers(U)
  <2>1. PICK fun \in Function(U) : var_map' = UpdateVariable(Erased(var_map, 1), <<fun>>, clock)
    BY <1>12 DEF Registers
  <2>2. g = 1 /\ global_scope_level' = 0 /\ structure_map' = Erased(structure_map, 1) /\ g - 1 = 0
    BY <1>12 DEF Registers
  <2>3. fun \in Entry(U) /\ fun.level = 0
    BY DEF Entry, Function
  <2>4. <<fun>> \in Seq(Entry(U)) /\ \A i \in 1 .. Len(<<fun>>) : <<fun>>[i].level = 0
    BY <2>3
  <2>5. Stored(Erased(var_map, 1), clock, Entry(U)) /\ Layered(Erased(var_map, 1), 0)
    BY <1>2, <1>4, <1>6, <2>2
  <2>6. Layered(UpdateVariable(Erased(var_map, 1), <<fun>>, clock), 0)
    BY <1>1, <1>3, <2>4, <2>5, ListLayered
  <2>7. Layered(Erased(structure_map, 1), 0)
    BY <1>6, <2>2
  <2> QED
    BY <2>1, <2>2, <2>6, <2>7 DEF Layers
<1>13. CASE Defines
  <2>1. PICK e : /\ e.level = global_scope_level' /\ e.seq = clock + 1
                 /\ structure_map' = Erased(structure_map, g) \union {e}
    BY <1>13 DEF Defines
  <2>2. global_scope_level' = g - 1 /\ g - 1 \in Nat /\ var_map' = Erased(var_map, g)
    BY <1>1, <1>13 DEF Defines
  <2>3. Stored(Erased(structure_map, g), clock, Structure(U)) /\ Layered(Erased(structure_map, g), e.level)
    BY <1>2, <1>5, <1>6, <2>1, <2>2
  <2>4. Layered(Erased(structure_map, g) \union {e}, e.level)
    BY <1>1, <2>1, <2>2, <2>3, OneLayered
  <2> QED
    BY <1>6, <2>1, <2>2, <2>4 DEF Layers
<1> QED
  BY <1>7, <1>9, <1>10, <1>11, <1>12, <1>13, Effects, DeclaringEffect, EnteringEffect

=============================================================================
