----------------------------- MODULE ListProofs -----------------------------
(***************************************************************************)
(* The lists of labs 1 and 5.                                              *)
(*                                                                         *)
(* The linked list of lab 1 for every set of values and any finite number  *)
(* of addresses: the chain holds allocated nodes only, each of them once,  *)
(* as many as the head counts, and the list is the sequence that           *)
(* linked_list.h describes.                                                *)
(*                                                                         *)
(* The list of lab 5 for every set of keys and values and every length: a  *)
(* key's two nodes stay neighbours, and the list is a map when no caller   *)
(* inserts the youngest key again.                                         *)
(***************************************************************************)
EXTENDS LinkedList, SymtabList, FiniteSetTheorems, FunctionTheorems, SequenceTheorems, TLAPS

(* Induction over the natural numbers, for a set instead of a predicate. *)
LEMMA Induction ==
  ASSUME NEW S, 0 \in S, \A k \in Nat : k \in S => k + 1 \in S
  PROVE  \A k \in Nat : k \in S
<1> DEFINE T == Nat \ S
<1> SUFFICES ASSUME T # {} PROVE FALSE
  OBVIOUS
<1>1. IsWellFoundedOn(OpToRel(<, Nat), Nat)
  BY NatLessThanWellFounded
<1>2. PICK x \in T : \A y \in T : ~ (<<y, x>> \in OpToRel(<, Nat))
  <2> HIDE DEF T
  <2>1. T \subseteq Nat
    BY DEF T
  <2> QED
    BY <1>1, <2>1, WFMin
<1>3. x \in Nat /\ x # 0 /\ x - 1 \in Nat
  OBVIOUS
<1>4. <<x - 1, x>> \in OpToRel(<, Nat)
  BY <1>3 DEF OpToRel
<1>5. x - 1 \notin T
  BY <1>2, <1>4
<1> QED
  BY <1>3, <1>5

-----------------------------------------------------------------------------
(***************************************************************************)
(* What Those keeps.  It is a fold, a recursive function on the sets of    *)
(* indices; that there is such a function is proved by adding one index at *)
(* a time.                                                                 *)
(***************************************************************************)
LEMMA MaxIs ==
  ASSUME NEW k \in Nat, NEW t \in SUBSET (1 .. k), k \in t
  PROVE  Max(t) = k
<1>1. \A y \in t : k >= y
  OBVIOUS
<1>2. \A x \in t : (\A y \in t : x >= y) => x = k
  <2> TAKE x \in t
  <2>1. x \in Nat /\ x <= k
    OBVIOUS
  <2> QED
    BY <2>1
<1> QED
  BY <1>1, <1>2 DEF Max

Turns(F, s, N, S) ==
  F = [t \in SUBSET (1 .. N) |->
         IF t = {} THEN << >> ELSE Take(F[t \ {Max(t)}], s[Max(t)], S)]

LEMMA FoldExists ==
  ASSUME NEW s, NEW N \in Nat, NEW S
  PROVE  \E F : Turns(F, s, N, S)
<1> DEFINE K == {k \in Nat : \E F : Turns(F, s, k, S)}
<1>1. 0 \in K
  <2> DEFINE F == [t \in SUBSET (1 .. 0) |-> << >>]
  <2>1. \A t \in SUBSET (1 .. 0) : t = {}
    OBVIOUS
  <2>2. Turns(F, s, 0, S)
    BY <2>1 DEF Turns
  <2> QED
    BY <2>2
<1>2. ASSUME NEW k \in Nat, k \in K
      PROVE  k + 1 \in K
  <2> PICK F : Turns(F, s, k, S)
    BY <1>2
  <2> DEFINE G == [t \in SUBSET (1 .. k + 1) |->
                     IF k + 1 \in t THEN Take(F[t \ {k + 1}], s[k + 1], S) ELSE F[t]]
  <2>1. \A t \in SUBSET (1 .. k + 1) : t \ {k + 1} \in SUBSET (1 .. k)
    BY <1>2
  <2>2. \A t \in SUBSET (1 .. k) : t \in SUBSET (1 .. k + 1) /\ k + 1 \notin t /\ G[t] = F[t]
    BY <1>2
  <2>3. ASSUME NEW t \in SUBSET (1 .. k + 1)
        PROVE  G[t] = IF t = {} THEN << >> ELSE Take(G[t \ {Max(t)}], s[Max(t)], S)
    <3>1. CASE k + 1 \in t
      <4>1. Max(t) = k + 1
        BY <1>2, <3>1, MaxIs
      <4>2. G[t] = Take(F[t \ {k + 1}], s[k + 1], S)
        BY <3>1
      <4>3. G[t \ {k + 1}] = F[t \ {k + 1}]
        BY <2>1, <2>2
      <4> HIDE DEF G
      <4> QED
        BY <3>1, <4>1, <4>2, <4>3
    <3>2. CASE k + 1 \notin t
      <4>1. t \in SUBSET (1 .. k)
        BY <2>1, <3>2
      <4>2. G[t] = F[t]
        BY <2>2, <4>1
      <4>3. F[t] = IF t = {} THEN << >> ELSE Take(F[t \ {Max(t)}], s[Max(t)], S)
        BY <4>1 DEF Turns
      <4>4. t \ {Max(t)} \in SUBSET (1 .. k)
        BY <4>1
      <4>5. G[t \ {Max(t)}] = F[t \ {Max(t)}]
        BY <2>2, <4>4
      <4> HIDE DEF G
      <4> QED
        BY <4>2, <4>3, <4>5
    <3> QED
      BY <3>1, <3>2
  <2>4. G = [t \in SUBSET (1 .. k + 1) |-> G[t]]
    OBVIOUS
  <2> HIDE DEF G
  <2>5. Turns(G, s, k + 1, S)
    BY <2>3, <2>4 DEF Turns
  <2> QED
    BY <1>2, <2>5
<1> HIDE DEF K
<1>3. \A k \in Nat : k \in K
  BY <1>1, <1>2, Induction
<1> QED
  BY <1>3 DEF K

(* What is taken of s until each of its positions. *)
Filtering(h, s, N, S) ==
  /\ h[0] = << >>
  /\ \A k \in 1 .. N : h[k] = Take(h[k - 1], s[k], S)
  /\ h[N] = Those(s, S)

LEMMA LoopIs ==
  ASSUME NEW s, NEW S, NEW N \in Nat, DOMAIN s = 1 .. N
  PROVE  \E h : Filtering(h, s, N, S)
<1> DEFINE iter == CHOOSE F : Turns(F, s, N, S)
<1>1. Those(s, S) = iter[1 .. N]
  BY DEF Those, FoldLeft, MapThenFoldSet, Turns
<1>3. Turns(iter, s, N, S)
  BY FoldExists
<1> HIDE DEF iter
<1>4. \A t \in SUBSET (1 .. N) :
        iter[t] = IF t = {} THEN << >> ELSE Take(iter[t \ {Max(t)}], s[Max(t)], S)
  BY <1>3 DEF Turns
<1> DEFINE h == [k \in 0 .. N |-> iter[1 .. k]]
<1>5. \A k \in 0 .. N : 1 .. k \in SUBSET (1 .. N)
  OBVIOUS
<1>6. h[0] = << >>
  <2>1. 1 .. 0 = {}
    OBVIOUS
  <2>2. iter[1 .. 0] = << >>
    BY <1>4, <2>1
  <2> QED
    BY <2>2
<1>7. \A k \in 1 .. N : h[k] = Take(h[k - 1], s[k], S)
  <2> SUFFICES ASSUME NEW k \in 1 .. N
               PROVE  h[k] = Take(h[k - 1], s[k], S)
    OBVIOUS
  <2> DEFINE t == 1 .. k
  <2>0. k \in Nat /\ 1 <= k /\ k <= N
    OBVIOUS
  <2>9. t \in SUBSET (1 .. N) /\ t \in SUBSET (1 .. k)
    BY <2>0
  <2>8. k \in t
    BY <2>0
  <2>1. k \in Nat /\ t \in SUBSET (1 .. k) /\ k \in t /\ t # {} /\ t \in SUBSET (1 .. N)
    BY <2>0, <2>8, <2>9
  <2>2. t \ {k} = 1 .. k - 1
    OBVIOUS
  <2>3. h[k] = iter[t] /\ h[k - 1] = iter[1 .. k - 1]
    OBVIOUS
  <2>4. Max(t) = k
    BY <2>1, MaxIs
  <2> HIDE DEF t, h
  <2>5. iter[t] = Take(iter[t \ {Max(t)}], s[Max(t)], S)
    BY <1>4, <2>1
  <2> QED
    BY <2>2, <2>3, <2>4, <2>5
<1>8. h[N] = Those(s, S)
  BY <1>1
<1> HIDE DEF h
<1> QED
  BY <1>6, <1>7, <1>8 DEF Filtering

(* d holds those of the first k elements of c that are in S, each of them once. *)
Part(d, c, k, S) ==
  /\ d \in Seq(S)
  /\ \A j \in 1 .. Len(d) : \E i \in 1 .. k : d[j] = c[i]
  /\ \A j, m \in 1 .. Len(d) : d[j] = d[m] => j = m
  /\ Len(d) = k - Cardinality({i \in 1 .. k : c[i] \notin S})

Once(c) == \A i, j \in 1 .. Len(c) : c[i] = c[j] => i = j

LEMMA PartGrows ==
  ASSUME NEW T, NEW c \in Seq(T), Once(c), NEW S, NEW k \in Nat, k + 1 <= Len(c),
         NEW d, Part(d, c, k, S)
  PROVE  Part(Take(d, c[k + 1], S), c, k + 1, S)
<1> DEFINE x == c[k + 1]
           e == Take(d, x, S)
           Out(n) == {i \in 1 .. n : c[i] \notin S}
<1>1. \A n \in Nat : IsFiniteSet(Out(n)) /\ Cardinality(Out(n)) \in Nat
  <2> TAKE n \in Nat
  <2>1. IsFiniteSet(1 .. n)
    BY FS_Interval
  <2>2. Out(n) \in SUBSET (1 .. n)
    OBVIOUS
  <2> HIDE DEF Out
  <2>3. IsFiniteSet(Out(n))
    BY <2>1, <2>2, FS_Subset
  <2> QED
    BY <2>3, FS_CardinalityType
<1>2. /\ d \in Seq(S) /\ Len(d) \in Nat
      /\ \A j \in 1 .. Len(d) : \E i \in 1 .. k : d[j] = c[i]
      /\ \A j, m \in 1 .. Len(d) : d[j] = d[m] => j = m
      /\ Len(d) = k - Cardinality(Out(k))
  <2>1. /\ d \in Seq(S)
        /\ \A j \in 1 .. Len(d) : \E i \in 1 .. k : d[j] = c[i]
        /\ \A j, m \in 1 .. Len(d) : d[j] = d[m] => j = m
        /\ Len(d) = k - Cardinality(Out(k))
    BY Zenon DEF Part
  <2>2. Len(d) \in Nat
    BY <2>1
  <2> HIDE DEF Out
  <2> QED
    BY <2>1, <2>2
<1>3. \A j \in 1 .. Len(d) : d[j] # x
  <2> SUFFICES ASSUME NEW j \in 1 .. Len(d), d[j] = x
               PROVE  FALSE
    OBVIOUS
  <2>1. PICK i \in 1 .. k : d[j] = c[i]
    BY <1>2
  <2>2. i \in 1 .. Len(c) /\ k + 1 \in 1 .. Len(c) /\ i # k + 1
    OBVIOUS
  <2> QED
    BY <2>1, <2>2 DEF Once
<1>4. CASE x \in S
  <2>1. Out(k + 1) = Out(k)
    <3>1. \A i \in 1 .. k + 1 : i \in 1 .. k \/ i = k + 1
      OBVIOUS
    <3>2. \A i \in 1 .. k : i \in 1 .. k + 1
      OBVIOUS
    <3> QED
      BY <1>4, <3>1, <3>2
  <2> HIDE DEF x, Out
  <2>2. /\ e \in Seq(S \cup {x}) /\ Len(e) = Len(d) + 1
        /\ \A i \in 1 .. Len(d) : e[i] = d[i]
        /\ e[Len(d) + 1] = x
    <3>1. e = Append(d, x)
      BY <1>4 DEF Take
    <3> HIDE DEF e
    <3> QED
      BY <1>2, <1>4, <3>1
  <2>3. S \cup {x} = S
    BY <1>4
  <2> HIDE DEF e
  <2>4. \A j \in 1 .. Len(e) : \E i \in 1 .. k + 1 : e[j] = c[i]
    <3> TAKE j \in 1 .. Len(e)
    <3>1. CASE j \in 1 .. Len(d)
      <4>1. PICK i \in 1 .. k : d[j] = c[i]
        BY <1>2, <3>1
      <4>2. i \in 1 .. k + 1
        OBVIOUS
      <4> QED
        BY <2>2, <3>1, <4>1, <4>2
    <3>2. CASE j = Len(d) + 1
      <4>1. e[j] = c[k + 1]
        BY <2>2, <3>2 DEF x
      <4> QED
        BY <4>1
    <3> QED
      BY <1>2, <2>2, <3>1, <3>2
  <2>5. \A j, m \in 1 .. Len(e) : e[j] = e[m] => j = m
    BY <1>2, <1>3, <2>2
  <2>6. Len(e) = (k + 1) - Cardinality(Out(k + 1))
    BY <1>1, <1>2, <2>1, <2>2
  <2> QED
    BY <2>2, <2>3, <2>4, <2>5, <2>6 DEF Part, e, x, Out
<1>5. CASE x \notin S
  <2>1. Out(k + 1) = Out(k) \cup {k + 1} /\ k + 1 \notin Out(k)
    <3>1. \A i \in 1 .. k + 1 : i \in 1 .. k \/ i = k + 1
      OBVIOUS
    <3>2. (\A i \in 1 .. k : i \in 1 .. k + 1) /\ k + 1 \in 1 .. k + 1 /\ k + 1 \notin 1 .. k
      OBVIOUS
    <3> QED
      BY <1>5, <3>1, <3>2
  <2> HIDE DEF x, Out
  <2>2. e = d
    BY <1>5 DEF Take
  <2>3. Cardinality(Out(k + 1)) = Cardinality(Out(k)) + 1
    BY <1>1, <2>1, FS_AddElement
  <2>4. Len(d) = (k + 1) - Cardinality(Out(k + 1))
    <3>1. Cardinality(Out(k)) \in Nat
      BY <1>1
    <3> QED
      BY <1>2, <2>3, <3>1
  <2>5. \A j \in 1 .. Len(d) : \E i \in 1 .. k + 1 : d[j] = c[i]
    <3> TAKE j \in 1 .. Len(d)
    <3>1. PICK i \in 1 .. k : d[j] = c[i]
      BY <1>2
    <3>2. i \in 1 .. k + 1
      OBVIOUS
    <3> QED
      BY <3>1, <3>2
  <2>6. Part(d, c, k + 1, S)
    BY <1>2, <2>4, <2>5 DEF Part, Out
  <2> QED
    BY <2>2, <2>6 DEF e, x
<1> QED
  BY <1>4, <1>5

LEMMA ThoseAre ==
  ASSUME NEW T, NEW c \in Seq(T), Once(c), NEW S
  PROVE  Part(Those(c, S), c, Len(c), S)
<1> DEFINE N == Len(c)
<1>1. N \in Nat /\ DOMAIN c = 1 .. N
  OBVIOUS
<1>2. PICK h : Filtering(h, c, N, S)
  BY <1>1, LoopIs
<1> DEFINE K == {k \in Nat : k <= N => Part(h[k], c, k, S)}
<1>3. 0 \in K
  <2>1. {i \in 1 .. 0 : c[i] \notin S} = {}
    OBVIOUS
  <2>2. Cardinality({i \in 1 .. 0 : c[i] \notin S}) = 0
    BY <2>1, FS_EmptySet
  <2>3. Part(<< >>, c, 0, S)
    BY <2>2 DEF Part
  <2> QED
    BY <1>2, <2>3 DEF Filtering
<1>4. ASSUME NEW k \in Nat, k \in K
      PROVE  k + 1 \in K
  <2> SUFFICES ASSUME k + 1 <= N
               PROVE  Part(h[k + 1], c, k + 1, S)
    BY DEF K
  <2>1. Part(h[k], c, k, S)
    BY <1>1, <1>4
  <2>2. h[k + 1] = Take(h[k], c[k + 1], S)
    BY <1>1, <1>2 DEF Filtering
  <2> QED
    BY <2>1, <2>2, PartGrows
<1> HIDE DEF K
<1>5. N \in K
  BY <1>1, <1>3, <1>4, Induction
<1> QED
  BY <1>1, <1>2, <1>5 DEF K, Filtering

(***************************************************************************)
(* The values of the nodes of a chain.  To leave out nodes by their values *)
(* is to leave out these values.                                           *)
(***************************************************************************)
Image(f, c) == [i \in DOMAIN c |-> f[c[i]]]

LEMMA ImageIs ==
  ASSUME NEW T, NEW c \in Seq(T), NEW f
  PROVE  /\ \A U : (\A x \in T : f[x] \in U) => Image(f, c) \in Seq(U)
         /\ Len(Image(f, c)) = Len(c)
         /\ \A i \in 1 .. Len(c) : Image(f, c)[i] = f[c[i]]
<1>1. DOMAIN c = 1 .. Len(c) /\ Len(c) \in Nat /\ \A i \in 1 .. Len(c) : c[i] \in T
  OBVIOUS
<1>2. Image(f, c) = [i \in 1 .. Len(c) |-> f[c[i]]]
  BY <1>1 DEF Image
<1>3. ASSUME NEW U, \A x \in T : f[x] \in U
      PROVE  Image(f, c) \in Seq(U)
  BY <1>1, <1>2, <1>3
<1> QED
  BY <1>1, <1>2, <1>3

LEMMA ImageOfAppended ==
  ASSUME NEW T, NEW c \in Seq(T), NEW f, NEW x
  PROVE  Image(f, Append(c, x)) = Append(Image(f, c), f[x])
<1> DEFINE V == T \cup {x}
           U == {f[y] : y \in V}
<1>0. Len(c) \in Nat /\ c \in Seq(V) /\ x \in V /\ \A y \in V : f[y] \in U
  OBVIOUS
<1> HIDE DEF V, U
<1>1. PICK d : d = Append(c, x)
  OBVIOUS
<1>2. /\ d \in Seq(V) /\ Len(d) = Len(c) + 1
      /\ \A i \in 1 .. Len(c) : d[i] = c[i]
      /\ d[Len(c) + 1] = x
  BY <1>0, <1>1
<1>3. PICK a : a = Image(f, d)
  OBVIOUS
<1>4. PICK s : s = Image(f, c)
  OBVIOUS
<1>5. /\ a \in Seq(U) /\ Len(a) = Len(d)
      /\ \A i \in 1 .. Len(d) : a[i] = f[d[i]]
  BY <1>0, <1>2, <1>3, ImageIs
<1>6. /\ s \in Seq(U) /\ Len(s) = Len(c)
      /\ \A i \in 1 .. Len(c) : s[i] = f[c[i]]
  BY <1>0, <1>4, ImageIs
<1>7. PICK b : b = Append(s, f[x])
  OBVIOUS
<1>8. /\ b \in Seq(U) /\ Len(b) = Len(c) + 1
      /\ \A i \in 1 .. Len(c) : b[i] = f[c[i]]
      /\ b[Len(c) + 1] = f[x]
  BY <1>0, <1>6, <1>7
<1>9. \A i \in 1 .. Len(c) + 1 : a[i] = b[i]
  BY <1>0, <1>2, <1>5, <1>8
<1>10. a = b
  BY <1>0, <1>2, <1>5, <1>8, <1>9
<1> QED
  BY <1>1, <1>3, <1>4, <1>7, <1>10

LEMMA ThoseOfImage ==
  ASSUME NEW T, NEW c \in Seq(T), NEW S, NEW f, NEW V,
         \A i \in 1 .. Len(c) : c[i] \in S <=> f[c[i]] \in V
  PROVE  Those(Image(f, c), V) = Image(f, Those(c, S))
<1> DEFINE N == Len(c)
           b == Image(f, c)
<1>1. N \in Nat /\ DOMAIN c = 1 .. N
  OBVIOUS
<1>2. DOMAIN b = 1 .. N /\ \A i \in 1 .. N : b[i] = f[c[i]]
  BY <1>1 DEF Image
<1> HIDE DEF b
<1>3. PICK h : Filtering(h, c, N, S)
  BY <1>1, LoopIs
<1>4. PICK g : Filtering(g, b, N, V)
  BY <1>1, <1>2, LoopIs
<1> DEFINE K == {k \in Nat : k <= N => h[k] \in Seq(T) /\ g[k] = Image(f, h[k])}
<1>5. 0 \in K
  <2>1. Image(f, << >>) = << >>
    BY DEF Image
  <2>2. h[0] = << >> /\ g[0] = << >>
    BY <1>3, <1>4 DEF Filtering
  <2>3. h[0] \in Seq(T) /\ g[0] = Image(f, h[0])
    BY <2>1, <2>2
  <2> QED
    BY <2>3
<1>6. ASSUME NEW k \in Nat, k \in K
      PROVE  k + 1 \in K
  <2> SUFFICES ASSUME k + 1 <= N
               PROVE  h[k + 1] \in Seq(T) /\ g[k + 1] = Image(f, h[k + 1])
    BY DEF K
  <2>0. k + 1 \in 1 .. N
    BY <1>1
  <2>1. h[k] \in Seq(T) /\ g[k] = Image(f, h[k])
    BY <1>1, <1>6
  <2>2. h[k + 1] = Take(h[k], c[k + 1], S) /\ g[k + 1] = Take(g[k], b[k + 1], V)
    BY <2>0, <1>3, <1>4 DEF Filtering
  <2>3. b[k + 1] = f[c[k + 1]] /\ c[k + 1] \in T /\ (c[k + 1] \in S <=> f[c[k + 1]] \in V)
    BY <1>2, <2>0
  <2>4. CASE c[k + 1] \in S
    <3>1. h[k + 1] = Append(h[k], c[k + 1]) /\ g[k + 1] = Append(g[k], f[c[k + 1]])
      BY <2>2, <2>3, <2>4 DEF Take
    <3>2. Image(f, Append(h[k], c[k + 1])) = Append(Image(f, h[k]), f[c[k + 1]])
      <4> PICK d, x : d = h[k] /\ x = c[k + 1]
        OBVIOUS
      <4>1. d \in Seq(T)
        BY <2>1
      <4>2. Image(f, Append(d, x)) = Append(Image(f, d), f[x])
        BY <4>1, ImageOfAppended
      <4> HIDE DEF K
      <4> QED
        BY <4>2
    <3>3. Append(h[k], c[k + 1]) \in Seq(T)
      BY <2>1, <2>3
    <3> QED
      BY <2>1, <3>1, <3>2, <3>3
  <2>5. CASE c[k + 1] \notin S
    BY <2>1, <2>2, <2>3, <2>5 DEF Take
  <2> QED
    BY <2>4, <2>5
<1> HIDE DEF K
<1>7. N \in K
  BY <1>1, <1>5, <1>6, Induction
<1>8. g[N] = Image(f, h[N])
  BY <1>1, <1>7 DEF K
<1> QED
  BY <1>3, <1>4, <1>8 DEF Filtering, b

-----------------------------------------------------------------------------
(***************************************************************************)
(* The chain of a list: the nodes behind the head, each of them once, and  *)
(* behind the last one NULL.                                               *)
(***************************************************************************)
Node(c, i) == IF i = 0 THEN head ELSE c[i]

Leads(links, c) ==
  \A i \in 0 .. Len(c) : links[Node(c, i)] = IF i = Len(c) THEN NULL ELSE c[i + 1]

Listed(links, c) ==
  /\ head \in DOMAIN links
  /\ c \in Seq(DOMAIN links \ {head})
  /\ Once(c)
  /\ Leads(links, c)

(* What the moves along the pointers end at is determined by the pointers. *)
Walked(node, links, N) ==
  node = [k \in 0 .. N |-> IF k = 0 THEN head
                           ELSE IF node[k - 1] \in DOMAIN links THEN links[node[k - 1]] ELSE NULL]

LEMMA WalkedOnce ==
  ASSUME NEW links, NEW N \in Nat, NEW node, Walked(node, links, N),
         NEW other, Walked(other, links, N)
  PROVE  node = other
<1> DEFINE K == {k \in Nat : k <= N => node[k] = other[k]}
           Step(f) == \A k \in 0 .. N :
             f[k] = IF k = 0 THEN head
                    ELSE IF f[k - 1] \in DOMAIN links THEN links[f[k - 1]] ELSE NULL
<1>1. Step(node) /\ Step(other)
  BY DEF Walked
<1>2. 0 \in K
  BY <1>1
<1>3. ASSUME NEW k \in Nat, k \in K
      PROVE  k + 1 \in K
  <2>1. k + 1 <= N => node[k] = other[k]
    BY <1>3
  <2>2. ASSUME k + 1 <= N
        PROVE  node[k + 1] = other[k + 1]
    <3>1. k + 1 \in 0 .. N /\ k + 1 # 0 /\ (k + 1) - 1 = k
      BY <2>2
    <3> QED
      BY <1>1, <2>1, <2>2, <3>1
  <2> QED
    BY <2>2
<1> HIDE DEF K
<1>4. \A k \in 0 .. N : k \in K
  BY <1>2, <1>3, Induction
<1>5. \A k \in 0 .. N : node[k] = other[k]
  BY <1>4 DEF K
<1>6. node = [k \in 0 .. N |-> node[k]] /\ other = [k \in 0 .. N |-> other[k]]
  BY DEF Walked
<1> QED
  BY <1>5, <1>6

LEMMA MovesAre ==
  ASSUME NEW links, Cardinality(DOMAIN links) \in Nat,
         NEW node, Walked(node, links, Cardinality(DOMAIN links))
  PROVE  Moves(links) = node
<1> DEFINE N == Cardinality(DOMAIN links)
           moves == CHOOSE f : Walked(f, links, N)
<1>1. Moves(links) = moves
  BY DEF Moves, Walked
<1>2. Walked(moves, links, N)
  OBVIOUS
<1> HIDE DEF moves, N
<1> QED
  BY <1>1, <1>2, WalkedOnce DEF N

LEMMA ChainIs ==
  ASSUME NEW links, DOMAIN links \subseteq Addresses, NEW c, Listed(links, c)
  PROVE  ChainOf(links) = c
<1> DEFINE H == DOMAIN links
           N == Cardinality(H)
           L == Len(c)
           node == [k \in 0 .. N |-> IF k <= L THEN Node(c, k) ELSE NULL]
<1>1. IsFiniteSet(H) /\ N \in Nat
  <2>1. IsFiniteSet(H)
    BY FS_Subset, MemoryAssumption
  <2> QED
    BY <2>1, FS_CardinalityType
<1>2. /\ c \in Seq(H \ {head}) /\ L \in Nat /\ head \in H /\ NULL \notin H
      /\ \A i \in 1 .. L : c[i] \in H /\ c[i] # head
      /\ \A i, j \in 1 .. L : c[i] = c[j] => i = j
      /\ \A i \in 0 .. L : links[Node(c, i)] = IF i = L THEN NULL ELSE c[i + 1]
  <2>1. c \in Seq(H \ {head}) /\ head \in H /\ NULL \notin H
    BY MemoryAssumption DEF Listed
  <2>2. L \in Nat /\ \A i \in 1 .. L : c[i] \in H /\ c[i] # head
    BY <2>1
  <2>3. \A i, j \in 1 .. L : c[i] = c[j] => i = j
    BY DEF Listed, Once
  <2>4. \A i \in 0 .. L : links[Node(c, i)] = IF i = L THEN NULL ELSE c[i + 1]
    BY DEF Listed, Leads
  <2> QED
    BY <2>1, <2>2, <2>3, <2>4
<1> HIDE DEF H, N, L
<1>3. L <= N
  <2> DEFINE f == [i \in 1 .. L |-> c[i]]
  <2>1. f \in [1 .. L -> H] /\ \A i, j \in 1 .. L : f[i] = f[j] => i = j
    BY <1>2
  <2> HIDE DEF f
  <2>2. f \in Injection(1 .. L, H)
    BY <2>1, Fun_IsInj
  <2>3. Cardinality(1 .. L) <= N
    BY <1>1, <2>2, FS_Injection DEF N
  <2>4. Cardinality(1 .. L) = L
    <3>1. Cardinality(1 .. L) = IF 1 > L THEN 0 ELSE L - 1 + 1
      BY <1>2, FS_Interval
    <3> QED
      BY <1>2, <3>1
  <2> QED
    BY <2>3, <2>4
<1>4. \A i \in 0 .. L : Node(c, i) \in H
  BY <1>2 DEF Node
<1>5. ASSUME NEW k \in 0 .. N
      PROVE  node[k] = IF k = 0 THEN head
                       ELSE IF node[k - 1] \in H THEN links[node[k - 1]] ELSE NULL
  <2>1. CASE k = 0
    BY <1>2, <2>1 DEF Node
  <2>2. CASE k # 0 /\ k <= L
    <3>1. k - 1 \in 0 .. L /\ k - 1 # L /\ (k - 1) + 1 = k /\ k - 1 \in 0 .. N
      BY <1>1, <1>2, <1>3, <2>2
    <3>2. node[k] = c[k] /\ node[k - 1] = Node(c, k - 1)
      BY <1>1, <1>2, <3>1, <2>2 DEF Node
    <3>3. links[Node(c, k - 1)] = c[k] /\ Node(c, k - 1) \in H
      BY <1>2, <1>4, <3>1
    <3> HIDE DEF node
    <3> QED
      BY <2>2, <3>2, <3>3
  <2>3. CASE k = L + 1
    <3>1. k - 1 = L /\ k - 1 \in 0 .. N /\ ~ (k <= L) /\ L \in 0 .. L
      <4>1. k \in Nat /\ k <= N /\ L \in Nat
        BY <1>1, <1>2
      <4> QED
        BY <1>1, <2>3, <4>1
    <3>2. node[k] = NULL /\ node[k - 1] = Node(c, L)
      BY <1>1, <1>2, <3>1
    <3>3. links[Node(c, L)] = NULL /\ Node(c, L) \in H
      BY <1>2, <1>4, <3>1
    <3> HIDE DEF node
    <3> QED
      BY <1>2, <2>3, <3>2, <3>3
  <2>4. CASE k > L + 1
    <3>1. k - 1 \in 0 .. N /\ ~ (k <= L) /\ ~ (k - 1 <= L)
      BY <1>1, <1>2, <1>3, <2>4
    <3>2. node[k] = NULL /\ node[k - 1] = NULL
      BY <3>1
    <3> HIDE DEF node
    <3> QED
      BY <1>2, <2>4, <3>2
  <2> QED
    BY <1>1, <1>2, <2>1, <2>2, <2>3, <2>4
<1>6. node = [k \in 0 .. N |-> node[k]]
  OBVIOUS
<1>7. \A k \in 1 .. L : node[k] = c[k] /\ node[k] # NULL
  <2> TAKE k \in 1 .. L
  <2>1. k \in 0 .. N /\ k <= L /\ k # 0
    BY <1>1, <1>2, <1>3
  <2> QED
    BY <1>2, <2>1 DEF Node
<1>8. \A k \in 0 .. N : k > L => node[k] = NULL
  BY <1>1, <1>2
<1>9. DOMAIN node = 0 .. N
  OBVIOUS
<1> HIDE DEF node
<1>10. Walked(node, links, N)
  BY <1>5, <1>6 DEF Walked, H
<1>11. Moves(links) = node
  BY <1>1, <1>10, MovesAre DEF N, H
<1>12. {i \in DOMAIN node : i > 0 /\ node[i] # NULL} = 1 .. L
  <2>1. \A i \in 0 .. N : i > 0 /\ node[i] # NULL => i \in 1 .. L
    BY <1>1, <1>2, <1>8
  <2>2. \A i \in 1 .. L : i \in 0 .. N /\ i > 0 /\ node[i] # NULL
    BY <1>1, <1>2, <1>3, <1>7
  <2> QED
    BY <1>9, <2>1, <2>2
<1>13. Cardinality(1 .. L) = L
  <2>1. Cardinality(1 .. L) = IF 1 > L THEN 0 ELSE L - 1 + 1
    BY <1>2, FS_Interval
  <2> QED
    BY <1>2, <2>1
<1>14. ChainOf(links) = [k \in 1 .. L |-> node[k]]
  BY <1>11, <1>12, <1>13 DEF ChainOf
<1>15. c = [k \in 1 .. L |-> c[k]]
  BY <1>2 DEF L
<1> QED
  BY <1>7, <1>14, <1>15

(* Shorter a head there is no chain. *)
LEMMA ChainGone ==
  ASSUME NEW links, DOMAIN links \subseteq Addresses, head \notin DOMAIN links
  PROVE  ChainOf(links) = << >>
<1> DEFINE H == DOMAIN links
           N == Cardinality(H)
           node == [k \in 0 .. N |-> IF k = 0 THEN head ELSE NULL]
<1>1. IsFiniteSet(H) /\ N \in Nat /\ NULL \notin H
  <2>1. IsFiniteSet(H)
    BY FS_Subset, MemoryAssumption
  <2> QED
    BY <2>1, FS_CardinalityType, MemoryAssumption
<1> HIDE DEF N
<1>2. \A k \in 0 .. N : node[k - 1] \notin H \/ k = 0
  BY <1>1
<1>3. Walked(node, links, N)
  BY <1>1, <1>2 DEF Walked
<1>4. {i \in DOMAIN node : i > 0 /\ node[i] # NULL} = {}
  BY <1>1
<1> HIDE DEF node
<1>5. Moves(links) = node
  BY <1>1, <1>3, MovesAre DEF N
<1>6. ChainOf(links) = [k \in 1 .. 0 |-> node[k]]
  BY <1>4, <1>5, FS_EmptySet DEF ChainOf
<1> QED
  BY <1>6

-----------------------------------------------------------------------------
(***************************************************************************)
(* One more element behind the first i, and the i-th left out.             *)
(***************************************************************************)
Longer(c, i, x) ==
  [k \in 1 .. Len(c) + 1 |-> IF k <= i THEN c[k] ELSE IF k = i + 1 THEN x ELSE c[k - 1]]

Shorter(c, i) == [k \in 1 .. Len(c) - 1 |-> IF k < i THEN c[k] ELSE c[k + 1]]

(* d is c with x behind its first i elements. *)
Widened(d, c, i, x) ==
  /\ Len(d) = Len(c) + 1
  /\ \A k \in 1 .. i : d[k] = c[k]
  /\ d[i + 1] = x
  /\ \A k \in i + 1 .. Len(c) : d[k + 1] = c[k]

LEMMA LongerIs ==
  ASSUME NEW T, NEW c \in Seq(T), NEW i \in 0 .. Len(c), NEW x \in T
  PROVE  Longer(c, i, x) \in Seq(T) /\ Widened(Longer(c, i, x), c, i, x)
<1>1. Len(c) \in Nat /\ i \in Nat /\ i <= Len(c) /\ \A k \in 1 .. Len(c) : c[k] \in T
  OBVIOUS
<1>2. PICK d : d = Longer(c, i, x)
  OBVIOUS
<1>3. /\ DOMAIN d = 1 .. Len(c) + 1 /\ d = [k \in 1 .. Len(c) + 1 |-> d[k]]
      /\ \A k \in 1 .. Len(c) + 1 :
           d[k] = IF k <= i THEN c[k] ELSE IF k = i + 1 THEN x ELSE c[k - 1]
  BY <1>2 DEF Longer
<1>4. \A k \in 1 .. Len(c) + 1 : d[k] \in T
  BY <1>1, <1>3
<1>5. d \in Seq(T) /\ Len(d) = Len(c) + 1
  BY <1>1, <1>3, <1>4
<1>6. \A k \in 1 .. i : d[k] = c[k]
  BY <1>1, <1>3
<1>7. d[i + 1] = x
  BY <1>1, <1>3
<1>8. \A k \in i + 1 .. Len(c) : d[k + 1] = c[k]
  BY <1>1, <1>3
<1> QED
  BY <1>2, <1>5, <1>6, <1>7, <1>8 DEF Widened

LEMMA ShorterIs ==
  ASSUME NEW T, NEW c \in Seq(T), NEW i \in 1 .. Len(c)
  PROVE  /\ Shorter(c, i) \in Seq(T)
         /\ Len(Shorter(c, i)) = Len(c) - 1
         /\ \A k \in 1 .. i - 1 : Shorter(c, i)[k] = c[k]
         /\ \A k \in i .. Len(c) - 1 : Shorter(c, i)[k] = c[k + 1]
<1>1. Len(c) \in Nat /\ i \in Nat /\ 1 <= i /\ i <= Len(c) /\ \A k \in 1 .. Len(c) : c[k] \in T
  OBVIOUS
<1>2. PICK d : d = Shorter(c, i)
  OBVIOUS
<1>3. /\ DOMAIN d = 1 .. Len(c) - 1 /\ d = [k \in 1 .. Len(c) - 1 |-> d[k]]
      /\ \A k \in 1 .. Len(c) - 1 : d[k] = IF k < i THEN c[k] ELSE c[k + 1]
  BY <1>2 DEF Shorter
<1>4. \A k \in 1 .. Len(c) - 1 : d[k] \in T
  BY <1>1, <1>3
<1>5. d \in Seq(T) /\ Len(d) = Len(c) - 1
  BY <1>1, <1>3, <1>4
<1>6. \A k \in 1 .. i - 1 : d[k] = c[k]
  BY <1>1, <1>3
<1>7. \A k \in i .. Len(c) - 1 : d[k] = c[k + 1]
  BY <1>1, <1>3
<1> QED
  BY <1>2, <1>5, <1>6, <1>7

Joins(t, u, w, T) ==
  /\ t \in Seq(T)
  /\ Len(t) = Len(u) + Len(w)
  /\ \A j \in 1 .. Len(u) : t[j] = u[j]
  /\ \A j \in 1 .. Len(w) : t[Len(u) + j] = w[j]

LEMMA ConcatIs ==
  ASSUME NEW T, NEW u \in Seq(T), NEW w \in Seq(T), NEW t, t = u \o w
  PROVE  Joins(t, u, w, T)
<1>1. Len(u) \in Nat /\ Len(w) \in Nat
  OBVIOUS
<1>2. t \in Seq(T) /\ Len(t) = Len(u) + Len(w)
  BY <1>1
<1>3. \A j \in 1 .. Len(u) : t[j] = u[j]
  BY <1>1
<1>4. ASSUME NEW j \in 1 .. Len(w)
      PROVE  t[Len(u) + j] = w[j]
  <2>1. Len(u) + j \in 1 .. Len(u) + Len(w) /\ ~ (Len(u) + j <= Len(u)) /\ (Len(u) + j) - Len(u) = j
    BY <1>1
  <2> QED
    BY <1>1, <2>1
<1> QED
  BY <1>2, <1>3, <1>4 DEF Joins

LEMMA InsertAtIs ==
  ASSUME NEW T, NEW c \in Seq(T), NEW i \in 0 .. Len(c), NEW x \in T
  PROVE  InsertAt(c, i + 1, x) = Longer(c, i, x)
<1>1. Len(c) \in Nat /\ i \in Nat /\ i <= Len(c)
  OBVIOUS
<1>2. PICK u, v, w : u = SubSeq(c, 1, (i + 1) - 1) /\ v = <<x>> /\ w = SubSeq(c, i + 1, Len(c))
  OBVIOUS
<1>3. u \in Seq(T) /\ Len(u) = i /\ \A j \in 1 .. i : u[j] = c[j]
  BY <1>1, <1>2
<1>4. w \in Seq(T) /\ Len(w) = Len(c) - i /\ \A j \in 1 .. Len(c) - i : w[j] = c[j + i]
  BY <1>1, <1>2
<1>5. v \in Seq(T) /\ Len(v) = 1 /\ v[1] = x
  BY <1>2
<1>6. PICK t : t = (u \o v) \o w
  OBVIOUS
<1>7. PICK s : s = u \o v
  OBVIOUS
<1>8. s \in Seq(T) /\ Len(s) = i + 1 /\ (\A j \in 1 .. i : s[j] = c[j]) /\ s[i + 1] = x
  <2>1. /\ s \in Seq(T) /\ Len(s) = Len(u) + Len(v)
        /\ \A j \in 1 .. Len(u) : s[j] = u[j]
        /\ \A j \in 1 .. Len(v) : s[Len(u) + j] = v[j]
    <3>1. Joins(s, u, v, T)
      BY <1>3, <1>5, <1>7, ConcatIs
    <3> QED
      BY <3>1 DEF Joins
  <2>2. 1 \in 1 .. Len(v)
    BY <1>5
  <2>3. s[i + 1] = x
    BY <1>3, <1>5, <2>1, <2>2
  <2> QED
    BY <1>1, <1>3, <1>5, <2>1, <2>3
<1>9. /\ t \in Seq(T) /\ Len(t) = Len(c) + 1
      /\ \A j \in 1 .. i + 1 : t[j] = s[j]
      /\ \A j \in 1 .. Len(c) - i : t[(i + 1) + j] = w[j]
  <2>1. /\ t \in Seq(T) /\ Len(t) = Len(s) + Len(w)
        /\ \A j \in 1 .. Len(s) : t[j] = s[j]
        /\ \A j \in 1 .. Len(w) : t[Len(s) + j] = w[j]
    <3>1. t = s \o w
      BY <1>6, <1>7
    <3>2. Joins(t, s, w, T)
      BY <1>4, <1>8, <3>1, ConcatIs
    <3> QED
      BY <3>2 DEF Joins
  <2> QED
    BY <1>1, <1>4, <1>8, <2>1
<1>10. ASSUME NEW k \in 1 .. Len(c) + 1
       PROVE  t[k] = IF k <= i THEN c[k] ELSE IF k = i + 1 THEN x ELSE c[k - 1]
  <2>1. CASE k <= i + 1
    BY <1>1, <1>8, <1>9, <2>1
  <2>2. CASE k > i + 1
    <3> PICK j : j = k - (i + 1)
      OBVIOUS
    <3>1. j \in 1 .. Len(c) - i /\ j + i = k - 1 /\ (i + 1) + j = k
      BY <1>1, <2>2
    <3>2. t[k] = c[k - 1]
      <4>1. t[k] = w[j] /\ w[j] = c[j + i]
        BY <1>4, <1>9, <3>1
      <4> QED
        BY <3>1, <4>1
    <3> QED
      BY <1>1, <2>2, <3>2
  <2> QED
    BY <1>1, <2>1, <2>2
<1>11. t = Longer(c, i, x)
  <2>1. t = [k \in 1 .. Len(c) + 1 |-> t[k]]
    BY <1>9
  <2> QED
    BY <1>10, <2>1 DEF Longer
<1> QED
  BY <1>2, <1>6, <1>11 DEF InsertAt

LEMMA AppendIs ==
  ASSUME NEW T, NEW c \in Seq(T), NEW x \in T
  PROVE  Append(c, x) = Longer(c, Len(c), x)
<1>1. Len(c) \in Nat
  OBVIOUS
<1>2. PICK t : t = Append(c, x)
  OBVIOUS
<1>3. /\ t \in Seq(T) /\ Len(t) = Len(c) + 1
      /\ (\A k \in 1 .. Len(c) : t[k] = c[k]) /\ t[Len(c) + 1] = x
  BY <1>1, <1>2
<1>4. t = [k \in 1 .. Len(c) + 1 |-> t[k]]
  BY <1>3
<1>5. \A k \in 1 .. Len(c) + 1 :
        t[k] = IF k <= Len(c) THEN c[k] ELSE IF k = Len(c) + 1 THEN x ELSE c[k - 1]
  BY <1>1, <1>3
<1> QED
  BY <1>2, <1>4, <1>5 DEF Longer

LEMMA RemoveAtIs ==
  ASSUME NEW T, NEW c \in Seq(T), NEW i \in 1 .. Len(c)
  PROVE  RemoveAt(c, i) = Shorter(c, i)
<1>1. Len(c) \in Nat /\ i \in Nat /\ 1 <= i /\ i <= Len(c)
  OBVIOUS
<1>2. PICK u, v : u = SubSeq(c, 1, i - 1) /\ v = SubSeq(c, i + 1, Len(c))
  OBVIOUS
<1>3. u \in Seq(T) /\ Len(u) = i - 1 /\ \A j \in 1 .. i - 1 : u[j] = c[j]
  BY <1>1, <1>2
<1>4. v \in Seq(T) /\ Len(v) = Len(c) - i /\ \A j \in 1 .. Len(c) - i : v[j] = c[j + i]
  BY <1>1, <1>2
<1>5. PICK t : t = u \o v
  OBVIOUS
<1>6. t \in Seq(T) /\ Len(t) = Len(c) - 1
  BY <1>1, <1>3, <1>4, <1>5
<1>7. ASSUME NEW k \in 1 .. Len(c) - 1
      PROVE  t[k] = IF k < i THEN c[k] ELSE c[k + 1]
  <2>1. CASE k < i
    BY <1>1, <1>3, <1>4, <1>5, <1>6, <2>1
  <2>2. CASE k >= i
    <3>1. k - (i - 1) \in 1 .. Len(c) - i /\ (k - (i - 1)) + i = k + 1
      BY <1>1, <2>2
    <3>2. t[k] = v[k - (i - 1)]
      BY <1>1, <1>3, <1>4, <1>5, <1>6, <2>2
    <3> QED
      BY <1>1, <1>4, <2>2, <3>1, <3>2
  <2> QED
    BY <1>1, <2>1, <2>2
<1>8. t = [k \in 1 .. Len(c) - 1 |-> t[k]]
  BY <1>6
<1> QED
  BY <1>2, <1>5, <1>7, <1>8 DEF RemoveAt, Shorter

(* The values of the chain that has one node more, or one less. *)
LEMMA ImageOfLonger ==
  ASSUME NEW T, NEW c \in Seq(T), NEW i \in 0 .. Len(c), NEW x, NEW f, NEW g,
         \A k \in 1 .. Len(c) : g[c[k]] = f[c[k]]
  PROVE  Image(g, Longer(c, i, x)) = Longer(Image(f, c), i, g[x])
<1>1. Len(c) \in Nat /\ DOMAIN c = 1 .. Len(c) /\ i \in Nat /\ i <= Len(c)
  OBVIOUS
<1>2. Len(Image(f, c)) = Len(c) /\ \A k \in 1 .. Len(c) : Image(f, c)[k] = f[c[k]]
  BY ImageIs
<1>3. Image(g, Longer(c, i, x)) = [k \in 1 .. Len(c) + 1 |-> g[Longer(c, i, x)[k]]]
  BY DEF Image, Longer
<1>4. ASSUME NEW k \in 1 .. Len(c) + 1
      PROVE  g[Longer(c, i, x)[k]] = IF k <= i THEN Image(f, c)[k]
                                   ELSE IF k = i + 1 THEN g[x] ELSE Image(f, c)[k - 1]
  <2>1. Longer(c, i, x)[k] = IF k <= i THEN c[k] ELSE IF k = i + 1 THEN x ELSE c[k - 1]
    BY DEF Longer
  <2>2. CASE k <= i
    BY <1>1, <1>2, <2>1, <2>2
  <2>3. CASE k = i + 1
    BY <1>1, <2>1, <2>3
  <2>4. CASE k > i + 1
    <3>1. k - 1 \in 1 .. Len(c)
      BY <1>1, <2>4
    <3> QED
      BY <1>1, <1>2, <2>1, <2>4, <3>1
  <2> QED
    BY <1>1, <2>2, <2>3, <2>4
<1> QED
  BY <1>2, <1>3, <1>4 DEF Longer

LEMMA ImageOfShorter ==
  ASSUME NEW T, NEW c \in Seq(T), NEW i \in 1 .. Len(c), NEW f, NEW g,
         \A k \in 1 .. Len(c) : k # i => g[c[k]] = f[c[k]]
  PROVE  Image(g, Shorter(c, i)) = Shorter(Image(f, c), i)
<1>1. Len(c) \in Nat /\ DOMAIN c = 1 .. Len(c) /\ i \in Nat /\ 1 <= i /\ i <= Len(c)
  OBVIOUS
<1>2. Len(Image(f, c)) = Len(c) /\ \A k \in 1 .. Len(c) : Image(f, c)[k] = f[c[k]]
  BY ImageIs
<1>3. Image(g, Shorter(c, i)) = [k \in 1 .. Len(c) - 1 |-> g[Shorter(c, i)[k]]]
  BY DEF Image, Shorter
<1>4. ASSUME NEW k \in 1 .. Len(c) - 1
      PROVE  g[Shorter(c, i)[k]] = IF k < i THEN Image(f, c)[k] ELSE Image(f, c)[k + 1]
  <2>1. Shorter(c, i)[k] = IF k < i THEN c[k] ELSE c[k + 1]
    BY DEF Shorter
  <2>2. k \in 1 .. Len(c) /\ k + 1 \in 1 .. Len(c)
    BY <1>1
  <2> QED
    BY <1>1, <1>2, <2>1, <2>2
<1> QED
  BY <1>2, <1>3, <1>4 DEF Shorter

-----------------------------------------------------------------------------
(***************************************************************************)
(* The pointers that the functions change still lead along a chain.        *)
(***************************************************************************)
LEMMA ListedFacts ==
  ASSUME NEW links, NEW c, Listed(links, c)
  PROVE  /\ head \in DOMAIN links /\ c \in Seq(DOMAIN links \ {head}) /\ Len(c) \in Nat
         /\ \A i \in 1 .. Len(c) : c[i] \in DOMAIN links /\ c[i] # head
         /\ \A i \in 0 .. Len(c) : Node(c, i) \in DOMAIN links
         /\ \A i, j \in 0 .. Len(c) : Node(c, i) = Node(c, j) => i = j
         /\ \A i \in 0 .. Len(c) : links[Node(c, i)] = IF i = Len(c) THEN NULL ELSE c[i + 1]
<1>1. c \in Seq(DOMAIN links \ {head}) /\ head \in DOMAIN links
  BY DEF Listed
<1>2. Len(c) \in Nat /\ \A i \in 1 .. Len(c) : c[i] \in DOMAIN links /\ c[i] # head
  BY <1>1
<1>3. \A i, j \in 1 .. Len(c) : c[i] = c[j] => i = j
  BY DEF Listed, Once
<1>4. \A i \in 0 .. Len(c) : Node(c, i) \in DOMAIN links
  BY <1>1, <1>2 DEF Node
<1>5. ASSUME NEW i \in 0 .. Len(c), NEW j \in 0 .. Len(c), Node(c, i) = Node(c, j)
      PROVE  i = j
  <2>1. i \in 1 .. Len(c) \/ i = 0
    BY <1>2
  <2>2. j \in 1 .. Len(c) \/ j = 0
    BY <1>2
  <2> QED
    BY <1>2, <1>3, <1>5, <2>1, <2>2 DEF Node
<1>6. \A i \in 0 .. Len(c) : links[Node(c, i)] = IF i = Len(c) THEN NULL ELSE c[i + 1]
  BY DEF Listed, Leads
<1> QED
  BY <1>1, <1>2, <1>4, <1>5, <1>6

LEMMA InsertListed ==
  ASSUME NEW links, NEW c, Listed(links, c), NEW i \in 0 .. Len(c),
         NEW new, new \notin DOMAIN links, NEW later,
         later = [q \in DOMAIN links \cup {new} |-> CASE q = new        -> links[Node(c, i)]
                                                      [] q = Node(c, i) -> new
                                                      [] OTHER          -> links[q]]
  PROVE  Listed(later, Longer(c, i, new))
<1> DEFINE H == DOMAIN links
           L == Len(c)
<1>1. /\ head \in H /\ c \in Seq(H \ {head}) /\ L \in Nat
      /\ \A k \in 1 .. L : c[k] \in H /\ c[k] # head
      /\ \A k \in 0 .. L : Node(c, k) \in H
      /\ \A k, j \in 0 .. L : Node(c, k) = Node(c, j) => k = j
      /\ \A k \in 0 .. L : links[Node(c, k)] = IF k = L THEN NULL ELSE c[k + 1]
  BY ListedFacts
<1>2. DOMAIN later = H \cup {new}
  OBVIOUS
<1>3. later[new] = links[Node(c, i)]
  <2>1. new \in DOMAIN links \cup {new}
    OBVIOUS
  <2>2. later[new] = CASE new = new        -> links[Node(c, i)]
                       [] new = Node(c, i) -> new
                       [] OTHER            -> links[new]
    BY <2>1
  <2>3. new # Node(c, i)
    BY <1>1
  <2> QED
    BY <2>2, <2>3
<1>4. later[Node(c, i)] = new
  BY <1>1
<1>5. \A q \in H : q # Node(c, i) => later[q] = links[q]
  OBVIOUS
<1>6. new \notin H
  OBVIOUS
<1>7. \A k, j \in 1 .. L : c[k] = c[j] => k = j
  BY DEF Listed, Once
<1> HIDE DEF H, L
<1>8. PICK T : T = (H \cup {new}) \ {head}
  OBVIOUS
<1>9. c \in Seq(T) /\ new \in T
  BY <1>1, <1>6, <1>8
<1>10. PICK d : d = Longer(c, i, new)
  OBVIOUS
<1>11. i \in Nat /\ i <= L
  BY <1>1 DEF L
<1>12. /\ d \in Seq(T) /\ Len(d) = L + 1
       /\ \A k \in 1 .. i : d[k] = c[k]
       /\ d[i + 1] = new
       /\ \A k \in i + 1 .. L : d[k + 1] = c[k]
  <2>1. d \in Seq(T) /\ Widened(d, c, i, new)
    BY <1>9, <1>10, LongerIs
  <2> QED
    BY <2>1 DEF Widened, L
<1>13. \A k \in 1 .. L + 1 : (d[k] = new <=> k = i + 1) /\ (k > i + 1 => d[k] = c[k - 1])
  <2> TAKE k \in 1 .. L + 1
  <2>1. CASE k <= i
    BY <1>1, <1>6, <1>11, <1>12, <2>1
  <2>2. CASE k = i + 1
    BY <1>12, <1>11, <2>2
  <2>3. CASE k > i + 1
    <3>1. k - 1 \in i + 1 .. L /\ k - 1 \in 1 .. L /\ (k - 1) + 1 = k
      BY <1>1, <1>11, <2>3
    <3>2. d[k] = c[k - 1]
      BY <1>12, <3>1
    <3> QED
      BY <1>1, <1>6, <1>11, <2>3, <3>1, <3>2
  <2> QED
    BY <1>1, <1>11, <2>1, <2>2, <2>3
<1>14. Once(d)
  <2> SUFFICES ASSUME NEW k \in 1 .. L + 1, NEW j \in 1 .. L + 1, d[k] = d[j]
               PROVE  k = j
    BY <1>12 DEF Once
  <2>1. CASE d[k] = new
    BY <1>13, <2>1
  <2>2. CASE d[k] # new
    <3>1. PICK m \in 1 .. L : d[k] = c[m] /\ k = IF m <= i THEN m ELSE m + 1
      <4>1. k <= i \/ k > i + 1
        BY <1>1, <1>11, <1>13, <2>2
      <4>2. CASE k <= i
        BY <1>1, <1>11, <1>12, <4>2
      <4>3. CASE k > i + 1
        BY <1>1, <1>11, <1>13, <4>3
      <4> QED
        BY <4>1, <4>2, <4>3
    <3>2. PICK n \in 1 .. L : d[j] = c[n] /\ j = IF n <= i THEN n ELSE n + 1
      <4>1. j <= i \/ j > i + 1
        BY <1>1, <1>11, <1>13, <2>2
      <4>2. CASE j <= i
        BY <1>1, <1>11, <1>12, <4>2
      <4>3. CASE j > i + 1
        BY <1>1, <1>11, <1>13, <4>3
      <4> QED
        BY <4>1, <4>2, <4>3
    <3>3. m = n
      BY <1>7, <3>1, <3>2
    <3> QED
      BY <3>1, <3>2, <3>3
  <2> QED
    BY <2>1, <2>2
<1>15. Leads(later, d)
  <2> SUFFICES ASSUME NEW k \in 0 .. L + 1
               PROVE  later[Node(d, k)] = IF k = L + 1 THEN NULL ELSE d[k + 1]
    BY <1>12 DEF Leads
  <2>1. CASE k < i
    <3>1. k \in 0 .. L /\ k # L /\ k + 1 \in 1 .. i /\ k # i /\ k # L + 1 /\ i \in 0 .. L
      BY <1>1, <1>11, <2>1
    <3>2. Node(d, k) = Node(c, k)
      BY <1>12, <1>11, <2>1 DEF Node
    <3>3. Node(c, k) \in H /\ Node(c, k) # Node(c, i) /\ links[Node(c, k)] = c[k + 1]
      BY <1>1, <3>1
    <3>4. d[k + 1] = c[k + 1]
      BY <1>12, <3>1
    <3> QED
      BY <1>5, <3>1, <3>2, <3>3, <3>4
  <2>2. CASE k = i
    <3>1. Node(d, k) = Node(c, i)
      BY <1>12, <1>11, <2>2 DEF Node
    <3> QED
      BY <1>1, <1>4, <1>11, <1>12, <2>2, <3>1
  <2>3. CASE k = i + 1
    <3>1. Node(d, k) = new
      BY <1>12, <1>11, <2>3 DEF Node
    <3>2. later[Node(d, k)] = IF i = L THEN NULL ELSE c[i + 1]
      BY <1>1, <1>3, <1>11, <3>1
    <3>3. i # L => d[k + 1] = c[i + 1]
      BY <1>1, <1>11, <1>12, <2>3
    <3> QED
      BY <1>1, <1>11, <2>3, <3>2, <3>3
  <2>4. CASE k > i + 1
    <3>1. k - 1 \in 1 .. L /\ k - 1 \in 0 .. L /\ k - 1 # i /\ i \in 0 .. L /\ k # 0
          /\ k \in 1 .. L + 1 /\ (k - 1) + 1 = k
      BY <1>1, <1>11, <2>4
    <3>2. Node(d, k) = Node(c, k - 1)
      BY <1>13, <2>4, <3>1 DEF Node
    <3>3. Node(c, k - 1) \in H /\ Node(c, k - 1) # Node(c, i)
      BY <1>1, <3>1
    <3>4. links[Node(c, k - 1)] = IF k - 1 = L THEN NULL ELSE c[k]
      BY <1>1, <3>1
    <3>5. k - 1 # L => d[k + 1] = c[k]
      <4>1. L \in Nat /\ i \in Nat /\ k \in Nat /\ k <= L + 1
        BY <1>1, <1>11
      <4>2. k - 1 # L => k \in i + 1 .. L
        BY <2>4, <4>1
      <4> QED
        BY <1>12, <4>2
    <3>6. later[Node(d, k)] = links[Node(c, k - 1)]
      BY <1>5, <3>2, <3>3
    <3>7. k - 1 = L <=> k = L + 1
      BY <1>1
    <3> QED
      BY <3>4, <3>5, <3>6, <3>7
  <2> QED
    BY <1>1, <1>11, <2>1, <2>2, <2>3, <2>4
<1> QED
  BY <1>1, <1>2, <1>8, <1>10, <1>12, <1>14, <1>15 DEF Listed

LEMMA DeleteListed ==
  ASSUME NEW links, NEW c, Listed(links, c), NEW i \in 0 .. Len(c) - 1, NEW later,
         later = [q \in DOMAIN links \ {c[i + 1]} |->
                    IF q = Node(c, i) THEN links[c[i + 1]] ELSE links[q]]
  PROVE  Listed(later, Shorter(c, i + 1))
<1> DEFINE H == DOMAIN links
           L == Len(c)
<1>1. /\ head \in H /\ c \in Seq(H \ {head}) /\ L \in Nat
      /\ \A k \in 1 .. L : c[k] \in H /\ c[k] # head
      /\ \A k \in 0 .. L : Node(c, k) \in H
      /\ \A k, j \in 0 .. L : Node(c, k) = Node(c, j) => k = j
      /\ \A k \in 0 .. L : links[Node(c, k)] = IF k = L THEN NULL ELSE c[k + 1]
  BY ListedFacts
<1>2. PICK x : x = c[i + 1]
  OBVIOUS
<1>3. later = [q \in H \ {x} |-> IF q = Node(c, i) THEN links[x] ELSE links[q]]
  BY <1>2
<1>4. \A k, j \in 1 .. L : c[k] = c[j] => k = j
  BY DEF Listed, Once
<1>5. i \in Nat /\ i + 1 <= L /\ i + 1 \in 1 .. L /\ i \in 0 .. L /\ i + 1 \in 0 .. L /\ i # i + 1 /\ i # L
  BY <1>1
<1>6. x = Node(c, i + 1) /\ x \in H /\ x # head /\ x # Node(c, i)
  <2>1. x = Node(c, i + 1)
    BY <1>2, <1>5 DEF Node
  <2>2. Node(c, i) # Node(c, i + 1)
    BY <1>1, <1>5
  <2>3. c[i + 1] \in H /\ c[i + 1] # head
    BY <1>1, <1>5
  <2> QED
    BY <1>2, <2>1, <2>2, <2>3
<1>7. links[x] = IF i + 1 = L THEN NULL ELSE c[i + 2]
  BY <1>1, <1>5, <1>6
<1> HIDE DEF H, L
<1>8. PICK d : d = Shorter(c, i + 1)
  OBVIOUS
<1>9. /\ d \in Seq(H \ {head}) /\ Len(d) = L - 1
      /\ \A k \in 1 .. i : d[k] = c[k]
      /\ \A k \in i + 1 .. L - 1 : d[k] = c[k + 1]
  <2>1. /\ d \in Seq(H \ {head}) /\ Len(d) = L - 1
        /\ \A k \in 1 .. (i + 1) - 1 : d[k] = c[k]
        /\ \A k \in i + 1 .. L - 1 : d[k] = c[k + 1]
    BY <1>1, <1>5, <1>8, ShorterIs DEF L
  <2>2. (i + 1) - 1 = i
    BY <1>5
  <2> QED
    BY <2>1, <2>2
<1>10. \A k \in 1 .. L - 1 : d[k] = IF k <= i THEN c[k] ELSE c[k + 1]
  BY <1>1, <1>5, <1>9
<1>11. Once(d)
  <2> SUFFICES ASSUME NEW k \in 1 .. L - 1, NEW j \in 1 .. L - 1, d[k] = d[j]
               PROVE  k = j
    BY <1>9 DEF Once
  <2>1. /\ k \in 1 .. L /\ k + 1 \in 1 .. L /\ j \in 1 .. L /\ j + 1 \in 1 .. L
    BY <1>1
  <2>2. PICK m \in 1 .. L : d[k] = c[m] /\ m = IF k <= i THEN k ELSE k + 1
    BY <1>10, <2>1
  <2>3. PICK n \in 1 .. L : d[j] = c[n] /\ n = IF j <= i THEN j ELSE j + 1
    BY <1>10, <2>1
  <2>4. m = n
    BY <1>4, <2>2, <2>3
  <2> QED
    BY <1>5, <2>2, <2>3, <2>4
<1>12. \A k \in 1 .. L - 1 : d[k] # x
  <2> TAKE k \in 1 .. L - 1
  <2>2. k \in 1 .. L /\ k + 1 \in 1 .. L
    BY <1>1
  <2>3. CASE k <= i
    BY <1>2, <1>4, <1>5, <1>10, <2>2, <2>3
  <2>4. CASE k > i
    BY <1>2, <1>4, <1>5, <1>10, <2>2, <2>4
  <2> QED
    BY <1>5, <2>3, <2>4
<1>13. d \in Seq((H \ {x}) \ {head})
  <2>1. DOMAIN d = 1 .. L - 1 /\ L - 1 \in Nat /\ d = [k \in 1 .. L - 1 |-> d[k]]
    BY <1>1, <1>5, <1>9
  <2>2. \A k \in 1 .. L - 1 : d[k] \in (H \ {x}) \ {head}
    BY <1>9, <1>12
  <2> QED
    BY <2>1, <2>2
<1>14. Leads(later, d)
  <2> SUFFICES ASSUME NEW k \in 0 .. L - 1
               PROVE  later[Node(d, k)] = IF k = L - 1 THEN NULL ELSE d[k + 1]
    BY <1>9 DEF Leads
  <2>1. CASE k < i
    <3>1. k \in 0 .. L /\ k # L /\ k + 1 \in 1 .. i /\ k # i /\ k # i + 1 /\ k # L - 1
      BY <1>1, <1>5, <2>1
    <3>2. Node(d, k) = Node(c, k)
      BY <1>9, <1>5, <2>1 DEF Node
    <3>3. Node(c, k) \in H /\ Node(c, k) # Node(c, i) /\ Node(c, k) # x /\ links[Node(c, k)] = c[k + 1]
      BY <1>1, <1>5, <1>6, <3>1
    <3>4. d[k + 1] = c[k + 1]
      BY <1>9, <3>1
    <3> QED
      BY <1>3, <3>1, <3>2, <3>3, <3>4
  <2>2. CASE k = i
    <3>1. Node(d, k) = Node(c, i)
      BY <1>9, <1>5, <2>2 DEF Node
    <3>2. later[Node(c, i)] = links[x]
      BY <1>1, <1>3, <1>5, <1>6
    <3>3. i + 1 # L => d[i + 1] = c[i + 2]
      BY <1>1, <1>5, <1>10
    <3>4. i + 1 = L <=> k = L - 1
      BY <1>1, <1>5, <2>2
    <3> QED
      BY <1>7, <2>2, <3>1, <3>2, <3>3, <3>4
  <2>3. CASE k > i
    <3>1. k \in 1 .. L - 1 /\ k + 1 \in 0 .. L /\ k + 1 # i /\ k + 1 # i + 1 /\ k # 0 /\ ~ (k <= i)
      BY <1>1, <1>5, <2>3
    <3>2. Node(d, k) = Node(c, k + 1)
      <4>1. k + 1 # 0
        BY <3>1
      <4> QED
        BY <1>10, <3>1, <4>1 DEF Node
    <3>3. Node(c, k + 1) \in H /\ Node(c, k + 1) # Node(c, i) /\ Node(c, k + 1) # x
      BY <1>1, <1>5, <1>6, <3>1
    <3>4. links[Node(c, k + 1)] = IF k + 1 = L THEN NULL ELSE c[k + 2]
      BY <1>1, <3>1
    <3>5. k + 1 # L => d[k + 1] = c[k + 2]
      BY <1>1, <1>5, <1>10, <2>3
    <3>6. k + 1 = L <=> k = L - 1
      BY <1>1
    <3>7. later[Node(c, k + 1)] = links[Node(c, k + 1)]
      BY <1>3, <3>3
    <3> QED
      BY <3>2, <3>4, <3>5, <3>6, <3>7
  <2> QED
    BY <1>1, <1>5, <2>1, <2>2, <2>3
<1>15. DOMAIN later = H \ {x} /\ head \in H \ {x}
  BY <1>1, <1>3, <1>6
<1> QED
  BY <1>8, <1>11, <1>13, <1>14, <1>15 DEF Listed

LEMMA Retyped ==
  ASSUME NEW T, NEW c \in Seq(T), NEW U, \A k \in 1 .. Len(c) : c[k] \in U
  PROVE  c \in Seq(U)
<1>1. Len(c) \in Nat /\ c = [k \in 1 .. Len(c) |-> c[k]]
  OBVIOUS
<1> QED
  BY <1>1

(* The pointers of the nodes in kept lead from one to the next. *)
Relinked(later, links, kept) ==
  later = [q \in DOMAIN links |->
             IF \E i \in DOMAIN kept : kept[i] = q
             THEN IF (CHOOSE i \in DOMAIN kept : kept[i] = q) = Len(kept) THEN NULL
                  ELSE kept[(CHOOSE i \in DOMAIN kept : kept[i] = q) + 1]
             ELSE links[q]]

LEMMA FilterListed ==
  ASSUME NEW links, NEW c, Listed(links, c), NEW S,
         NEW kept, kept = <<head>> \o Those(c, S),
         NEW later, Relinked(later, links, kept)
  PROVE  Listed(later, Those(c, S))
<1> DEFINE H == DOMAIN links
<1>1. head \in H /\ c \in Seq(H \ {head}) /\ Len(c) \in Nat /\ \A k \in 1 .. Len(c) : c[k] \in H /\ c[k] # head
  BY ListedFacts
<1>2. Once(c)
  BY DEF Listed
<1> HIDE DEF H
<1>3. PICK d : d = Those(c, S)
  OBVIOUS
<1>4. Part(d, c, Len(c), S)
  BY <1>1, <1>2, <1>3, ThoseAre
<1>5. /\ d \in Seq(S)
      /\ \A j \in 1 .. Len(d) : \E k \in 1 .. Len(c) : d[j] = c[k]
      /\ \A j, m \in 1 .. Len(d) : d[j] = d[m] => j = m
  BY <1>4 DEF Part
<1>6. PICK L : L = Len(d)
  OBVIOUS
<1>7. L \in Nat /\ DOMAIN d = 1 .. L /\ d = [k \in 1 .. L |-> d[k]]
  BY <1>5, <1>6
<1>8. \A j \in 1 .. L : d[j] \in H \ {head}
  BY <1>1, <1>5, <1>6
<1>9. d \in Seq(H \ {head}) /\ d \in Seq(H)
  <2>1. \A j \in 1 .. Len(d) : d[j] \in H \ {head}
    BY <1>6, <1>8
  <2>2. d \in Seq(H \ {head})
    BY <1>5, <2>1, Retyped
  <2>3. \A j \in 1 .. Len(d) : d[j] \in H
    BY <2>1
  <2>4. d \in Seq(H)
    BY <1>5, <2>3, Retyped
  <2> QED
    BY <2>2, <2>4
<1>10. /\ kept \in Seq(H) /\ Len(kept) = L + 1 /\ kept[1] = head
       /\ \A j \in 1 .. L : kept[1 + j] = d[j]
  <2>1. PICK u : u = <<head>>
    OBVIOUS
  <2>2. u \in Seq(H) /\ Len(u) = 1 /\ u[1] = head
    BY <1>1, <2>1
  <2>3. d \in Seq(H)
    BY <1>9
  <2>4. kept = u \o d
    BY <1>3, <2>1
  <2>5. Joins(kept, u, d, H)
    BY <2>2, <2>3, <2>4, ConcatIs
  <2>6. /\ kept \in Seq(H) /\ Len(kept) = Len(u) + Len(d)
        /\ \A j \in 1 .. Len(u) : kept[j] = u[j]
        /\ \A j \in 1 .. Len(d) : kept[Len(u) + j] = d[j]
    BY <2>5 DEF Joins
  <2>7. 1 \in 1 .. Len(u)
    BY <2>2
  <2>8. kept[1] = head
    BY <2>2, <2>6, <2>7
  <2>9. Len(kept) = L + 1
    BY <1>6, <1>7, <2>2, <2>6
  <2> QED
    BY <1>6, <2>2, <2>6, <2>8, <2>9
<1>11. DOMAIN kept = 1 .. L + 1
  BY <1>7, <1>10
<1>12. \A i \in 1 .. L + 1 : kept[i] = Node(d, i - 1)
  <2> TAKE i \in 1 .. L + 1
  <2>1. CASE i = 1
    BY <1>10, <2>1 DEF Node
  <2>2. CASE i # 1
    <3>1. i - 1 \in 1 .. L /\ 1 + (i - 1) = i /\ i - 1 # 0
      BY <1>7, <2>2
    <3> QED
      BY <1>10, <3>1 DEF Node
  <2> QED
    BY <2>1, <2>2
<1>13. \A j \in 0 .. L : Node(d, j) \in H
  BY <1>1, <1>7, <1>8 DEF Node
<1>14. \A j, m \in 0 .. L : Node(d, j) = Node(d, m) => j = m
  <2> SUFFICES ASSUME NEW j \in 0 .. L, NEW m \in 0 .. L, Node(d, j) = Node(d, m)
               PROVE  j = m
    OBVIOUS
  <2>1. (j \in 1 .. L \/ j = 0) /\ (m \in 1 .. L \/ m = 0)
    BY <1>7
  <2> QED
    BY <1>5, <1>6, <1>7, <1>8, <2>1 DEF Node
<1>15. ASSUME NEW k \in 0 .. L
       PROVE  later[Node(d, k)] = IF k = L THEN NULL ELSE d[k + 1]
  <2>1. PICK q : q = Node(d, k)
    OBVIOUS
  <2>2. k + 1 \in DOMAIN kept /\ kept[k + 1] = q
    <3>1. k + 1 \in 1 .. L + 1 /\ (k + 1) - 1 = k
      BY <1>7
    <3> QED
      BY <1>11, <1>12, <2>1, <3>1
  <2>3. \A i \in DOMAIN kept : kept[i] = q => i = k + 1
    <3> SUFFICES ASSUME NEW i \in DOMAIN kept, kept[i] = q
                 PROVE  i = k + 1
      OBVIOUS
    <3>1. i \in 1 .. L + 1 /\ i - 1 \in 0 .. L
      BY <1>7, <1>11
    <3>2. Node(d, i - 1) = Node(d, k)
      BY <1>12, <2>1, <3>1
    <3>3. i - 1 = k
      BY <1>14, <3>1, <3>2
    <3> QED
      BY <1>7, <3>1, <3>3
  <2>4. (CHOOSE i \in DOMAIN kept : kept[i] = q) = k + 1
    BY <2>2, <2>3
  <2>5. q \in H
    BY <1>13, <2>1
  <2>6. later[q] = IF k + 1 = Len(kept) THEN NULL ELSE kept[(k + 1) + 1]
    BY <2>2, <2>4, <2>5 DEF H, Relinked
  <2>7. k + 1 = Len(kept) <=> k = L
    BY <1>7, <1>10
  <2>8. k # L => kept[(k + 1) + 1] = d[k + 1]
    <3>1. k # L => k + 1 \in 1 .. L /\ 1 + (k + 1) = (k + 1) + 1
      BY <1>7
    <3> QED
      BY <1>10, <3>1
  <2> QED
    BY <2>1, <2>6, <2>7, <2>8
<1>16. DOMAIN later = H
  BY DEF H, Relinked
<1>17. Once(d)
  BY <1>5 DEF Once
<1>18. Leads(later, d)
  BY <1>6, <1>15 DEF Leads
<1> QED
  BY <1>1, <1>3, <1>9, <1>16, <1>17, <1>18 DEF Listed

-----------------------------------------------------------------------------
(***************************************************************************)
(* The inductive invariant: values and pointers belong to the same nodes,  *)
(* and while there is a head its pointers lead along a chain of as many    *)
(* nodes as it counts.  The bounds that the functions check against the    *)
(* count are bounds of the chain because of it, and a new node is behind   *)
(* no other because every pointer of the chain is to an allocated node.    *)
(***************************************************************************)
HeapOK ==
  /\ DOMAIN value = Heap
  /\ Heap \subseteq Addresses
  /\ \A q \in Heap \ {head} : value[q] \in Elements

Chained == head \in Heap => Listed(next, Chain) /\ Count = Len(Chain)

IInv == HeapOK /\ Chained

LEMMA InitIs ==
  linked_list_init => IInv /\ Chain = << >>
<1> SUFFICES ASSUME linked_list_init
             PROVE  IInv /\ Chain = << >>
  OBVIOUS
<1>1. DOMAIN next = {head} /\ next[head] = NULL /\ DOMAIN value = {head} /\ value[head] = 0
  BY DEF linked_list_init
<1>2. Listed(next, << >>)
  <2>1. Leads(next, << >>)
    BY <1>1 DEF Leads, Node
  <2>2. Once(<< >>)
    BY DEF Once
  <2> QED
    BY <1>1, <2>1, <2>2 DEF Listed
<1>3. {head} \subseteq Addresses
  BY MemoryAssumption
<1>4. Chain = << >>
  BY <1>1, <1>2, <1>3, ChainIs DEF Chain
<1> QED
  BY <1>1, <1>2, <1>3, <1>4 DEF IInv, HeapOK, Chained, Heap, Count

LEMMA KeepsIs ==
  ASSUME IInv, UNCHANGED <<value, next>>
  PROVE  IInv' /\ Chain' = Chain /\ Heap' = Heap /\ OnChain' = OnChain
<1>1. Chain' = Chain
  BY DEF Chain
<1>2. Heap' = Heap /\ OnChain' = OnChain
  BY <1>1 DEF Heap, OnChain
<1>3. HeapOK'
  BY <1>2 DEF IInv, HeapOK
<1>4. Chained'
  BY <1>1, <1>2 DEF IInv, Chained, Count
<1> QED
  BY <1>1, <1>2, <1>3, <1>4 DEF IInv

(* A new node with value v is behind the first i of the chain. *)
Inserts(i, v) ==
  /\ IInv'
  /\ Image(value', Chain') = Longer(Image(value, Chain), i, v)
  /\ \E new \in Addresses \ Heap :
       Heap' = Heap \cup {new} /\ OnChain' = OnChain \cup {new}

LEMMA AfterIs ==
  ASSUME NEW i
  PROVE  After(i) = Node(Chain, i)
BY DEF After, Node

LEMMA InsertBehindIs ==
  ASSUME IInv, head \in Heap, NEW v \in Elements, NEW i \in 0 .. Len(Chain),
         InsertBehind(After(i), v)
  PROVE  Inserts(i, v)
<1>1. PICK new \in Addresses \ Heap :
        /\ value' = [q \in Heap \cup {new} |-> CASE q = new  -> v
                                                 [] q = head -> Count + 1
                                                 [] OTHER    -> value[q]]
        /\ next' = [q \in Heap \cup {new} |-> CASE q = new             -> next[Node(Chain, i)]
                                                [] q = Node(Chain, i) -> new
                                                [] OTHER               -> next[q]]
  BY AfterIs DEF InsertBehind
<1>2. Listed(next, Chain) /\ Count = Len(Chain)
  BY DEF IInv, Chained
<1>3. DOMAIN value = Heap /\ Heap \subseteq Addresses /\ \A q \in Heap \ {head} : value[q] \in Elements
  BY DEF IInv, HeapOK
<1>4. /\ Chain \in Seq(Heap \ {head}) /\ Len(Chain) \in Nat
      /\ \A k \in 1 .. Len(Chain) : Chain[k] \in Heap /\ Chain[k] # head
  BY <1>2, ListedFacts DEF Heap
<1>5. PICK d : d = Longer(Chain, i, new)
  OBVIOUS
<1>6. Listed(next', d)
  BY <1>1, <1>2, <1>5, InsertListed DEF Heap
<1>7. DOMAIN next' = Heap \cup {new} /\ DOMAIN value' = Heap \cup {new}
  BY <1>1
<1>8. Heap' = Heap \cup {new} /\ Heap' \subseteq Addresses
  BY <1>1, <1>3, <1>7 DEF Heap
<1>9. Chain' = d
  <2>1. ChainOf(next') = d
    BY <1>6, <1>8, ChainIs DEF Heap
  <2> QED
    BY <2>1 DEF Chain
<1>10. /\ value'[new] = v
       /\ new # head
       /\ value'[head] = Count + 1
       /\ \A q \in Heap : q # head => value'[q] = value[q]
  <2>1. new # head /\ head \in Heap \cup {new} /\ new \in Heap \cup {new}
    BY <1>1
  <2>2. value'[new] = v
    BY <1>1, <2>1
  <2>3. value'[head] = Count + 1
    BY <1>1, <2>1
  <2>4. \A q \in Heap : q # head => value'[q] = value[q]
    BY <1>1
  <2> QED
    BY <2>1, <2>2, <2>3, <2>4
<1>11. PICK T : T = Heap \cup {new}
  OBVIOUS
<1>12. Chain \in Seq(T) /\ new \in T
  BY <1>4, <1>11
<1>13. /\ Len(d) = Len(Chain) + 1
       /\ \A k \in 1 .. i : d[k] = Chain[k]
       /\ d[i + 1] = new
       /\ \A k \in i + 1 .. Len(Chain) : d[k + 1] = Chain[k]
  <2> PICK c : c = Chain
    OBVIOUS
  <2>1. c \in Seq(T) /\ new \in T /\ i \in 0 .. Len(c)
    BY <1>12
  <2>2. d = Longer(c, i, new)
    BY <1>5
  <2>3. /\ Len(d) = Len(c) + 1
        /\ \A k \in 1 .. i : d[k] = c[k]
        /\ d[i + 1] = new
        /\ \A k \in i + 1 .. Len(c) : d[k + 1] = c[k]
    <3>1. Widened(Longer(c, i, new), c, i, new)
      BY <2>1, LongerIs
    <3> QED
      BY <2>2, <3>1 DEF Widened
  <2> QED
    BY <2>3
<1>14. HeapOK'
  <2>1. \A q \in Heap \cup {new} : q # head => value'[q] \in Elements
    BY <1>3, <1>10
  <2> QED
    BY <1>7, <1>8, <2>1 DEF HeapOK
<1>15. Chained'
  <2>1. Count' = Count + 1
    BY <1>10 DEF Count
  <2>2. Count' = Len(Chain')
    BY <1>2, <1>9, <1>13, <2>1
  <2> QED
    BY <1>6, <1>9, <2>2 DEF Chained
<1>16. Image(value', Chain') = Longer(Image(value, Chain), i, v)
  <2>1. \A k \in 1 .. Len(Chain) : value'[Chain[k]] = value[Chain[k]]
    BY <1>4, <1>10
  <2>2. Image(value', Longer(Chain, i, new)) = Longer(Image(value, Chain), i, value'[new])
    BY <1>4, <2>1, ImageOfLonger
  <2> QED
    BY <1>5, <1>9, <1>10, <2>2
<1>17. OnChain' = OnChain \cup {new}
  <2>1. DOMAIN Chain = 1 .. Len(Chain) /\ DOMAIN d = 1 .. Len(Chain) + 1 /\ i \in Nat /\ i <= Len(Chain)
    BY <1>4, <1>5 DEF Longer
  <2>2. OnChain = {head} \cup {Chain[k] : k \in 1 .. Len(Chain)}
    BY <2>1 DEF OnChain
  <2>3. OnChain' = {head} \cup {d[k] : k \in 1 .. Len(Chain) + 1}
    BY <1>9, <2>1 DEF OnChain
  <2>4. \A k \in 1 .. Len(Chain) : \E j \in 1 .. Len(Chain) + 1 : d[j] = Chain[k]
    <3> TAKE k \in 1 .. Len(Chain)
    <3>1. CASE k <= i
      BY <1>4, <1>13, <2>1, <3>1
    <3>2. CASE k > i
      <4>1. k \in i + 1 .. Len(Chain) /\ k + 1 \in 1 .. Len(Chain) + 1
        BY <1>4, <2>1, <3>2
      <4> QED
        BY <1>13, <4>1
    <3> QED
      BY <2>1, <3>1, <3>2
  <2>5. i + 1 \in 1 .. Len(Chain) + 1
    BY <1>4, <2>1
  <2>6. \A j \in 1 .. Len(Chain) + 1 : d[j] = new \/ \E k \in 1 .. Len(Chain) : d[j] = Chain[k]
    <3> TAKE j \in 1 .. Len(Chain) + 1
    <3>1. CASE j <= i
      <4>1. j \in 1 .. i /\ j \in 1 .. Len(Chain)
        BY <1>4, <2>1, <3>1
      <4> QED
        BY <1>13, <4>1
    <3>2. CASE j = i + 1
      BY <1>13, <3>2
    <3>3. CASE j > i + 1
      <4>1. j - 1 \in i + 1 .. Len(Chain) /\ j - 1 \in 1 .. Len(Chain) /\ (j - 1) + 1 = j
        BY <1>4, <2>1, <3>3
      <4>2. d[j] = Chain[j - 1]
        BY <1>13, <4>1
      <4> QED
        BY <4>1, <4>2
    <3> QED
      BY <2>1, <3>1, <3>2, <3>3
  <2>7. new \in OnChain' /\ OnChain \subseteq OnChain'
    BY <1>13, <2>2, <2>3, <2>4, <2>5
  <2>8. OnChain' \subseteq OnChain \cup {new}
    BY <2>2, <2>3, <2>6
  <2> QED
    BY <2>7, <2>8
<1> QED
  BY <1>8, <1>14, <1>15, <1>16, <1>17 DEF Inserts, IInv

(* The node behind the first i of the chain is gone. *)
Deletes(i) ==
  /\ IInv'
  /\ Image(value', Chain') = Shorter(Image(value, Chain), i + 1)
  /\ \E x : Heap' = Heap \ {x} /\ OnChain \subseteq OnChain' \cup {x}

LEMMA DeleteBehindIs ==
  ASSUME IInv, head \in Heap, NEW i \in 0 .. Len(Chain) - 1, DeleteBehind(After(i))
  PROVE  Deletes(i)
<1>1. PICK c : c = Chain
  OBVIOUS
<1>2. Listed(next, c) /\ Count = Len(c)
  BY <1>1 DEF IInv, Chained
<1>3. DOMAIN value = Heap /\ Heap \subseteq Addresses /\ \A q \in Heap \ {head} : value[q] \in Elements
  BY DEF IInv, HeapOK
<1>4. /\ c \in Seq(Heap \ {head}) /\ Len(c) \in Nat /\ DOMAIN c = 1 .. Len(c)
      /\ \A k \in 1 .. Len(c) : c[k] \in Heap /\ c[k] # head
      /\ \A k \in 0 .. Len(c) : next[Node(c, k)] = IF k = Len(c) THEN NULL ELSE c[k + 1]
  <2>1. /\ c \in Seq(Heap \ {head}) /\ Len(c) \in Nat
        /\ \A k \in 1 .. Len(c) : c[k] \in Heap /\ c[k] # head
        /\ \A k \in 0 .. Len(c) : next[Node(c, k)] = IF k = Len(c) THEN NULL ELSE c[k + 1]
    BY <1>2, ListedFacts DEF Heap
  <2> QED
    BY <2>1
<1>5. /\ i \in Nat /\ i + 1 \in 1 .. Len(c) /\ i \in 0 .. Len(c) - 1 /\ i \in 0 .. Len(c)
      /\ i # Len(c) /\ (i + 1) - 1 = i
  <2>1. Len(c) \in Nat /\ i \in 0 .. Len(c) - 1
    BY <1>1, <1>4
  <2> QED
    BY <2>1
<1>6. After(i) = Node(c, i)
  BY <1>1, AfterIs
<1>7. PICK x : x = c[i + 1]
  OBVIOUS
<1>8. next[After(i)] = x
  BY <1>4, <1>5, <1>6, <1>7
<1>9. /\ value' = [q \in Heap \ {x} |-> IF q = head THEN Count - 1 ELSE value[q]]
      /\ next' = [q \in Heap \ {x} |-> IF q = Node(c, i) THEN next[x] ELSE next[q]]
  BY <1>6, <1>8 DEF DeleteBehind
<1>10. PICK d : d = Shorter(c, i + 1)
  OBVIOUS
<1>11. Listed(next', d)
  BY <1>2, <1>5, <1>7, <1>9, <1>10, DeleteListed DEF Heap
<1>12. /\ Heap' = Heap \ {x} /\ Heap' \subseteq Addresses
       /\ DOMAIN next' = Heap \ {x} /\ DOMAIN value' = Heap \ {x}
  BY <1>3, <1>9 DEF Heap
<1>13. Chain' = d
  <2>1. ChainOf(next') = d
    BY <1>11, <1>12, ChainIs DEF Heap
  <2> QED
    BY <2>1 DEF Chain
<1>14. x # head /\ x \in Heap
  BY <1>4, <1>5, <1>7
<1>15. value'[head] = Count - 1 /\ \A q \in Heap \ {x} : q # head => value'[q] = value[q]
  BY <1>9, <1>14
<1>16. /\ Len(d) = Len(c) - 1 /\ DOMAIN d = 1 .. Len(c) - 1
       /\ \A k \in 1 .. i : d[k] = c[k]
       /\ \A k \in i + 1 .. Len(c) - 1 : d[k] = c[k + 1]
  <2>1. /\ Len(d) = Len(c) - 1
        /\ \A k \in 1 .. (i + 1) - 1 : d[k] = c[k]
        /\ \A k \in i + 1 .. Len(c) - 1 : d[k] = c[k + 1]
    BY <1>4, <1>5, <1>10, ShorterIs
  <2>2. DOMAIN d = 1 .. Len(c) - 1
    BY <1>10 DEF Shorter
  <2> QED
    BY <1>5, <2>1, <2>2
<1>17. HeapOK'
  <2>1. \A q \in Heap \ {x} : q # head => value'[q] \in Elements
    BY <1>3, <1>15
  <2> QED
    BY <1>12, <2>1 DEF HeapOK
<1>18. Chained'
  <2>1. Count' = Count - 1
    BY <1>15 DEF Count
  <2>2. Count' = Len(Chain')
    BY <1>2, <1>13, <1>16, <2>1
  <2> QED
    BY <1>11, <1>13, <2>2 DEF Chained
<1>19. \A k \in 1 .. Len(c) : k # i + 1 => c[k] # x
  BY <1>2, <1>5, <1>7 DEF Listed, Once
<1>20. Image(value', d) = Shorter(Image(value, c), i + 1)
  <2>1. \A k \in 1 .. Len(c) : k # i + 1 => value'[c[k]] = value[c[k]]
    BY <1>4, <1>15, <1>19
  <2> QED
    BY <1>4, <1>5, <1>10, <2>1, ImageOfShorter
<1>21. OnChain \subseteq OnChain' \cup {x}
  <2>1. OnChain = {head} \cup {c[k] : k \in 1 .. Len(c)}
    BY <1>1, <1>4 DEF OnChain
  <2>2. OnChain' = {head} \cup {d[k] : k \in 1 .. Len(c) - 1}
    BY <1>13, <1>16 DEF OnChain
  <2>3. ASSUME NEW k \in 1 .. Len(c)
        PROVE  c[k] = x \/ \E j \in 1 .. Len(c) - 1 : d[j] = c[k]
    <3>0. Len(c) \in Nat
      BY <1>4
    <3>1. CASE k <= i
      <4>1. k \in 1 .. i /\ k \in 1 .. Len(c) - 1
        BY <1>5, <3>0, <3>1
      <4> QED
        BY <1>16, <4>1
    <3>2. CASE k = i + 1
      BY <1>7, <3>2
    <3>3. CASE k > i + 1
      <4>1. k - 1 \in i + 1 .. Len(c) - 1 /\ k - 1 \in 1 .. Len(c) - 1 /\ (k - 1) + 1 = k
        BY <1>5, <3>0, <3>3
      <4>2. d[k - 1] = c[k]
        BY <1>16, <4>1
      <4> QED
        BY <4>1, <4>2
    <3> QED
      BY <1>5, <3>0, <3>1, <3>2, <3>3
  <2> QED
    BY <2>1, <2>2, <2>3
<1>22. Image(value', Chain') = Shorter(Image(value, Chain), i + 1)
  BY <1>1, <1>13, <1>20
<1>23. IInv'
  BY <1>17, <1>18 DEF IInv
<1> QED
  BY <1>12, <1>21, <1>22, <1>23 DEF Deletes

LEMMA RemoveAllIs ==
  ASSUME IInv, head \in Heap, NEW v \in Elements, linked_list_remove_all(v)
  PROVE  IInv' /\ Image(value', Chain') = Those(Image(value, Chain), Elements \ {v})
<1>1. PICK c : c = Chain
  OBVIOUS
<1>2. Listed(next, c) /\ Count = Len(c)
  BY <1>1 DEF IInv, Chained
<1>3. DOMAIN value = Heap /\ Heap \subseteq Addresses /\ \A q \in Heap \ {head} : value[q] \in Elements
  BY DEF IInv, HeapOK
<1>4. /\ c \in Seq(Heap \ {head}) /\ Len(c) \in Nat /\ DOMAIN c = 1 .. Len(c)
      /\ \A k \in 1 .. Len(c) : c[k] \in Heap /\ c[k] # head
  <2>1. /\ c \in Seq(Heap \ {head}) /\ Len(c) \in Nat
        /\ \A k \in 1 .. Len(c) : c[k] \in Heap /\ c[k] # head
    BY <1>2, ListedFacts DEF Heap
  <2> QED
    BY <2>1
<1>5. PICK S : S = {q \in Heap : value[q] # v}
  OBVIOUS
<1>6. PICK kept : kept = <<head>> \o Those(c, S)
  OBVIOUS
<1>7. /\ value' = [value EXCEPT ![head] = Count - Cardinality(Positions(v))]
      /\ Relinked(next', next, kept)
      /\ DOMAIN next' = Heap
  BY <1>1, <1>5, <1>6 DEF linked_list_remove_all, Relinked, Heap
<1>8. PICK d : d = Those(c, S)
  OBVIOUS
<1>9. Listed(next', d)
  BY <1>2, <1>6, <1>7, <1>8, FilterListed
<1>10. /\ Heap' = Heap /\ Heap' \subseteq Addresses
       /\ DOMAIN next' = Heap /\ DOMAIN value' = Heap
  BY <1>3, <1>7 DEF Heap
<1>11. Chain' = d
  <2>1. ChainOf(next') = d
    BY <1>9, <1>10, ChainIs DEF Heap
  <2> QED
    BY <2>1 DEF Chain
<1>12. /\ value'[head] = Count - Cardinality(Positions(v))
       /\ \A q \in Heap : q # head => value'[q] = value[q]
  BY <1>3, <1>7
<1>13. HeapOK'
  <2>1. \A q \in Heap : q # head => value'[q] \in Elements
    BY <1>3, <1>12
  <2> QED
    BY <1>10, <2>1 DEF HeapOK
<1>14. {k \in 1 .. Len(c) : c[k] \notin S} = Positions(v)
  BY <1>1, <1>4, <1>5 DEF Positions
<1>15. Part(d, c, Len(c), S)
  BY <1>2, <1>4, <1>8, ThoseAre DEF Listed
<1>16. Len(d) = Len(c) - Cardinality(Positions(v))
  BY <1>14, <1>15 DEF Part
<1>17. Chained'
  <2>1. Count' = Len(Chain')
    BY <1>2, <1>11, <1>12, <1>16 DEF Count
  <2> QED
    BY <1>9, <1>11, <2>1 DEF Chained
<1>18. Image(value', d) = Image(value, d)
  <2>1. /\ d \in Seq(Heap' \ {head})
        /\ \A k \in 1 .. Len(d) : d[k] \in Heap' /\ d[k] # head
    BY <1>9, ListedFacts DEF Heap
  <2>2. DOMAIN d = 1 .. Len(d)
    BY <2>1
  <2>3. \A k \in DOMAIN d : value'[d[k]] = value[d[k]]
    BY <1>10, <1>12, <2>1, <2>2
  <2> QED
    BY <2>3 DEF Image
<1>19. Those(Image(value, c), Elements \ {v}) = Image(value, d)
  <2>1. \A k \in 1 .. Len(c) : c[k] \in S <=> value[c[k]] \in Elements \ {v}
    BY <1>3, <1>4, <1>5
  <2> QED
    BY <1>4, <1>8, <2>1, ThoseOfImage
<1> QED
  BY <1>1, <1>11, <1>13, <1>17, <1>18, <1>19 DEF IInv

LEMMA FreeIs ==
  ASSUME IInv, linked_list_free
  PROVE  IInv' /\ Chain' = << >> /\ Heap' \subseteq Heap \ OnChain
<1>1. DOMAIN value = Heap /\ Heap \subseteq Addresses /\ \A q \in Heap \ {head} : value[q] \in Elements
  BY DEF IInv, HeapOK
<1>2. PICK R : R = {q \in Heap \ {head} : \A i \in DOMAIN Chain : Chain[i] # q}
  OBVIOUS
<1>3. value' = [q \in R |-> value[q]] /\ next' = [q \in R |-> next[q]]
  BY <1>2 DEF linked_list_free
<1>4. Heap' = R /\ DOMAIN next' = R /\ DOMAIN value' = R /\ R \subseteq Addresses /\ head \notin R
  BY <1>1, <1>2, <1>3 DEF Heap
<1>5. Chain' = << >>
  <2>1. ChainOf(next') = << >>
    BY <1>4, ChainGone
  <2> QED
    BY <2>1 DEF Chain
<1>6. \A q \in R : value'[q] \in Elements
  BY <1>1, <1>2, <1>3
<1>7. HeapOK'
  BY <1>4, <1>6 DEF HeapOK
<1>8. Chained'
  BY <1>4 DEF Chained
<1>9. R \subseteq Heap \ OnChain
  BY <1>2 DEF OnChain
<1> QED
  BY <1>4, <1>5, <1>7, <1>8, <1>9 DEF IInv

-----------------------------------------------------------------------------
(***************************************************************************)
(* The calls.                                                              *)
(***************************************************************************)
LEMMA LeastOf ==
  ASSUME NEW S \in SUBSET Nat, S # {}
  PROVE  \E m \in S : \A j \in S : m <= j
<1>1. IsWellFoundedOn(OpToRel(<, Nat), Nat)
  BY NatLessThanWellFounded
<1>2. PICK m \in S : \A y \in S : ~ (<<y, m>> \in OpToRel(<, Nat))
  BY <1>1, WFMin
<1>3. \A y \in S : y < m => <<y, m>> \in OpToRel(<, Nat)
  BY DEF OpToRel
<1>4. \A y \in S : y \in Nat /\ ~ (y < m)
  BY <1>2, <1>3
<1>5. m \in Nat
  OBVIOUS
<1>6. \A y \in S : m <= y
  BY <1>4, <1>5
<1> QED
  BY <1>6

(* While there is a head, the count is the length, and the positions of a value are in the chain. *)
LEMMA ListIs ==
  ASSUME IInv, head \in Heap
  PROVE  /\ Len(Chain) \in Nat /\ Count = Len(Chain)
         /\ DOMAIN Chain = 1 .. Len(Chain)
         /\ Chain \in Seq(Heap \ {head})
         /\ \A q \in Heap \ {head} : value[q] \in Elements
<1>1. Listed(next, Chain) /\ Count = Len(Chain)
  BY DEF IInv, Chained
<1>2. Chain \in Seq(Heap \ {head})
  BY <1>1 DEF Listed, Heap
<1>3. \A q \in Heap \ {head} : value[q] \in Elements
  BY DEF IInv, HeapOK
<1> QED
  BY <1>1, <1>2, <1>3

LEMMA ContentsAre ==
  ASSUME IInv, head \in Heap
  PROVE  /\ Image(value, Chain) \in Seq(Elements)
         /\ Len(Image(value, Chain)) = Len(Chain)
         /\ DOMAIN Image(value, Chain) = 1 .. Len(Chain)
         /\ \A i \in 1 .. Len(Chain) : Image(value, Chain)[i] = value[Chain[i]]
<1>1. PICK c, T : c = Chain /\ T = Heap \ {head}
  OBVIOUS
<1>2. c \in Seq(T) /\ DOMAIN c = 1 .. Len(c) /\ \A q \in T : value[q] \in Elements
  BY <1>1, ListIs
<1>3. DOMAIN Image(value, c) = 1 .. Len(c)
  BY <1>2 DEF Image
<1>4. /\ Image(value, c) \in Seq(Elements) /\ Len(Image(value, c)) = Len(c)
      /\ \A i \in 1 .. Len(c) : Image(value, c)[i] = value[c[i]]
  BY <1>2, ImageIs
<1> QED
  BY <1>1, <1>3, <1>4

LEMMA FirstIs ==
  ASSUME IInv, head \in Heap, NEW v, Positions(v) # {}
  PROVE  First(v) \in 1 .. Len(Chain) /\ First(v) - 1 \in 0 .. Len(Chain) - 1
<1>1. Len(Chain) \in Nat /\ Positions(v) \subseteq 1 .. Len(Chain)
  BY ListIs DEF Positions
<1>2. Positions(v) \in SUBSET Nat
  BY <1>1
<1>3. \E m \in Positions(v) : \A j \in Positions(v) : m <= j
  BY <1>2, LeastOf
<1>4. First(v) \in Positions(v)
  BY <1>3 DEF First
<1>5. First(v) \in 1 .. Len(Chain)
  BY <1>1, <1>4
<1> QED
  BY <1>1, <1>5

LEMMA AppendStep ==
  ASSUME IInv, head \in Heap, NEW v \in Elements, linked_list_append(v)
  PROVE  Inserts(Len(Chain), v)
<1>1. Len(Chain) \in 0 .. Len(Chain)
  BY ListIs
<1>2. InsertBehind(After(Len(Chain)), v)
  BY DEF linked_list_append
<1> QED
  BY <1>1, <1>2, InsertBehindIs

LEMMA InsertStep ==
  ASSUME IInv, head \in Heap, NEW v \in Elements, NEW i, linked_list_insert(v, i)
  PROVE  IF i \in 0 .. Len(Chain) THEN Inserts(i, v) ELSE UNCHANGED <<value, next>>
<1>1. Count = Len(Chain)
  BY ListIs
<1>2. CASE i \in 0 .. Len(Chain)
  <2>1. InsertBehind(After(i), v)
    BY <1>1, <1>2 DEF linked_list_insert
  <2>2. Inserts(i, v)
    BY <1>2, <2>1, InsertBehindIs
  <2> QED
    BY <1>2, <2>2
<1>3. CASE i \notin 0 .. Len(Chain)
  <2>1. UNCHANGED <<value, next>>
    BY <1>1, <1>3 DEF linked_list_insert, Keeps
  <2> QED
    BY <1>3, <2>1
<1> QED
  BY <1>2, <1>3

LEMMA DeleteStep ==
  ASSUME IInv, head \in Heap, NEW i, linked_list_delete(i)
  PROVE  IF i \in 0 .. Len(Chain) - 1 THEN Deletes(i) ELSE UNCHANGED <<value, next>>
<1>1. Count = Len(Chain)
  BY ListIs
<1>2. CASE i \in 0 .. Len(Chain) - 1
  <2>1. DeleteBehind(After(i))
    BY <1>1, <1>2 DEF linked_list_delete
  <2>2. Deletes(i)
    BY <1>2, <2>1, DeleteBehindIs
  <2> QED
    BY <1>2, <2>2
<1>3. CASE i \notin 0 .. Len(Chain) - 1
  <2>1. UNCHANGED <<value, next>>
    BY <1>1, <1>3 DEF linked_list_delete, Keeps
  <2> QED
    BY <1>3, <2>1
<1> QED
  BY <1>2, <1>3

LEMMA RemoveStep ==
  ASSUME IInv, head \in Heap, NEW v \in Elements, linked_list_remove(v)
  PROVE  IF Positions(v) # {} THEN Deletes(First(v) - 1) ELSE UNCHANGED <<value, next>>
<1>1. CASE Positions(v) # {}
  <2>1. DeleteBehind(After(First(v) - 1))
    BY <1>1 DEF linked_list_remove
  <2>2. First(v) - 1 \in 0 .. Len(Chain) - 1
    BY <1>1, FirstIs
  <2>3. Deletes(First(v) - 1)
    BY <2>1, <2>2, DeleteBehindIs
  <2> QED
    BY <1>1, <2>3
<1>2. CASE Positions(v) = {}
  BY <1>2 DEF linked_list_remove, Keeps
<1> QED
  BY <1>1, <1>2

(* The calls that only read the list. *)
Reads ==
  \/ linked_list_size
  \/ \E v \in Elements : linked_list_search(v) \/ linked_list_search_all(v)
  \/ \E i \in Indexes : linked_list_get(i)

LEMMA ReadsKeep ==
  ASSUME Reads
  PROVE  UNCHANGED <<value, next>>
BY DEF Reads, linked_list_size, linked_list_search, linked_list_search_all, linked_list_get, Keeps

(* Nothing leaves the chain without leaving the heap. *)
Leaks == ~ ((Heap' \ OnChain') \subseteq (Heap \ OnChain))

LEMMA StepIs ==
  ASSUME IInv, ListNext
  PROVE  IInv' /\ (Leaks => list_call'[1] = "remove_all")
<1>0. head \in Heap
  BY DEF ListNext
<1>1. ASSUME UNCHANGED <<value, next>>
      PROVE  IInv' /\ ~ Leaks
  BY <1>1, KeepsIs DEF Leaks
<1>2. ASSUME NEW i, NEW v, Inserts(i, v)
      PROVE  IInv' /\ ~ Leaks
  BY <1>2 DEF Inserts, Leaks
<1>3. ASSUME NEW i, Deletes(i)
      PROVE  IInv' /\ ~ Leaks
  BY <1>3 DEF Deletes, Leaks
<1>4. ASSUME NEW v \in Elements, linked_list_append(v)
      PROVE  IInv' /\ ~ Leaks
  <2>1. Inserts(Len(Chain), v)
    BY <1>0, <1>4, AppendStep
  <2> QED
    BY <1>2, <2>1
<1>5. ASSUME NEW v \in Elements, linked_list_remove(v)
      PROVE  IInv' /\ ~ Leaks
  <2>1. Deletes(First(v) - 1) \/ UNCHANGED <<value, next>>
    BY <1>0, <1>5, RemoveStep
  <2> QED
    BY <1>1, <1>3, <2>1
<1>6. ASSUME NEW v \in Elements, linked_list_remove_all(v)
      PROVE  IInv' /\ list_call'[1] = "remove_all"
  <2>1. list_call' = <<"remove_all", v>>
    BY <1>6 DEF linked_list_remove_all
  <2>2. list_call'[1] = "remove_all"
    BY <2>1
  <2> QED
    BY <1>0, <1>6, <2>2, RemoveAllIs
<1>7. ASSUME NEW i \in Indexes, linked_list_delete(i)
      PROVE  IInv' /\ ~ Leaks
  <2>1. Deletes(i) \/ UNCHANGED <<value, next>>
    BY <1>0, <1>7, DeleteStep
  <2> QED
    BY <1>1, <1>3, <2>1
<1>8. ASSUME NEW i \in Indexes, NEW v \in Elements, linked_list_insert(v, i)
      PROVE  IInv' /\ ~ Leaks
  <2>1. Inserts(i, v) \/ UNCHANGED <<value, next>>
    BY <1>0, <1>8, InsertStep
  <2> QED
    BY <1>1, <1>2, <2>1
<1>9. ASSUME linked_list_free
      PROVE  IInv' /\ ~ Leaks
  BY <1>9, FreeIs DEF Leaks
<1>10. ASSUME Reads
       PROVE  IInv' /\ ~ Leaks
  BY <1>1, <1>10, ReadsKeep
<1> QED
  BY <1>4, <1>5, <1>6, <1>7, <1>8, <1>9, <1>10 DEF ListNext, Reads

(* The inductive invariant holds. *)
LEMMA Invariant ==
  ListSpec => []IInv
<1>1. linked_list_init => IInv
  BY InitIs
<1>2. IInv /\ [ListNext]_list_vars => IInv'
  <2> SUFFICES ASSUME IInv, [ListNext]_list_vars
               PROVE  IInv'
    OBVIOUS
  <2>1. CASE ListNext
    BY <2>1, StepIs
  <2>2. CASE UNCHANGED list_vars
    BY <2>2, KeepsIs DEF list_vars
  <2> QED
    BY <2>1, <2>2
<1> QED
  BY <1>1, <1>2, PTL DEF ListSpec

(***************************************************************************)
(* However many nodes and whatever calls, no loop along the chain reads a  *)
(* node that was freed (linked_list.c:73-100).                             *)
(***************************************************************************)
THEOREM ChainIsAllocatedHolds ==
  ListSpec => []ChainIsAllocated
<1>1. IInv => ChainIsAllocated
  <2> SUFFICES ASSUME IInv, head \in Heap
               PROVE  OnChain \subseteq Heap
    BY DEF ChainIsAllocated
  <2>1. Chain \in Seq(Heap \ {head}) /\ DOMAIN Chain = 1 .. Len(Chain)
    BY ListIs
  <2>2. \A i \in DOMAIN Chain : Chain[i] \in Heap
    BY <2>1
  <2> QED
    BY <2>2 DEF OnChain
<1> QED
  BY <1>1, Invariant, PTL

(***************************************************************************)
(* A node leaves the chain without being freed in remove_all only          *)
(* (linked_list.c:102-114).                                                *)
(***************************************************************************)
THEOREM OnlyRemoveAllLeaksHolds ==
  ListSpec => OnlyRemoveAllLeaks
<1>1. IInv /\ [ListNext]_list_vars =>
        [(Heap' \ OnChain') \subseteq (Heap \ OnChain) \/ list_call'[1] = "remove_all"]_list_vars
  BY StepIs DEF Leaks
<1> QED
  BY <1>1, Invariant, PTL DEF ListSpec, OnlyRemoveAllLeaks

-----------------------------------------------------------------------------
(***************************************************************************)
(* The list that the chain stands for makes the step of IntList.           *)
(***************************************************************************)
List == Image(value, Chain)

LEMMA LibraryIs ==
  /\ \A s, i, x : Contents!InsertAt(s, i, x) = InsertAt(s, i, x)
  /\ \A s, i : Contents!RemoveAt(s, i) = RemoveAt(s, i)
  /\ \A s, S : Contents!Those(s, S) = Those(s, S)
<1>1. \A s, i, x : Contents!InsertAt(s, i, x) = InsertAt(s, i, x)
  BY DEF Contents!InsertAt, InsertAt
<1>2. \A s, i : Contents!RemoveAt(s, i) = RemoveAt(s, i)
  BY DEF Contents!RemoveAt, RemoveAt
<1>3. ASSUME NEW s, NEW S
      PROVE  Contents!Those(s, S) = Those(s, S)
  BY DEF Contents!Those, Those, Contents!Take, Take, Contents!FoldLeft, FoldLeft,
         Contents!MapThenFoldSet, MapThenFoldSet, Contents!Max, Max
<1> QED
  BY <1>1, <1>2, <1>3

(* What the calls of IntList do, in terms of the chain. *)
LEMMA CallsAre ==
  /\ Contents!Size <=> list_call' = <<"size">> /\ list_ret' = <<"int", Len(List)>> /\ List' = List
  /\ Contents!Free <=> list_call' = <<"free">> /\ list_ret' = Void /\ List' = << >>
  /\ \A v : Contents!Append1(v) <=>
       list_call' = <<"append", v>> /\ list_ret' = Void /\ List' = Append(List, v)
  /\ \A v : Contents!RemoveAll(v) <=>
       list_call' = <<"remove_all", v>> /\ list_ret' = Void /\ List' = Those(List, Elements \ {v})
  /\ \A v, i : Contents!Insert(v, i) <=>
       /\ list_call' = <<"insert", v, i>> /\ list_ret' = Void
       /\ List' = IF i \in 0 .. Len(List) THEN InsertAt(List, i + 1, v) ELSE List
  /\ \A i : Contents!Delete(i) <=>
       /\ list_call' = <<"delete", i>> /\ list_ret' = Void
       /\ List' = IF i \in 0 .. Len(List) - 1 THEN RemoveAt(List, i + 1) ELSE List
  /\ \A i : Contents!Get(i) <=>
       /\ list_call' = <<"get", i>> /\ List' = List
       /\ list_ret' = <<"int", IF i \in 0 .. Len(List) - 1 THEN List[i + 1] ELSE INT_MIN>>
<1>1. Contents!Size <=> list_call' = <<"size">> /\ list_ret' = <<"int", Len(List)>> /\ List' = List
  BY DEF Contents!Size, Contents!Call, Contents!Returns, List, Image
<1>2. Contents!Free <=> list_call' = <<"free">> /\ list_ret' = Void /\ List' = << >>
  BY DEF Contents!Free, Contents!Call, Contents!Changes, Contents!Void, Void, List, Image
<1>3. \A v : Contents!Append1(v) <=>
        list_call' = <<"append", v>> /\ list_ret' = Void /\ List' = Append(List, v)
  BY DEF Contents!Append1, Contents!Call, Contents!Changes, Contents!Void, Void, List, Image
<1>4. \A v : Contents!RemoveAll(v) <=>
        list_call' = <<"remove_all", v>> /\ list_ret' = Void /\ List' = Those(List, Elements \ {v})
  BY LibraryIs DEF Contents!RemoveAll, Contents!Call, Contents!Changes, Contents!Void, Void, List, Image
<1>5. \A v, i : Contents!Insert(v, i) <=>
        /\ list_call' = <<"insert", v, i>> /\ list_ret' = Void
        /\ List' = IF i \in 0 .. Len(List) THEN InsertAt(List, i + 1, v) ELSE List
  BY LibraryIs DEF Contents!Insert, Contents!Call, Contents!Changes, Contents!Void, Void, List, Image
<1>6. \A i : Contents!Delete(i) <=>
        /\ list_call' = <<"delete", i>> /\ list_ret' = Void
        /\ List' = IF i \in 0 .. Len(List) - 1 THEN RemoveAt(List, i + 1) ELSE List
  BY LibraryIs DEF Contents!Delete, Contents!Call, Contents!Changes, Contents!InBounds,
                   Contents!Void, Void, List, Image
<1>7. \A i : Contents!Get(i) <=>
        /\ list_call' = <<"get", i>> /\ List' = List
        /\ list_ret' = <<"int", IF i \in 0 .. Len(List) - 1 THEN List[i + 1] ELSE INT_MIN>>
  BY DEF Contents!Get, Contents!Call, Contents!Returns, Contents!InBounds, List, Image
<1> QED
  BY <1>1, <1>2, <1>3, <1>4, <1>5, <1>6, <1>7

LEMMA PositionsAre ==
  ASSUME IInv, head \in Heap, NEW v
  PROVE  Contents!Positions(v) = Positions(v) /\ Contents!First(v) = First(v)
<1>1. /\ DOMAIN List = 1 .. Len(Chain) /\ DOMAIN Chain = 1 .. Len(Chain)
      /\ \A i \in 1 .. Len(Chain) : List[i] = value[Chain[i]]
  BY ContentsAre, ListIs DEF List
<1>2. Contents!Positions(v) = {i \in DOMAIN List : List[i] = v}
  BY DEF Contents!Positions, List, Image
<1>3. Contents!Positions(v) = Positions(v)
  BY <1>1, <1>2 DEF Positions
<1> QED
  BY <1>3 DEF Contents!First, First

LEMMA SearchesAre ==
  ASSUME IInv, head \in Heap, NEW v
  PROVE  /\ Contents!Remove1(v) <=>
              /\ list_call' = <<"remove", v>> /\ list_ret' = Void
              /\ List' = IF Positions(v) = {} THEN List ELSE RemoveAt(List, First(v))
         /\ Contents!Search(v) <=>
              /\ list_call' = <<"search", v>> /\ List' = List
              /\ list_ret' = <<"int", IF Positions(v) = {} THEN -1 ELSE First(v) - 1>>
         /\ Contents!SearchAll(v) <=>
              /\ list_call' = <<"search_all", v>> /\ List' = List
              /\ list_ret' = <<"list", Those([i \in DOMAIN Chain |-> i - 1], {i - 1 : i \in Positions(v)})>>
<1>1. Contents!Remove1(v) <=>
        /\ list_call' = <<"remove", v>> /\ list_ret' = Void
        /\ List' = IF Positions(v) = {} THEN List ELSE RemoveAt(List, First(v))
  BY PositionsAre, LibraryIs DEF Contents!Remove1, Contents!Call, Contents!Changes,
                                 Contents!Void, Void, List, Image
<1>2. Contents!Search(v) <=>
        /\ list_call' = <<"search", v>> /\ List' = List
        /\ list_ret' = <<"int", IF Positions(v) = {} THEN -1 ELSE First(v) - 1>>
  BY PositionsAre DEF Contents!Search, Contents!Call, Contents!Returns, List, Image
<1>3. Contents!SearchAll(v) <=>
        /\ list_call' = <<"search_all", v>> /\ List' = List
        /\ list_ret' = <<"list", Those([i \in DOMAIN Chain |-> i - 1], {i - 1 : i \in Positions(v)})>>
  <2>1. DOMAIN List = DOMAIN Chain
    BY DEF List, Image
  <2>2. Contents!SearchAll(v) <=>
          /\ list_call' = <<"search_all", v>> /\ List' = List
          /\ list_ret' = <<"list", Those([i \in DOMAIN List |-> i - 1], {i - 1 : i \in Positions(v)})>>
    BY PositionsAre, LibraryIs DEF Contents!SearchAll, Contents!Call, Contents!Returns, List, Image
  <2> QED
    BY <2>1, <2>2
<1> QED
  BY <1>1, <1>2, <1>3

LEMMA UnchangedList ==
  ASSUME UNCHANGED <<value, next>>
  PROVE  List' = List
BY DEF List, Image, Chain

LEMMA NextIs ==
  ASSUME IInv, ListNext
  PROVE  Contents!Next
<1>0. head \in Heap
  BY DEF ListNext
<1>1. PICK n : n = Len(Chain)
  OBVIOUS
<1>2. n \in Nat /\ Count = n /\ List \in Seq(Elements) /\ Len(List) = n
  BY <1>0, <1>1, ListIs, ContentsAre DEF List
<1>3. ASSUME linked_list_size
      PROVE  Contents!Next
  <2>1. List' = List /\ list_call' = <<"size">> /\ list_ret' = <<"int", Len(List)>>
    BY <1>2, <1>3, UnchangedList DEF linked_list_size, Keeps
  <2>2. Contents!Size
    BY <2>1, CallsAre
  <2> QED
    BY <2>2 DEF Contents!Next
<1>4. ASSUME linked_list_free
      PROVE  Contents!Next
  <2>1. List' = << >>
    BY <1>4, FreeIs DEF List, Image
  <2>2. list_call' = <<"free">> /\ list_ret' = Void
    BY <1>4 DEF linked_list_free
  <2>3. Contents!Free
    BY <2>1, <2>2, CallsAre
  <2> QED
    BY <2>3 DEF Contents!Next
<1>5. ASSUME NEW v \in Elements, linked_list_append(v)
      PROVE  Contents!Next
  <2>1. Inserts(n, v)
    BY <1>0, <1>1, <1>5, AppendStep
  <2>2. List' = Longer(List, n, v)
    BY <2>1 DEF Inserts, List
  <2>3. Append(List, v) = Longer(List, n, v)
    BY <1>2, AppendIs
  <2>4. list_call' = <<"append", v>> /\ list_ret' = Void
    BY <1>5 DEF linked_list_append
  <2>5. Contents!Append1(v)
    BY <2>2, <2>3, <2>4, CallsAre
  <2> QED
    BY <2>5 DEF Contents!Next
<1>6. ASSUME NEW v \in Elements, linked_list_remove(v)
      PROVE  Contents!Next
  <2>1. list_call' = <<"remove", v>> /\ list_ret' = Void
    BY <1>6 DEF linked_list_remove
  <2>2. IF Positions(v) # {} THEN Deletes(First(v) - 1) ELSE UNCHANGED <<value, next>>
    BY <1>0, <1>6, RemoveStep
  <2>3. ASSUME Positions(v) # {}
        PROVE  List' = RemoveAt(List, First(v))
    <3>1. PICK i : i = First(v)
      OBVIOUS
    <3>2. i \in 1 .. n /\ (i - 1) + 1 = i
      <4>1. i \in 1 .. n
        BY <1>0, <1>1, <2>3, <3>1, FirstIs
      <4> QED
        BY <1>2, <4>1
    <3>3. Deletes(i - 1)
      BY <2>2, <2>3, <3>1
    <3>4. List' = Shorter(List, (i - 1) + 1)
      BY <3>3 DEF Deletes, List
    <3>5. RemoveAt(List, i) = Shorter(List, i)
      BY <1>2, <3>2, RemoveAtIs
    <3> QED
      BY <3>1, <3>2, <3>4, <3>5
  <2>4. ASSUME Positions(v) = {}
        PROVE  List' = List
    BY <2>2, <2>4, UnchangedList
  <2>5. Contents!Remove1(v)
    BY <1>0, <2>1, <2>3, <2>4, SearchesAre
  <2> QED
    BY <2>5 DEF Contents!Next
<1>7. ASSUME NEW v \in Elements, linked_list_remove_all(v)
      PROVE  Contents!Next
  <2>1. list_call' = <<"remove_all", v>> /\ list_ret' = Void
    BY <1>7 DEF linked_list_remove_all
  <2>2. List' = Those(List, Elements \ {v})
    BY <1>0, <1>7, RemoveAllIs DEF List
  <2>3. Contents!RemoveAll(v)
    BY <2>1, <2>2, CallsAre
  <2> QED
    BY <2>3 DEF Contents!Next
<1>8. ASSUME NEW v \in Elements, linked_list_search(v)
      PROVE  Contents!Next
  <2>1. /\ list_call' = <<"search", v>> /\ List' = List
        /\ list_ret' = <<"int", IF Positions(v) = {} THEN -1 ELSE First(v) - 1>>
    BY <1>8, UnchangedList DEF linked_list_search, Keeps
  <2>2. Contents!Search(v)
    BY <1>0, <2>1, SearchesAre
  <2> QED
    BY <2>2 DEF Contents!Next
<1>9. ASSUME NEW v \in Elements, linked_list_search_all(v)
      PROVE  Contents!Next
  <2>1. /\ list_call' = <<"search_all", v>> /\ List' = List
        /\ list_ret' = <<"list", Those([i \in DOMAIN Chain |-> i - 1], {i - 1 : i \in Positions(v)})>>
    BY <1>9, UnchangedList DEF linked_list_search_all, Keeps
  <2>2. Contents!SearchAll(v)
    BY <1>0, <2>1, SearchesAre
  <2> QED
    BY <2>2 DEF Contents!Next
<1>10. ASSUME NEW i \in Indexes, linked_list_delete(i)
       PROVE  Contents!Next
  <2>1. list_call' = <<"delete", i>> /\ list_ret' = Void
    BY <1>10 DEF linked_list_delete
  <2>2. IF i \in 0 .. n - 1 THEN Deletes(i) ELSE UNCHANGED <<value, next>>
    BY <1>0, <1>1, <1>10, DeleteStep
  <2>3. ASSUME i \in 0 .. n - 1
        PROVE  List' = RemoveAt(List, i + 1)
    <3>1. List' = Shorter(List, i + 1)
      BY <2>2, <2>3 DEF Deletes, List
    <3>2. i + 1 \in 1 .. n
      BY <1>2, <2>3
    <3>3. RemoveAt(List, i + 1) = Shorter(List, i + 1)
      BY <1>2, <3>2, RemoveAtIs
    <3> QED
      BY <3>1, <3>3
  <2>4. ASSUME i \notin 0 .. n - 1
        PROVE  List' = List
    BY <2>2, <2>4, UnchangedList
  <2>5. List' = IF i \in 0 .. Len(List) - 1 THEN RemoveAt(List, i + 1) ELSE List
    BY <1>2, <2>3, <2>4
  <2>6. Contents!Delete(i)
    BY <2>1, <2>5, CallsAre
  <2> QED
    BY <2>6 DEF Contents!Next
<1>11. ASSUME NEW i \in Indexes, linked_list_get(i)
       PROVE  Contents!Next
  <2>1. List' = List /\ list_call' = <<"get", i>>
    BY <1>11, UnchangedList DEF linked_list_get, Keeps
  <2>2. list_ret' = <<"int", IF i \in 0 .. n - 1 THEN value[After(i + 1)] ELSE INT_MIN>>
    BY <1>2, <1>11 DEF linked_list_get
  <2>3. ASSUME i \in 0 .. n - 1
        PROVE  value[After(i + 1)] = List[i + 1]
    <3>1. i + 1 \in 1 .. n /\ i + 1 # 0
      BY <1>2, <2>3
    <3>2. After(i + 1) = Chain[i + 1]
      BY <3>1 DEF After
    <3>3. List[i + 1] = value[Chain[i + 1]]
      BY <1>0, <1>1, <3>1, ContentsAre DEF List
    <3> QED
      BY <3>2, <3>3
  <2>4. list_ret' = <<"int", IF i \in 0 .. Len(List) - 1 THEN List[i + 1] ELSE INT_MIN>>
    BY <1>2, <2>2, <2>3
  <2>5. Contents!Get(i)
    BY <2>1, <2>4, CallsAre
  <2> QED
    BY <2>5 DEF Contents!Next
<1>12. ASSUME NEW i \in Indexes, NEW v \in Elements, linked_list_insert(v, i)
       PROVE  Contents!Next
  <2>1. list_call' = <<"insert", v, i>> /\ list_ret' = Void
    BY <1>12 DEF linked_list_insert
  <2>2. IF i \in 0 .. n THEN Inserts(i, v) ELSE UNCHANGED <<value, next>>
    BY <1>0, <1>1, <1>12, InsertStep
  <2>3. ASSUME i \in 0 .. n
        PROVE  List' = InsertAt(List, i + 1, v)
    <3>1. List' = Longer(List, i, v)
      BY <2>2, <2>3 DEF Inserts, List
    <3>2. InsertAt(List, i + 1, v) = Longer(List, i, v)
      BY <1>2, <2>3, InsertAtIs
    <3> QED
      BY <3>1, <3>2
  <2>4. ASSUME i \notin 0 .. n
        PROVE  List' = List
    BY <2>2, <2>4, UnchangedList
  <2>5. List' = IF i \in 0 .. Len(List) THEN InsertAt(List, i + 1, v) ELSE List
    BY <1>2, <2>3, <2>4
  <2>6. Contents!Insert(v, i)
    BY <2>1, <2>5, CallsAre
  <2> QED
    BY <2>6 DEF Contents!Next
<1> QED
  BY <1>3, <1>4, <1>5, <1>6, <1>7, <1>8, <1>9, <1>10, <1>11, <1>12 DEF ListNext

(***************************************************************************)
(* The linked list implements the sequence of linked_list.h (14-57): every *)
(* call, with positions in and out of bounds, answers and changes the list *)
(* as described there, for lists of any length.                            *)
(***************************************************************************)
THEOREM ImplementsListHolds ==
  ListSpec => ImplementsList
<1>1. linked_list_init => Contents!Init
  <2> SUFFICES ASSUME linked_list_init
               PROVE  Contents!Init
    OBVIOUS
  <2>1. Chain = << >>
    BY InitIs
  <2>2. List = << >>
    BY <2>1 DEF List, Image
  <2> QED
    BY <2>2 DEF linked_list_init, Contents!Init, Contents!Void, Void, List, Image
<1>2. IInv /\ [ListNext]_list_vars => [Contents!Next]_(Contents!vars)
  <2> SUFFICES ASSUME IInv, [ListNext]_list_vars
               PROVE  [Contents!Next]_(Contents!vars)
    OBVIOUS
  <2>1. CASE ListNext
    BY <2>1, NextIs
  <2>2. CASE UNCHANGED list_vars
    <3>1. UNCHANGED <<value, next>> /\ UNCHANGED <<list_call, list_ret>>
      BY <2>2 DEF list_vars
    <3>2. List' = List
      BY <3>1, UnchangedList
    <3> QED
      BY <3>1, <3>2 DEF Contents!vars, List, Image
  <2> QED
    BY <2>1, <2>2
<1> QED
  BY <1>1, <1>2, Invariant, PTL DEF ListSpec, ImplementsList, Contents!Spec

-----------------------------------------------------------------------------
(* Lab 5. *)
Pair == [key : Keys, value : Values]

ListOK == nodes \in Seq(Pair)

(* What is left of a sequence without its i-th element. *)
LEMMA Removed ==
  ASSUME NEW S, NEW s \in Seq(S), NEW i \in 1 .. Len(s), NEW t, t = RemoveAt(s, i)
  PROVE  /\ t \in Seq(S)
         /\ Len(t) = Len(s) - 1
         /\ \A j \in 1 .. Len(t) : t[j] = IF j < i THEN s[j] ELSE s[j + 1]
<1>1. Len(s) \in Nat /\ i \in Nat /\ 1 <= i /\ i <= Len(s)
  OBVIOUS
<1>2. PICK u, v : u = SubSeq(s, 1, i - 1) /\ v = SubSeq(s, i + 1, Len(s))
  OBVIOUS
<1>3. /\ u \in Seq(S) /\ Len(u) = i - 1
      /\ \A j \in 1 .. i - 1 : u[j] = s[j]
  BY <1>1, <1>2
<1>4. /\ v \in Seq(S) /\ Len(v) = Len(s) - i
      /\ \A j \in 1 .. Len(s) - i : v[j] = s[j + i]
  BY <1>1, <1>2
<1>5. t = u \o v
  BY <1>2 DEF RemoveAt
<1>6. t \in Seq(S) /\ Len(t) = Len(s) - 1
  BY <1>1, <1>3, <1>4, <1>5
<1>7. ASSUME NEW j \in 1 .. Len(t)
      PROVE  t[j] = IF j < i THEN s[j] ELSE s[j + 1]
  <2>1. CASE j < i
    BY <1>1, <1>3, <1>4, <1>5, <1>6, <2>1
  <2>2. CASE j >= i
    <3>1. /\ j - (i - 1) \in 1 .. Len(s) - i
          /\ (j - (i - 1)) + i = j + 1
      BY <1>1, <1>6, <2>2
    <3>2. t[j] = v[j - (i - 1)]
      BY <1>1, <1>3, <1>4, <1>5, <1>6, <2>2
    <3> QED
      BY <1>1, <1>4, <2>2, <3>1, <3>2
  <2> QED
    BY <1>1, <2>1, <2>2
<1> QED
  BY <1>6, <1>7

(***************************************************************************)
(* The search for a key finds the first node that has it: there are two at *)
(* most, and they are neighbours.                                          *)
(***************************************************************************)
LEMMA FirstFound ==
  ASSUME ListOK, TwinsAreNeighbours, NEW k, With(nodes, k) # {}
  PROVE  FirstWith(nodes, k) \in With(nodes, k)
<1>1. With(nodes, k) \subseteq 1 .. Len(nodes) /\ Len(nodes) \in Nat
  BY DEF With, ListOK
<1>2. PICK i \in With(nodes, k) : TRUE
  OBVIOUS
<1>3. \A p, q \in With(nodes, k) : p < q => q = p + 1
  BY DEF With, TwinsAreNeighbours
<1>4. \E m \in With(nodes, k) : \A j \in With(nodes, k) : m <= j
  <2> DEFINE Least(m) == \A j \in With(nodes, k) : m <= j
  <2>1. \A p \in With(nodes, k) : p \in Nat
    BY <1>1
  <2>2. CASE i - 1 \in With(nodes, k)
    <3>1. Least(i - 1)
      BY <1>3, <2>1, <2>2
    <3> QED
      BY <2>2, <3>1
  <2>3. CASE i - 1 \notin With(nodes, k)
    <3>1. Least(i)
      <4> SUFFICES ASSUME NEW j \in With(nodes, k), ~ (i <= j)
                   PROVE  FALSE
        OBVIOUS
      <4>1. j < i /\ j \in Nat /\ i \in Nat
        BY <2>1
      <4>2. i = j + 1
        BY <1>3, <4>1
      <4>3. i - 1 = j
        BY <4>1, <4>2
      <4> QED
        BY <2>3, <4>3
    <3> QED
      BY <3>1
  <2> QED
    BY <2>2, <2>3
<1> QED
  BY <1>4 DEF FirstWith

LEMMA InsertKeeps ==
  ASSUME ListOK, TwinsAreNeighbours, NEW k \in Keys, NEW v \in Values, symtab_insert(k, v)
  PROVE  ListOK' /\ TwinsAreNeighbours'
<1>1. CASE nodes' = nodes
  BY <1>1 DEF ListOK, TwinsAreNeighbours
<1>2. CASE /\ nodes' = Append(nodes, Entry(k, v))
           /\ \A i \in 1 .. Len(nodes) - 1 : nodes[i].key # k
  <2>1. Entry(k, v) \in Pair /\ Entry(k, v).key = k
    BY DEF Entry, Pair
  <2>2. /\ nodes' \in Seq(Pair) /\ Len(nodes) \in Nat
        /\ Len(nodes') = Len(nodes) + 1
        /\ \A i \in 1 .. Len(nodes) : nodes'[i] = nodes[i]
        /\ nodes'[Len(nodes) + 1].key = k
    BY <1>2, <2>1 DEF ListOK
  <2>3. ASSUME NEW i \in 1 .. Len(nodes'), NEW j \in 1 .. Len(nodes'), i < j,
               nodes'[i].key = nodes'[j].key
        PROVE  j = i + 1
    <3>1. i \in 1 .. Len(nodes) /\ nodes'[i] = nodes[i]
      BY <2>2, <2>3
    <3>2. CASE j = Len(nodes) + 1
      BY <1>2, <2>2, <2>3, <3>1, <3>2
    <3>3. CASE j \in 1 .. Len(nodes)
      BY <2>2, <2>3, <3>1, <3>3 DEF TwinsAreNeighbours, ListOK
    <3> QED
      BY <2>2, <3>2, <3>3
  <2> QED
    BY <2>2, <2>3 DEF ListOK, TwinsAreNeighbours
<1> QED
  BY <1>1, <1>2 DEF symtab_insert, Compared

LEMMA RemoveKeeps ==
  ASSUME ListOK, TwinsAreNeighbours, NEW k \in Keys, symtab_remove(k)
  PROVE  ListOK' /\ TwinsAreNeighbours'
<1>1. CASE With(nodes, k) = {}
  BY <1>1 DEF symtab_remove, ListOK, TwinsAreNeighbours
<1>2. CASE With(nodes, k) # {}
  <2>1. PICK d : d = FirstWith(nodes, k)
    OBVIOUS
  <2>2. d \in 1 .. Len(nodes) /\ nodes' = RemoveAt(nodes, d) /\ Len(nodes) \in Nat
    BY <1>2, <2>1, FirstFound DEF symtab_remove, With, ListOK
  <2>3. /\ nodes' \in Seq(Pair)
        /\ Len(nodes') = Len(nodes) - 1
        /\ \A j \in 1 .. Len(nodes') : nodes'[j] = IF j < d THEN nodes[j] ELSE nodes[j + 1]
    BY <2>2, Removed DEF ListOK
  <2>4. \A p, q \in 1 .. Len(nodes) : p < q /\ nodes[p].key = nodes[q].key => q = p + 1
    BY DEF TwinsAreNeighbours, ListOK
  <2>5. ASSUME NEW i \in 1 .. Len(nodes'), NEW j \in 1 .. Len(nodes'), i < j,
               nodes'[i].key = nodes'[j].key
        PROVE  j = i + 1
    <3>1. i \in Nat /\ j \in Nat /\ d \in Nat /\ j + 1 \in 1 .. Len(nodes)
      BY <2>2, <2>3
    <3>2. CASE j < d
      <4>1. nodes'[i] = nodes[i] /\ nodes'[j] = nodes[j]
        BY <2>3, <2>5, <3>1, <3>2
      <4>2. i \in 1 .. Len(nodes) /\ j \in 1 .. Len(nodes)
        BY <2>2, <2>3
      <4> QED
        BY <2>4, <2>5, <4>1, <4>2
    <3>3. CASE i < d /\ d <= j
      <4>1. nodes'[i] = nodes[i] /\ nodes'[j] = nodes[j + 1]
        BY <2>3, <3>1, <3>3
      <4>2. i \in 1 .. Len(nodes) /\ i < j + 1
        BY <2>2, <2>3, <2>5
      <4>3. j + 1 = i + 1
        BY <2>4, <2>5, <3>1, <4>1, <4>2
      <4> QED
        BY <2>5, <3>1, <4>3
    <3>4. CASE d <= i
      <4>1. nodes'[i] = nodes[i + 1] /\ nodes'[j] = nodes[j + 1]
        BY <2>3, <2>5, <3>1, <3>4
      <4>2. i + 1 \in 1 .. Len(nodes) /\ i + 1 < j + 1
        BY <2>2, <2>3, <2>5
      <4>3. j + 1 = (i + 1) + 1
        BY <2>4, <2>5, <3>1, <4>1, <4>2
      <4> QED
        BY <3>1, <4>3
    <3> QED
      BY <3>1, <3>2, <3>3, <3>4
  <2> QED
    BY <2>3, <2>5 DEF ListOK, TwinsAreNeighbours
<1> QED
  BY <1>1, <1>2

LEMMA NextKeeps ==
  ASSUME ListOK, TwinsAreNeighbours, [Next]_vars
  PROVE  ListOK' /\ TwinsAreNeighbours'
<1>1. CASE nodes' = nodes
  BY <1>1 DEF ListOK, TwinsAreNeighbours
<1>2. CASE \E k \in Keys : symtab_remove(k)
  BY <1>2, RemoveKeeps
<1>3. CASE \E k \in Keys : \E v \in Values : symtab_insert(k, v)
  BY <1>3, InsertKeeps
<1> QED
  BY <1>1, <1>2, <1>3 DEF Next, vars, symtab_lookup

(***************************************************************************)
(* symtab_insert misses the last node (symtab_ll.c:24), so a key may be    *)
(* twice in the list, but only in neighbouring nodes.                      *)
(***************************************************************************)
THEOREM Neighbours == Spec => []TwinsAreNeighbours
<1>1. Init => ListOK /\ TwinsAreNeighbours
  BY DEF Init, ListOK, TwinsAreNeighbours
<1> QED
  BY <1>1, NextKeeps, PTL DEF Spec

-----------------------------------------------------------------------------
(***************************************************************************)
(* The refinement.  As long as the youngest key is not inserted again, no  *)
(* key is in the list twice, and the table is read off its nodes.          *)
(***************************************************************************)
KeysIn(list) == {list[i].key : i \in 1 .. Len(list)}

LEMMA TableIs ==
  ASSUME NEW list \in Seq(Pair), Apart(list)
  PROVE  /\ Table(list) = [k \in KeysIn(list) |-> Table(list)[k]]
         /\ \A i \in 1 .. Len(list) :
              /\ list[i].key \in KeysIn(list)
              /\ Table(list)[list[i].key] = list[i].value
         /\ \A k \in KeysIn(list) : \E i \in 1 .. Len(list) : list[i].key = k
         /\ \A k : With(list, k) = {} <=> k \notin KeysIn(list)
<1>1. DOMAIN list = 1 .. Len(list)
  OBVIOUS
<1>2. Table(list) = [k \in KeysIn(list) |-> list[FirstWith(list, k)].value]
  BY <1>1 DEF Table, KeysIn
<1>3. ASSUME NEW i \in 1 .. Len(list)
      PROVE  Table(list)[list[i].key] = list[i].value
  <2>1. \A j \in With(list, list[i].key) : j = i
    BY <1>1 DEF With, Apart
  <2>2. i \in With(list, list[i].key) /\ i <= i
    BY <1>1 DEF With
  <2>3. FirstWith(list, list[i].key) = i
    BY <2>1, <2>2 DEF FirstWith
  <2>4. list[i].key \in KeysIn(list)
    BY DEF KeysIn
  <2> QED
    BY <1>2, <2>3, <2>4
<1>4. \A k : With(list, k) = {} <=> k \notin KeysIn(list)
  BY <1>1 DEF With, KeysIn
<1> QED
  BY <1>2, <1>3, <1>4 DEF KeysIn

(* A table is known by its keys and their values. *)
LEMMA SameTable ==
  ASSUME NEW list \in Seq(Pair), Apart(list), NEW K, KeysIn(list) = K, NEW f,
         \A i \in 1 .. Len(list) : f[list[i].key] = list[i].value
  PROVE  Table(list) = [k \in K |-> f[k]]
<1>1. ASSUME NEW k \in K
      PROVE  Table(list)[k] = f[k]
  <2>1. PICK i \in 1 .. Len(list) : list[i].key = k
    BY TableIs
  <2> QED
    BY <2>1, TableIs
<1> QED
  BY <1>1, TableIs

LEMMA LookupMaps ==
  ASSUME ListOK, Apart(nodes), NEW k \in Keys, symtab_lookup(k)
  PROVE  Map!Lookup(k)
<1>1. nodes \in Seq(Pair) /\ nodes' = nodes
  BY DEF ListOK, symtab_lookup
<1>2. DOMAIN Table(nodes) = KeysIn(nodes)
  BY <1>1, TableIs
<1>3. k \in KeysIn(nodes) => Table(nodes)[k] = nodes[FirstWith(nodes, k)].value
  BY <1>1 DEF Table, KeysIn
<1>4. With(nodes, k) = {} <=> k \notin KeysIn(nodes)
  BY <1>1, TableIs
<1> QED
  BY <1>1, <1>2, <1>3, <1>4 DEF symtab_lookup, Map!Lookup

LEMMA InsertMaps ==
  ASSUME ~ InsertsLast, ListOK, Apart(nodes), NEW k \in Keys, NEW v \in Values,
         symtab_insert(k, v)
  PROVE  Map!Insert(k, v) /\ Apart(nodes)'
<1>0. call' = <<"insert", k, v>>
  BY DEF symtab_insert
<1>1. /\ nodes \in Seq(Pair) /\ Len(nodes) \in Nat
      /\ Table(nodes) = [key \in KeysIn(nodes) |-> Table(nodes)[key]]
      /\ With(nodes, k) = {} <=> k \notin KeysIn(nodes)
  BY TableIs DEF ListOK
<1>2. DOMAIN Table(nodes) = KeysIn(nodes)
  BY <1>1
<1>3. CASE k \in KeysIn(nodes)
  <2>1. PICK i \in 1 .. Len(nodes) : nodes[i].key = k
    BY <1>3 DEF KeysIn
  <2>2. i \in With(nodes, k)
    BY <1>1, <2>1 DEF With
  <2>3. i # Len(nodes)
    <3> SUFFICES ASSUME i = Len(nodes)
                 PROVE  FALSE
      OBVIOUS
    <3>1. nodes # << >> /\ Last(nodes) = nodes[i]
      BY <1>1, <2>1 DEF Last
    <3> QED
      BY <1>0, <2>1, <3>1 DEF InsertsLast
  <2>4. i \in Compared
    BY <1>1, <2>1, <2>3 DEF Compared
  <2>5. ret' = 0 /\ nodes' = nodes
    BY <2>1, <2>4 DEF symtab_insert
  <2> QED
    BY <1>0, <1>2, <1>3, <2>5 DEF Map!Insert, Apart
<1>4. CASE k \notin KeysIn(nodes)
  <2>1. ret' = 1 /\ nodes' = Append(nodes, Entry(k, v))
    <3>1. \A i \in Compared : nodes[i].key # k
      BY <1>1, <1>4 DEF Compared, KeysIn
    <3> QED
      BY <3>1 DEF symtab_insert
  <2>2. Entry(k, v) \in Pair /\ Entry(k, v).key = k /\ Entry(k, v).value = v
    BY DEF Entry, Pair
  <2>3. /\ nodes' \in Seq(Pair)
        /\ Len(nodes') = Len(nodes) + 1
        /\ \A i \in 1 .. Len(nodes) : nodes'[i] = nodes[i]
        /\ nodes'[Len(nodes) + 1] = Entry(k, v)
    BY <1>1, <2>1, <2>2
  <2>4. \A i \in 1 .. Len(nodes') : i \in 1 .. Len(nodes) \/ i = Len(nodes) + 1
    BY <1>1, <2>3
  <2>5. \A i \in 1 .. Len(nodes) : nodes[i].key # k /\ i \in 1 .. Len(nodes')
    BY <1>1, <1>4, <2>3 DEF KeysIn
  <2>6. Apart(nodes')
    BY <2>2, <2>3, <2>4, <2>5 DEF Apart
  <2>7. KeysIn(nodes') = KeysIn(nodes) \union {k}
    <3>1. Len(nodes) + 1 \in 1 .. Len(nodes')
      BY <1>1, <2>3
    <3> QED
      BY <2>2, <2>3, <2>4, <2>5, <3>1 DEF KeysIn
  <2>8. PICK f : f = [key \in KeysIn(nodes) \union {k} |->
                        IF key = k THEN v ELSE Table(nodes)[key]]
    OBVIOUS
  <2>9. ASSUME NEW i \in 1 .. Len(nodes')
        PROVE  f[nodes'[i].key] = nodes'[i].value
    <3>1. CASE i \in 1 .. Len(nodes)
      <4>1. nodes[i].key \in KeysIn(nodes) /\ Table(nodes)[nodes[i].key] = nodes[i].value
        BY <1>1, <3>1, TableIs
      <4> QED
        BY <2>3, <2>5, <2>8, <3>1, <4>1
    <3>2. CASE i = Len(nodes) + 1
      BY <2>2, <2>3, <2>8, <3>2
    <3> QED
      BY <2>4, <3>1, <3>2
  <2>10. Table(nodes') = [key \in KeysIn(nodes) \union {k} |-> f[key]]
    <3>1. PICK list \in Seq(Pair) : list = nodes'
      BY <2>3
    <3>2. PICK K : K = KeysIn(nodes) \union {k}
      OBVIOUS
    <3>3. Apart(list) /\ KeysIn(list) = K
      BY <2>6, <2>7, <3>1, <3>2
    <3>4. \A i \in 1 .. Len(list) : f[list[i].key] = list[i].value
      BY <2>9, <3>1
    <3>5. Table(list) = [key \in K |-> f[key]]
      BY <3>3, <3>4, SameTable
    <3> QED
      BY <3>1, <3>2, <3>5
  <2>11. Table(nodes') = f
    BY <2>8, <2>10
  <2> QED
    BY <1>0, <1>2, <1>4, <2>1, <2>6, <2>8, <2>11 DEF Map!Insert
<1> QED
  BY <1>3, <1>4

LEMMA RemoveMaps ==
  ASSUME ListOK, Apart(nodes), NEW k \in Keys, symtab_remove(k)
  PROVE  Map!Remove(k) /\ Apart(nodes)'
<1>0. call' = <<"remove", k>>
  BY DEF symtab_remove
<1>1. /\ nodes \in Seq(Pair) /\ Len(nodes) \in Nat
      /\ Table(nodes) = [key \in KeysIn(nodes) |-> Table(nodes)[key]]
      /\ With(nodes, k) = {} <=> k \notin KeysIn(nodes)
  BY TableIs DEF ListOK
<1>2. DOMAIN Table(nodes) = KeysIn(nodes)
  BY <1>1
<1>3. CASE k \notin KeysIn(nodes)
  <2>1. ret' = 0 /\ nodes' = nodes
    BY <1>1, <1>3 DEF symtab_remove
  <2>2. KeysIn(nodes) \ {k} = KeysIn(nodes)
    BY <1>3
  <2>3. Map!Without(k) = Table(nodes)
    BY <1>1, <1>2, <2>2 DEF Map!Without
  <2> QED
    BY <1>0, <1>2, <1>3, <2>1, <2>3 DEF Map!Remove, Apart
<1>4. CASE k \in KeysIn(nodes)
  <2>1. PICK d \in 1 .. Len(nodes) : nodes[d].key = k /\ nodes' = RemoveAt(nodes, d)
    <3>1. PICK i \in 1 .. Len(nodes) : nodes[i].key = k
      BY <1>4 DEF KeysIn
    <3>2. \A j \in With(nodes, k) : j = i
      BY <1>1, <3>1 DEF With, Apart
    <3>3. i \in With(nodes, k) /\ i <= i
      BY <1>1, <3>1 DEF With
    <3>4. FirstWith(nodes, k) = i
      BY <3>2, <3>3 DEF FirstWith
    <3> QED
      BY <3>1, <3>3, <3>4 DEF symtab_remove
  <2>2. ret' = 1
    BY <1>1, <1>4 DEF symtab_remove
  <2>3. /\ nodes' \in Seq(Pair)
        /\ Len(nodes') = Len(nodes) - 1
        /\ \A j \in 1 .. Len(nodes') : nodes'[j] = IF j < d THEN nodes[j] ELSE nodes[j + 1]
    BY <1>1, <2>1, Removed
  <2>4. PICK old : old = [j \in 1 .. Len(nodes') |-> IF j < d THEN j ELSE j + 1]
    OBVIOUS
  <2>5. /\ \A j \in 1 .. Len(nodes') :
             old[j] \in 1 .. Len(nodes) /\ old[j] # d /\ nodes'[j] = nodes[old[j]]
        /\ \A i, j \in 1 .. Len(nodes') : old[i] = old[j] => i = j
    BY <1>1, <2>1, <2>3, <2>4
  <2>6. \A i \in 1 .. Len(nodes) : i # d => \E j \in 1 .. Len(nodes') : old[j] = i
    <3> SUFFICES ASSUME NEW i \in 1 .. Len(nodes), i # d
                 PROVE  \E j \in 1 .. Len(nodes') : old[j] = i
      OBVIOUS
    <3>1. CASE i < d
      <4>1. i \in 1 .. Len(nodes') /\ old[i] = i
        BY <1>1, <2>1, <2>3, <2>4, <3>1
      <4> QED
        BY <4>1
    <3>2. CASE d < i
      <4>1. i - 1 \in 1 .. Len(nodes') /\ old[i - 1] = i
        BY <1>1, <2>1, <2>3, <2>4, <3>2
      <4> QED
        BY <4>1
    <3> QED
      BY <1>1, <2>1, <3>1, <3>2
  <2>7. Apart(nodes')
    <3> SUFFICES ASSUME NEW i \in 1 .. Len(nodes'), NEW j \in 1 .. Len(nodes'),
                        nodes'[i].key = nodes'[j].key
                 PROVE  i = j
      BY DEF Apart
    <3>1. /\ old[i] \in 1 .. Len(nodes) /\ nodes'[i] = nodes[old[i]]
          /\ old[j] \in 1 .. Len(nodes) /\ nodes'[j] = nodes[old[j]]
      BY <2>5
    <3>2. old[i] = old[j]
      BY <3>1 DEF Apart
    <3> QED
      BY <2>5, <3>2
  <2>8. \A i \in 1 .. Len(nodes) : nodes[i].key = k => i = d
    BY <2>1 DEF Apart
  <2>9. KeysIn(nodes') = KeysIn(nodes) \ {k}
    <3>1. \A j \in 1 .. Len(nodes') : nodes'[j].key \in KeysIn(nodes) \ {k}
      BY <2>5, <2>8 DEF KeysIn
    <3>2. \A i \in 1 .. Len(nodes) : nodes[i].key # k => nodes[i].key \in KeysIn(nodes')
      BY <2>1, <2>5, <2>6 DEF KeysIn
    <3> QED
      BY <3>1, <3>2 DEF KeysIn
  <2>10. ASSUME NEW j \in 1 .. Len(nodes')
         PROVE  Table(nodes)[nodes'[j].key] = nodes'[j].value
    BY <1>1, <2>5, TableIs
  <2>11. Table(nodes') = [key \in KeysIn(nodes) \ {k} |-> Table(nodes)[key]]
    <3>1. PICK list \in Seq(Pair) : list = nodes'
      BY <2>3
    <3>2. PICK f, K : f = Table(nodes) /\ K = KeysIn(nodes) \ {k}
      OBVIOUS
    <3>3. Apart(list) /\ KeysIn(list) = K
      BY <2>7, <2>9, <3>1, <3>2
    <3>4. \A i \in 1 .. Len(list) : f[list[i].key] = list[i].value
      BY <2>10, <3>1, <3>2
    <3>5. Table(list) = [key \in K |-> f[key]]
      BY <3>3, <3>4, SameTable
    <3> QED
      BY <3>1, <3>2, <3>5
  <2> QED
    BY <1>0, <1>2, <1>4, <2>2, <2>7, <2>11 DEF Map!Remove, Map!Without
<1> QED
  BY <1>3, <1>4

LEMMA StepMaps ==
  ASSUME ~ InsertsLast, ListOK, Apart(nodes), Next
  PROVE  Map!Next /\ Apart(nodes)'
<1>1. CASE \E k \in Keys : symtab_lookup(k)
  <2>1. PICK k \in Keys : symtab_lookup(k)
    BY <1>1
  <2>2. Map!Lookup(k)
    BY <2>1, LookupMaps
  <2>3. Apart(nodes)'
    BY <2>1 DEF symtab_lookup, Apart
  <2> QED
    BY <2>2, <2>3 DEF Map!Next
<1>2. CASE \E k \in Keys : symtab_remove(k)
  <2>1. PICK k \in Keys : symtab_remove(k)
    BY <1>2
  <2>2. Map!Remove(k) /\ Apart(nodes)'
    BY <2>1, RemoveMaps
  <2> QED
    BY <2>2 DEF Map!Next
<1>3. CASE \E k \in Keys : \E v \in Values : symtab_insert(k, v)
  <2>1. PICK k \in Keys, v \in Values : symtab_insert(k, v)
    BY <1>3
  <2>2. Map!Insert(k, v) /\ Apart(nodes)'
    BY <2>1, InsertMaps
  <2> QED
    BY <2>2 DEF Map!Next
<1> QED
  BY <1>1, <1>2, <1>3 DEF Next

(***************************************************************************)
(* While no key is in the list twice, every call that does not insert the  *)
(* youngest key again is one of the map that symtab.h:25-38 describes.     *)
(***************************************************************************)
THEOREM StepsAreMapSteps == Spec => StepsLikeMap
<1>1. Init => ListOK /\ TwinsAreNeighbours
  BY DEF Init, ListOK, TwinsAreNeighbours
<1>2. ASSUME ListOK, [Next]_vars
      PROVE  [Apart(nodes) /\ ~ InsertsLast => Map!Next]_vars
  BY <1>2, StepMaps
<1> QED
  BY <1>1, <1>2, NextKeeps, PTL DEF Spec, StepsLikeMap

(***************************************************************************)
(* When no caller ever inserts the youngest key again, the list implements *)
(* the map.                                                                *)
(***************************************************************************)
THEOREM ListIsMap == Spec /\ [][~ InsertsLast]_vars => Map!Spec
<1>1. Init => ListOK /\ TwinsAreNeighbours /\ Apart(nodes)
  BY DEF Init, ListOK, TwinsAreNeighbours, Apart
<1>2. Init => Map!Init
  BY DEF Init, Map!Init, Table
<1>3. ASSUME ListOK, Apart(nodes), [Next]_vars, [~ InsertsLast]_vars
      PROVE  [Map!Next]_(Map!vars) /\ Apart(nodes)'
  <2>1. CASE UNCHANGED vars
    BY <1>3, <2>1 DEF vars, Map!vars, Apart
  <2>2. CASE Next /\ ~ InsertsLast
    BY <1>3, <2>2, StepMaps
  <2> QED
    BY <1>3, <2>1, <2>2
<1> QED
  BY <1>1, <1>2, <1>3, NextKeeps, PTL DEF Spec, Map!Spec

=============================================================================
