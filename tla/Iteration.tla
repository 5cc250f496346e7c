----------------------------- MODULE Iteration -----------------------------
(***************************************************************************)
(* A loop over the elements of a sequence, for any body Step(state,        *)
(* element): what it computes, and that it has a state after each element. *)
(***************************************************************************)
EXTENDS Integers, SequencesExt, WellFoundedInduction, TLAPS

CONSTANT Step(_, _)

Iterate(start, s) == FoldLeft(Step, start, s)

-----------------------------------------------------------------------------
(* Induction over the natural numbers, for a set instead of a predicate. *)
LEMMA NatSet ==
  ASSUME NEW S, 0 \in S, \A k \in Nat : k \in S => k + 1 \in S
  PROVE  \A k \in Nat : k \in S
<1> DEFINE T == Nat \ S
<1> SUFFICES ASSUME T # {} PROVE FALSE
  OBVIOUS
<1>1. IsWellFoundedOn(OpToRel(<, Nat), Nat)
  BY NatLessThanWellFounded
<1>2. PICK x \in T : \A y \in T : ~ (<<y, x>> \in OpToRel(<, Nat))
  <2> HIDE DEF T
  <2>1. T \subseteq Nat
    BY DEF T
  <2> QED
    BY <1>1, <2>1, WFMin
<1>3. x \in Nat /\ x # 0 /\ x - 1 \in Nat
  OBVIOUS
<1>4. <<x - 1, x>> \in OpToRel(<, Nat)
  BY <1>3 DEF OpToRel
<1>5. x - 1 \notin T
  BY <1>2, <1>4
<1> QED
  BY <1>3, <1>5

LEMMA MaxIs ==
  ASSUME NEW k \in Nat, NEW t \in SUBSET (1 .. k), k \in t
  PROVE  Max(t) = k
<1>1. \A y \in t : k >= y
  OBVIOUS
<1>2. \A x \in t : (\A y \in t : x >= y) => x = k
  <2> TAKE x \in t
  <2>1. x \in Nat /\ x <= k
    OBVIOUS
  <2> QED
    BY <2>1
<1> QED
  BY <1>1, <1>2 DEF Max

(* FoldLeft is a recursive function on the sets of indices. *)
Turns(F, start, s, N) ==
  F = [t \in SUBSET (1 .. N) |->
         IF t = {} THEN start ELSE Step(F[t \ {Max(t)}], s[Max(t)])]

LEMMA FoldExists ==
  ASSUME NEW start, NEW s, NEW N \in Nat
  PROVE  \E F : Turns(F, start, s, N)
<1> DEFINE K == {k \in Nat : \E F : Turns(F, start, s, k)}
<1>1. 0 \in K
  <2> DEFINE F == [t \in SUBSET (1 .. 0) |-> start]
  <2>1. \A t \in SUBSET (1 .. 0) : t = {}
    OBVIOUS
  <2>2. Turns(F, start, s, 0)
    BY <2>1 DEF Turns
  <2> QED
    BY <2>2
<1>2. ASSUME NEW k \in Nat, k \in K
      PROVE  k + 1 \in K
  <2> PICK F : Turns(F, start, s, k)
    BY <1>2
  <2> DEFINE G == [t \in SUBSET (1 .. k + 1) |->
                     IF k + 1 \in t THEN Step(F[t \ {k + 1}], s[k + 1]) ELSE F[t]]
  <2>1. \A t \in SUBSET (1 .. k + 1) : t \ {k + 1} \in SUBSET (1 .. k)
    BY <1>2
  <2>2. \A t \in SUBSET (1 .. k) : t \in SUBSET (1 .. k + 1) /\ k + 1 \notin t /\ G[t] = F[t]
    BY <1>2
  <2>3. ASSUME NEW t \in SUBSET (1 .. k + 1)
        PROVE  G[t] = IF t = {} THEN start ELSE Step(G[t \ {Max(t)}], s[Max(t)])
    <3>1. CASE k + 1 \in t
      <4>1. Max(t) = k + 1
        BY <1>2, <3>1, MaxIs
      <4>2. G[t] = Step(F[t \ {k + 1}], s[k + 1])
        BY <3>1
      <4>3. G[t \ {k + 1}] = F[t \ {k + 1}]
        BY <2>1, <2>2
      <4> HIDE DEF G
      <4> QED
        BY <3>1, <4>1, <4>2, <4>3
    <3>2. CASE k + 1 \notin t
      <4>1. t \in SUBSET (1 .. k)
        BY <2>1, <3>2
      <4>2. G[t] = F[t]
        BY <2>2, <4>1
      <4>3. F[t] = IF t = {} THEN start ELSE Step(F[t \ {Max(t)}], s[Max(t)])
        BY <4>1 DEF Turns
      <4>4. t \ {Max(t)} \in SUBSET (1 .. k)
        BY <4>1
      <4>5. G[t \ {Max(t)}] = F[t \ {Max(t)}]
        BY <2>2, <4>4
      <4> HIDE DEF G
      <4> QED
        BY <4>2, <4>3, <4>5
    <3> QED
      BY <3>1, <3>2
  <2>4. G = [t \in SUBSET (1 .. k + 1) |-> G[t]]
    OBVIOUS
  <2> HIDE DEF G
  <2>5. Turns(G, start, s, k + 1)
    BY <2>3, <2>4 DEF Turns
  <2> QED
    BY <1>2, <2>5
<1> HIDE DEF K
<1>3. \A k \in Nat : k \in K
  BY <1>1, <1>2, NatSet
<1> QED
  BY <1>3 DEF K

(* h holds the state in front of the loop, and the one after each element. *)
States(h, start, s) ==
  /\ h[0] = start
  /\ \A k \in DOMAIN s : h[k] = Step(h[k - 1], s[k])
  /\ h[Len(s)] = Iterate(start, s)

(***************************************************************************)
(* The loop has a state in front of it and one after each element, each    *)
(* made of the one before by the body; the last one is its result.         *)
(***************************************************************************)
THEOREM LoopHasStates ==
  ASSUME NEW start, NEW T, NEW s \in Seq(T)
  PROVE  \E h : States(h, start, s)
<1> DEFINE N == Len(s)
           iter == CHOOSE F : Turns(F, start, s, N)
<1>0. N \in Nat /\ DOMAIN s = 1 .. N
  OBVIOUS
<1>1. Iterate(start, s) = iter[1 .. N]
  BY <1>0 DEF Iterate, FoldLeft, MapThenFoldSet, Turns
<1> HIDE DEF N
<1>3. Turns(iter, start, s, N)
  BY <1>0, FoldExists
<1> HIDE DEF iter
<1>4. \A t \in SUBSET (1 .. N) :
        iter[t] = IF t = {} THEN start ELSE Step(iter[t \ {Max(t)}], s[Max(t)])
  BY <1>3 DEF Turns
<1> DEFINE h == [k \in 0 .. N |-> iter[1 .. k]]
<1>6. h[0] = start
  <2>1. 1 .. 0 = {}
    OBVIOUS
  <2>2. iter[1 .. 0] = start
    BY <1>4, <2>1
  <2> QED
    BY <1>0, <2>2
<1>7. \A k \in 1 .. N : h[k] = Step(h[k - 1], s[k])
  <2> SUFFICES ASSUME NEW k \in 1 .. N
               PROVE  h[k] = Step(h[k - 1], s[k])
    OBVIOUS
  <2> DEFINE t == 1 .. k
  <2>0. k \in Nat /\ 1 <= k /\ k <= N
    BY <1>0
  <2>9. t \in SUBSET (1 .. N) /\ t \in SUBSET (1 .. k)
    BY <1>0, <2>0
  <2>8. k \in t
    BY <2>0
  <2>1. k \in Nat /\ t \in SUBSET (1 .. k) /\ k \in t /\ t # {} /\ t \in SUBSET (1 .. N)
    BY <2>0, <2>8, <2>9
  <2>2. t \ {k} = 1 .. k - 1
    BY <2>0
  <2>3. h[k] = iter[t] /\ h[k - 1] = iter[1 .. k - 1]
    BY <1>0, <2>0
  <2>4. Max(t) = k
    BY <2>1, MaxIs
  <2> HIDE DEF t, h
  <2>5. iter[t] = Step(iter[t \ {Max(t)}], s[Max(t)])
    BY <1>4, <2>1
  <2> QED
    BY <2>2, <2>3, <2>4, <2>5
<1>8. h[N] = Iterate(start, s)
  BY <1>0, <1>1
<1> HIDE DEF h
<1>9. States(h, start, s)
  BY <1>0, <1>6, <1>7, <1>8 DEF States, N
<1> QED
  BY <1>9

=============================================================================
