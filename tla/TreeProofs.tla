----------------------------- MODULE TreeProofs -----------------------------
(***************************************************************************)
(* The search tree of lab 5 for every set of keys and values and every     *)
(* shape and size: it stays a search tree, it is a map where symtab_rm     *)
(* returns the node, and keeps one branch only where it returns what its   *)
(* recursive call returned.                                                *)
(***************************************************************************)
EXTENDS SymtabTree, SequenceTheorems, WellFoundedInduction, TLAPS

Places == Seq(Sides)

(* Prefixes, element by element: p leads to q; q is in the tree of p's side d. *)
Leads(p, q) == Len(p) <= Len(q) /\ \A i \in 1 .. Len(p) : q[i] = p[i]

Under(p, d, q) == Len(p) < Len(q) /\ q[Len(p) + 1] = d /\ \A i \in 1 .. Len(p) : q[i] = p[i]

(* Induction over the natural numbers, for a set instead of a predicate. *)
LEMMA NatSet ==
  ASSUME NEW S, 0 \in S, \A k \in Nat : k \in S => k + 1 \in S
  PROVE  \A k \in Nat : k \in S
<1> DEFINE T == Nat \ S
<1> SUFFICES ASSUME T # {} PROVE FALSE
  OBVIOUS
<1>1. IsWellFoundedOn(OpToRel(<, Nat), Nat)
  BY NatLessThanWellFounded
<1>2. PICK x \in T : \A y \in T : ~ (<<y, x>> \in OpToRel(<, Nat))
  <2> HIDE DEF T
  <2>1. T \subseteq Nat
    BY DEF T
  <2> QED
    BY <1>1, <2>1, WFMin
<1>3. x \in Nat /\ x # 0 /\ x - 1 \in Nat
  OBVIOUS
<1>4. <<x - 1, x>> \in OpToRel(<, Nat)
  BY <1>3 DEF OpToRel
<1>5. x - 1 \notin T
  BY <1>2, <1>4
<1> QED
  BY <1>3, <1>5

-----------------------------------------------------------------------------
(***************************************************************************)
(* Places.                                                                 *)
(***************************************************************************)
LEMMA Same ==
  ASSUME NEW p \in Places, NEW q \in Places, Len(p) = Len(q), \A i \in 1 .. Len(p) : p[i] = q[i]
  PROVE  p = q
<1>1. p = [i \in 1 .. Len(p) |-> p[i]] /\ q = [i \in 1 .. Len(p) |-> q[i]]
  BY DEF Places
<1> QED
  BY <1>1

LEMMA PrefixIs ==
  ASSUME NEW p \in Places, NEW q \in Places
  PROVE  IsPrefix(p, q) <=> Leads(p, q)
<1>1. Len(p) \in Nat /\ Len(q) \in Nat
  BY DEF Places
<1>2. ASSUME Len(p) <= Len(q)
      PROVE  SubSeq(p, 1, Len(p)) = SubSeq(q, 1, Len(p)) <=> \A i \in 1 .. Len(p) : q[i] = p[i]
  <2>1. PICK u, v : u = SubSeq(p, 1, Len(p)) /\ v = SubSeq(q, 1, Len(p))
    OBVIOUS
  <2>2. u \in Places /\ Len(u) = Len(p) /\ \A i \in 1 .. Len(p) : u[i] = p[i]
    BY <1>1, <2>1 DEF Places
  <2>3. v \in Places /\ Len(v) = Len(p) /\ \A i \in 1 .. Len(p) : v[i] = q[i]
    BY <1>1, <1>2, <2>1 DEF Places
  <2>4. (\A i \in 1 .. Len(p) : q[i] = p[i]) => u = v
    BY <2>2, <2>3, Same
  <2> QED
    BY <2>1, <2>2, <2>3, <2>4
<1> QED
  BY <1>2 DEF IsPrefix, Leads

LEMMA AppendIs ==
  ASSUME NEW p \in Places, NEW d \in Sides
  PROVE  /\ Append(p, d) \in Places /\ Len(Append(p, d)) = Len(p) + 1
         /\ \A i \in 1 .. Len(p) : Append(p, d)[i] = p[i]
         /\ Append(p, d)[Len(p) + 1] = d
  BY DEF Places

LEMMA UnderIs ==
  ASSUME NEW p \in Places, NEW d \in Sides, NEW q \in Places
  PROVE  IsPrefix(Append(p, d), q) <=> Under(p, d, q)
<1>1. PICK c \in Places : c = Append(p, d)
  BY AppendIs
<1>2. Len(c) = Len(p) + 1 /\ (\A i \in 1 .. Len(p) : c[i] = p[i]) /\ c[Len(p) + 1] = d
  BY <1>1, AppendIs
<1>3. Len(p) \in Nat /\ Len(q) \in Nat
  BY DEF Places
<1>4. Leads(c, q) <=> Under(p, d, q)
  <2>1. (\A i \in 1 .. Len(c) : q[i] = c[i]) <=> (\A i \in 1 .. Len(p) : q[i] = p[i]) /\ q[Len(p) + 1] = d
    <3>1. 1 .. Len(c) = (1 .. Len(p)) \union {Len(p) + 1}
      BY <1>2, <1>3
    <3> QED
      BY <1>2, <3>1
  <2> QED
    BY <1>2, <1>3, <2>1 DEF Leads, Under
<1> QED
  BY <1>1, <1>4, PrefixIs

(* The first i turns of a place, and the place that has d behind them. *)
LEMMA FrontIs ==
  ASSUME NEW q \in Places, NEW i \in 0 .. Len(q)
  PROVE  /\ SubSeq(q, 1, i) \in Places /\ Len(SubSeq(q, 1, i)) = i
         /\ \A j \in 1 .. i : SubSeq(q, 1, i)[j] = q[j]
         /\ Leads(SubSeq(q, 1, i), q)
         /\ i < Len(q) => q[i + 1] \in Sides /\ Under(SubSeq(q, 1, i), q[i + 1], q)
<1>1. Len(q) \in Nat /\ i \in Nat /\ i <= Len(q)
  BY DEF Places
<1>2. PICK u : u = SubSeq(q, 1, i)
  OBVIOUS
<1>3. u \in Places /\ Len(u) = i /\ \A j \in 1 .. i : u[j] = q[j]
  BY <1>1, <1>2 DEF Places
<1>4. i < Len(q) => q[i + 1] \in Sides
  BY <1>1 DEF Places
<1> QED
  BY <1>1, <1>2, <1>3, <1>4 DEF Leads, Under

LEMMA LeadsOn ==
  ASSUME NEW p \in Places, NEW q \in Places, Leads(p, q)
  PROVE  p = q \/ \E d \in Sides : Under(p, d, q)
<1>1. Len(p) \in Nat /\ Len(q) \in Nat /\ Len(p) <= Len(q)
  BY DEF Places, Leads
<1>2. CASE Len(p) = Len(q)
  BY <1>2, Same DEF Leads
<1>3. CASE Len(p) < Len(q)
  <2>1. q[Len(p) + 1] \in Sides
    BY <1>1, <1>3 DEF Places
  <2> QED
    BY <1>3, <2>1 DEF Leads, Under
<1> QED
  BY <1>1, <1>2, <1>3

LEMMA UnderLeads ==
  ASSUME NEW p \in Places, NEW d, NEW q \in Places, NEW r \in Places
  PROVE  /\ Under(p, d, q) => Leads(p, q) /\ p # q
         /\ Under(p, d, q) /\ Leads(q, r) => Under(p, d, r)
         /\ Leads(r, p) /\ Under(p, d, q) => Leads(r, q)
<1>1. Len(p) \in Nat /\ Len(q) \in Nat /\ Len(r) \in Nat
  BY DEF Places
<1> QED
  BY <1>1 DEF Under, Leads

(***************************************************************************)
(* Two places: one lies under the other, or they part somewhere.           *)
(***************************************************************************)
Part(c, d, p, e, q) == d # e /\ Under(c, d, p) /\ Under(c, e, q)

LEMMA Diverge ==
  ASSUME NEW p \in Places, NEW q \in Places, p # q
  PROVE  \/ \E d \in Sides : Under(p, d, q)
         \/ \E d \in Sides : Under(q, d, p)
         \/ \E c \in Places : \E d, e \in Sides : Part(c, d, p, e, q)
<1>1. Len(p) \in Nat /\ Len(q) \in Nat
  BY DEF Places
<1> DEFINE Agree(n) == n <= Len(p) /\ n <= Len(q) /\ \A i \in 1 .. n : p[i] = q[i]
           S == {n \in Nat : Agree(n)}
<1>2. 0 \in S
  BY <1>1
<1>3. PICK n \in Nat : Agree(n) /\ ~ Agree(n + 1)
  <2> SUFFICES ASSUME \A n \in Nat : Agree(n) => Agree(n + 1)
               PROVE  FALSE
    OBVIOUS
  <2>1. \A k \in Nat : k \in S => k + 1 \in S
    OBVIOUS
  <2>2. \A k \in Nat : k \in S
    <3> HIDE DEF S
    <3> QED
      BY <1>2, <2>1, NatSet
  <2>3. Agree(Len(p) + 1)
    BY <1>1, <2>2
  <2> QED
    BY <1>1, <2>3
<1>4. CASE n = Len(p)
  <2>1. Leads(p, q)
    BY <1>3, <1>4 DEF Leads
  <2> QED
    BY <2>1, LeadsOn
<1>5. CASE n = Len(q)
  <2>1. Leads(q, p)
    BY <1>3, <1>5 DEF Leads
  <2> QED
    BY <2>1, LeadsOn
<1>6. CASE n < Len(p) /\ n < Len(q)
  <2>1. p[n + 1] # q[n + 1]
    <3>1. ASSUME p[n + 1] = q[n + 1]
          PROVE  Agree(n + 1)
      <4>1. 1 .. n + 1 = (1 .. n) \union {n + 1}
        OBVIOUS
      <4> QED
        BY <1>1, <1>3, <1>6, <3>1, <4>1
    <3> QED
      BY <1>3, <3>1
  <2>2. PICK c \in Places : Len(c) = n /\ \A j \in 1 .. n : c[j] = p[j]
    <3>1. n \in 0 .. Len(p)
      BY <1>1, <1>6
    <3>2. SubSeq(p, 1, n) \in Places /\ Len(SubSeq(p, 1, n)) = n
          /\ \A j \in 1 .. n : SubSeq(p, 1, n)[j] = p[j]
      BY <3>1, FrontIs
    <3> QED
      BY <3>2
  <2>3. p[n + 1] \in Sides /\ q[n + 1] \in Sides
    BY <1>1, <1>6 DEF Places
  <2>4. Under(c, p[n + 1], p) /\ Under(c, q[n + 1], q)
    BY <1>3, <1>6, <2>2 DEF Under
  <2> QED
    BY <2>1, <2>3, <2>4 DEF Part
<1> QED
  BY <1>1, <1>3, <1>4, <1>5, <1>6

LEMMA PartsBelow ==
  ASSUME NEW p \in Places, NEW q \in Places, NEW c \in Places, NEW d, NEW e, Part(c, d, p, e, q),
         NEW from \in Places, Leads(from, p), Leads(from, q)
  PROVE  Leads(from, c)
<1>1. Len(from) \in Nat /\ Len(c) \in Nat /\ Len(p) \in Nat
  BY DEF Places
<1>2. Len(from) <= Len(c)
  <2> SUFFICES ASSUME Len(c) + 1 \in 1 .. Len(from) PROVE FALSE
    BY <1>1
  <2> QED
    BY DEF Part, Under, Leads
<1> QED
  BY <1>1, <1>2 DEF Part, Under, Leads

-----------------------------------------------------------------------------
(***************************************************************************)
(* Trees: a place has a node only if every place on the way to it has one. *)
(* Where a tree is sorted, the nodes' keys differ and the search for a key *)
(* finds its node.                                                         *)
(***************************************************************************)
TreeOK(t) ==
  /\ t = [p \in DOMAIN t |-> t[p]] /\ DOMAIN t \subseteq Places
  /\ \A q \in DOMAIN t : \A p \in Places : Leads(p, q) => p \in DOMAIN t
  /\ \A p \in DOMAIN t : t[p].key \in Int
  /\ \E n \in Nat : \A p \in DOMAIN t : Len(p) <= n

Ordered(t, x, y) ==
  /\ Under(x, "left", y) => t[y].key < t[x].key
  /\ Under(x, "right", y) => t[y].key > t[x].key

Sorted(t, S) == \A x, y \in S : Ordered(t, x, y)

Below(t, p) == {q \in DOMAIN t : Leads(p, q)}

LEMMA KeysDiffer ==
  ASSUME NEW t, TreeOK(t), NEW from \in Places, Sorted(t, Below(t, from)),
         NEW x \in Below(t, from), NEW y \in Below(t, from), x # y
  PROVE  t[x].key # t[y].key
<1>1. x \in DOMAIN t /\ y \in DOMAIN t /\ x \in Places /\ y \in Places
  BY DEF Below, TreeOK
<1>2. t[x].key \in Int /\ t[y].key \in Int
  BY <1>1 DEF TreeOK
<1>3. Ordered(t, x, y) /\ Ordered(t, y, x)
  BY DEF Sorted
<1>4. ASSUME NEW d \in Sides, Under(x, d, y) \/ Under(y, d, x)
      PROVE  t[x].key # t[y].key
  BY <1>2, <1>3, <1>4 DEF Ordered, Sides
<1>5. ASSUME NEW c \in Places, NEW d \in Sides, NEW e \in Sides, Part(c, d, x, e, y)
      PROVE  t[x].key # t[y].key
  <2>1. Leads(c, x)
    BY <1>1, <1>5, UnderLeads DEF Part
  <2>2. c \in Below(t, from)
    <3>1. Leads(from, x) /\ Leads(from, y)
      BY DEF Below
    <3>2. Leads(from, c)
      BY <1>1, <1>5, <3>1, PartsBelow
    <3> QED
      BY <1>1, <2>1, <3>2 DEF Below, TreeOK
  <2>3. t[c].key \in Int
    BY <2>2 DEF Below, TreeOK
  <2>4. Ordered(t, c, x) /\ Ordered(t, c, y)
    BY <2>2 DEF Sorted
  <2> QED
    BY <1>2, <1>5, <2>3, <2>4 DEF Ordered, Part, Sides
<1> QED
  BY <1>1, <1>4, <1>5, Diverge

LEMMA PointersAre ==
  ASSUME NEW t, TreeOK(t)
  PROVE  /\ DOMAIN t \subseteq Pointers(t) /\ Pointers(t) \subseteq Places
         /\ \A p \in Pointers(t) : \A q \in Places : Leads(q, p) /\ q # p => q \in DOMAIN t
<1>1. Pointers(t) \subseteq Places
  <2>1. << >> \in Places
    BY DEF Places
  <2>2. ASSUME NEW p \in DOMAIN t, NEW d \in Sides
        PROVE  Append(p, d) \in Places
    <3>1. p \in Places
      BY DEF TreeOK
    <3> QED
      BY <3>1, AppendIs
  <2> SUFFICES ASSUME NEW q \in Pointers(t) PROVE q \in Places
    OBVIOUS
  <2>3. q = << >> \/ \E p \in DOMAIN t : \E d \in Sides : q = Append(p, d)
    BY DEF Pointers
  <2> QED
    BY <2>1, <2>2, <2>3
<1>2. ASSUME NEW p \in DOMAIN t
      PROVE  p \in Pointers(t)
  <2>1. p \in Places /\ Len(p) \in Nat
    BY DEF TreeOK, Places
  <2>2. CASE Len(p) = 0
    <3>1. p = << >>
      BY <2>1, <2>2 DEF Places
    <3> QED
      BY <3>1 DEF Pointers
  <2>3. CASE Len(p) > 0
    <3>1. Len(p) - 1 \in 0 .. Len(p) /\ (Len(p) - 1) + 1 = Len(p) /\ Len(p) - 1 < Len(p)
      BY <2>1, <2>3
    <3>2. PICK f, d : f = SubSeq(p, 1, Len(p) - 1) /\ d = p[Len(p)]
      OBVIOUS
    <3>3. /\ f \in Places /\ Len(f) = Len(p) - 1 /\ Leads(f, p)
          /\ (\A j \in 1 .. Len(p) - 1 : f[j] = p[j]) /\ d \in Sides
      BY <2>1, <3>1, <3>2, FrontIs
    <3>4. f \in DOMAIN t
      BY <3>3 DEF TreeOK
    <3>5. p = Append(f, d)
      <4>1. PICK c \in Places : c = Append(f, d)
        BY <3>3, AppendIs
      <4>2. Len(c) = Len(p) /\ (\A i \in 1 .. Len(p) - 1 : c[i] = p[i]) /\ c[Len(p)] = p[Len(p)]
        <5>1. Len(c) = Len(f) + 1 /\ (\A i \in 1 .. Len(f) : c[i] = f[i]) /\ c[Len(f) + 1] = d
          BY <3>3, <4>1, AppendIs
        <5>2. Len(f) + 1 = Len(p)
          BY <3>1, <3>3
        <5>3. c[Len(p)] = p[Len(p)]
          BY <3>2, <5>1, <5>2
        <5> QED
          BY <3>3, <5>1, <5>2, <5>3
      <4>3. \A i \in 1 .. Len(c) : c[i] = p[i]
        <5>1. 1 .. Len(p) = (1 .. Len(p) - 1) \union {Len(p)}
          BY <2>1, <2>3
        <5> QED
          BY <4>2, <5>1
      <4> QED
        BY <2>1, <4>1, <4>2, <4>3, Same
    <3> QED
      BY <3>3, <3>4, <3>5 DEF Pointers
  <2> QED
    BY <2>1, <2>2, <2>3
<1>3. ASSUME NEW p \in Pointers(t), NEW q \in Places, Leads(q, p), q # p
      PROVE  q \in DOMAIN t
  <2>1. CASE p = << >>
    <3>1. Len(q) = 0
      BY <1>3, <2>1 DEF Leads, Places
    <3>2. q = << >>
      BY <3>1 DEF Places
    <3> QED
      BY <1>3, <2>1, <3>2
  <2>2. ASSUME NEW f \in DOMAIN t, NEW d \in Sides, p = Append(f, d)
        PROVE  q \in DOMAIN t
    <3>1. f \in Places /\ p \in Places /\ Len(f) \in Nat /\ Len(q) \in Nat
      BY <1>1 DEF TreeOK, Places
    <3>2. Len(p) = Len(f) + 1 /\ \A i \in 1 .. Len(f) : p[i] = f[i]
      BY <2>2, <3>1, AppendIs
    <3>3. Len(q) # Len(p)
      BY <1>3, <3>1, Same DEF Leads
    <3>4. Leads(q, f)
      BY <1>3, <3>1, <3>2, <3>3 DEF Leads
    <3> QED
      BY <3>4 DEF TreeOK
  <2> QED
    BY <2>1, <2>2 DEF Pointers
<1> QED
  BY <1>1, <1>2, <1>3

(* The nodes on the way, one by one. *)
LEMMA WayIs ==
  ASSUME NEW t, TreeOK(t), NEW from \in Places, NEW k, NEW p \in Pointers(t)
  PROVE  p \in Way(t, from, k) <=>
           /\ Leads(from, p)
           /\ \A x \in DOMAIN t : \A d \in Sides :
                Leads(from, x) /\ Under(x, d, p) => t[x].key # k /\ d = Side(k, t[x].key)
<1>0. p \in Places /\ Len(p) \in Nat /\ Len(from) \in Nat
  BY PointersAre DEF Places
<1> DEFINE Right(i) == t[SubSeq(p, 1, i - 1)].key # k /\ p[i] = Side(k, t[SubSeq(p, 1, i - 1)].key)
<1>1. p \in Way(t, from, k) <=> Leads(from, p) /\ \A i \in Len(from) + 1 .. Len(p) : Right(i)
  BY <1>0, PrefixIs DEF Way
<1>2. ASSUME Leads(from, p), NEW i \in Len(from) + 1 .. Len(p),
             \A x \in DOMAIN t : \A d \in Sides :
               Leads(from, x) /\ Under(x, d, p) => t[x].key # k /\ d = Side(k, t[x].key)
      PROVE  Right(i)
  <2>1. i - 1 \in 0 .. Len(p) /\ i - 1 < Len(p) /\ (i - 1) + 1 = i /\ Len(from) <= i - 1
    BY <1>0
  <2>2. PICK x : x = SubSeq(p, 1, i - 1)
    OBVIOUS
  <2>3. /\ x \in Places /\ Len(x) = i - 1 /\ Leads(x, p) /\ p[i] \in Sides /\ Under(x, p[i], p)
        /\ \A j \in 1 .. i - 1 : x[j] = p[j]
    BY <1>0, <2>1, <2>2, FrontIs
  <2>4. x \in DOMAIN t
    BY <1>0, <2>3, UnderLeads, PointersAre
  <2>5. Leads(from, x)
    <3>1. Len(from) <= Len(x)
      BY <2>1, <2>3
    <3>2. ASSUME NEW j \in 1 .. Len(from)
          PROVE  x[j] = from[j]
      <4>1. p[j] = from[j] /\ j \in 1 .. i - 1
        BY <1>0, <1>2, <2>1 DEF Leads
      <4> QED
        BY <2>3, <4>1
    <3> QED
      BY <3>1, <3>2 DEF Leads
  <2> QED
    BY <1>2, <2>2, <2>3, <2>4, <2>5
<1>3. ASSUME Leads(from, p), \A i \in Len(from) + 1 .. Len(p) : Right(i),
             NEW x \in DOMAIN t, NEW d \in Sides, Leads(from, x), Under(x, d, p)
      PROVE  t[x].key # k /\ d = Side(k, t[x].key)
  <2>1. x \in Places /\ Len(x) \in Nat
    BY DEF TreeOK, Places
  <2>2. /\ Len(x) + 1 \in Len(from) + 1 .. Len(p) /\ Len(x) \in 0 .. Len(p)
        /\ (Len(x) + 1) - 1 = Len(x) /\ p[Len(x) + 1] = d
    BY <1>0, <1>3, <2>1 DEF Under, Leads
  <2>3. SubSeq(p, 1, Len(x)) = x
    <3>1. PICK u \in Places : u = SubSeq(p, 1, Len(x)) /\ Len(u) = Len(x)
                               /\ \A j \in 1 .. Len(x) : u[j] = p[j]
      BY <1>0, <2>2, FrontIs
    <3>2. \A j \in 1 .. Len(u) : u[j] = x[j]
      BY <1>3, <3>1 DEF Under
    <3> QED
      BY <2>1, <3>1, <3>2, Same
  <2>4. Right(Len(x) + 1)
    BY <1>3, <2>2
  <2> QED
    BY <2>2, <2>3, <2>4
<1> HIDE DEF Right
<1> QED
  BY <1>1, <1>2, <1>3

LEMMA FoundIs ==
  ASSUME NEW t, TreeOK(t), NEW from \in Places, Sorted(t, Below(t, from)), NEW k \in Int
  PROVE  Found(t, from, k) = {p \in Below(t, from) : t[p].key = k}
<1>1. ASSUME NEW p \in Found(t, from, k)
      PROVE  p \in Below(t, from) /\ t[p].key = k
  <2>1. p \in DOMAIN t /\ t[p].key = k /\ p \in Way(t, from, k)
    BY DEF Found
  <2>2. p \in Pointers(t)
    BY <2>1, PointersAre
  <2> QED
    BY <2>1, <2>2, WayIs DEF Below
<1>2. ASSUME NEW p \in Below(t, from), t[p].key = k
      PROVE  p \in Found(t, from, k)
  <2>1. p \in DOMAIN t /\ Leads(from, p) /\ p \in Pointers(t)
    BY PointersAre DEF Below
  <2>2. ASSUME NEW x \in DOMAIN t, NEW d \in Sides, Leads(from, x), Under(x, d, p)
        PROVE  t[x].key # k /\ d = Side(k, t[x].key)
    <3>1. x \in Below(t, from)
      BY <2>2 DEF Below
    <3>2. Ordered(t, x, p) /\ t[x].key \in Int
      BY <3>1 DEF Sorted, TreeOK
    <3> QED
      BY <1>2, <2>2, <3>2 DEF Ordered, Side, Sides
  <2>3. p \in Way(t, from, k)
    BY <2>1, <2>2, WayIs
  <2> QED
    BY <1>2, <2>1, <2>3 DEF Found
<1> QED
  BY <1>1, <1>2

LEMMA FindIs ==
  ASSUME NEW t, TreeOK(t), NEW from \in Places, Sorted(t, Below(t, from)),
         NEW x \in Below(t, from)
  PROVE  Found(t, from, t[x].key) = {x} /\ Find(t, from, t[x].key) = x
<1>1. t[x].key \in Int
  BY DEF Below, TreeOK
<1>2. Found(t, from, t[x].key) = {x}
  BY <1>1, FoundIs, KeysDiffer
<1> QED
  BY <1>2 DEF Find

LEMMA AllBelow ==
  ASSUME NEW t, TreeOK(t)
  PROVE  << >> \in Places /\ Below(t, << >>) = DOMAIN t
<1>1. << >> \in Places
  BY DEF Places
<1>2. ASSUME NEW q \in Places
      PROVE  Leads(<< >>, q)
  BY <1>2 DEF Leads, Places
<1> QED
  BY <1>1, <1>2 DEF Below, TreeOK

(***************************************************************************)
(* A new node, where the search for its key ends.                          *)
(***************************************************************************)
Grown(t, p, k, v) == [q \in DOMAIN t \union {p} |-> IF q = p THEN Entry(k, v) ELSE t[q]]

LEMMA Grows ==
  ASSUME NEW t, TreeOK(t), Sorted(t, DOMAIN t), NEW k \in Int, NEW v,
         NEW p \in Way(t, << >>, k), p \notin DOMAIN t,
         NEW u, u = Grown(t, p, k, v)
  PROVE  TreeOK(u) /\ Sorted(u, DOMAIN u)
<1>1. p \in Pointers(t) /\ p \in Places /\ Len(p) \in Nat
  BY PointersAre DEF Way, Places
<1>2. DOMAIN u = DOMAIN t \union {p} /\ u[p].key = k /\ \A q \in DOMAIN t : u[q] = t[q]
  BY DEF Entry, Grown
<1>3. TreeOK(u)
  <2>1. u = [q \in DOMAIN u |-> u[q]] /\ DOMAIN u \subseteq Places /\ \A q \in DOMAIN u : u[q].key \in Int
    BY <1>1, <1>2 DEF TreeOK, Grown
  <2>2. ASSUME NEW q \in DOMAIN u, NEW x \in Places, Leads(x, q)
        PROVE  x \in DOMAIN u
    BY <1>1, <1>2, <2>2, PointersAre DEF TreeOK
  <2>3. PICK n \in Nat : \A q \in DOMAIN t : Len(q) <= n
    BY DEF TreeOK
  <2>4. \A q \in DOMAIN u : Len(q) <= n + Len(p)
    <3> SUFFICES ASSUME NEW q \in DOMAIN u PROVE Len(q) <= n + Len(p)
      OBVIOUS
    <3>1. Len(q) \in Nat
      BY <2>1 DEF Places
    <3> QED
      BY <1>1, <1>2, <2>3, <3>1
  <2>5. n + Len(p) \in Nat
    BY <1>1
  <2> QED
    BY <2>1, <2>2, <2>4, <2>5 DEF TreeOK
<1>4. ASSUME NEW x \in DOMAIN u, NEW y \in DOMAIN u
      PROVE  Ordered(u, x, y)
  <2>0. x \in Places /\ y \in Places
    BY <1>3 DEF TreeOK
  <2>1. CASE x \in DOMAIN t /\ y \in DOMAIN t
    BY <1>2, <2>1 DEF Sorted, Ordered
  <2>2. CASE x = p
    <3>1. ASSUME NEW d \in Sides, Under(x, d, y)
          PROVE  FALSE
      <4>1. Leads(x, y) /\ x # y
        BY <2>0, <3>1, UnderLeads
      <4> QED
        BY <1>1, <1>2, <2>0, <2>2, <4>1 DEF TreeOK
    <3> QED
      BY <3>1 DEF Ordered, Sides
  <2>3. CASE x \in DOMAIN t /\ y = p
    <3>1. Leads(<< >>, x)
      BY <2>3, AllBelow DEF Below
    <3>2. \A d \in Sides : Under(x, d, p) => t[x].key # k /\ d = Side(k, t[x].key)
      BY <1>1, <2>3, <3>1, AllBelow, WayIs
    <3>3. t[x].key \in Int
      BY <2>3 DEF TreeOK
    <3>4. u[x] = t[x] /\ u[y].key = k
      BY <1>2, <2>3
    <3> QED
      BY <2>3, <3>2, <3>3, <3>4 DEF Ordered, Side, Sides
  <2> QED
    BY <1>2, <2>1, <2>2, <2>3
<1> QED
  BY <1>3, <1>4 DEF Sorted

-----------------------------------------------------------------------------
(***************************************************************************)
(* Subtrees.                                                               *)
(***************************************************************************)
LEMMA ConcatIs ==
  ASSUME NEW p \in Places, NEW q \in Places
  PROVE  /\ p \o q \in Places /\ Len(p \o q) = Len(p) + Len(q)
         /\ \A i \in 1 .. Len(p) : (p \o q)[i] = p[i]
         /\ \A i \in 1 .. Len(q) : (p \o q)[Len(p) + i] = q[i]
<1>1. Len(p) \in Nat /\ Len(q) \in Nat
  BY DEF Places
<1>2. PICK r : r = p \o q
  OBVIOUS
<1>3. r \in Places /\ Len(r) = Len(p) + Len(q) /\ \A i \in 1 .. Len(p) : r[i] = p[i]
  BY <1>1, <1>2 DEF Places
<1>4. ASSUME NEW i \in 1 .. Len(q)
      PROVE  r[Len(p) + i] = q[i]
  <2>1. Len(p) + i \in 1 .. Len(p) + Len(q) /\ ~ (Len(p) + i <= Len(p)) /\ (Len(p) + i) - Len(p) = i
    BY <1>1
  <2> QED
    BY <1>1, <1>2, <2>1 DEF Places
<1> QED
  BY <1>2, <1>3, <1>4

Tail_of(p, q) == SubSeq(q, Len(p) + 1, Len(q))

LEMMA TailIs ==
  ASSUME NEW p \in Places, NEW q \in Places, Leads(p, q)
  PROVE  /\ Tail_of(p, q) \in Places /\ Len(Tail_of(p, q)) = Len(q) - Len(p)
         /\ \A i \in 1 .. Len(q) - Len(p) : Tail_of(p, q)[i] = q[Len(p) + i]
<1>1. Len(p) \in Nat /\ Len(q) \in Nat /\ Len(p) <= Len(q)
  BY DEF Places, Leads
<1>2. PICK r : r = SubSeq(q, Len(p) + 1, Len(q))
  OBVIOUS
<1>3. r \in Places
  BY <1>1, <1>2 DEF Places
<1>4. Len(r) = Len(q) - Len(p)
  BY <1>1, <1>2 DEF Places
<1>5. ASSUME NEW i \in 1 .. Len(q) - Len(p)
      PROVE  r[i] = q[Len(p) + i]
  BY <1>1, <1>2, <1>4 DEF Places
<1> QED
  BY <1>2, <1>3, <1>4, <1>5 DEF Tail_of

LEMMA Joined ==
  ASSUME NEW p \in Places
  PROVE  /\ \A q \in Places : Leads(p, q) => p \o Tail_of(p, q) = q
         /\ \A q \in Places : Leads(p, p \o q) /\ Tail_of(p, p \o q) = q
<1>0. Len(p) \in Nat
  BY DEF Places
<1>1. ASSUME NEW q \in Places, Leads(p, q)
      PROVE  p \o Tail_of(p, q) = q
  <2>1. PICK r \in Places : /\ r = Tail_of(p, q) /\ Len(r) = Len(q) - Len(p)
                            /\ \A i \in 1 .. Len(q) - Len(p) : r[i] = q[Len(p) + i]
    BY <1>1, TailIs
  <2>2. PICK u \in Places : /\ u = p \o r /\ Len(u) = Len(p) + Len(r)
                            /\ \A i \in 1 .. Len(p) : u[i] = p[i]
                            /\ \A i \in 1 .. Len(r) : u[Len(p) + i] = r[i]
    BY ConcatIs
  <2>3. Len(q) \in Nat /\ Len(u) = Len(q)
    BY <1>0, <2>1, <2>2 DEF Places
  <2>4. ASSUME NEW i \in 1 .. Len(u)
        PROVE  u[i] = q[i]
    <3>1. CASE i <= Len(p)
      BY <1>0, <1>1, <2>2, <3>1 DEF Leads
    <3>2. CASE i > Len(p)
      <4>1. PICK j : j = i - Len(p)
        OBVIOUS
      <4>2. j \in 1 .. Len(r) /\ Len(p) + j = i
        BY <1>0, <2>1, <2>3, <3>2, <4>1
      <4> QED
        BY <2>1, <2>2, <4>2
    <3> QED
      BY <1>0, <2>3, <3>1, <3>2
  <2> QED
    BY <2>1, <2>2, <2>3, <2>4, Same
<1>2. ASSUME NEW q \in Places
      PROVE  Leads(p, p \o q) /\ Tail_of(p, p \o q) = q
  <2>1. PICK u \in Places : /\ u = p \o q /\ Len(u) = Len(p) + Len(q)
                            /\ \A i \in 1 .. Len(p) : u[i] = p[i]
                            /\ \A i \in 1 .. Len(q) : u[Len(p) + i] = q[i]
    BY ConcatIs
  <2>2. Len(q) \in Nat /\ Len(u) - Len(p) = Len(q)
    BY <1>0, <2>1 DEF Places
  <2>3. Leads(p, u)
    BY <1>0, <2>1, <2>2 DEF Leads
  <2>4. PICK r \in Places : /\ r = Tail_of(p, u) /\ Len(r) = Len(q)
                            /\ \A i \in 1 .. Len(q) : r[i] = u[Len(p) + i]
    BY <2>2, <2>3, TailIs
  <2>5. r = q
    BY <2>1, <2>4, Same
  <2> QED
    BY <2>1, <2>3, <2>4, <2>5
<1> QED
  BY <1>1, <1>2

LEMMA SubtreeIs ==
  ASSUME NEW t, TreeOK(t), NEW p \in Places
  PROVE  /\ Subtree(t, p) = [q \in DOMAIN Subtree(t, p) |-> Subtree(t, p)[q]]
         /\ DOMAIN Subtree(t, p) = {q \in Places : p \o q \in DOMAIN t}
         /\ \A q \in DOMAIN Subtree(t, p) : Subtree(t, p)[q] = t[p \o q]
<1>1. \A r \in DOMAIN t : IsPrefix(p, r) <=> Leads(p, r)
  BY PrefixIs DEF TreeOK
<1>2. PICK S : S = {SubSeq(r, Len(p) + 1, Len(r)) : r \in {r \in DOMAIN t : IsPrefix(p, r)}}
  OBVIOUS
<1>3. S = {Tail_of(p, r) : r \in {r \in DOMAIN t : Leads(p, r)}}
  BY <1>1, <1>2 DEF Tail_of
<1>4. S = {q \in Places : p \o q \in DOMAIN t}
  <2>1. ASSUME NEW q \in S
        PROVE  q \in Places /\ p \o q \in DOMAIN t
    <3>1. PICK r \in DOMAIN t : Leads(p, r) /\ q = Tail_of(p, r)
      BY <1>3
    <3>2. r \in Places
      BY DEF TreeOK
    <3> QED
      BY <3>1, <3>2, TailIs, Joined
  <2>2. ASSUME NEW q \in Places, p \o q \in DOMAIN t
        PROVE  q \in S
    <3>1. Leads(p, p \o q) /\ Tail_of(p, p \o q) = q
      BY Joined
    <3> QED
      BY <1>3, <2>2, <3>1
  <2> QED
    BY <2>1, <2>2
<1>5. Subtree(t, p) = [q \in S |-> t[p \o q]]
  BY <1>2 DEF Subtree
<1> QED
  BY <1>4, <1>5

LEMMA UnderShifts ==
  ASSUME NEW p \in Places, NEW x \in Places, NEW y \in Places
  PROVE  /\ Leads(x, y) => Leads(p \o x, p \o y)
         /\ \A d : Under(x, d, y) => Under(p \o x, d, p \o y)
<1>0. Len(p) \in Nat /\ Len(x) \in Nat /\ Len(y) \in Nat
  BY DEF Places
<1>1. PICK u \in Places : /\ u = p \o x /\ Len(u) = Len(p) + Len(x)
                          /\ \A i \in 1 .. Len(p) : u[i] = p[i]
                          /\ \A i \in 1 .. Len(x) : u[Len(p) + i] = x[i]
  BY ConcatIs
<1>2. PICK w \in Places : /\ w = p \o y /\ Len(w) = Len(p) + Len(y)
                          /\ \A i \in 1 .. Len(p) : w[i] = p[i]
                          /\ \A i \in 1 .. Len(y) : w[Len(p) + i] = y[i]
  <2>1. /\ p \o y \in Places /\ Len(p \o y) = Len(p) + Len(y)
        /\ \A i \in 1 .. Len(p) : (p \o y)[i] = p[i]
        /\ \A i \in 1 .. Len(y) : (p \o y)[Len(p) + i] = y[i]
    BY ConcatIs
  <2> QED
    BY <2>1
<1>3. ASSUME Len(x) <= Len(y), \A i \in 1 .. Len(x) : y[i] = x[i], NEW i \in 1 .. Len(u)
      PROVE  w[i] = u[i]
  <2>1. CASE i <= Len(p)
    BY <1>0, <1>1, <1>2, <2>1
  <2>2. CASE i > Len(p)
    <3>1. PICK j : j = i - Len(p)
      OBVIOUS
    <3>2. j \in 1 .. Len(x) /\ j \in 1 .. Len(y) /\ Len(p) + j = i
      BY <1>0, <1>1, <1>3, <2>2, <3>1
    <3> QED
      BY <1>1, <1>2, <1>3, <3>2
  <2> QED
    BY <1>0, <1>1, <2>1, <2>2
<1>4. Leads(x, y) => Leads(u, w)
  BY <1>0, <1>1, <1>2, <1>3 DEF Leads
<1>5. ASSUME NEW d, Under(x, d, y)
      PROVE  Under(u, d, w)
  <2>1. Len(x) + 1 \in 1 .. Len(y) /\ Len(p) + (Len(x) + 1) = Len(u) + 1
    BY <1>0, <1>1, <1>5 DEF Under
  <2>2. w[Len(u) + 1] = d
    BY <1>2, <1>5, <2>1 DEF Under
  <2> QED
    BY <1>0, <1>1, <1>2, <1>3, <1>5, <2>2 DEF Under
<1> QED
  BY <1>1, <1>2, <1>4, <1>5

LEMMA SubtreeSorted ==
  ASSUME NEW t, TreeOK(t), NEW p \in Places, NEW s, s = Subtree(t, p)
  PROVE  /\ TreeOK(s)
         /\ Sorted(t, Below(t, p)) => Sorted(s, DOMAIN s)
         /\ {s[q] : q \in DOMAIN s} = {t[q] : q \in Below(t, p)}
<1>1. /\ s = [q \in DOMAIN s |-> s[q]]
      /\ DOMAIN s = {q \in Places : p \o q \in DOMAIN t}
      /\ \A q \in DOMAIN s : s[q] = t[p \o q]
  BY SubtreeIs
<1>2. ASSUME NEW q \in DOMAIN s
      PROVE  q \in Places /\ p \o q \in Below(t, p) /\ p \o q \in Places /\ Len(q) <= Len(p \o q)
  <2>1. q \in Places /\ p \o q \in DOMAIN t
    BY <1>1
  <2>2. Leads(p, p \o q)
    BY <2>1, Joined
  <2>3. Len(p \o q) = Len(p) + Len(q) /\ p \o q \in Places
    BY <2>1, ConcatIs
  <2>4. Len(p) \in Nat /\ Len(q) \in Nat
    BY <2>1 DEF Places
  <2> QED
    BY <2>1, <2>2, <2>3, <2>4 DEF Below
<1>3. TreeOK(s)
  <2>1. ASSUME NEW q \in DOMAIN s, NEW x \in Places, Leads(x, q)
        PROVE  x \in DOMAIN s
    <3>1. Leads(p \o x, p \o q) /\ p \o x \in Places
      BY <1>2, <2>1, UnderShifts, ConcatIs
    <3>2. p \o x \in DOMAIN t
      BY <1>2, <3>1 DEF TreeOK, Below
    <3> QED
      BY <1>1, <3>2
  <2>2. PICK n \in Nat : \A q \in DOMAIN t : Len(q) <= n
    BY DEF TreeOK
  <2>3. ASSUME NEW q \in DOMAIN s
        PROVE  Len(q) <= n
    <3>1. q \in Places /\ p \o q \in Places /\ p \o q \in DOMAIN t /\ Len(q) <= Len(p \o q)
      BY <1>2 DEF Below
    <3>2. PICK u \in DOMAIN t : u = p \o q
      BY <3>1
    <3>3. Len(q) \in Nat /\ Len(u) \in Nat
      BY <3>1, <3>2 DEF Places
    <3>4. Len(u) <= n /\ Len(q) <= Len(u)
      BY <2>2, <3>1, <3>2
    <3> QED
      BY <3>3, <3>4
  <2>4. \A q \in DOMAIN s : s[q].key \in Int
    BY <1>1, <1>2 DEF TreeOK, Below
  <2> QED
    BY <1>1, <1>2, <2>1, <2>3, <2>4 DEF TreeOK
<1>4. ASSUME Sorted(t, Below(t, p)), NEW x \in DOMAIN s, NEW y \in DOMAIN s
      PROVE  Ordered(s, x, y)
  <2>1. Ordered(t, p \o x, p \o y)
    BY <1>2, <1>4 DEF Sorted
  <2>2. \A d : Under(x, d, y) => Under(p \o x, d, p \o y)
    BY <1>2, UnderShifts
  <2> QED
    BY <1>1, <2>1, <2>2 DEF Ordered
<1>5. ASSUME NEW r \in Below(t, p)
      PROVE  \E q \in DOMAIN s : s[q] = t[r]
  <2>1. r \in Places /\ Leads(p, r) /\ r \in DOMAIN t
    BY DEF Below, TreeOK
  <2>2. Tail_of(p, r) \in Places /\ p \o Tail_of(p, r) = r
    BY <2>1, TailIs, Joined
  <2> QED
    BY <1>1, <2>1, <2>2
<1>6. \A q \in DOMAIN s : s[q] = t[p \o q] /\ p \o q \in Below(t, p)
  BY <1>1, <1>2
<1> QED
  BY <1>3, <1>4, <1>5, <1>6 DEF Sorted

-----------------------------------------------------------------------------
(***************************************************************************)
(* The child on side d takes the place p of its parent: what is at q then  *)
(* comes from Source(p, d, q), which is not p.                             *)
(***************************************************************************)
Source(p, d, q) == IF Leads(p, q) THEN Append(p, d) \o Tail_of(p, q) ELSE q

LEMMA SourceIs ==
  ASSUME NEW p \in Places, NEW d \in Sides, NEW q \in Places, Leads(p, q)
  PROVE  /\ Source(p, d, q) \in Places /\ Len(Source(p, d, q)) = Len(q) + 1
         /\ \A i \in 1 .. Len(p) : Source(p, d, q)[i] = q[i]
         /\ Source(p, d, q)[Len(p) + 1] = d
         /\ \A i \in Len(p) + 1 .. Len(q) : Source(p, d, q)[i + 1] = q[i]
<1>1. Len(p) \in Nat /\ Len(q) \in Nat /\ Len(p) <= Len(q)
  BY DEF Places, Leads
<1>2. PICK c \in Places : /\ c = Append(p, d) /\ Len(c) = Len(p) + 1
                          /\ (\A i \in 1 .. Len(p) : c[i] = p[i]) /\ c[Len(p) + 1] = d
  BY AppendIs
<1>3. PICK r \in Places : /\ r = Tail_of(p, q) /\ Len(r) = Len(q) - Len(p)
                          /\ \A i \in 1 .. Len(q) - Len(p) : r[i] = q[Len(p) + i]
  BY TailIs
<1>4. PICK u : u = c \o r
  OBVIOUS
<1>5. /\ u \in Places /\ Len(u) = Len(c) + Len(r)
      /\ \A i \in 1 .. Len(c) : u[i] = c[i]
      /\ \A i \in 1 .. Len(r) : u[Len(c) + i] = r[i]
  BY <1>4, ConcatIs
<1>6. Len(u) = Len(q) + 1
  BY <1>1, <1>2, <1>3, <1>5
<1>7. ASSUME NEW i \in 1 .. Len(p)
      PROVE  u[i] = q[i]
  <2>1. i \in 1 .. Len(c)
    BY <1>1, <1>2
  <2>2. u[i] = c[i] /\ c[i] = p[i]
    BY <1>2, <1>5, <2>1
  <2> QED
    BY <2>2 DEF Leads
<1>8. u[Len(p) + 1] = d
  <2>1. Len(p) + 1 \in 1 .. Len(c)
    BY <1>1, <1>2
  <2> QED
    BY <1>2, <1>5, <2>1
<1>9. ASSUME NEW i \in Len(p) + 1 .. Len(q)
      PROVE  u[i + 1] = q[i]
  <2>1. PICK j : j = i - Len(p)
    OBVIOUS
  <2>2. j \in 1 .. Len(r) /\ j \in 1 .. Len(q) - Len(p) /\ Len(c) + j = i + 1 /\ Len(p) + j = i
    BY <1>1, <1>2, <1>3, <2>1
  <2>3. u[Len(c) + j] = r[j] /\ r[j] = q[Len(p) + j]
    BY <1>3, <1>5, <2>2
  <2> QED
    BY <2>2, <2>3
<1>10. Source(p, d, q) = u
  BY <1>2, <1>3, <1>4 DEF Source
<1> QED
  BY <1>5, <1>6, <1>7, <1>8, <1>9, <1>10

LEMMA SourceMoves ==
  ASSUME NEW p \in Places, NEW d \in Sides, NEW x \in Places, NEW y \in Places
  PROVE  /\ Source(p, d, x) \in Places /\ Source(p, d, x) # p /\ Len(x) <= Len(Source(p, d, x))
         /\ \A e \in Sides : Under(x, e, y) => Under(Source(p, d, x), e, Source(p, d, y))
<1>0. Len(p) \in Nat /\ Len(x) \in Nat /\ Len(y) \in Nat
  BY DEF Places
<1>1. Source(p, d, x) \in Places /\ Source(p, d, x) # p /\ Len(x) <= Len(Source(p, d, x))
  <2>1. CASE Leads(p, x)
    <3>1. Len(p) <= Len(x)
      BY <2>1 DEF Leads
    <3>2. Source(p, d, x) \in Places /\ Len(Source(p, d, x)) = Len(x) + 1
      BY <2>1, SourceIs
    <3> QED
      BY <1>0, <3>1, <3>2
  <2>2. CASE ~ Leads(p, x)
    <3>1. Leads(p, p)
      BY <1>0 DEF Leads
    <3> QED
      BY <1>0, <2>2, <3>1 DEF Source
  <2> QED
    BY <2>1, <2>2
<1>2. ASSUME NEW e \in Sides, Under(x, e, y)
      PROVE  Under(Source(p, d, x), e, Source(p, d, y))
  <2>0. Len(x) < Len(y) /\ y[Len(x) + 1] = e /\ \A i \in 1 .. Len(x) : y[i] = x[i]
    BY <1>2 DEF Under
  <2>1. CASE ~ Leads(p, y)
    <3>1. ~ Leads(p, x)
      BY <1>0, <1>2, <2>1, UnderLeads
    <3> QED
      BY <1>2, <2>1, <3>1 DEF Source
  <2>2. CASE Leads(p, x)
    <3>0. Leads(p, y) /\ Len(p) <= Len(x)
      BY <1>0, <1>2, <2>2, UnderLeads DEF Leads
    <3>1. PICK u \in Places : /\ u = Source(p, d, x) /\ Len(u) = Len(x) + 1
                              /\ \A i \in 1 .. Len(p) : u[i] = x[i]
                              /\ u[Len(p) + 1] = d
                              /\ \A i \in Len(p) + 1 .. Len(x) : u[i + 1] = x[i]
      BY <2>2, SourceIs
    <3>2. PICK w \in Places : /\ w = Source(p, d, y) /\ Len(w) = Len(y) + 1
                              /\ \A i \in 1 .. Len(p) : w[i] = y[i]
                              /\ w[Len(p) + 1] = d
                              /\ \A i \in Len(p) + 1 .. Len(y) : w[i + 1] = y[i]
      BY <3>0, SourceIs
    <3>3. Len(u) < Len(w)
      BY <1>0, <2>0, <3>1, <3>2
    <3>4. w[Len(u) + 1] = e
      <4>1. Len(x) + 1 \in Len(p) + 1 .. Len(y)
        BY <1>0, <2>0, <3>0
      <4> QED
        BY <2>0, <3>1, <3>2, <4>1
    <3>5. ASSUME NEW i \in 1 .. Len(u)
          PROVE  w[i] = u[i]
      <4>1. CASE i <= Len(p)
        <5>1. i \in 1 .. Len(p) /\ i \in 1 .. Len(x)
          BY <1>0, <3>0, <3>1, <4>1
        <5> QED
          BY <2>0, <3>1, <3>2, <5>1
      <4>2. CASE i = Len(p) + 1
        BY <3>1, <3>2, <4>2
      <4>3. CASE i > Len(p) + 1
        <5>1. PICK j : j = i - 1
          OBVIOUS
        <5>2. j \in Len(p) + 1 .. Len(x) /\ j \in Len(p) + 1 .. Len(y) /\ j \in 1 .. Len(x) /\ j + 1 = i
          BY <1>0, <2>0, <3>0, <3>1, <4>3, <5>1
        <5>3. u[j + 1] = x[j] /\ w[j + 1] = y[j] /\ y[j] = x[j]
          BY <2>0, <3>1, <3>2, <5>2
        <5> QED
          BY <5>2, <5>3
      <4> QED
        BY <1>0, <3>1, <4>1, <4>2, <4>3
    <3> QED
      BY <3>1, <3>2, <3>3, <3>4, <3>5 DEF Under
  <2>3. CASE Leads(p, y) /\ ~ Leads(p, x)
    <3>1. Len(x) < Len(p)
      <4> SUFFICES ASSUME Len(p) <= Len(x) PROVE FALSE
        BY <1>0
      <4>1. ASSUME NEW i \in 1 .. Len(p)
            PROVE  x[i] = p[i]
        <5>1. i \in 1 .. Len(x)
          BY <1>0
        <5> QED
          BY <2>0, <2>3, <5>1 DEF Leads
      <4> QED
        BY <2>3, <4>1 DEF Leads
    <3>2. PICK w \in Places : /\ w = Source(p, d, y) /\ Len(w) = Len(y) + 1
                              /\ \A i \in 1 .. Len(p) : w[i] = y[i]
      BY <2>3, SourceIs
    <3>3. \A i \in 1 .. Len(x) : i \in 1 .. Len(p)
      BY <1>0, <3>1
    <3>4. Len(x) + 1 \in 1 .. Len(p)
      BY <1>0, <3>1
    <3>5. Under(x, e, w)
      BY <1>0, <2>0, <3>2, <3>3, <3>4 DEF Under
    <3> QED
      BY <2>3, <3>2, <3>5 DEF Source
  <2> QED
    BY <2>1, <2>2, <2>3
<1> QED
  BY <1>1, <1>2

LEMMA ReplacedIs ==
  ASSUME NEW t, TreeOK(t), NEW p \in DOMAIN t, NEW d \in Sides,
         NEW w, w = Replaced(t, p, Subtree(t, Append(p, d)))
  PROVE  /\ w = [q \in DOMAIN w |-> w[q]]
         /\ DOMAIN w = {q \in Places : Source(p, d, q) \in DOMAIN t}
         /\ \A q \in DOMAIN w : w[q] = t[Source(p, d, q)]
<1>0. p \in Places
  BY DEF TreeOK
<1>1. PICK c \in Places : c = Append(p, d)
  BY <1>0, AppendIs
<1>2. PICK s : s = Subtree(t, c)
  OBVIOUS
<1>3. /\ DOMAIN s = {q \in Places : c \o q \in DOMAIN t}
      /\ \A q \in DOMAIN s : s[q] = t[c \o q]
  BY <1>2, SubtreeIs
<1>4. PICK rest : rest = {q \in DOMAIN t : ~ IsPrefix(p, q)}
  OBVIOUS
<1>5. rest = {q \in DOMAIN t : ~ Leads(p, q)}
  BY <1>0, <1>4, PrefixIs DEF TreeOK
<1>6. w = [q \in rest \union {p \o r : r \in DOMAIN s} |->
             IF q \in rest THEN t[q] ELSE s[Tail_of(p, q)]]
  BY <1>1, <1>2, <1>4 DEF Replaced, Tail_of
<1>7. ASSUME NEW q \in rest \union {p \o r : r \in DOMAIN s}
      PROVE  q \in Places /\ Source(p, d, q) \in DOMAIN t
  <2>1. CASE q \in rest
    BY <1>5, <2>1 DEF Source, TreeOK
  <2>2. ASSUME NEW r \in DOMAIN s, q = p \o r
        PROVE  q \in Places /\ Source(p, d, q) \in DOMAIN t
    <3>1. r \in Places /\ c \o r \in DOMAIN t
      BY <1>3
    <3>2. q \in Places
      BY <1>0, <2>2, <3>1, ConcatIs
    <3>3. Leads(p, q) /\ Tail_of(p, q) = r
      BY <1>0, <2>2, <3>1, Joined
    <3> QED
      BY <1>1, <3>1, <3>2, <3>3 DEF Source
  <2> QED
    BY <2>1, <2>2
<1>8. ASSUME NEW q \in Places, Source(p, d, q) \in DOMAIN t
      PROVE  /\ q \in rest \union {p \o r : r \in DOMAIN s}
             /\ (IF q \in rest THEN t[q] ELSE s[Tail_of(p, q)]) = t[Source(p, d, q)]
  <2>1. CASE ~ Leads(p, q)
    BY <1>5, <1>8, <2>1 DEF Source
  <2>2. CASE Leads(p, q)
    <3>1. PICK r \in Places : r = Tail_of(p, q) /\ p \o r = q
      BY <1>0, <2>2, TailIs, Joined
    <3>2. Source(p, d, q) = c \o r
      BY <1>1, <2>2, <3>1 DEF Source
    <3>3. r \in DOMAIN s /\ s[r] = t[c \o r]
      BY <1>3, <1>8, <3>1, <3>2
    <3> QED
      BY <1>5, <2>2, <3>1, <3>2, <3>3
  <2> QED
    BY <2>1, <2>2
<1>9. DOMAIN w = {q \in Places : Source(p, d, q) \in DOMAIN t}
  BY <1>6, <1>7, <1>8
<1>10. ASSUME NEW q \in DOMAIN w
       PROVE  w[q] = t[Source(p, d, q)]
  BY <1>6, <1>7, <1>8
<1>11. w = [q \in DOMAIN w |-> w[q]]
  BY <1>6
<1> QED
  BY <1>9, <1>10, <1>11

(***************************************************************************)
(* The node at p is gone, and nothing else, if it had no child on the      *)
(* other side; whatever its own key was, the tree is sorted.               *)
(***************************************************************************)
Entries(t) == {t[p] : p \in DOMAIN t}

Others(t, p) == {t[q] : q \in DOMAIN t \ {p}}

(* The node at p has no child but the one on side d. *)
Lone(t, p, d) == \A e \in Sides \ {d} : Append(p, e) \notin DOMAIN t

LEMMA ReplacedSorted ==
  ASSUME NEW t, TreeOK(t), NEW p \in DOMAIN t, NEW d \in Sides,
         NEW w, w = Replaced(t, p, Subtree(t, Append(p, d)))
  PROVE  /\ TreeOK(w)
         /\ Sorted(t, DOMAIN t \ {p}) => Sorted(w, DOMAIN w)
         /\ Lone(t, p, d) => Entries(w) = Others(t, p)
<1>0. p \in Places /\ Len(p) \in Nat
  BY DEF TreeOK, Places
<1>1. /\ w = [q \in DOMAIN w |-> w[q]]
      /\ DOMAIN w = {q \in Places : Source(p, d, q) \in DOMAIN t}
      /\ \A q \in DOMAIN w : w[q] = t[Source(p, d, q)]
  BY ReplacedIs
<1>2. ASSUME NEW q \in DOMAIN w
      PROVE  q \in Places /\ Source(p, d, q) \in DOMAIN t \ {p} /\ Len(q) <= Len(Source(p, d, q))
  BY <1>0, <1>1, SourceMoves
<1>3. TreeOK(w)
  <2>1. ASSUME NEW q \in DOMAIN w, NEW x \in Places, Leads(x, q)
        PROVE  x \in DOMAIN w
    <3>1. CASE x = q
      BY <3>1
    <3>2. ASSUME NEW e \in Sides, Under(x, e, q)
          PROVE  x \in DOMAIN w
      <4>1. PICK u, v : u = Source(p, d, x) /\ v = Source(p, d, q)
        OBVIOUS
      <4>2. u \in Places /\ v \in Places /\ Under(u, e, v)
        BY <1>0, <1>2, <3>2, <4>1, SourceMoves
      <4>3. Leads(u, v)
        BY <4>2, UnderLeads
      <4>4. u \in DOMAIN t
        BY <1>2, <4>1, <4>2, <4>3 DEF TreeOK
      <4> QED
        BY <1>1, <4>1, <4>4
    <3> QED
      BY <1>2, <2>1, <3>1, <3>2, LeadsOn
  <2>2. PICK n \in Nat : \A q \in DOMAIN t : Len(q) <= n
    BY DEF TreeOK
  <2>3. ASSUME NEW q \in DOMAIN w
        PROVE  Len(q) <= n
    <3>1. PICK u : u = Source(p, d, q)
      OBVIOUS
    <3>2. u \in DOMAIN t /\ u \in Places /\ Len(q) <= Len(u) /\ q \in Places
      BY <1>2, <3>1 DEF TreeOK
    <3>3. Len(q) \in Nat /\ Len(u) \in Nat /\ Len(u) <= n
      BY <2>2, <3>2 DEF Places
    <3> QED
      BY <3>2, <3>3
  <2>4. \A q \in DOMAIN w : w[q].key \in Int
    BY <1>1, <1>2 DEF TreeOK
  <2> QED
    BY <1>1, <1>2, <2>1, <2>3, <2>4 DEF TreeOK
<1>4. ASSUME Sorted(t, DOMAIN t \ {p}), NEW x \in DOMAIN w, NEW y \in DOMAIN w
      PROVE  Ordered(w, x, y)
  <2>1. Ordered(t, Source(p, d, x), Source(p, d, y))
    BY <1>2, <1>4 DEF Sorted
  <2>2. \A e \in Sides : Under(x, e, y) => Under(Source(p, d, x), e, Source(p, d, y))
    BY <1>0, <1>2, SourceMoves
  <2>3. "left" \in Sides /\ "right" \in Sides
    BY DEF Sides
  <2> QED
    BY <1>1, <2>1, <2>2, <2>3 DEF Ordered
<1>5. ASSUME Lone(t, p, d), NEW z \in DOMAIN t \ {p}
      PROVE  \E q \in DOMAIN w : w[q] = t[z]
  <2>1. z \in Places
    BY DEF TreeOK
  <2>2. CASE ~ Leads(p, z)
    <3>1. Source(p, d, z) = z
      BY <2>2 DEF Source
    <3>2. z \in DOMAIN w
      BY <1>1, <2>1, <3>1
    <3> QED
      BY <1>1, <3>1, <3>2
  <2>3. CASE Leads(p, z)
    <3>1. PICK e \in Sides : Under(p, e, z)
      BY <1>0, <2>1, <2>3, LeadsOn
    <3>2. e = d
      <4>1. Append(p, e) \in Places
        BY <1>0, AppendIs
      <4>2. Leads(Append(p, e), z)
        BY <1>0, <2>1, <3>1, <4>1, UnderIs, PrefixIs
      <4>3. Append(p, e) \in DOMAIN t
        BY <4>1, <4>2 DEF TreeOK
      <4> QED
        BY <1>5, <4>3 DEF Lone
    <3>3. PICK c \in Places : c = Append(p, d)
      BY <1>0, AppendIs
    <3>4. Leads(c, z)
      BY <1>0, <2>1, <3>1, <3>2, <3>3, UnderIs, PrefixIs
    <3>5. PICK r \in Places : r = Tail_of(c, z) /\ c \o r = z
      BY <2>1, <3>4, TailIs, Joined
    <3>6. p \o r \in Places /\ Leads(p, p \o r) /\ Tail_of(p, p \o r) = r
      BY <1>0, ConcatIs, Joined
    <3>7. Source(p, d, p \o r) = z
      BY <3>3, <3>5, <3>6 DEF Source
    <3>8. p \o r \in DOMAIN w
      BY <1>1, <3>6, <3>7
    <3> QED
      BY <1>1, <3>7, <3>8
  <2> QED
    BY <2>2, <2>3
<1>6. \A q \in DOMAIN w : w[q] = t[Source(p, d, q)] /\ Source(p, d, q) \in DOMAIN t \ {p}
  BY <1>1, <1>2
<1> QED
  BY <1>3, <1>4, <1>5, <1>6 DEF Sorted, Entries, Others

-----------------------------------------------------------------------------
(***************************************************************************)
(* The successor: there is a last turn to the left, since the tree is      *)
(* finite, and its node has the least key.                                 *)
(***************************************************************************)
Leftmost(t, p, q) ==
  /\ Leads(p, q) /\ \A i \in Len(p) + 1 .. Len(q) : q[i] = "left"
  /\ Append(q, "left") \notin DOMAIN t

LEMMA LeftmostExists ==
  ASSUME NEW t, TreeOK(t), NEW r \in DOMAIN t
  PROVE  \E q \in DOMAIN t : Leftmost(t, r, q)
<1>0. r \in Places /\ Len(r) \in Nat
  BY DEF TreeOK, Places
<1> DEFINE L(j) == [i \in 1 .. Len(r) + j |-> IF i <= Len(r) THEN r[i] ELSE "left"]
           S == {j \in Nat : L(j) \in DOMAIN t}
<1>1. ASSUME NEW j \in Nat
      PROVE  /\ L(j) \in Places /\ Len(L(j)) = Len(r) + j
             /\ \A i \in 1 .. Len(r) : L(j)[i] = r[i]
             /\ \A i \in Len(r) + 1 .. Len(r) + j : L(j)[i] = "left"
  <2>1. Len(r) + j \in Nat
    BY <1>0
  <2>2. \A i \in 1 .. Len(r) + j : (IF i <= Len(r) THEN r[i] ELSE "left") \in Sides
    BY <1>0 DEF Places, Sides
  <2>3. PICK u : u = L(j)
    OBVIOUS
  <2>4. /\ DOMAIN u = 1 .. Len(r) + j /\ u = [i \in 1 .. Len(r) + j |-> u[i]]
        /\ \A i \in 1 .. Len(r) + j : u[i] = IF i <= Len(r) THEN r[i] ELSE "left"
    BY <2>3
  <2>5. u \in Places /\ Len(u) = Len(r) + j
    BY <2>1, <2>2, <2>4 DEF Places
  <2> QED
    BY <1>0, <2>3, <2>4, <2>5
<1>2. ASSUME NEW j \in Nat
      PROVE  L(j + 1) = Append(L(j), "left")
  <2>0. "left" \in Sides /\ j + 1 \in Nat
    BY DEF Sides
  <2>1. PICK u \in Places : /\ u = L(j) /\ Len(u) = Len(r) + j
                            /\ \A i \in 1 .. Len(r) : u[i] = r[i]
                            /\ \A i \in Len(r) + 1 .. Len(r) + j : u[i] = "left"
    BY <1>1
  <2>2. PICK w \in Places : /\ w = L(j + 1) /\ Len(w) = Len(r) + (j + 1)
                            /\ \A i \in 1 .. Len(r) : w[i] = r[i]
                            /\ \A i \in Len(r) + 1 .. Len(r) + (j + 1) : w[i] = "left"
    BY <1>1, <2>0
  <2>3. PICK c \in Places : /\ c = Append(u, "left") /\ Len(c) = Len(u) + 1
                            /\ (\A i \in 1 .. Len(u) : c[i] = u[i]) /\ c[Len(u) + 1] = "left"
    BY <2>0, AppendIs
  <2>4. ASSUME NEW i \in 1 .. Len(w)
        PROVE  w[i] = c[i]
    <3>1. CASE i <= Len(r)
      BY <1>0, <2>1, <2>2, <2>3, <3>1
    <3>2. CASE i > Len(r) /\ i <= Len(u)
      BY <1>0, <2>1, <2>2, <2>3, <3>2
    <3>3. CASE i = Len(u) + 1
      BY <1>0, <2>1, <2>2, <2>3, <3>3
    <3> QED
      BY <1>0, <2>1, <2>2, <3>1, <3>2, <3>3
  <2>5. Len(w) = Len(c)
    BY <1>0, <2>1, <2>2, <2>3
  <2> QED
    BY <2>1, <2>2, <2>3, <2>4, <2>5, Same
<1>3. L(0) = r
  <2>1. PICK u \in Places : /\ u = L(0) /\ Len(u) = Len(r) + 0
                            /\ \A i \in 1 .. Len(r) : u[i] = r[i]
    BY <1>1
  <2> QED
    BY <1>0, <2>1, Same
<1> HIDE DEF L
<1>4. PICK j \in Nat : L(j) \in DOMAIN t /\ L(j + 1) \notin DOMAIN t
  <2> SUFFICES ASSUME \A j \in Nat : L(j) \in DOMAIN t => L(j + 1) \in DOMAIN t
               PROVE  FALSE
    OBVIOUS
  <2>1. 0 \in S
    BY <1>3
  <2>2. \A j \in Nat : j \in S => j + 1 \in S
    OBVIOUS
  <2>3. \A j \in Nat : j \in S
    <3> HIDE DEF S
    <3> QED
      BY <2>1, <2>2, NatSet
  <2>4. PICK n \in Nat : \A q \in DOMAIN t : Len(q) <= n
    BY DEF TreeOK
  <2>5. L(n + 1) \in DOMAIN t /\ Len(L(n + 1)) = Len(r) + (n + 1)
    BY <1>1, <2>3
  <2>6. Len(r) + (n + 1) <= n
    BY <2>4, <2>5
  <2> QED
    BY <1>0, <2>6
<1>5. Leftmost(t, r, L(j))
  <2>1. Leads(r, L(j))
    <3>1. Len(L(j)) = Len(r) + j /\ \A i \in 1 .. Len(r) : L(j)[i] = r[i]
      BY <1>1
    <3> QED
      BY <1>0, <3>1 DEF Leads
  <2>2. \A i \in Len(r) + 1 .. Len(L(j)) : L(j)[i] = "left"
    <3>1. Len(L(j)) = Len(r) + j /\ \A i \in Len(r) + 1 .. Len(r) + j : L(j)[i] = "left"
      BY <1>1
    <3> QED
      BY <3>1
  <2>3. Append(L(j), "left") \notin DOMAIN t
    BY <1>2, <1>4
  <2> QED
    BY <2>1, <2>2, <2>3 DEF Leftmost
<1> QED
  BY <1>4, <1>5

LEMMA SuccessorIs ==
  ASSUME NEW t, TreeOK(t), NEW r \in DOMAIN t, Sorted(t, Below(t, r))
  PROVE  /\ find_successer(t, r) \in Below(t, r)
         /\ Append(find_successer(t, r), "left") \notin DOMAIN t
         /\ \A x \in Below(t, r) : x # find_successer(t, r) => t[find_successer(t, r)].key < t[x].key
<1>0. r \in Places /\ Len(r) \in Nat
  BY DEF TreeOK, Places
<1>1. PICK n : n = find_successer(t, r)
  OBVIOUS
<1>2. n \in DOMAIN t /\ Leftmost(t, r, n)
  <2>1. \A q \in DOMAIN t : IsPrefix(r, q) <=> Leads(r, q)
    BY <1>0, PrefixIs DEF TreeOK
  <2> DEFINE Last_left(q) == /\ IsPrefix(r, q) /\ \A i \in Len(r) + 1 .. Len(q) : q[i] = "left"
                             /\ Append(q, "left") \notin DOMAIN t
  <2>2. \A q \in DOMAIN t : Last_left(q) <=> Leftmost(t, r, q)
    BY <2>1 DEF Leftmost
  <2>3. \E q \in DOMAIN t : Last_left(q)
    BY <2>2, LeftmostExists
  <2>4. n = CHOOSE q \in DOMAIN t : Last_left(q)
    BY <1>1 DEF find_successer
  <2> HIDE DEF Last_left
  <2> QED
    BY <2>2, <2>3, <2>4
<1>3. n \in Places /\ Len(n) \in Nat /\ t[n].key \in Int /\ n \in Below(t, r)
  BY <1>2 DEF TreeOK, Places, Leftmost, Below
<1>4. ASSUME NEW c \in Places, NEW d \in Sides, Leads(r, c), Under(c, d, n)
      PROVE  d = "left"
  <2>1. Len(c) \in Nat /\ Len(r) <= Len(c) /\ Len(c) < Len(n) /\ n[Len(c) + 1] = d
    BY <1>4 DEF Leads, Under, Places
  <2>2. Len(c) + 1 \in Len(r) + 1 .. Len(n)
    BY <1>0, <1>3, <2>1
  <2> QED
    BY <1>2, <2>1, <2>2 DEF Leftmost
<1>5. ASSUME NEW x \in Below(t, r), x # n
      PROVE  t[n].key < t[x].key
  <2>1. x \in DOMAIN t /\ x \in Places /\ Leads(r, x) /\ t[x].key \in Int
    BY DEF Below, TreeOK
  <2>2. Ordered(t, n, x) /\ Ordered(t, x, n)
    BY <1>3 DEF Sorted
  <2>3. ASSUME NEW d \in Sides, Under(n, d, x)
        PROVE  t[n].key < t[x].key
    <3>1. d # "left"
      <4>1. Append(n, d) \in Places
        BY <1>3, AppendIs
      <4>2. Leads(Append(n, d), x)
        BY <1>3, <2>1, <2>3, <4>1, UnderIs, PrefixIs
      <4>3. Append(n, d) \in DOMAIN t
        BY <2>1, <4>1, <4>2 DEF TreeOK
      <4> QED
        BY <1>2, <4>3 DEF Leftmost
    <3> QED
      BY <1>3, <2>1, <2>2, <2>3, <3>1 DEF Ordered, Sides
  <2>4. ASSUME NEW d \in Sides, Under(x, d, n)
        PROVE  t[n].key < t[x].key
    BY <1>4, <2>1, <2>2, <2>4 DEF Ordered
  <2>5. ASSUME NEW c \in Places, NEW d \in Sides, NEW e \in Sides, Part(c, d, n, e, x)
        PROVE  t[n].key < t[x].key
    <3>1. Leads(r, c)
      BY <1>0, <1>2, <1>3, <2>1, <2>5, PartsBelow DEF Leftmost
    <3>2. Leads(c, x)
      BY <2>1, <2>5, UnderLeads DEF Part
    <3>3. c \in Below(t, r) /\ t[c].key \in Int
      BY <2>1, <3>1, <3>2 DEF Below, TreeOK
    <3>4. Ordered(t, c, n) /\ Ordered(t, c, x)
      BY <1>3, <3>3 DEF Sorted
    <3>5. d = "left" /\ e = "right"
      BY <1>4, <2>5, <3>1 DEF Part, Sides
    <3> QED
      BY <1>3, <2>1, <2>5, <3>3, <3>4, <3>5 DEF Part, Ordered
  <2> QED
    BY <1>3, <1>5, <2>1, <2>3, <2>4, <2>5, Diverge
<1> QED
  BY <1>1, <1>2, <1>3, <1>5 DEF Leftmost

-----------------------------------------------------------------------------
(***************************************************************************)
(* What symtab_rm does.                                                    *)
(***************************************************************************)
LEMMA FreedIs ==
  ASSUME NEW t, TreeOK(t), NEW p \in DOMAIN t, Sorted(t, DOMAIN t \ {p}),
         ~ ({Append(p, "left"), Append(p, "right")} \subseteq DOMAIN t),
         NEW falls, NEW w, w = Freed(t, p, falls)
  PROVE  /\ TreeOK(w) /\ Sorted(w, DOMAIN w)
         /\ falls = "node" => Entries(w) = Others(t, p)
         /\ falls # "node" => \E d \in Sides : Lone(t, p, d) /\ w = Subtree(t, Append(p, d))
<1>0. p \in Places
  BY DEF TreeOK
<1>1. PICK d \in Sides : Child(t, p) = Append(p, d) /\ Lone(t, p, d)
  <2>1. CASE Append(p, "left") \notin DOMAIN t
    BY <2>1 DEF Child, Lone, Sides
  <2>2. CASE Append(p, "left") \in DOMAIN t
    BY <2>2 DEF Child, Lone, Sides
  <2> QED
    BY <2>1, <2>2
<1>2. CASE falls = "node"
  <2>1. w = Replaced(t, p, Subtree(t, Append(p, d)))
    BY <1>1, <1>2 DEF Freed
  <2>2. TreeOK(w) /\ Sorted(w, DOMAIN w) /\ Entries(w) = Others(t, p)
    BY <1>1, <2>1, ReplacedSorted
  <2> QED
    BY <1>2, <2>2
<1>3. CASE falls # "node"
  <2>1. w = Subtree(t, Append(p, d))
    BY <1>1, <1>3 DEF Freed
  <2>2. Append(p, d) \in Places
    BY <1>0, AppendIs
  <2>3. Below(t, Append(p, d)) \subseteq DOMAIN t \ {p}
    <3>1. ~ Leads(Append(p, d), p)
      <4>1. Len(Append(p, d)) = Len(p) + 1 /\ Len(p) \in Nat
        BY <1>0, AppendIs DEF Places
      <4> QED
        BY <4>1 DEF Leads
    <3> QED
      BY <3>1 DEF Below
  <2>4. Sorted(t, Below(t, Append(p, d)))
    BY <2>3 DEF Sorted
  <2> QED
    BY <1>1, <1>3, <2>1, <2>2, <2>4, SubtreeSorted
<1> QED
  BY <1>2, <1>3

(* The entry of the next node is copied to p, and the next node is n now. *)
Moved(t, p, n) == [t EXCEPT ![p] = t[n]]

Successor(t, p, r, n, m) ==
  /\ TreeOK(m) /\ DOMAIN m = DOMAIN t /\ n \in DOMAIN m /\ n # p
  /\ Find(m, r, t[n].key) = n /\ Sorted(m, DOMAIN m \ {n})
  /\ Append(n, "left") \notin DOMAIN m /\ t[p].key < t[n].key
  /\ \A x \in DOMAIN t : ~ (t[p].key < t[x].key /\ t[x].key < t[n].key)

LEMMA MovedIs ==
  ASSUME NEW t, TreeOK(t), Sorted(t, DOMAIN t), NEW p \in DOMAIN t,
         NEW r, r = Append(p, "right"), r \in DOMAIN t, NEW n, n = find_successer(t, r),
         NEW m, m = Moved(t, p, n)
  PROVE  Successor(t, p, r, n, m)
<1>0. p \in Places /\ r \in Places /\ "right" \in Sides /\ "left" \in Sides
  BY AppendIs DEF TreeOK, Sides
<1>1. Sorted(t, Below(t, r)) /\ Below(t, r) \subseteq DOMAIN t
  BY DEF Sorted, Below
<1>2. /\ n \in Below(t, r) /\ Append(n, "left") \notin DOMAIN t
      /\ \A x \in Below(t, r) : x # n => t[n].key < t[x].key
  BY <1>1, SuccessorIs
<1>3. n \in DOMAIN t /\ n \in Places
  BY <1>2 DEF Below, TreeOK
<1>4. \A q \in Places : Leads(r, q) <=> Under(p, "right", q)
  BY <1>0, UnderIs, PrefixIs
<1>5. Under(p, "right", n) /\ n # p
  BY <1>0, <1>2, <1>3, <1>4, UnderLeads DEF Below
<1>6. DOMAIN m = DOMAIN t /\ m[p] = t[n] /\ \A q \in DOMAIN t \ {p} : m[q] = t[q]
  BY DEF Moved
<1>7. TreeOK(m)
  <2>1. m = [q \in DOMAIN m |-> m[q]]
    BY DEF Moved
  <2>2. \A q \in DOMAIN m : m[q].key \in Int
    BY <1>3, <1>6 DEF TreeOK
  <2> QED
    BY <1>6, <2>1, <2>2 DEF TreeOK
<1>8. p \notin Below(t, r)
  BY <1>0, <1>4, UnderLeads DEF Below
<1>9. Find(m, r, t[n].key) = n
  <2>1. Below(m, r) = Below(t, r)
    BY <1>6 DEF Below
  <2>2. \A q \in Below(m, r) : m[q] = t[q]
    BY <1>1, <1>6, <1>8, <2>1
  <2>3. Sorted(m, Below(m, r))
    BY <1>1, <2>1, <2>2 DEF Sorted, Ordered
  <2>4. m[n] = t[n] /\ n \in Below(m, r)
    BY <1>2, <2>1, <2>2
  <2> QED
    BY <1>0, <1>7, <2>3, <2>4, FindIs
<1>10. t[p].key \in Int /\ t[n].key \in Int /\ t[p].key < t[n].key
  BY <1>3, <1>5 DEF TreeOK, Sorted, Ordered
<1>11. ASSUME NEW x \in DOMAIN t, x # n, x # p, NEW d \in Sides, Under(p, d, x)
       PROVE  /\ d = "left" => t[x].key < t[p].key
              /\ d = "right" => t[n].key < t[x].key
  <2>1. x \in Places /\ Ordered(t, p, x)
    BY DEF Sorted, TreeOK
  <2>2. d = "right" => x \in Below(t, r)
    BY <1>4, <1>11, <2>1 DEF Below
  <2> QED
    BY <1>2, <1>11, <2>1, <2>2 DEF Ordered
<1>12. ASSUME NEW x \in DOMAIN t \ {n}, NEW y \in DOMAIN t \ {n}
       PROVE  Ordered(m, x, y)
  <2>0. /\ x \in Places /\ y \in Places /\ t[x].key \in Int /\ t[y].key \in Int
        /\ Ordered(t, x, y)
    BY DEF TreeOK, Sorted
  <2>1. CASE x # p /\ y # p
    BY <1>6, <2>0, <2>1 DEF Ordered
  <2>2. CASE x = p /\ y # p
    <3>1. m[x] = t[n] /\ m[y] = t[y]
      BY <1>6, <2>2
    <3>2. /\ Under(x, "left", y) => t[y].key < t[p].key
          /\ Under(x, "right", y) => t[n].key < t[y].key
      BY <1>0, <1>11, <2>2
    <3> QED
      BY <1>10, <2>0, <3>1, <3>2 DEF Ordered
  <2>3. CASE y = p /\ x # p
    <3>1. m[x] = t[x] /\ m[y] = t[n]
      BY <1>6, <2>3
    <3>2. Leads(p, n)
      BY <1>0, <1>3, <1>5, UnderLeads
    <3>3. \A d : Under(x, d, p) => Under(x, d, n)
      BY <1>0, <1>3, <2>0, <3>2, UnderLeads
    <3>4. Ordered(t, x, n)
      BY <1>3 DEF Sorted
    <3> QED
      BY <2>3, <3>1, <3>3, <3>4 DEF Ordered
  <2>4. CASE x = p /\ y = p
    <3>1. \A d : ~ Under(p, d, p)
      BY <1>0, UnderLeads
    <3> QED
      BY <2>4, <3>1 DEF Ordered
  <2> QED
    BY <2>1, <2>2, <2>3, <2>4
<1>13. ASSUME NEW x \in DOMAIN t, t[p].key < t[x].key, t[x].key < t[n].key
       PROVE  FALSE
  <2>0. x \in Places /\ t[x].key \in Int /\ x # p /\ x # n
    BY <1>10, <1>13 DEF TreeOK
  <2>1. ASSUME NEW d \in Sides, Under(p, d, x)
        PROVE  FALSE
    BY <1>10, <1>11, <1>13, <2>0, <2>1 DEF Sides
  <2>2. ASSUME NEW d \in Sides, Under(x, d, p)
        PROVE  FALSE
    <3>1. Under(x, d, n)
      <4>1. Leads(p, n)
        BY <1>0, <1>3, <1>5, UnderLeads
      <4> QED
        BY <1>0, <1>3, <2>0, <2>2, <4>1, UnderLeads
    <3>2. Ordered(t, x, n) /\ Ordered(t, x, p)
      BY <1>3 DEF Sorted
    <3> QED
      BY <1>10, <1>13, <2>0, <2>2, <3>1, <3>2 DEF Ordered, Sides
  <2>3. ASSUME NEW c \in Places, NEW d \in Sides, NEW e \in Sides, Part(c, d, p, e, x)
        PROVE  FALSE
    <3>1. Leads(p, n) /\ Leads(c, x)
      BY <1>0, <1>3, <1>5, <2>0, <2>3, UnderLeads DEF Part
    <3>2. Under(c, d, n)
      BY <1>0, <1>3, <2>3, <3>1, UnderLeads DEF Part
    <3>3. c \in DOMAIN t /\ t[c].key \in Int
      BY <3>1 DEF TreeOK
    <3>4. Ordered(t, c, p) /\ Ordered(t, c, n) /\ Ordered(t, c, x)
      BY <1>3, <3>3 DEF Sorted
    <3> QED
      BY <1>10, <1>13, <2>0, <2>3, <3>2, <3>3, <3>4 DEF Ordered, Part, Sides
  <2> QED
    BY <1>0, <2>0, <2>1, <2>2, <2>3, Diverge
<1> QED
  BY <1>2, <1>3, <1>5, <1>6, <1>7, <1>9, <1>10, <1>12, <1>13 DEF Sorted, Successor

(* The node n that is freed last, and its child that stays alone. *)
OneBranch(t, p, n, d, w) ==
  /\ Lone(t, n, d) /\ w = Subtree(t, Append(n, d)) /\ Len(p) <= Len(n) /\ t[n].key >= t[p].key
  /\ \A x \in DOMAIN t : ~ (t[p].key < t[x].key /\ t[x].key < t[n].key)

LEMMA RemovedIs ==
  ASSUME NEW t, TreeOK(t), Sorted(t, DOMAIN t), NEW p \in DOMAIN t,
         NEW falls, NEW w, w = symtab_rm(t, t[p].key, falls)
  PROVE  /\ TreeOK(w) /\ Sorted(w, DOMAIN w)
         /\ falls = "node" => Entries(w) = Others(t, p)
         /\ falls # "node" => \E n \in DOMAIN t : \E d \in Sides : OneBranch(t, p, n, d, w)
<1>0. p \in Places /\ Len(p) \in Nat /\ t[p].key \in Int /\ "right" \in Sides
  BY DEF TreeOK, Places, Sides
<1>1. Find(t, << >>, t[p].key) = p
  <2>1. << >> \in Places /\ Below(t, << >>) = DOMAIN t
    BY AllBelow
  <2> QED
    BY <2>1, FindIs
<1>2. CASE ~ ({Append(p, "left"), Append(p, "right")} \subseteq DOMAIN t)
  <2>1. w = Freed(t, p, falls)
    BY <1>1, <1>2 DEF symtab_rm
  <2>2. Sorted(t, DOMAIN t \ {p})
    BY DEF Sorted
  <2>3. /\ TreeOK(w) /\ Sorted(w, DOMAIN w)
        /\ falls = "node" => Entries(w) = Others(t, p)
        /\ falls # "node" => \E d \in Sides : Lone(t, p, d) /\ w = Subtree(t, Append(p, d))
    BY <1>2, <2>1, <2>2, FreedIs
  <2>4. \A x \in DOMAIN t : t[x].key \in Int
    BY DEF TreeOK
  <2>5. falls # "node" => \E d \in Sides : OneBranch(t, p, p, d, w)
    BY <1>0, <2>3, <2>4 DEF OneBranch
  <2> QED
    BY <2>3, <2>5
<1>3. CASE {Append(p, "left"), Append(p, "right")} \subseteq DOMAIN t
  <2>1. PICK r : r = Append(p, "right") /\ r \in DOMAIN t
    BY <1>3
  <2>2. PICK n : n = find_successer(t, r)
    OBVIOUS
  <2>3. PICK m : m = Moved(t, p, n)
    OBVIOUS
  <2>4. /\ TreeOK(m) /\ DOMAIN m = DOMAIN t /\ n \in DOMAIN m /\ n # p
        /\ Find(m, r, t[n].key) = n /\ Sorted(m, DOMAIN m \ {n})
        /\ Append(n, "left") \notin DOMAIN m /\ t[p].key < t[n].key
        /\ \A x \in DOMAIN t : ~ (t[p].key < t[x].key /\ t[x].key < t[n].key)
    <3>1. Successor(t, p, r, n, m)
      BY <2>1, <2>2, <2>3, MovedIs
    <3> QED
      BY <3>1 DEF Successor
  <2>5. w = Freed(m, n, falls)
    BY <1>1, <1>3, <2>1, <2>2, <2>3, <2>4 DEF symtab_rm, Moved
  <2>6. /\ TreeOK(w) /\ Sorted(w, DOMAIN w)
        /\ falls = "node" => Entries(w) = Others(m, n)
        /\ falls # "node" => \E d \in Sides : Lone(m, n, d) /\ w = Subtree(m, Append(n, d))
    <3>1. ~ ({Append(n, "left"), Append(n, "right")} \subseteq DOMAIN m)
      BY <2>4
    <3> QED
      <4>1. TreeOK(m) /\ n \in DOMAIN m /\ Sorted(m, DOMAIN m \ {n})
        BY <2>4
      <4>2. TreeOK(w) /\ Sorted(w, DOMAIN w)
        BY <2>5, <3>1, <4>1, FreedIs
      <4>3. falls = "node" => Entries(w) = Others(m, n)
        BY <2>5, <3>1, <4>1, FreedIs
      <4>4. falls # "node" => \E d \in Sides : Lone(m, n, d) /\ w = Subtree(m, Append(n, d))
        BY <2>5, <3>1, <4>1, FreedIs
      <4> QED
        BY <4>2, <4>3, <4>4
  <2>7. m[p] = t[n] /\ \A q \in DOMAIN t \ {p} : m[q] = t[q]
    BY <2>3 DEF Moved
  <2>8. Others(m, n) = Others(t, p)
    BY <2>4, <2>7 DEF Others
  <2>9. n \in Places /\ Len(n) \in Nat /\ t[n].key \in Int
    BY <2>4 DEF TreeOK, Places
  <2>10. Len(p) < Len(n)
    <3>1. n \in Below(t, r)
      <4>1. Sorted(t, Below(t, r))
        BY DEF Sorted, Below
      <4> QED
        BY <2>1, <2>2, <4>1, SuccessorIs
    <3>2. Len(r) = Len(p) + 1 /\ Len(r) <= Len(n)
      BY <1>0, <2>1, <3>1, AppendIs DEF Below, Leads
    <3> QED
      BY <1>0, <2>9, <3>2
  <2>11. ASSUME NEW d \in Sides, Lone(m, n, d), w = Subtree(m, Append(n, d))
         PROVE  OneBranch(t, p, n, d, w)
    <3>1. PICK c \in Places : c = Append(n, d) /\ Len(c) = Len(n) + 1
      BY <2>9, AppendIs
    <3>2. /\ w = [q \in DOMAIN w |-> w[q]]
          /\ DOMAIN w = {q \in Places : c \o q \in DOMAIN m}
          /\ \A q \in DOMAIN w : w[q] = m[c \o q]
      <4>1. w = Subtree(m, c) /\ TreeOK(m)
        BY <2>4, <2>11, <3>1
      <4>2. /\ Subtree(m, c) = [q \in DOMAIN Subtree(m, c) |-> Subtree(m, c)[q]]
            /\ DOMAIN Subtree(m, c) = {q \in Places : c \o q \in DOMAIN m}
            /\ \A q \in DOMAIN Subtree(m, c) : Subtree(m, c)[q] = m[c \o q]
        BY <4>1, SubtreeIs
      <4> QED
        BY <4>1, <4>2
    <3>3. PICK s : s = Subtree(t, c)
      OBVIOUS
    <3>4. /\ s = [q \in DOMAIN s |-> s[q]]
          /\ DOMAIN s = {q \in Places : c \o q \in DOMAIN t}
          /\ \A q \in DOMAIN s : s[q] = t[c \o q]
      BY <3>1, <3>3, SubtreeIs
    <3>5. ASSUME NEW q \in Places
          PROVE  c \o q # p
      <4>1. Leads(c, c \o q)
        BY <3>1, Joined
      <4>2. ~ Leads(c, p)
        BY <1>0, <2>9, <2>10, <3>1 DEF Leads
      <4> QED
        BY <4>1, <4>2
    <3>6. DOMAIN s = DOMAIN w
      BY <2>4, <3>2, <3>4
    <3>7. \A q \in DOMAIN w : w[q] = s[q]
      <4> SUFFICES ASSUME NEW q \in DOMAIN w PROVE w[q] = s[q]
        OBVIOUS
      <4>1. q \in Places /\ c \o q \in DOMAIN t /\ c \o q # p
        BY <3>4, <3>5, <3>6
      <4>2. w[q] = m[c \o q] /\ s[q] = t[c \o q] /\ m[c \o q] = t[c \o q]
        BY <2>7, <3>2, <3>4, <3>6, <4>1
      <4> QED
        BY <4>2
    <3>8. w = s
      BY <3>2, <3>4, <3>6, <3>7
    <3> QED
      BY <1>0, <2>4, <2>9, <2>10, <2>11, <3>1, <3>3, <3>8 DEF OneBranch, Lone
  <2> QED
    BY <2>4, <2>6, <2>8, <2>11
<1> QED
  BY <1>2, <1>3

-----------------------------------------------------------------------------
(***************************************************************************)
(* The invariant.                                                          *)
(***************************************************************************)
Inv == TreeOK(tree) /\ Sorted(tree, DOMAIN tree)

LEMMA InitOK ==
  TreeOK(NoTree) /\ Sorted(NoTree, DOMAIN NoTree) /\ KeysOf(NoTree) = {}
<1>1. DOMAIN NoTree = {} /\ NoTree = [p \in DOMAIN NoTree |-> NoTree[p]]
  BY DEF NoTree
<1> HIDE DEF NoTree
<1>2. 0 \in Nat /\ \A p \in DOMAIN NoTree : Len(p) <= 0
  BY <1>1
<1> QED
  BY <1>1, <1>2 DEF TreeOK, Sorted, KeysOf

(* A key is found just if it is in the tree. *)
LEMMA FindsKey ==
  ASSUME NEW t, TreeOK(t), Sorted(t, DOMAIN t), NEW k \in Int
  PROVE  /\ Found(t, << >>, k) = {} <=> k \notin KeysOf(t)
         /\ k \in KeysOf(t) => Find(t, << >>, k) \in DOMAIN t /\ t[Find(t, << >>, k)].key = k
<1>1. << >> \in Places /\ Below(t, << >>) = DOMAIN t
  BY AllBelow
<1>2. Found(t, << >>, k) = {p \in DOMAIN t : t[p].key = k}
  BY <1>1, FoundIs
<1>3. ASSUME NEW p \in DOMAIN t, t[p].key = k
      PROVE  Find(t, << >>, k) = p
  BY <1>1, <1>3, FindIs
<1> QED
  BY <1>2, <1>3 DEF KeysOf

LEMMA InvStep ==
  ASSUME Inv, [TreeNext]_tree_vars
  PROVE  Inv'
<1>0. TreeOK(tree) /\ Sorted(tree, DOMAIN tree)
  BY DEF Inv
<1>1. ASSUME UNCHANGED tree
      PROVE  Inv'
  BY <1>0, <1>1 DEF Inv
<1>2. ASSUME NEW k \in Keys, NEW v \in Values, tree_insert(k, v)
      PROVE  Inv'
  <2>1. CASE UNCHANGED tree
    BY <1>1, <2>1
  <2>2. CASE ~ UNCHANGED tree
    <3>1. PICK p \in Way(tree, << >>, k) : p \notin DOMAIN tree /\
            tree' = Grown(tree, p, k, v)
      BY <1>2, <2>2 DEF tree_insert, Grown
    <3>2. k \in Int
      BY KeysAssumption
    <3> QED
      <4>1. PICK u : u = Grown(tree, p, k, v)
        OBVIOUS
      <4>2. TreeOK(u) /\ Sorted(u, DOMAIN u)
        BY <1>0, <3>1, <3>2, <4>1, Grows
      <4> QED
        BY <3>1, <4>1, <4>2 DEF Inv
  <2> QED
    BY <2>1, <2>2
<1>3. ASSUME NEW k \in Keys, tree_remove(k)
      PROVE  Inv'
  <2>1. \/ tree' = IF yields = "node" THEN tree ELSE NoTree
        \/ Found(tree, << >>, k) # {} /\ tree' = symtab_rm(tree, k, yields)
    BY <1>3 DEF tree_remove
  <2>2. CASE tree' = NoTree
    BY <2>2, InitOK DEF Inv
  <2>3. CASE Found(tree, << >>, k) # {} /\ tree' = symtab_rm(tree, k, yields)
    <3>1. PICK p \in DOMAIN tree : tree[p].key = k
      BY <1>0, <2>3, FindsKey, KeysAssumption DEF KeysOf
    <3>2. tree' = symtab_rm(tree, tree[p].key, yields)
      BY <2>3, <3>1
    <3> QED
      BY <1>0, <3>2, RemovedIs DEF Inv
  <2> QED
    BY <1>1, <2>1, <2>2, <2>3
<1>4. CASE UNCHANGED tree_vars
  BY <1>1, <1>4 DEF tree_vars
<1>5. ASSUME NEW k \in Keys, tree_lookup(k)
      PROVE  Inv'
  BY <1>1, <1>5 DEF tree_lookup
<1> QED
  BY <1>2, <1>3, <1>4, <1>5 DEF TreeNext

LEMMA Invariance ==
  TreeSpec => []Inv
<1>1. tree_init => Inv
  BY InitOK DEF tree_init, Inv
<1>2. Inv /\ [TreeNext]_tree_vars => Inv'
  BY InvStep
<1> QED
  BY <1>1, <1>2, PTL DEF TreeSpec

(***************************************************************************)
(* The tree stays a search tree, however it was filled and whichever nodes *)
(* a removal moved (symtab_bt.c:68-91), for both modelled values of        *)
(* symtab_rm's missing return.                                             *)
(***************************************************************************)
THEOREM StaysSearchTree ==
  TreeSpec => []SearchTree
<1>1. Inv => SearchTree
  <2> SUFFICES ASSUME Inv, NEW p \in DOMAIN tree, NEW q \in DOMAIN tree
               PROVE  /\ IsPrefix(Append(p, "left"), q) => tree[q].key < tree[p].key
                      /\ IsPrefix(Append(p, "right"), q) => tree[q].key > tree[p].key
    BY DEF SearchTree
  <2>1. p \in Places /\ q \in Places /\ Ordered(tree, p, q)
    BY DEF Inv, TreeOK, Sorted
  <2>2. "left" \in Sides /\ "right" \in Sides
    BY DEF Sides
  <2> QED
    BY <2>1, <2>2, UnderIs DEF Ordered
<1> QED
  BY <1>1, Invariance, PTL

-----------------------------------------------------------------------------
(***************************************************************************)
(* The map that a tree stands for.                                         *)
(***************************************************************************)
Table(t) == [k \in KeysOf(t) |-> t[CHOOSE p \in DOMAIN t : t[p].key = k].value]

LEMMA TableIs ==
  ASSUME NEW t, TreeOK(t), Sorted(t, DOMAIN t)
  PROVE  /\ DOMAIN Table(t) = KeysOf(t) /\ Table(t) = [k \in KeysOf(t) |-> Table(t)[k]]
         /\ \A p \in DOMAIN t : t[p].key \in KeysOf(t) /\ Table(t)[t[p].key] = t[p].value
         /\ \A p, q \in DOMAIN t : t[p].key = t[q].key => p = q
<1>1. << >> \in Places /\ Below(t, << >>) = DOMAIN t
  BY AllBelow
<1>2. ASSUME NEW p \in DOMAIN t, NEW q \in DOMAIN t, t[p].key = t[q].key
      PROVE  p = q
  BY <1>1, <1>2, KeysDiffer
<1>3. ASSUME NEW p \in DOMAIN t
      PROVE  t[p].key \in KeysOf(t) /\ Table(t)[t[p].key] = t[p].value
  <2>1. t[p].key \in KeysOf(t)
    BY DEF KeysOf
  <2>2. (CHOOSE q \in DOMAIN t : t[q].key = t[p].key) = p
    BY <1>2
  <2> QED
    BY <2>1, <2>2 DEF Table
<1> QED
  BY <1>2, <1>3 DEF Table

TableWith(t, k, v) == [key \in KeysOf(t) \union {k} |-> IF key = k THEN v ELSE Table(t)[key]]

LEMMA TableGrows ==
  ASSUME NEW t, TreeOK(t), Sorted(t, DOMAIN t), NEW k \in Int, NEW v, k \notin KeysOf(t),
         NEW p, p \notin DOMAIN t, NEW u, u = Grown(t, p, k, v), TreeOK(u), Sorted(u, DOMAIN u)
  PROVE  Table(u) = TableWith(t, k, v)
<1>1. /\ DOMAIN u = DOMAIN t \union {p} /\ u[p].key = k /\ u[p].value = v
      /\ \A q \in DOMAIN t : u[q] = t[q]
  BY DEF Grown, Entry
<1>2. KeysOf(u) = KeysOf(t) \union {k}
  <2>1. ASSUME NEW q \in DOMAIN u
        PROVE  u[q].key \in KeysOf(t) \union {k}
    BY <1>1 DEF KeysOf
  <2>2. ASSUME NEW q \in DOMAIN t
        PROVE  t[q].key \in KeysOf(u)
    BY <1>1 DEF KeysOf
  <2>3. k \in KeysOf(u)
    BY <1>1 DEF KeysOf
  <2> QED
    BY <2>1, <2>2, <2>3 DEF KeysOf
<1>3. ASSUME NEW key \in KeysOf(u)
      PROVE  Table(u)[key] = IF key = k THEN v ELSE Table(t)[key]
  <2>1. PICK q \in DOMAIN u : u[q].key = key
    BY DEF KeysOf
  <2>2. Table(u)[key] = u[q].value
    BY <2>1, TableIs
  <2>3. CASE q = p
    BY <1>1, <2>1, <2>2, <2>3
  <2>4. CASE q \in DOMAIN t
    <3>1. t[q].key \in KeysOf(t) /\ Table(t)[t[q].key] = t[q].value
      BY <2>4, TableIs
    <3> QED
      BY <1>1, <2>1, <2>2, <2>4, <3>1
  <2> QED
    BY <1>1, <2>3, <2>4
<1>4. Table(u) = [key \in KeysOf(u) |-> Table(u)[key]]
  BY TableIs
<1> QED
  BY <1>2, <1>3, <1>4 DEF TableWith

LEMMA TableShrinks ==
  ASSUME NEW t, TreeOK(t), Sorted(t, DOMAIN t), NEW p \in DOMAIN t,
         NEW w, TreeOK(w), Sorted(w, DOMAIN w), Entries(w) = Others(t, p)
  PROVE  Table(w) = [key \in KeysOf(t) \ {t[p].key} |-> Table(t)[key]]
<1>1. ASSUME NEW q \in DOMAIN w
      PROVE  \E x \in DOMAIN t \ {p} : w[q] = t[x]
  BY DEF Entries, Others
<1>2. ASSUME NEW x \in DOMAIN t \ {p}
      PROVE  \E q \in DOMAIN w : w[q] = t[x]
  BY DEF Entries, Others
<1>3. ASSUME NEW x \in DOMAIN t \ {p}
      PROVE  t[x].key \in KeysOf(t) \ {t[p].key}
  BY TableIs
<1>4. KeysOf(w) = KeysOf(t) \ {t[p].key}
  <2>1. ASSUME NEW q \in DOMAIN w
        PROVE  w[q].key \in KeysOf(t) \ {t[p].key}
    BY <1>1, <1>3
  <2>2. ASSUME NEW key \in KeysOf(t) \ {t[p].key}
        PROVE  key \in KeysOf(w)
    <3>1. PICK x \in DOMAIN t : t[x].key = key
      BY DEF KeysOf
    <3>2. PICK q \in DOMAIN w : w[q] = t[x]
      BY <1>2, <3>1
    <3> QED
      BY <3>1, <3>2 DEF KeysOf
  <2> QED
    BY <2>1, <2>2 DEF KeysOf
<1>5. ASSUME NEW key \in KeysOf(w)
      PROVE  Table(w)[key] = Table(t)[key]
  <2>1. PICK q \in DOMAIN w : w[q].key = key
    BY DEF KeysOf
  <2>2. PICK x \in DOMAIN t \ {p} : w[q] = t[x]
    BY <1>1
  <2>3. Table(w)[w[q].key] = w[q].value
    BY TableIs
  <2>4. Table(t)[t[x].key] = t[x].value
    BY TableIs
  <2> QED
    BY <2>1, <2>2, <2>3, <2>4
<1>6. Table(w) = [key \in KeysOf(w) |-> Table(w)[key]]
  BY TableIs
<1> QED
  BY <1>4, <1>5, <1>6

-----------------------------------------------------------------------------
(***************************************************************************)
(* The map, in the builds where symtab_rm returns the node.                *)
(***************************************************************************)
LEMMA LookupIs ==
  ASSUME Inv, NEW k \in Keys, tree_lookup(k)
  PROVE  TreeMap!Lookup(k)
<1>0. TreeOK(tree) /\ Sorted(tree, DOMAIN tree) /\ k \in Int
  BY KeysAssumption DEF Inv
<1>1. Found(tree, << >>, k) = {} <=> k \notin KeysOf(tree)
  BY <1>0, FindsKey
<1>2. k \in KeysOf(tree) => tree[Find(tree, << >>, k)].value = Table(tree)[k]
  <2> SUFFICES ASSUME k \in KeysOf(tree) PROVE tree[Find(tree, << >>, k)].value = Table(tree)[k]
    OBVIOUS
  <2>1. Find(tree, << >>, k) \in DOMAIN tree /\ tree[Find(tree, << >>, k)].key = k
    BY <1>0, FindsKey
  <2>2. \A p \in DOMAIN tree : Table(tree)[tree[p].key] = tree[p].value
    BY <1>0, TableIs
  <2> QED
    BY <2>1, <2>2
<1>3. DOMAIN Table(tree) = KeysOf(tree)
  BY DEF Table
<1>4. tree_ret' = IF k \in DOMAIN Table(tree) THEN Table(tree)[k] ELSE -1
  BY <1>1, <1>2, <1>3 DEF tree_lookup
<1>5. tree_call' = <<"lookup", k>> /\ Table(tree)' = Table(tree)
  BY DEF tree_lookup, Table, KeysOf
<1> QED
  BY <1>4, <1>5 DEF TreeMap!Lookup, Table

LEMMA InsertIs ==
  ASSUME Inv, NEW k \in Keys, NEW v \in Values, tree_insert(k, v)
  PROVE  TreeMap!Insert(k, v)
<1>0. TreeOK(tree) /\ Sorted(tree, DOMAIN tree) /\ k \in Int /\ tree_call' = <<"insert", k, v>>
  BY KeysAssumption DEF Inv, tree_insert
<1>1. Found(tree, << >>, k) = {} <=> k \notin KeysOf(tree)
  BY <1>0, FindsKey
<1>2. DOMAIN Table(tree) = KeysOf(tree)
  BY DEF Table
<1>3. CASE k \in KeysOf(tree)
  <2>1. tree_ret' = 0 /\ UNCHANGED tree
    BY <1>1, <1>3 DEF tree_insert
  <2>2. Table(tree)' = Table(tree)
    BY <2>1 DEF Table, KeysOf
  <2> QED
    BY <1>0, <1>2, <1>3, <2>1, <2>2 DEF TreeMap!Insert, Table
<1>4. CASE k \notin KeysOf(tree)
  <2>1. PICK p \in Way(tree, << >>, k) : p \notin DOMAIN tree /\ tree' = Grown(tree, p, k, v)
    BY <1>1, <1>4 DEF tree_insert, Grown
  <2>2. PICK u : u = Grown(tree, p, k, v)
    OBVIOUS
  <2>3. TreeOK(u) /\ Sorted(u, DOMAIN u)
    BY <1>0, <2>1, <2>2, Grows
  <2>4. Table(u) = TableWith(tree, k, v)
    BY <1>0, <1>4, <2>1, <2>2, <2>3, TableGrows
  <2>5. Table(tree)' = Table(u)
    BY <2>1, <2>2 DEF Table, KeysOf
  <2>6. tree_ret' = 1
    BY <1>1, <1>4 DEF tree_insert
  <2> QED
    BY <1>0, <1>2, <1>4, <2>4, <2>5, <2>6 DEF TreeMap!Insert, Table, TableWith
<1> QED
  BY <1>3, <1>4

LEMMA RemoveIs ==
  ASSUME Inv, yields = "node", NEW k \in Keys, tree_remove(k)
  PROVE  TreeMap!Remove(k)
<1>0. TreeOK(tree) /\ Sorted(tree, DOMAIN tree) /\ k \in Int /\ tree_call' = <<"remove", k>>
  BY KeysAssumption DEF Inv, tree_remove
<1>1. Found(tree, << >>, k) = {} <=> k \notin KeysOf(tree)
  BY <1>0, FindsKey
<1>2. DOMAIN Table(tree) = KeysOf(tree) /\ Table(tree) = [key \in KeysOf(tree) |-> Table(tree)[key]]
  BY DEF Table
<1>3. CASE k \in KeysOf(tree)
  <2>1. tree_ret' = 1 /\ tree' = symtab_rm(tree, k, "node")
    BY <1>1, <1>3 DEF tree_remove
  <2>2. PICK p \in DOMAIN tree : tree[p].key = k
    BY <1>3 DEF KeysOf
  <2>3. PICK w : w = symtab_rm(tree, tree[p].key, "node")
    OBVIOUS
  <2>4. TreeOK(w) /\ Sorted(w, DOMAIN w) /\ Entries(w) = Others(tree, p)
    BY <1>0, <2>3, RemovedIs
  <2>5. Table(w) = [key \in KeysOf(tree) \ {k} |-> Table(tree)[key]]
    BY <1>0, <2>2, <2>4, TableShrinks
  <2>6. Table(tree)' = Table(w)
    BY <2>1, <2>2, <2>3 DEF Table, KeysOf
  <2> QED
    BY <1>0, <1>2, <1>3, <2>1, <2>5, <2>6 DEF TreeMap!Remove, TreeMap!Without, Table
<1>4. CASE k \notin KeysOf(tree)
  <2>1. tree_ret' = 0 /\ tree' = tree
    BY <1>1, <1>4 DEF tree_remove
  <2>2. Table(tree)' = Table(tree)
    BY <2>1 DEF Table, KeysOf
  <2>3. Table(tree) = [key \in KeysOf(tree) \ {k} |-> Table(tree)[key]]
    <3>1. KeysOf(tree) \ {k} = KeysOf(tree)
      BY <1>4
    <3> QED
      BY <1>2, <3>1
  <2> QED
    BY <1>0, <1>2, <1>4, <2>1, <2>2, <2>3 DEF TreeMap!Remove, TreeMap!Without, Table
<1> QED
  BY <1>3, <1>4

(***************************************************************************)
(* Where the missing return yields the node itself, every call does and    *)
(* returns what symtab.h:28-38 says of a map.                              *)
(***************************************************************************)
THEOREM TreeIsMap ==
  TreeSpec => ImplementsMap
<1>1. tree_init => TreeMap!Init
  <2> SUFFICES ASSUME tree_init PROVE TreeMap!Init
    OBVIOUS
  <2>1. KeysOf(tree) = {}
    BY InitOK DEF tree_init
  <2>2. Table(tree) = [k \in {} |-> 0]
    BY <2>1 DEF Table
  <2> QED
    BY <2>2 DEF tree_init, TreeMap!Init, Table
<1>2. Inv /\ [TreeNext]_tree_vars => [yields = "node" => TreeMap!Next]_tree_vars
  <2> SUFFICES ASSUME Inv, TreeNext, yields = "node" PROVE TreeMap!Next
    OBVIOUS
  <2>1. ASSUME NEW k \in Keys, tree_lookup(k)
        PROVE  TreeMap!Next
    BY <2>1, LookupIs DEF TreeMap!Next
  <2>2. ASSUME NEW k \in Keys, tree_remove(k)
        PROVE  TreeMap!Next
    BY <2>2, RemoveIs DEF TreeMap!Next
  <2>3. ASSUME NEW k \in Keys, NEW v \in Values, tree_insert(k, v)
        PROVE  TreeMap!Next
    BY <2>3, InsertIs DEF TreeMap!Next
  <2> QED
    BY <2>1, <2>2, <2>3 DEF TreeNext
<1> QED
  BY <1>1, <1>2, Invariance, PTL DEF TreeSpec, ImplementsMap

(***************************************************************************)
(* The refinement: a tree in such a build is the map (symtab.h:28-38).     *)
(***************************************************************************)
THEOREM TreeRefinesMap ==
  TreeSpec /\ yields = "node" => TreeMap!Spec
<1>1. yields = "node" /\ [TreeNext]_tree_vars => (yields = "node")'
  BY DEF TreeNext, tree_vars
<1>2. [yields = "node" => TreeMap!Next]_tree_vars /\ yields = "node" => [TreeMap!Next]_(TreeMap!vars)
  <2> SUFFICES ASSUME UNCHANGED tree_vars PROVE UNCHANGED TreeMap!vars
    OBVIOUS
  <2>1. Table(tree)' = Table(tree) /\ UNCHANGED <<tree_call, tree_ret>>
    BY DEF tree_vars, Table, KeysOf
  <2> QED
    BY <2>1 DEF TreeMap!vars, Table
<1> QED
  BY <1>1, <1>2, TreeIsMap, PTL DEF TreeSpec, ImplementsMap, TreeMap!Spec

-----------------------------------------------------------------------------
(***************************************************************************)
(* One branch, in the other builds.                                        *)
(***************************************************************************)
LEMMA BranchIs ==
  ASSUME NEW t, TreeOK(t), Sorted(t, DOMAIN t), NEW p \in DOMAIN t, NEW n \in DOMAIN t,
         NEW d \in Sides, NEW w, OneBranch(t, p, n, d, w)
  PROVE  /\ t[p].key \notin KeysOf(w)
         /\ {Subtree(t, Append(n, e)) : e \in Sides} = {NoTree, w}
<1>0. p \in Places /\ n \in Places /\ Len(p) \in Nat /\ Len(n) \in Nat
  BY DEF TreeOK, Places
<1>1. w = Subtree(t, Append(n, d)) /\ Lone(t, n, d) /\ Len(p) <= Len(n)
  BY DEF OneBranch
<1>2. PICK c \in Places : c = Append(n, d) /\ Len(c) = Len(n) + 1
  BY <1>0, AppendIs
<1>3. t[p].key \notin KeysOf(w)
  <2> SUFFICES ASSUME NEW q \in DOMAIN w, w[q].key = t[p].key PROVE FALSE
    BY DEF KeysOf
  <2>1. /\ DOMAIN w = {x \in Places : c \o x \in DOMAIN t}
        /\ \A x \in DOMAIN w : w[x] = t[c \o x]
    BY <1>1, <1>2, SubtreeIs
  <2>2. q \in Places /\ c \o q \in DOMAIN t /\ w[q] = t[c \o q]
    BY <2>1
  <2>3. c \o q = p
    <3>1. PICK y \in DOMAIN t : y = c \o q
      BY <2>2
    <3>2. t[y].key = t[p].key
      BY <2>2, <3>1
    <3>3. y = p
      BY <3>2, TableIs
    <3> QED
      BY <3>1, <3>3
  <2>4. Leads(c, c \o q)
    BY <1>2, <2>2, Joined
  <2>5. Leads(c, p)
    BY <2>3, <2>4
  <2> QED
    BY <1>0, <1>1, <1>2, <2>5 DEF Leads
<1>4. ASSUME NEW e \in Sides \ {d}
      PROVE  Subtree(t, Append(n, e)) = NoTree
  <2>1. PICK b \in Places : b = Append(n, e)
    BY <1>0, AppendIs
  <2>2. b \notin DOMAIN t
    BY <1>1, <2>1 DEF Lone
  <2>3. PICK s : s = Subtree(t, b)
    OBVIOUS
  <2>4. s = [q \in DOMAIN s |-> s[q]] /\ DOMAIN s = {q \in Places : b \o q \in DOMAIN t}
    <3>1. /\ Subtree(t, b) = [q \in DOMAIN Subtree(t, b) |-> Subtree(t, b)[q]]
          /\ DOMAIN Subtree(t, b) = {q \in Places : b \o q \in DOMAIN t}
      BY SubtreeIs
    <3> QED
      BY <2>3, <3>1
  <2>5. DOMAIN s = {}
    <3> SUFFICES ASSUME NEW q \in Places, b \o q \in DOMAIN t PROVE FALSE
      BY <2>4
    <3>1. Leads(b, b \o q)
      BY Joined
    <3> QED
      BY <2>2, <3>1 DEF TreeOK
  <2> QED
    BY <2>1, <2>3, <2>4, <2>5 DEF NoTree
<1>5. \E e \in Sides : e # d
  BY DEF Sides
<1>6. \A e \in Sides : Subtree(t, Append(n, e)) = IF e = d THEN w ELSE NoTree
  BY <1>1, <1>4
<1> QED
  BY <1>3, <1>5, <1>6

(***************************************************************************)
(* Where the missing return yields what the recursive call returned, a     *)
(* removal keeps one branch of the tree, and nothing where the key was not *)
(* there.                                                                  *)
(***************************************************************************)
THEOREM RemovalKeepsOneBranch ==
  TreeSpec => KeepsOneBranch
<1> DEFINE Kept(k) ==
             \/ k \notin KeysOf(tree) /\ tree' = NoTree
             \/ /\ k \in KeysOf(tree) \ KeysOf(tree')
                /\ \E p \in DOMAIN tree :
                     /\ tree[p].key >= k
                     /\ \A x \in KeysOf(tree) : ~ (k < x /\ x < tree[p].key)
                     /\ {Subtree(tree, Append(p, d)) : d \in Sides} = {NoTree, tree'}
<1>1. ASSUME Inv, yields = "result", NEW k \in Keys, tree_remove(k)
      PROVE  Kept(k)
  <2>0. TreeOK(tree) /\ Sorted(tree, DOMAIN tree) /\ k \in Int
    BY <1>1, KeysAssumption DEF Inv
  <2>1. Found(tree, << >>, k) = {} <=> k \notin KeysOf(tree)
    BY <2>0, FindsKey
  <2>2. CASE k \notin KeysOf(tree)
    BY <1>1, <2>1, <2>2 DEF tree_remove
  <2>3. CASE k \in KeysOf(tree)
    <3>1. tree' = symtab_rm(tree, k, "result")
      BY <1>1, <2>1, <2>3 DEF tree_remove
    <3>2. PICK p \in DOMAIN tree : tree[p].key = k
      BY <2>3 DEF KeysOf
    <3>3. PICK w : w = symtab_rm(tree, tree[p].key, "result")
      OBVIOUS
    <3>4. PICK n \in DOMAIN tree, d \in Sides : OneBranch(tree, p, n, d, w)
      BY <2>0, <3>3, RemovedIs
    <3>5. /\ k \notin KeysOf(w)
          /\ {Subtree(tree, Append(n, e)) : e \in Sides} = {NoTree, w}
      BY <2>0, <3>2, <3>4, BranchIs
    <3>6. tree[n].key >= k /\ \A x \in KeysOf(tree) : ~ (k < x /\ x < tree[n].key)
      BY <3>2, <3>4 DEF OneBranch, KeysOf
    <3>7. w = tree'
      BY <3>1, <3>2, <3>3
    <3> QED
      BY <2>3, <3>5, <3>6, <3>7
  <2> QED
    BY <2>2, <2>3
<1>2. Inv /\ [TreeNext]_tree_vars => [yields = "result" /\ tree_call'[1] = "remove" => Kept(tree_call'[2])]_tree_vars
  <2> SUFFICES ASSUME Inv, TreeNext, yields = "result", tree_call'[1] = "remove" PROVE Kept(tree_call'[2])
    OBVIOUS
  <2>1. PICK k \in Keys : tree_lookup(k) \/ tree_remove(k) \/ \E v \in Values : tree_insert(k, v)
    BY DEF TreeNext
  <2>2. tree_remove(k)
    BY <2>1 DEF tree_lookup, tree_insert
  <2>3. tree_call'[2] = k
    BY <2>2 DEF tree_remove
  <2>4. Kept(k)
    BY <1>1, <2>2
  <2> HIDE DEF Kept
  <2> QED
    BY <2>3, <2>4
<1>3. KeepsOneBranch <=> [][yields = "result" /\ tree_call'[1] = "remove" => Kept(tree_call'[2])]_tree_vars
  BY DEF KeepsOneBranch
<1> HIDE DEF Kept
<1> QED
  BY <1>2, <1>3, Invariance, PTL DEF TreeSpec

=============================================================================
