----------------------------- MODULE DataProofs -----------------------------
(***************************************************************************)
(* The data half of project3's generator, for every set of names, all      *)
(* families of programs and programs of any length.                        *)
(***************************************************************************)
EXTENDS DataHist, FiniteSetTheorems, SequenceTheorems, TLAPS

-----------------------------------------------------------------------------
(* Sequences. *)
LEMMA AppendIs ==
  ASSUME NEW T, NEW s \in Seq(T), NEW x \in T
  PROVE  /\ Append(s, x) \in Seq(T) /\ Len(Append(s, x)) = Len(s) + 1
         /\ Append(s, x)[Len(s) + 1] = x
         /\ \A i \in 1 .. Len(s) : Append(s, x)[i] = s[i]
  OBVIOUS

LEMMA ConcatIs ==
  ASSUME NEW T, NEW s \in Seq(T), NEW u \in Seq(T)
  PROVE  /\ s \o u \in Seq(T) /\ Len(s \o u) = Len(s) + Len(u)
         /\ \A i \in 1 .. Len(s) : (s \o u)[i] = s[i]
         /\ \A i \in 1 .. Len(u) : (s \o u)[Len(s) + i] = u[i]
<1>1. s \o u \in Seq(T) /\ Len(s \o u) = Len(s) + Len(u)
  BY ConcatProperties
<1>2. \A i \in 1 .. Len(s) + Len(u) :
        (s \o u)[i] = IF i <= Len(s) THEN s[i] ELSE u[i - Len(s)]
  BY ConcatProperties
<1>3. Len(s) \in Nat /\ Len(u) \in Nat
  OBVIOUS
<1>4. ASSUME NEW i \in 1 .. Len(u)
      PROVE  (s \o u)[Len(s) + i] = u[i]
  <2>1. Len(s) + i \in 1 .. Len(s) + Len(u) /\ ~ Len(s) + i <= Len(s)
    BY <1>3
  <2>2. Len(s) + i - Len(s) = i
    BY <1>3
  <2> QED
    BY <1>2, <2>1, <2>2
<1>5. ASSUME NEW i \in 1 .. Len(s)
      PROVE  (s \o u)[i] = s[i]
  <2>1. i \in 1 .. Len(s) + Len(u) /\ i <= Len(s)
    BY <1>3
  <2> QED
    BY <1>2, <2>1
<1> QED
  BY <1>1, <1>4, <1>5

-----------------------------------------------------------------------------
(* Instructions. *)
FieldLists == {<< >>} \union {handle_DefList(d[2]) : d \in UNION {Structs[p] : p \in Profiles}}

Types == {Primitive} \union {Structure(f) : f \in FieldLists}

Tacs ==
  [op : {"FUNCTION"}, name : Names] \union
  [op : {"PARAM", "DEC"}, addr : Nat, type : Types, sizes : Seq(Nat)] \union
  [op : {"ASSIGN"}, addr : Nat, raddr : Int] \union
  [op : {"STORE", "ADDRESS", "LOAD"}, addr : Nat, raddr : Nat] \union
  [op : {"ARITH"}, addr : Nat, laddr : Int, raddr : Int, token : Tokens] \union
  [op : {"READ"}, addr : Nat] \union
  [op : {"WRITE", "RETURN", "ARG"}, raddr : Nat] \union
  [op : {"CALL"}, addr : Nat, name : Names]

Layouts == {"PARAM", "DEC"}

Patched == {"ASSIGN", "STORE"}

(* The instructions that define the variable with their index. *)
Definers == {"PARAM", "DEC", "ASSIGN", "ADDRESS", "LOAD", "ARITH", "READ", "CALL"}

LEMMA TacFields ==
  ASSUME NEW tac \in Tacs
  PROVE  /\ tac.op \in Definers \union {"FUNCTION", "STORE", "WRITE", "RETURN", "ARG"}
         /\ tac.op \in Definers \union {"STORE"} => tac.addr \in Nat
         /\ tac.op \in {"STORE", "ADDRESS", "LOAD", "WRITE", "RETURN", "ARG"} => tac.raddr \in Nat
         /\ tac.op = "ASSIGN" => tac.raddr \in Int
         /\ tac.op = "ARITH" => tac.laddr \in Int /\ tac.raddr \in Int
         /\ tac.op \in Layouts => tac.type \in Types /\ tac.sizes \in Seq(Nat)
  BY DEF Tacs, Layouts, Definers

LEMMA TacOperands ==
  ASSUME NEW tac \in Tacs
  PROVE  Reads(tac) \union Defines(tac) \subseteq Nat
<1>1. Defines(tac) \subseteq Nat
  BY TacFields DEF Defines, Definers
<1>2. CASE tac.op \in {"FUNCTION", "PARAM", "DEC", "READ", "CALL"}
  BY <1>1, <1>2 DEF Reads
<1>3. CASE tac.op = "ARITH"
  <2>1. Reads(tac) = {a \in {tac.laddr, tac.raddr} : a > 0}
    BY <1>3 DEF Reads
  <2> QED
    BY <1>1, <1>3, <2>1, TacFields
<1>4. CASE tac.op = "STORE"
  <2>1. Reads(tac) = {tac.addr, tac.raddr}
    BY <1>4 DEF Reads
  <2> QED
    BY <1>1, <1>4, <2>1, TacFields
<1>5. CASE tac.op \in {"ASSIGN", "ADDRESS", "LOAD", "WRITE", "RETURN", "ARG"}
  <2>1. Reads(tac) = {a \in {tac.raddr} : a > 0}
    BY <1>5 DEF Reads
  <2> QED
    BY <1>1, <1>5, <2>1, TacFields
<1> QED
  BY <1>2, <1>3, <1>4, <1>5, TacFields DEF Definers

(* A patched instruction. *)
LEMMA PatchIs ==
  ASSUME NEW tac \in Tacs, tac.op \in Patched, NEW r \in Nat
  PROVE  LET new == [tac EXCEPT !.raddr = r]
         IN  new \in Tacs /\ new.op = tac.op /\ new.addr = tac.addr /\ new.raddr = r
<1>1. tac \in [op : {"ASSIGN"}, addr : Nat, raddr : Int] \union
             [op : {"STORE", "ADDRESS", "LOAD"}, addr : Nat, raddr : Nat]
  BY DEF Tacs, Patched
<1> QED
  BY <1>1 DEF Tacs

LEMMA TacsMade ==
  ASSUME NEW a \in Nat, NEW r \in Nat, NEW m \in Int, NEW n \in Int, NEW f \in Names,
         NEW type \in Types, NEW sizes \in Seq(Nat), NEW token \in Tokens
  PROVE  /\ FuncCode(f) \in Tacs /\ CallCode(a, f) \in Tacs
         /\ ParamCode(a, type, sizes) \in Tacs /\ DecCode(a, type, sizes) \in Tacs
         /\ AssignCode(a, m) \in Tacs /\ ArithCode(a, m, n, token) \in Tacs
         /\ AssignToAddrCode(a, r) \in Tacs /\ AssignAddrCode(a, r) \in Tacs
         /\ AssignValCode(a, r) \in Tacs
         /\ ReadCode(a) \in Tacs /\ WriteCode(r) \in Tacs /\ ReturnCode(r) \in Tacs
         /\ ArgCode(r) \in Tacs
<1>1. FuncCode(f) \in Tacs /\ CallCode(a, f) \in Tacs
  BY DEF Tacs, FuncCode, CallCode
<1>2. ParamCode(a, type, sizes) \in Tacs /\ DecCode(a, type, sizes) \in Tacs
  BY DEF Tacs, ParamCode, DecCode
<1>3. AssignCode(a, m) \in Tacs /\ ArithCode(a, m, n, token) \in Tacs
  BY DEF Tacs, AssignCode, ArithCode
<1>4. AssignToAddrCode(a, r) \in Tacs /\ AssignAddrCode(a, r) \in Tacs /\ AssignValCode(a, r) \in Tacs
  BY DEF Tacs, AssignToAddrCode, AssignAddrCode, AssignValCode
<1>5. /\ ReadCode(a) \in Tacs /\ WriteCode(r) \in Tacs /\ ReturnCode(r) \in Tacs
      /\ ArgCode(r) \in Tacs
  BY DEF Tacs, ReadCode, WriteCode, ReturnCode, ArgCode
<1> QED
  BY <1>1, <1>2, <1>3, <1>4, <1>5

(* Sizes and offsets. *)
LEMMA ProductNat ==
  ASSUME NEW s \in Seq(Nat)
  PROVE  Product(s) \in Nat
<1>1. PICK h : Multiplying!States(h, 1, s)
  BY Multiplying!LoopHasStates
<1>2. /\ h[0] = 1
      /\ \A k \in DOMAIN s : h[k] = h[k - 1] * s[k]
      /\ h[Len(s)] = Product(s)
  BY <1>1 DEF Multiplying!States, Times, Product
<1> DEFINE K == {k \in Nat : k <= Len(s) => h[k] \in Nat}
<1>3. 0 \in K
  BY <1>2
<1>4. ASSUME NEW k \in Nat, k \in K
      PROVE  k + 1 \in K
  <2> SUFFICES ASSUME k + 1 <= Len(s)
               PROVE  h[k + 1] \in Nat
    OBVIOUS
  <2>1. Len(s) \in Nat /\ DOMAIN s = 1 .. Len(s)
    OBVIOUS
  <2>2. k + 1 \in DOMAIN s /\ s[k + 1] \in Nat /\ h[k] \in Nat /\ k + 1 - 1 = k
    BY <1>4, <2>1
  <2>3. h[k + 1] = h[k] * s[k + 1]
    BY <1>2, <2>2
  <2> QED
    BY <2>2, <2>3
<1> HIDE DEF K
<1>5. \A k \in Nat : k \in K
  BY <1>3, <1>4, Multiplying!NatSet
<1> QED
  BY <1>2, <1>5 DEF K

LEMMA SuffixNat ==
  ASSUME NEW sizes \in Seq(Nat), NEW i \in Nat, i < Len(sizes)
  PROVE  suffix(sizes)[i + 1] * type_size \in Nat
<1>1. i + 1 \in 1 .. Len(sizes) /\ i + 1 - 1 = i
  OBVIOUS
<1>2. suffix(sizes)[i + 1] = Product(LastN(sizes, i))
  BY <1>1 DEF suffix
<1>3. LastN(sizes, i) \in Seq(Nat)
  <2>1. Len(sizes) \in Nat
    OBVIOUS
  <2>2. \A j \in Len(sizes) - i + 1 .. Len(sizes) : sizes[j] \in Nat
    BY <2>1
  <2> QED
    BY <2>1, <2>2, SubSeqProperties DEF LastN
<1> QED
  BY <1>2, <1>3, ProductNat DEF type_size

LEMMA OffsetNat ==
  ASSUME NEW type \in Types, NEW name
  PROVE  get_offset(type, name) \in Nat
<1>1. \E n \in Nat : DOMAIN type.fields = 1 .. n
  <2>1. CASE type = Primitive
    BY <2>1 DEF Primitive
  <2>2. CASE \E f \in FieldLists : type = Structure(f)
    <3>1. PICK f \in FieldLists : type = Structure(f)
      BY <2>2
    <3>2. type.fields = f
      BY <3>1 DEF Structure
    <3>3. CASE f = << >>
      BY <3>2, <3>3
    <3>4. CASE \E p \in Profiles : \E d \in Structs[p] : f = handle_DefList(d[2])
      <4>0. PICK p \in Profiles : \E d \in Structs[p] : f = handle_DefList(d[2])
        BY <3>4
      <4>1. PICK d \in Structs[p] : f = handle_DefList(d[2])
        BY <4>0
      <4>2. DOMAIN f = DOMAIN d[2]
        BY <4>1 DEF handle_DefList
      <4>3. d[2] \in Seq(Range(d[2]))
        BY <4>1, StructsAssumption
      <4>4. DOMAIN d[2] = 1 .. Len(d[2]) /\ Len(d[2]) \in Nat
        BY <4>3
      <4> QED
        BY <3>2, <4>2, <4>4
    <3> QED
      BY <3>1, <3>3, <3>4 DEF FieldLists
  <2> QED
    BY <2>1, <2>2 DEF Types
<1> DEFINE S == {i \in DOMAIN type.fields : \A j \in 1 .. i : type.fields[j].name # name}
<1>2. PICK n \in Nat : DOMAIN type.fields = 1 .. n
  BY <1>1
<1>3. IsFiniteSet(1 .. n)
  BY FS_Interval
<1>4. S \subseteq 1 .. n
  BY <1>2
<1>5. IsFiniteSet(S)
  BY <1>3, <1>4, FS_Subset
<1>6. Cardinality(S) \in Nat
  BY <1>5, FS_CardinalityType
<1>7. get_offset(type, name) = type_size * Cardinality(S)
  BY DEF get_offset
<1> HIDE DEF S
<1> QED
  BY <1>6, <1>7 DEF type_size

-----------------------------------------------------------------------------
(***************************************************************************)
(* The steps of a generator.  Moved is what every part of an expression    *)
(* does to it: instructions are appended, the source of an earlier         *)
(* assignment may change, and only a name without an instruction gets one. *)
(***************************************************************************)
Gens == [code : Seq(Tacs), names : [Names -> Nat], ok : BOOLEAN]

IsGen(g) == g \in Gens /\ \A x \in Names : g.names[x] <= Len(g.code)

Same(t, u) == t = u \/ (t.op \in Patched /\ u.op = t.op /\ u.addr = t.addr)

Extends(g, h) == \A i \in 1 .. Len(g.code) : h.code[i] = g.code[i]

Moved(g, h) ==
  /\ IsGen(h) /\ Len(g.code) <= Len(h.code)
  /\ h.ok => g.ok
  /\ \A i \in 1 .. Len(g.code) : Same(g.code[i], h.code[i])
  /\ \A i \in Len(g.code) + 1 .. Len(h.code) : h.code[i].op # "FUNCTION"
  /\ \A x \in Names : \/ h.names[x] = g.names[x]
                      \/ g.names[x] = 0 /\ h.names[x] > Len(g.code)

(* h is g with one instruction more. *)
Longer(g, h, tac) ==
  /\ Len(h.code) = Len(g.code) + 1 /\ h.code[Len(g.code) + 1] = tac
  /\ Extends(g, h) /\ h.ok = g.ok

LEMMA SameTransitive ==
  ASSUME NEW t, NEW u, NEW w, Same(t, u), Same(u, w)
  PROVE  Same(t, w)
  BY DEF Same

LEMMA GenFields ==
  ASSUME NEW g, IsGen(g)
  PROVE  /\ g.code \in Seq(Tacs) /\ g.names \in [Names -> Nat] /\ g.ok \in BOOLEAN
         /\ Len(g.code) \in Nat /\ DOMAIN g.code = 1 .. Len(g.code) /\ Size(g) = Len(g.code) + 1
         /\ \A i \in 1 .. Len(g.code) : g.code[i] \in Tacs
  BY DEF IsGen, Gens, Size

LEMMA MovedReflexive ==
  ASSUME NEW g, IsGen(g)
  PROVE  Moved(g, g) /\ Extends(g, g)
<1>1. Extends(g, g) /\ \A i \in 1 .. Len(g.code) : Same(g.code[i], g.code[i])
  BY DEF Extends, Same
<1>2. Len(g.code) \in Nat
  BY GenFields
<1> QED
  BY <1>1, <1>2 DEF Moved

LEMMA MovedTransitive ==
  ASSUME NEW f, NEW g, NEW h, IsGen(f), Moved(f, g), Moved(g, h)
  PROVE  Moved(f, h)
<1>1. IsGen(g) /\ IsGen(h)
  BY DEF Moved
<1>2. Len(f.code) \in Nat /\ Len(g.code) \in Nat /\ Len(h.code) \in Nat
  BY <1>1, GenFields
<1>3. Len(f.code) <= Len(g.code) /\ Len(g.code) <= Len(h.code)
  BY DEF Moved
<1>4. Len(f.code) <= Len(h.code) /\ (h.ok => f.ok)
  BY <1>2, <1>3 DEF Moved
<1>5. \A i \in 1 .. Len(f.code) : Same(f.code[i], h.code[i])
  <2> TAKE i \in 1 .. Len(f.code)
  <2>1. i \in 1 .. Len(g.code)
    BY <1>2, <1>3
  <2> QED
    BY <2>1, SameTransitive DEF Moved
<1>6. \A i \in Len(f.code) + 1 .. Len(h.code) : h.code[i].op # "FUNCTION"
  <2> TAKE i \in Len(f.code) + 1 .. Len(h.code)
  <2>1. CASE i > Len(g.code)
    <3>1. i \in Len(g.code) + 1 .. Len(h.code)
      BY <1>2, <2>1
    <3> QED
      BY <3>1 DEF Moved
  <2>2. CASE i <= Len(g.code)
    <3>1. i \in Len(f.code) + 1 .. Len(g.code) /\ i \in 1 .. Len(g.code)
      BY <1>2, <2>2
    <3>2. g.code[i].op # "FUNCTION" /\ Same(g.code[i], h.code[i])
      BY <3>1 DEF Moved
    <3> QED
      BY <3>2 DEF Same, Patched
  <2> QED
    BY <1>2, <2>1, <2>2
<1>7. \A x \in Names : \/ h.names[x] = f.names[x]
                       \/ f.names[x] = 0 /\ h.names[x] > Len(f.code)
  <2> TAKE x \in Names
  <2>1. f.names[x] \in Nat /\ g.names[x] \in Nat /\ h.names[x] \in Nat
    BY <1>1, GenFields
  <2>2. \/ g.names[x] = f.names[x]
        \/ f.names[x] = 0 /\ g.names[x] > Len(f.code)
    BY DEF Moved
  <2>3. \/ h.names[x] = g.names[x]
        \/ g.names[x] = 0 /\ h.names[x] > Len(g.code)
    BY DEF Moved
  <2> QED
    BY <1>2, <1>3, <2>1, <2>2, <2>3
<1> QED
  BY <1>1, <1>4, <1>5, <1>6, <1>7 DEF Moved

LEMMA ExtendsTransitive ==
  ASSUME NEW f, NEW g, NEW h, IsGen(f), Moved(f, g), Extends(f, g), Extends(g, h)
  PROVE  Extends(f, h)
<1>1. IsGen(g) /\ Len(f.code) <= Len(g.code)
  BY DEF Moved
<1>2. Len(f.code) \in Nat /\ Len(g.code) \in Nat
  BY <1>1, GenFields
<1>3. \A i \in 1 .. Len(f.code) : i \in 1 .. Len(g.code)
  BY <1>1, <1>2
<1> QED
  BY <1>3 DEF Extends

(* A name that gets the index of the next instruction, and that instruction. *)
LEMMA PushIs ==
  ASSUME NEW g, IsGen(g), NEW tac \in Tacs,
         NEW names \in [Names -> Nat], \A x \in Names : names[x] <= Len(g.code) + 1
  PROVE  LET h == Push([g EXCEPT !.names = names], tac)
         IN  IsGen(h) /\ Longer(g, h, tac) /\ h.names = names
<1> DEFINE f == [g EXCEPT !.names = names]
           h == Push(f, tac)
<1>1. g \in Gens /\ g.code \in Seq(Tacs)
  BY DEF IsGen, Gens
<1>2. f \in Gens /\ f.code = g.code /\ f.names = names /\ f.ok = g.ok
  BY <1>1 DEF Gens
<1>3. /\ Append(g.code, tac) \in Seq(Tacs) /\ Len(Append(g.code, tac)) = Len(g.code) + 1
      /\ Append(g.code, tac)[Len(g.code) + 1] = tac
      /\ \A i \in 1 .. Len(g.code) : Append(g.code, tac)[i] = g.code[i]
  BY <1>1, AppendIs
<1> HIDE DEF f
<1>4. h = [f EXCEPT !.code = Append(g.code, tac)]
  BY <1>2 DEF Push
<1>5. h \in Gens /\ h.code = Append(g.code, tac) /\ h.names = names /\ h.ok = g.ok
  BY <1>2, <1>3, <1>4 DEF Gens
<1> HIDE DEF h
<1>6. IsGen(h) /\ Longer(g, h, tac)
  BY <1>3, <1>5 DEF IsGen, Longer, Extends
<1> QED
  BY <1>5, <1>6 DEF f, h

LEMMA LongerMoves ==
  ASSUME NEW g, NEW h, NEW tac \in Tacs, IsGen(g), IsGen(h), Longer(g, h, tac),
         tac.op # "FUNCTION",
         \A x \in Names : h.names[x] = g.names[x] \/ (g.names[x] = 0 /\ h.names[x] = Size(g))
  PROVE  Moved(g, h)
<1>1. Len(g.code) \in Nat /\ Size(g) = Len(g.code) + 1
  BY GenFields
<1>2. Len(g.code) <= Len(h.code) /\ (h.ok => g.ok)
  BY <1>1 DEF Longer
<1>3. \A i \in 1 .. Len(g.code) : Same(g.code[i], h.code[i])
  BY DEF Longer, Extends, Same
<1>4. \A i \in Len(g.code) + 1 .. Len(h.code) : h.code[i].op # "FUNCTION"
  <2> TAKE i \in Len(g.code) + 1 .. Len(h.code)
  <2>1. i = Len(g.code) + 1
    BY <1>1 DEF Longer
  <2> QED
    BY <2>1 DEF Longer
<1>5. \A x \in Names : \/ h.names[x] = g.names[x]
                       \/ g.names[x] = 0 /\ h.names[x] > Len(g.code)
  BY <1>1
<1> QED
  BY <1>2, <1>3, <1>4, <1>5 DEF Moved

(* Emit, without a change of names. *)
LEMMA EmitIs ==
  ASSUME NEW g, IsGen(g), NEW tac \in Tacs, tac.op # "FUNCTION"
  PROVE  LET r == Emit(g, tac)
         IN  /\ Moved(g, r.g) /\ Longer(g, r.g, tac) /\ r.g.names = g.names
             /\ r.addr = Len(g.code) + 1
<1> DEFINE h == Push(g, tac)
<1>1. g = [g EXCEPT !.names = g.names] /\ g.names \in [Names -> Nat]
  BY DEF IsGen, Gens
<1>2. \A x \in Names : g.names[x] <= Len(g.code) + 1
  <2> TAKE x \in Names
  <2>1. g.names[x] \in Nat /\ Len(g.code) \in Nat /\ g.names[x] <= Len(g.code)
    BY GenFields DEF IsGen
  <2> QED
    BY <2>1
<1>3. IsGen(h) /\ Longer(g, h, tac) /\ h.names = g.names
  BY <1>1, <1>2, PushIs
<1>4. Emit(g, tac).g = h /\ Emit(g, tac).addr = Len(g.code) + 1
  BY GenFields DEF Emit
<1> HIDE DEF h
<1>5. \A x \in Names : h.names[x] = g.names[x] \/ (g.names[x] = 0 /\ h.names[x] = Size(g))
  BY <1>3
<1>6. Moved(g, h)
  BY <1>3, <1>5, LongerMoves
<1> QED
  BY <1>3, <1>4, <1>6

LEMMA CrashIs ==
  ASSUME NEW g, IsGen(g)
  PROVE  LET r == Crash(g)
         IN  Moved(g, r.g) /\ Extends(g, r.g) /\ r.addr = 0 /\ r.g.ok = FALSE
<1> DEFINE h == [g EXCEPT !.ok = FALSE]
<1>1. h \in Gens /\ h.code = g.code /\ h.names = g.names /\ h.ok = FALSE
  BY DEF IsGen, Gens
<1>2. Crash(g).g = h /\ Crash(g).addr = 0
  BY DEF Crash
<1> HIDE DEF h
<1>3. IsGen(h)
  BY <1>1 DEF IsGen
<1>4. Len(g.code) \in Nat
  BY GenFields
<1>5. Moved(g, h) /\ Extends(g, h)
  BY <1>1, <1>3, <1>4 DEF Moved, Extends, Same
<1> QED
  BY <1>1, <1>2, <1>5

-----------------------------------------------------------------------------
(***************************************************************************)
(* The work of one visit, whatever the operands are.                       *)
(***************************************************************************)
Fine(g, r) ==
  Moved(g, r.g) /\ Extends(g, r.g) /\ r.addr \in Nat /\ r.addr <= Len(r.g.code)

LEMMA EmitFine ==
  ASSUME NEW g, IsGen(g), NEW tac \in Tacs, tac.op # "FUNCTION"
  PROVE  Fine(g, Emit(g, tac))
<1> DEFINE r == Emit(g, tac)
<1>1. Moved(g, r.g) /\ Longer(g, r.g, tac) /\ r.addr = Len(g.code) + 1
  BY EmitIs
<1> HIDE DEF r
<1>2. Len(g.code) \in Nat
  BY GenFields
<1>3. Fine(g, r)
  BY <1>1, <1>2 DEF Fine, Longer
<1> QED
  BY <1>3 DEF r

LEMMA ReturnFine ==
  ASSUME NEW g, IsGen(g), NEW a \in Nat, a <= Len(g.code)
  PROVE  Fine(g, Return(g, a))
  BY MovedReflexive DEF Fine, Return

LEMMA CrashFine ==
  ASSUME NEW g, IsGen(g)
  PROVE  Fine(g, Crash(g)) /\ ~ Crash(g).g.ok
<1> DEFINE r == Crash(g)
<1>1. Moved(g, r.g) /\ Extends(g, r.g) /\ r.addr = 0 /\ r.g.ok = FALSE
  BY CrashIs
<1> HIDE DEF r
<1>2. Len(r.g.code) \in Nat
  BY <1>1, GenFields DEF Moved
<1>3. Fine(g, r) /\ ~ r.g.ok
  BY <1>1, <1>2 DEF Fine
<1> QED
  BY <1>3 DEF r

LEMMA FineTransitive ==
  ASSUME NEW g, NEW h, NEW r, IsGen(g), Moved(g, h), Extends(g, h), Fine(h, r)
  PROVE  Fine(g, r)
  BY MovedTransitive, ExtendsTransitive DEF Fine

LEMMA OpOfIs ==
  ASSUME NEW g, IsGen(g), NEW a, OpOf(g, a) # "none"
  PROVE  a \in 1 .. Len(g.code) /\ OpOf(g, a) = g.code[a].op /\ g.code[a] \in Tacs
  BY GenFields DEF OpOf

(* Whatever is at an index stays there, but for its source. *)
LEMMA OpOfMoves ==
  ASSUME NEW g, NEW h, IsGen(g), Moved(g, h), NEW a, OpOf(g, a) # "none"
  PROVE  OpOf(h, a) = OpOf(g, a)
<1>1. a \in 1 .. Len(g.code) /\ OpOf(g, a) = g.code[a].op
  BY OpOfIs
<1>2. IsGen(h) /\ Len(g.code) <= Len(h.code) /\ Same(g.code[a], h.code[a])
  BY <1>1 DEF Moved
<1>3. a \in DOMAIN h.code
  BY <1>1, <1>2, GenFields
<1>4. OpOf(h, a) = h.code[a].op
  BY <1>3 DEF OpOf
<1> QED
  BY <1>1, <1>2, <1>4 DEF Same

LEMMA AddressFine ==
  ASSUME NEW g, IsGen(g), NEW a \in Nat, a <= Len(g.code)
  PROVE  Fine(g, AddressOf(a, g)) /\ AddressOf(a, g).g.ok = g.ok
<1>1. CASE OpOf(g, a) = "DEC"
  <2> DEFINE tac == AssignAddrCode(Size(g), a)
             r   == Emit(g, tac)
  <2>1. AddressOf(a, g) = r
    BY <1>1 DEF AddressOf
  <2>2. tac \in Tacs /\ tac.op # "FUNCTION"
    <3>1. Size(g) \in Nat
      BY GenFields
    <3> QED
      BY <3>1 DEF Tacs, AssignAddrCode
  <2> HIDE DEF tac
  <2>3. Fine(g, r) /\ r.g.ok = g.ok
    BY <2>2, EmitFine, EmitIs DEF Longer
  <2> HIDE DEF r
  <2> QED
    BY <2>1, <2>3
<1>2. CASE OpOf(g, a) # "DEC"
  <2>1. AddressOf(a, g) = Return(g, a)
    BY <1>2 DEF AddressOf
  <2> QED
    BY <2>1, ReturnFine DEF Return
<1> QED
  BY <1>1, <1>2

LEMMA IdentifierFine ==
  ASSUME NEW g, IsGen(g), NEW x \in Names, NEW single \in BOOLEAN
  PROVE  LET r == Identifier(x, single, g)
         IN  /\ Fine(g, r)
             /\ single => r.addr = Len(g.code) + 1 /\ OpOf(r.g, r.addr) = "ASSIGN"
<1> DEFINE known == g.names[x]
           addr  == IF known = 0 THEN Size(g) ELSE known
           tac   == AssignCode(addr, 0)
<1>0. Len(g.code) \in Nat /\ Size(g) = Len(g.code) + 1 /\ g.names \in [Names -> Nat]
  BY GenFields
<1>1. known \in Nat /\ known <= Len(g.code) /\ addr \in Nat /\ addr <= Len(g.code) + 1
  BY <1>0 DEF IsGen
<1>2. tac \in Tacs /\ tac.op = "ASSIGN" /\ tac.op # "FUNCTION"
  BY <1>1 DEF Tacs, AssignCode
<1>3. CASE single
  <2> DEFINE names == [g.names EXCEPT ![x] = addr]
             h     == Push([g EXCEPT !.names = names], tac)
             r     == Identifier(x, single, g)
  <2>1. names \in [Names -> Nat] /\ \A y \in Names : names[y] <= Len(g.code) + 1
    <3>1. names \in [Names -> Nat]
      BY <1>0, <1>1
    <3>2. ASSUME NEW y \in Names
          PROVE  names[y] <= Len(g.code) + 1
      <4>1. g.names[y] \in Nat /\ g.names[y] <= Len(g.code)
        BY <1>0 DEF IsGen
      <4> QED
        BY <1>0, <1>1, <4>1
    <3> QED
      BY <3>1, <3>2
  <2>2. r.g = h /\ r.addr = Size(g)
    <3>1. [g EXCEPT !.names[x] = addr] = [g EXCEPT !.names = names]
      OBVIOUS
    <3>2. Size([g EXCEPT !.names[x] = addr]) = Size(g)
      BY <3>1 DEF IsGen, Gens, Size
    <3> HIDE DEF known, addr, names
    <3>3. Identifier(x, single, g) = Emit([g EXCEPT !.names[x] = addr], tac)
      BY <1>3 DEF Identifier, addr, known
    <3> QED
      BY <3>1, <3>2, <3>3 DEF Emit
  <2> HIDE DEF tac, names
  <2>3. IsGen(h) /\ Longer(g, h, tac) /\ h.names = names
    BY <1>2, <2>1, PushIs
  <2>4. \A y \in Names : h.names[y] = g.names[y] \/ (g.names[y] = 0 /\ h.names[y] = Size(g))
    BY <1>0, <2>3 DEF names
  <2> HIDE DEF h, known, addr
  <2>5. Moved(g, h)
    BY <1>2, <2>3, <2>4, LongerMoves
  <2>6. Len(h.code) = Len(g.code) + 1 /\ Extends(g, h) /\ h.code[Len(g.code) + 1] = tac
    BY <2>3 DEF Longer
  <2>7. OpOf(h, Len(g.code) + 1) = "ASSIGN"
    <3>1. Len(g.code) + 1 \in DOMAIN h.code
      BY <1>0, <2>3, <2>6, GenFields
    <3> QED
      BY <1>2, <2>6, <3>1 DEF OpOf
  <2> QED
    BY <1>0, <2>2, <2>5, <2>6, <2>7 DEF Fine
<1>4. CASE ~ single /\ known = 0
  <2>1. Identifier(x, single, g) = Emit(g, tac)
    BY <1>4 DEF Identifier
  <2> HIDE DEF tac
  <2>2. Fine(g, Emit(g, tac))
    BY <1>2, EmitFine
  <2> QED
    BY <1>4, <2>1, <2>2
<1>5. CASE ~ single /\ known # 0
  <2>1. Identifier(x, single, g) = Return(g, known)
    BY <1>5 DEF Identifier
  <2>2. Fine(g, Return(g, known))
    BY <1>1, ReturnFine
  <2> QED
    BY <1>5, <2>1, <2>2
<1> QED
  BY <1>3, <1>4, <1>5

(* A patch: only the source of one assignment changes. *)
LEMMA PatchMoves ==
  ASSUME NEW g, IsGen(g), NEW l, OpOf(g, l) \in Patched, NEW r \in Nat
  PROVE  LET h == [g EXCEPT !.code[l].raddr = r]
         IN  /\ Moved(g, h) /\ h.ok = g.ok /\ h.names = g.names /\ Len(h.code) = Len(g.code)
             /\ \A i \in 1 .. Len(g.code) : i # l => h.code[i] = g.code[i]
             /\ h.code[l].op = g.code[l].op /\ h.code[l].addr = g.code[l].addr
             /\ h.code[l].raddr = r
<1> DEFINE new  == [g.code[l] EXCEPT !.raddr = r]
           code == [g.code EXCEPT ![l] = new]
           h    == [g EXCEPT !.code[l].raddr = r]
<1>0. g \in Gens /\ g.code \in Seq(Tacs) /\ Len(g.code) \in Nat /\ DOMAIN g.code = 1 .. Len(g.code)
  BY GenFields DEF IsGen
<1>1. l \in 1 .. Len(g.code) /\ g.code[l] \in Tacs /\ g.code[l].op \in Patched
  BY OpOfIs DEF Patched
<1>2. new \in Tacs /\ new.op = g.code[l].op /\ new.addr = g.code[l].addr /\ new.raddr = r
  BY <1>1, PatchIs
<1>3. h = [g EXCEPT !.code = code]
  OBVIOUS
<1> HIDE DEF new
<1>4. code \in Seq(Tacs) /\ Len(code) = Len(g.code)
  BY <1>0, <1>1, <1>2, ExceptSeq
<1>5. code[l] = new /\ \A i \in 1 .. Len(g.code) : i # l => code[i] = g.code[i]
  BY <1>0, <1>1
<1> HIDE DEF code, h
<1>6. h \in Gens /\ h.code = code /\ h.names = g.names /\ h.ok = g.ok
  BY <1>0, <1>3, <1>4 DEF Gens
<1>7. IsGen(h)
  BY <1>4, <1>6 DEF IsGen
<1>8. \A i \in 1 .. Len(g.code) : Same(g.code[i], h.code[i])
  BY <1>1, <1>2, <1>5, <1>6 DEF Same
<1>9. \A i \in Len(g.code) + 1 .. Len(h.code) : h.code[i].op # "FUNCTION"
  BY <1>0, <1>4, <1>6
<1>10. Moved(g, h)
  BY <1>0, <1>4, <1>6, <1>7, <1>8, <1>9 DEF Moved
<1> QED
  BY <1>2, <1>4, <1>5, <1>6, <1>10 DEF h

LEMMA AssignmentMoves ==
  ASSUME NEW g, IsGen(g), NEW l, NEW r \in Nat, r <= Len(g.code)
  PROVE  LET w == Assignment(r, l, g)
         IN  /\ Moved(g, w.g) /\ w.addr \in Nat /\ w.addr <= Len(w.g.code)
             /\ \A i \in 1 .. Len(g.code) : i # l => w.g.code[i] = g.code[i]
<1>1. CASE OpOf(g, l) \in Patched
  <2> DEFINE h == [g EXCEPT !.code[l].raddr = r]
  <2>1. /\ Moved(g, h) /\ Len(h.code) = Len(g.code)
        /\ \A i \in 1 .. Len(g.code) : i # l => h.code[i] = g.code[i]
    BY <1>1, PatchMoves
  <2>2. Assignment(r, l, g).g = h /\ Assignment(r, l, g).addr = r
    BY <1>1 DEF Assignment, Return, Patched
  <2> HIDE DEF h
  <2> QED
    BY <2>1, <2>2
<1>2. CASE OpOf(g, l) \notin Patched
  <2> DEFINE w == Crash(g)
  <2>1. Assignment(r, l, g) = w
    BY <1>2 DEF Assignment, Patched
  <2>2. Fine(g, w)
    BY CrashFine
  <2> HIDE DEF w
  <2> QED
    BY <2>1, <2>2 DEF Fine, Extends
<1> QED
  BY <1>1, <1>2

LEMMA ElementsFine ==
  ASSUME NEW g, IsGen(g), NEW a \in Nat, a <= Len(g.code)
  PROVE  /\ Fine(g, Elements(a, g)) /\ (Elements(a, g).g.ok => HasLayout(a, g))
         /\ Fine(g, Members(a, g)) /\ (Members(a, g).g.ok => HasLayout(a, g))
<1>1. Fine(g, AddressOf(a, g))
  BY AddressFine
<1>2. Fine(g, Crash(g)) /\ ~ Crash(g).g.ok
  BY CrashFine
<1>3. (Elements(a, g) = AddressOf(a, g) /\ HasLayout(a, g)) \/ Elements(a, g) = Crash(g)
  BY DEF Elements
<1>4. (Members(a, g) = AddressOf(a, g) /\ HasLayout(a, g)) \/ Members(a, g) = Crash(g)
  BY DEF Members
<1> QED
  BY <1>1, <1>2, <1>3, <1>4

(* The sizes behind a base. *)
LEMMA LayoutIs ==
  ASSUME NEW g, IsGen(g), NEW base, HasLayout(base, g)
  PROVE  /\ base \in 1 .. Len(g.code) /\ g.code[base].op \in Layouts
         /\ g.code[base].type \in Types /\ g.code[base].sizes \in Seq(Nat)
<1>1. /\ base \in 1 .. Len(g.code) /\ g.code[base].op \in Layouts /\ g.code[base] \in Tacs
  BY OpOfIs DEF HasLayout, Layouts
<1> QED
  BY <1>1, TacFields

LEMMA SubscriptFine ==
  ASSUME NEW g, IsGen(g), NEW head \in Nat, NEW offset \in Nat, NEW base, HasLayout(base, g),
         NEW i \in Nat
  PROVE  Fine(g, Subscript(head, offset, base, i, g))
<1> DEFINE sizes == g.code[base].sizes
           m     == -(suffix(sizes)[i + 1] * type_size)
           tac   == ArithCode(Size(g), offset, m, "*")
           s     == Emit(g, tac)
           two   == ArithCode(Size(s.g), head, s.addr, "+")
           r     == Emit(s.g, two)
<1>0. Len(g.code) \in Nat /\ Size(g) = Len(g.code) + 1
  BY GenFields
<1>1. sizes \in Seq(Nat)
  BY LayoutIs
<1>2. CASE i < Len(sizes)
  <2>1. m \in Int
    <3> HIDE DEF sizes
    <3> QED
      BY <1>1, <1>2, SuffixNat
  <2>2. Subscript(head, offset, base, i, g) = r
    BY <1>2 DEF Subscript
  <2> HIDE DEF m, sizes
  <2>3. tac \in Tacs /\ tac.op # "FUNCTION"
    BY <1>0, <2>1 DEF Tacs, ArithCode, Tokens
  <2> HIDE DEF tac
  <2>4. Moved(g, s.g) /\ Extends(g, s.g) /\ s.addr = Len(g.code) + 1 /\ IsGen(s.g)
    BY <2>3, EmitIs DEF Longer, Moved
  <2> HIDE DEF s
  <2>5. Size(s.g) \in Nat
    BY <2>4, GenFields
  <2>6. two \in Tacs /\ two.op # "FUNCTION"
    BY <1>0, <2>4, <2>5 DEF Tacs, ArithCode, Tokens
  <2> HIDE DEF two
  <2>7. Fine(s.g, r)
    BY <2>4, <2>6, EmitFine
  <2> HIDE DEF r
  <2>8. Fine(g, r)
    BY <2>4, <2>7, FineTransitive
  <2> QED
    BY <2>2, <2>8
<1>3. CASE ~ i < Len(sizes)
  <2>1. Subscript(head, offset, base, i, g) = Crash(g)
    BY <1>3 DEF Subscript
  <2> QED
    BY <2>1, CrashFine
<1> QED
  BY <1>2, <1>3

LEMMA MemberFine ==
  ASSUME NEW g, IsGen(g), NEW head \in Nat, NEW base, HasLayout(base, g), NEW name
  PROVE  Fine(g, Member(head, base, name, g))
<1> DEFINE m   == get_offset(g.code[base].type, name)
           tac == ArithCode(Size(g), head, -m, "+")
<1>1. m \in Nat
  BY LayoutIs, OffsetNat
<1>2. Size(g) \in Nat
  BY GenFields
<1>3. Member(head, base, name, g) = Emit(g, tac)
  BY DEF Member
<1> HIDE DEF m
<1>4. tac \in Tacs /\ tac.op # "FUNCTION"
  BY <1>1, <1>2 DEF Tacs, ArithCode, Tokens
<1> HIDE DEF tac
<1> QED
  BY <1>3, <1>4, EmitFine

LEMMA AccessFine ==
  ASSUME NEW g, IsGen(g), NEW head \in Nat, NEW single \in BOOLEAN
  PROVE  LET r == Access(head, single, g)
         IN  /\ Fine(g, r)
             /\ single => r.addr = Len(g.code) + 1 /\ OpOf(r.g, r.addr) = "STORE"
<1> DEFINE tac == IF single THEN AssignToAddrCode(head, 0) ELSE AssignValCode(Size(g), head)
           r   == Access(head, single, g)
<1>0. Len(g.code) \in Nat /\ Size(g) \in Nat
  BY GenFields
<1>1. /\ tac \in Tacs /\ tac.op # "FUNCTION"
      /\ single => tac.op = "STORE"
  BY <1>0 DEF Tacs, AssignToAddrCode, AssignValCode
<1>2. r = Emit(g, tac)
  BY DEF Access
<1> HIDE DEF tac, r
<1>3. Fine(g, r) /\ Longer(g, r.g, tac) /\ r.addr = Len(g.code) + 1
  BY <1>1, <1>2, EmitFine, EmitIs
<1>4. r.addr \in DOMAIN r.g.code /\ r.g.code[r.addr] = tac
  <2>1. IsGen(r.g)
    BY <1>3 DEF Fine, Moved
  <2> QED
    BY <1>0, <1>3, <2>1, GenFields DEF Longer
<1>5. single => OpOf(r.g, r.addr) = "STORE"
  BY <1>1, <1>4 DEF OpOf
<1> QED
  BY <1>3, <1>5 DEF r

LEMMA LaterFine ==
  ASSUME NEW g, IsGen(g), NEW a \in Nat, a <= Len(g.code)
  PROVE  Fine(g, Later(a, g)) /\ Later(a, g).g.ok = g.ok
<1>1. CASE OpOf(g, a) = "DEC"
  BY <1>1, ReturnFine DEF Later, Return
<1>2. CASE OpOf(g, a) # "DEC"
  <2> DEFINE tac == AssignAddrCode(Size(g), a)
             h   == Push(g, tac)
  <2>0. Len(g.code) \in Nat /\ Size(g) \in Nat
    BY GenFields
  <2>1. tac \in Tacs /\ tac.op # "FUNCTION"
    BY <2>0 DEF Tacs, AssignAddrCode
  <2>2. Later(a, g).g = h /\ Later(a, g).addr = a
    BY <1>2 DEF Later, Return
  <2> HIDE DEF tac
  <2>3. h = Emit(g, tac).g
    BY DEF Emit
  <2> HIDE DEF h
  <2>4. Moved(g, h) /\ Longer(g, h, tac)
    BY <2>1, <2>3, EmitIs
  <2>5. Len(h.code) = Len(g.code) + 1 /\ Extends(g, h) /\ h.ok = g.ok
    BY <2>4 DEF Longer
  <2>6. a <= Len(h.code)
    BY <2>0, <2>5
  <2> QED
    BY <2>2, <2>4, <2>5, <2>6 DEF Fine
<1> QED
  BY <1>1, <1>2

(* Several instructions at once, and new names. *)
LEMMA PushAllIs ==
  ASSUME NEW g, IsGen(g), NEW tacs \in Seq(Tacs),
         NEW names \in [Names -> Nat], \A x \in Names : names[x] <= Len(g.code) + Len(tacs)
  PROVE  LET h == PushAll([g EXCEPT !.names = names], tacs)
         IN  /\ IsGen(h) /\ Extends(g, h) /\ h.ok = g.ok /\ h.names = names
             /\ Len(h.code) = Len(g.code) + Len(tacs)
             /\ \A i \in 1 .. Len(tacs) : h.code[Len(g.code) + i] = tacs[i]
<1> DEFINE f == [g EXCEPT !.names = names]
           h == PushAll(f, tacs)
<1>1. g \in Gens /\ g.code \in Seq(Tacs)
  BY DEF IsGen, Gens
<1>2. f \in Gens /\ f.code = g.code /\ f.names = names /\ f.ok = g.ok
  BY <1>1 DEF Gens
<1>3. /\ g.code \o tacs \in Seq(Tacs) /\ Len(g.code \o tacs) = Len(g.code) + Len(tacs)
      /\ \A i \in 1 .. Len(g.code) : (g.code \o tacs)[i] = g.code[i]
      /\ \A i \in 1 .. Len(tacs) : (g.code \o tacs)[Len(g.code) + i] = tacs[i]
  BY <1>1, ConcatIs
<1> HIDE DEF f
<1> DEFINE code == g.code \o tacs
<1>4. h = [f EXCEPT !.code = code]
  BY <1>2 DEF PushAll
<1> HIDE DEF code
<1>5. h \in Gens /\ h.code = code /\ h.names = names /\ h.ok = g.ok
  BY <1>2, <1>3, <1>4 DEF Gens, code
<1> HIDE DEF h
<1>6. IsGen(h) /\ Extends(g, h)
  BY <1>3, <1>5 DEF IsGen, Extends, code
<1> QED
  BY <1>3, <1>5, <1>6 DEF f, h, code

LEMMA PushAllMoves ==
  ASSUME NEW g, IsGen(g), NEW tacs \in Seq(Tacs),
         \A i \in 1 .. Len(tacs) : tacs[i].op # "FUNCTION"
  PROVE  LET h == PushAll(g, tacs)
         IN  /\ Moved(g, h) /\ Extends(g, h) /\ h.ok = g.ok /\ h.names = g.names
             /\ Len(h.code) = Len(g.code) + Len(tacs)
             /\ \A i \in 1 .. Len(tacs) : h.code[Len(g.code) + i] = tacs[i]
<1> DEFINE h == PushAll(g, tacs)
<1>0. Len(g.code) \in Nat /\ Len(tacs) \in Nat
  BY GenFields
<1>1. g = [g EXCEPT !.names = g.names] /\ g.names \in [Names -> Nat]
  BY DEF IsGen, Gens
<1>2. \A x \in Names : g.names[x] <= Len(g.code) + Len(tacs)
  <2> TAKE x \in Names
  <2>1. g.names[x] \in Nat /\ g.names[x] <= Len(g.code)
    BY GenFields DEF IsGen
  <2> QED
    BY <1>0, <2>1
<1>3. /\ IsGen(h) /\ Extends(g, h) /\ h.ok = g.ok /\ h.names = g.names
      /\ Len(h.code) = Len(g.code) + Len(tacs)
      /\ \A i \in 1 .. Len(tacs) : h.code[Len(g.code) + i] = tacs[i]
  BY <1>1, <1>2, PushAllIs
<1> HIDE DEF h
<1>4. \A i \in Len(g.code) + 1 .. Len(h.code) : h.code[i].op # "FUNCTION"
  <2> TAKE i \in Len(g.code) + 1 .. Len(h.code)
  <2>1. i - Len(g.code) \in 1 .. Len(tacs) /\ Len(g.code) + (i - Len(g.code)) = i
    BY <1>0, <1>3
  <2> QED
    BY <1>3, <2>1
<1>5. \A i \in 1 .. Len(g.code) : Same(g.code[i], h.code[i])
  BY <1>3 DEF Extends, Same
<1>6. Moved(g, h)
  BY <1>0, <1>3, <1>4, <1>5 DEF Moved
<1> QED
  BY <1>3, <1>6 DEF h

LEMMA CallFine ==
  ASSUME NEW g, IsGen(g), NEW addrs \in Seq(Nat), NEW f \in Names
  PROVE  Fine(g, Call(f, addrs, g)) /\ Call(f, addrs, g).g.ok = g.ok
<1> DEFINE tacs == [i \in DOMAIN addrs |-> ArgCode(addrs[i])]
           all  == PushAll(g, tacs)
           tac  == CallCode(Size(all), f)
           r    == Emit(all, tac)
<1>1. tacs \in Seq(Tacs) /\ \A i \in 1 .. Len(tacs) : tacs[i].op # "FUNCTION"
  <2>1. DOMAIN addrs = 1 .. Len(addrs) /\ Len(addrs) \in Nat
    OBVIOUS
  <2>2. \A i \in 1 .. Len(addrs) : ArgCode(addrs[i]) \in Tacs /\ ArgCode(addrs[i]).op = "ARG"
    BY DEF Tacs, ArgCode
  <2>3. tacs = [i \in 1 .. Len(addrs) |-> ArgCode(addrs[i])]
    BY <2>1
  <2>4. tacs \in Seq(Tacs) /\ Len(tacs) = Len(addrs)
    BY <2>1, <2>2, <2>3, IsASeq
  <2> QED
    BY <2>2, <2>3, <2>4
<1> HIDE DEF tacs
<1>2. Moved(g, all) /\ Extends(g, all) /\ all.ok = g.ok
  BY <1>1, PushAllMoves
<1> HIDE DEF all
<1>3. IsGen(all) /\ Size(all) \in Nat
  BY <1>2, GenFields DEF Moved
<1>4. tac \in Tacs /\ tac.op # "FUNCTION"
  BY <1>3 DEF Tacs, CallCode
<1> HIDE DEF tac
<1>5. Fine(all, r) /\ r.g.ok = all.ok
  BY <1>3, <1>4, EmitFine, EmitIs DEF Longer
<1> HIDE DEF r
<1>6. Fine(g, r) /\ r.g.ok = g.ok
  BY <1>2, <1>5, FineTransitive
<1>7. Call(f, addrs, g) = r
  BY DEF Call, r, tac, all, tacs
<1> QED
  BY <1>6, <1>7

-----------------------------------------------------------------------------
(* Expressions as sequences of visits. *)
LEMMA VisitIs ==
  ASSUME NEW e, IsVisits(e), NEW k \in 1 .. Len(e)
  PROVE  /\ Len(e) \in Nat /\ DOMAIN e = 1 .. Len(e) /\ IsVisit(e, k)
         /\ Len(e[k].parts) \in Nat /\ DOMAIN e[k].parts = 1 .. Len(e[k].parts)
         /\ \A i \in DOMAIN e[k].parts : e[k].parts[i] \in 1 .. k - 1
         /\ e[k].op \in Ops /\ e[k].single \in BOOLEAN /\ e[k].number \in Nat
<1>1. e \in Seq(Range(e)) /\ \A j \in DOMAIN e : IsVisit(e, j)
  BY DEF IsVisits
<1>2. Len(e) \in Nat /\ DOMAIN e = 1 .. Len(e)
  BY <1>1
<1>3. IsVisit(e, k)
  BY <1>1, <1>2
<1>4. e[k].parts \in Seq(1 .. k - 1)
  BY <1>3 DEF IsVisit
<1>5. e[k].op \in Ops /\ e[k].single \in BOOLEAN /\ e[k].number \in Nat
  BY <1>3 DEF IsVisit
<1> QED
  BY <1>2, <1>3, <1>4, <1>5

LEMMA ArityIs ==
  ASSUME NEW e, IsVisits(e), NEW k \in 1 .. Len(e)
  PROVE  /\ e[k].op \in {"read", "int", "id"} => Len(e[k].parts) = 0
         /\ e[k].op \in {"paren", "neg", "access", "first", "later", "elements", "members"} =>
              Len(e[k].parts) = 1
         /\ e[k].op \in Tokens \union {"assign", "mixed", "member"} => Len(e[k].parts) = 2
         /\ e[k].op = "index" => Len(e[k].parts) = 3
<1>1. Len(e[k].parts) \in Arity(e[k])
  BY VisitIs DEF IsVisit
<1>2. e[k].op \in {"read", "int", "id"} => Arity(e[k]) = {0}
  BY DEF Arity, Tokens
<1>3. e[k].op \in {"paren", "neg", "access", "first", "later", "elements", "members"} =>
        Arity(e[k]) = {1}
  BY DEF Arity, Tokens
<1>4. e[k].op \in Tokens \union {"assign", "mixed", "member"} => Arity(e[k]) = {2}
  BY DEF Arity, Tokens
<1>5. e[k].op = "index" => Arity(e[k]) = {3}
  BY DEF Arity, Tokens
<1> QED
  BY <1>1, <1>2, <1>3, <1>4, <1>5

(* Where an access starts. *)
Base(e, k) == Last(e[k].parts)

LEMMA PartsAre ==
  ASSUME NEW e, IsVisits(e), NEW k \in 1 .. Len(e)
  PROVE  LET v == e[k]
         IN  /\ v.op \in {"paren", "neg", "access", "first", "later"} \union Steps \union Tokens
                           \union {"assign"} =>
                  1 \in DOMAIN v.parts /\ v.parts[1] \in 1 .. k - 1
             /\ v.op \in {"assign", "index"} \union Tokens =>
                  2 \in DOMAIN v.parts /\ v.parts[2] \in 1 .. k - 1
             /\ v.op \in {"index", "mixed", "member"} =>
                  Len(v.parts) \in DOMAIN v.parts /\ Base(e, k) = v.parts[Len(v.parts)]
             /\ v.op = "index" => Len(v.parts) = 3
             /\ v.op \in {"mixed", "member"} => Len(v.parts) = 2
             /\ v.op \in {"elements", "members"} => Base(e, k) = v.parts[1]
<1> DEFINE v == e[k]
<1>1. /\ Len(v.parts) \in Nat /\ DOMAIN v.parts = 1 .. Len(v.parts)
      /\ \A i \in DOMAIN v.parts : v.parts[i] \in 1 .. k - 1
  BY VisitIs
<1>2. /\ v.op \in {"paren", "neg", "access", "first", "later", "elements", "members"} =>
           Len(v.parts) = 1
      /\ v.op \in Tokens \union {"assign", "mixed", "member"} => Len(v.parts) = 2
      /\ v.op = "index" => Len(v.parts) = 3
  BY ArityIs
<1> DEFINE n == Len(v.parts)
<1>3. /\ v.op \in {"paren", "neg", "access", "first", "later", "elements", "members"} => n = 1
      /\ v.op \in Tokens \union {"assign", "mixed", "member"} => n = 2
      /\ v.op = "index" => n = 3
      /\ n \in Nat
  BY <1>1, <1>2
<1> HIDE DEF n
<1>4. v.op \in {"paren", "neg", "access", "first", "later"} \union Steps \union Tokens
                 \union {"assign"} => 1 \in 1 .. n
  BY <1>3 DEF Steps, Tokens
<1>5. v.op \in {"assign", "index"} \union Tokens => 2 \in 1 .. n
  BY <1>3 DEF Tokens
<1>6. v.op \in {"index", "mixed", "member"} => n \in 1 .. n
  BY <1>3
<1> QED
  BY <1>1, <1>3, <1>4, <1>5, <1>6 DEF n, Base, Last

(* An access starts at a variable. *)
LEMMA BaseIs ==
  ASSUME NEW e, IsVisits(e)
  PROVE  \A k \in 1 .. Len(e) : e[k].op \in Steps =>
           Base(e, k) \in 1 .. k - 1 /\ e[Base(e, k)].op = "id" /\ ~ e[Base(e, k)].single
<1> DEFINE P(k) == e[k].op \in Steps =>
             Base(e, k) \in 1 .. k - 1 /\ e[Base(e, k)].op = "id" /\ ~ e[Base(e, k)].single
           K == {n \in Nat : \A k \in 1 .. Len(e) : k <= n => P(k)}
<1>0. Len(e) \in Nat
  BY DEF IsVisits
<1>1. 0 \in K
  OBVIOUS
<1>2. ASSUME NEW n \in Nat, n \in K, n + 1 \in 1 .. Len(e), e[n + 1].op \in Steps
      PROVE  P(n + 1)
  <2> DEFINE k == n + 1
             v == e[k]
  <2>1. /\ IsVisit(e, k) /\ Len(v.parts) \in Nat /\ DOMAIN v.parts = 1 .. Len(v.parts)
        /\ \A i \in DOMAIN v.parts : v.parts[i] \in 1 .. k - 1
    BY <1>2, VisitIs
  <2>2. CASE v.op \in {"elements", "members"}
    <3>1. Len(v.parts) = 1
      BY <1>2, <2>2, ArityIs
    <3>2. Base(e, k) = v.parts[1] /\ 1 \in DOMAIN v.parts
      BY <2>1, <3>1 DEF Base, Last
    <3>3. e[v.parts[1]].op \in InFront(v) /\ InFront(v) = {"id"}
      BY <2>1, <2>2 DEF IsVisit, InFront, Steps
    <3>4. ~ e[v.parts[1]].single
      <4>1. e[v.parts[1]].single => v.op = "assign"
        BY <2>1, <3>2 DEF IsVisit
      <4>2. e[v.parts[1]].single \in BOOLEAN
        <5>1. v.parts[1] \in 1 .. Len(e)
          BY <1>0, <1>2, <2>1, <3>2
        <5> QED
          BY <5>1, VisitIs
      <4> QED
        BY <2>2, <4>1, <4>2
    <3> QED
      BY <2>1, <3>2, <3>3, <3>4
  <2>3. CASE v.op \in {"index", "mixed", "member"}
    <3>1. v.parts[1] \in 1 .. k - 1
      BY <1>2, <2>3, PartsAre
    <3>2. v.parts[1] \in 1 .. n
      BY <3>1
    <3>3. e[v.parts[1]].op \in InFront(v) /\ InFront(v) \subseteq Steps
      BY <2>1, <2>3 DEF IsVisit, InFront, Steps
    <3>4. Base(e, k) = Base(e, v.parts[1])
      BY <2>1, <2>3 DEF IsVisit, Base
    <3>5. P(v.parts[1])
      BY <1>0, <1>2, <3>2
    <3> QED
      BY <1>2, <3>2, <3>3, <3>4, <3>5
  <2> QED
    BY <1>2, <2>2, <2>3 DEF Steps
<1>3. ASSUME NEW n \in Nat, n \in K
      PROVE  n + 1 \in K
  <2> SUFFICES ASSUME NEW k \in 1 .. Len(e), k <= n + 1
               PROVE  P(k)
    BY <1>3
  <2>1. CASE k = n + 1
    BY <1>2, <1>3, <2>1
  <2>2. CASE k # n + 1
    <3>1. k <= n
      BY <1>0, <1>3, <2>2
    <3> QED
      BY <1>3, <3>1
  <2> QED
    BY <2>1, <2>2
<1> HIDE DEF K
<1>4. \A n \in Nat : n \in K
  BY <1>1, <1>3, Walk!NatSet
<1> QED
  <2> TAKE k \in 1 .. Len(e)
  <2>1. k \in K /\ k <= k
    BY <1>0, <1>4
  <2> QED
    BY <2>1 DEF K

(* What stands in front of an assignment. *)
LEMMA SingleIs ==
  ASSUME NEW e, IsVisits(e), NEW k \in 1 .. Len(e), e[k].single
  PROVE  e[k].op \in {"id", "access"}
<1>1. k < Len(e) /\ e[k + 1].op = "assign"
  BY VisitIs DEF IsVisit
<1>2. k + 1 \in 1 .. Len(e) /\ k + 1 - 1 = k
  BY <1>1, VisitIs
<1>3. IsVisit(e, k + 1)
  BY <1>2, VisitIs
<1>4. e[k + 1].parts[2] = k /\ IsTarget(e[e[k + 1].parts[2]])
  BY <1>1, <1>2, <1>3 DEF IsVisit
<1> QED
  BY <1>4 DEF IsTarget

NoParens(e, k) == \A i \in 1 .. k : e[i].op = "assign" => e[e[i].parts[2]].op # "paren"

(* The state t of a translation that began in f, after k visits of e. *)
Reached(e, k, f, t) ==
  /\ Moved(f, t.g) /\ t.at \in Seq(Nat) /\ Len(t.at) = k
  /\ \A i \in 1 .. k : t.at[i] <= Len(t.g.code)
  /\ NoParens(e, k) => Extends(f, t.g)
  /\ t.g.ok => \A i \in 1 .. k :
       /\ e[i].op \in Steps => HasLayout(t.at[Base(e, i)], t.g)
       /\ e[i].single =>
            /\ Len(f.code) < t.at[i] /\ OpOf(t.g, t.at[i]) \in Patched
            /\ \A j \in 1 .. i - 1 : t.at[j] < t.at[i]

(* What the k-th visit does to the generator g. *)
Does(e, k, at, g, r) ==
  /\ Moved(g, r.g) /\ r.addr \in Nat /\ r.addr <= Len(r.g.code)
  /\ e[k].op # "assign" => Extends(g, r.g)
  /\ e[k].op = "assign" =>
       \A i \in 1 .. Len(g.code) : i # at[e[k].parts[2]] => r.g.code[i] = g.code[i]
  /\ r.g.ok /\ e[k].op \in Steps => HasLayout(at[Base(e, k)], g)
  /\ e[k].single => r.addr = Len(g.code) + 1 /\ OpOf(r.g, r.addr) \in Patched

LEMMA TakenIs ==
  ASSUME NEW e, IsVisits(e), NEW k \in 1 .. Len(e), NEW at \in Seq(Nat), Len(at) = k - 1
  PROVE  LET p == Taken(e[k], at)
         IN  /\ p \in Seq(Nat) /\ Len(p) = Len(e[k].parts) /\ DOMAIN p = DOMAIN e[k].parts
             /\ \A i \in DOMAIN e[k].parts : p[i] = at[e[k].parts[i]] /\ p[i] \in Nat
<1> DEFINE n == Len(e[k].parts)
           b(i) == at[e[k].parts[i]]
<1>1. /\ n \in Nat /\ DOMAIN e[k].parts = 1 .. n
      /\ \A i \in 1 .. n : e[k].parts[i] \in 1 .. k - 1
  BY VisitIs
<1>2. \A i \in 1 .. n : b(i) \in Nat
  <2> TAKE i \in 1 .. n
  <2>1. e[k].parts[i] \in 1 .. Len(at)
    BY <1>1
  <2> QED
    BY <2>1
<1>3. Taken(e[k], at) = [i \in 1 .. n |-> b(i)]
  BY <1>1 DEF Taken
<1> HIDE DEF n, b
<1>4. [i \in 1 .. n |-> b(i)] \in Seq(Nat) /\ Len([i \in 1 .. n |-> b(i)]) = n
  BY <1>1, <1>2, IsASeq
<1> QED
  BY <1>1, <1>2, <1>3, <1>4 DEF n, b

LEMMA VisitedDoes ==
  ASSUME NEW e, IsVisits(e), NEW k \in 1 .. Len(e), NEW f, NEW t, Reached(e, k - 1, f, t), t.g.ok
  PROVE  Does(e, k, t.at, t.g, Visited(e[k], Taken(e[k], t.at), t.g))
<1> DEFINE v == e[k]
           g == t.g
           at == t.at
           p == Taken(v, at)
           r == Visited(v, p, g)
<1> SUFFICES Does(e, k, at, g, r)
  OBVIOUS
<1>0. /\ v.op \in Ops /\ v.single \in BOOLEAN /\ v.number \in Nat /\ Len(e) \in Nat
      /\ IsVisit(e, k)
  BY VisitIs
<1>1. IsGen(g) /\ at \in Seq(Nat) /\ Len(at) = k - 1
  BY DEF Reached, Moved
<1>2. /\ p \in Seq(Nat) /\ DOMAIN p = DOMAIN v.parts
      /\ \A i \in DOMAIN v.parts : p[i] = at[v.parts[i]] /\ p[i] \in Nat
  BY <1>1, TakenIs
<1>3. \A i \in DOMAIN v.parts : v.parts[i] \in 1 .. k - 1 /\ p[i] <= Len(g.code)
  BY <1>2, VisitIs DEF Reached
<1>4. v.single => v.op \in {"id", "access"}
  BY SingleIs
<1>5. Size(g) \in Nat /\ Len(g.code) \in Nat
  BY <1>1, GenFields
<1>6. ASSUME Fine(g, r), ~ v.single, v.op # "assign",
             r.g.ok /\ v.op \in Steps => HasLayout(at[Base(e, k)], g)
      PROVE  Does(e, k, at, g, r)
  BY <1>6 DEF Does, Fine
<1>7. CASE v.op = "read"
  <2> DEFINE tac == ReadCode(Size(g))
  <2>1. r = Emit(g, tac)
    BY <1>7 DEF Visited, Tokens
  <2>2. tac \in Tacs /\ tac.op # "FUNCTION"
    BY <1>5 DEF Tacs, ReadCode
  <2> HIDE DEF tac
  <2>3. Fine(g, r)
    BY <1>1, <2>1, <2>2, EmitFine
  <2> HIDE DEF r
  <2> QED
    BY <1>4, <1>6, <1>7, <2>3 DEF Steps
<1>8. CASE v.op = "int"
  <2> DEFINE tac == AssignCode(Size(g), -v.number)
  <2>1. r = Emit(g, tac)
    BY <1>8 DEF Visited, Tokens
  <2>2. tac \in Tacs /\ tac.op # "FUNCTION"
    BY <1>0, <1>5 DEF Tacs, AssignCode
  <2> HIDE DEF tac
  <2>3. Fine(g, r)
    BY <1>1, <2>1, <2>2, EmitFine
  <2> HIDE DEF r
  <2> QED
    BY <1>4, <1>6, <1>8, <2>3 DEF Steps
<1>9. CASE v.op = "id"
  <2>1. r = Identifier(v.name, v.single, g)
    BY <1>9 DEF Visited, Tokens
  <2>2. v.name \in Names
    BY <1>0, <1>9 DEF IsVisit
  <2>3. /\ Fine(g, r)
        /\ v.single => r.addr = Len(g.code) + 1 /\ OpOf(r.g, r.addr) = "ASSIGN"
    BY <1>0, <1>1, <2>1, <2>2, IdentifierFine
  <2> HIDE DEF r
  <2> QED
    BY <1>9, <2>3 DEF Does, Fine, Steps, Patched
<1>10. CASE v.op = "paren"
  <2>1. r = Return(g, p[1])
    BY <1>10 DEF Visited, Tokens
  <2>2. p[1] \in Nat /\ p[1] <= Len(g.code)
    BY <1>2, <1>3, <1>10, PartsAre
  <2> HIDE DEF r, p
  <2>3. Fine(g, r)
    BY <1>1, <2>1, <2>2, ReturnFine
  <2> QED
    BY <1>4, <1>6, <1>10, <2>3 DEF Steps
<1>11. CASE v.op = "neg"
  <2> DEFINE tac == ArithCode(Size(g), 0, p[1], "-")
  <2>1. r = Emit(g, tac)
    BY <1>11 DEF Visited, Tokens
  <2>2. p[1] \in Nat
    BY <1>2, <1>11, PartsAre
  <2>3. tac \in Tacs /\ tac.op # "FUNCTION"
    BY <1>5, <2>2 DEF Tacs, ArithCode, Tokens
  <2> HIDE DEF tac
  <2>4. Fine(g, r)
    BY <1>1, <2>1, <2>3, EmitFine
  <2> HIDE DEF r
  <2> QED
    BY <1>4, <1>6, <1>11, <2>4 DEF Steps
<1>12. CASE v.op \in Tokens
  <2> DEFINE tac == ArithCode(Size(g), p[1], p[2], v.op)
  <2>1. r = Emit(g, tac)
    BY <1>12 DEF Visited, Tokens
  <2>2. p[1] \in Nat /\ p[2] \in Nat
    BY <1>2, <1>12, PartsAre
  <2>3. tac \in Tacs /\ tac.op # "FUNCTION"
    BY <1>5, <1>12, <2>2 DEF Tacs, ArithCode
  <2> HIDE DEF tac
  <2>4. Fine(g, r)
    BY <1>1, <2>1, <2>3, EmitFine
  <2> HIDE DEF r
  <2> QED
    BY <1>4, <1>6, <1>12, <2>4 DEF Steps, Tokens
<1>13. CASE v.op = "assign"
  <2>1. r = Assignment(p[1], p[2], g)
    BY <1>13 DEF Visited, Tokens
  <2>2. p[1] \in Nat /\ p[1] <= Len(g.code) /\ p[2] = at[v.parts[2]]
    BY <1>2, <1>3, <1>13, PartsAre
  <2> HIDE DEF r, p
  <2> DEFINE a == p[1]
             l == p[2]
             w == Assignment(a, l, g)
  <2>4. a \in Nat /\ a <= Len(g.code)
    BY <2>2
  <2> HIDE DEF a, l
  <2>5. /\ Moved(g, w.g) /\ w.addr \in Nat /\ w.addr <= Len(w.g.code)
        /\ \A i \in 1 .. Len(g.code) : i # l => w.g.code[i] = g.code[i]
    BY <1>1, <2>4, AssignmentMoves
  <2> HIDE DEF w
  <2>3. /\ Moved(g, r.g) /\ r.addr \in Nat /\ r.addr <= Len(r.g.code)
        /\ \A i \in 1 .. Len(g.code) : i # p[2] => r.g.code[i] = g.code[i]
    BY <2>1, <2>5 DEF a, l, w
  <2> QED
    BY <1>4, <1>13, <2>2, <2>3 DEF Does, Steps
<1>14. CASE v.op \in {"elements", "members"}
  <2>1. r = Elements(p[1], g) \/ r = Members(p[1], g)
    BY <1>14 DEF Visited, Tokens
  <2>2. p[1] \in Nat /\ p[1] <= Len(g.code) /\ p[1] = at[Base(e, k)]
    BY <1>2, <1>3, <1>14, PartsAre DEF Steps
  <2>3. Fine(g, r) /\ (r.g.ok => HasLayout(p[1], g))
    BY <1>1, <2>1, <2>2, ElementsFine
  <2> HIDE DEF r, p
  <2> QED
    BY <1>4, <1>6, <1>14, <2>2, <2>3
<1>15. CASE v.op \in {"index", "mixed", "member"}
  <2>1. Base(e, k) = v.parts[Len(v.parts)] /\ Len(v.parts) \in DOMAIN v.parts
    BY <1>15, PartsAre
  <2>2. HasLayout(at[Base(e, k)], g)
    <3>1. v.parts[1] \in 1 .. k - 1
      BY <1>15, PartsAre DEF Steps
    <3>2. e[v.parts[1]].op \in InFront(v) /\ InFront(v) \subseteq Steps
      BY <1>0, <1>15 DEF IsVisit, InFront, Steps
    <3>3. Base(e, k) = Base(e, v.parts[1])
      BY <1>0, <1>15 DEF IsVisit, Base
    <3> QED
      BY <3>1, <3>2, <3>3 DEF Reached
  <2>3. Fine(g, r)
    <3>1. CASE v.op = "index"
      <4>1. r = Subscript(p[1], p[2], p[3], v.number, g)
        BY <3>1 DEF Visited, Tokens
      <4>2. p[1] \in Nat /\ p[2] \in Nat /\ p[3] = at[Base(e, k)]
        BY <1>2, <2>1, <3>1, PartsAre DEF Steps
      <4> HIDE DEF p, r
      <4> QED
        BY <1>0, <1>1, <2>2, <4>1, <4>2, SubscriptFine
    <3>2. CASE v.op = "mixed"
      <4>1. r = Crash(g)
        BY <3>2 DEF Visited, Tokens
      <4> HIDE DEF r
      <4> QED
        BY <1>1, <4>1, CrashFine
    <3>3. CASE v.op = "member"
      <4>1. r = Member(p[1], p[2], v.name, g)
        BY <3>3 DEF Visited, Tokens
      <4>2. p[1] \in Nat /\ p[2] = at[Base(e, k)]
        BY <1>2, <2>1, <3>3, PartsAre DEF Steps
      <4> HIDE DEF p, r
      <4> QED
        BY <1>1, <2>2, <4>1, <4>2, MemberFine
    <3> QED
      BY <1>15, <3>1, <3>2, <3>3
  <2> HIDE DEF r
  <2> QED
    BY <1>4, <1>6, <1>15, <2>2, <2>3
<1>16. CASE v.op = "access"
  <2>1. r = Access(p[1], v.single, g)
    BY <1>16 DEF Visited, Tokens
  <2>2. p[1] \in Nat
    BY <1>2, <1>16, PartsAre
  <2>3. /\ Fine(g, r)
        /\ v.single => r.addr = Len(g.code) + 1 /\ OpOf(r.g, r.addr) = "STORE"
    BY <1>0, <1>1, <2>1, <2>2, AccessFine
  <2> HIDE DEF r
  <2> QED
    BY <1>16, <2>3 DEF Does, Fine, Steps, Patched
<1>17. CASE v.op \in {"first", "later"}
  <2>1. r = IF v.op = "first" THEN AddressOf(p[1], g) ELSE Later(p[1], g)
    BY <1>17 DEF Visited, Tokens
  <2>2. p[1] \in Nat /\ p[1] <= Len(g.code)
    BY <1>2, <1>3, <1>17, PartsAre
  <2>3. Fine(g, r)
    BY <1>1, <2>1, <2>2, AddressFine, LaterFine
  <2> HIDE DEF r
  <2> QED
    BY <1>4, <1>6, <1>17, <2>3 DEF Steps
<1>18. CASE v.op = "args"
  <2>1. r = Return(g, 0)
    BY <1>18 DEF Visited, Tokens
  <2>2. Fine(g, r)
    BY <1>1, <1>5, <2>1, ReturnFine
  <2> HIDE DEF r
  <2> QED
    BY <1>4, <1>6, <1>18, <2>2 DEF Steps
<1>19. CASE v.op = "call"
  <2>1. r = Call(v.name, p, g)
    BY <1>19 DEF Visited, Tokens
  <2>2. v.name \in Names
    BY <1>0, <1>19 DEF IsVisit
  <2>3. Fine(g, r)
    BY <1>1, <1>2, <2>1, <2>2, CallFine
  <2> HIDE DEF r
  <2> QED
    BY <1>4, <1>6, <1>19, <2>3 DEF Steps
<1> HIDE DEF r
<1> QED
  BY <1>0, <1>7, <1>8, <1>9, <1>10, <1>11, <1>12, <1>13, <1>14, <1>15, <1>16, <1>17, <1>18, <1>19
     DEF Ops, Tokens

LEMMA LayoutMoves ==
  ASSUME NEW g, NEW h, IsGen(g), Moved(g, h), NEW a, HasLayout(a, g)
  PROVE  HasLayout(a, h) /\ OpOf(h, a) = OpOf(g, a)
  BY OpOfMoves DEF HasLayout

LEMMA DoesExtend ==
  ASSUME NEW e, IsVisits(e), NEW k \in 1 .. Len(e), NEW f, NEW t, IsGen(f),
         Reached(e, k - 1, f, t), t.g.ok, NEW r, Does(e, k, t.at, t.g, r), NoParens(e, k)
  PROVE  Extends(f, r.g)
<1>0. Len(e) \in Nat /\ IsVisit(e, k)
  BY VisitIs
<1>1. Moved(f, t.g) /\ Extends(f, t.g)
  <2>1. NoParens(e, k - 1)
    BY <1>0 DEF NoParens
  <2> QED
    BY <2>1 DEF Reached
<1>2. CASE e[k].op # "assign"
  BY <1>1, <1>2, ExtendsTransitive DEF Does
<1>3. CASE e[k].op = "assign"
  <2> DEFINE j == e[k].parts[2]
  <2>1. j \in 1 .. k - 1 /\ IsTarget(e[j]) /\ e[j].op # "paren"
    <3>1. j \in 1 .. k - 1
      BY <1>3, PartsAre
    <3>2. IsTarget(e[j])
      BY <1>0, <1>3 DEF IsVisit
    <3>3. e[j].op # "paren"
      BY <1>3 DEF NoParens
    <3> QED
      BY <3>1, <3>2, <3>3
  <2>2. e[j].single
    BY <2>1 DEF IsTarget
  <2>3. Len(f.code) < t.at[j]
    BY <2>1, <2>2 DEF Reached
  <2>4. \A i \in 1 .. Len(t.g.code) : i # t.at[j] => r.g.code[i] = t.g.code[i]
    BY <1>3 DEF Does
  <2>5. t.at[j] \in Nat
    BY <2>1 DEF Reached
  <2> HIDE DEF j
  <2>6. Len(f.code) <= Len(t.g.code) /\ Len(f.code) \in Nat /\ Len(t.g.code) \in Nat
    <3>1. IsGen(t.g)
      BY <1>1 DEF Moved
    <3> QED
      BY <1>1, <3>1, GenFields DEF Moved
  <2>7. ASSUME NEW i \in 1 .. Len(f.code)
        PROVE  r.g.code[i] = f.code[i]
    <3>1. i \in 1 .. Len(t.g.code) /\ i # t.at[j]
      BY <2>3, <2>5, <2>6
    <3> QED
      BY <1>1, <2>4, <3>1 DEF Extends
  <2> QED
    BY <2>7 DEF Extends
<1> QED
  BY <1>2, <1>3

LEMMA VisitReaches ==
  ASSUME NEW e, IsVisits(e), NEW k \in 1 .. Len(e), NEW f, NEW t, IsGen(f),
         Reached(e, k - 1, f, t)
  PROVE  Reached(e, k, f, Visit(t, e[k]))
<1> DEFINE r == IF t.g.ok THEN Visited(e[k], Taken(e[k], t.at), t.g) ELSE Crash(t.g)
           u == Visit(t, e[k])
<1>1. u.g = r.g /\ u.at = Append(t.at, r.addr)
  BY DEF Visit
<1>2. IsGen(t.g) /\ Moved(f, t.g) /\ t.at \in Seq(Nat) /\ Len(t.at) = k - 1
  BY DEF Reached, Moved
<1>3. t.g.ok => Does(e, k, t.at, t.g, r)
  BY VisitedDoes
<1>4. ~ t.g.ok => Moved(t.g, r.g) /\ Extends(t.g, r.g) /\ r.addr = 0 /\ r.g.ok = FALSE
  BY <1>2, CrashIs
<1> HIDE DEF r, u
<1>5. Len(t.g.code) \in Nat /\ t.g.ok \in BOOLEAN /\ Len(f.code) \in Nat /\ Len(e) \in Nat
  BY <1>2, GenFields, VisitIs
<1>6. Moved(t.g, r.g) /\ r.addr \in Nat /\ Moved(f, r.g) /\ IsGen(r.g)
  <2>1. Moved(t.g, r.g) /\ r.addr \in Nat
    BY <1>3, <1>4 DEF Does
  <2>2. Moved(f, r.g)
    BY <1>2, <2>1, MovedTransitive
  <2>3. IsGen(r.g)
    BY <2>1 DEF Moved
  <2> QED
    BY <2>1, <2>2, <2>3
<1>7. Len(r.g.code) \in Nat /\ Len(t.g.code) <= Len(r.g.code) /\ r.addr <= Len(r.g.code)
  <2>1. Len(r.g.code) \in Nat
    BY <1>6, GenFields
  <2>2. r.addr <= Len(r.g.code)
    BY <1>3, <1>4, <2>1 DEF Does
  <2> QED
    BY <1>6, <2>1, <2>2 DEF Moved
<1>8. /\ u.at \in Seq(Nat) /\ Len(u.at) = k /\ u.at[k] = r.addr
      /\ \A i \in 1 .. k - 1 : u.at[i] = t.at[i] /\ t.at[i] \in Nat
  <2>1. /\ Append(t.at, r.addr) \in Seq(Nat) /\ Len(Append(t.at, r.addr)) = Len(t.at) + 1
        /\ Append(t.at, r.addr)[Len(t.at) + 1] = r.addr
        /\ \A i \in 1 .. Len(t.at) : Append(t.at, r.addr)[i] = t.at[i]
    BY <1>2, <1>6, AppendIs
  <2>2. k - 1 + 1 = k
    BY <1>5
  <2>3. \A i \in 1 .. k - 1 : t.at[i] \in Nat
    BY <1>2
  <2> QED
    BY <1>1, <1>2, <2>1, <2>2, <2>3
<1>9. \A i \in 1 .. k : u.at[i] <= Len(r.g.code)
  <2> TAKE i \in 1 .. k
  <2>1. CASE i = k
    BY <1>7, <1>8, <2>1
  <2>2. CASE i # k
    <3>1. i \in 1 .. k - 1
      BY <1>5, <2>2
    <3>2. t.at[i] <= Len(t.g.code)
      BY <3>1 DEF Reached
    <3>3. u.at[i] = t.at[i] /\ t.at[i] \in Nat
      BY <1>8, <3>1
    <3> QED
      BY <1>5, <1>7, <3>2, <3>3
  <2> QED
    BY <2>1, <2>2
<1>10. ASSUME NoParens(e, k)
       PROVE  Extends(f, r.g)
  <2>1. CASE t.g.ok
    BY <1>3, <1>10, <2>1, DoesExtend
  <2>2. CASE ~ t.g.ok
    <3>1. NoParens(e, k - 1)
      BY <1>5, <1>10 DEF NoParens
    <3>2. Extends(f, t.g)
      BY <3>1 DEF Reached
    <3> QED
      BY <1>2, <1>4, <2>2, <3>2, ExtendsTransitive
  <2> QED
    BY <1>5, <2>1, <2>2
<1>11. ASSUME r.g.ok, NEW i \in 1 .. k
       PROVE  /\ e[i].op \in Steps => HasLayout(u.at[Base(e, i)], r.g)
              /\ e[i].single =>
                   /\ Len(f.code) < u.at[i] /\ OpOf(r.g, u.at[i]) \in Patched
                   /\ \A j \in 1 .. i - 1 : u.at[j] < u.at[i]
  <2>1. t.g.ok
    BY <1>6, <1>11 DEF Moved
  <2>2. Does(e, k, t.at, t.g, r)
    BY <1>3, <2>1
  <2>3. i \in 1 .. Len(e) /\ (e[i].op \in Steps => Base(e, i) \in 1 .. i - 1)
    BY <1>5, BaseIs
  <2>4. ASSUME e[i].op \in Steps
        PROVE  HasLayout(u.at[Base(e, i)], r.g)
    <3>1. Base(e, i) \in 1 .. k - 1
      BY <1>5, <2>3, <2>4
    <3>2. HasLayout(t.at[Base(e, i)], t.g)
      <4>1. CASE i = k
        BY <1>11, <2>2, <2>4, <4>1 DEF Does
      <4>2. CASE i # k
        <5>1. i \in 1 .. k - 1
          BY <1>5, <4>2
        <5> QED
          BY <2>1, <2>4, <5>1 DEF Reached
      <4> QED
        BY <4>1, <4>2
    <3>3. HasLayout(t.at[Base(e, i)], r.g)
      BY <1>2, <1>6, <3>2, LayoutMoves
    <3> QED
      BY <1>8, <3>1, <3>3
  <2>5. ASSUME e[i].single
        PROVE  /\ Len(f.code) < u.at[i] /\ OpOf(r.g, u.at[i]) \in Patched
               /\ \A j \in 1 .. i - 1 : u.at[j] < u.at[i]
    <3>1. CASE i = k
      <4>1. u.at[i] = Len(t.g.code) + 1 /\ OpOf(r.g, u.at[i]) \in Patched
        BY <1>8, <2>2, <2>5, <3>1 DEF Does
      <4>2. Len(f.code) <= Len(t.g.code)
        BY <1>2 DEF Moved
      <4>3. \A j \in 1 .. i - 1 : t.at[j] <= Len(t.g.code) /\ u.at[j] = t.at[j] /\ t.at[j] \in Nat
        BY <1>8, <3>1 DEF Reached
      <4> QED
        BY <1>5, <4>1, <4>2, <4>3
    <3>2. CASE i # k
      <4>1. i \in 1 .. k - 1 /\ \A j \in 1 .. i - 1 : j \in 1 .. k - 1
        BY <1>5, <3>2
      <4>2. /\ Len(f.code) < t.at[i] /\ OpOf(t.g, t.at[i]) \in Patched
            /\ \A j \in 1 .. i - 1 : t.at[j] < t.at[i]
        BY <2>1, <2>5, <4>1 DEF Reached
      <4>3. OpOf(r.g, t.at[i]) \in Patched
        <5>1. OpOf(t.g, t.at[i]) # "none"
          BY <4>2 DEF Patched
        <5> QED
          BY <1>2, <1>6, <4>2, <5>1, OpOfMoves
      <4> QED
        BY <1>8, <4>1, <4>2, <4>3
    <3> QED
      BY <3>1, <3>2
  <2> QED
    BY <2>4, <2>5
<1> QED
  BY <1>1, <1>6, <1>8, <1>9, <1>10, <1>11 DEF Reached, u

(* The states of a translation. *)
LEMMA TranslationReaches ==
  ASSUME NEW e, IsVisits(e), NEW f, IsGen(f)
  PROVE  \E h : /\ h[0] = [g |-> f, at |-> << >>]
                /\ \A k \in 1 .. Len(e) : h[k] = Visit(h[k - 1], e[k])
                /\ h[Len(e)] = Translation(e, f)
                /\ \A k \in 0 .. Len(e) : Reached(e, k, f, h[k])
<1>1. e \in Seq(Range(e)) /\ DOMAIN e = 1 .. Len(e) /\ Len(e) \in Nat
  BY DEF IsVisits
<1>2. PICK h : Walk!States(h, [g |-> f, at |-> << >>], e)
  BY <1>1, Walk!LoopHasStates
<1>3. /\ h[0] = [g |-> f, at |-> << >>]
      /\ \A k \in 1 .. Len(e) : h[k] = Visit(h[k - 1], e[k])
      /\ h[Len(e)] = Translation(e, f)
  BY <1>1, <1>2 DEF Walk!States, Translation
<1> DEFINE K == {k \in Nat : k <= Len(e) => Reached(e, k, f, h[k])}
<1>4. 0 \in K
  <2>1. Moved(f, f) /\ Extends(f, f)
    BY MovedReflexive
  <2>2. h[0].g = f /\ h[0].at = << >>
    BY <1>3
  <2>3. Reached(e, 0, f, h[0])
    BY <2>1, <2>2 DEF Reached
  <2> QED
    BY <2>3
<1>5. ASSUME NEW k \in Nat, k \in K
      PROVE  k + 1 \in K
  <2> SUFFICES ASSUME k + 1 <= Len(e)
               PROVE  Reached(e, k + 1, f, h[k + 1])
    OBVIOUS
  <2>1. k + 1 \in 1 .. Len(e) /\ k + 1 - 1 = k /\ Reached(e, k, f, h[k])
    BY <1>1, <1>5
  <2>2. h[k + 1] = Visit(h[k], e[k + 1])
    BY <1>3, <2>1
  <2>3. Reached(e, k + 1, f, Visit(h[k], e[k + 1]))
    BY <2>1, VisitReaches
  <2> QED
    BY <2>2, <2>3
<1> HIDE DEF K
<1>6. \A k \in Nat : k \in K
  BY <1>4, <1>5, Walk!NatSet
<1>7. \A k \in 0 .. Len(e) : Reached(e, k, f, h[k])
  BY <1>1, <1>6 DEF K
<1> QED
  BY <1>3, <1>7

-----------------------------------------------------------------------------
(* Expressions and lists of arguments as a whole. *)
LEMMA TranslationMoves ==
  ASSUME NEW e, IsVisits(e), NEW f, IsGen(f)
  PROVE  LET t == Translation(e, f)
         IN  Moved(f, t.g) /\ Reached(e, Len(e), f, t)
<1>1. PICK h : /\ h[Len(e)] = Translation(e, f)
               /\ \A k \in 0 .. Len(e) : Reached(e, k, f, h[k])
  BY TranslationReaches
<1>2. Len(e) \in 0 .. Len(e)
  BY DEF IsVisits
<1>3. Reached(e, Len(e), f, Translation(e, f))
  BY <1>1, <1>2
<1> QED
  BY <1>3 DEF Reached

LEMMA ExpMoves ==
  ASSUME NEW e, IsExp(e), NEW f, IsGen(f)
  PROVE  LET r == translate_Exp(e, f)
         IN  /\ Moved(f, r.g) /\ r.addr \in Nat /\ r.addr <= Len(r.g.code)
             /\ NoParens(e, Len(e)) => Extends(f, r.g)
<1> DEFINE t == Translation(e, f)
<1>0. IsVisits(e) /\ Len(e) \in 1 .. Len(e)
  BY DEF IsExp, IsVisits
<1>1. Moved(f, t.g) /\ Reached(e, Len(e), f, t)
  BY <1>0, TranslationMoves
<1>2. translate_Exp(e, f).g = t.g /\ translate_Exp(e, f).addr = Last(t.at)
  BY DEF translate_Exp, Return
<1> HIDE DEF t
<1>3. /\ t.at \in Seq(Nat) /\ Len(t.at) = Len(e) /\ t.at[Len(e)] <= Len(t.g.code)
      /\ NoParens(e, Len(e)) => Extends(f, t.g)
  BY <1>0, <1>1 DEF Reached
<1>4. Last(t.at) = t.at[Len(e)] /\ t.at[Len(e)] \in Nat
  BY <1>0, <1>3 DEF Last
<1> QED
  BY <1>1, <1>2, <1>3, <1>4

LEMMA ArgsMove ==
  ASSUME NEW e, IsArgs(e), NEW f, IsGen(f)
  PROVE  LET r == translate_Args(e, f)
         IN  /\ Moved(f, r.g) /\ r.addrs \in Seq(Nat)
             /\ NoParens(e, Len(e)) => Extends(f, r.g)
<1> DEFINE t == Translation(e, f)
           n == Len(e)
<1>0. IsVisits(e) /\ n \in 1 .. n /\ n \in Nat
  BY DEF IsArgs, IsVisits
<1>1. Moved(f, t.g) /\ Reached(e, n, f, t)
  BY <1>0, TranslationMoves
<1>2. translate_Args(e, f).g = t.g /\ translate_Args(e, f).addrs = Taken(e[n], t.at)
  BY DEF translate_Args, Last
<1> HIDE DEF t
<1>3. /\ t.at \in Seq(Nat) /\ Len(t.at) = n
      /\ NoParens(e, n) => Extends(f, t.g)
  BY <1>1 DEF Reached
<1> DEFINE b(i) == t.at[e[n].parts[i]]
           m == Len(e[n].parts)
<1>4. m \in Nat /\ DOMAIN e[n].parts = 1 .. m /\ \A i \in 1 .. m : e[n].parts[i] \in 1 .. n - 1
  BY <1>0, VisitIs
<1>5. \A i \in 1 .. m : b(i) \in Nat
  <2> TAKE i \in 1 .. m
  <2>1. e[n].parts[i] \in 1 .. n
    BY <1>0, <1>4
  <2> QED
    BY <1>3, <2>1
<1>6. Taken(e[n], t.at) = [i \in 1 .. m |-> b(i)]
  BY <1>4 DEF Taken
<1> HIDE DEF b, m, n
<1>7. Taken(e[n], t.at) \in Seq(Nat)
  BY <1>4, <1>5, <1>6, IsASeq
<1> QED
  BY <1>1, <1>2, <1>3, <1>7 DEF n

-----------------------------------------------------------------------------
(* Lists of the state. *)
IsList(s) == s \in Seq(Range(s))

LEMMA ListIs ==
  ASSUME NEW s, IsList(s)
  PROVE  Len(s) \in Nat /\ DOMAIN s = 1 .. Len(s)
  BY DEF IsList

LEMMA ListAppend ==
  ASSUME NEW s, IsList(s), NEW x
  PROVE  LET u == Append(s, x)
         IN  /\ IsList(u) /\ Len(u) = Len(s) + 1 /\ Last(u) = x /\ u[Len(s) + 1] = x
             /\ DOMAIN u = 1 .. Len(s) + 1
             /\ \A i \in 1 .. Len(s) : u[i] = s[i]
<1> DEFINE u == Append(s, x)
           T == Range(s) \union {x}
<1>1. s \in Seq(T) /\ x \in T
  BY DEF IsList, Range
<1> HIDE DEF T
<1>2. /\ u \in Seq(T) /\ Len(u) = Len(s) + 1 /\ u[Len(s) + 1] = x
      /\ \A i \in 1 .. Len(s) : u[i] = s[i]
  BY <1>1, AppendIs
<1> HIDE DEF u
<1>3. u \in Seq(Range(u))
  BY <1>2 DEF Range
<1> QED
  BY <1>2, <1>3 DEF IsList, Last, u

LEMMA ListFront ==
  ASSUME NEW s, IsList(s), s # << >>
  PROVE  LET u == Front(s)
         IN  /\ IsList(u) /\ Len(u) = Len(s) - 1 /\ DOMAIN u = 1 .. Len(s) - 1 /\ Len(s) \in Nat \ {0}
             /\ \A i \in 1 .. Len(s) - 1 : u[i] = s[i]
<1> DEFINE u == Front(s)
<1>1. Len(s) \in Nat \ {0} /\ DOMAIN s = 1 .. Len(s)
  BY DEF IsList
<1>2. \A i \in 1 .. Len(s) - 1 : s[i] \in Range(s)
  BY <1>1 DEF Range
<1>3. /\ u \in Seq(Range(s)) /\ Len(u) = Len(s) - 1
      /\ \A i \in 1 .. Len(s) - 1 : u[i] = s[i]
  BY <1>1, <1>2, SubSeqProperties DEF Front, IsList
<1> HIDE DEF u
<1>4. u \in Seq(Range(u)) /\ DOMAIN u = 1 .. Len(s) - 1
  BY <1>3 DEF Range
<1> QED
  BY <1>1, <1>3, <1>4 DEF IsList, u

LEMMA ListReplace ==
  ASSUME NEW s, IsList(s), s # << >>, NEW x
  PROVE  LET u == [s EXCEPT ![Len(s)] = x]
         IN  /\ IsList(u) /\ Len(u) = Len(s) /\ DOMAIN u = 1 .. Len(s) /\ u[Len(s)] = x
             /\ \A i \in 1 .. Len(s) : i # Len(s) => u[i] = s[i]
<1> DEFINE u == [s EXCEPT ![Len(s)] = x]
           T == Range(s) \union {x}
<1>1. s \in Seq(T) /\ x \in T /\ Len(s) \in 1 .. Len(s) /\ DOMAIN s = 1 .. Len(s)
  BY DEF IsList, Range
<1> HIDE DEF T
<1>2. u \in Seq(T) /\ Len(u) = Len(s)
  BY <1>1, ExceptSeq
<1>3. u[Len(s)] = x /\ \A i \in 1 .. Len(s) : i # Len(s) => u[i] = s[i]
  BY <1>1
<1> HIDE DEF u
<1>4. u \in Seq(Range(u)) /\ DOMAIN u = 1 .. Len(s)
  BY <1>2 DEF Range
<1> QED
  BY <1>2, <1>3, <1>4 DEF IsList, u

-----------------------------------------------------------------------------
(***************************************************************************)
(* Declarations.  Declaring says that the instruction at a declares the    *)
(* variable v.                                                             *)
(***************************************************************************)
StructsOK == \A s \in DOMAIN strc_map : s # "int" /\ strc_map[s] \in FieldLists

ClassOf(v) == IF v.param THEN "PARAM" ELSE IF IsScalar(v) THEN "ASSIGN" ELSE "DEC"

Declaring(g, a, v) ==
  /\ a \in 1 .. Len(g.code) /\ g.code[a].addr = a /\ g.code[a].op = ClassOf(v)
  /\ g.code[a].op \in Layouts =>
       /\ g.code[a].sizes = v.dims
       /\ v.spec # "int" => g.code[a].type.kind = "structure"

Grown(g, h) ==
  /\ IsGen(h) /\ Len(g.code) <= Len(h.code) /\ \A i \in 1 .. Len(g.code) : Same(g.code[i], h.code[i])
  /\ \A x \in Names : h.names[x] # 0 \/ g.names[x] = 0

NoFunction(g, a) == \A i \in a .. Len(g.code) : g.code[i].op # "FUNCTION"

LEMMA DeclaringGrows ==
  ASSUME NEW g, NEW h, IsGen(g), Grown(g, h), NEW a, NEW v, Declaring(g, a, v)
  PROVE  Declaring(h, a, v)
<1>1. Len(g.code) \in Nat /\ Len(h.code) \in Nat
  BY GenFields DEF Grown
<1>2. a \in 1 .. Len(h.code) /\ Same(g.code[a], h.code[a])
  BY <1>1 DEF Grown, Declaring
<1>3. /\ g.code[a].op = h.code[a].op /\ g.code[a].addr = h.code[a].addr
      /\ g.code[a].op \in Layouts => g.code[a] = h.code[a]
  BY <1>2 DEF Same, Patched, Layouts
<1> QED
  BY <1>2, <1>3 DEF Declaring

LEMMA MovedGrows ==
  ASSUME NEW g, NEW h, IsGen(g), Moved(g, h)
  PROVE  Grown(g, h)
<1>1. Len(g.code) \in Nat
  BY GenFields
<1> QED
  BY <1>1 DEF Moved, Grown

LEMMA SpecifierIs ==
  ASSUME StructsOK, NEW s, KnownType(s)
  PROVE  /\ translate_Specifier(s) \in Types
         /\ translate_Specifier(s).kind = IF s = "int" THEN "primitive" ELSE "structure"
<1>1. CASE s = "int"
  BY <1>1 DEF translate_Specifier, Types, Primitive
<1>2. CASE s # "int"
  <2>1. s \in DOMAIN strc_map /\ strc_map[s] \in FieldLists
    BY <1>2 DEF KnownType, StructsOK
  <2>2. translate_Specifier(s) = Structure(strc_map[s])
    BY <1>2 DEF translate_Specifier
  <2> QED
    BY <1>2, <2>1, <2>2 DEF Types, Structure
<1> QED
  BY <1>1, <1>2

(* Distinct declarators. *)
LEMMA DistinctIs ==
  ASSUME NEW ds, Distinct(ds)
  PROVE  /\ IsList(ds) /\ Len(ds) \in Nat /\ DOMAIN ds = 1 .. Len(ds) /\ NamesOf(ds) \subseteq Names
         /\ \A i \in DOMAIN ds : /\ IsDeclarator(ds[i])
                                 /\ (CHOOSE j \in DOMAIN ds : ds[j].name = ds[i].name) = i
<1>1. IsList(ds) /\ Len(ds) \in Nat /\ DOMAIN ds = 1 .. Len(ds)
  BY DEF Distinct, IsList
<1>2. \A i \in DOMAIN ds : IsDeclarator(ds[i]) /\ ds[i].name \in Names
  BY DEF Distinct, IsDeclarator
<1>3. ASSUME NEW i \in DOMAIN ds
      PROVE  (CHOOSE j \in DOMAIN ds : ds[j].name = ds[i].name) = i
  BY DEF Distinct
<1> QED
  BY <1>1, <1>2, <1>3 DEF NamesOf

SameVar(v, d, param) == v.spec = d.spec /\ v.dims = d.dims /\ v.param = param

LEMMA PlaceIs ==
  ASSUME NEW ds, Distinct(ds), NEW i \in DOMAIN ds
  PROVE  LET x == ds[i].name
         IN  /\ SameVar(Places(ds, TRUE)[x], ds[i], TRUE) /\ Places(ds, TRUE)[x].at = DeclaredAt(x)
             /\ SameVar(Places(ds, FALSE)[x], ds[i], FALSE)
             /\ Places(ds, FALSE)[x].at = DeclaredAt(x)
<1>1. ds[i].name \in NamesOf(ds)
  BY DEF NamesOf
<1>2. (CHOOSE j \in DOMAIN ds : ds[j].name = ds[i].name) = i
  BY DistinctIs
<1> QED
  BY <1>1, <1>2 DEF Places, SameVar

(* One declarator. *)
LEMMA VarDecIs ==
  ASSUME StructsOK, NEW d, IsDeclarator(d), KnownType(d.spec), NEW g, IsGen(g)
  PROVE  LET tac == translate_VarDec(d, translate_Specifier(d.spec), g)
         IN  /\ tac \in Tacs /\ tac.addr = Len(g.code) + 1
             /\ tac.op = IF IsScalar(d) THEN "ASSIGN" ELSE "DEC"
             /\ tac.op = "DEC" => /\ tac.sizes = d.dims
                                  /\ d.spec # "int" => tac.type.kind = "structure"
<1> DEFINE type == translate_Specifier(d.spec)
           tac  == translate_VarDec(d, type, g)
<1>1. type \in Types /\ type.kind = IF d.spec = "int" THEN "primitive" ELSE "structure"
  BY SpecifierIs
<1> HIDE DEF type
<1>2. Size(g) \in Nat /\ Size(g) = Len(g.code) + 1 /\ d.dims \in Seq(Nat)
  BY GenFields DEF IsDeclarator
<1>3. CASE IsScalar(d)
  <2>1. tac = AssignCode(Size(g), 0)
    BY <1>1, <1>3 DEF translate_VarDec, IsScalar
  <2>2. AssignCode(Size(g), 0) \in Tacs
    BY <1>2 DEF Tacs, AssignCode
  <2> QED
    BY <1>2, <1>3, <2>1, <2>2 DEF AssignCode, type
<1>4. CASE ~ IsScalar(d)
  <2>1. tac = DecCode(Size(g), type, d.dims)
    BY <1>1, <1>4 DEF translate_VarDec, IsScalar
  <2>2. DecCode(Size(g), type, d.dims) \in Tacs
    BY <1>1, <1>2 DEF Tacs, DecCode
  <2> QED
    BY <1>1, <1>2, <1>4, <2>1, <2>2 DEF DecCode, type
<1> QED
  BY <1>3, <1>4

(* The declaration of x is pushed and registered. *)
LEMMA RegisterIs ==
  ASSUME NEW g, IsGen(g), NEW x \in Names, NEW tac \in Tacs
  PROVE  LET h == Push(Register(g, x), tac)
         IN  /\ Grown(g, h) /\ Longer(g, h, tac)
             /\ h.names = [g.names EXCEPT ![x] = Len(g.code) + 1]
<1> DEFINE names == [g.names EXCEPT ![x] = Len(g.code) + 1]
           h == Push([g EXCEPT !.names = names], tac)
<1>0. Len(g.code) \in Nat /\ g.names \in [Names -> Nat] /\ Size(g) = Len(g.code) + 1
  BY GenFields
<1>1. names \in [Names -> Nat]
  BY <1>0
<1>2. \A y \in Names : names[y] <= Len(g.code) + 1
  <2> TAKE y \in Names
  <2>1. g.names[y] \in Nat /\ g.names[y] <= Len(g.code)
    BY <1>0 DEF IsGen
  <2> QED
    BY <1>0, <2>1
<1>3. \A y \in Names : names[y] # 0 \/ g.names[y] = 0
  BY <1>0
<1>4. Push(Register(g, x), tac) = h
  BY <1>0 DEF Register
<1> HIDE DEF names
<1>5. IsGen(h) /\ Longer(g, h, tac) /\ h.names = names
  BY <1>1, <1>2, PushIs
<1> HIDE DEF h
<1>6. Grown(g, h)
  BY <1>0, <1>3, <1>5 DEF Grown, Longer, Extends, Same
<1> QED
  BY <1>4, <1>5, <1>6 DEF names

(* The names in D get new instructions. *)
Registered(g, h, D) ==
  \A x \in Names : IF x \in D THEN h.names[x] > Len(g.code)
                   ELSE h.names[x] = g.names[x] \/ (g.names[x] = 0 /\ h.names[x] > Len(g.code))

LEMMA MovedRegisters ==
  ASSUME NEW g, NEW h, IsGen(g), Moved(g, h)
  PROVE  Registered(g, h, {}) /\ NoFunction(h, Len(g.code) + 1)
  BY DEF Moved, Registered, NoFunction

LEMMA ExtGrows ==
  ASSUME StructsOK, NEW g, IsGen(g), NEW ds, ds # << >>, Distinct(ds), KnownType(ds[1].spec)
  PROVE  LET h == translate_ExtDecList(ds, g)
             x == ds[1].name
         IN  /\ Grown(g, h) /\ Extends(g, h) /\ h.ok = g.ok /\ 1 \in DOMAIN ds /\ x \in Names
             /\ h.names = [g.names EXCEPT ![x] = Len(g.code) + 1]
             /\ \A v : SameVar(v, ds[1], FALSE) => Declaring(h, Len(g.code) + 1, v)
             /\ NoFunction(h, Len(g.code) + 1)
<1> DEFINE d   == ds[1]
           tac == translate_VarDec(d, translate_Specifier(d.spec), g)
           h   == Push(Register(g, d.name), tac)
<1>0. 1 \in DOMAIN ds
  <2>1. Len(ds) \in Nat /\ DOMAIN ds = 1 .. Len(ds) /\ ds \in Seq(Range(ds))
    BY DistinctIs DEF IsList
  <2>2. Len(ds) # 0
    BY <2>1
  <2> QED
    BY <2>1, <2>2
<1>1. IsDeclarator(d) /\ d.name \in Names
  BY <1>0, DistinctIs DEF IsDeclarator
<1>2. /\ tac \in Tacs /\ tac.addr = Len(g.code) + 1
      /\ tac.op = IF IsScalar(d) THEN "ASSIGN" ELSE "DEC"
      /\ tac.op = "DEC" => tac.sizes = d.dims /\ (d.spec # "int" => tac.type.kind = "structure")
  BY <1>1, VarDecIs
<1>3. h = translate_ExtDecList(ds, g)
  BY DEF translate_ExtDecList
<1> HIDE DEF tac
<1>4. /\ Grown(g, h) /\ Longer(g, h, tac) /\ h.names = [g.names EXCEPT ![d.name] = Len(g.code) + 1]
  BY <1>1, <1>2, RegisterIs
<1> HIDE DEF h
<1>5. Len(g.code) \in Nat /\ Len(h.code) = Len(g.code) + 1 /\ h.code[Len(g.code) + 1] = tac
  BY <1>4, GenFields DEF Longer
<1>6. ASSUME NEW v, SameVar(v, d, FALSE)
      PROVE  Declaring(h, Len(g.code) + 1, v)
  <2>1. tac.op = ClassOf(v) /\ IsScalar(v) = IsScalar(d)
    BY <1>2, <1>6 DEF SameVar, ClassOf, IsScalar
  <2>2. tac.op \in Layouts => tac.op = "DEC"
    BY <1>2 DEF Layouts
  <2> QED
    BY <1>2, <1>5, <1>6, <2>1, <2>2 DEF Declaring, SameVar
<1>7. NoFunction(h, Len(g.code) + 1)
  <2>1. tac.op # "FUNCTION"
    BY <1>2
  <2>2. \A i \in Len(g.code) + 1 .. Len(h.code) : i = Len(g.code) + 1
    BY <1>5
  <2> QED
    BY <1>5, <2>1, <2>2 DEF NoFunction
<1> QED
  BY <1>0, <1>1, <1>3, <1>4, <1>6, <1>7 DEF Longer

LEMMA DefGrows ==
  ASSUME StructsOK, NEW g, IsGen(g), NEW d, IsDeclarator(d), KnownType(d.spec),
         d.init # << >> => IsExp(d.init) /\ IsScalar(d)
  PROVE  LET h     == translate_Dec(d, translate_Specifier(d.spec), g)
             value == translate_Exp(d.init, g)
             x     == d.name
         IN  /\ h.ok = (IF d.init = << >> THEN g.ok ELSE value.g.ok)
             /\ h.ok => /\ Grown(g, h) /\ Registered(g, h, {x}) /\ NoFunction(h, Len(g.code) + 1)
                        /\ \A v : SameVar(v, d, FALSE) => Declaring(h, h.names[x], v)
                        /\ (d.init = << >> \/ NoParens(d.init, Len(d.init))) => Extends(g, h)
<1> DEFINE type  == translate_Specifier(d.spec)
           value == IF d.init = << >> THEN Return(g, 0) ELSE translate_Exp(d.init, g)
           tac   == translate_VarDec(d, type, value.g)
           new   == IF value.addr = 0 THEN tac ELSE [tac EXCEPT !.raddr = value.addr]
           h     == Push(Register(value.g, d.name), new)
           all   == translate_Dec(d, type, g)
<1>1. /\ Moved(g, value.g) /\ value.addr \in Nat
      /\ d.init = << >> => value.g = g /\ value.addr = 0
      /\ d.init # << >> => value = translate_Exp(d.init, g)
      /\ (d.init = << >> \/ NoParens(d.init, Len(d.init))) => Extends(g, value.g)
  <2>1. CASE d.init = << >>
    BY <2>1, MovedReflexive DEF Return
  <2>2. CASE d.init # << >>
    BY <2>2, ExpMoves
  <2> QED
    BY <2>1, <2>2
<1>2. all = IF ~ value.g.ok THEN value.g
            ELSE IF value.addr = 0 THEN Push(Register(value.g, d.name), tac)
            ELSE IF tac.op # "ASSIGN" THEN Crash(value.g).g
            ELSE Push(Register(value.g, d.name), [tac EXCEPT !.raddr = value.addr])
  BY DEF translate_Dec
<1> HIDE DEF value, type
<1>3. IsGen(value.g) /\ d.name \in Names
  BY <1>1 DEF Moved, IsDeclarator
<1>4. /\ tac \in Tacs /\ tac.addr = Len(value.g.code) + 1
      /\ tac.op = IF IsScalar(d) THEN "ASSIGN" ELSE "DEC"
      /\ tac.op = "DEC" => tac.sizes = d.dims /\ (d.spec # "int" => tac.type.kind = "structure")
  BY <1>3, VarDecIs DEF type
<1> HIDE DEF tac
<1>5. value.addr # 0 => tac.op = "ASSIGN"
  BY <1>1, <1>4
<1>6. all = IF value.g.ok THEN h ELSE value.g
  BY <1>2, <1>5
<1>7. /\ new \in Tacs /\ new.op = tac.op /\ new.addr = tac.addr
      /\ new.op = "DEC" => new = tac
  <2>1. CASE value.addr = 0
    BY <1>4, <2>1
  <2>2. CASE value.addr # 0
    BY <1>1, <1>4, <1>5, <2>2, PatchIs DEF Patched
  <2> QED
    BY <2>1, <2>2
<1> HIDE DEF new, all
<1>8. /\ Grown(value.g, h) /\ Longer(value.g, h, new)
      /\ h.names = [value.g.names EXCEPT ![d.name] = Len(value.g.code) + 1]
  BY <1>3, <1>7, RegisterIs
<1> HIDE DEF h
<1>9. /\ Len(g.code) \in Nat /\ Len(value.g.code) \in Nat /\ Len(g.code) <= Len(value.g.code)
      /\ Len(h.code) = Len(value.g.code) + 1 /\ h.code[Len(value.g.code) + 1] = new
      /\ h.ok = value.g.ok /\ Extends(value.g, h) /\ IsGen(h)
      /\ h.names \in [Names -> Nat] /\ value.g.names \in [Names -> Nat]
      /\ g.names \in [Names -> Nat]
  BY <1>1, <1>3, <1>8, GenFields DEF Longer, Moved, Grown
<1>10. all.ok = (IF d.init = << >> THEN g.ok ELSE translate_Exp(d.init, g).g.ok)
  BY <1>1, <1>6, <1>9
<1>11. ASSUME all.ok
       PROVE  all = h
  BY <1>3, <1>6, <1>9, <1>11
<1>12. Registered(g, h, {d.name})
  <2> SUFFICES ASSUME NEW x \in Names
               PROVE  IF x = d.name THEN h.names[x] > Len(g.code)
                      ELSE \/ h.names[x] = g.names[x]
                           \/ g.names[x] = 0 /\ h.names[x] > Len(g.code)
    BY DEF Registered
  <2>1. CASE x = d.name
    BY <1>8, <1>9, <2>1
  <2>2. CASE x # d.name
    BY <1>1, <1>8, <1>9, <2>2 DEF Moved
  <2> QED
    BY <2>1, <2>2
<1>13. Grown(g, h)
  <2>1. ASSUME NEW i \in 1 .. Len(g.code)
        PROVE  Same(g.code[i], h.code[i])
    <3>1. i \in 1 .. Len(value.g.code) /\ Same(g.code[i], value.g.code[i])
      BY <1>1, <1>9 DEF Moved
    <3> QED
      BY <1>9, <3>1 DEF Extends
  <2>2. ASSUME NEW x \in Names
        PROVE  h.names[x] # 0 \/ g.names[x] = 0
    <3>1. g.names[x] \in Nat /\ h.names[x] \in Nat
      BY <1>9
    <3> QED
      BY <1>9, <1>12, <3>1 DEF Registered
  <2> QED
    BY <1>9, <2>1, <2>2 DEF Grown
<1>14. NoFunction(h, Len(g.code) + 1)
  <2>1. tac.op # "FUNCTION"
    BY <1>4
  <2> SUFFICES ASSUME NEW i \in Len(g.code) + 1 .. Len(h.code)
               PROVE  h.code[i].op # "FUNCTION"
    BY DEF NoFunction
  <2>2. CASE i = Len(value.g.code) + 1
    BY <1>7, <1>9, <2>1, <2>2
  <2>3. CASE i # Len(value.g.code) + 1
    <3>1. i \in Len(g.code) + 1 .. Len(value.g.code) /\ i \in 1 .. Len(value.g.code)
      BY <1>9, <2>3
    <3> QED
      BY <1>1, <1>9, <3>1 DEF Moved, Extends
  <2> QED
    BY <2>2, <2>3
<1>15. ASSUME NEW v, SameVar(v, d, FALSE)
       PROVE  Declaring(h, h.names[d.name], v)
  <2>1. h.names[d.name] = Len(value.g.code) + 1
    BY <1>3, <1>8, <1>9
  <2>2. new.op = ClassOf(v) /\ new.addr = Len(value.g.code) + 1
    BY <1>4, <1>7, <1>15 DEF SameVar, ClassOf, IsScalar
  <2>3. new.op \in Layouts => new.op = "DEC"
    BY <1>4, <1>7 DEF Layouts
  <2> QED
    BY <1>4, <1>7, <1>9, <1>15, <2>1, <2>2, <2>3 DEF Declaring, SameVar
<1>16. (d.init = << >> \/ NoParens(d.init, Len(d.init))) => Extends(g, h)
  BY <1>1, <1>9, ExtendsTransitive
<1> QED
  BY <1>10, <1>11, <1>12, <1>13, <1>14, <1>15, <1>16 DEF all, type

LEMMA ReverseIs ==
  ASSUME NEW s, IsList(s)
  PROVE  /\ DOMAIN Reverse(s) = 1 .. Len(s) /\ Len(s) \in Nat
         /\ \A i \in 1 .. Len(s) : Len(s) - i + 1 \in 1 .. Len(s) /\ Reverse(s)[Len(s) - i + 1] = s[i]
         /\ \A j \in 1 .. Len(s) : Len(s) - j + 1 \in 1 .. Len(s) /\ Reverse(s)[j] = s[Len(s) - j + 1]
<1> DEFINE n == Len(s)
<1>1. n \in Nat
  BY ListIs
<1>2. Reverse(s) = [i \in 1 .. n |-> s[(n - i) + 1]]
  BY DEF Reverse
<1> HIDE DEF n
<1>3. ASSUME NEW i \in 1 .. n
      PROVE  n - i + 1 \in 1 .. n /\ (n - (n - i + 1)) + 1 = i
  BY <1>1
<1>4. \A i \in 1 .. n : Reverse(s)[n - i + 1] = s[i]
  BY <1>2, <1>3
<1> QED
  BY <1>1, <1>2, <1>3, <1>4 DEF n

(* The generator h is g behind the head of the function f. *)
HeadDone(f, params, g, h) ==
  /\ Grown(g, h) /\ Extends(g, h) /\ h.ok = g.ok /\ NoFunction(h, Len(g.code) + 2)
  /\ \A i \in Len(g.code) + 1 .. Len(h.code) : h.code[i].op \in {"FUNCTION", "PARAM"}
  /\ \A i \in DOMAIN params :
       /\ h.names[params[i].name] > Len(g.code) + 1
       /\ \A v : SameVar(v, params[i], TRUE) => Declaring(h, h.names[params[i].name], v)
  /\ \A x \in Names : x \notin NamesOf(params) /\ x # f => h.names[x] = g.names[x]

LEMMA FunGrows ==
  ASSUME StructsOK, NEW g, IsGen(g), NEW f \in Names, NEW params, Distinct(params),
         \A i \in DOMAIN params : KnownType(params[i].spec)
  PROVE  HeadDone(f, params, g, translate_FunDec(f, params, g))
<1> DEFINE b     == Push(Register(g, f), FuncCode(f))
           p     == Reverse(params)
           n     == Len(params)
           m     == Len(b.code)
           tacs  == [j \in DOMAIN p |-> translate_ParamDec(p[j], m + j)]
           names == [x \in Names |-> IF \E j \in DOMAIN p : p[j].name = x
                                     THEN m + CHOOSE j \in DOMAIN p : p[j].name = x
                                     ELSE b.names[x]]
           h     == PushAll([b EXCEPT !.names = names], tacs)
<1>1. translate_FunDec(f, params, g) = h
  BY DEF translate_FunDec, translate_VarList
<1>2. FuncCode(f) \in Tacs
  BY DEF Tacs, FuncCode
<1>3. Grown(g, b) /\ Longer(g, b, FuncCode(f)) /\ b.names = [g.names EXCEPT ![f] = Len(g.code) + 1]
  BY <1>2, RegisterIs
<1> HIDE DEF b
<1>4. /\ IsGen(b) /\ Len(g.code) \in Nat /\ m = Len(g.code) + 1 /\ m \in Nat
      /\ Extends(g, b) /\ b.ok = g.ok
      /\ b.names \in [Names -> Nat] /\ g.names \in [Names -> Nat]
      /\ \A x \in Names : b.names[x] <= m
  BY <1>3, GenFields DEF Grown, Longer, IsGen
<1>5. /\ IsList(params) /\ n \in Nat /\ DOMAIN params = 1 .. n /\ DOMAIN p = 1 .. n
      /\ NamesOf(params) \subseteq Names
      /\ \A i \in 1 .. n : n - i + 1 \in 1 .. n /\ p[n - i + 1] = params[i]
      /\ \A j \in 1 .. n : n - j + 1 \in 1 .. n /\ p[j] = params[n - j + 1]
  BY DistinctIs, ReverseIs
<1> HIDE DEF m
<1>6. ASSUME NEW j \in 1 .. n
      PROVE  /\ translate_ParamDec(p[j], m + j) \in Tacs
             /\ translate_ParamDec(p[j], m + j).op = "PARAM"
             /\ translate_ParamDec(p[j], m + j).addr = m + j
             /\ translate_ParamDec(p[j], m + j).sizes = p[j].dims
             /\ p[j].spec # "int" => translate_ParamDec(p[j], m + j).type.kind = "structure"
  <2> DEFINE i    == n - j + 1
             type == translate_Specifier(p[j].spec)
  <2>1. i \in DOMAIN params /\ p[j] = params[i]
    BY <1>5
  <2> HIDE DEF i
  <2>2. IsDeclarator(p[j]) /\ KnownType(p[j].spec)
    BY <2>1, DistinctIs
  <2>3. type \in Types /\ (p[j].spec # "int" => type.kind = "structure")
    BY <2>2, SpecifierIs
  <2>4. p[j].dims \in Seq(Nat) /\ m + j \in Nat
    BY <1>4, <2>2 DEF IsDeclarator
  <2>5. translate_ParamDec(p[j], m + j) = ParamCode(m + j, type, p[j].dims)
    BY DEF translate_ParamDec
  <2> HIDE DEF p, type
  <2>6. ParamCode(m + j, type, p[j].dims) \in Tacs
    BY <2>3, <2>4 DEF Tacs, ParamCode
  <2> QED
    BY <2>3, <2>5, <2>6 DEF ParamCode
<1>7. tacs \in Seq(Tacs) /\ Len(tacs) = n
  <2> DEFINE tac(j) == translate_ParamDec(p[j], m + j)
  <2>1. tacs = [j \in 1 .. n |-> tac(j)]
    BY <1>5
  <2>2. \A j \in 1 .. n : tac(j) \in Tacs
    BY <1>6
  <2> HIDE DEF tac, tacs, n
  <2> QED
    BY <1>5, <2>1, <2>2, IsASeq
<1>8. \A j \in 1 .. n : tacs[j] = translate_ParamDec(p[j], m + j)
  BY <1>5
<1>9. ASSUME NEW i \in 1 .. n
      PROVE  names[params[i].name] = m + (n - i + 1)
  <2>1. params[i].name \in Names
    BY <1>5, DistinctIs DEF IsDeclarator
  <2>2. n - i + 1 \in DOMAIN p /\ p[n - i + 1].name = params[i].name
    BY <1>5
  <2>3. ASSUME NEW j \in DOMAIN p, p[j].name = params[i].name
        PROVE  j = n - i + 1
    <3>1. n - j + 1 \in DOMAIN params /\ params[n - j + 1].name = params[i].name
      BY <1>5, <2>3
    <3>2. n - j + 1 = i
      BY <1>5, <3>1 DEF Distinct
    <3> QED
      BY <1>5, <3>2
  <2>4. (CHOOSE j \in DOMAIN p : p[j].name = params[i].name) = n - i + 1
    BY <2>2, <2>3
  <2> QED
    BY <2>1, <2>2, <2>4
<1>10. ASSUME NEW x \in Names, x \notin NamesOf(params)
       PROVE  names[x] = b.names[x]
  <2>1. ASSUME NEW j \in DOMAIN p, p[j].name = x
        PROVE  FALSE
    <3>1. n - j + 1 \in DOMAIN params /\ params[n - j + 1].name = x
      BY <1>5, <2>1
    <3> QED
      BY <1>10, <3>1 DEF NamesOf
  <2> QED
    BY <2>1
<1>11. ASSUME NEW x \in Names
       PROVE  names[x] \in Nat /\ names[x] <= m + n /\ (names[x] # 0 \/ g.names[x] = 0)
  <2>1. CASE x \in NamesOf(params)
    <3>1. PICK i \in 1 .. n : x = params[i].name
      BY <1>5, <2>1 DEF NamesOf
    <3>2. n - i + 1 \in 1 .. n
      BY <1>5
    <3>3. names[x] = m + (n - i + 1)
      BY <1>9, <3>1
    <3>4. m \in Nat /\ n \in Nat /\ m > 0
      BY <1>4, <1>5
    <3> HIDE DEF names, n
    <3> DEFINE j == n - i + 1
    <3>5. j \in 1 .. n /\ names[x] = m + j
      BY <3>2, <3>3
    <3> HIDE DEF j
    <3> QED
      BY <3>4, <3>5
  <2>2. CASE x \notin NamesOf(params)
    <3>1. names[x] = b.names[x]
      BY <1>10, <2>2
    <3>2. b.names[x] \in Nat /\ b.names[x] <= m /\ (b.names[x] # 0 \/ g.names[x] = 0)
      BY <1>3, <1>4
    <3> HIDE DEF names
    <3> QED
      BY <1>4, <1>5, <3>1, <3>2
  <2> QED
    BY <2>1, <2>2
<1>12. names \in [Names -> Nat]
  BY <1>11
<1> HIDE DEF names, tacs, p
<1>19. tacs \in Seq(Tacs) /\ \A x \in Names : names[x] <= Len(b.code) + Len(tacs)
  BY <1>7, <1>11 DEF m
<1>13. /\ IsGen(h) /\ Extends(b, h) /\ h.ok = b.ok /\ h.names = names
       /\ Len(h.code) = m + n /\ \A j \in 1 .. n : h.code[m + j] = tacs[j]
  <2> HIDE DEF n
  <2>1. /\ IsGen(h) /\ Extends(b, h) /\ h.ok = b.ok /\ h.names = names
        /\ Len(h.code) = Len(b.code) + Len(tacs)
        /\ \A j \in 1 .. Len(tacs) : h.code[Len(b.code) + j] = tacs[j]
    BY <1>4, <1>12, <1>19, PushAllIs
  <2> HIDE DEF h
  <2> QED
    BY <1>7, <2>1 DEF m
<1> HIDE DEF h
<1>14. Extends(g, h) /\ Len(g.code) <= Len(h.code)
  <2>1. \A i \in 1 .. Len(g.code) : i \in 1 .. m
    BY <1>4
  <2> QED
    BY <1>4, <1>5, <1>13, <2>1 DEF Extends, m
<1>15. Grown(g, h)
  BY <1>11, <1>13, <1>14 DEF Grown, Extends, Same
<1>16. ASSUME NEW i \in Len(g.code) + 2 .. Len(h.code)
       PROVE  h.code[i].op = "PARAM"
  <2>1. i - m \in 1 .. n /\ m + (i - m) = i
    <3>1. m \in Nat /\ n \in Nat /\ i \in m + 1 .. m + n
      BY <1>4, <1>5, <1>13
    <3> HIDE DEF n
    <3> QED
      BY <3>1
  <2>2. h.code[i] = tacs[i - m]
    BY <1>13, <2>1
  <2> QED
    BY <1>6, <1>8, <2>1, <2>2
<1>17. ASSUME NEW i \in 1 .. n
       PROVE  /\ h.names[params[i].name] > Len(g.code) + 1
              /\ \A v : SameVar(v, params[i], TRUE) => Declaring(h, h.names[params[i].name], v)
  <2> DEFINE j == n - i + 1
  <2>1. j \in 1 .. n /\ p[j] = params[i]
    BY <1>5
  <2>2. h.names[params[i].name] = m + j
    BY <1>9, <1>13
  <2> HIDE DEF j
  <2>3. m + j > Len(g.code) + 1 /\ m + j \in 1 .. Len(h.code)
    BY <1>4, <1>5, <1>13, <2>1
  <2>4. /\ h.code[m + j].op = "PARAM" /\ h.code[m + j].addr = m + j
        /\ h.code[m + j].sizes = p[j].dims
        /\ p[j].spec # "int" => h.code[m + j].type.kind = "structure"
    BY <1>6, <1>8, <1>13, <2>1
  <2> QED
    BY <2>1, <2>2, <2>3, <2>4 DEF Declaring, SameVar, ClassOf
<1>18. \A x \in Names : x \notin NamesOf(params) /\ x # f => h.names[x] = g.names[x]
  BY <1>3, <1>4, <1>10, <1>13
<1>20. NoFunction(h, Len(g.code) + 2)
  BY <1>16 DEF NoFunction
<1>21. ASSUME NEW i \in Len(g.code) + 1 .. Len(h.code)
       PROVE  h.code[i].op \in {"FUNCTION", "PARAM"}
  <2>1. CASE i = m
    <3>1. i \in 1 .. m
      BY <1>4, <2>1
    <3> QED
      BY <1>3, <1>4, <1>13, <2>1, <3>1 DEF Extends, Longer, FuncCode, m
  <2>2. CASE i # m
    <3>1. i \in Len(g.code) + 2 .. Len(h.code)
      BY <1>4, <2>2
    <3> QED
      BY <1>16, <3>1
  <2> QED
    BY <2>1, <2>2
<1> QED
  BY <1>1, <1>4, <1>5, <1>13, <1>14, <1>15, <1>17, <1>18, <1>20, <1>21 DEF HeadDone

(* Statements. *)
LEMMA WriteMoves ==
  ASSUME NEW g, IsGen(g), NEW e, IsArgs(e)
  PROVE  LET r == translate_Args(e, g)
             h == PushAll(r.g, [i \in DOMAIN r.addrs |-> WriteCode(r.addrs[i])])
         IN  /\ Moved(g, h) /\ h.ok = r.g.ok /\ Extends(r.g, h)
             /\ NoParens(e, Len(e)) => Extends(g, h)
<1> DEFINE r    == translate_Args(e, g)
           tacs == [i \in DOMAIN r.addrs |-> WriteCode(r.addrs[i])]
           h    == PushAll(r.g, tacs)
<1>1. Moved(g, r.g) /\ r.addrs \in Seq(Nat) /\ (NoParens(e, Len(e)) => Extends(g, r.g))
  BY ArgsMove
<1> HIDE DEF r
<1>2. IsGen(r.g)
  BY <1>1 DEF Moved
<1>3. tacs \in Seq(Tacs) /\ \A i \in 1 .. Len(tacs) : tacs[i].op # "FUNCTION"
  <2>1. DOMAIN r.addrs = 1 .. Len(r.addrs) /\ Len(r.addrs) \in Nat
    BY <1>1
  <2>2. \A i \in 1 .. Len(r.addrs) : WriteCode(r.addrs[i]) \in Tacs /\ WriteCode(r.addrs[i]).op = "WRITE"
    BY <1>1 DEF Tacs, WriteCode
  <2>3. tacs = [i \in 1 .. Len(r.addrs) |-> WriteCode(r.addrs[i])]
    BY <2>1
  <2>4. tacs \in Seq(Tacs) /\ Len(tacs) = Len(r.addrs)
    BY <2>1, <2>2, <2>3, IsASeq
  <2> QED
    BY <2>2, <2>3, <2>4
<1> HIDE DEF tacs
<1>4. Moved(r.g, h) /\ Extends(r.g, h) /\ h.ok = r.g.ok
  BY <1>2, <1>3, PushAllMoves
<1> HIDE DEF h
<1>5. Moved(g, h) /\ (NoParens(e, Len(e)) => Extends(g, h))
  BY <1>1, <1>4, MovedTransitive, ExtendsTransitive
<1> QED
  BY <1>4, <1>5 DEF h, tacs, r

LEMMA ReturnMoves ==
  ASSUME NEW g, IsGen(g), NEW e, IsExp(e)
  PROVE  LET r == translate_Exp(e, g)
             h == Push(r.g, ReturnCode(r.addr))
         IN  /\ Moved(g, h) /\ h.ok = r.g.ok /\ Longer(r.g, h, ReturnCode(r.addr))
             /\ NoParens(e, Len(e)) => Extends(g, h)
<1> DEFINE r   == translate_Exp(e, g)
           tac == ReturnCode(r.addr)
           h   == Push(r.g, tac)
<1>1. Moved(g, r.g) /\ r.addr \in Nat /\ (NoParens(e, Len(e)) => Extends(g, r.g))
  BY ExpMoves
<1> HIDE DEF r
<1>2. IsGen(r.g)
  BY <1>1 DEF Moved
<1>3. tac \in Tacs /\ tac.op # "FUNCTION"
  BY <1>1 DEF Tacs, ReturnCode
<1> HIDE DEF tac
<1>4. h = Emit(r.g, tac).g
  BY DEF Emit
<1> HIDE DEF h
<1>5. Moved(r.g, h) /\ Longer(r.g, h, tac)
  BY <1>2, <1>3, <1>4, EmitIs
<1>6. Moved(g, h) /\ (NoParens(e, Len(e)) => Extends(g, h))
  BY <1>1, <1>5, MovedTransitive, ExtendsTransitive DEF Longer
<1> QED
  BY <1>5, <1>6 DEF h, tac, r, Longer

-----------------------------------------------------------------------------
(***************************************************************************)
(* The invariant.  Fits is what holds of the variable x of scope i.        *)
(***************************************************************************)
Inner(i, x) == \A j \in i + 1 .. Len(scopes) : x \notin DOMAIN scopes[j]

Tailing(x) == \E j \in DOMAIN src : src[j][1] = "ext" /\ x \in NamesOf(Tail(src[j][2]))

Fits(i, x) ==
  LET v == scopes[i][x]
  IN  /\ v.at \in Nat
      /\ v.at = 0 => i = 1 /\ Tailing(x)
      /\ v.at # 0 =>
           /\ Declaring(Now_g, v.at, v)
           /\ i > 1 => NoFunction(Now_g, v.at)
           /\ name_to_addr[x] # 0
           /\ (name_to_addr[x] = v.at) <=> (x \notin stale /\ Inner(i, x))

Tables ==
  /\ IsGen(Now_g) /\ StructsOK /\ profile \in Profiles /\ status \in {"running", "crashed"}
  /\ IsList(src) /\ IsList(scopes) /\ scopes # << >> /\ depth = Len(scopes) - 1
  /\ \A i \in DOMAIN scopes : DOMAIN scopes[i] \subseteq Names

AllFit == \A i \in DOMAIN scopes : \A x \in DOMAIN scopes[i] : Fits(i, x)

Known == Tables /\ (status = "running" => AllFit)

(* One item more. *)
LEMMA ItemIs ==
  ASSUME Tables, NEW item, NEW h, Item(item, h), h.ok => IsGen(h)
  PROVE  /\ status = "running" /\ src' = Append(src, item) /\ IsList(src)' /\ profile' = profile
         /\ \A j \in DOMAIN src : j \in DOMAIN src' /\ src'[j] = src[j]
         /\ \E j \in DOMAIN src' : src'[j] = item
         /\ IsGen(Now_g)' /\ status' \in {"running", "crashed"}
         /\ status' = "running" => h.ok /\ Now_g' = h
         /\ status' = "crashed" => ~ h.ok /\ tac_list' = tac_list /\ name_to_addr' = name_to_addr
<1>1. /\ status = "running" /\ src' = Append(src, item) /\ profile' = profile
      /\ h.ok => tac_list' = h.code /\ name_to_addr' = h.names /\ status' = status
      /\ ~ h.ok => status' = "crashed" /\ tac_list' = tac_list /\ name_to_addr' = name_to_addr
  BY DEF Item
<1>2. IsList(src) /\ IsGen(Now_g)
  BY DEF Tables
<1>3. /\ IsList(src') /\ DOMAIN src' = 1 .. Len(src) + 1 /\ src'[Len(src) + 1] = item
      /\ \A i \in 1 .. Len(src) : src'[i] = src[i]
  BY <1>1, <1>2, ListAppend
<1>4. DOMAIN src = 1 .. Len(src) /\ Len(src) \in Nat
  BY <1>2, ListIs
<1>5. /\ \A j \in DOMAIN src : j \in DOMAIN src' /\ src'[j] = src[j]
      /\ Len(src) + 1 \in DOMAIN src'
  BY <1>3, <1>4
<1>6. CASE h.ok
  <2>1. h \in Gens
    BY <1>6 DEF IsGen
  <2>2. Now_g' = h
    BY <1>1, <1>6, <2>1 DEF Now_g, Gens
  <2> QED
    BY <1>1, <1>3, <1>5, <1>6, <2>2 DEF IsList
<1>7. CASE ~ h.ok
  <2>1. Now_g' = Now_g
    BY <1>1, <1>7 DEF Now_g
  <2> QED
    BY <1>1, <1>2, <1>3, <1>5, <1>7, <2>1 DEF IsList
<1> QED
  BY <1>6, <1>7

(* An old variable stays what it is. *)
LEMMA OldFits ==
  ASSUME Tables, IsGen(Now_g)', Grown(Now_g, Now_g'),
         \A j \in DOMAIN src : j \in DOMAIN src' /\ src'[j] = src[j],
         NEW i \in DOMAIN scopes, NEW x \in DOMAIN scopes[i], Fits(i, x),
         scopes'[i][x] = scopes[i][x],
         i > 1 => NoFunction(Now_g', Len(tac_list) + 1),
         scopes[i][x].at # 0 =>
           ((name_to_addr'[x] = scopes[i][x].at) <=> (x \notin stale' /\ Inner(i, x)'))
  PROVE  Fits(i, x)'
<1> DEFINE v == scopes[i][x]
<1>1. v.at \in Nat /\ (v.at = 0 => i = 1 /\ Tailing(x)) /\ x \in Names
  BY DEF Fits, Tables
<1>2. Tailing(x) => Tailing(x)'
  BY DEF Tailing
<1>3. ASSUME v.at # 0
      PROVE  /\ Declaring(Now_g, v.at, v)' /\ name_to_addr'[x] # 0
             /\ i > 1 => NoFunction(Now_g, v.at)'
  <2>1. Declaring(Now_g, v.at, v) /\ name_to_addr[x] # 0 /\ (i > 1 => NoFunction(Now_g, v.at))
    BY <1>3 DEF Fits
  <2>2. Declaring(Now_g', v.at, v)
    BY <2>1, DeclaringGrows DEF Tables
  <2>3. name_to_addr'[x] # 0
    BY <1>1, <2>1 DEF Grown, Now_g
  <2>4. ASSUME i > 1
        PROVE  NoFunction(Now_g', v.at)
    <3> DEFINE n == Len(tac_list)
    <3>0. n \in Nat /\ Now_g.code = tac_list
      BY GenFields DEF Tables, Now_g
    <3>1. \A j \in v.at .. n : Now_g.code[j].op # "FUNCTION"
      BY <2>1, <2>4 DEF NoFunction, Now_g
    <3>2. \A j \in n + 1 .. Len(Now_g'.code) : Now_g'.code[j].op # "FUNCTION"
      BY <2>4 DEF NoFunction
    <3>3. \A j \in 1 .. n : Same(Now_g.code[j], Now_g'.code[j])
      BY <3>0 DEF Grown
    <3>4. v.at >= 1 /\ Len(Now_g'.code) \in Nat
      <4>1. IsGen(Now_g')
        OBVIOUS
      <4> QED
        BY <1>1, <1>3, <4>1, GenFields
    <3> HIDE DEF n
    <3> SUFFICES ASSUME NEW j \in v.at .. Len(Now_g'.code)
                 PROVE  Now_g'.code[j].op # "FUNCTION"
      BY DEF NoFunction
    <3>5. CASE j <= n
      <4>1. j \in 1 .. n /\ j \in v.at .. n
        BY <1>1, <3>0, <3>4, <3>5
      <4> QED
        BY <3>1, <3>3, <4>1 DEF Same, Patched
    <3>6. CASE ~ j <= n
      <4>1. j \in n + 1 .. Len(Now_g'.code)
        BY <1>1, <3>0, <3>4, <3>6
      <4> QED
        BY <3>2, <4>1
    <3> QED
      BY <3>5, <3>6
  <2> QED
    BY <2>2, <2>3, <2>4
<1> QED
  BY <1>1, <1>2, <1>3 DEF Fits

(* What every step does to the instructions. *)
Grows ==
  /\ IsGen(Now_g)' /\ Grown(Now_g, Now_g')
  /\ \A j \in DOMAIN src : j \in DOMAIN src' /\ src'[j] = src[j]
  /\ NoFunction(Now_g', Len(tac_list) + 1) \/ Len(scopes) = 1

ShapeOK ==
  /\ IsList(scopes) /\ scopes # << >>
  /\ \A i \in DOMAIN scopes : DOMAIN scopes[i] \subseteq Names

LEMMA TablesAre ==
  ASSUME Tables
  PROVE  /\ ShapeOK /\ Len(scopes) \in Nat \ {0} /\ DOMAIN scopes = 1 .. Len(scopes)
         /\ Len(tac_list) \in Nat /\ name_to_addr \in [Names -> Nat]
         /\ \A x \in Names : name_to_addr[x] <= Len(tac_list)
         /\ Last(scopes) = scopes[Len(scopes)]
<1>1. IsGen(Now_g) /\ Now_g.code = tac_list /\ Now_g.names = name_to_addr /\ IsList(scopes)
  BY DEF Tables, Now_g
<1>2. Len(tac_list) \in Nat /\ name_to_addr \in [Names -> Nat]
  BY <1>1, GenFields
<1>3. \A x \in Names : name_to_addr[x] <= Len(tac_list)
  BY <1>1 DEF IsGen
<1>4. Len(scopes) \in Nat /\ DOMAIN scopes = 1 .. Len(scopes)
  BY <1>1, ListIs
<1>5. Len(scopes) # 0
  BY <1>1 DEF Tables, IsList
<1> QED
  BY <1>2, <1>3, <1>4, <1>5 DEF Tables, ShapeOK, Last

LEMMA AtIs ==
  ASSUME Tables, NEW i \in DOMAIN scopes, NEW x \in DOMAIN scopes[i], Fits(i, x)
  PROVE  /\ x \in Names /\ scopes[i][x].at \in Nat /\ scopes[i][x].at <= Len(tac_list)
         /\ name_to_addr[x] \in Nat
<1>1. x \in Names /\ scopes[i][x].at \in Nat
  BY DEF Tables, Fits
<1>2. CASE scopes[i][x].at = 0
  BY <1>1, <1>2, TablesAre
<1>3. CASE scopes[i][x].at # 0
  <2>1. scopes[i][x].at \in 1 .. Len(tac_list)
    BY <1>3 DEF Fits, Declaring, Now_g
  <2> QED
    BY <1>1, <2>1, TablesAre
<1> QED
  BY <1>2, <1>3

LEMMA KeepsFit ==
  ASSUME Tables, AllFit, Grows, UNCHANGED <<scopes, stale>>,
         Registered(Now_g, Now_g', {}), NoFunction(Now_g', Len(tac_list) + 1)
  PROVE  AllFit'
<1> SUFFICES ASSUME NEW i \in DOMAIN scopes, NEW x \in DOMAIN scopes[i]
             PROVE  Fits(i, x)'
  BY DEF AllFit
<1>1. Fits(i, x) /\ (Inner(i, x)' <=> Inner(i, x))
  BY DEF AllFit, Inner
<1>2. ASSUME scopes[i][x].at # 0
      PROVE  (name_to_addr'[x] = scopes[i][x].at) <=> (x \notin stale' /\ Inner(i, x)')
  <2>1. name_to_addr[x] # 0 /\ x \in Names
    BY <1>1, <1>2, AtIs DEF Fits
  <2>2. name_to_addr'[x] = name_to_addr[x]
    BY <2>1 DEF Registered, Now_g
  <2> QED
    BY <1>1, <1>2, <2>2 DEF Fits
<1> QED
  BY <1>1, <1>2, OldFits DEF Grows

(* A new variable. *)
NewFits(v, x) ==
  /\ name_to_addr'[x] > Len(tac_list)
  /\ Declaring(Now_g', name_to_addr'[x], v)
  /\ NoFunction(Now_g', name_to_addr'[x]) \/ Len(scopes') = 1

LEMMA FreshFits ==
  ASSUME Tables, Grows, ShapeOK', NEW x \in Names, x \notin stale', NEW i, i = Len(scopes'),
         scopes'[i][x].at = DeclaredAt(x), NewFits(scopes'[i][x], x)
  PROVE  Fits(i, x)'
<1> DEFINE at == name_to_addr'[x]
<1>1. at \in Nat /\ at > Len(tac_list) /\ Len(tac_list) \in Nat
  <2>1. IsGen(Now_g') /\ Now_g'.names = name_to_addr'
    BY DEF Grows, Now_g
  <2>2. name_to_addr' \in [Names -> Nat]
    BY <2>1, GenFields
  <2> QED
    BY <2>2, TablesAre DEF NewFits
<1>2. scopes'[i][x].at = at
  BY <1>1 DEF DeclaredAt
<1>3. Len(scopes') \in Nat
  BY ListIs DEF ShapeOK
<1>4. Inner(i, x)'
  BY <1>3 DEF Inner
<1>5. (i > 1) => NoFunction(Now_g', at)
  BY <1>3 DEF NewFits
<1> HIDE DEF at
<1>6. at # 0
  BY <1>1
<1> QED
  BY <1>1, <1>2, <1>4, <1>5, <1>6 DEF Fits, NewFits, at

LEMMA OpensFit ==
  ASSUME Tables, AllFit, Grows, NEW ds, NEW param, NamesOf(ds) \subseteq Names,
         scopes' = Append(scopes, Places(ds, param)), stale' = stale \ NamesOf(ds),
         \A x \in NamesOf(ds) : NewFits(Places(ds, param)[x], x),
         \A x \in Declared \ NamesOf(ds) : name_to_addr'[x] = name_to_addr[x]
  PROVE  AllFit' /\ ShapeOK' /\ Len(scopes') = Len(scopes) + 1
<1> DEFINE n == Len(scopes)
<1>0. n \in Nat \ {0} /\ DOMAIN scopes = 1 .. n /\ IsList(scopes) /\ ShapeOK
  BY TablesAre DEF Tables
<1>1. /\ IsList(scopes') /\ Len(scopes') = n + 1 /\ scopes'[n + 1] = Places(ds, param)
      /\ DOMAIN scopes' = 1 .. n + 1
      /\ \A i \in 1 .. n : scopes'[i] = scopes[i]
  BY <1>0, ListAppend
<1>2. DOMAIN Places(ds, param) = NamesOf(ds)
  BY DEF Places
<1> HIDE DEF n
<1>3. ShapeOK'
  <2>1. scopes' # << >>
    BY <1>0, <1>1
  <2>2. \A i \in DOMAIN scopes' : DOMAIN scopes'[i] \subseteq Names
    BY <1>0, <1>1, <1>2 DEF ShapeOK
  <2> QED
    BY <1>1, <2>1, <2>2 DEF ShapeOK, IsList
<1>4. ASSUME NEW i \in 1 .. n, NEW x \in DOMAIN scopes[i]
      PROVE  Fits(i, x)'
  <2>1. Fits(i, x) /\ i \in DOMAIN scopes
    BY <1>0 DEF AllFit
  <2>2. x \in Names /\ scopes[i][x].at <= Len(tac_list) /\ scopes[i][x].at \in Nat
    BY <2>1, AtIs
  <2>3. Inner(i, x)' <=> (Inner(i, x) /\ x \notin NamesOf(ds))
    <3>1. \A j \in i + 1 .. n : scopes'[j] = scopes[j]
      BY <1>0, <1>1
    <3>2. n + 1 \in i + 1 .. n + 1
      BY <1>0
    <3>3. i + 1 .. n + 1 = (i + 1 .. n) \union {n + 1}
      BY <1>0
    <3> QED
      BY <1>1, <1>2, <3>1, <3>2, <3>3 DEF Inner, n
  <2>4. ASSUME scopes[i][x].at # 0
        PROVE  (name_to_addr'[x] = scopes[i][x].at) <=> (x \notin stale' /\ Inner(i, x)')
    <3>1. CASE x \in NamesOf(ds)
      <4>1. name_to_addr'[x] > Len(tac_list)
        BY <3>1 DEF NewFits
      <4>2. name_to_addr'[x] \in Nat /\ Len(tac_list) \in Nat
        <5>1. IsGen(Now_g') /\ Now_g'.names = name_to_addr'
          BY DEF Grows, Now_g
        <5> QED
          BY <2>2, <5>1, GenFields, TablesAre
      <4>3. name_to_addr'[x] # scopes[i][x].at
        BY <2>2, <4>1, <4>2
      <4> QED
        BY <2>3, <3>1, <4>3
    <3>2. CASE x \notin NamesOf(ds)
      <4>1. name_to_addr'[x] = name_to_addr[x]
        BY <2>1, <3>2 DEF Declared
      <4> QED
        BY <2>1, <2>3, <2>4, <3>2, <4>1 DEF Fits
    <3> QED
      BY <3>1, <3>2
  <2>5. i > 1 => NoFunction(Now_g', Len(tac_list) + 1)
    BY <1>0 DEF Grows, n
  <2>6. scopes'[i][x] = scopes[i][x]
    BY <1>1
  <2> QED
    BY <2>1, <2>4, <2>5, <2>6, OldFits DEF Grows
<1>5. PICK m \in Nat : m = n + 1
  BY <1>0
<1>6. ASSUME NEW x \in NamesOf(ds)
      PROVE  Fits(m, x)'
  <2>1. m = Len(scopes') /\ scopes'[m][x] = Places(ds, param)[x]
    BY <1>1, <1>5
  <2>2. /\ x \in Names /\ NewFits(scopes'[m][x], x) /\ x \notin stale'
        /\ scopes'[m][x].at = DeclaredAt(x)
    <3>1. Places(ds, param)[x].at = DeclaredAt(x)
      BY DEF Places
    <3>2. x \in Names /\ NewFits(Places(ds, param)[x], x) /\ x \notin stale'
      OBVIOUS
    <3> QED
      BY <2>1, <3>1, <3>2
  <2> QED
    BY <1>3, <2>1, <2>2, FreshFits
<1>7. AllFit'
  <2> SUFFICES ASSUME NEW i \in DOMAIN scopes', NEW x \in DOMAIN scopes'[i]
               PROVE  Fits(i, x)'
    BY DEF AllFit
  <2>1. CASE i = m
    <3>1. x \in NamesOf(ds)
      BY <1>1, <1>2, <1>5, <2>1
    <3> QED
      BY <1>6, <2>1, <3>1
  <2>2. CASE i # m
    <3>1. i \in 1 .. n
      BY <1>0, <1>1, <1>5, <2>2
    <3> QED
      BY <1>1, <1>4, <3>1
  <2> QED
    BY <2>1, <2>2
<1> QED
  BY <1>1, <1>3, <1>7 DEF n

LEMMA DeclaresShape ==
  ASSUME Tables, NEW ds, NamesOf(ds) \subseteq Names, Declares(ds)
  PROVE  LET m == Len(scopes)
         IN  /\ ShapeOK' /\ Len(scopes') = m /\ DOMAIN scopes' = 1 .. m
             /\ \A x \in NamesOf(ds) : x \notin DOMAIN scopes[m]
             /\ stale' = stale \ NamesOf(ds)
             /\ \A i \in 1 .. m : i # m => scopes'[i] = scopes[i]
             /\ DOMAIN scopes'[m] = NamesOf(ds) \union DOMAIN scopes[m]
             /\ \A x \in NamesOf(ds) : scopes'[m][x] = Places(ds, FALSE)[x]
             /\ \A x \in DOMAIN scopes[m] : scopes'[m][x] = scopes[m][x]
<1> DEFINE m   == Len(scopes)
           new == Over(Places(ds, FALSE), scopes[m])
           u   == [scopes EXCEPT ![m] = new]
<1>0. /\ m \in Nat \ {0} /\ DOMAIN scopes = 1 .. m /\ IsList(scopes)
      /\ scopes # << >> /\ ShapeOK /\ Last(scopes) = scopes[m]
  BY TablesAre DEF Tables
<1>1. /\ \A x \in NamesOf(ds) : x \notin DOMAIN scopes[m]
      /\ scopes' = u /\ stale' = stale \ NamesOf(ds)
  BY <1>0 DEF Declares
<1>2. DOMAIN Places(ds, FALSE) = NamesOf(ds)
  BY DEF Places
<1>3. /\ DOMAIN new = NamesOf(ds) \union DOMAIN scopes[m]
      /\ \A x \in NamesOf(ds) : new[x] = Places(ds, FALSE)[x]
      /\ \A x \in DOMAIN scopes[m] : new[x] = scopes[m][x]
  BY <1>1, <1>2 DEF Over
<1> HIDE DEF new
<1>4. /\ IsList(u) /\ Len(u) = m /\ DOMAIN u = 1 .. m
      /\ u[m] = new /\ \A i \in 1 .. m : i # m => u[i] = scopes[i]
  BY <1>0, ListReplace
<1> HIDE DEF u
<1>5. /\ IsList(scopes') /\ Len(scopes') = m /\ DOMAIN scopes' = 1 .. m
      /\ scopes'[m] = new /\ \A i \in 1 .. m : i # m => scopes'[i] = scopes[i]
  BY <1>1, <1>4 DEF IsList
<1>6. scopes' # << >>
  BY <1>0, <1>5
<1>7. \A i \in DOMAIN scopes' : DOMAIN scopes'[i] \subseteq Names
  BY <1>0, <1>3, <1>5 DEF ShapeOK
<1> QED
  BY <1>1, <1>3, <1>5, <1>6, <1>7 DEF ShapeOK, IsList

LEMMA DeclaresFit ==
  ASSUME Tables, AllFit, Grows, NEW ds, NamesOf(ds) \subseteq Names, Declares(ds),
         \A x \in NamesOf(ds) :
           \/ NewFits(Places(ds, FALSE)[x], x)
           \/ Len(scopes) = 1 /\ name_to_addr'[x] = name_to_addr[x] /\ Tailing(x)',
         \A x \in Declared \ NamesOf(ds) :
           name_to_addr'[x] = name_to_addr[x] \/ name_to_addr[x] = 0
  PROVE  AllFit' /\ ShapeOK' /\ Len(scopes') = Len(scopes)
<1>0. /\ Len(scopes) \in Nat \ {0} /\ DOMAIN scopes = 1 .. Len(scopes) /\ IsList(scopes)
      /\ scopes # << >> /\ ShapeOK /\ Last(scopes) = scopes[Len(scopes)]
  BY TablesAre DEF Tables
<1>1. PICK m \in Nat \ {0} : m = Len(scopes)
  BY <1>0
<1>2. (\A x \in NamesOf(ds) : x \notin DOMAIN scopes[m]) /\ stale' = stale \ NamesOf(ds)
  BY <1>1, DeclaresShape
<1>4. /\ DOMAIN scopes'[m] = NamesOf(ds) \union DOMAIN scopes[m]
      /\ \A x \in NamesOf(ds) : scopes'[m][x] = Places(ds, FALSE)[x]
      /\ \A x \in DOMAIN scopes[m] : scopes'[m][x] = scopes[m][x]
  BY <1>1, DeclaresShape
<1>5. /\ Len(scopes') = m /\ DOMAIN scopes' = 1 .. m
      /\ \A i \in 1 .. m : i # m => scopes'[i] = scopes[i]
  BY <1>1, DeclaresShape
<1>6. ShapeOK'
  BY DeclaresShape
<1>7. ASSUME NEW i \in 1 .. m, NEW x \in DOMAIN scopes[i]
      PROVE  Fits(i, x)'
  <2>1. Fits(i, x) /\ i \in DOMAIN scopes
    BY <1>0, <1>1 DEF AllFit
  <2>2. x \in Names /\ scopes[i][x].at <= Len(tac_list) /\ scopes[i][x].at \in Nat
    BY <2>1, AtIs
  <2>3. scopes'[i][x] = scopes[i][x]
    BY <1>4, <1>5
  <2>4. ASSUME scopes[i][x].at # 0
        PROVE  (name_to_addr'[x] = scopes[i][x].at) <=> (x \notin stale' /\ Inner(i, x)')
    <3>1. CASE x \in NamesOf(ds)
      <4>0. i # m /\ m \in i + 1 .. m /\ m # 1
        BY <1>1, <1>2, <3>1
      <4>1. name_to_addr'[x] > Len(tac_list)
        BY <1>1, <3>1, <4>0 DEF NewFits
      <4>2. name_to_addr'[x] \in Nat /\ Len(tac_list) \in Nat
        <5>1. IsGen(Now_g') /\ Now_g'.names = name_to_addr'
          BY DEF Grows, Now_g
        <5> QED
          BY <2>2, <5>1, GenFields, TablesAre
      <4>3. name_to_addr'[x] # scopes[i][x].at
        BY <2>2, <4>1, <4>2
      <4>4. ~ Inner(i, x)'
        BY <1>4, <1>5, <3>1, <4>0 DEF Inner
      <4> QED
        BY <4>3, <4>4
    <3>2. CASE x \notin NamesOf(ds)
      <4>1. name_to_addr'[x] = name_to_addr[x]
        BY <2>1, <2>4, <3>2 DEF Declared, Fits
      <4>2. \A j \in 1 .. m : x \in DOMAIN scopes'[j] <=> x \in DOMAIN scopes[j]
        BY <1>4, <1>5, <3>2
      <4>3. Inner(i, x)' <=> Inner(i, x)
        <5>1. \A j \in i + 1 .. m : j \in 1 .. m
          BY <1>1
        <5> QED
          BY <1>1, <1>5, <4>2, <5>1 DEF Inner
      <4> QED
        BY <1>2, <2>1, <2>4, <3>2, <4>1, <4>3 DEF Fits
    <3> QED
      BY <3>1, <3>2
  <2>5. i > 1 => NoFunction(Now_g', Len(tac_list) + 1)
    BY <1>1 DEF Grows
  <2> QED
    BY <2>1, <2>3, <2>4, <2>5, OldFits DEF Grows
<1>8. ASSUME NEW x \in NamesOf(ds)
      PROVE  Fits(m, x)'
  <2>1. m = Len(scopes') /\ scopes'[m][x] = Places(ds, FALSE)[x] /\ x \in Names /\ x \notin stale'
    BY <1>2, <1>4, <1>5
  <2>2. CASE NewFits(Places(ds, FALSE)[x], x)
    <3>1. NewFits(scopes'[m][x], x) /\ scopes'[m][x].at = DeclaredAt(x)
      BY <2>1, <2>2 DEF Places
    <3> QED
      BY <1>6, <2>1, <3>1, FreshFits
  <2>3. CASE Len(scopes) = 1 /\ name_to_addr'[x] = name_to_addr[x] /\ Tailing(x)'
    <3>1. ~ name_to_addr'[x] > Len(tac_list)
      <4>1. name_to_addr[x] \in Nat /\ name_to_addr[x] <= Len(tac_list) /\ Len(tac_list) \in Nat
        BY <2>1, TablesAre
      <4> QED
        BY <2>3, <4>1
    <3>2. scopes'[m][x].at = 0
      BY <2>1, <3>1 DEF Places, DeclaredAt
    <3> QED
      BY <1>1, <2>3, <3>2 DEF Fits
  <2> QED
    BY <2>2, <2>3
<1>9. AllFit'
  <2> SUFFICES ASSUME NEW i \in DOMAIN scopes', NEW x \in DOMAIN scopes'[i]
               PROVE  Fits(i, x)'
    BY DEF AllFit
  <2>1. CASE x \in DOMAIN scopes[i]
    BY <1>5, <1>7, <2>1
  <2>2. CASE x \notin DOMAIN scopes[i]
    <3>1. i = m /\ x \in NamesOf(ds)
      BY <1>4, <1>5, <2>2
    <3> QED
      BY <1>8, <3>1
  <2> QED
    BY <2>1, <2>2
<1> QED
  BY <1>1, <1>5, <1>6, <1>9

LEMMA ClosesFit ==
  ASSUME Tables, AllFit, Len(scopes) > 1, Now_g' = Now_g,
         \A j \in DOMAIN src : j \in DOMAIN src' /\ src'[j] = src[j],
         scopes' = Front(scopes), stale' = stale \union DOMAIN Last(scopes)
  PROVE  AllFit' /\ ShapeOK' /\ Len(scopes') = Len(scopes) - 1
<1>0. /\ Len(scopes) \in Nat \ {0} /\ DOMAIN scopes = 1 .. Len(scopes) /\ IsList(scopes)
      /\ scopes # << >> /\ ShapeOK /\ Last(scopes) = scopes[Len(scopes)] /\ IsGen(Now_g)
      /\ name_to_addr' = name_to_addr /\ Len(tac_list) \in Nat
  <2>1. name_to_addr' = name_to_addr
    BY DEF Now_g
  <2> QED
    BY <2>1, TablesAre DEF Tables
<1>1. PICK m \in Nat \ {0} : m = Len(scopes) /\ m > 1
  BY <1>0
<1>2. /\ IsList(scopes') /\ Len(scopes') = m - 1 /\ DOMAIN scopes' = 1 .. m - 1
      /\ \A i \in 1 .. m - 1 : scopes'[i] = scopes[i]
  BY <1>0, <1>1, ListFront
<1>3. ShapeOK'
  <2>1. scopes' # << >>
    BY <1>1, <1>2
  <2>2. \A i \in DOMAIN scopes' : DOMAIN scopes'[i] \subseteq Names
    BY <1>0, <1>1, <1>2 DEF ShapeOK
  <2> QED
    BY <1>2, <2>1, <2>2 DEF ShapeOK, IsList
<1>4. Grown(Now_g, Now_g) /\ NoFunction(Now_g, Len(tac_list) + 1)
  <2>1. Moved(Now_g, Now_g)
    BY <1>0, MovedReflexive
  <2>2. Grown(Now_g, Now_g) /\ NoFunction(Now_g, Len(Now_g.code) + 1)
    BY <1>0, <2>1, MovedGrows, MovedRegisters
  <2> QED
    BY <2>2 DEF Now_g
<1>5. ASSUME NEW i \in DOMAIN scopes', NEW x \in DOMAIN scopes'[i]
      PROVE  Fits(i, x)'
  <2>1. Fits(i, x) /\ i \in DOMAIN scopes /\ x \in DOMAIN scopes[i] /\ scopes'[i][x] = scopes[i][x]
    BY <1>0, <1>1, <1>2 DEF AllFit
  <2>2. (x \notin stale' /\ Inner(i, x)') <=> (x \notin stale /\ Inner(i, x))
    <3>1. i + 1 .. m = (i + 1 .. m - 1) \union {m}
      BY <1>1, <1>2
    <3>2. \A j \in i + 1 .. m - 1 : scopes'[j] = scopes[j]
      BY <1>1, <1>2
    <3> QED
      BY <1>0, <1>1, <1>2, <3>1, <3>2 DEF Inner
  <2>3. ASSUME scopes[i][x].at # 0
        PROVE  (name_to_addr'[x] = scopes[i][x].at) <=> (x \notin stale' /\ Inner(i, x)')
    BY <1>0, <2>1, <2>2, <2>3 DEF Fits
  <2>4. IsGen(Now_g)'
    BY <1>0
  <2> QED
    BY <1>4, <2>1, <2>3, <2>4, OldFits
<1> QED
  BY <1>1, <1>2, <1>3, <1>5 DEF AllFit

-----------------------------------------------------------------------------
(* The steps of a program, one by one. *)
LEMMA KnownNext ==
  ASSUME Tables, NEW item, NEW h, Item(item, h), h.ok => IsGen(h), StructsOK', ShapeOK',
         depth' = Len(scopes') - 1, status' = "running" => AllFit'
  PROVE  Known'
<1>1. /\ profile' = profile /\ IsList(src)' /\ IsGen(Now_g)' /\ status' \in {"running", "crashed"}
  BY ItemIs
<1>2. profile' \in Profiles
  BY <1>1 DEF Tables
<1> QED
  BY <1>1, <1>2 DEF Known, Tables, ShapeOK

LEMMA GrowsIs ==
  ASSUME Tables, NEW item, NEW h, Item(item, h), h.ok => Grown(Now_g, h), status' = "running",
         NoFunction(h, Len(tac_list) + 1) \/ Len(scopes) = 1
  PROVE  Grows /\ Now_g' = h /\ name_to_addr' = h.names
<1>1. h.ok => IsGen(h)
  BY DEF Grown
<1>2. /\ \A j \in DOMAIN src : j \in DOMAIN src' /\ src'[j] = src[j]
      /\ IsGen(Now_g)' /\ h.ok /\ Now_g' = h
  BY <1>1, ItemIs
<1>3. Now_g'.names = name_to_addr'
  BY DEF Now_g
<1> QED
  BY <1>2, <1>3 DEF Grows

(* A step that leaves the generator alone. *)
LEMMA StillIs ==
  ASSUME Tables, NEW item, Item(item, Now_g)
  PROVE  /\ Grows /\ Now_g' = Now_g /\ name_to_addr' = name_to_addr /\ status' = "running"
         /\ Registered(Now_g, Now_g', {}) /\ NoFunction(Now_g', Len(tac_list) + 1)
<1>1. IsGen(Now_g) /\ Now_g.ok /\ Now_g.code = tac_list
  BY DEF Tables, Now_g
<1>2. Moved(Now_g, Now_g)
  BY <1>1, MovedReflexive
<1>3. Grown(Now_g, Now_g) /\ Registered(Now_g, Now_g, {}) /\ NoFunction(Now_g, Len(tac_list) + 1)
  BY <1>1, <1>2, MovedGrows, MovedRegisters
<1>4. status' = "running"
  BY <1>1, ItemIs
<1>5. Grows /\ Now_g' = Now_g /\ name_to_addr' = Now_g.names
  BY <1>3, <1>4, GrowsIs
<1> QED
  BY <1>3, <1>4, <1>5 DEF Now_g

LEMMA StructStep ==
  ASSUME Known, NEW d \in Structs[profile], StructDef(d[1], d[2]), UNCHANGED <<scopes, stale>>
  PROVE  Known'
<1> DEFINE item == <<"struct", d[1], d[2]>>
<1>1. Tables /\ Item(item, Now_g) /\ depth' = depth /\ profile \in Profiles
  BY DEF Known, Tables, StructDef
<1>2. status = "running" /\ AllFit
  BY <1>1 DEF Known, Item
<1> HIDE DEF item
<1>3. /\ Grows /\ Registered(Now_g, Now_g', {}) /\ NoFunction(Now_g', Len(tac_list) + 1)
      /\ Now_g.ok /\ IsGen(Now_g)
  BY <1>1, StillIs DEF Tables, Now_g
<1>4. AllFit'
  BY <1>1, <1>2, <1>3, KeepsFit
<1>5. StructsOK'
  <2>1. d[1] # "int" /\ handle_DefList(d[2]) \in FieldLists
    BY <1>1, StructsAssumption DEF FieldLists
  <2>2. strc_map' = [t \in DOMAIN strc_map \union {d[1]} |->
                       IF t \in DOMAIN strc_map THEN strc_map[t] ELSE handle_DefList(d[2])]
    BY DEF StructDef
  <2> QED
    BY <1>1, <2>1, <2>2 DEF StructsOK, Tables
<1>6. ShapeOK' /\ depth' = Len(scopes') - 1
  BY <1>1 DEF Tables, ShapeOK, IsList
<1> QED
  BY <1>1, <1>3, <1>4, <1>5, <1>6, KnownNext

LEMMA ExtStep ==
  ASSUME Known, NEW ds \in ExtDecs[profile], ExtDec(ds), Declares(ds)
  PROVE  Known'
<1> DEFINE h == translate_ExtDecList(ds, Now_g)
           x == ds[1].name
           item == <<"ext", ds>>
<1>1. /\ Tables /\ Item(item, h) /\ depth' = depth /\ depth = 0 /\ strc_map' = strc_map
      /\ profile \in Profiles /\ KnownType(ds[1].spec)
  BY DEF Known, Tables, ExtDec
<1>2. status = "running" /\ AllFit /\ IsGen(Now_g) /\ Now_g.ok /\ StructsOK
  BY <1>1 DEF Known, Item, Tables, Now_g
<1>3. ds # << >> /\ Distinct(ds)
  BY <1>1, ExtDecsAssumption
<1>4. Len(scopes) = 1
  BY <1>1, TablesAre DEF Tables
<1>5. /\ Grown(Now_g, h) /\ h.ok /\ 1 \in DOMAIN ds /\ x \in Names
      /\ h.names = [name_to_addr EXCEPT ![x] = Len(tac_list) + 1]
      /\ \A v : SameVar(v, ds[1], FALSE) => Declaring(h, Len(tac_list) + 1, v)
  <2>1. Now_g.names = name_to_addr /\ Now_g.code = tac_list
    BY DEF Now_g
  <2> QED
    BY <1>1, <1>2, <1>3, <2>1, ExtGrows
<1> HIDE DEF h
<1>6. IsGen(h) /\ NamesOf(ds) \subseteq Names /\ IsList(ds) /\ DOMAIN ds = 1 .. Len(ds)
  BY <1>3, <1>5, DistinctIs DEF Grown
<1>7. status' = "running" /\ \E j \in DOMAIN src' : src'[j] = item
  BY <1>1, <1>5, <1>6, ItemIs
<1>8. Grows /\ Now_g' = h /\ name_to_addr' = h.names
  BY <1>1, <1>4, <1>5, <1>7, GrowsIs
<1>9. Len(tac_list) \in Nat /\ name_to_addr \in [Names -> Nat]
  BY <1>1, TablesAre
<1>10. ASSUME NEW y \in NamesOf(ds)
       PROVE  \/ NewFits(Places(ds, FALSE)[y], y)
              \/ Len(scopes) = 1 /\ name_to_addr'[y] = name_to_addr[y] /\ Tailing(y)'
  <2>1. CASE y = x
    <3> DEFINE v == Places(ds, FALSE)[x]
    <3>2. SameVar(v, ds[1], FALSE)
      BY <1>3, <1>5, PlaceIs
    <3> HIDE DEF v
    <3>3. name_to_addr'[x] = Len(tac_list) + 1
      BY <1>5, <1>8, <1>9
    <3>4. Declaring(Now_g', name_to_addr'[x], v)
      BY <1>5, <1>8, <3>2, <3>3
    <3>5. Len(scopes') = 1
      BY <1>1, <1>4, <1>6, DeclaresShape
    <3>6. name_to_addr'[x] > Len(tac_list)
      BY <1>9, <3>3
    <3>7. NewFits(v, x)
      BY <3>4, <3>5, <3>6 DEF NewFits
    <3> QED
      BY <2>1, <3>7 DEF v
  <2>2. CASE y # x
    <3>1. y \in Names
      BY <1>6
    <3>2. name_to_addr'[y] = name_to_addr[y]
      BY <1>5, <1>8, <1>9, <2>2, <3>1
    <3>3. PICK i \in DOMAIN ds : ds[i].name = y
      BY DEF NamesOf
    <3>4. i # 1 /\ i \in 1 .. Len(ds) /\ ds \in Seq(Range(ds)) /\ Len(ds) \in Nat
      BY <1>6, <2>2, <3>3 DEF IsList
    <3>5. i - 1 \in DOMAIN Tail(ds) /\ Tail(ds)[i - 1] = ds[i]
      <4>1. DOMAIN Tail(ds) = 1 .. Len(ds) - 1
        BY <1>3, <3>4
      <4>2. i - 1 \in 1 .. Len(ds) - 1 /\ i - 1 + 1 = i
        BY <3>4
      <4>3. \A k \in 1 .. Len(ds) - 1 : Tail(ds)[k] = ds[k + 1]
        BY <1>3, <3>4
      <4> QED
        BY <4>1, <4>2, <4>3
    <3>6. y \in NamesOf(Tail(ds))
      BY <3>3, <3>5 DEF NamesOf
    <3>7. Tailing(y)'
      BY <1>7, <3>6 DEF Tailing
    <3> QED
      BY <1>4, <3>2, <3>7
  <2> QED
    BY <2>1, <2>2
<1>11. \A y \in Declared \ NamesOf(ds) :
         name_to_addr'[y] = name_to_addr[y] \/ name_to_addr[y] = 0
  <2> TAKE y \in Declared \ NamesOf(ds)
  <2>1. x \in NamesOf(ds) /\ y \in Names
    BY <1>1, <1>5 DEF NamesOf, Declared, Tables
  <2> QED
    BY <1>5, <1>8, <1>9, <2>1
<1>12. AllFit' /\ ShapeOK' /\ Len(scopes') = Len(scopes)
  BY <1>1, <1>2, <1>6, <1>8, <1>10, <1>11, DeclaresFit
<1>13. StructsOK' /\ depth' = Len(scopes') - 1
  BY <1>1, <1>2, <1>12 DEF StructsOK, Tables
<1> HIDE DEF item
<1> QED
  BY <1>1, <1>6, <1>12, <1>13, KnownNext

LEMMA FunctionStep ==
  ASSUME Known, NEW f \in Functions[profile], Function(f[1], f[2]), f[1] \notin DOMAIN scopes[1],
         scopes' = Append(scopes, Places(f[2], TRUE)), stale' = stale \ NamesOf(f[2])
  PROVE  Known'
<1> DEFINE ds == f[2]
           h == translate_FunDec(f[1], ds, Now_g)
           item == <<"fun", f[1], ds>>
<1>1. /\ Tables /\ Item(item, h) /\ depth' = 1 /\ depth = 0 /\ strc_map' = strc_map
      /\ profile \in Profiles /\ \A i \in DOMAIN ds : KnownType(ds[i].spec)
  BY DEF Known, Tables, Function
<1>2. status = "running" /\ AllFit /\ IsGen(Now_g) /\ Now_g.ok /\ StructsOK
  BY <1>1 DEF Known, Item, Tables, Now_g
<1>3. f[1] \in Names /\ Distinct(ds)
  BY <1>1, FunctionsAssumption
<1>4. Len(scopes) = 1 /\ DOMAIN scopes = 1 .. 1
  BY <1>1, TablesAre DEF Tables
<1>5. /\ Grown(Now_g, h) /\ h.ok /\ NoFunction(h, Len(tac_list) + 2)
      /\ \A i \in DOMAIN ds :
           /\ h.names[ds[i].name] > Len(tac_list) + 1
           /\ \A v : SameVar(v, ds[i], TRUE) => Declaring(h, h.names[ds[i].name], v)
      /\ \A x \in Names : x \notin NamesOf(ds) /\ x # f[1] => h.names[x] = name_to_addr[x]
  <2>1. Now_g.names = name_to_addr /\ Now_g.code = tac_list
    BY DEF Now_g
  <2>2. HeadDone(f[1], ds, Now_g, h)
    BY <1>1, <1>2, <1>3, FunGrows
  <2> HIDE DEF h
  <2> QED
    BY <1>2, <2>1, <2>2 DEF HeadDone
<1> HIDE DEF h
<1>6. IsGen(h) /\ NamesOf(ds) \subseteq Names /\ h.names \in [Names -> Nat]
  BY <1>3, <1>5, DistinctIs, GenFields DEF Grown
<1>7. status' = "running"
  BY <1>1, <1>5, <1>6, ItemIs
<1> HIDE DEF item
<1>8. Grows /\ Now_g' = h /\ name_to_addr' = h.names
  BY <1>1, <1>4, <1>5, <1>7, GrowsIs
<1>9. Len(tac_list) \in Nat
  BY <1>1, TablesAre
<1>10. ASSUME NEW x \in NamesOf(ds)
       PROVE  NewFits(Places(ds, TRUE)[x], x)
  <2>1. PICK i \in DOMAIN ds : ds[i].name = x
    BY DEF NamesOf
  <2>2. SameVar(Places(ds, TRUE)[x], ds[i], TRUE)
    BY <1>3, <2>1, PlaceIs
  <2>3. name_to_addr'[x] > Len(tac_list) + 1 /\ name_to_addr'[x] \in Nat
    BY <1>5, <1>6, <1>8, <2>1
  <2>4. Declaring(Now_g', name_to_addr'[x], Places(ds, TRUE)[x])
    BY <1>5, <1>8, <2>1, <2>2
  <2>5. NoFunction(Now_g', name_to_addr'[x])
    <3> SUFFICES ASSUME NEW j \in name_to_addr'[x] .. Len(h.code)
                 PROVE  h.code[j].op # "FUNCTION"
      BY <1>8 DEF NoFunction
    <3>1. Len(h.code) \in Nat
      BY <1>6, GenFields
    <3>2. j \in Len(tac_list) + 2 .. Len(h.code)
      BY <1>9, <2>3, <3>1
    <3> QED
      BY <1>5, <3>2 DEF NoFunction
  <2>6. name_to_addr'[x] > Len(tac_list)
    BY <1>9, <2>3
  <2> QED
    BY <2>4, <2>5, <2>6 DEF NewFits
<1>11. ASSUME NEW x \in Declared \ NamesOf(ds)
       PROVE  name_to_addr'[x] = name_to_addr[x]
  <2>1. x \in DOMAIN scopes[1] /\ x \in Names
    BY <1>1, <1>4 DEF Declared, Tables
  <2> QED
    BY <1>5, <1>8, <2>1
<1>12. AllFit' /\ ShapeOK' /\ Len(scopes') = Len(scopes) + 1
  <2>1. scopes' = Append(scopes, Places(ds, TRUE)) /\ stale' = stale \ NamesOf(ds)
    OBVIOUS
  <2> HIDE DEF ds
  <2> QED
    BY <1>1, <1>2, <1>6, <1>8, <1>10, <1>11, <2>1, OpensFit
<1>13. StructsOK' /\ depth' = Len(scopes') - 1
  BY <1>1, <1>2, <1>4, <1>12 DEF StructsOK, Tables
<1> QED
  BY <1>1, <1>6, <1>12, <1>13, KnownNext

LEMMA DefStep ==
  ASSUME Known, NEW d \in Defs[profile], Def(d), Declares(<<d>>)
  PROVE  Known'
<1> DEFINE h == translate_Dec(d, translate_Specifier(d.spec), Now_g)
           x == d.name
           ds == <<d>>
           item == <<"def", d>>
<1>1. /\ Tables /\ Item(item, h) /\ depth' = depth /\ depth > 0 /\ strc_map' = strc_map
      /\ profile \in Profiles /\ KnownType(d.spec)
  BY DEF Known, Tables, Def
<1>2. status = "running" /\ AllFit /\ IsGen(Now_g) /\ Now_g.ok /\ StructsOK
  BY <1>1 DEF Known, Item, Tables, Now_g
<1>3. IsDeclarator(d) /\ x \in Names /\ (d.init # << >> => IsExp(d.init) /\ IsScalar(d))
  BY <1>1, DefsAssumption DEF IsScalar, IsDeclarator
<1>4. h.ok => /\ Grown(Now_g, h) /\ Registered(Now_g, h, {x}) /\ NoFunction(h, Len(tac_list) + 1)
              /\ \A v : SameVar(v, d, FALSE) => Declaring(h, h.names[x], v)
  <2>1. Now_g.code = tac_list
    BY DEF Now_g
  <2> QED
    BY <1>1, <1>2, <1>3, <2>1, DefGrows
<1> HIDE DEF h
<1>5. h.ok => IsGen(h) /\ h.names \in [Names -> Nat]
  BY <1>4, GenFields DEF Grown
<1> HIDE DEF item
<1>6. Len(tac_list) \in Nat
  BY <1>1, TablesAre
<1>7. NamesOf(ds) = {x} /\ Distinct(ds) /\ 1 \in DOMAIN ds /\ ds[1] = d
  <2>1. DOMAIN ds = {1} /\ ds[1] = d
    OBVIOUS
  <2>2. ds \in Seq(Range(ds))
    BY <2>1 DEF Range
  <2> HIDE DEF ds
  <2> QED
    BY <1>3, <2>1, <2>2 DEF NamesOf, Distinct
<1>8. Declares(ds) /\ NamesOf(ds) \subseteq Names
  BY <1>3, <1>7
<1> HIDE DEF ds
<1>9. ShapeOK' /\ Len(scopes') = Len(scopes)
  BY <1>1, <1>8, DeclaresShape
<1>10. ASSUME status' = "running"
       PROVE  AllFit'
  <2>1. h.ok
    BY <1>1, <1>5, <1>10, ItemIs
  <2>2. Grows /\ Now_g' = h /\ name_to_addr' = h.names
    BY <1>1, <1>4, <1>10, <2>1, GrowsIs
  <2>3. NewFits(Places(ds, FALSE)[x], x)
    <3>1. SameVar(Places(ds, FALSE)[x], d, FALSE)
      BY <1>7, PlaceIs
    <3>2. name_to_addr'[x] > Len(tac_list) /\ name_to_addr'[x] \in Nat
      <4>1. h.names[x] > Len(tac_list)
        BY <1>3, <1>4, <2>1 DEF Registered, Now_g
      <4> QED
        BY <1>3, <1>5, <2>1, <2>2, <4>1
    <3>3. Declaring(Now_g', name_to_addr'[x], Places(ds, FALSE)[x])
      BY <1>4, <2>1, <2>2, <3>1
    <3>4. NoFunction(Now_g', name_to_addr'[x])
      <4> SUFFICES ASSUME NEW j \in name_to_addr'[x] .. Len(h.code)
                   PROVE  h.code[j].op # "FUNCTION"
        BY <2>2 DEF NoFunction
      <4>1. Len(h.code) \in Nat
        BY <1>5, <2>1, GenFields
      <4>2. j \in Len(tac_list) + 1 .. Len(h.code)
        BY <1>6, <3>2, <4>1
      <4> QED
        BY <1>4, <2>1, <4>2 DEF NoFunction
    <3> QED
      BY <3>2, <3>3, <3>4 DEF NewFits
  <2>4. ASSUME NEW y \in Declared \ NamesOf(ds)
        PROVE  name_to_addr'[y] = name_to_addr[y] \/ name_to_addr[y] = 0
    <3>1. y \in Names /\ y # x
      BY <1>1, <1>7 DEF Declared, Tables
    <3> QED
      BY <1>4, <2>1, <2>2, <3>1 DEF Registered, Now_g
  <2>5. \A y \in NamesOf(ds) : NewFits(Places(ds, FALSE)[y], y)
    BY <1>7, <2>3
  <2> QED
    BY <1>1, <1>2, <1>8, <2>2, <2>4, <2>5, DeclaresFit
<1>11. StructsOK' /\ depth' = Len(scopes') - 1
  BY <1>1, <1>2, <1>9 DEF StructsOK, Tables
<1> QED
  BY <1>1, <1>5, <1>9, <1>10, <1>11, KnownNext

LEMMA OpenStep ==
  ASSUME Known, OpenBlock, scopes' = Append(scopes, EmptyScope), UNCHANGED stale
  PROVE  Known'
<1>1. /\ Tables /\ Item(<<"open">>, Now_g) /\ depth' = depth + 1 /\ strc_map' = strc_map
  BY DEF Known, OpenBlock
<1>2. AllFit /\ Now_g.ok /\ IsGen(Now_g) /\ StructsOK
  BY <1>1 DEF Known, Item, Now_g, Tables
<1>3. Grows /\ name_to_addr' = name_to_addr
  BY <1>1, StillIs
<1>4. PICK ds : ds = << >>
  OBVIOUS
<1>5. NamesOf(ds) = {}
  BY <1>4 DEF NamesOf
<1>6. Places(ds, "") = EmptyScope
  BY <1>5 DEF Places, EmptyScope
<1>7. scopes' = Append(scopes, Places(ds, "")) /\ stale' = stale \ NamesOf(ds)
  BY <1>5, <1>6
<1>8. AllFit' /\ ShapeOK' /\ Len(scopes') = Len(scopes) + 1
  BY <1>1, <1>2, <1>3, <1>5, <1>7, OpensFit
<1>9. StructsOK' /\ depth' = Len(scopes') - 1
  BY <1>1, <1>2, <1>8, TablesAre DEF StructsOK, Tables
<1> QED
  BY <1>1, <1>2, <1>8, <1>9, KnownNext

LEMMA CloseStep ==
  ASSUME Known, EndFunction \/ CloseBlock,
         scopes' = Front(scopes), stale' = stale \union DOMAIN Last(scopes)
  PROVE  Known'
<1>1. PICK item : Item(item, Now_g)
  BY DEF EndFunction, CloseBlock
<1>2. /\ Tables /\ depth > 0 /\ depth' = depth - 1 /\ strc_map' = strc_map
  <2>1. Tables
    BY DEF Known
  <2>2. depth \in Int
    BY <2>1, TablesAre DEF Tables
  <2>3. CASE EndFunction
    BY <2>1, <2>3 DEF EndFunction
  <2>4. CASE CloseBlock
    <3>1. depth > 1 /\ depth' = depth - 1 /\ strc_map' = strc_map
      BY <2>4 DEF CloseBlock
    <3> QED
      BY <2>1, <2>2, <3>1
  <2> QED
    BY <2>3, <2>4
<1>3. AllFit /\ Now_g.ok /\ IsGen(Now_g) /\ StructsOK
  BY <1>1, <1>2 DEF Known, Item, Now_g, Tables
<1>4. /\ Now_g' = Now_g /\ \A j \in DOMAIN src : j \in DOMAIN src' /\ src'[j] = src[j]
  BY <1>1, <1>2, StillIs DEF Grows
<1>5. Len(scopes) > 1
  BY <1>2, TablesAre DEF Tables
<1>6. AllFit' /\ ShapeOK' /\ Len(scopes') = Len(scopes) - 1
  BY <1>2, <1>3, <1>4, <1>5, ClosesFit
<1>7. StructsOK' /\ depth' = Len(scopes') - 1
  BY <1>2, <1>3, <1>6, TablesAre DEF StructsOK, Tables
<1> QED
  BY <1>1, <1>2, <1>3, <1>6, <1>7, KnownNext

(* Statements are expressions whose value goes somewhere, or is dropped. *)
LEMMA StmtIs ==
  ASSUME Known, NEW s \in Stmts[profile],
         \/ s[1] = "exp" /\ ExpStmt(s[2])
         \/ s[1] = "write" /\ Write(s[2])
         \/ s[1] = "return" /\ ReturnStmt(s[2])
  PROVE  /\ IsVisits(s[2]) /\ UNCHANGED <<strc_map, depth>> /\ depth > 0
         /\ \E item, h : /\ Item(item, h) /\ Moved(Now_g, h)
                         /\ NoParens(s[2], Len(s[2])) => Extends(Now_g, h)
<1> DEFINE e == s[2]
<1>1. Tables /\ IsGen(Now_g) /\ profile \in Profiles
  BY DEF Known, Tables
<1>2. (s[1] \in {"exp", "return"} /\ IsExp(e)) \/ (s[1] = "write" /\ IsArgs(e))
  BY <1>1, StmtsAssumption
<1>3. IsVisits(e)
  BY <1>2 DEF IsExp, IsArgs
<1>4. UNCHANGED <<strc_map, depth>> /\ depth > 0
  BY DEF ExpStmt, Write, ReturnStmt
<1>5. CASE s[1] = "exp" /\ ExpStmt(e)
  <2> DEFINE h == translate_Exp(e, Now_g).g
  <2>1. Item(<<"exp", e>>, h)
    BY <1>5 DEF ExpStmt
  <2>2. Moved(Now_g, h) /\ (NoParens(e, Len(e)) => Extends(Now_g, h))
    BY <1>1, <1>2, <1>5, ExpMoves
  <2> HIDE DEF h
  <2> QED
    BY <1>3, <1>4, <2>1, <2>2
<1>6. CASE s[1] = "write" /\ Write(e)
  <2> DEFINE r == translate_Args(e, Now_g)
             h == PushAll(r.g, [i \in DOMAIN r.addrs |-> WriteCode(r.addrs[i])])
  <2>1. Item(<<"write", e>>, h)
    BY <1>6 DEF Write
  <2>2. Moved(Now_g, h) /\ (NoParens(e, Len(e)) => Extends(Now_g, h))
    BY <1>1, <1>2, <1>6, WriteMoves
  <2> HIDE DEF h
  <2> QED
    BY <1>3, <1>4, <2>1, <2>2
<1>7. CASE s[1] = "return" /\ ReturnStmt(e)
  <2> DEFINE r == translate_Exp(e, Now_g)
             h == Push(r.g, ReturnCode(r.addr))
  <2>1. Item(<<"return", e>>, h)
    BY <1>7 DEF ReturnStmt
  <2>2. Moved(Now_g, h) /\ (NoParens(e, Len(e)) => Extends(Now_g, h))
    BY <1>1, <1>2, <1>7, ReturnMoves
  <2> HIDE DEF h
  <2> QED
    BY <1>3, <1>4, <2>1, <2>2
<1> QED
  BY <1>5, <1>6, <1>7

LEMMA StmtStep ==
  ASSUME Known, NEW s \in Stmts[profile], UNCHANGED <<scopes, stale>>,
         \/ s[1] = "exp" /\ ExpStmt(s[2])
         \/ s[1] = "write" /\ Write(s[2])
         \/ s[1] = "return" /\ ReturnStmt(s[2])
  PROVE  Known'
<1>1. Tables /\ IsGen(Now_g) /\ Now_g.code = tac_list /\ strc_map' = strc_map /\ depth' = depth
  BY StmtIs DEF Known, Tables, Now_g
<1>2. PICK item, h : Item(item, h) /\ Moved(Now_g, h)
  BY StmtIs
<1>3. status = "running" /\ AllFit
  BY <1>2 DEF Known, Item
<1>4. IsGen(h) /\ Grown(Now_g, h) /\ Registered(Now_g, h, {}) /\ NoFunction(h, Len(tac_list) + 1)
  BY <1>1, <1>2, MovedGrows, MovedRegisters DEF Moved
<1>5. ASSUME status' = "running"
      PROVE  AllFit'
  <2>1. Grows /\ Now_g' = h
    BY <1>1, <1>2, <1>4, <1>5, GrowsIs
  <2>2. Registered(Now_g, Now_g', {}) /\ NoFunction(Now_g', Len(tac_list) + 1)
    BY <1>4, <2>1
  <2> QED
    BY <1>1, <1>3, <2>1, <2>2, KeepsFit
<1>6. ShapeOK' /\ StructsOK' /\ depth' = Len(scopes') - 1
  BY <1>1 DEF Tables, ShapeOK, IsList, StructsOK
<1> QED
  BY <1>1, <1>2, <1>4, <1>5, <1>6, KnownNext

LEMMA KnownInit == DInit => Known
<1> SUFFICES ASSUME DInit
             PROVE  Known
  OBVIOUS
<1>1. /\ tac_list = << >> /\ name_to_addr = [x \in Names |-> 0] /\ strc_map = << >> /\ depth = 0
      /\ status = "running" /\ profile \in Profiles /\ src = << >>
      /\ scopes = <<EmptyScope>> /\ stale = {}
  BY DEF DInit, Init
<1>2. IsGen(Now_g)
  BY <1>1 DEF Now_g, IsGen, Gens
<1>3. StructsOK
  BY <1>1 DEF StructsOK
<1>4. IsList(src)
  <2>1. src \in Seq({})
    BY <1>1
  <2>2. Range(src) = {}
    BY <1>1 DEF Range
  <2> QED
    BY <2>1, <2>2 DEF IsList
<1>5. /\ scopes \in Seq({EmptyScope}) /\ DOMAIN scopes = {1} /\ scopes[1] = EmptyScope
      /\ Len(scopes) = 1 /\ scopes # << >>
  BY <1>1
<1>6. Range(scopes) = {EmptyScope}
  BY <1>5 DEF Range
<1>7. IsList(scopes)
  BY <1>5, <1>6 DEF IsList
<1>8. DOMAIN EmptyScope = {}
  BY DEF EmptyScope
<1>9. \A i \in DOMAIN scopes : DOMAIN scopes[i] = {}
  BY <1>5, <1>8
<1> QED
  BY <1>1, <1>2, <1>3, <1>4, <1>5, <1>7, <1>9 DEF Known, Tables, AllFit

LEMMA KnownStep == Known /\ [DNext]_dvars => Known'
<1> SUFFICES ASSUME Known, [DNext]_dvars
             PROVE  Known'
  OBVIOUS
<1>1. ASSUME NEW d \in Structs[profile], StructDef(d[1], d[2]), UNCHANGED <<scopes, stale, flaws>>
      PROVE  Known'
  BY <1>1, StructStep
<1>2. ASSUME NEW ds \in ExtDecs[profile], ExtDec(ds), Declares(ds)
      PROVE  Known'
  BY <1>2, ExtStep
<1>3. ASSUME NEW f \in Functions[profile], f[1] \notin Defined \union DOMAIN scopes[1],
             Function(f[1], f[2]), scopes' = Append(scopes, Places(f[2], TRUE)),
             stale' = stale \ NamesOf(f[2])
      PROVE  Known'
  BY <1>3, FunctionStep
<1>4. ASSUME NEW d \in Defs[profile], Def(d), Declares(<<d>>)
      PROVE  Known'
  BY <1>4, DefStep
<1>5. ASSUME OpenBlock, scopes' = Append(scopes, EmptyScope), UNCHANGED <<stale, flaws>>
      PROVE  Known'
  BY <1>5, OpenStep
<1>6. ASSUME EndFunction \/ CloseBlock, stale' = stale \union DOMAIN Last(scopes),
             scopes' = Front(scopes)
      PROVE  Known'
  BY <1>6, CloseStep
<1>7. ASSUME NEW s \in Stmts[profile], UNCHANGED <<scopes, stale>>,
             \/ s[1] = "exp" /\ ExpStmt(s[2])
             \/ s[1] = "write" /\ Write(s[2])
             \/ s[1] = "return" /\ ReturnStmt(s[2])
      PROVE  Known'
  BY <1>7, StmtStep
<1>8. CASE UNCHANGED dvars
  <2>1. /\ UNCHANGED <<tac_list, name_to_addr, strc_map, depth, status, profile, src>>
        /\ UNCHANGED <<scopes, stale, flaws>>
    BY <1>8 DEF dvars, vars
  <2>2. Now_g' = Now_g
    BY <2>1 DEF Now_g
  <2>3. Tables'
    BY <2>1, <2>2 DEF Known, Tables, StructsOK
  <2>4. ASSUME status = "running", NEW i \in DOMAIN scopes, NEW x \in DOMAIN scopes[i]
        PROVE  Fits(i, x)'
    <3>1. Fits(i, x)
      BY <2>4 DEF Known, AllFit
    <3> QED
      BY <2>1, <2>2, <3>1 DEF Fits, Inner, Tailing
  <2>5. status' = "running" => AllFit'
    BY <2>1, <2>4 DEF AllFit
  <2> QED
    BY <2>3, <2>5 DEF Known
<1> QED
  BY <1>1, <1>2, <1>3, <1>4, <1>5, <1>6, <1>7, <1>8 DEF DNext

-----------------------------------------------------------------------------
(* Known is an invariant: no step disturbs it. *)
THEOREM KnownHolds == DSpec => []Known
<1> USE KnownInit, KnownStep
<1> QED
  BY PTL DEF DSpec

(***************************************************************************)
(* However long the program and the walks along its expressions, a name    *)
(* stands for an instruction that exists, and no operand is a literal      *)
(* where a variable has to be (tac_ir.cpp:158-191, 527-560).               *)
(***************************************************************************)
THEOREM TablesKeepTheirTypes == DSpec => []TypeOK
<1>1. Known => TypeOK
  <2> SUFFICES ASSUME Known
               PROVE  TypeOK
    OBVIOUS
  <2>1. Tables /\ IsGen(Now_g) /\ Now_g.code = tac_list
    BY DEF Known, Tables, Now_g
  <2>2. tac_list \in Seq(Tacs)
    BY <2>1, GenFields
  <2>3. name_to_addr \in [Names -> 0 .. Len(tac_list)]
    BY <2>1, TablesAre
  <2>4. \A i \in DOMAIN tac_list : Reads(tac_list[i]) \union Defines(tac_list[i]) \subseteq Nat
    <3> TAKE i \in DOMAIN tac_list
    <3>1. tac_list[i] \in Tacs
      BY <2>2
    <3> QED
      BY <3>1, TacOperands
  <2> QED
    BY <2>1, <2>3, <2>4 DEF TypeOK, Tables
<1> QED
  BY <1>1, KnownHolds, PTL

-----------------------------------------------------------------------------
(* The declaration of a visible name is the innermost one. *)
LEMMA InnermostExists ==
  ASSUME Tables, NEW x \in Declared
  PROVE  \E i \in DOMAIN scopes : x \in DOMAIN scopes[i] /\ Inner(i, x)
<1> DEFINE n == Len(scopes)
<1>0. n \in Nat /\ DOMAIN scopes = 1 .. n
  BY TablesAre
<1> SUFFICES ASSUME \A i \in DOMAIN scopes : x \in DOMAIN scopes[i] => ~ Inner(i, x)
             PROVE  FALSE
  OBVIOUS
<1> DEFINE S == {k \in Nat : \A i \in 1 .. n : i >= n - k => x \notin DOMAIN scopes[i]}
<1>1. 0 \in S
  <2> SUFFICES ASSUME NEW i \in 1 .. n, i >= n
               PROVE  x \notin DOMAIN scopes[i]
    BY <1>0
  <2>1. Inner(i, x)
    BY <1>0 DEF Inner
  <2> QED
    BY <1>0, <2>1
<1>2. ASSUME NEW k \in Nat, k \in S
      PROVE  k + 1 \in S
  <2> SUFFICES ASSUME NEW i \in 1 .. n, i >= n - (k + 1)
               PROVE  x \notin DOMAIN scopes[i]
    OBVIOUS
  <2>1. \A j \in i + 1 .. n : j \in 1 .. n /\ j >= n - k
    BY <1>0
  <2>2. Inner(i, x)
    BY <1>2, <2>1 DEF Inner
  <2> QED
    BY <1>0, <2>2
<1> HIDE DEF S
<1>3. n \in S
  BY <1>0, <1>1, <1>2, Walk!NatSet
<1>4. \A i \in 1 .. n : x \notin DOMAIN scopes[i]
  BY <1>0, <1>3 DEF S
<1> QED
  BY <1>0, <1>4 DEF Declared

LEMMA EntryIs ==
  ASSUME Tables, NEW x \in Declared
  PROVE  \E i \in DOMAIN scopes :
           /\ x \in DOMAIN scopes[i] /\ Inner(i, x) /\ Entry(scopes, x) = scopes[i][x]
<1> DEFINE Good(i) == x \in DOMAIN scopes[i] /\ \A j \in i + 1 .. Len(scopes) :
                                                   x \notin DOMAIN scopes[j]
           k == CHOOSE i \in DOMAIN scopes : Good(i)
<1>1. \E i \in DOMAIN scopes : Good(i)
  BY InnermostExists DEF Inner
<1>2. k \in DOMAIN scopes /\ Good(k)
  BY <1>1
<1>3. Entry(scopes, x) = scopes[k][x]
  BY DEF Entry
<1> HIDE DEF k
<1> QED
  BY <1>2, <1>3 DEF Inner

(***************************************************************************)
(* name_to_addr has no scopes (tac_ir.cpp:158, 527), for any nesting of    *)
(* blocks: a visible name stands for its visible declaration exactly as    *)
(* long as no inner declaration of the same name has been left.            *)
(***************************************************************************)
THEOREM NamesFollowTheirScopes == DSpec => []NamesFollowScopes
<1>1. Known => NamesFollowScopes
  <2> SUFFICES ASSUME Known, status = "running", NEW x \in Declared, Entry(scopes, x).at # 0
               PROVE  name_to_addr[x] = Entry(scopes, x).at <=> x \notin stale
    BY DEF NamesFollowScopes
  <2>1. PICK i \in DOMAIN scopes :
          x \in DOMAIN scopes[i] /\ Inner(i, x) /\ Entry(scopes, x) = scopes[i][x]
    BY EntryIs DEF Known
  <2>2. Fits(i, x)
    BY <2>1 DEF Known, AllFit
  <2> QED
    BY <2>1, <2>2 DEF Fits
<1> QED
  BY <1>1, KnownHolds, PTL

(***************************************************************************)
(* translate_ExtDecList (tac_ir.cpp:712-723): only a global variable       *)
(* behind the first of its declaration is without an instruction, whatever *)
(* the program declares besides.                                           *)
(***************************************************************************)
THEOREM OnlyTailsAreUnknown == DSpec => []GlobalsKnown
<1>1. Known => GlobalsKnown
  <2> SUFFICES ASSUME Known, status = "running", NEW x \in Declared, Entry(scopes, x).at = 0
               PROVE  \E i \in DOMAIN src : src[i][1] = "ext" /\ x \in NamesOf(Tail(src[i][2]))
    BY DEF GlobalsKnown
  <2>1. PICK i \in DOMAIN scopes :
          x \in DOMAIN scopes[i] /\ Inner(i, x) /\ Entry(scopes, x) = scopes[i][x]
    BY EntryIs DEF Known
  <2>2. Fits(i, x)
    BY <2>1 DEF Known, AllFit
  <2> QED
    BY <2>1, <2>2 DEF Fits, Tailing
<1> QED
  BY <1>1, KnownHolds, PTL

-----------------------------------------------------------------------------
(* An item that changes no instruction behind its back. *)
LEMMA ItemPrefix ==
  ASSUME Tables, NEW item, NEW h, Item(item, h), h.ok => IsGen(h) /\ Extends(Now_g, h)
                                                            /\ Len(tac_list) <= Len(h.code)
  PROVE  IsPrefix(tac_list, tac_list')
<1>1. Now_g.code = tac_list /\ tac_list \in Seq(Tacs) /\ Len(tac_list) \in Nat
  BY GenFields DEF Tables, Now_g
<1>2. CASE h.ok
  <2>1. tac_list' = h.code /\ h.code \in Seq(Tacs) /\ Len(tac_list) <= Len(h.code)
    BY <1>2, GenFields DEF Item
  <2>2. \A i \in 1 .. Len(tac_list) : h.code[i] = tac_list[i]
    BY <1>1, <1>2 DEF Extends
  <2>3. SubSeq(tac_list, 1, Len(tac_list)) = SubSeq(h.code, 1, Len(tac_list))
    <3> HIDE DEF Now_g
    <3> QED
      BY <1>1, <2>1, <2>2
  <2> QED
    BY <2>1, <2>3 DEF IsPrefix
<1>3. CASE ~ h.ok
  <2>1. tac_list' = tac_list
    BY <1>3 DEF Item
  <2> QED
    BY <1>1, <2>1 DEF IsPrefix
<1> QED
  BY <1>2, <1>3

LEMMA UsingNoParens ==
  ASSUME NEW e, IsVisits(e), Using(e), "paren" \notin flaws'
  PROVE  NoParens(e, Len(e))
<1>1. DOMAIN e = 1 .. Len(e)
  BY DEF IsVisits
<1>2. "paren" \notin FlawsOf(e, Looks(e)) /\ "paren" \in FlawKinds
  BY DEF Using, FlawKinds
<1>3. \A k \in DOMAIN e : ~ HasFlaw("paren", e, k, Looks(e))
  BY <1>2 DEF FlawsOf
<1>4. ASSUME NEW k \in DOMAIN e, e[k].op = "assign", e[e[k].parts[2]].op = "paren"
      PROVE  HasFlaw("paren", e, k, Looks(e))
  BY <1>4 DEF HasFlaw
<1> QED
  BY <1>1, <1>3, <1>4 DEF NoParens

(* Every step only appends. *)
LEMMA AppendsStep ==
  ASSUME Known, [DNext]_dvars, "paren" \notin flaws'
  PROVE  IsPrefix(tac_list, tac_list')
<1>0. Tables /\ IsGen(Now_g) /\ Now_g.code = tac_list /\ profile \in Profiles /\ StructsOK
  BY DEF Known, Tables, Now_g
<1>1. IsPrefix(tac_list, tac_list)
  <2>1. tac_list \in Seq(Tacs)
    BY <1>0, GenFields
  <2> QED
    BY <2>1 DEF IsPrefix
<1>2. ASSUME NEW item, Item(item, Now_g)
      PROVE  IsPrefix(tac_list, tac_list')
  <2>1. tac_list' = tac_list
    BY <1>2 DEF Item, Now_g
  <2> QED
    BY <1>1, <2>1
<1>3. ASSUME NEW d \in Structs[profile], StructDef(d[1], d[2])
      PROVE  IsPrefix(tac_list, tac_list')
  BY <1>2, <1>3 DEF StructDef
<1>4. ASSUME NEW ds \in ExtDecs[profile], ExtDec(ds)
      PROVE  IsPrefix(tac_list, tac_list')
  <2> DEFINE h == translate_ExtDecList(ds, Now_g)
             item == <<"ext", ds>>
  <2>1. Item(item, h) /\ KnownType(ds[1].spec) /\ ds # << >> /\ Distinct(ds)
    BY <1>0, <1>4, ExtDecsAssumption DEF ExtDec
  <2>2. Grown(Now_g, h) /\ Extends(Now_g, h)
    BY <1>0, <2>1, ExtGrows
  <2> HIDE DEF h, item
  <2> QED
    BY <1>0, <2>1, <2>2, ItemPrefix DEF Grown
<1>5. ASSUME NEW f \in Functions[profile], Function(f[1], f[2])
      PROVE  IsPrefix(tac_list, tac_list')
  <2> DEFINE h == translate_FunDec(f[1], f[2], Now_g)
             item == <<"fun", f[1], f[2]>>
  <2>1. /\ Item(item, h) /\ f[1] \in Names /\ Distinct(f[2])
        /\ \A i \in DOMAIN f[2] : KnownType(f[2][i].spec)
    BY <1>0, <1>5, FunctionsAssumption DEF Function
  <2>2. HeadDone(f[1], f[2], Now_g, h)
    BY <1>0, <2>1, FunGrows
  <2> HIDE DEF h, item
  <2> QED
    BY <1>0, <2>1, <2>2, ItemPrefix DEF Grown, HeadDone
<1>6. ASSUME NEW d \in Defs[profile], Def(d),
             IF d.init = << >> THEN UNCHANGED flaws ELSE Using(d.init)
      PROVE  IsPrefix(tac_list, tac_list')
  <2> DEFINE h == translate_Dec(d, translate_Specifier(d.spec), Now_g)
             item == <<"def", d>>
  <2>1. Item(item, h) /\ KnownType(d.spec)
    BY <1>6 DEF Def
  <2>2. IsDeclarator(d) /\ (d.init # << >> => IsExp(d.init) /\ IsScalar(d))
    BY <1>0, DefsAssumption DEF IsScalar
  <2>3. d.init = << >> \/ NoParens(d.init, Len(d.init))
    BY <1>6, <2>2, UsingNoParens DEF IsExp
  <2>4. h.ok => Grown(Now_g, h) /\ Extends(Now_g, h)
    BY <1>0, <2>1, <2>2, <2>3, DefGrows
  <2> HIDE DEF h, item
  <2> QED
    BY <1>0, <2>1, <2>4, ItemPrefix DEF Grown
<1>7. ASSUME OpenBlock \/ EndFunction \/ CloseBlock
      PROVE  IsPrefix(tac_list, tac_list')
  BY <1>2, <1>7 DEF OpenBlock, EndFunction, CloseBlock
<1>8. ASSUME NEW s \in Stmts[profile], Using(s[2]),
             \/ s[1] = "exp" /\ ExpStmt(s[2])
             \/ s[1] = "write" /\ Write(s[2])
             \/ s[1] = "return" /\ ReturnStmt(s[2])
      PROVE  IsPrefix(tac_list, tac_list')
  <2>1. IsVisits(s[2])
    BY <1>8, StmtIs
  <2>2. NoParens(s[2], Len(s[2]))
    BY <1>8, <2>1, UsingNoParens
  <2>3. PICK item, h : Item(item, h) /\ Moved(Now_g, h) /\ Extends(Now_g, h)
    BY <1>8, <2>2, StmtIs
  <2> QED
    BY <1>0, <2>3, ItemPrefix DEF Moved
<1>9. CASE UNCHANGED dvars
  BY <1>1, <1>9 DEF dvars, vars
<1> QED
  BY <1>3, <1>4, <1>5, <1>6, <1>7, <1>8, <1>9 DEF DNext

(***************************************************************************)
(* Instructions are only ever appended: the assignment that patches an     *)
(* instruction behind its back (tac_ir.cpp:187-191) patches one of its own *)
(* expression, whatever the expression, as long as no left side is in      *)
(* parentheses.                                                            *)
(***************************************************************************)
THEOREM InstructionsAreAppended == DSpec => OnlyAppends
<1>1. Known /\ [DNext]_dvars => [ "paren" \notin flaws' => IsPrefix(tac_list, tac_list') ]_dvars
  BY AppendsStep
<1> QED
  BY <1>1, KnownHolds, PTL DEF DSpec, OnlyAppends

-----------------------------------------------------------------------------
(* What is known of the visits of an expression, one visit after the other. *)
Looked(e, a) ==
  IsList(a) /\ Len(a) = Len(e) /\ \A k \in 1 .. Len(e) : a[k] = LookOf(e[k], Taken(e[k], a))

LEMMA TakenSame ==
  ASSUME NEW e, IsVisits(e), NEW k \in 1 .. Len(e), NEW s, NEW u,
         \A j \in 1 .. k - 1 : s[j] = u[j]
  PROVE  Taken(e[k], s) = Taken(e[k], u)
<1>1. \A i \in DOMAIN e[k].parts : e[k].parts[i] \in 1 .. k - 1
  BY VisitIs
<1>2. \A i \in DOMAIN e[k].parts : s[e[k].parts[i]] = u[e[k].parts[i]]
  BY <1>1
<1> QED
  BY <1>2 DEF Taken

LEMMA LooksAre ==
  ASSUME NEW e, IsVisits(e)
  PROVE  Looked(e, Looks(e))
<1>1. e \in Seq(Range(e)) /\ DOMAIN e = 1 .. Len(e) /\ Len(e) \in Nat
  BY DEF IsVisits
<1>2. PICK h : Looking!States(h, << >>, e)
  BY <1>1, Looking!LoopHasStates
<1>3. /\ h[0] = << >> /\ h[Len(e)] = Looks(e)
      /\ \A k \in 1 .. Len(e) : h[k] = Append(h[k - 1], LookOf(e[k], Taken(e[k], h[k - 1])))
  BY <1>1, <1>2 DEF Looking!States, Looks, Look
<1> DEFINE Done(k, a) == /\ IsList(a) /\ Len(a) = k
                         /\ \A j \in 1 .. k : a[j] = LookOf(e[j], Taken(e[j], a))
           K == {k \in Nat : k <= Len(e) => Done(k, h[k])}
<1>4. 0 \in K
  <2>1. IsList(<< >>)
    <3>1. << >> \in Seq({}) /\ Range(<< >>) = {}
      BY DEF Range
    <3> QED
      BY <3>1 DEF IsList
  <2> QED
    BY <1>3, <2>1
<1>5. ASSUME NEW k \in Nat, k \in K
      PROVE  k + 1 \in K
  <2> SUFFICES ASSUME k + 1 <= Len(e)
               PROVE  Done(k + 1, h[k + 1])
    OBVIOUS
  <2> DEFINE s == h[k]
             new == LookOf(e[k + 1], Taken(e[k + 1], s))
             u == Append(s, new)
  <2>1. Done(k, s) /\ k + 1 \in 1 .. Len(e) /\ k + 1 - 1 = k
    BY <1>1, <1>5
  <2>2. h[k + 1] = u
    BY <1>3, <2>1
  <2> HIDE DEF s, new
  <2>3. /\ IsList(u) /\ Len(u) = k + 1 /\ u[k + 1] = new
        /\ \A j \in 1 .. k : u[j] = s[j]
    BY <2>1, ListAppend
  <2> HIDE DEF u
  <2>4. ASSUME NEW j \in 1 .. k + 1
        PROVE  Taken(e[j], s) = Taken(e[j], u)
    <3>1. j \in 1 .. Len(e) /\ \A i \in 1 .. j - 1 : i \in 1 .. k
      BY <1>1, <2>1
    <3> QED
      BY <2>3, <3>1, TakenSame
  <2>5. ASSUME NEW j \in 1 .. k + 1
        PROVE  u[j] = LookOf(e[j], Taken(e[j], u))
    <3>1. CASE j = k + 1
      BY <2>3, <2>4, <3>1 DEF new
    <3>2. CASE j # k + 1
      <4>1. j \in 1 .. k
        BY <3>2
      <4> QED
        BY <2>1, <2>3, <2>4, <4>1
    <3> QED
      BY <3>1, <3>2
  <2> QED
    BY <2>2, <2>3, <2>5
<1> HIDE DEF K
<1>6. Len(e) \in K
  BY <1>1, <1>4, <1>5, Walk!NatSet
<1>7. Done(Len(e), Looks(e))
  BY <1>1, <1>3, <1>6 DEF K
<1> QED
  BY <1>7 DEF Looked

-----------------------------------------------------------------------------
(* Types. *)
PartType(e, a, k, i) == a[e[k].parts[i]].type

PartTypes(e, a, k) == [i \in DOMAIN e[k].parts |-> PartType(e, a, k, i)]

(* The type of the elements of an array. *)
ElementType(t) == [t EXCEPT !.dims = Tail(@)]

LEMMA LookIs ==
  ASSUME NEW e, IsVisits(e), NEW a, Looked(e, a), NEW k \in 1 .. Len(e)
  PROVE  /\ a[k].type = TypeOf(e[k], PartTypes(e, a, k))
         /\ e[k].op = "id" => a[k].aliases = {e[k].name}
         /\ e[k].op \in {"paren", "assign", "first", "later"} =>
              a[k].aliases = a[e[k].parts[1]].aliases
<1> DEFINE v == e[k]
           p == Taken(v, a)
           types == [i \in DOMAIN p |-> p[i].type]
<1>1. a[k] = LookOf(v, p)
  BY DEF Looked
<1>2. p = [i \in DOMAIN v.parts |-> a[v.parts[i]]]
  BY DEF Taken
<1>3. types = PartTypes(e, a, k)
  BY <1>2 DEF PartType, PartTypes
<1>4. a[k].type = TypeOf(v, types)
  BY <1>1 DEF LookOf
<1>5. v.op = "id" => a[k].aliases = {v.name}
  BY <1>1 DEF LookOf
<1>6. ASSUME v.op \in {"paren", "assign", "first", "later"}
      PROVE  a[k].aliases = a[v.parts[1]].aliases
  <2>1. 1 \in DOMAIN v.parts
    BY <1>6, PartsAre
  <2>2. p[1] = a[v.parts[1]]
    BY <1>2, <2>1
  <2>3. a[k].aliases = p[1].aliases
    BY <1>1, <1>6 DEF LookOf
  <2> QED
    BY <2>2, <2>3
<1> HIDE DEF types
<1> QED
  BY <1>3, <1>4, <1>5, <1>6

(* What a visit that fits the declarations tells about its parts. *)
LEMMA TypesAre ==
  ASSUME NEW e, IsVisits(e), NEW a, Looked(e, a), NEW k \in 1 .. Len(e), a[k].type # NoType
  PROVE  /\ e[k].op = "id" => /\ e[k].name \in Declared
                              /\ a[k].type = TypeBy(Entry(scopes, e[k].name))
         /\ e[k].op \in {"paren", "first", "later", "elements", "members", "access"} =>
              a[k].type = PartType(e, a, k, 1)
         /\ e[k].op = "index" =>
              /\ PartType(e, a, k, 1).dims # << >> /\ PartType(e, a, k, 2) = Scalar
              /\ a[k].type = ElementType(PartType(e, a, k, 1))
         /\ e[k].op \in {"mixed", "member"} =>
              a[k].type = MemberType(PartType(e, a, k, 1), e[k].name)
         /\ e[k].op \in Tokens \union {"neg", "assign", "args"} =>
              \A i \in DOMAIN e[k].parts : PartType(e, a, k, i) = Scalar
<1> DEFINE v == e[k]
           types == PartTypes(e, a, k)
<1>1. TypeOf(v, types) = a[k].type
  BY LookIs
<1>2. /\ \A i \in DOMAIN v.parts : types[i] = PartType(e, a, k, i)
      /\ DOMAIN types = DOMAIN v.parts
  BY DEF PartTypes
<1> HIDE DEF types
<1>3. /\ v.op \in {"paren", "first", "later", "access"} \union Steps => 1 \in DOMAIN v.parts
      /\ v.op = "index" => 2 \in DOMAIN v.parts
  BY PartsAre
<1>4. CASE v.op = "id"
  <2>1. TypeOf(v, types) =
          IF v.name \in Declared THEN TypeBy(Entry(scopes, v.name)) ELSE NoType
    BY <1>4 DEF TypeOf, Tokens
  <2> QED
    BY <1>1, <1>4, <2>1 DEF Tokens
<1>5. CASE v.op \in {"paren", "first", "later", "elements", "members", "access"}
  <2>1. TypeOf(v, types) = types[1]
    BY <1>5 DEF TypeOf, Tokens
  <2> QED
    BY <1>1, <1>2, <1>3, <1>5, <2>1 DEF Tokens, Steps
<1>6. CASE v.op = "index"
  <2>1. TypeOf(v, types) =
          IF types[1].dims = << >> \/ types[2] # Scalar THEN NoType
          ELSE ElementType(types[1])
    BY <1>6 DEF TypeOf, Tokens, ElementType
  <2>2. types[1] = PartType(e, a, k, 1) /\ types[2] = PartType(e, a, k, 2)
    BY <1>2, <1>3, <1>6 DEF Steps
  <2> QED
    BY <1>1, <1>6, <2>1, <2>2 DEF Tokens
<1>7. CASE v.op \in {"mixed", "member"}
  <2>1. TypeOf(v, types) = MemberType(types[1], v.name)
    BY <1>7 DEF TypeOf, Tokens
  <2>2. types[1] = PartType(e, a, k, 1)
    BY <1>2, <1>3, <1>7 DEF Steps
  <2> QED
    BY <1>1, <1>7, <2>1, <2>2 DEF Tokens
<1>8. CASE v.op \in Tokens \union {"neg", "assign", "args"}
  <2>1. TypeOf(v, types) =
          IF \A i \in DOMAIN types : types[i] = Scalar THEN Scalar ELSE NoType
    BY <1>8 DEF TypeOf, Tokens
  <2> QED
    BY <1>1, <1>2, <1>8, <2>1 DEF Tokens
<1>9. CASE v.op \in {"read", "int", "call"}
  BY <1>9 DEF Tokens
<1> QED
  BY <1>4, <1>5, <1>6, <1>7, <1>8, <1>9, VisitIs DEF Ops

(* Types are records. *)
IsType(t) == t = [spec |-> t.spec, dims |-> t.dims]

-----------------------------------------------------------------------------
(***************************************************************************)
(* Operands.  Own: the variable a is defined by the instruction with its   *)
(* index, in the function whose code comes last.  LiveAt: it is when the   *)
(* instruction i reads it.                                                 *)
(***************************************************************************)
Own(g, a) ==
  a \in 1 .. Len(g.code) /\ g.code[a].op \in Definers /\ g.code[a].addr = a /\ NoFunction(g, a)

LiveAt(g, i, a) ==
  /\ a \in 1 .. i - 1 /\ g.code[a].op \in Definers /\ g.code[a].addr = a
  /\ \A j \in a .. i : g.code[j].op # "FUNCTION"
  /\ g.code[a].op = "DEC" => g.code[i].op = "ADDRESS"

Good(g, i) == \A a \in Reads(g.code[i]) : LiveAt(g, i, a)

(* All instructions but p read what is defined. *)
GoodBut(g, p) == \A i \in 1 .. Len(g.code) : i # p => Good(g, i)

AllGood(g) == GoodBut(g, 0)

LEMMA OwnMoves ==
  ASSUME NEW g, NEW h, IsGen(g), Moved(g, h), NEW a, Own(g, a)
  PROVE  Own(h, a) /\ OpOf(h, a) = OpOf(g, a)
<1>1. IsGen(h) /\ Len(g.code) <= Len(h.code) /\ Len(g.code) \in Nat /\ Len(h.code) \in Nat
  BY GenFields DEF Moved
<1>2. a \in 1 .. Len(g.code) /\ a \in 1 .. Len(h.code)
  BY <1>1 DEF Own
<1>3. h.code[a].op = g.code[a].op /\ (g.code[a].op \in Definers => h.code[a].addr = g.code[a].addr)
  BY <1>2 DEF Moved, Same
<1>4. ASSUME NEW j \in a .. Len(h.code)
      PROVE  h.code[j].op # "FUNCTION"
  <2>1. CASE j <= Len(g.code)
    <3>1. j \in a .. Len(g.code) /\ j \in 1 .. Len(g.code)
      BY <1>1, <1>2, <2>1
    <3> QED
      BY <3>1 DEF Own, NoFunction, Moved, Same, Patched
  <2>2. CASE ~ j <= Len(g.code)
    <3>1. j \in Len(g.code) + 1 .. Len(h.code)
      BY <1>1, <1>2, <2>2
    <3> QED
      BY <3>1 DEF Moved
  <2> QED
    BY <2>1, <2>2
<1>5. OpOf(h, a) = OpOf(g, a)
  BY <1>1, <1>2, <1>3, GenFields DEF OpOf
<1> QED
  BY <1>2, <1>3, <1>4, <1>5 DEF Own, NoFunction

(* What holds of an instruction that no step touches. *)
LEMMA GoodStays ==
  ASSUME NEW g, NEW h, IsGen(g), Extends(g, h), NEW i \in 1 .. Len(g.code), Good(g, i)
  PROVE  Good(h, i)
<1>0. Len(g.code) \in Nat
  BY GenFields
<1>1. \A j \in 1 .. i : h.code[j] = g.code[j]
  BY <1>0 DEF Extends
<1>2. h.code[i] = g.code[i]
  BY <1>0, <1>1
<1> SUFFICES ASSUME NEW a \in Reads(g.code[i])
             PROVE  LiveAt(h, i, a)
  BY <1>2 DEF Good
<1>3. LiveAt(g, i, a)
  BY DEF Good
<1>4. a \in 1 .. i - 1 /\ h.code[a] = g.code[a]
  BY <1>0, <1>1, <1>3 DEF LiveAt
<1>5. \A j \in a .. i : h.code[j] = g.code[j]
  BY <1>0, <1>1, <1>4
<1> QED
  BY <1>2, <1>3, <1>4, <1>5 DEF LiveAt

(* An operand of its own that a later instruction reads. *)
LEMMA OwnLive ==
  ASSUME NEW g, NEW h, IsGen(g), IsGen(h), Extends(g, h), NEW i \in Len(g.code) + 1 .. Len(h.code),
         \A j \in Len(g.code) + 1 .. i : h.code[j].op # "FUNCTION",
         NEW a, Own(g, a), OpOf(g, a) = "DEC" => h.code[i].op = "ADDRESS"
  PROVE  LiveAt(h, i, a)
<1>1. Len(g.code) \in Nat /\ Len(h.code) \in Nat /\ a \in 1 .. Len(g.code)
  BY GenFields DEF Own
<1>2. a \in 1 .. i - 1 /\ h.code[a] = g.code[a] /\ OpOf(g, a) = g.code[a].op
  BY <1>1, GenFields DEF Extends, OpOf
<1>3. ASSUME NEW j \in a .. i
      PROVE  h.code[j].op # "FUNCTION"
  <2>1. CASE j <= Len(g.code)
    <3>1. j \in a .. Len(g.code) /\ j \in 1 .. Len(g.code)
      BY <1>1, <2>1
    <3> QED
      BY <3>1 DEF Own, NoFunction, Extends
  <2>2. CASE ~ j <= Len(g.code)
    <3>1. j \in Len(g.code) + 1 .. i
      BY <1>1, <2>2
    <3> QED
      BY <3>1
  <2> QED
    BY <2>1, <2>2
<1> QED
  BY <1>2, <1>3 DEF LiveAt, Own

(* New instructions that read operands of their own, except at p. *)
LEMMA GoodGrows ==
  ASSUME NEW g, NEW h, NEW p, IsGen(g), Moved(g, h), Extends(g, h), AllGood(g),
         \A i \in Len(g.code) + 1 .. Len(h.code) : i # p => \A a \in Reads(h.code[i]) :
           Own(g, a) /\ (OpOf(g, a) = "DEC" => h.code[i].op = "ADDRESS")
  PROVE  GoodBut(h, p)
<1>1. Len(g.code) \in Nat /\ Len(h.code) \in Nat /\ IsGen(h)
  BY GenFields DEF Moved
<1> SUFFICES ASSUME NEW i \in 1 .. Len(h.code), i # p
             PROVE  Good(h, i)
  BY DEF GoodBut
<1>2. CASE i <= Len(g.code)
  <2>1. i \in 1 .. Len(g.code) /\ i # 0
    BY <1>1, <1>2
  <2>2. Good(g, i)
    BY <2>1 DEF AllGood, GoodBut
  <2> QED
    BY <2>1, <2>2, GoodStays
<1>3. CASE ~ i <= Len(g.code)
  <2>1. i \in Len(g.code) + 1 .. Len(h.code)
    BY <1>1, <1>3
  <2>2. \A j \in Len(g.code) + 1 .. i : h.code[j].op # "FUNCTION"
    <3>1. \A j \in Len(g.code) + 1 .. i : j \in Len(g.code) + 1 .. Len(h.code)
      BY <1>1
    <3> QED
      BY <3>1 DEF Moved
  <2> QED
    BY <1>1, <2>1, <2>2, OwnLive DEF Good
<1> QED
  BY <1>2, <1>3

(* An operand that is a value. *)
Value(g, a) == Own(g, a) /\ OpOf(g, a) # "DEC"

(* One instruction more, which reads values, or takes the address of one. *)
LEMMA EmitGood ==
  ASSUME NEW g, IsGen(g), AllGood(g), NEW tac \in Tacs, tac.op # "FUNCTION",
         \A a \in Reads(tac) : Value(g, a) \/ (Own(g, a) /\ tac.op = "ADDRESS")
  PROVE  LET r == Emit(g, tac)
         IN  /\ AllGood(r.g)
             /\ tac.op \in Definers /\ tac.addr = Size(g) =>
                  Own(r.g, r.addr) /\ OpOf(r.g, r.addr) = tac.op
<1> DEFINE r == Emit(g, tac)
           n == Len(g.code) + 1
<1>1. /\ Moved(g, r.g) /\ Longer(g, r.g, tac) /\ r.addr = n
      /\ Len(g.code) \in Nat /\ Size(g) = n
  BY EmitIs, GenFields
<1> HIDE DEF r
<1>2. /\ IsGen(r.g) /\ Len(r.g.code) = n /\ r.g.code[n] = tac /\ Extends(g, r.g)
  BY <1>1 DEF Longer, Moved
<1>3. AllGood(r.g)
  <2>1. n .. n = {n}
    BY <1>1
  <2> QED
    BY <1>1, <1>2, <2>1, GoodGrows DEF Value, AllGood
<1>4. ASSUME tac.op \in Definers, tac.addr = Size(g)
      PROVE  Own(r.g, r.addr) /\ OpOf(r.g, r.addr) = tac.op
  <2>1. n \in 1 .. Len(r.g.code) /\ n .. Len(r.g.code) = {n} /\ n \in DOMAIN r.g.code
    BY <1>1, <1>2, GenFields
  <2> QED
    BY <1>1, <1>2, <1>4, <2>1 DEF Own, NoFunction, OpOf
<1> QED
  BY <1>3, <1>4 DEF r

-----------------------------------------------------------------------------
(***************************************************************************)
(* What a translation leaves behind.  Holds is what is known of the result *)
(* b of the visit e[i]; Pending is the assignment whose source the next    *)
(* visit fills in.                                                         *)
(***************************************************************************)
Home(f, x) == Own(f, f.names[x]) /\ OpOf(f, f.names[x]) = ClassOf(Entry(scopes, x))

Fitting(e, a, f) ==
  /\ Looked(e, a) /\ NoParens(e, Len(e))
  /\ \A k \in 1 .. Len(e) :
       /\ a[k].type # NoType
       /\ e[k].op = "id" => Home(f, e[k].name)
       /\ e[k].op = "later" => \A x \in a[k].aliases : ~ IsBlock(x)

IsResult(v) == ~ v.single /\ v.op # "args"

(* A block as a whole is a name, in parentheses or not. *)
Holds(g, e, a, i, b) ==
  /\ Own(g, b)
  /\ OpOf(g, b) = "DEC" => /\ e[i].op \in {"id", "paren"} /\ ~ IsScalar(a[i].type)
                           /\ \E x \in a[i].aliases : IsBlock(x)

Pending(e, k, at) == IF k > 0 /\ e[k].single THEN at[k] ELSE 0

StoreLive(g, l) == OpOf(g, l) = "STORE" => LiveAt(g, l, g.code[l].addr)

Sound(e, a, k, t) ==
  t.g.ok =>
    /\ GoodBut(t.g, Pending(e, k, t.at))
    /\ k > 0 /\ e[k].single => StoreLive(t.g, t.at[k])
    /\ \A i \in 1 .. k : IsResult(e[i]) => Holds(t.g, e, a, i, t.at[i])

(* What the k-th visit leaves behind. *)
Works(e, a, k, r) ==
  r.g.ok =>
    /\ GoodBut(r.g, IF e[k].single THEN r.addr ELSE 0)
    /\ e[k].single => StoreLive(r.g, r.addr)
    /\ IsResult(e[k]) => Holds(r.g, e, a, k, r.addr)

(* The operands p of the k-th visit, in the generator g. *)
PartsHold(e, a, k, g, p) ==
  \A i \in DOMAIN e[k].parts : ~ (e[k].op = "assign" /\ i = 2) =>
    Holds(g, e, a, e[k].parts[i], p[i])

LEMMA HoldsValue ==
  ASSUME NEW g, NEW e, NEW a, NEW i, NEW b, Holds(g, e, a, i, b),
         e[i].op \notin {"id", "paren"} \/ IsScalar(a[i].type)
  PROVE  Value(g, b)
  BY DEF Holds, Value

LEMMA ValueHolds ==
  ASSUME NEW g, NEW e, NEW a, NEW i, NEW b, Value(g, b)
  PROVE  Holds(g, e, a, i, b)
  BY DEF Holds, Value

(* A visit that ends with an instruction for its result, which reads values. *)
LEMMA EmitWorks ==
  ASSUME NEW e, NEW a, NEW k, ~ e[k].single, NEW g, IsGen(g), AllGood(g),
         NEW tac \in Tacs, tac.op \in Definers \ {"DEC"}, tac.addr = Size(g),
         \A b \in Reads(tac) : Value(g, b) \/ (Own(g, b) /\ tac.op = "ADDRESS")
  PROVE  LET r == Emit(g, tac)
         IN  Works(e, a, k, r) /\ Value(r.g, r.addr) /\ AllGood(r.g)
<1> DEFINE r == Emit(g, tac)
<1>1. tac.op # "FUNCTION"
  BY DEF Definers
<1>2. AllGood(r.g) /\ Own(r.g, r.addr) /\ OpOf(r.g, r.addr) = tac.op
  BY <1>1, EmitGood
<1> HIDE DEF r
<1>3. Value(r.g, r.addr)
  BY <1>2 DEF Value
<1>4. Holds(r.g, e, a, k, r.addr)
  BY <1>3, ValueHolds
<1> QED
  BY <1>2, <1>3, <1>4 DEF Works, AllGood, r

(* A visit that ends with the result of a part. *)
LEMMA ReturnWorks ==
  ASSUME NEW e, NEW a, NEW k, ~ e[k].single, NEW g, AllGood(g), NEW b,
         IsResult(e[k]) => Holds(g, e, a, k, b)
  PROVE  Works(e, a, k, Return(g, b))
  BY DEF Works, Return, AllGood

LEMMA CrashWorks ==
  ASSUME NEW e, NEW a, NEW k, NEW g, IsGen(g)
  PROVE  Works(e, a, k, Crash(g))
  BY CrashIs DEF Works

(* The address of a block, or a value as it is. *)
LEMMA AddressGood ==
  ASSUME NEW g, IsGen(g), AllGood(g), NEW b, Own(g, b)
  PROVE  LET r == AddressOf(b, g)
         IN  AllGood(r.g) /\ Value(r.g, r.addr) /\ IsGen(r.g)
<1>1. CASE OpOf(g, b) = "DEC"
  <2> DEFINE tac == AssignAddrCode(Size(g), b)
  <2>1. Size(g) \in Nat /\ b \in Nat /\ Len(g.code) \in Nat
    BY GenFields DEF Own
  <2>2. tac \in Tacs
    BY <2>1 DEF Tacs, AssignAddrCode
  <2>3. tac.op = "ADDRESS" /\ tac.addr = Size(g) /\ tac.raddr = b
    BY DEF AssignAddrCode
  <2>4. Reads(tac) \subseteq {b}
    BY <2>3 DEF Reads
  <2>5. AddressOf(b, g) = Emit(g, tac)
    BY <1>1 DEF AddressOf
  <2> HIDE DEF tac
  <2>6. /\ AllGood(Emit(g, tac).g) /\ Own(Emit(g, tac).g, Emit(g, tac).addr)
        /\ OpOf(Emit(g, tac).g, Emit(g, tac).addr) = "ADDRESS"
    BY <2>2, <2>3, <2>4, EmitGood DEF Definers
  <2>7. IsGen(Emit(g, tac).g)
    BY <2>2, <2>3, EmitIs DEF Moved
  <2> QED
    BY <2>5, <2>6, <2>7 DEF Value
<1>2. CASE OpOf(g, b) # "DEC"
  BY <1>2 DEF AddressOf, Return, Value
<1> QED
  BY <1>1, <1>2

(* Arithmetic on values and literals. *)
LEMMA ArithWorks ==
  ASSUME NEW e, NEW a, NEW k, ~ e[k].single, NEW g, IsGen(g), AllGood(g), NEW token \in Tokens,
         NEW m \in Int, NEW n \in Int, m > 0 => Value(g, m), n > 0 => Value(g, n)
  PROVE  LET r == Emit(g, ArithCode(Size(g), m, n, token))
         IN  Works(e, a, k, r) /\ Value(r.g, r.addr) /\ AllGood(r.g)
<1> DEFINE tac == ArithCode(Size(g), m, n, token)
<1>1. tac \in Tacs
  BY GenFields DEF Tacs, ArithCode
<1>2. tac.op = "ARITH" /\ tac.addr = Size(g) /\ tac.laddr = m /\ tac.raddr = n
  BY DEF ArithCode
<1>3. \A b \in Reads(tac) : (b = m \/ b = n) /\ b > 0
  BY <1>2 DEF Reads
<1> HIDE DEF tac
<1>4. tac.op \in Definers \ {"DEC"}
  BY <1>2 DEF Definers
<1>5. \A b \in Reads(tac) : Value(g, b)
  BY <1>3
<1> QED
  BY <1>1, <1>2, <1>4, <1>5, EmitWorks DEF tac

LEMMA MemberWorks ==
  ASSUME NEW e, NEW a, NEW k, ~ e[k].single, NEW g, IsGen(g), AllGood(g), NEW head,
         Value(g, head), NEW base, HasLayout(base, g), NEW name
  PROVE  Works(e, a, k, Member(head, base, name, g))
<1> DEFINE m == get_offset(g.code[base].type, name)
<1>1. m \in Nat
  BY LayoutIs, OffsetNat
<1>2. head \in Int
  BY GenFields DEF Value, Own
<1>3. Member(head, base, name, g) = Emit(g, ArithCode(Size(g), head, -m, "+"))
  BY DEF Member
<1> HIDE DEF m
<1>4. -m \in Int /\ ~ -m > 0 /\ "+" \in Tokens
  BY <1>1 DEF Tokens
<1>5. Works(e, a, k, Emit(g, ArithCode(Size(g), head, -m, "+")))
  BY <1>2, <1>4, ArithWorks
<1> QED
  BY <1>3, <1>5

LEMMA SubscriptWorks ==
  ASSUME NEW e, NEW a, NEW k, ~ e[k].single, NEW g, IsGen(g), AllGood(g), NEW head,
         Value(g, head), NEW offset, Value(g, offset), NEW base, HasLayout(base, g), NEW i \in Nat
  PROVE  Works(e, a, k, Subscript(head, offset, base, i, g))
<1> DEFINE sizes  == g.code[base].sizes
           m      == suffix(sizes)[i + 1] * type_size
           scaled == Emit(g, ArithCode(Size(g), offset, -m, "*"))
           r      == Emit(scaled.g, ArithCode(Size(scaled.g), head, scaled.addr, "+"))
<1>1. sizes \in Seq(Nat) /\ head \in Int /\ offset \in Int
  BY LayoutIs, GenFields DEF Value, Own
<1>2. Subscript(head, offset, base, i, g) = IF i < Len(sizes) THEN r ELSE Crash(g)
  BY DEF Subscript
<1>3. CASE ~ i < Len(sizes)
  BY <1>2, <1>3, CrashWorks
<1>4. CASE i < Len(sizes)
  <2>1. m \in Nat
    BY <1>1, <1>4, SuffixNat
  <2> HIDE DEF sizes, m
  <2>2. -m \in Int /\ ~ -m > 0 /\ "+" \in Tokens /\ "*" \in Tokens
    BY <2>1 DEF Tokens
  <2>3. Value(scaled.g, scaled.addr) /\ AllGood(scaled.g)
    BY <1>1, <2>2, ArithWorks
  <2>4. Moved(g, scaled.g)
    <3>1. ArithCode(Size(g), offset, -m, "*") \in Tacs
      BY <1>1, <2>2, GenFields DEF Tacs, ArithCode
    <3>2. ArithCode(Size(g), offset, -m, "*").op # "FUNCTION"
      BY DEF ArithCode
    <3> QED
      BY <3>1, <3>2, EmitIs
  <2> HIDE DEF scaled
  <2>5. IsGen(scaled.g)
    BY <2>4 DEF Moved
  <2>6. Value(scaled.g, head) /\ scaled.addr \in Int
    <3>1. Value(scaled.g, head)
      BY <2>4, OwnMoves DEF Value
    <3>2. scaled.addr \in 1 .. Len(scaled.g.code)
      BY <2>3 DEF Value, Own
    <3> QED
      BY <3>1, <3>2
  <2>7. Works(e, a, k, r)
    BY <1>1, <2>2, <2>3, <2>5, <2>6, ArithWorks
  <2> QED
    BY <1>2, <1>4, <2>7 DEF sizes
<1> QED
  BY <1>3, <1>4

LEMMA ElementsWork ==
  ASSUME NEW e, NEW a, NEW k, ~ e[k].single, NEW g, IsGen(g), AllGood(g), NEW b, Own(g, b)
  PROVE  Works(e, a, k, Elements(b, g)) /\ Works(e, a, k, Members(b, g))
<1> DEFINE r == AddressOf(b, g)
<1>1. AllGood(r.g) /\ Value(r.g, r.addr)
  BY AddressGood
<1>2. Elements(b, g) \in {r, Crash(g)} /\ Members(b, g) \in {r, Crash(g)}
  BY DEF Elements, Members
<1> HIDE DEF r
<1>3. Works(e, a, k, r)
  BY <1>1, ValueHolds DEF Works, AllGood
<1>4. Works(e, a, k, Crash(g))
  BY CrashWorks
<1> QED
  BY <1>2, <1>3, <1>4

LEMMA AccessWorks ==
  ASSUME NEW e, NEW a, NEW k, NEW g, IsGen(g), AllGood(g), NEW head, Value(g, head)
  PROVE  Works(e, a, k, Access(head, e[k].single, g))
<1>1. head \in Nat /\ head \in 1 .. Len(g.code) /\ Len(g.code) \in Nat /\ Size(g) = Len(g.code) + 1
  BY GenFields DEF Value, Own
<1>2. CASE ~ e[k].single
  <2> DEFINE tac == AssignValCode(Size(g), head)
  <2>1. tac \in Tacs
    BY <1>1 DEF Tacs, AssignValCode
  <2>2. tac.op = "LOAD" /\ tac.addr = Size(g) /\ tac.raddr = head
    BY DEF AssignValCode
  <2>3. Reads(tac) \subseteq {head}
    BY <2>2 DEF Reads
  <2>4. Access(head, e[k].single, g) = Emit(g, tac)
    BY <1>2 DEF Access
  <2> HIDE DEF tac
  <2>5. Works(e, a, k, Emit(g, tac))
    BY <1>2, <2>1, <2>2, <2>3, EmitWorks DEF Definers
  <2> QED
    BY <2>4, <2>5
<1>3. CASE e[k].single
  <2> DEFINE tac == AssignToAddrCode(head, 0)
             r == Emit(g, tac)
             n == Len(g.code) + 1
  <2>1. tac \in Tacs
    BY <1>1 DEF Tacs, AssignToAddrCode
  <2>2. tac.op = "STORE" /\ tac.addr = head
    BY DEF AssignToAddrCode
  <2>3. Access(head, e[k].single, g) = r
    BY <1>3 DEF Access
  <2> HIDE DEF tac
  <2>4. Moved(g, r.g) /\ Longer(g, r.g, tac) /\ r.addr = n
    BY <2>1, <2>2, EmitIs
  <2> HIDE DEF r
  <2>5. IsGen(r.g) /\ Len(r.g.code) = n /\ r.g.code[n] = tac /\ Extends(g, r.g)
    BY <2>4 DEF Longer, Moved
  <2>6. n .. n = {n} /\ n \in Len(g.code) + 1 .. Len(r.g.code)
    BY <1>1, <2>5
  <2>7. GoodBut(r.g, n)
    BY <2>4, <2>5, <2>6, GoodGrows
  <2>8. LiveAt(r.g, n, head)
    BY <1>1, <2>2, <2>5, <2>6, OwnLive DEF Value
  <2>9. StoreLive(r.g, n)
    BY <2>2, <2>5, <2>8 DEF StoreLive
  <2> QED
    BY <1>3, <2>3, <2>4, <2>7, <2>9 DEF Works, IsResult
<1> QED
  BY <1>2, <1>3

LEMMA IdentifierWorks ==
  ASSUME NEW e, IsVisits(e), NEW k \in 1 .. Len(e), e[k].op = "id", NEW a, NEW f,
         Fitting(e, a, f), NEW g, IsGen(f), Moved(f, g), AllGood(g)
  PROVE  Works(e, a, k, Identifier(e[k].name, e[k].single, g))
<1> DEFINE x == e[k].name
           known == g.names[x]
<1>1. x \in Names /\ e[k].single \in BOOLEAN
  BY VisitIs DEF IsVisit
<1>2. Home(f, x)
  BY DEF Fitting
<1>3. IsGen(g) /\ Len(g.code) \in Nat /\ Size(g) = Len(g.code) + 1
  BY GenFields DEF Moved
<1>4. known = f.names[x] /\ known # 0
  <2>1. f.names[x] # 0
    BY <1>2, GenFields DEF Home, Own
  <2> QED
    BY <1>1, <2>1 DEF Moved
<1>5. Own(g, known) /\ OpOf(g, known) = ClassOf(Entry(scopes, x)) /\ known \in Nat
  <2>1. Own(g, known) /\ OpOf(g, known) = ClassOf(Entry(scopes, x))
    BY <1>2, <1>4, OwnMoves DEF Home
  <2> QED
    BY <2>1, <1>3 DEF Own
<1>6. CASE ~ e[k].single
  <2>1. Identifier(x, e[k].single, g) = Return(g, known)
    BY <1>4, <1>6 DEF Identifier
  <2>2. Holds(g, e, a, k, known)
    <3>1. ASSUME OpOf(g, known) = "DEC"
          PROVE  IsBlock(x) /\ ~ IsScalar(Entry(scopes, x))
      BY <1>5, <3>1 DEF ClassOf, IsBlock
    <3>4. Looked(e, a) /\ a[k].type # NoType
      BY DEF Fitting
    <3> HIDE DEF known, x
    <3>5. a[k].aliases = {e[k].name}
      BY <3>4, LookIs
    <3>6. a[k].type = TypeBy(Entry(scopes, e[k].name))
      BY <3>4, TypesAre
    <3>2. a[k].aliases = {x} /\ a[k].type = TypeBy(Entry(scopes, x))
      BY <3>5, <3>6 DEF x
    <3>3. IsScalar(a[k].type) <=> IsScalar(Entry(scopes, x))
      BY <3>2 DEF IsScalar, TypeBy
    <3> QED
      BY <1>5, <3>1, <3>2, <3>3 DEF Holds
  <2> HIDE DEF known
  <2> QED
    BY <1>6, <2>1, <2>2, ReturnWorks
<1>7. CASE e[k].single
  <2> DEFINE tac == AssignCode(known, 0)
             b == [g EXCEPT !.names = [g.names EXCEPT ![x] = known]]
  <2>1. Identifier(x, e[k].single, g) = Emit([g EXCEPT !.names[x] = known], tac)
    BY <1>4, <1>7 DEF Identifier
  <2>2. b = g
    <3>1. [g.names EXCEPT ![x] = g.names[x]] = g.names
      BY <1>1, <1>3, GenFields
    <3>2. g = [code |-> g.code, names |-> g.names, ok |-> g.ok]
      BY <1>3 DEF IsGen, Gens
    <3> HIDE DEF x
    <3> QED
      BY <3>1, <3>2
  <2>3. [g EXCEPT !.names[x] = known] = b
    OBVIOUS
  <2>4. tac \in Tacs /\ tac.op = "ASSIGN" /\ Reads(tac) = {}
    BY <1>5 DEF Tacs, AssignCode, Reads
  <2> HIDE DEF tac, b, known
  <2> DEFINE r == Emit(g, tac)
  <2>5. Identifier(x, e[k].single, g) = r
    BY <2>1, <2>2, <2>3
  <2>6. AllGood(r.g) /\ r.addr = Len(g.code) + 1 /\ Longer(g, r.g, tac) /\ Moved(g, r.g)
    <3>1. tac.op # "FUNCTION"
      BY <2>4
    <3> QED
      BY <1>3, <2>4, <3>1, EmitGood, EmitIs
  <2> HIDE DEF r
  <2>7. OpOf(r.g, r.addr) = "ASSIGN"
    <3>1. r.addr \in DOMAIN r.g.code
      BY <1>3, <2>6, GenFields DEF Longer, Moved
    <3> QED
      BY <2>4, <2>6, <3>1 DEF OpOf, Longer
  <2>8. GoodBut(r.g, r.addr) /\ StoreLive(r.g, r.addr)
    <3>1. \A i \in 1 .. Len(r.g.code) : i # 0
      OBVIOUS
    <3> QED
      BY <2>6, <2>7, <3>1 DEF StoreLive, AllGood, GoodBut
  <2> QED
    BY <1>7, <2>5, <2>8 DEF Works, IsResult
<1> QED
  BY <1>1, <1>6, <1>7

LEMMA LaterWorks ==
  ASSUME NEW e, NEW a, NEW k, ~ e[k].single, NEW g, IsGen(g), AllGood(g), NEW b, Value(g, b)
  PROVE  Works(e, a, k, Later(b, g))
<1> DEFINE tac == AssignAddrCode(Size(g), b)
           h == Push(g, tac)
<1>1. b \in Nat /\ Size(g) \in Nat
  BY GenFields DEF Value, Own
<1>2. tac \in Tacs /\ tac.op = "ADDRESS" /\ tac.raddr = b
  BY <1>1 DEF Tacs, AssignAddrCode
<1>3. Reads(tac) \subseteq {b}
  BY <1>2 DEF Reads
<1>4. Later(b, g) = Return(h, b)
  BY DEF Later, Value
<1> HIDE DEF tac
<1>5. Emit(g, tac).g = h
  BY DEF Emit
<1>6. AllGood(h) /\ Moved(g, h)
  <2>1. tac.op # "FUNCTION"
    BY <1>2
  <2> HIDE DEF h
  <2> QED
    BY <1>2, <1>3, <1>5, <2>1, EmitGood, EmitIs
<1> HIDE DEF h
<1>7. Value(h, b)
  BY <1>6, OwnMoves DEF Value
<1>8. Works(e, a, k, Return(h, b))
  BY <1>6, <1>7, ValueHolds, ReturnWorks
<1> QED
  BY <1>4, <1>8

(* Instructions that hand over values: what becomes of g. *)
LEMMA PushGood ==
  ASSUME NEW g, IsGen(g), AllGood(g), NEW tacs \in Seq(Tacs),
         \A i \in 1 .. Len(tacs) :
           tacs[i].op # "FUNCTION" /\ \A b \in Reads(tacs[i]) : Value(g, b)
  PROVE  AllGood(PushAll(g, tacs))
<1> DEFINE h == PushAll(g, tacs)
           n == Len(g.code)
<1>1. /\ Moved(g, h) /\ Extends(g, h) /\ Len(h.code) = n + Len(tacs)
      /\ \A i \in 1 .. Len(tacs) : h.code[n + i] = tacs[i]
  BY PushAllMoves
<1>2. n \in Nat /\ Len(tacs) \in Nat
  BY GenFields
<1> HIDE DEF h
<1>3. ASSUME NEW i \in n + 1 .. Len(h.code)
      PROVE  \A b \in Reads(h.code[i]) : Value(g, b)
  <2>1. i - n \in 1 .. Len(tacs) /\ n + (i - n) = i
    BY <1>1, <1>2
  <2>2. h.code[i] = tacs[i - n]
    BY <1>1, <2>1
  <2> QED
    BY <2>1, <2>2
<1> HIDE DEF n
<1>4. GoodBut(h, 0)
  BY <1>1, <1>3, GoodGrows DEF Value, n
<1> QED
  BY <1>4 DEF AllGood, h

LEMMA CallWorks ==
  ASSUME NEW e, NEW a, NEW k, ~ e[k].single, NEW g, IsGen(g), AllGood(g),
         NEW addrs \in Seq(Nat), \A i \in DOMAIN addrs : Value(g, addrs[i]), NEW f \in Names
  PROVE  Works(e, a, k, Call(f, addrs, g))
<1> DEFINE tacs == [i \in DOMAIN addrs |-> ArgCode(addrs[i])]
           all  == PushAll(g, tacs)
           tac  == CallCode(Size(all), f)
<1>1. Call(f, addrs, g) = Emit(all, tac)
  BY DEF Call
<1>2. /\ tacs \in Seq(Tacs) /\ DOMAIN addrs = 1 .. Len(addrs) /\ Len(tacs) = Len(addrs)
      /\ Len(addrs) \in Nat
  <2>1. DOMAIN addrs = 1 .. Len(addrs) /\ Len(addrs) \in Nat
    OBVIOUS
  <2>2. \A i \in 1 .. Len(addrs) : ArgCode(addrs[i]) \in Tacs
    BY DEF Tacs, ArgCode
  <2>3. tacs = [i \in 1 .. Len(addrs) |-> ArgCode(addrs[i])]
    BY <2>1
  <2> HIDE DEF tacs
  <2> QED
    BY <2>1, <2>2, <2>3, IsASeq
<1>3. \A i \in 1 .. Len(tacs) : tacs[i] = ArgCode(addrs[i]) /\ Value(g, addrs[i])
  BY <1>2
<1> HIDE DEF tacs
<1>4. \A i \in 1 .. Len(tacs) : tacs[i].op = "ARG" /\ tacs[i].raddr = addrs[i]
  <2> TAKE i \in 1 .. Len(tacs)
  <2>1. tacs[i] = ArgCode(addrs[i])
    BY <1>3
  <2> QED
    BY <2>1 DEF ArgCode
<1>5. \A i \in 1 .. Len(tacs) : Reads(tacs[i]) \subseteq {addrs[i]}
  BY <1>4 DEF Reads
<1>6. \A i \in 1 .. Len(tacs) : tacs[i].op # "FUNCTION" /\ \A b \in Reads(tacs[i]) : Value(g, b)
  BY <1>3, <1>4, <1>5
<1>7. AllGood(all) /\ IsGen(all)
  <2>1. AllGood(all)
    BY <1>2, <1>6, PushGood
  <2>2. Moved(g, all)
    BY <1>2, <1>6, PushAllMoves
  <2> HIDE DEF all
  <2> QED
    BY <2>1, <2>2 DEF Moved
<1> HIDE DEF all
<1>8. tac \in Tacs /\ tac.op = "CALL" /\ tac.addr = Size(all) /\ Reads(tac) = {}
  BY <1>7, GenFields DEF Tacs, CallCode, Reads
<1> HIDE DEF tac
<1>9. Works(e, a, k, Emit(all, tac))
  BY <1>7, <1>8, EmitWorks DEF Definers
<1> QED
  BY <1>1, <1>9

(* The source of the pending assignment l is filled in. *)
LEMMA AssignmentWorks ==
  ASSUME NEW e, NEW a, NEW k, ~ e[k].single, NEW g, IsGen(g), NEW l, OpOf(g, l) \in Patched,
         GoodBut(g, l), StoreLive(g, l), NEW r, Value(g, r), r < l
  PROVE  Works(e, a, k, Assignment(r, l, g))
<1> DEFINE h == [g EXCEPT !.code[l].raddr = r]
           n == Len(g.code)
<1>1. Assignment(r, l, g) = Return(h, r)
  BY DEF Assignment, Patched
<1>2. n \in Nat /\ l \in 1 .. n /\ r \in 1 .. n /\ OpOf(g, l) = g.code[l].op /\ r \in Nat
  <2>1. OpOf(g, l) # "none"
    BY DEF Patched
  <2> QED
    BY <2>1, GenFields, OpOfIs DEF Value, Own
<1>3. /\ Moved(g, h) /\ Len(h.code) = n
      /\ \A i \in 1 .. n : i # l => h.code[i] = g.code[i]
      /\ h.code[l].op = g.code[l].op /\ h.code[l].addr = g.code[l].addr
      /\ h.code[l].raddr = r
  BY <1>2, PatchMoves
<1> HIDE DEF h
<1>4. \A i \in 1 .. n : h.code[i].op = g.code[i].op /\ h.code[i].addr = g.code[i].addr
  BY <1>3
<1>5. ASSUME NEW i \in 1 .. n, NEW b, LiveAt(g, i, b)
      PROVE  LiveAt(h, i, b)
  <2>1. b \in 1 .. i - 1 /\ b \in 1 .. n /\ \A j \in b .. i : j \in 1 .. n
    BY <1>2, <1>5 DEF LiveAt
  <2> QED
    BY <1>4, <1>5, <2>1 DEF LiveAt
<1>6. LiveAt(g, l, r)
  <2>1. r \in 1 .. l - 1 /\ \A j \in r .. l : j \in r .. n
    BY <1>2
  <2>2. OpOf(g, r) = g.code[r].op
    BY <1>2, GenFields DEF OpOf
  <2> QED
    BY <2>1, <2>2 DEF LiveAt, Value, Own, NoFunction
<1>7. Good(h, l)
  <2>1. \A b \in Reads(h.code[l]) : b = r \/ (OpOf(g, l) = "STORE" /\ b = h.code[l].addr)
    BY <1>2, <1>3 DEF Reads, Patched
  <2>2. OpOf(g, l) = "STORE" => LiveAt(g, l, h.code[l].addr)
    BY <1>3 DEF StoreLive
  <2> QED
    BY <1>2, <1>5, <1>6, <2>1, <2>2 DEF Good
<1>8. AllGood(h)
  <2>1. ASSUME NEW i \in 1 .. n, i # l
        PROVE  Good(h, i)
    <3>1. Good(g, i) /\ h.code[i] = g.code[i]
      BY <1>3, <2>1 DEF GoodBut
    <3> QED
      BY <1>5, <3>1 DEF Good
  <2> QED
    BY <1>3, <1>7, <2>1 DEF AllGood, GoodBut
<1>9. Value(h, r)
  BY <1>3, OwnMoves DEF Value
<1> QED
  BY <1>1, <1>8, <1>9, ValueHolds, ReturnWorks

(* The operands of a visit are results. *)
LEMMA PartsSound ==
  ASSUME NEW e, IsVisits(e), NEW k \in 1 .. Len(e), NEW f, NEW a, NEW t, t.g.ok,
         Reached(e, k - 1, f, t), Sound(e, a, k - 1, t)
  PROVE  PartsHold(e, a, k, t.g, Taken(e[k], t.at))
<1> SUFFICES ASSUME NEW i \in DOMAIN e[k].parts, ~ (e[k].op = "assign" /\ i = 2)
             PROVE  Holds(t.g, e, a, e[k].parts[i], Taken(e[k], t.at)[i])
  BY DEF PartsHold
<1> DEFINE j == e[k].parts[i]
<1>1. j \in 1 .. k - 1 /\ IsVisit(e, k) /\ Len(e) \in Nat
  BY VisitIs
<1>2. j \in 1 .. Len(e) /\ j # Len(e)
  BY <1>1
<1>3. IsVisit(e, j) /\ e[j].single \in BOOLEAN
  BY <1>2, VisitIs
<1>4. ~ e[j].single
  BY <1>1 DEF IsVisit
<1>5. e[j].op # "args"
  BY <1>2, <1>3 DEF IsVisit
<1>6. Taken(e[k], t.at)[i] = t.at[j]
  BY TakenIs DEF Reached
<1> HIDE DEF j
<1>7. Holds(t.g, e, a, j, t.at[j])
  BY <1>1, <1>4, <1>5 DEF Sound, IsResult
<1> QED
  BY <1>6, <1>7 DEF j

(* Which of them are values. *)
LEMMA PartsAreValues ==
  ASSUME NEW e, IsVisits(e), NEW k \in 1 .. Len(e), NEW f, NEW a, Fitting(e, a, f), NEW g, NEW p,
         PartsHold(e, a, k, g, p)
  PROVE  /\ e[k].op \in Tokens \union {"neg", "call"} =>
              \A i \in DOMAIN e[k].parts : Value(g, p[i])
         /\ e[k].op \in {"assign", "index", "member", "access", "later"} => Value(g, p[1])
         /\ e[k].op = "index" => Value(g, p[2])
         /\ e[k].op \in {"first", "paren", "elements", "members"} =>
              Holds(g, e, a, e[k].parts[1], p[1])
<1> DEFINE v == e[k]
           part(i) == e[v.parts[i]]
<1>1. /\ IsVisit(e, k) /\ a[k].type # NoType /\ Looked(e, a)
      /\ v.op = "later" => \A x \in a[k].aliases : ~ IsBlock(x)
  BY VisitIs DEF Fitting
<1>2. /\ v.op \in {"assign", "index", "member", "access", "later", "first", "paren", "elements",
                   "members"} => 1 \in DOMAIN v.parts
      /\ v.op = "index" => 2 \in DOMAIN v.parts
  BY PartsAre DEF Steps
<1>3. IsScalar(Scalar) /\ \A i : PartType(e, a, k, i) = a[v.parts[i]].type
  BY DEF IsScalar, Scalar, PartType
<1>4. ASSUME v.op \in Tokens \union {"neg"}, NEW i \in DOMAIN v.parts
      PROVE  Value(g, p[i])
  <2>1. Holds(g, e, a, v.parts[i], p[i])
    BY <1>4 DEF PartsHold, Tokens
  <2>2. PartType(e, a, k, i) = Scalar
    BY <1>1, <1>4, TypesAre
  <2> QED
    BY <1>3, <2>1, <2>2, HoldsValue
<1>5. ASSUME v.op = "call", NEW i \in DOMAIN v.parts
      PROVE  Value(g, p[i])
  <2>1. Holds(g, e, a, v.parts[i], p[i])
    BY <1>5 DEF PartsHold
  <2>2. part(i).op \in {"first", "later"}
    BY <1>1, <1>5 DEF IsVisit
  <2> QED
    BY <2>1, <2>2, HoldsValue
<1>6. CASE v.op \in {"assign", "index", "member", "access", "later", "first", "paren", "elements",
                     "members"}
  <2>1. Holds(g, e, a, v.parts[1], p[1])
    BY <1>2, <1>6 DEF PartsHold
  <2>2. CASE v.op = "assign"
    <3>1. PartType(e, a, k, 1) = Scalar
      BY <1>1, <1>2, <2>2, TypesAre
    <3> QED
      BY <1>3, <2>1, <2>2, <3>1, HoldsValue DEF Tokens
  <2>3. CASE v.op \in {"index", "member", "access"}
    <3>1. part(1).op \in {"elements", "index", "mixed", "members", "member"}
      BY <1>1, <2>3 DEF IsVisit, InFront, Steps
    <3>2. Value(g, p[1])
      BY <2>1, <3>1, HoldsValue
    <3>3. v.op = "index" => Value(g, p[2])
      <4>1. v.op = "index" => Holds(g, e, a, v.parts[2], p[2]) /\ PartType(e, a, k, 2) = Scalar
        BY <1>1, <1>2, TypesAre DEF PartsHold
      <4> QED
        BY <1>3, <4>1, HoldsValue
    <3> QED
      BY <2>3, <3>2, <3>3 DEF Tokens
  <2>4. CASE v.op = "later"
    <3>1. a[k].aliases = a[v.parts[1]].aliases
      BY <1>1, <2>4, LookIs
    <3>2. Value(g, p[1])
      BY <1>1, <2>1, <2>4, <3>1 DEF Holds, Value
    <3> QED
      BY <2>4, <3>2 DEF Tokens
  <2>5. CASE v.op \in {"first", "paren", "elements", "members"}
    BY <2>1, <2>5 DEF Tokens
  <2> QED
    BY <1>6, <2>2, <2>3, <2>4, <2>5
<1> HIDE DEF part
<1> QED
  BY <1>4, <1>5, <1>6

(* The work of a visit, and what it leaves behind. *)
LEMMA VisitedWorks ==
  ASSUME NEW e, IsVisits(e), NEW k \in 1 .. Len(e), NEW f, NEW a, Fitting(e, a, f), IsGen(f),
         NEW t, t.g.ok, Reached(e, k - 1, f, t), Sound(e, a, k - 1, t)
  PROVE  Works(e, a, k, Visited(e[k], Taken(e[k], t.at), t.g))
<1> DEFINE v == e[k]
           g == t.g
           at == t.at
           p == Taken(v, at)
           r == Visited(v, p, g)
<1>1. /\ v.op \in Ops /\ v.single \in BOOLEAN /\ v.number \in Nat /\ IsVisit(e, k)
      /\ DOMAIN v.parts = 1 .. Len(v.parts) /\ Len(v.parts) \in Nat
      /\ (v.single => v.op \in {"id", "access"}) /\ Len(e) \in Nat
  BY VisitIs, SingleIs
<1>2. IsGen(g) /\ Moved(f, g) /\ at \in Seq(Nat) /\ Len(at) = k - 1
  BY DEF Reached, Moved
<1>3. p \in Seq(Nat) /\ DOMAIN p = DOMAIN v.parts /\ \A i \in DOMAIN v.parts : p[i] = at[v.parts[i]]
  BY <1>2, TakenIs
<1>4. PartsHold(e, a, k, g, p)
  BY PartsSound
<1>5. Does(e, k, at, g, r)
  BY VisitedDoes
<1> SUFFICES ASSUME r.g.ok
             PROVE  Works(e, a, k, r)
  BY DEF Works
<1>6. v.op \in Steps => HasLayout(at[Base(e, k)], g)
  BY <1>5 DEF Does
<1>7. ASSUME v.op # "assign"
      PROVE  AllGood(g)
  <2>1. ~ (k - 1 > 0 /\ e[k - 1].single)
    <3> SUFFICES ASSUME k - 1 > 0, e[k - 1].single
                 PROVE  FALSE
      OBVIOUS
    <3>1. k - 1 \in 1 .. Len(e) /\ k - 1 + 1 = k
      BY <1>1
    <3>2. IsVisit(e, k - 1)
      BY <3>1, VisitIs
    <3> QED
      BY <1>7, <3>1, <3>2 DEF IsVisit
  <2>2. Pending(e, k - 1, at) = 0
    BY <2>1 DEF Pending
  <2> QED
    BY <2>2 DEF Sound, AllGood
<1>8. /\ v.op \in Tokens \union {"neg", "call"} => \A i \in DOMAIN v.parts : Value(g, p[i])
      /\ v.op \in {"assign", "index", "member", "access", "later"} => Value(g, p[1])
      /\ v.op = "index" => Value(g, p[2])
      /\ v.op \in {"first", "paren", "elements", "members"} => Holds(g, e, a, v.parts[1], p[1])
  BY <1>4, PartsAreValues
<1>9. \A i \in DOMAIN p : p[i] \in Int
  BY <1>3
<1>10. /\ v.op \in {"paren", "neg", "access", "first", "later"} \union Steps \union Tokens
                     \union {"assign"} => 1 \in DOMAIN v.parts
       /\ v.op \in {"assign", "index"} \union Tokens => 2 \in DOMAIN v.parts
       /\ v.op \in {"index", "member"} => Base(e, k) = v.parts[Len(v.parts)] /\ Len(v.parts) \in DOMAIN v.parts
       /\ v.op = "index" => Len(v.parts) = 3
       /\ v.op = "member" => Len(v.parts) = 2
  BY PartsAre
<1> HIDE DEF p
<1>11. CASE v.op \in {"read", "int"}
  <2> DEFINE tac == IF v.op = "read" THEN ReadCode(Size(g)) ELSE AssignCode(Size(g), -v.number)
  <2>1. r = Emit(g, tac)
    BY <1>11 DEF Visited, Tokens
  <2>2. tac \in Tacs /\ tac.op \in Definers \ {"DEC"} /\ tac.addr = Size(g) /\ Reads(tac) = {}
    <3>1. Size(g) \in Nat /\ -v.number \in Int /\ ~ -v.number > 0
      BY <1>1, <1>2, GenFields
    <3>2. CASE v.op = "read"
      BY <3>1, <3>2 DEF ReadCode, Tacs, Definers, Reads
    <3>3. CASE v.op # "read"
      BY <3>1, <3>3 DEF AssignCode, Tacs, Definers, Reads
    <3> QED
      BY <3>2, <3>3
  <2> HIDE DEF tac
  <2>3. AllGood(g) /\ ~ v.single
    BY <1>1, <1>7, <1>11
  <2>4. Works(e, a, k, Emit(g, tac))
    BY <1>2, <2>2, <2>3, EmitWorks
  <2> QED
    BY <2>1, <2>4
<1>12. CASE v.op = "id"
  <2>1. r = Identifier(v.name, v.single, g)
    BY <1>12 DEF Visited, Tokens
  <2> QED
    BY <1>2, <1>7, <1>12, <2>1, IdentifierWorks
<1>13. CASE v.op = "paren"
  <2>1. r = Return(g, p[1]) /\ AllGood(g) /\ ~ v.single /\ 1 \in DOMAIN v.parts
    BY <1>1, <1>7, <1>10, <1>13 DEF Visited, Tokens
  <2>2. Holds(g, e, a, v.parts[1], p[1])
    BY <1>8, <1>13
  <2>3. a[k].type = a[v.parts[1]].type /\ a[k].aliases = a[v.parts[1]].aliases
    <3>1. Looked(e, a) /\ a[k].type # NoType
      BY DEF Fitting
    <3>2. a[k].type = PartType(e, a, k, 1) /\ a[k].aliases = a[v.parts[1]].aliases
      BY <1>13, <3>1, LookIs, TypesAre
    <3> QED
      BY <3>2 DEF PartType
  <2>4. Holds(g, e, a, k, p[1])
    BY <1>13, <2>2, <2>3 DEF Holds
  <2> QED
    BY <2>1, <2>4, ReturnWorks
<1>14. CASE v.op = "neg" \/ v.op \in Tokens
  <2>1. AllGood(g) /\ ~ v.single /\ 1 \in DOMAIN v.parts
    BY <1>1, <1>7, <1>10, <1>14 DEF Tokens
  <2>2. CASE v.op = "neg"
    <3>1. r = Emit(g, ArithCode(Size(g), 0, p[1], "-"))
      BY <2>2 DEF Visited, Tokens
    <3>2. Value(g, p[1]) /\ p[1] \in Int /\ "-" \in Tokens /\ ~ 0 > 0
      BY <1>3, <1>8, <1>9, <2>1, <2>2 DEF Tokens
    <3>3. Works(e, a, k, Emit(g, ArithCode(Size(g), 0, p[1], "-")))
      BY <1>2, <2>1, <3>2, ArithWorks
    <3> QED
      BY <3>1, <3>3
  <2>3. CASE v.op \in Tokens
    <3>1. r = Emit(g, ArithCode(Size(g), p[1], p[2], v.op))
      BY <2>3 DEF Visited, Tokens
    <3>2. Value(g, p[1]) /\ p[1] \in Int /\ Value(g, p[2]) /\ p[2] \in Int
      BY <1>3, <1>8, <1>9, <1>10, <2>3
    <3>3. Works(e, a, k, Emit(g, ArithCode(Size(g), p[1], p[2], v.op)))
      BY <1>2, <2>1, <2>3, <3>2, ArithWorks
    <3> QED
      BY <3>1, <3>3
  <2> QED
    BY <1>14, <2>2, <2>3
<1>15. CASE v.op = "assign"
  <2> DEFINE l == p[2]
             b == p[1]
  <2>1. r = Assignment(b, l, g) /\ ~ v.single
    BY <1>1, <1>15 DEF Visited, Tokens
  <2>2. /\ v.parts[2] = k - 1 /\ v.parts[1] \in 1 .. k - 2 /\ IsTarget(e[k - 1]) /\ k - 1 > 0
        /\ k - 1 \in 1 .. k - 1 /\ k - 1 \in 1 .. Len(e)
    <3>1. v.parts[2] = k - 1 /\ v.parts[1] < k - 1 /\ IsTarget(e[v.parts[2]])
      BY <1>1, <1>15 DEF IsVisit
    <3>2. v.parts[1] \in 1 .. k - 1
      BY <1>10, <1>15, VisitIs
    <3> QED
      BY <1>1, <3>1, <3>2
  <2>3. e[k - 1].single
    <3>1. k \in 1 .. Len(e) /\ e[k - 1].op # "paren"
      BY <1>15, <2>2 DEF Fitting, NoParens
    <3>2. e[k - 1].single \in BOOLEAN
      BY <2>2, VisitIs
    <3> QED
      BY <2>2, <3>1, <3>2 DEF IsTarget
  <2>4. l = at[k - 1] /\ b = at[v.parts[1]]
    BY <1>3, <1>10, <1>15, <2>2
  <2>5. OpOf(g, l) \in Patched /\ b < l
    <3>1. \A j \in 1 .. k - 1 - 1 : at[j] < at[k - 1]
      BY <2>2, <2>3 DEF Reached
    <3>2. k - 1 - 1 = k - 2
      BY <1>1
    <3>3. OpOf(g, at[k - 1]) \in Patched
      BY <2>2, <2>3 DEF Reached
    <3> QED
      BY <2>2, <2>4, <3>1, <3>2, <3>3
  <2>6. GoodBut(g, l) /\ StoreLive(g, l)
    <3>1. Pending(e, k - 1, at) = l
      BY <2>2, <2>3, <2>4 DEF Pending
    <3> QED
      BY <2>2, <2>3, <2>4, <3>1 DEF Sound
  <2>7. Value(g, b)
    BY <1>8, <1>15
  <2> HIDE DEF l, b
  <2>8. Works(e, a, k, Assignment(b, l, g))
    BY <1>2, <2>1, <2>5, <2>6, <2>7, AssignmentWorks
  <2> QED
    BY <2>1, <2>8
<1>16. CASE v.op \in {"elements", "members", "first"}
  <2>1. AllGood(g) /\ ~ v.single /\ Own(g, p[1])
    BY <1>1, <1>7, <1>8, <1>16 DEF Holds
  <2>2. r \in {Elements(p[1], g), Members(p[1], g), AddressOf(p[1], g)}
    BY <1>16 DEF Visited, Tokens
  <2>3. Works(e, a, k, Elements(p[1], g)) /\ Works(e, a, k, Members(p[1], g))
    BY <1>2, <2>1, ElementsWork
  <2>4. Works(e, a, k, AddressOf(p[1], g))
    BY <1>2, <2>1, AddressGood, ValueHolds DEF Works, AllGood
  <2> QED
    BY <2>2, <2>3, <2>4
<1>17. CASE v.op = "index"
  <2>1. r = Subscript(p[1], p[2], p[3], v.number, g) /\ AllGood(g) /\ ~ v.single
    BY <1>1, <1>7, <1>17 DEF Visited, Tokens
  <2>2. Value(g, p[1]) /\ Value(g, p[2])
    BY <1>8, <1>17
  <2>3. HasLayout(p[3], g)
    BY <1>3, <1>6, <1>10, <1>17 DEF Steps
  <2>4. Works(e, a, k, Subscript(p[1], p[2], p[3], v.number, g))
    BY <1>1, <1>2, <2>1, <2>2, <2>3, SubscriptWorks
  <2> QED
    BY <2>1, <2>4
<1>18. CASE v.op = "mixed"
  <2>1. r = Crash(g)
    BY <1>18 DEF Visited, Tokens
  <2> QED
    BY <1>2, <2>1, CrashWorks
<1>19. CASE v.op = "member"
  <2>1. r = Member(p[1], p[2], v.name, g) /\ AllGood(g) /\ ~ v.single
    BY <1>1, <1>7, <1>19 DEF Visited, Tokens
  <2>2. HasLayout(p[2], g)
    BY <1>3, <1>6, <1>10, <1>19 DEF Steps
  <2>3. Works(e, a, k, Member(p[1], p[2], v.name, g))
    BY <1>2, <1>8, <1>19, <2>1, <2>2, MemberWorks
  <2> QED
    BY <2>1, <2>3
<1>20. CASE v.op = "access"
  <2>1. r = Access(p[1], v.single, g) /\ AllGood(g)
    BY <1>7, <1>20 DEF Visited, Tokens
  <2>2. Value(g, p[1])
    BY <1>8, <1>20
  <2>3. Works(e, a, k, Access(p[1], v.single, g))
    BY <1>2, <2>1, <2>2, AccessWorks
  <2> QED
    BY <2>1, <2>3
<1>21. CASE v.op = "later"
  <2>1. r = Later(p[1], g) /\ AllGood(g) /\ ~ v.single
    BY <1>1, <1>7, <1>21 DEF Visited, Tokens
  <2> QED
    BY <1>2, <1>8, <1>21, <2>1, LaterWorks
<1>22. CASE v.op = "args"
  <2>1. r = Return(g, 0) /\ AllGood(g) /\ ~ v.single /\ ~ IsResult(v)
    BY <1>1, <1>7, <1>22 DEF Visited, Tokens, IsResult
  <2> QED
    BY <2>1, ReturnWorks
<1>23. CASE v.op = "call"
  <2>1. r = Call(v.name, p, g) /\ AllGood(g) /\ ~ v.single /\ v.name \in Names
    BY <1>1, <1>7, <1>23 DEF Visited, Tokens, IsVisit
  <2>2. \A i \in DOMAIN p : Value(g, p[i])
    BY <1>3, <1>8, <1>23
  <2>3. Works(e, a, k, Call(v.name, p, g))
    BY <1>2, <1>3, <2>1, <2>2, CallWorks
  <2> QED
    BY <2>1, <2>3
<1> QED
  BY <1>1, <1>11, <1>12, <1>13, <1>14, <1>15, <1>16, <1>17, <1>18, <1>19, <1>20, <1>21, <1>22,
     <1>23 DEF Ops

(* One visit more. *)
LEMMA VisitSound ==
  ASSUME NEW e, IsVisits(e), NEW k \in 1 .. Len(e), NEW f, NEW a, Fitting(e, a, f), IsGen(f),
         NEW t, Reached(e, k - 1, f, t), Sound(e, a, k - 1, t)
  PROVE  Sound(e, a, k, Visit(t, e[k]))
<1> DEFINE r == IF t.g.ok THEN Visited(e[k], Taken(e[k], t.at), t.g) ELSE Crash(t.g)
           u == Visit(t, e[k])
<1>1. u.g = r.g /\ u.at = Append(t.at, r.addr)
  BY DEF Visit
<1>2. IsGen(t.g) /\ t.at \in Seq(Nat) /\ Len(t.at) = k - 1 /\ Len(e) \in Nat
  BY VisitIs DEF Reached, Moved
<1>3. ~ t.g.ok => ~ r.g.ok
  BY <1>2, CrashIs
<1>4. t.g.ok => Works(e, a, k, r)
  BY VisitedWorks
<1>5. t.g.ok => Does(e, k, t.at, t.g, r)
  BY VisitedDoes
<1> HIDE DEF r, u
<1> SUFFICES ASSUME r.g.ok
             PROVE  Sound(e, a, k, u)
  BY <1>1 DEF Sound, u
<1>6. t.g.ok /\ Works(e, a, k, r) /\ Moved(t.g, r.g) /\ r.addr \in Nat
  BY <1>3, <1>4, <1>5 DEF Does
<1>7. u.at[k] = r.addr /\ \A i \in 1 .. k - 1 : u.at[i] = t.at[i]
  <2>1. /\ Append(t.at, r.addr)[Len(t.at) + 1] = r.addr
        /\ \A i \in 1 .. Len(t.at) : Append(t.at, r.addr)[i] = t.at[i]
    BY <1>2, <1>6, AppendIs
  <2>2. k - 1 + 1 = k
    BY <1>2
  <2> QED
    BY <1>1, <1>2, <2>1, <2>2
<1>8. k > 0 /\ Pending(e, k, u.at) = IF e[k].single THEN r.addr ELSE 0
  BY <1>2, <1>7 DEF Pending
<1>9. GoodBut(u.g, Pending(e, k, u.at)) /\ (e[k].single => StoreLive(u.g, u.at[k]))
  BY <1>1, <1>6, <1>7, <1>8 DEF Works
<1>10. ASSUME NEW i \in 1 .. k, IsResult(e[i])
       PROVE  Holds(u.g, e, a, i, u.at[i])
  <2>1. CASE i = k
    BY <1>1, <1>6, <1>7, <1>10, <2>1 DEF Works
  <2>2. CASE i # k
    <3>1. i \in 1 .. k - 1
      BY <1>2, <2>2
    <3>2. Holds(t.g, e, a, i, t.at[i])
      BY <1>6, <1>10, <3>1 DEF Sound
    <3>3. Own(r.g, t.at[i]) /\ OpOf(r.g, t.at[i]) = OpOf(t.g, t.at[i])
      BY <1>2, <1>6, <3>2, OwnMoves DEF Holds
    <3>4. Holds(r.g, e, a, i, t.at[i])
      BY <3>2, <3>3 DEF Holds
    <3> QED
      BY <1>1, <1>7, <3>1, <3>4
  <2> QED
    BY <2>1, <2>2
<1> QED
  BY <1>8, <1>9, <1>10 DEF Sound

(* The translation of an expression or a list of arguments that fits. *)
LEMMA TranslationSound ==
  ASSUME NEW e, IsVisits(e), NEW f, NEW a, Fitting(e, a, f), IsGen(f), AllGood(f)
  PROVE  Sound(e, a, Len(e), Translation(e, f))
<1>1. Len(e) \in Nat
  BY DEF IsVisits
<1>2. PICK h : /\ h[0] = [g |-> f, at |-> << >>]
               /\ \A k \in 1 .. Len(e) : h[k] = Visit(h[k - 1], e[k])
               /\ h[Len(e)] = Translation(e, f)
               /\ \A k \in 0 .. Len(e) : Reached(e, k, f, h[k])
  BY TranslationReaches
<1> DEFINE K == {k \in Nat : k <= Len(e) => Sound(e, a, k, h[k])}
<1>3. 0 \in K
  <2>1. h[0].g = f /\ Pending(e, 0, h[0].at) = 0
    BY <1>2 DEF Pending
  <2>2. Sound(e, a, 0, h[0])
    BY <2>1 DEF Sound, AllGood
  <2> QED
    BY <2>2
<1>4. ASSUME NEW k \in Nat, k \in K
      PROVE  k + 1 \in K
  <2> SUFFICES ASSUME k + 1 <= Len(e)
               PROVE  Sound(e, a, k + 1, h[k + 1])
    OBVIOUS
  <2>1. k + 1 \in 1 .. Len(e) /\ k + 1 - 1 = k /\ k \in 0 .. Len(e) /\ Sound(e, a, k, h[k])
    BY <1>1, <1>4
  <2>2. h[k + 1] = Visit(h[k], e[k + 1]) /\ Reached(e, k, f, h[k])
    BY <1>2, <2>1
  <2>3. Sound(e, a, k + 1, Visit(h[k], e[k + 1]))
    BY <2>1, <2>2, VisitSound
  <2> QED
    BY <2>2, <2>3
<1> HIDE DEF K
<1>5. Len(e) \in K
  BY <1>1, <1>3, <1>4, Walk!NatSet
<1> QED
  BY <1>1, <1>2, <1>5 DEF K

(* Expressions, lists of arguments and what is done with their values. *)
LEMMA ExpGood ==
  ASSUME NEW e, IsExp(e), NEW f, NEW a, Fitting(e, a, f), IsGen(f), AllGood(f),
         IsScalar(Last(a).type)
  PROVE  LET r == translate_Exp(e, f)
         IN  r.g.ok => AllGood(r.g) /\ Value(r.g, r.addr)
<1> DEFINE t == Translation(e, f)
           n == Len(e)
<1>1. IsVisits(e) /\ n \in Nat \ {0} /\ e \in Seq(Range(e)) /\ e # << >>
  BY DEF IsExp, IsVisits
<1>2. n \in 1 .. Len(e) /\ Last(e) = e[n]
  BY <1>1 DEF Last
<1>3. ~ e[n].single
  BY <1>1, <1>2, VisitIs DEF IsVisit
<1>4. IsResult(e[n])
  BY <1>2, <1>3 DEF IsExp, IsResult
<1>5. Sound(e, a, n, t)
  BY <1>1, TranslationSound
<1>6. Reached(e, n, f, t)
  BY <1>1, TranslationMoves
<1>7. translate_Exp(e, f) = Return(t.g, Last(t.at))
  BY DEF translate_Exp
<1> HIDE DEF t
<1>8. Last(t.at) = t.at[n] /\ Last(a) = a[n]
  BY <1>6 DEF Last, Reached, Fitting, Looked
<1> HIDE DEF n
<1>9. ASSUME t.g.ok
      PROVE  AllGood(t.g) /\ Value(t.g, Last(t.at))
  <2>1. Pending(e, n, t.at) = 0
    BY <1>3 DEF Pending
  <2>2. GoodBut(t.g, 0)
    BY <1>5, <1>9, <2>1 DEF Sound
  <2>3. n \in 1 .. n
    BY <1>1
  <2>4. Holds(t.g, e, a, n, t.at[n])
    BY <1>4, <1>5, <1>9, <2>3 DEF Sound
  <2>5. Value(t.g, t.at[n])
    BY <1>8, <2>4, HoldsValue
  <2> QED
    BY <1>8, <2>2, <2>5 DEF AllGood
<1> QED
  BY <1>7, <1>9 DEF Return

LEMMA ArgsGood ==
  ASSUME NEW e, IsArgs(e), NEW f, NEW a, Fitting(e, a, f), IsGen(f), AllGood(f)
  PROVE  LET r == translate_Args(e, f)
         IN  r.g.ok => AllGood(r.g) /\ \A i \in DOMAIN r.addrs : Value(r.g, r.addrs[i])
<1> DEFINE t == Translation(e, f)
           n == Len(e)
<1>1. IsVisits(e) /\ n \in Nat \ {0} /\ e \in Seq(Range(e)) /\ e # << >>
  BY DEF IsArgs, IsVisits
<1>2. n \in 1 .. Len(e) /\ Last(e) = e[n]
  BY <1>1 DEF Last
<1>3. ~ e[n].single /\ e[n].op = "args" /\ IsVisit(e, n)
  <2>1. IsVisit(e, n)
    BY <1>1, <1>2, VisitIs
  <2>2. e[n].single => n < n
    BY <2>1 DEF IsVisit
  <2>3. e[n].op = "args"
    BY <1>2 DEF IsArgs
  <2> QED
    BY <1>1, <2>1, <2>2, <2>3
<1>4. Sound(e, a, n, t)
  BY <1>1, TranslationSound
<1>5. translate_Args(e, f) = [g |-> t.g, addrs |-> Taken(e[n], t.at)]
  BY <1>2 DEF translate_Args
<1> HIDE DEF t
<1>6. \A i \in DOMAIN e[n].parts : e[n].parts[i] \in 1 .. n - 1 /\ e[e[n].parts[i]].op \in {"first", "later"}
  BY <1>1, <1>2, <1>3, VisitIs DEF IsVisit
<1> HIDE DEF n
<1>7. ASSUME t.g.ok
      PROVE  AllGood(t.g) /\ \A i \in DOMAIN e[n].parts : Value(t.g, t.at[e[n].parts[i]])
  <2>1. Pending(e, n, t.at) = 0
    BY <1>3 DEF Pending
  <2>2. GoodBut(t.g, 0)
    BY <1>4, <1>7, <2>1 DEF Sound
  <2>3. ASSUME NEW i \in DOMAIN e[n].parts
        PROVE  Value(t.g, t.at[e[n].parts[i]])
    <3> DEFINE j == e[n].parts[i]
    <3>1. j \in 1 .. n - 1 /\ j \in 1 .. n /\ j \in 1 .. Len(e) /\ e[j].op \in {"first", "later"}
      BY <1>1, <1>6 DEF n
    <3> HIDE DEF j
    <3>2. IsResult(e[j])
      BY <1>1, <3>1, SingleIs DEF IsResult
    <3>3. Holds(t.g, e, a, j, t.at[j])
      BY <1>4, <1>7, <3>1, <3>2 DEF Sound
    <3>4. Value(t.g, t.at[j])
      BY <3>1, <3>3, HoldsValue
    <3> QED
      BY <3>4 DEF j
  <2> QED
    BY <2>2, <2>3 DEF AllGood
<1> QED
  BY <1>5, <1>7 DEF Taken

(* Only the code matters. *)
LEMMA GoodCode ==
  ASSUME NEW g, NEW h, h.code = g.code, AllGood(g)
  PROVE  AllGood(h)
<1>1. \A i, a : LiveAt(g, i, a) => LiveAt(h, i, a)
  BY DEF LiveAt
<1>2. \A i : Good(g, i) => Good(h, i)
  BY <1>1 DEF Good
<1> QED
  BY <1>2 DEF AllGood, GoodBut

LEMMA WriteGood ==
  ASSUME NEW e, IsArgs(e), NEW f, NEW a, Fitting(e, a, f), IsGen(f), AllGood(f)
  PROVE  LET r == translate_Args(e, f)
             h == PushAll(r.g, [i \in DOMAIN r.addrs |-> WriteCode(r.addrs[i])])
         IN  h.ok => AllGood(h)
<1> DEFINE r == translate_Args(e, f)
           tacs == [i \in DOMAIN r.addrs |-> WriteCode(r.addrs[i])]
           h == PushAll(r.g, tacs)
<1>1. Moved(f, r.g) /\ r.addrs \in Seq(Nat)
  BY ArgsMove
<1>2. r.g.ok => AllGood(r.g) /\ \A i \in DOMAIN r.addrs : Value(r.g, r.addrs[i])
  BY ArgsGood
<1>3. h.ok = r.g.ok
  BY WriteMoves
<1> HIDE DEF r
<1>4. IsGen(r.g)
  BY <1>1 DEF Moved
<1>5. tacs \in Seq(Tacs) /\ Len(tacs) = Len(r.addrs) /\ DOMAIN r.addrs = 1 .. Len(r.addrs)
  <2>1. DOMAIN r.addrs = 1 .. Len(r.addrs) /\ Len(r.addrs) \in Nat
    BY <1>1
  <2>2. \A i \in 1 .. Len(r.addrs) : WriteCode(r.addrs[i]) \in Tacs
    BY <1>1 DEF Tacs, WriteCode
  <2>3. tacs = [i \in 1 .. Len(r.addrs) |-> WriteCode(r.addrs[i])]
    BY <2>1
  <2> HIDE DEF tacs
  <2> QED
    BY <2>1, <2>2, <2>3, IsASeq
<1>6. \A i \in 1 .. Len(tacs) : tacs[i] = WriteCode(r.addrs[i])
  BY <1>5
<1> HIDE DEF tacs
<1>7. ASSUME r.g.ok, NEW i \in 1 .. Len(tacs)
      PROVE  tacs[i].op # "FUNCTION" /\ \A b \in Reads(tacs[i]) : Value(r.g, b)
  <2>1. tacs[i] = WriteCode(r.addrs[i]) /\ Value(r.g, r.addrs[i])
    BY <1>2, <1>5, <1>6, <1>7
  <2>2. tacs[i].op = "WRITE" /\ tacs[i].raddr = r.addrs[i]
    BY <2>1 DEF WriteCode
  <2>3. Reads(tacs[i]) \subseteq {r.addrs[i]}
    BY <2>2 DEF Reads
  <2> QED
    BY <2>1, <2>2, <2>3
<1>8. r.g.ok => AllGood(h)
  BY <1>2, <1>4, <1>5, <1>7, PushGood
<1> QED
  BY <1>3, <1>8 DEF r, tacs

LEMMA ReturnGood ==
  ASSUME NEW e, IsExp(e), NEW f, NEW a, Fitting(e, a, f), IsGen(f), AllGood(f),
         IsScalar(Last(a).type)
  PROVE  LET r == translate_Exp(e, f)
             h == Push(r.g, ReturnCode(r.addr))
         IN  h.ok => AllGood(h)
<1> DEFINE r == translate_Exp(e, f)
           tac == ReturnCode(r.addr)
           h == Push(r.g, tac)
<1>1. Moved(f, r.g) /\ r.addr \in Nat
  BY ExpMoves
<1>2. r.g.ok => AllGood(r.g) /\ Value(r.g, r.addr)
  BY ExpGood
<1>3. h.ok = r.g.ok
  BY ReturnMoves
<1> HIDE DEF r
<1>4. IsGen(r.g)
  BY <1>1 DEF Moved
<1>5. tac \in Tacs /\ tac.op = "RETURN" /\ tac.raddr = r.addr
  BY <1>1 DEF Tacs, ReturnCode
<1>6. Reads(tac) \subseteq {r.addr}
  BY <1>5 DEF Reads
<1> HIDE DEF tac
<1>7. Emit(r.g, tac).g = h /\ tac.op # "FUNCTION"
  BY <1>5 DEF Emit
<1>8. r.g.ok => AllGood(h)
  BY <1>2, <1>4, <1>5, <1>6, <1>7, EmitGood
<1> QED
  BY <1>3, <1>8 DEF r, tac

-----------------------------------------------------------------------------
(* A visible name that no inner declaration has taken over. *)
LEMMA VisibleIs ==
  ASSUME Known, status = "running", NEW x \in Declared, x \notin stale, Entry(scopes, x).at # 0
  PROVE  /\ Declaring(Now_g, name_to_addr[x], Entry(scopes, x))
         /\ x \in Names /\ Entry(scopes, x).at = name_to_addr[x]
<1>1. PICK i \in DOMAIN scopes :
        x \in DOMAIN scopes[i] /\ Inner(i, x) /\ Entry(scopes, x) = scopes[i][x]
  BY EntryIs DEF Known
<1>2. Fits(i, x) /\ x \in Names
  BY <1>1 DEF Known, AllFit, Tables
<1> QED
  BY <1>1, <1>2 DEF Fits

LEMMA LocalHome ==
  ASSUME Known, status = "running", NEW x \in Declared, x \notin stale, x \notin DOMAIN scopes[1]
  PROVE  Home(Now_g, x)
<1>1. PICK i \in DOMAIN scopes :
        x \in DOMAIN scopes[i] /\ Inner(i, x) /\ Entry(scopes, x) = scopes[i][x]
  BY EntryIs DEF Known
<1>2. Fits(i, x)
  BY <1>1 DEF Known, AllFit
<1>3. i > 1
  BY <1>1, TablesAre DEF Known
<1> DEFINE v == Entry(scopes, x)
<1>4. v.at # 0 /\ NoFunction(Now_g, v.at)
  BY <1>1, <1>2, <1>3 DEF Fits
<1>5. Declaring(Now_g, name_to_addr[x], v) /\ v.at = name_to_addr[x]
  BY <1>4, VisibleIs
<1> HIDE DEF v
<1>6. ClassOf(v) \in Definers
  BY DEF ClassOf, Definers
<1>7. IsGen(Now_g) /\ Now_g.names = name_to_addr
  BY DEF Known, Tables, Now_g
<1>8. Own(Now_g, name_to_addr[x]) /\ OpOf(Now_g, name_to_addr[x]) = ClassOf(v)
  BY <1>4, <1>5, <1>6, <1>7, GenFields DEF Declaring, Own, OpOf
<1> QED
  BY <1>7, <1>8 DEF Home, v

LEMMA NoFlaw ==
  ASSUME NEW e, IsVisits(e), Using(e), NEW f \in FlawKinds, f \notin flaws'
  PROVE  \A k \in 1 .. Len(e) : ~ HasFlaw(f, e, k, Looks(e))
<1>1. DOMAIN e = 1 .. Len(e)
  BY DEF IsVisits
<1>2. f \notin FlawsOf(e, Looks(e))
  BY DEF Using
<1> QED
  BY <1>1, <1>2 DEF FlawsOf

(* What is known of an expression that has no flaw but reading late or a wrong address. *)
LEMMA UsingFits ==
  ASSUME Known, status = "running", DOMAIN scopes[1] = {}, NEW e, IsVisits(e), Using(e),
         flaws' \subseteq {"late", "access"}
  PROVE  Fitting(e, Looks(e), Now_g) /\ IsScalar(Last(Looks(e)).type)
<1> DEFINE a == Looks(e)
<1>1. Looked(e, a) /\ DOMAIN e = 1 .. Len(e)
  BY LooksAre DEF IsVisits
<1>2. NoParens(e, Len(e))
  BY UsingNoParens
<1>3. IsScalar(Last(a).type) /\ \A k \in 1 .. Len(e) : a[k].type # NoType
  BY <1>1 DEF Using
<1>4. \A k \in 1 .. Len(e) : ~ HasFlaw("scope", e, k, a) /\ ~ HasFlaw("array", e, k, a)
  <2>1. "scope" \in FlawKinds /\ "array" \in FlawKinds /\ "scope" \notin flaws' /\ "array" \notin flaws'
    BY DEF FlawKinds
  <2> QED
    BY <2>1, NoFlaw
<1> HIDE DEF a
<1>5. ASSUME NEW k \in 1 .. Len(e), e[k].op = "id"
      PROVE  Home(Now_g, e[k].name)
  <2>1. e[k].name \in Declared
    BY <1>1, <1>3, <1>5, TypesAre
  <2>2. e[k].name \notin stale
    BY <1>4, <1>5 DEF HasFlaw
  <2> QED
    BY <2>1, <2>2, LocalHome
<1>6. ASSUME NEW k \in 1 .. Len(e), e[k].op = "later", NEW x \in a[k].aliases
      PROVE  ~ IsBlock(x)
  BY <1>4, <1>6 DEF HasFlaw
<1> QED
  BY <1>1, <1>2, <1>3, <1>5, <1>6 DEF Fitting, a

LEMMA DefGood ==
  ASSUME StructsOK, NEW g, IsGen(g), AllGood(g), NEW d, IsDeclarator(d), KnownType(d.spec), NEW a,
         d.init # << >> => /\ IsExp(d.init) /\ IsScalar(d)
                           /\ Fitting(d.init, a, g) /\ IsScalar(Last(a).type)
  PROVE  LET h == translate_Dec(d, translate_Specifier(d.spec), g)
         IN  h.ok => AllGood(h)
<1> DEFINE type  == translate_Specifier(d.spec)
           value == IF d.init = << >> THEN Return(g, 0) ELSE translate_Exp(d.init, g)
           tac   == translate_VarDec(d, type, value.g)
           new   == IF value.addr = 0 THEN tac ELSE [tac EXCEPT !.raddr = value.addr]
           h     == Push(Register(value.g, d.name), new)
           all   == translate_Dec(d, type, g)
<1>1. /\ Moved(g, value.g) /\ value.addr \in Nat
      /\ value.g.ok => AllGood(value.g) /\ (value.addr = 0 \/ Value(value.g, value.addr))
  <2>1. CASE d.init = << >>
    BY <2>1, MovedReflexive DEF Return
  <2>2. CASE d.init # << >>
    BY <2>2, ExpMoves, ExpGood
  <2> QED
    BY <2>1, <2>2
<1>2. value.addr # 0 => d.init # << >>
  BY DEF Return
<1>3. all = IF ~ value.g.ok THEN value.g
            ELSE IF value.addr = 0 THEN Push(Register(value.g, d.name), tac)
            ELSE IF tac.op # "ASSIGN" THEN Crash(value.g).g
            ELSE Push(Register(value.g, d.name), [tac EXCEPT !.raddr = value.addr])
  BY DEF translate_Dec
<1> HIDE DEF value, type
<1>4. IsGen(value.g) /\ d.name \in Names /\ Size(value.g) \in Nat
  BY <1>1, GenFields DEF Moved, IsDeclarator
<1>5. /\ tac \in Tacs /\ tac.op = IF IsScalar(d) THEN "ASSIGN" ELSE "DEC"
      /\ tac.op # "FUNCTION"
  BY <1>4, VarDecIs DEF type
<1>6. Reads(tac) = {}
  <2>1. tac = DecCode(Size(value.g), type, d.dims) \/ tac = AssignCode(Size(value.g), 0)
    BY DEF translate_VarDec
  <2> QED
    BY <2>1 DEF Reads, DecCode, AssignCode
<1> HIDE DEF tac
<1>7. value.addr # 0 => tac.op = "ASSIGN"
  BY <1>2, <1>5
<1>8. all = IF value.g.ok THEN h ELSE value.g
  BY <1>3, <1>7
<1>9. new \in Tacs /\ new.op = tac.op /\ (value.addr # 0 => new.raddr = value.addr)
  <2>1. CASE value.addr = 0
    BY <1>5, <2>1
  <2>2. CASE value.addr # 0
    BY <1>1, <1>5, <1>7, <2>2, PatchIs DEF Patched
  <2> QED
    BY <2>1, <2>2
<1>10. Reads(new) \subseteq (IF value.addr = 0 THEN {} ELSE {value.addr})
  <2>1. CASE value.addr = 0
    BY <1>6, <2>1
  <2>2. CASE value.addr # 0
    <3>1. new.op = "ASSIGN" /\ new.raddr = value.addr
      BY <1>7, <1>9, <2>2
    <3> HIDE DEF new
    <3>2. Reads(new) \subseteq {value.addr}
      BY <3>1 DEF Reads
    <3> QED
      BY <2>2, <3>2
  <2> QED
    BY <2>1, <2>2
<1> HIDE DEF new, all
<1>11. ASSUME value.g.ok
       PROVE  AllGood(h)
  <2> DEFINE r == Emit(value.g, new)
  <2>1. new.op # "FUNCTION" /\ \A b \in Reads(new) : Value(value.g, b)
    BY <1>1, <1>5, <1>9, <1>10, <1>11
  <2>2. AllGood(value.g)
    BY <1>1, <1>11
  <2>3. AllGood(r.g)
    BY <1>4, <1>9, <2>1, <2>2, EmitGood
  <2>4. h.code = r.g.code
    <3>1. value.g \in Gens
      BY <1>4 DEF IsGen
    <3> QED
      BY <3>1 DEF Push, Register, Emit, Gens
  <2> HIDE DEF r, h
  <2> QED
    BY <2>3, <2>4, GoodCode
<1> QED
  BY <1>8, <1>11 DEF all, type

(* Instructions that read nothing. *)
LEMMA HeadGood ==
  ASSUME NEW f, NEW params, NEW g, NEW h, IsGen(g), HeadDone(f, params, g, h), AllGood(g)
  PROVE  AllGood(h)
<1>1. IsGen(h) /\ Extends(g, h) /\ Len(g.code) \in Nat /\ Len(h.code) \in Nat
  BY GenFields DEF HeadDone, Grown
<1> SUFFICES ASSUME NEW i \in 1 .. Len(h.code)
             PROVE  Good(h, i)
  BY DEF AllGood, GoodBut
<1>2. CASE i <= Len(g.code)
  <2>1. i \in 1 .. Len(g.code) /\ i # 0
    BY <1>1, <1>2
  <2>2. Good(g, i)
    BY <2>1 DEF AllGood, GoodBut
  <2> QED
    BY <1>1, <2>1, <2>2, GoodStays
<1>3. CASE ~ i <= Len(g.code)
  <2>1. i \in Len(g.code) + 1 .. Len(h.code)
    BY <1>1, <1>3
  <2>2. h.code[i].op \in {"FUNCTION", "PARAM"}
    BY <2>1 DEF HeadDone
  <2>3. Reads(h.code[i]) = {}
    BY <2>2 DEF Reads
  <2> QED
    BY <2>3 DEF Good
<1> QED
  BY <1>2, <1>3

-----------------------------------------------------------------------------
(***************************************************************************)
(* The invariant: without global variables, the outermost scope is empty;  *)
(* and as long as nothing worse than a value that is read late or a wrong  *)
(* address has been met, every instruction reads what is defined.          *)
(***************************************************************************)
Outermost == NoGlobals => DOMAIN scopes[1] = {}

Mild == NoGlobals /\ flaws \subseteq {"late", "access"}

Operands == Outermost /\ (Mild => AllGood(Now_g))

LEMMA ItemKeeps ==
  ASSUME Tables, NEW item, NEW h, Item(item, h), NoGlobals'
  PROVE  NoGlobals /\ item[1] # "ext"
<1>1. IsList(src) /\ src' = Append(src, item)
  BY DEF Tables, Item
<1>2. /\ DOMAIN src' = 1 .. Len(src) + 1 /\ src'[Len(src) + 1] = item /\ Len(src) \in Nat
      /\ \A i \in 1 .. Len(src) : src'[i] = src[i]
      /\ DOMAIN src = 1 .. Len(src)
  BY <1>1, ListAppend, ListIs
<1>3. Len(src) + 1 \in DOMAIN src' /\ \A i \in DOMAIN src : i \in DOMAIN src'
  BY <1>2
<1> QED
  BY <1>2, <1>3 DEF NoGlobals

LEMMA OperandsNext ==
  ASSUME Known, Operands, NEW item, NEW h, Item(item, h), flaws \subseteq flaws',
         NoGlobals' => scopes'[1] = scopes[1],
         Mild' /\ DOMAIN scopes[1] = {} /\ AllGood(Now_g) /\ h.ok => AllGood(h)
  PROVE  Operands'
<1>1. NoGlobals' => NoGlobals
  BY ItemKeeps DEF Known
<1>2. Outermost'
  BY <1>1 DEF Operands, Outermost
<1>3. ASSUME Mild'
      PROVE  AllGood(Now_g')
  <2>1. Mild /\ DOMAIN scopes[1] = {} /\ AllGood(Now_g)
    BY <1>1, <1>3 DEF Mild, Operands, Outermost
  <2>2. Now_g.code = tac_list /\ Now_g'.code = tac_list'
    BY DEF Now_g
  <2>3. CASE h.ok
    <3>1. AllGood(h) /\ tac_list' = h.code
      BY <1>3, <2>1, <2>3 DEF Item
    <3> QED
      BY <2>2, <3>1, GoodCode
  <2>4. CASE ~ h.ok
    <3>1. tac_list' = tac_list
      BY <2>4 DEF Item
    <3> QED
      BY <2>1, <2>2, <3>1, GoodCode
  <2> QED
    BY <2>3, <2>4
<1> QED
  BY <1>2, <1>3 DEF Operands

LEMMA StmtGood ==
  ASSUME Known, NEW s \in Stmts[profile], Using(s[2]),
         \/ s[1] = "exp" /\ ExpStmt(s[2])
         \/ s[1] = "write" /\ Write(s[2])
         \/ s[1] = "return" /\ ReturnStmt(s[2])
  PROVE  \E item, h : /\ Item(item, h)
                      /\ Mild' /\ DOMAIN scopes[1] = {} /\ AllGood(Now_g) /\ h.ok => AllGood(h)
<1> DEFINE e == s[2]
           a == Looks(e)
<1>1. Tables /\ IsGen(Now_g) /\ profile \in Profiles
  BY DEF Known, Tables
<1>2. (s[1] \in {"exp", "return"} /\ IsExp(e)) \/ (s[1] = "write" /\ IsArgs(e))
  BY <1>1, StmtsAssumption
<1>3. IsVisits(e)
  BY <1>2 DEF IsExp, IsArgs
<1>4. status = "running"
  BY DEF ExpStmt, Write, ReturnStmt, Item
<1>5. Mild' /\ DOMAIN scopes[1] = {} => Fitting(e, a, Now_g) /\ IsScalar(Last(a).type)
  BY <1>3, <1>4, UsingFits DEF Mild
<1>6. CASE s[1] = "exp" /\ ExpStmt(e)
  <2> DEFINE h == translate_Exp(e, Now_g).g
  <2>1. Item(<<"exp", e>>, h)
    BY <1>6 DEF ExpStmt
  <2>2. Mild' /\ DOMAIN scopes[1] = {} /\ AllGood(Now_g) /\ h.ok => AllGood(h)
    BY <1>1, <1>2, <1>5, <1>6, ExpGood
  <2> HIDE DEF h
  <2> QED
    BY <2>1, <2>2
<1>7. CASE s[1] = "write" /\ Write(e)
  <2> DEFINE r == translate_Args(e, Now_g)
             h == PushAll(r.g, [i \in DOMAIN r.addrs |-> WriteCode(r.addrs[i])])
  <2>1. Item(<<"write", e>>, h)
    BY <1>7 DEF Write
  <2>2. Mild' /\ DOMAIN scopes[1] = {} /\ AllGood(Now_g) /\ h.ok => AllGood(h)
    BY <1>1, <1>2, <1>5, <1>7, WriteGood
  <2> HIDE DEF h
  <2> QED
    BY <2>1, <2>2
<1>8. CASE s[1] = "return" /\ ReturnStmt(e)
  <2> DEFINE r == translate_Exp(e, Now_g)
             h == Push(r.g, ReturnCode(r.addr))
  <2>1. Item(<<"return", e>>, h)
    BY <1>8 DEF ReturnStmt
  <2>2. Mild' /\ DOMAIN scopes[1] = {} /\ AllGood(Now_g) /\ h.ok => AllGood(h)
    BY <1>1, <1>2, <1>5, <1>8, ReturnGood
  <2> HIDE DEF h
  <2> QED
    BY <2>1, <2>2
<1> QED
  BY <1>6, <1>7, <1>8

LEMMA OperandsStep == Known /\ Operands /\ [DNext]_dvars => Operands'
<1> SUFFICES ASSUME Known, Operands, [DNext]_dvars
             PROVE  Operands'
  OBVIOUS
<1>0. /\ Tables /\ IsGen(Now_g) /\ Now_g.code = tac_list /\ profile \in Profiles /\ StructsOK
      /\ IsList(scopes) /\ Len(scopes) \in Nat \ {0} /\ depth = Len(scopes) - 1
  BY TablesAre DEF Known, Tables, Now_g
<1>1. ASSUME NEW x, scopes' = Append(scopes, x)
      PROVE  scopes'[1] = scopes[1]
  <2>1. 1 \in 1 .. Len(scopes)
    BY <1>0
  <2> QED
    BY <1>0, <1>1, <2>1, ListAppend
<1>2. ASSUME NEW d \in Structs[profile], StructDef(d[1], d[2]), UNCHANGED <<scopes, stale, flaws>>
      PROVE  Operands'
  <2> DEFINE item == <<"struct", d[1], d[2]>>
  <2>1. Item(item, Now_g)
    BY <1>2 DEF StructDef
  <2> HIDE DEF item
  <2> QED
    BY <1>2, <2>1, OperandsNext
<1>3. ASSUME NEW ds \in ExtDecs[profile], ExtDec(ds), UNCHANGED flaws
      PROVE  Operands'
  <2> DEFINE h == translate_ExtDecList(ds, Now_g)
             item == <<"ext", ds>>
  <2>1. Item(item, h) /\ item[1] = "ext"
    BY <1>3 DEF ExtDec
  <2> HIDE DEF h, item
  <2>2. ~ NoGlobals'
    BY <1>0, <2>1, ItemKeeps
  <2> QED
    BY <2>2 DEF Operands, Outermost, Mild
<1>4. ASSUME NEW f \in Functions[profile], Function(f[1], f[2]), UNCHANGED flaws,
             scopes' = Append(scopes, Places(f[2], TRUE))
      PROVE  Operands'
  <2> DEFINE h == translate_FunDec(f[1], f[2], Now_g)
             item == <<"fun", f[1], f[2]>>
  <2>1. /\ Item(item, h) /\ f[1] \in Names /\ Distinct(f[2])
        /\ \A i \in DOMAIN f[2] : KnownType(f[2][i].spec)
    BY <1>0, <1>4, FunctionsAssumption DEF Function
  <2>2. HeadDone(f[1], f[2], Now_g, h)
    BY <1>0, <2>1, FunGrows
  <2>3. AllGood(Now_g) => AllGood(h)
    BY <1>0, <2>2, HeadGood
  <2>4. scopes'[1] = scopes[1]
    BY <1>1, <1>4
  <2> HIDE DEF h, item
  <2> QED
    BY <1>4, <2>1, <2>3, <2>4, OperandsNext
<1>5. ASSUME NEW d \in Defs[profile], Def(d), Declares(<<d>>),
             IF d.init = << >> THEN UNCHANGED flaws ELSE Using(d.init)
      PROVE  Operands'
  <2> DEFINE h == translate_Dec(d, translate_Specifier(d.spec), Now_g)
             item == <<"def", d>>
             a == Looks(d.init)
             ds == <<d>>
  <2>1. Item(item, h) /\ KnownType(d.spec) /\ status = "running" /\ depth > 0
    BY <1>5 DEF Def, Item
  <2>2. IsDeclarator(d) /\ (d.init # << >> => IsExp(d.init) /\ IsVisits(d.init) /\ IsScalar(d))
    BY <1>0, DefsAssumption DEF IsScalar, IsExp
  <2>3. d.init # << >> /\ Mild' /\ DOMAIN scopes[1] = {} =>
          Fitting(d.init, a, Now_g) /\ IsScalar(Last(a).type)
    BY <1>5, <2>1, <2>2, UsingFits DEF Mild
  <2> HIDE DEF a
  <2>4. Mild' /\ DOMAIN scopes[1] = {} /\ AllGood(Now_g) /\ h.ok => AllGood(h)
    BY <1>0, <2>1, <2>2, <2>3, DefGood
  <2>5. flaws \subseteq flaws'
    BY <1>5 DEF Using
  <2>6. scopes'[1] = scopes[1]
    <3>0. depth > 0
      BY <2>1
    <3>1. 1 \in 1 .. Len(scopes) /\ 1 # Len(scopes)
      BY <1>0, <3>0
    <3>2. NamesOf(ds) \subseteq Names
      BY <2>2 DEF NamesOf, IsDeclarator
    <3>3. Declares(ds)
      BY <1>5
    <3> HIDE DEF ds
    <3> QED
      BY <1>0, <3>1, <3>2, <3>3, DeclaresShape
  <2> HIDE DEF h, item
  <2> QED
    BY <2>1, <2>4, <2>5, <2>6, OperandsNext
<1>6. ASSUME OpenBlock, scopes' = Append(scopes, EmptyScope), UNCHANGED <<stale, flaws>>
      PROVE  Operands'
  <2>1. scopes'[1] = scopes[1]
    BY <1>1, <1>6
  <2>2. Item(<<"open">>, Now_g)
    BY <1>6 DEF OpenBlock
  <2> QED
    BY <1>6, <2>1, <2>2, OperandsNext
<1>7. ASSUME EndFunction \/ CloseBlock, scopes' = Front(scopes), UNCHANGED flaws
      PROVE  Operands'
  <2>1. PICK item : Item(item, Now_g)
    BY <1>7 DEF EndFunction, CloseBlock
  <2>2. Len(scopes) > 1
    BY <1>0, <1>7 DEF EndFunction, CloseBlock
  <2>3. scopes # << >> /\ 1 \in 1 .. Len(scopes) - 1
    BY <1>0, <2>2
  <2>4. scopes'[1] = scopes[1]
    BY <1>0, <1>7, <2>3, ListFront
  <2> QED
    BY <1>7, <2>1, <2>4, OperandsNext
<1>8. ASSUME NEW s \in Stmts[profile], UNCHANGED <<scopes, stale>>, Using(s[2]),
             \/ s[1] = "exp" /\ ExpStmt(s[2])
             \/ s[1] = "write" /\ Write(s[2])
             \/ s[1] = "return" /\ ReturnStmt(s[2])
      PROVE  Operands'
  <2>1. flaws \subseteq flaws'
    BY <1>8 DEF Using
  <2>2. PICK item, h : /\ Item(item, h)
                       /\ Mild' /\ DOMAIN scopes[1] = {} /\ AllGood(Now_g) /\ h.ok => AllGood(h)
    BY <1>8, StmtGood
  <2> QED
    BY <1>8, <2>1, <2>2, OperandsNext
<1>9. CASE UNCHANGED dvars
  <2>1. /\ UNCHANGED <<tac_list, name_to_addr, src>> /\ UNCHANGED <<scopes, flaws>>
    BY <1>9 DEF dvars, vars
  <2>2. Now_g' = Now_g
    BY <2>1 DEF Now_g
  <2> QED
    BY <2>1, <2>2 DEF Operands, Outermost, Mild, NoGlobals
<1> QED
  BY <1>2, <1>3, <1>4, <1>5, <1>6, <1>7, <1>8, <1>9 DEF DNext

LEMMA OperandsInit == DInit => Operands
<1> SUFFICES ASSUME DInit
             PROVE  Operands
  OBVIOUS
<1>1. tac_list = << >> /\ scopes = <<EmptyScope>>
  BY DEF DInit, Init
<1>2. scopes[1] = EmptyScope /\ DOMAIN EmptyScope = {}
  BY <1>1 DEF EmptyScope
<1>3. Len(Now_g.code) = 0
  BY <1>1 DEF Now_g
<1> QED
  BY <1>2, <1>3 DEF Operands, Outermost, AllGood, GoodBut

(***************************************************************************)
(* However its expressions nest, an instruction only reads variables that  *)
(* an earlier instruction of its function defined, and the variable of a   *)
(* DEC only to take its address. An assignment is emitted before its       *)
(* source is known and patched later (tac_ir.cpp:158-191); in between it   *)
(* reads variable 0, which is no variable.                                 *)
(***************************************************************************)
THEOREM OperandsAreDefined == DSpec => []OperandsDefined
<1>1. Known /\ Operands => OperandsDefined
  <2> SUFFICES ASSUME Known, Mild, AllGood(Now_g), NEW i \in DOMAIN tac_list,
                      NEW a \in Reads(tac_list[i])
               PROVE  \E j \in 1 .. i - 1 :
                        /\ a \in Defines(tac_list[j])
                        /\ \A k \in j .. i : tac_list[k].op # "FUNCTION"
                        /\ tac_list[j].op = "DEC" => tac_list[i].op = "ADDRESS"
    BY DEF Operands, Mild, OperandsDefined
  <2>1. IsGen(Now_g) /\ Now_g.code = tac_list
    BY DEF Known, Tables, Now_g
  <2>2. i \in 1 .. Len(tac_list) /\ i # 0
    BY <2>1, GenFields
  <2>3. LiveAt(Now_g, i, a)
    BY <2>1, <2>2 DEF AllGood, GoodBut, Good
  <2>4. /\ a \in 1 .. i - 1 /\ tac_list[a].op \in Definers /\ tac_list[a].addr = a
        /\ \A k \in a .. i : tac_list[k].op # "FUNCTION"
        /\ tac_list[a].op = "DEC" => tac_list[i].op = "ADDRESS"
    BY <2>1, <2>3 DEF LiveAt
  <2>5. a \in Defines(tac_list[a])
    BY <2>4 DEF Defines, Definers
  <2> QED
    BY <2>4, <2>5
<1>2. DSpec => []Operands
  <2> USE OperandsInit, OperandsStep, KnownHolds
  <2> QED
    BY PTL DEF DSpec
<1> QED
  BY <1>1, <1>2, KnownHolds, PTL

-----------------------------------------------------------------------------
(***************************************************************************)
(* Why the translation goes on.  InSight: name_to_addr has the declaration *)
(* of x.  Steady is what is known of an expression that has none of the    *)
(* flaws "paren", "access", "scope" and "global".                          *)
(***************************************************************************)
InSight(f, x) == f.names[x] # 0 /\ Declaring(f, f.names[x], Entry(scopes, x))

Steady(e, a, f) ==
  /\ Looked(e, a) /\ NoParens(e, Len(e))
  /\ \A k \in 1 .. Len(e) :
       /\ a[k].type # NoType /\ ~ Unsupported(e, k, a)
       /\ e[k].op = "id" => /\ InSight(f, e[k].name) /\ e[k].name \in Names
                            /\ a[k].type = TypeBy(Entry(scopes, e[k].name))

LEMMA DeclaredDims ==
  ASSUME NEW g, IsGen(g), NEW b, NEW v, Declaring(g, b, v)
  PROVE  v.dims \in Seq(Nat)
<1>1. g.code[b] \in Tacs /\ g.code[b].op = ClassOf(v)
  BY GenFields DEF Declaring
<1>2. CASE g.code[b].op \in Layouts
  BY <1>1, <1>2, TacFields DEF Declaring
<1>3. CASE g.code[b].op \notin Layouts
  <2>1. IsScalar(v)
    BY <1>1, <1>3 DEF ClassOf, Layouts
  <2> QED
    BY <2>1 DEF IsScalar
<1> QED
  BY <1>2, <1>3

(* The variable at which the access e[k] starts. *)
BaseVar(e, k) == Entry(scopes, e[Base(e, k)].name)

(* Every subscript takes one dimension away. *)
Shrinks(e, a, k) ==
  /\ IsType(a[k].type) /\ a[k].type.dims \in Seq(Nat) /\ BaseVar(e, k).dims \in Seq(Nat)
  /\ Len(a[k].type.dims) <= Len(BaseVar(e, k).dims)
  /\ e[k].op = "index" => Len(a[k].type.dims) < Len(BaseVar(e, k).dims)

LEMMA SubscriptsShrink ==
  ASSUME NEW e, IsVisits(e), NEW f, IsGen(f), NEW a, Steady(e, a, f)
  PROVE  \A k \in 1 .. Len(e) : e[k].op \in {"elements", "index"} => Shrinks(e, a, k)
<1> DEFINE P(k) == e[k].op \in {"elements", "index"} => Shrinks(e, a, k)
           K == {n \in Nat : \A k \in 1 .. Len(e) : k <= n => P(k)}
<1>0. Len(e) \in Nat
  BY DEF IsVisits
<1>1. 0 \in K
  OBVIOUS
<1>2. ASSUME NEW n \in Nat, n \in K, NEW k \in 1 .. Len(e), k = n + 1,
             e[k].op \in {"elements", "index"}
      PROVE  Shrinks(e, a, k)
  <2> DEFINE j == e[k].parts[1]
  <2>1. j \in 1 .. k - 1 /\ j \in 1 .. n /\ j \in 1 .. Len(e) /\ Looked(e, a)
    BY <1>0, <1>2, PartsAre DEF Steps, Steady
  <2>2. IsVisit(e, k) /\ a[k].type # NoType
    BY VisitIs DEF Steady
  <2>3. e[j].op \in InFront(e[k])
    BY <1>2, <2>2 DEF IsVisit, Steps
  <2>4. CASE e[k].op = "elements"
    <3>1. Base(e, k) = j
      BY <2>4, PartsAre
    <3>2. a[k].type = a[j].type
      BY <2>1, <2>2, <2>4, TypesAre DEF PartType
    <3>3. e[j].op = "id"
      BY <2>3, <2>4 DEF InFront
    <3> HIDE DEF j
    <3>4. a[j].type = TypeBy(BaseVar(e, k)) /\ InSight(f, e[j].name)
      BY <2>1, <3>1, <3>3 DEF Steady, BaseVar
    <3>5. BaseVar(e, k).dims \in Seq(Nat)
      BY <3>1, <3>4, DeclaredDims DEF InSight, BaseVar
    <3>6. a[k].type.dims = BaseVar(e, k).dims /\ IsType(a[k].type)
      BY <3>2, <3>4 DEF TypeBy, IsType
    <3> QED
      BY <2>4, <3>5, <3>6 DEF Shrinks
  <2>5. CASE e[k].op = "index"
    <3>1. Base(e, k) = Base(e, j)
      BY <2>2, <2>5 DEF IsVisit, Base
    <3>2. a[j].type.dims # << >> /\ a[k].type = ElementType(a[j].type)
      BY <2>1, <2>2, <2>5, TypesAre DEF PartType
    <3>3. e[j].op \in {"elements", "index", "mixed"}
      BY <2>3, <2>5 DEF InFront
    <3> HIDE DEF j
    <3>4. e[j].op # "mixed"
      BY <2>1 DEF Steady, Unsupported
    <3>5. Shrinks(e, a, j)
      BY <1>2, <2>1, <3>3, <3>4
    <3>6. a[k].type.dims = Tail(a[j].type.dims) /\ IsType(a[k].type)
      <4>1. PICK s, d : a[j].type = [spec |-> s, dims |-> d]
        BY <3>5 DEF Shrinks, IsType
      <4>2. a[k].type = [spec |-> s, dims |-> Tail(d)]
        BY <3>2, <4>1 DEF ElementType
      <4> QED
        BY <4>1, <4>2 DEF IsType
    <3> DEFINE dims == a[j].type.dims
    <3>7. dims \in Seq(Nat) /\ dims # << >> /\ Len(dims) <= Len(BaseVar(e, k).dims)
          /\ BaseVar(e, k).dims \in Seq(Nat)
      BY <3>1, <3>2, <3>5 DEF Shrinks, BaseVar
    <3> HIDE DEF dims
    <3>8. Tail(dims) \in Seq(Nat) /\ Len(Tail(dims)) = Len(dims) - 1 /\ Len(dims) \in Nat
      BY <3>7
    <3>9. Len(BaseVar(e, k).dims) \in Nat
      BY <3>7
    <3> QED
      BY <2>5, <3>6, <3>7, <3>8, <3>9 DEF Shrinks, dims
  <2> QED
    BY <1>2, <2>4, <2>5
<1>3. ASSUME NEW n \in Nat, n \in K
      PROVE  n + 1 \in K
  <2> SUFFICES ASSUME NEW k \in 1 .. Len(e), k <= n + 1
               PROVE  P(k)
    BY <1>3
  <2>1. CASE k = n + 1
    BY <1>2, <1>3, <2>1
  <2>2. CASE k # n + 1
    <3>1. k <= n
      BY <1>0, <1>3, <2>2
    <3> QED
      BY <1>3, <3>1
  <2> QED
    BY <2>1, <2>2
<1> HIDE DEF K
<1>4. \A n \in Nat : n \in K
  BY <1>1, <1>3, Walk!NatSet
<1> QED
  <2> TAKE k \in 1 .. Len(e)
  <2>1. k \in K /\ k <= k
    BY <1>0, <1>4
  <2> QED
    BY <2>1 DEF K

(* The start of an access is followed by a step of the right kind. *)
LEMMA StartsAt ==
  ASSUME StructsOK, NEW e, IsVisits(e), NEW f, NEW a, Steady(e, a, f), NEW k \in 1 .. Len(e)
  PROVE  /\ e[k].op = "elements" => ~ IsScalar(BaseVar(e, k))
         /\ e[k].op = "members" => BaseVar(e, k).spec # "int"
<1> SUFFICES ASSUME e[k].op \in {"elements", "members"}
             PROVE  /\ e[k].op = "elements" => ~ IsScalar(BaseVar(e, k))
                    /\ e[k].op = "members" => BaseVar(e, k).spec # "int"
  OBVIOUS
<1>1. IsVisit(e, k) /\ DOMAIN e = 1 .. Len(e) /\ Looked(e, a) /\ a[k].type # NoType
  BY VisitIs DEF Steady
<1>2. PICK j \in 1 .. Len(e) : e[j].op \in Steps /\ e[j].parts # << >> /\ e[j].parts[1] = k
  BY <1>1 DEF IsVisit
<1>3. e[k].op \in InFront(e[j])
  <2>1. IsVisit(e, j)
    BY VisitIs
  <2> QED
    BY <1>2, <2>1 DEF IsVisit
<1>4. a[j].type # NoType /\ ~ Unsupported(e, j, a)
  BY DEF Steady
<1> DEFINE b == e[k].parts[1]
<1>5. b \in 1 .. k - 1 /\ b \in 1 .. Len(e) /\ Base(e, k) = b
  BY PartsAre, VisitIs DEF Steps
<1>6. e[b].op = "id"
  BY <1>1 DEF IsVisit, InFront, Steps
<1>7. a[k].type = a[b].type
  BY <1>1, TypesAre DEF PartType
<1> HIDE DEF b
<1>8. a[k].type = TypeBy(BaseVar(e, k))
  BY <1>5, <1>6, <1>7 DEF Steady, BaseVar
<1>9. a[k].type.dims = BaseVar(e, k).dims /\ a[k].type.spec = BaseVar(e, k).spec
  BY <1>8 DEF TypeBy
<1>10. CASE e[k].op = "elements"
  <2>1. e[j].op \in {"index", "mixed"}
    BY <1>2, <1>3, <1>10 DEF InFront, Steps
  <2>2. e[j].op = "index"
    BY <1>4, <2>1 DEF Unsupported
  <2>3. PartType(e, a, j, 1) = a[k].type
    BY <1>2 DEF PartType
  <2>4. a[k].type.dims # << >>
    BY <1>1, <1>4, <2>2, <2>3, TypesAre
  <2> QED
    BY <1>9, <1>10, <2>4 DEF IsScalar
<1>11. CASE e[k].op = "members"
  <2>1. e[j].op = "member"
    BY <1>2, <1>3, <1>11 DEF InFront, Steps
  <2>2. e[j].name # ""
    BY <1>4, <2>1 DEF Unsupported
  <2>3. PartType(e, a, j, 1) = a[k].type
    BY <1>2 DEF PartType
  <2>4. MemberType(a[k].type, e[j].name) # NoType
    BY <1>1, <1>4, <2>1, <2>3, TypesAre
  <2>5. a[k].type.spec \in DOMAIN strc_map
    BY <2>2, <2>4 DEF MemberType
  <2> QED
    BY <1>9, <1>11, <2>5 DEF StructsOK
<1> QED
  BY <1>10, <1>11

(* The results of the names so far are what name_to_addr knew at the beginning. *)
Lives(e, k, f, t) ==
  t.g.ok /\ \A i \in 1 .. k : e[i].op = "id" /\ ~ e[i].single => t.at[i] = f.names[e[i].name]

(* The variable of an access, in the middle of a translation. *)
LEMMA BaseLives ==
  ASSUME NEW e, IsVisits(e), NEW k \in 1 .. Len(e), e[k].op \in Steps,
         NEW f, IsGen(f), NEW a, Steady(e, a, f),
         NEW t, Reached(e, k - 1, f, t), Lives(e, k - 1, f, t)
  PROVE  Declaring(t.g, t.at[Base(e, k)], BaseVar(e, k))
<1>1. Base(e, k) \in 1 .. k - 1 /\ e[Base(e, k)].op = "id" /\ ~ e[Base(e, k)].single
  BY BaseIs
<1>2. t.at[Base(e, k)] = f.names[e[Base(e, k)].name]
  BY <1>1 DEF Lives
<1>3. Base(e, k) \in 1 .. Len(e)
  BY <1>1, VisitIs
<1>4. InSight(f, e[Base(e, k)].name)
  BY <1>1, <1>3 DEF Steady
<1>5. Declaring(f, t.at[Base(e, k)], BaseVar(e, k))
  BY <1>2, <1>4 DEF InSight, BaseVar
<1>6. Grown(f, t.g)
  BY MovedGrows DEF Reached
<1> QED
  BY <1>5, <1>6, DeclaringGrows

LEMMA EmitOk ==
  ASSUME NEW g \in Gens, NEW tac
  PROVE  Emit(g, tac).g.ok = g.ok
  BY DEF Emit, Push, Gens

(* A generator as the record it is. *)
LEMMA GenIs ==
  ASSUME NEW g \in Gens
  PROVE  \E c, n, o : g = [code |-> c, names |-> n, ok |-> o]
  BY DEF Gens

LEMMA IdentifierLives ==
  ASSUME NEW g \in Gens, NEW x, NEW single
  PROVE  Identifier(x, single, g).g.ok = g.ok
<1> DEFINE known == g.names[x]
           addr  == IF known = 0 THEN Size(g) ELSE known
           h     == [g EXCEPT !.names[x] = addr]
           tac   == AssignCode(addr, 0)
<1>1. Emit(h, tac).g.ok = g.ok
  <2>1. PICK c, n, o : g = [code |-> c, names |-> n, ok |-> o]
    BY GenIs
  <2>2. h = [code |-> c, names |-> [n EXCEPT ![x] = addr], ok |-> o]
    <3> HIDE DEF addr
    <3> QED
      BY <2>1
  <2> HIDE DEF h, tac, known, addr
  <2> QED
    BY <2>1, <2>2 DEF Emit, Push
<1>2. Emit(g, tac).g.ok = g.ok
  BY EmitOk
<1>3. Identifier(x, single, g) \in {Emit(h, tac), Emit(g, tac), Return(g, known)}
  BY DEF Identifier
<1>4. Return(g, known).g = g
  BY DEF Return
<1> HIDE DEF h, tac, known
<1> QED
  BY <1>1, <1>2, <1>3, <1>4

LEMMA CallLives ==
  ASSUME NEW g \in Gens, NEW f, NEW p
  PROVE  Call(f, p, g).g.ok = g.ok
<1> DEFINE tacs == [i \in DOMAIN p |-> ArgCode(p[i])]
           all  == PushAll(g, tacs)
           tac  == CallCode(Size(all), f)
<1>1. PICK c, n, o : g = [code |-> c, names |-> n, ok |-> o]
  BY GenIs
<1>2. Call(f, p, g) = Emit(all, tac)
  BY DEF Call
<1> HIDE DEF tacs, tac
<1>3. \E u : all = [code |-> u, names |-> n, ok |-> o]
  <2> DEFINE u == g.code \o tacs
  <2>1. all = [g EXCEPT !.code = u]
    BY DEF PushAll
  <2> HIDE DEF u, all
  <2> QED
    BY <1>1, <2>1
<1> HIDE DEF all
<1>4. Emit(all, tac).g.ok = o
  BY <1>3 DEF Emit, Push
<1> QED
  BY <1>1, <1>2, <1>4

(* One visit. *)
LEMMA VisitLives ==
  ASSUME StructsOK, NEW e, IsVisits(e), NEW k \in 1 .. Len(e),
         NEW f, IsGen(f), NEW a, Steady(e, a, f),
         NEW t, Reached(e, k - 1, f, t), Lives(e, k - 1, f, t)
  PROVE  LET r == Visited(e[k], Taken(e[k], t.at), t.g)
         IN  r.g.ok /\ (e[k].op = "id" /\ ~ e[k].single => r.addr = f.names[e[k].name])
<1> DEFINE v == e[k]
           g == t.g
           at == t.at
           p == Taken(v, at)
           r == Visited(v, p, g)
<1> SUFFICES r.g.ok /\ (v.op = "id" /\ ~ v.single => r.addr = f.names[v.name])
  OBVIOUS
<1>0. g.ok /\ IsGen(g) /\ g \in Gens /\ Len(e) \in Nat
  BY VisitIs DEF Lives, Reached, Moved, IsGen
<1>1. IsVisit(e, k) /\ v.op \in Ops /\ v.number \in Nat
  BY VisitIs
<1>2. /\ p \in Seq(Nat) /\ DOMAIN p = DOMAIN v.parts
      /\ \A i \in DOMAIN v.parts : p[i] = at[v.parts[i]] /\ p[i] \in Nat
  <2>1. at \in Seq(Nat) /\ Len(at) = k - 1
    BY DEF Reached
  <2> QED
    BY <2>1, TakenIs
<1>16. \A i \in DOMAIN v.parts : v.parts[i] \in 1 .. k - 1 /\ p[i] <= Len(g.code)
  BY <1>2, VisitIs DEF Reached
<1> HIDE DEF p
<1>3. CASE v.op \in Tokens
  <2>1. r = Emit(g, ArithCode(Size(g), p[1], p[2], v.op))
    BY <1>3 DEF Visited, Tokens
  <2> HIDE DEF r
  <2> QED
    BY <1>0, <1>3, <2>1, EmitOk DEF Tokens
<1>4. CASE v.op \in {"read", "int", "neg"}
  <2>1. \E tac : r = Emit(g, tac)
    BY <1>4 DEF Visited, Tokens
  <2> HIDE DEF r
  <2> QED
    BY <1>0, <1>4, <2>1, EmitOk
<1>5. CASE v.op \in {"paren", "args"}
  <2>1. r.g = g
    BY <1>5 DEF Visited, Tokens, Return
  <2> HIDE DEF r
  <2> QED
    BY <1>0, <1>5, <2>1
<1>6. CASE v.op = "id"
  <2>1. r = Identifier(v.name, v.single, g)
    BY <1>6 DEF Visited, Tokens
  <2>2. r.g.ok
    BY <1>0, <2>1, IdentifierLives
  <2>3. ASSUME ~ v.single
        PROVE  r.addr = f.names[v.name]
    <3>1. f.names[v.name] # 0 /\ v.name \in Names
      BY <1>6 DEF Steady, InSight
    <3>2. g.names[v.name] = f.names[v.name]
      BY <3>1 DEF Reached, Moved
    <3> HIDE DEF r
    <3> QED
      BY <2>1, <2>3, <3>1, <3>2 DEF Identifier, Return
  <2> HIDE DEF r
  <2> QED
    BY <2>2, <2>3
<1>7. CASE v.op = "call"
  <2>1. r = Call(v.name, p, g)
    BY <1>7 DEF Visited, Tokens
  <2> HIDE DEF r
  <2> QED
    BY <1>0, <1>7, <2>1, CallLives
<1>8. CASE v.op \in {"first", "later"}
  <2>1. 1 \in DOMAIN v.parts
    BY <1>8, PartsAre
  <2>2. p[1] \in Nat /\ p[1] <= Len(g.code)
    BY <1>2, <1>16, <2>1
  <2>3. AddressOf(p[1], g).g.ok = g.ok /\ Later(p[1], g).g.ok = g.ok
    BY <1>0, <2>2, AddressFine, LaterFine
  <2>4. r \in {AddressOf(p[1], g), Later(p[1], g)}
    BY <1>8 DEF Visited, Tokens
  <2> HIDE DEF r
  <2> QED
    BY <1>0, <1>8, <2>3, <2>4
<1>9. CASE v.op = "member"
  <2>1. r = Member(p[1], p[2], v.name, g)
    BY <1>9 DEF Visited, Tokens
  <2>2. r.g.ok = g.ok
    BY <1>0, <2>1, EmitOk DEF Member
  <2> HIDE DEF r
  <2> QED
    BY <1>0, <1>9, <2>2
<1>10. CASE v.op = "access"
  <2>1. r = Access(p[1], v.single, g)
    BY <1>10 DEF Visited, Tokens
  <2>2. r.g.ok = g.ok
    BY <1>0, <2>1, EmitOk DEF Access
  <2> HIDE DEF r
  <2> QED
    BY <1>0, <1>10, <2>2
<1>11. CASE v.op = "mixed"
  BY <1>11 DEF Steady, Unsupported
<1>12. CASE v.op = "assign"
  <2> DEFINE l == p[2]
  <2>1. v.parts[2] = k - 1 /\ IsTarget(e[k - 1]) /\ 2 \in DOMAIN v.parts /\ e[k - 1].op # "paren"
    BY <1>1, <1>12, PartsAre DEF IsVisit, Steady, NoParens
  <2>2. e[k - 1].single /\ k - 1 \in 1 .. k - 1
    BY <1>16, <2>1 DEF IsTarget
  <2>3. l = at[k - 1] /\ OpOf(g, at[k - 1]) \in Patched
    BY <1>0, <1>2, <2>1, <2>2 DEF Reached
  <2>4. r = Assignment(p[1], l, g)
    BY <1>12 DEF Visited, Tokens
  <2> HIDE DEF l, r
  <2>5. r.g = [g EXCEPT !.code[l].raddr = p[1]]
    BY <2>3, <2>4 DEF Assignment, Return, Patched
  <2>6. r.g.ok = g.ok
    BY <1>0, <2>5 DEF Gens
  <2> QED
    BY <1>0, <1>12, <2>6
<1>13. CASE v.op \in {"elements", "members"}
  <2> DEFINE b == Base(e, k)
             x == BaseVar(e, k)
  <2>1. p[1] = at[b] /\ p[1] \in Nat /\ p[1] <= Len(g.code)
    BY <1>2, <1>13, <1>16, PartsAre DEF Steps
  <2>2. Declaring(g, p[1], x)
    BY <1>13, <2>1, BaseLives DEF Steps
  <2>3. ~ IsScalar(x) /\ (v.op = "members" => x.spec # "int")
    BY <1>13, StartsAt DEF IsScalar
  <2> HIDE DEF x, b
  <2>4. g.code[p[1]].op \in Layouts /\ p[1] \in DOMAIN g.code
    BY <1>0, <2>2, <2>3, GenFields DEF Declaring, ClassOf, Layouts
  <2>5. HasLayout(p[1], g) /\ (v.op = "members" => g.code[p[1]].type.kind = "structure")
    BY <2>2, <2>3, <2>4 DEF HasLayout, OpOf, Layouts, Declaring
  <2>6. AddressOf(p[1], g).g.ok = g.ok
    BY <1>0, <2>1, AddressFine
  <2>7. r = AddressOf(p[1], g)
    BY <1>13, <2>5 DEF Visited, Tokens, Elements, Members
  <2> HIDE DEF r
  <2> QED
    BY <1>0, <1>13, <2>6, <2>7
<1>14. CASE v.op = "index"
  <2> DEFINE base == p[3]
             sizes == g.code[base].sizes
             x == BaseVar(e, k)
  <2>1. base = at[Base(e, k)]
    <3>1. Len(v.parts) = 3 /\ 3 \in DOMAIN v.parts /\ Base(e, k) = v.parts[3]
      BY <1>14, PartsAre
    <3> QED
      BY <1>2, <3>1
  <2>2. Declaring(g, base, x)
    BY <1>14, <2>1, BaseLives DEF Steps
  <2>3. a[k].type.dims \in Seq(Nat) /\ x.dims \in Seq(Nat) /\ Len(a[k].type.dims) < Len(x.dims)
    BY <1>14, SubscriptsShrink DEF Shrinks
  <2>4. Len(a[k].type.dims) = v.number
    BY <1>14 DEF Steady, Unsupported
  <2> HIDE DEF x
  <2>5. ~ IsScalar(x)
    BY <2>3 DEF IsScalar
  <2>6. sizes = x.dims
    BY <2>2, <2>5 DEF Declaring, ClassOf, Layouts
  <2>7. v.number < Len(sizes)
    BY <2>3, <2>4, <2>6
  <2>8. r = Subscript(p[1], p[2], base, v.number, g)
    BY <1>14 DEF Visited, Tokens
  <2> HIDE DEF sizes, base, r
  <2>9. \E one, two, h : h = Emit(g, one).g /\ r = Emit(h, two)
    BY <2>7, <2>8 DEF Subscript, sizes
  <2>10. PICK one, two, h : h = Emit(g, one).g /\ r = Emit(h, two)
    BY <2>9
  <2>11. h = [code |-> h.code, names |-> h.names, ok |-> h.ok] /\ h.ok = g.ok
    BY <1>0, <2>10 DEF Emit, Push, Gens
  <2>12. r.g.ok = h.ok
    BY <2>10, <2>11 DEF Emit, Push
  <2> QED
    BY <1>0, <1>14, <2>11, <2>12
<1> HIDE DEF r
<1> QED
  BY <1>1, <1>3, <1>4, <1>5, <1>6, <1>7, <1>8, <1>9, <1>10, <1>11, <1>12, <1>13, <1>14 DEF Ops

LEMMA TranslationLives ==
  ASSUME StructsOK, NEW e, IsVisits(e), NEW f, IsGen(f), f.ok, NEW a, Steady(e, a, f)
  PROVE  Translation(e, f).g.ok
<1>1. Len(e) \in Nat
  BY DEF IsVisits
<1>2. PICK h : /\ h[0] = [g |-> f, at |-> << >>]
               /\ \A k \in 1 .. Len(e) : h[k] = Visit(h[k - 1], e[k])
               /\ h[Len(e)] = Translation(e, f)
               /\ \A k \in 0 .. Len(e) : Reached(e, k, f, h[k])
  BY TranslationReaches
<1> DEFINE K == {k \in Nat : k <= Len(e) => Lives(e, k, f, h[k])}
<1>3. 0 \in K
  BY <1>2 DEF Lives
<1>4. ASSUME NEW k \in Nat, k \in K
      PROVE  k + 1 \in K
  <2> SUFFICES ASSUME k + 1 <= Len(e)
               PROVE  Lives(e, k + 1, f, h[k + 1])
    OBVIOUS
  <2> DEFINE t == h[k]
             r == Visited(e[k + 1], Taken(e[k + 1], t.at), t.g)
  <2>1. k + 1 \in 1 .. Len(e) /\ k + 1 - 1 = k /\ k \in 0 .. Len(e) /\ Lives(e, k, f, t)
    BY <1>1, <1>4
  <2>2. h[k + 1] = Visit(t, e[k + 1]) /\ Reached(e, k, f, t)
    BY <1>2, <2>1
  <2> HIDE DEF t
  <2>3. /\ r.g.ok
        /\ e[k + 1].op = "id" /\ ~ e[k + 1].single => r.addr = f.names[e[k + 1].name]
    BY <2>1, <2>2, VisitLives
  <2>4. t.g.ok /\ t.at \in Seq(Nat) /\ Len(t.at) = k
    BY <2>1, <2>2 DEF Lives, Reached
  <2>5. h[k + 1] = [g |-> r.g, at |-> Append(t.at, r.addr)]
    BY <2>2, <2>4 DEF Visit
  <2> HIDE DEF r
  <2>6. /\ Append(t.at, r.addr)[k + 1] = r.addr
        /\ \A i \in 1 .. k : Append(t.at, r.addr)[i] = t.at[i]
    BY <2>4
  <2>7. ASSUME NEW i \in 1 .. k + 1, e[i].op = "id", ~ e[i].single
        PROVE  Append(t.at, r.addr)[i] = f.names[e[i].name]
    <3>1. CASE i = k + 1
      BY <2>3, <2>6, <2>7, <3>1
    <3>2. CASE i # k + 1
      <4>1. i \in 1 .. k
        BY <3>2
      <4> QED
        BY <2>1, <2>6, <2>7, <4>1 DEF Lives
    <3> QED
      BY <3>1, <3>2
  <2> DEFINE u == h[k + 1]
  <2>8. u.g.ok /\ u.at = Append(t.at, r.addr)
    BY <2>3, <2>5
  <2> HIDE DEF u
  <2>9. Lives(e, k + 1, f, u)
    BY <2>7, <2>8 DEF Lives
  <2> QED
    BY <2>9 DEF u
<1> HIDE DEF K
<1>5. Len(e) \in K
  BY <1>1, <1>3, <1>4, Walk!NatSet
<1> QED
  BY <1>1, <1>2, <1>5 DEF K, Lives

(* What is known of an expression that has none of the flaws that stop the generator. *)
Stopping == {"paren", "access", "scope", "global"}

LEMMA UsingSteady ==
  ASSUME Known, status = "running", NEW e, IsVisits(e), Using(e), flaws' \intersect Stopping = {}
  PROVE  Steady(e, Looks(e), Now_g)
<1> DEFINE a == Looks(e)
<1>1. Looked(e, a) /\ DOMAIN e = 1 .. Len(e)
  BY LooksAre DEF IsVisits
<1>2. NoParens(e, Len(e))
  BY UsingNoParens DEF Stopping
<1>3. \A k \in 1 .. Len(e) : a[k].type # NoType
  BY <1>1 DEF Using
<1>4. \A k \in 1 .. Len(e) : /\ ~ HasFlaw("scope", e, k, a) /\ ~ HasFlaw("global", e, k, a)
                             /\ ~ HasFlaw("access", e, k, a)
  <2>1. /\ "scope" \in FlawKinds /\ "global" \in FlawKinds /\ "access" \in FlawKinds
        /\ "scope" \notin flaws' /\ "global" \notin flaws' /\ "access" \notin flaws'
    BY DEF FlawKinds, Stopping
  <2> QED
    BY <2>1, NoFlaw
<1> HIDE DEF a
<1>5. ASSUME NEW k \in 1 .. Len(e)
      PROVE  ~ Unsupported(e, k, a)
  BY <1>4 DEF HasFlaw
<1>6. ASSUME NEW k \in 1 .. Len(e), e[k].op = "id"
      PROVE  /\ InSight(Now_g, e[k].name) /\ e[k].name \in Names
             /\ a[k].type = TypeBy(Entry(scopes, e[k].name))
  <2> DEFINE x == e[k].name
  <2>1. x \in Declared /\ a[k].type = TypeBy(Entry(scopes, x))
    BY <1>1, <1>3, <1>6, TypesAre
  <2>2. x \notin stale /\ Entry(scopes, x).at # 0
    BY <1>4, <1>6 DEF HasFlaw
  <2> HIDE DEF x
  <2>3. /\ Declaring(Now_g, name_to_addr[x], Entry(scopes, x))
        /\ x \in Names /\ Entry(scopes, x).at = name_to_addr[x]
    BY <2>1, <2>2, VisibleIs
  <2>4. InSight(Now_g, x)
    BY <2>2, <2>3 DEF InSight, Now_g
  <2> QED
    BY <2>1, <2>3, <2>4 DEF x
<1> QED
  BY <1>1, <1>2, <1>3, <1>5, <1>6 DEF Steady, a

LEMMA StmtLives ==
  ASSUME Known, NEW s \in Stmts[profile], Using(s[2]),
         \/ s[1] = "exp" /\ ExpStmt(s[2])
         \/ s[1] = "write" /\ Write(s[2])
         \/ s[1] = "return" /\ ReturnStmt(s[2])
  PROVE  status' = "crashed" => flaws' \intersect Stopping # {}
<1> DEFINE e == s[2]
<1>1. Tables /\ IsGen(Now_g) /\ Now_g.ok /\ StructsOK /\ profile \in Profiles
  BY DEF Known, Tables, Now_g
<1>2. (s[1] \in {"exp", "return"} /\ IsExp(e)) \/ (s[1] = "write" /\ IsArgs(e))
  BY <1>1, StmtsAssumption
<1>3. IsVisits(e)
  BY <1>2 DEF IsExp, IsArgs
<1>4. status = "running"
  BY DEF ExpStmt, Write, ReturnStmt, Item
<1>5. flaws' \intersect Stopping = {} => Translation(e, Now_g).g.ok
  BY <1>1, <1>3, <1>4, UsingSteady, TranslationLives
<1>6. /\ translate_Exp(e, Now_g).g = Translation(e, Now_g).g
      /\ translate_Args(e, Now_g).g = Translation(e, Now_g).g
  BY DEF translate_Exp, translate_Args, Return
<1>7. CASE s[1] = "exp" /\ ExpStmt(e)
  <2> DEFINE h == translate_Exp(e, Now_g).g
  <2>1. Item(<<"exp", e>>, h)
    BY <1>7 DEF ExpStmt
  <2> HIDE DEF h
  <2>2. status' = "crashed" => ~ h.ok
    BY <1>4, <2>1 DEF Item
  <2> QED
    BY <1>5, <1>6, <2>2 DEF h
<1>8. CASE s[1] = "write" /\ Write(e)
  <2> DEFINE r == translate_Args(e, Now_g)
             h == PushAll(r.g, [i \in DOMAIN r.addrs |-> WriteCode(r.addrs[i])])
  <2>1. Item(<<"write", e>>, h)
    BY <1>8 DEF Write
  <2>2. h.ok = r.g.ok
    BY <1>1, <1>2, <1>8, WriteMoves
  <2> HIDE DEF h
  <2>3. status' = "crashed" => ~ h.ok
    BY <1>4, <2>1 DEF Item
  <2> QED
    BY <1>5, <1>6, <2>2, <2>3
<1>9. CASE s[1] = "return" /\ ReturnStmt(e)
  <2> DEFINE r == translate_Exp(e, Now_g)
             h == Push(r.g, ReturnCode(r.addr))
  <2>1. Item(<<"return", e>>, h)
    BY <1>9 DEF ReturnStmt
  <2>2. h.ok = r.g.ok
    BY <1>1, <1>2, <1>9, ReturnMoves
  <2> HIDE DEF h
  <2>3. status' = "crashed" => ~ h.ok
    BY <1>4, <2>1 DEF Item
  <2> QED
    BY <1>5, <1>6, <2>2, <2>3
<1> QED
  BY <1>7, <1>8, <1>9

LEMMA CrashStep ==
  ASSUME Known, CrashNeeds, [DNext]_dvars
  PROVE  CrashNeeds'
<1>0. /\ Tables /\ IsGen(Now_g) /\ Now_g.ok /\ Now_g.code = tac_list /\ profile \in Profiles
      /\ StructsOK
  BY DEF Known, Tables, Now_g
<1>1. ASSUME NEW item, NEW h, Item(item, h), h.ok
      PROVE  status' # "crashed"
  BY <1>1 DEF Item
<1>2. ASSUME NEW d \in Structs[profile], StructDef(d[1], d[2])
      PROVE  CrashNeeds'
  <2> DEFINE item == <<"struct", d[1], d[2]>>
  <2>1. Item(item, Now_g)
    BY <1>2 DEF StructDef
  <2> HIDE DEF item
  <2> QED
    BY <1>0, <1>1, <2>1 DEF CrashNeeds
<1>3. ASSUME NEW ds \in ExtDecs[profile], ExtDec(ds)
      PROVE  CrashNeeds'
  <2> DEFINE h == translate_ExtDecList(ds, Now_g)
             item == <<"ext", ds>>
  <2>1. Item(item, h) /\ KnownType(ds[1].spec) /\ ds # << >> /\ Distinct(ds)
    BY <1>0, <1>3, ExtDecsAssumption DEF ExtDec
  <2>2. h.ok = Now_g.ok
    BY <1>0, <2>1, ExtGrows
  <2> HIDE DEF h, item
  <2> QED
    BY <1>0, <1>1, <2>1, <2>2 DEF CrashNeeds
<1>4. ASSUME NEW f \in Functions[profile], Function(f[1], f[2])
      PROVE  CrashNeeds'
  <2> DEFINE h == translate_FunDec(f[1], f[2], Now_g)
             item == <<"fun", f[1], f[2]>>
  <2>1. /\ Item(item, h) /\ f[1] \in Names /\ Distinct(f[2])
        /\ \A i \in DOMAIN f[2] : KnownType(f[2][i].spec)
    BY <1>0, <1>4, FunctionsAssumption DEF Function
  <2>2. HeadDone(f[1], f[2], Now_g, h)
    BY <1>0, <2>1, FunGrows
  <2> HIDE DEF h, item
  <2>3. h.ok
    BY <1>0, <2>2 DEF HeadDone
  <2> QED
    BY <1>1, <2>1, <2>3 DEF CrashNeeds
<1>5. ASSUME NEW d \in Defs[profile], Def(d),
             IF d.init = << >> THEN UNCHANGED flaws ELSE Using(d.init)
      PROVE  CrashNeeds'
  <2> DEFINE h == translate_Dec(d, translate_Specifier(d.spec), Now_g)
             item == <<"def", d>>
             value == translate_Exp(d.init, Now_g)
  <2>1. Item(item, h) /\ KnownType(d.spec) /\ status = "running"
    BY <1>5 DEF Def, Item
  <2>2. IsDeclarator(d) /\ (d.init # << >> => IsExp(d.init) /\ IsVisits(d.init) /\ IsScalar(d))
    BY <1>0, DefsAssumption DEF IsScalar, IsExp
  <2>3. h.ok = (IF d.init = << >> THEN Now_g.ok ELSE value.g.ok)
    BY <1>0, <2>1, <2>2, DefGrows
  <2>4. value.g = Translation(d.init, Now_g).g
    BY DEF translate_Exp, Return
  <2>5. d.init # << >> /\ flaws' \intersect Stopping = {} => Translation(d.init, Now_g).g.ok
    BY <1>0, <1>5, <2>1, <2>2, UsingSteady, TranslationLives
  <2> HIDE DEF h, item, value
  <2>6. flaws' \intersect Stopping = {} => h.ok
    BY <1>0, <2>3, <2>4, <2>5
  <2> QED
    BY <1>1, <2>1, <2>6 DEF CrashNeeds, Stopping
<1>6. ASSUME OpenBlock \/ EndFunction \/ CloseBlock
      PROVE  CrashNeeds'
  <2>1. \E item : Item(item, Now_g)
    BY <1>6 DEF OpenBlock, EndFunction, CloseBlock
  <2> QED
    BY <1>0, <1>1, <2>1 DEF CrashNeeds
<1>7. ASSUME NEW s \in Stmts[profile], Using(s[2]),
             \/ s[1] = "exp" /\ ExpStmt(s[2])
             \/ s[1] = "write" /\ Write(s[2])
             \/ s[1] = "return" /\ ReturnStmt(s[2])
      PROVE  CrashNeeds'
  BY <1>7, StmtLives DEF CrashNeeds, Stopping
<1>8. CASE UNCHANGED dvars
  BY <1>8 DEF dvars, vars, CrashNeeds
<1> QED
  BY <1>2, <1>3, <1>4, <1>5, <1>6, <1>7, <1>8 DEF DNext

(***************************************************************************)
(* The generator only dies, of a failed dynamic_cast (tac_ir.cpp:187-193,  *)
(* 286-369), on an assignment in parentheses, on an access that is not of  *)
(* the two supported shapes, or on a name that does not stand for its      *)
(* declaration: any other program that fits its declarations is translated *)
(* to the end, whatever its size.                                          *)
(***************************************************************************)
THEOREM OnlyFlawsCrash == DSpec => []CrashNeeds
<1>1. DInit => CrashNeeds
  BY DEF DInit, Init, CrashNeeds
<1>2. Known /\ CrashNeeds /\ [DNext]_dvars => CrashNeeds'
  BY CrashStep
<1> QED
  BY <1>1, <1>2, KnownHolds, PTL DEF DSpec

=============================================================================
