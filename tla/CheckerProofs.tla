---------------------------- MODULE CheckerProofs ----------------------------
(***************************************************************************)
(* The semantic checker, for every program and every value of the bounds:  *)
(* its flat tables implement nested scopes, and what it lets pass.         *)
(***************************************************************************)
EXTENDS SemanticScopes, SemanticTypes, SemanticProofs

-----------------------------------------------------------------------------
(* The tables. *)

LEMMA StepIs == [SNext]_svars => [Next]_vars
BY DEF SNext, Declaring, Executing, Evaluating, Judging,
       Next, Declarations, Statements, Expressions, svars

LEMMA SInitIInv == SInit => IInv
BY InitIInv DEF SInit

LEMMA SNextIInv == IInv /\ [SNext]_svars => IInv'
BY StepIs, NextIInv

(* The same when what the program declared is remembered, as SemanticScopes does. *)
THEOREM ScopesInvariant == SSpec => []IInv
<1> QED
  BY SInitIInv, SNextIInv, PTL DEF SSpec

(* Types are what they are made of. *)
LEMMA KindsAre ==
  ASSUME NEW U, Closed(U), NEW t \in U
  PROVE  t.kind \in Kinds
BY DEF Closed, MadeOf, Kinds, EMPTY_TYPE

LEMMA IInvTypeOK == IInv => TypeOK
<1> SUFFICES ASSUME IInv PROVE TypeOK
  OBVIOUS
<1>1. PICK U : Typed(U)
  BY DEF IInv
<1>2. Shape /\ Pending
  BY DEF IInv
<1>3. Closed(U) /\ \A t \in U : t.kind \in Kinds
  BY <1>1, KindsAre DEF Typed
<1>4. /\ global_scope_level \in Nat /\ clock \in 0 .. MaxInserts
      /\ status \in {"running", "done", "crashed"}
  BY <1>1, <1>2, BoundsAssumption DEF Typed, Shape, Pending
<1>5. ASSUME NEW e \in var_map
      PROVE  /\ e.name \in Names /\ e.type.kind \in Kinds /\ e.func \in BOOLEAN
             /\ e.level \in Nat /\ e.seq \in 1 .. clock
  <2>1. e \in Entry(U) /\ e.seq \in 1 .. clock
    BY <1>1 DEF Typed, Stored
  <2>2. e.type \in U /\ e.name \in Names /\ e.func \in BOOLEAN /\ e.level \in Nat
    BY <2>1, EntriesAre
  <2> QED
    BY <1>3, <2>1, <2>2
<1>6. ASSUME NEW e \in structure_map
      PROVE  e.name \in SNames /\ e.type.kind = "STRUCTURE" /\ e.level \in Nat /\ e.seq \in 1 .. clock
  BY <1>1 DEF Typed, Stored, Structure
<1>7. ASSUME NEW i \in DOMAIN stack
      PROVE  stack[i].kind \in {"fun", "struct", "block", "while", "def", "dec"}
  <2>1. stack[i] \in Frame(U)
    BY <1>1 DEF Typed
  <2> QED
    BY <2>1 DEF Frame, ScopeKinds
<1>8. ASSUME NEW i \in DOMAIN vals
      PROVE  vals[i].type.kind \in Kinds
  <2>1. vals[i] \in Operand(U)
    BY <1>1 DEF Typed
  <2> QED
    BY <1>3, <2>1 DEF Operand
<1> QED
  BY <1>4, <1>5, <1>6, <1>7, <1>8 DEF TypeOK

(***************************************************************************)
(* In every reachable state of every program the tables, the open calls    *)
(* and the operands have their types (TypeOK), whatever PopScope's use of  *)
(* a freed node does (semantic.cpp:614-627).                               *)
(***************************************************************************)
THEOREM TypesOK == SSpec => []TypeOK
<1>1. IInv => TypeOK
  BY IInvTypeOK
<1> QED
  BY <1>1, ScopesInvariant, PTL

-----------------------------------------------------------------------------
(* The level counter is the number of open scopes. *)
LEMMA LevelIs == ASSUME NEW U, Typed(U), Shape PROVE LevelIsDepth
<1> DEFINE g == global_scope_level
           S == {i \in DOMAIN stack : stack[i].kind \in {"fun", "struct", "block", "while"}}
<1>1. DOMAIN stack = 1 .. Depth /\ Depth \in Nat /\ g \in Nat /\ Depth \in g .. g + 2
  BY DEF Typed, Shape, Depth
<1>2. \A i \in 1 .. g : i \in S
  BY <1>1 DEF Shape, ScopeKinds
<1>3. \A i \in DOMAIN stack : i \notin 1 .. g => i \notin S
  <2> TAKE i \in DOMAIN stack
  <2> HAVE i \notin 1 .. g
  <2>1. i = g + 1 \/ (i = g + 2 /\ Depth = g + 2)
    BY <1>1
  <2>2. CASE i = g + 1
    BY <1>1, <2>2 DEF Shape
  <2>3. CASE i = g + 2 /\ Depth = g + 2
    BY <1>1, <2>3 DEF Shape, Top
  <2> QED
    BY <2>1, <2>2, <2>3
<1>4. S = 1 .. g
  BY <1>2, <1>3
<1>5. Cardinality(1 .. g) = g
  <2>1. 1 \in Int /\ g \in Int
    BY <1>1
  <2>2. Cardinality(1 .. g) = IF 1 > g THEN 0 ELSE g - 1 + 1
    BY <2>1, FS_Interval
  <2> QED
    BY <1>1, <2>2
<1> QED
  BY <1>4, <1>5 DEF LevelIsDepth

LEMMA LayersTableOK == IInv /\ Layers => TableOK
<1> SUFFICES ASSUME IInv, Layers PROVE TableOK
  OBVIOUS
<1>1. PICK U : Typed(U)
  BY DEF IInv
<1>2. LevelIsDepth
  BY <1>1, LevelIs DEF IInv
<1>3. \A e \in var_map : e.func <=> e.level = 0
  <2> TAKE e \in var_map
  <2>1. e \in Entry(U)
    BY <1>1 DEF Typed, Stored
  <2> QED
    BY <2>1, EntriesAre
<1> QED
  BY <1>2, <1>3 DEF Layers, Layered, TableOK, NoStaleEntry, YoungerIsDeeper

LEMMA InitLayers == Init => Layers
BY DEF Init, Layers, Layered

LEMMA SNextLayers == Exact /\ IInv /\ Layers /\ [SNext]_svars => Layers'
<1> SUFFICES ASSUME Exact, IInv, Layers, [SNext]_svars PROVE Layers'
  OBVIOUS
<1>1. PICK U : Typed(U)
  BY DEF IInv
<1> QED
  BY <1>1, StepIs, LayersStep DEF IInv

(***************************************************************************)
(* Unless PopScope steps over entries: no entry is deeper than the level   *)
(* counter, and of two entries the younger is at least as deep             *)
(* (semantic.cpp:498-627).                                                 *)
(***************************************************************************)
THEOREM LayersInvariant ==
  ASSUME Exact
  PROVE  SSpec => [](IInv /\ Layers)
<1>1. SInit => IInv /\ Layers
  BY SInitIInv, InitLayers DEF SInit
<1>2. IInv /\ Layers /\ [SNext]_svars => (IInv /\ Layers)'
  BY SNextIInv, SNextLayers
<1> QED
  BY <1>1, <1>2, PTL DEF SSpec

(***************************************************************************)
(* Unless PopScope steps over entries, the level counter is the number of  *)
(* open scopes, no entry outlives its scope, functions and only they are   *)
(* at level 0, and younger entries are in no outer scope (TableOK), in     *)
(* every program (semantic.cpp:498-627).                                   *)
(***************************************************************************)
THEOREM TablesOK ==
  ASSUME Exact
  PROVE  SSpec => []TableOK
<1>1. IInv /\ Layers => TableOK
  BY LayersTableOK
<1> QED
  BY <1>1, LayersInvariant, PTL

-----------------------------------------------------------------------------
(* What the program declared, and what the tables have of it. *)
Known ==
  /\ \E S : declared \in Seq(S)
  /\ Len(declared) = global_scope_level
  /\ \A e \in var_map : e.level > 0 => e.name \in declared[e.level]

LEMMA InitKnown == SInit => Known
<1> SUFFICES ASSUME SInit PROVE Known
  OBVIOUS
<1>1. declared = << >> /\ global_scope_level = 0 /\ var_map = {}
  BY DEF SInit, Init
<1>2. declared \in Seq({}) /\ Len(declared) = 0
  BY <1>1
<1> QED
  BY <1>1, <1>2 DEF Known

LEMMA SNextKnown == Exact /\ IInv /\ Layers /\ Known /\ [SNext]_svars => Known'
<1> SUFFICES ASSUME Exact, IInv, Layers, Known, [SNext]_svars PROVE Known'
  OBVIOUS
<1> DEFINE g == global_scope_level
<1>1. PICK U : Typed(U)
  BY DEF IInv
<1>2. Shape /\ Pending /\ [Next]_vars /\ g \in Nat /\ clock \in Nat
  BY <1>1, StepIs DEF IInv, Shape, Typed
<1>3. PICK S : declared \in Seq(S)
  BY DEF Known
<1>4. /\ Len(declared) = g
      /\ \A e \in var_map : e.level \in Nat /\ e.level <= g /\ (e.level > 0 => e.name \in declared[e.level])
  <2>1. \A e \in var_map : e \in Entry(U)
    BY <1>1 DEF Typed, Stored
  <2> QED
    BY <2>1, EntriesAre DEF Known, Layers, Layered
<1>5. CASE UNCHANGED svars
  BY <1>5 DEF svars, vars, tables, Known
<1>6. ASSUME NEW X, declared' = Append(declared, X), g' = g + 1,
             \A e \in var_map' : e \in var_map \/ (e.level = g + 1 /\ e.name \in X)
      PROVE  Known'
  <2>1. /\ declared' \in Seq(S \union {X}) /\ Len(declared') = g + 1 /\ declared'[g + 1] = X
        /\ \A i \in 1 .. g : declared'[i] = declared[i]
    BY <1>3, <1>4, <1>6, SeqMonotonic
  <2>2. ASSUME NEW e \in var_map', e.level > 0
        PROVE  e.name \in declared'[e.level]
    <3>1. CASE e.level = g + 1 /\ e.name \in X
      BY <2>1, <3>1
    <3>2. CASE e \in var_map
      <4>1. e.level \in 1 .. g
        BY <1>2, <1>4, <2>2, <3>2
      <4> QED
        BY <1>4, <2>1, <2>2, <3>2, <4>1
    <3> QED
      BY <1>6, <3>1, <3>2
  <2> QED
    BY <1>6, <2>1, <2>2 DEF Known
<1>7. ASSUME declared' = Front(declared), g > 0, g' = g - 1,
             \A e \in var_map' : e.level = 0 \/ (e \in var_map /\ e.level # g)
      PROVE  Known'
  <2>1. Front(declared) = [i \in 1 .. g - 1 |-> declared[i]]
    <3>1. \A i \in 1 .. g - 1 : i + 1 - 1 = i
      BY <1>2
    <3> QED
      BY <1>2, <1>3, <1>4, <1>7, <3>1 DEF Front
  <2>2. /\ declared' \in Seq(S) /\ Len(declared') = g - 1
        /\ \A i \in 1 .. g - 1 : declared'[i] = declared[i]
    BY <1>2, <1>3, <1>4, <1>7, <2>1
  <2>3. ASSUME NEW e \in var_map', e.level > 0
        PROVE  e.name \in declared'[e.level]
    <3>1. e \in var_map /\ e.level # g
      BY <1>7, <2>3
    <3>2. e.level \in 1 .. g - 1
      BY <1>2, <1>4, <2>3, <3>1
    <3> QED
      BY <1>4, <2>2, <2>3, <3>1, <3>2
  <2> QED
    BY <1>7, <2>2, <2>3 DEF Known
<1>8. ASSUME SNext PROVE Known'
  <2>1. declared' = NextDeclared
    BY <1>8 DEF SNext
  <2>2. CASE Quiet
    <3>1. g' = g /\ var_map' = var_map
      BY <2>2 DEF Quiet
    <3>2. CASE DecListEnd
      <4> DEFINE X == declared[g] \union NamesOf(Top.list)
      <4>1. g > 0 /\ declared' = [declared EXCEPT ![g] = X]
        BY <1>1, <1>2, <1>4, <2>1, <3>1, <3>2, DeclaringEffect DEF NextDeclared
      <4>2. /\ declared' \in Seq(S \union {X}) /\ Len(declared') = g
            /\ \A i \in 1 .. g : declared[i] \subseteq declared'[i]
        BY <1>3, <1>4, <4>1
      <4> QED
        BY <1>2, <1>4, <3>1, <4>2 DEF Known
    <3>3. CASE ~ DecListEnd
      <4>1. declared' = declared
        BY <1>2, <2>1, <3>1, <3>3 DEF NextDeclared
      <4> QED
        BY <3>1, <4>1 DEF Known
    <3> QED
      BY <3>2, <3>3
  <2>3. CASE Opens
    <3>1. g' = g + 1 /\ var_map' = var_map
      BY <2>3 DEF Opens
    <3>2. g + 1 > g
      BY <1>2
    <3>3. \E X : declared' = Append(declared, X)
      BY <2>1, <3>1, <3>2 DEF NextDeclared
    <3> QED
      BY <1>6, <3>1, <3>3
  <2>4. CASE DecListEnd
    <3> DEFINE X == declared[g] \union NamesOf(Top.list)
    <3>1. /\ Top.list \in Seq(Local(U)) /\ \A i \in 1 .. Len(Top.list) : Top.list[i].level = g
          /\ g > 0 /\ g' = g /\ var_map' = UpdateVariable(var_map, Top.list, clock)
      BY <1>1, <1>2, <2>4, DeclaringEffect DEF DecListEnd
    <3>2. declared' = [declared EXCEPT ![g] = X]
      BY <1>2, <1>4, <2>1, <2>4, <3>1 DEF NextDeclared
    <3>3. /\ declared' \in Seq(S \union {X}) /\ Len(declared') = g /\ declared'[g] = X
          /\ \A i \in 1 .. g : declared[i] \subseteq declared'[i]
      BY <1>2, <1>3, <1>4, <3>1, <3>2
    <3>4. Top.list \in Seq(Entry(U))
      BY <3>1, SeqMonotonic DEF Entry
    <3>5. ASSUME NEW e \in var_map', e.level > 0
          PROVE  e.name \in declared'[e.level]
      <4>1. CASE e \in var_map
        <5>1. e.level \in 1 .. g
          BY <1>2, <1>4, <3>5, <4>1
        <5> QED
          BY <1>4, <3>3, <3>5, <4>1, <5>1
      <4>2. CASE e \notin var_map
        <5>1. PICK i \in 1 .. Len(Top.list) : e.name = Top.list[i].name /\ e.level = Top.list[i].level
          BY <1>2, <3>1, <3>4, <3>5, <4>2, InsertedFrom
        <5>2. e.name \in NamesOf(Top.list)
          BY <3>1, <5>1 DEF NamesOf
        <5> QED
          BY <3>1, <3>3, <5>1, <5>2
      <4> QED
        BY <4>1, <4>2
    <3> QED
      BY <3>1, <3>3, <3>5 DEF Known
  <2>5. CASE \E n \in Names, params \in ParamLists : FunDec(n, params)
    <3>1. PICK n \in Names, params \in ParamLists : FunDec(n, params)
      BY <2>5
    <3> DEFINE args == Parameters(params, 1)
               X == NamesOf(args)
    <3>2. /\ g = 0 /\ g' = 1 /\ var_map' = UpdateVariable(var_map, args, clock)
          /\ Len(stack') = 1 /\ stack'[1].list = args
      BY <1>1, <1>2, <3>1, EnteringEffect
    <3>3. Closed(U)
      BY <1>1 DEF Typed
    <3>4. args \in Seq(Local(U)) /\ \A i \in 1 .. Len(args) : args[i].level = 1
      BY <3>3, ParametersAre
    <3>5. args \in Seq(Entry(U))
      BY <3>4, SeqMonotonic DEF Entry
    <3> HIDE DEF args
    <3>6. declared' = Append(declared, X)
      BY <2>1, <3>2 DEF NextDeclared
    <3>7. \A e \in var_map' : e \in var_map \/ (e.level = g + 1 /\ e.name \in X)
      <4> TAKE e \in var_map'
      <4>1. SUFFICES ASSUME e \notin var_map PROVE e.level = g + 1 /\ e.name \in X
        OBVIOUS
      <4>2. PICK i \in 1 .. Len(args) : e.name = args[i].name /\ e.level = args[i].level
        BY <1>2, <3>2, <3>5, <4>1, InsertedFrom
      <4> QED
        BY <3>2, <3>4, <4>2 DEF NamesOf
    <3> QED
      BY <1>6, <3>2, <3>6, <3>7
  <2>6. ASSUME g > 0, g' = g - 1 PROVE declared' = Front(declared)
    <3>1. g - 1 < g /\ ~ (g - 1 > g)
      BY <1>2
    <3> QED
      BY <2>1, <2>6, <3>1 DEF NextDeclared
  <2>7. CASE Closes
    BY <1>7, <2>6, <2>7 DEF Closes, Erased, Of
  <2>8. CASE Defines
    BY <1>7, <2>6, <2>8 DEF Defines, Erased, Of
  <2>9. CASE Registers(U)
    <3>1. g = 1 /\ g' = 0 /\ g - 1 = 0 /\ g > 0
      BY <2>9 DEF Registers
    <3>2. PICK fun \in Function(U) : var_map' = UpdateVariable(Erased(var_map, 1), <<fun>>, clock)
      BY <2>9 DEF Registers
    <3>3. fun \in Entry(U) /\ fun.level = 0
      BY DEF Entry, Function
    <3>4. <<fun>> \in Seq(Entry(U)) /\ \A i \in 1 .. Len(<<fun>>) : <<fun>>[i].level = 0
      BY <3>3
    <3>5. \A e \in var_map' : e.level = 0 \/ (e \in var_map /\ e.level # g)
      <4> TAKE e \in var_map'
      <4>1. CASE e \in Erased(var_map, 1)
        BY <3>1, <4>1 DEF Erased, Of
      <4>2. CASE e \notin Erased(var_map, 1)
        <5>1. PICK list : list = <<fun>>
          OBVIOUS
        <5>2. list \in Seq(Entry(U)) /\ \A i \in 1 .. Len(list) : list[i].level = 0
          BY <3>4, <5>1
        <5>3. e \in UpdateVariable(Erased(var_map, 1), list, clock)
          BY <3>2, <5>1
        <5> QED
          BY <1>2, <4>2, <5>2, <5>3, InsertedFrom
      <4> QED
        BY <4>1, <4>2
    <3> QED
      BY <1>7, <2>6, <3>1, <3>5
  <2> QED
    BY <1>1, <1>2, <2>2, <2>3, <2>4, <2>5, <2>7, <2>8, <2>9, Effects
<1> QED
  BY <1>5, <1>8

LEMMA RedefinedStep ==
  ASSUME IInv, Known, DecListEnd, VARIABLE_REDEFINED \in Range(reply'.codes)
  PROVE  \E i \in DOMAIN Top.list :
           \/ Top.list[i].name \in Last(declared)
           \/ \E j \in 1 .. i - 1 : Top.list[j].name = Top.list[i].name
<1> DEFINE g == global_scope_level
           list == Top.list
           R == Colliding(var_map, list, clock)
           codes == Redefinitions(var_map, list, clock)
<1>1. PICK U : Typed(U)
  BY DEF IInv
<1>2. /\ list \in Seq(Local(U)) /\ \A i \in 1 .. Len(list) : list[i].level = g
      /\ g > 0 /\ g \in Nat
  BY <1>1, DeclaringEffect DEF IInv
<1>3. reply'.codes = codes
  BY DEF DecListEnd, NoReply
<1>4. /\ Cardinality(R) \in Nat
      /\ codes \in Seq({VARIABLE_REDEFINED, FUNCTION_REDEFINED}) /\ Len(codes) = Cardinality(R)
      /\ \A k \in 1 .. Cardinality(R) : \E i \in R : codes[k] = CodeOf(var_map, list, clock, i)
  BY <1>2, RedefinitionsAre
<1> HIDE DEF list, R, codes
<1>5. PICK k \in DOMAIN codes : codes[k] = VARIABLE_REDEFINED
  BY <1>3 DEF Range
<1>6. k \in 1 .. Cardinality(R)
  BY <1>4
<1>7. PICK i \in R : codes[k] = CodeOf(var_map, list, clock, i)
  BY <1>4, <1>6
<1>8. i \in 1 .. Len(list)
  BY DEF R, Colliding
<1>9. /\ var_map \in SUBSET Entry(U) /\ clock \in Nat /\ Stored(var_map, clock, Entry(U))
  BY <1>1 DEF Typed, Stored
<1>10. \/ \E e \in var_map : e.name = list[i].name /\ e.level = g
       \/ \E j \in 1 .. i - 1 : list[j].name = list[i].name
  <2>1. AllAt(list, g)
    BY <1>2 DEF AllAt
  <2> HIDE DEF g
  <2> QED
    BY <1>2, <1>8, <1>9, <2>1, CollidingIs DEF R
<1>11. (\E e \in var_map : e.name = list[i].name /\ e.level = g) => list[i].name \in Last(declared)
  BY <1>2 DEF Known, Last
<1>12. i \in DOMAIN list
  BY <1>2, <1>8
<1> QED
  BY <1>10, <1>11, <1>12 DEF list

(***************************************************************************)
(* Unless PopScope steps over entries, a variable is reported as redefined *)
(* in the same scope only if the program declared its name there before    *)
(* (semantic.cpp:640), in every program.                                   *)
(***************************************************************************)
THEOREM RedefinedInSameScopeHolds ==
  ASSUME Exact
  PROVE  SSpec => RedefinedInSameScope
<1> DEFINE Says == DecListEnd /\ VARIABLE_REDEFINED \in Range(reply'.codes) =>
                     \E i \in DOMAIN Top.list :
                       \/ Top.list[i].name \in Last(declared)
                       \/ \E j \in 1 .. i - 1 : Top.list[j].name = Top.list[i].name
<1>1. SInit => IInv /\ Layers /\ Known
  BY SInitIInv, InitLayers, InitKnown DEF SInit
<1>2. IInv /\ Layers /\ Known /\ [SNext]_svars => (IInv /\ Layers /\ Known)'
  BY SNextIInv, SNextLayers, SNextKnown
<1>3. IInv /\ Layers /\ Known /\ [SNext]_svars => [Says]_svars
  BY RedefinedStep
<1> QED
  BY <1>1, <1>2, <1>3, PTL DEF SSpec, RedefinedInSameScope

-----------------------------------------------------------------------------
(* The entries of a name at a level. *)
Here(m, level, n) == {e \in m : e.name = n /\ e.level = level}

LEMMA AtLevelIs ==
  ASSUME NEW m, NEW level, NEW S
  PROVE  AtLevel(m, level, S) =
           [n \in S |-> IF Here(m, level, n) = {} THEN Undeclared
                        ELSE Outline(First(Here(m, level, n)).type)]
BY DEF AtLevel, Here

LEMMA SameLevel ==
  ASSUME NEW m, NEW k, NEW level, NEW S, \A n \in S : Here(m, level, n) = Here(k, level, n)
  PROVE  AtLevel(m, level, S) = AtLevel(k, level, S)
BY AtLevelIs

LEMMA EmptyLevel ==
  ASSUME NEW m, NEW level, NEW S, \A e \in m : e.level # level
  PROVE  AtLevel(m, level, S) = Nested!Blank(S)
<1>1. \A n \in S : Here(m, level, n) = {}
  BY DEF Here
<1> QED
  BY <1>1, AtLevelIs DEF Nested!Blank, Nested!Undeclared, Undeclared

LEMMA ErasedLevel ==
  ASSUME NEW m, NEW g, NEW level, level # g, NEW S
  PROVE  AtLevel(Erased(m, g), level, S) = AtLevel(m, level, S)
<1>1. \A n \in S : Here(Erased(m, g), level, n) = Here(m, level, n)
  BY DEF Here, Erased, Of
<1> QED
  BY <1>1, SameLevel

(* Sequences of scopes. *)
LEMMA AppendIn ==
  ASSUME NEW g \in Nat, NEW S, NEW F \in [1 .. g -> S], NEW G \in [1 .. g + 1 -> S],
         \A i \in 1 .. g : F[i] = G[i]
  PROVE  G = Append(F, G[g + 1]) /\ F = Nested!Left(G)
<1>1. F \in Seq(S) /\ Len(F) = g /\ G \in Seq(S) /\ Len(G) = g + 1
  OBVIOUS
<1>2. /\ Append(F, G[g + 1]) \in Seq(S) /\ Len(Append(F, G[g + 1])) = g + 1
      /\ Append(F, G[g + 1])[g + 1] = G[g + 1]
      /\ \A i \in 1 .. g : Append(F, G[g + 1])[i] = F[i]
  BY <1>1
<1>3. \A i \in 1 .. g + 1 : Append(F, G[g + 1])[i] = G[i]
  <2> TAKE i \in 1 .. g + 1
  <2>1. i \in 1 .. g \/ i = g + 1
    OBVIOUS
  <2> QED
    BY <1>2, <2>1
<1>4. G = Append(F, G[g + 1])
  BY <1>1, <1>2, <1>3, SeqEqual
<1>5. Nested!Left(G) = SubSeq(G, 1, g)
  BY <1>1 DEF Nested!Left
<1>6. SubSeq(G, 1, g) = [i \in 1 .. g |-> G[i]]
  BY <1>1
<1> QED
  BY <1>4, <1>5, <1>6

LEMMA OpenAre ==
  ASSUME NEW m, NEW g \in Nat
  PROVE  /\ OpenScopes(m, g) \in [1 .. g -> {AtLevel(m, l, Names) : l \in Int}]
         /\ \A l \in 1 .. g : OpenScopes(m, g)[l] = AtLevel(m, l, Names)
         /\ Len(OpenScopes(m, g)) = g
         /\ OpenStructures(m, g) \in [1 .. g + 1 -> {AtLevel(m, l, SNames) : l \in Int}]
         /\ \A l \in 1 .. g + 1 : OpenStructures(m, g)[l] = AtLevel(m, l - 1, SNames)
         /\ Len(OpenStructures(m, g)) = g + 1
BY DEF OpenScopes, OpenStructures

(* One more scope, and one less. *)
LEMMA ScopesGrow ==
  ASSUME NEW m, NEW k, NEW g \in Nat,
         \A l \in 1 .. g : AtLevel(m, l, Names) = AtLevel(k, l, Names)
  PROVE  /\ OpenScopes(k, g + 1) = Append(OpenScopes(m, g), AtLevel(k, g + 1, Names))
         /\ OpenScopes(m, g) = Nested!Left(OpenScopes(k, g + 1))
<1> DEFINE S == {AtLevel(m, l, Names) : l \in Int} \union {AtLevel(k, l, Names) : l \in Int}
           F == OpenScopes(m, g)
           G == OpenScopes(k, g + 1)
<1>1. g + 1 \in Nat /\ g + 1 \in 1 .. g + 1 /\ \A l \in 1 .. g : l \in 1 .. g + 1
  OBVIOUS
<1>2. F \in [1 .. g -> S] /\ G \in [1 .. g + 1 -> S]
  BY <1>1, OpenAre
<1>3. (\A l \in 1 .. g : F[l] = G[l]) /\ G[g + 1] = AtLevel(k, g + 1, Names)
  BY <1>1 DEF OpenScopes
<1> HIDE DEF S, F, G
<1>4. G = Append(F, G[g + 1]) /\ F = Nested!Left(G)
  BY <1>2, <1>3, AppendIn
<1> QED
  BY <1>3, <1>4 DEF F, G

LEMMA StructuresGrow ==
  ASSUME NEW m, NEW k, NEW g \in Nat,
         \A l \in 0 .. g : AtLevel(m, l, SNames) = AtLevel(k, l, SNames)
  PROVE  /\ OpenStructures(k, g + 1) = Append(OpenStructures(m, g), AtLevel(k, g + 1, SNames))
         /\ OpenStructures(m, g) = Nested!Left(OpenStructures(k, g + 1))
<1> DEFINE S == {AtLevel(m, l, SNames) : l \in Int} \union {AtLevel(k, l, SNames) : l \in Int}
           F == OpenStructures(m, g)
           G == OpenStructures(k, g + 1)
<1>1. /\ g + 1 \in Nat /\ (g + 1) + 1 \in 1 .. (g + 1) + 1 /\ ((g + 1) + 1) - 1 = g + 1
      /\ \A l \in 1 .. g + 1 : l \in 1 .. (g + 1) + 1 /\ l - 1 \in 0 .. g
  OBVIOUS
<1>2. F \in [1 .. g + 1 -> S] /\ G \in [1 .. (g + 1) + 1 -> S]
  BY <1>1, OpenAre
<1>3. (\A l \in 1 .. g + 1 : F[l] = G[l]) /\ G[(g + 1) + 1] = AtLevel(k, g + 1, SNames)
  BY <1>1, OpenAre
<1> HIDE DEF S, F, G
<1>4. G = Append(F, G[(g + 1) + 1]) /\ F = Nested!Left(G)
  <2>1. PICK h \in Nat : h = g + 1
    BY <1>1
  <2>2. F \in [1 .. h -> S] /\ G \in [1 .. h + 1 -> S] /\ \A l \in 1 .. h : F[l] = G[l]
    BY <1>2, <1>3, <2>1
  <2>3. G = Append(F, G[h + 1]) /\ F = Nested!Left(G)
    BY <2>2, AppendIn
  <2> QED
    BY <2>1, <2>3
<1> QED
  BY <1>3, <1>4 DEF F, G

(* Only the innermost scope changes. *)
LEMMA ScopesChange ==
  ASSUME NEW m, NEW k, NEW g \in Nat, g > 0,
         \A l \in 1 .. g - 1 : AtLevel(m, l, Names) = AtLevel(k, l, Names)
  PROVE  OpenScopes(k, g) = [OpenScopes(m, g) EXCEPT ![g] = AtLevel(k, g, Names)]
<1>1. \A l \in 1 .. g : l = g \/ l \in 1 .. g - 1
  OBVIOUS
<1> QED
  BY <1>1 DEF OpenScopes

LEMMA ReplyIs ==
  ASSUME NEW codes, NEW t
  PROVE  [[codes |-> codes, type |-> t] EXCEPT !.type = Outline(@)] = Nested!Reply(codes, Outline(t))
BY DEF Nested!Reply

LEMMA OutlineOfEmpty == Outline(EMPTY_TYPE) = EMPTY_TYPE
BY DEF Outline, OutlineOf, EMPTY_TYPE

LEMMA ReportIs ==
  ASSUME NEW code
  PROVE  [Report(code) EXCEPT !.type = Outline(@)]
           = Nested!Reply(IF code = OK THEN << >> ELSE <<code>>, EMPTY_TYPE)
<1>1. Report(code) = [codes |-> IF code = OK THEN << >> ELSE <<code>>, type |-> EMPTY_TYPE]
  BY DEF Report, NoReply
<1> QED
  BY <1>1, ReplyIs, OutlineOfEmpty

LEMMA Judged ==
  ASSUME Quiet, NEW code \in Nested!TypeErrors \union {OK}, reply' = Report(code),
         asked' = <<"nothing">>
  PROVE  Nested!JudgeTypes
<1>1. UNCHANGED <<OpenScopes(var_map, global_scope_level),
                  OpenStructures(structure_map, global_scope_level),
                  [n \in Names |-> Overloads(var_map, n)]>>
  BY DEF Quiet
<1>2. [reply EXCEPT !.type = Outline(@)]'
        = Nested!Reply(IF code = OK THEN << >> ELSE <<code>>, EMPTY_TYPE)
  BY ReportIs
<1>3. CASE code = OK
  BY <1>1, <1>2, <1>3 DEF Nested!JudgeTypes
<1>4. CASE code # OK
  BY <1>1, <1>2, <1>4 DEF Nested!JudgeTypes
<1> QED
  BY <1>3, <1>4

-----------------------------------------------------------------------------
(* An outline is a declared type, and says what kind of type it is of. *)
LEMMA OutlineIs ==
  ASSUME NEW U, Closed(U), NEW t \in U
  PROVE  /\ Outline(t) # Undeclared /\ Outline(t) # Nested!Undeclared
         /\ t.kind \in {"EMPTY", "PRIMITIVE"} => Outline(t) = t
<1>1. t.kind \in Kinds
  BY KindsAre
<1>2. Outline(t).kind \in Kinds
  BY <1>1 DEF Outline, OutlineOf, CArray, CStructure, Kinds
<1>3. Undeclared.kind \notin Kinds /\ Nested!Undeclared.kind \notin Kinds
  BY DEF Undeclared, Nested!Undeclared, Kinds
<1>4. t.kind \in {"EMPTY", "PRIMITIVE"} => Outline(t) = t
  BY DEF Outline, OutlineOf
<1> QED
  BY <1>2, <1>3, <1>4

LEMMA FirstOnly ==
  ASSUME NEW S, Aged(S), NEW e \in S, \A f \in S : e.seq <= f.seq
  PROVE  First(S) = e
<1>1. First(S) \in S /\ First(S).seq <= e.seq
  BY FirstIs
<1>2. First(S).seq \in Nat /\ e.seq \in Nat
  BY <1>1 DEF Aged
<1>3. First(S).seq = e.seq
  BY <1>1, <1>2
<1> QED
  BY <1>1, <1>3 DEF Aged

(* A name is declared at a level if there is an entry of it. *)
LEMMA DeclaredAt ==
  ASSUME NEW U, Closed(U), NEW m, Aged(m), \A e \in m : e.type \in U,
         NEW level, NEW S, NEW n \in S
  PROVE  /\ AtLevel(m, level, S)[n] = Undeclared <=> Here(m, level, n) = {}
         /\ Here(m, level, n) # {} =>
              /\ First(Here(m, level, n)) \in Here(m, level, n)
              /\ AtLevel(m, level, S)[n] = Outline(First(Here(m, level, n)).type)
<1>1. Here(m, level, n) \in SUBSET m
  BY DEF Here
<1>2. Aged(Here(m, level, n))
  BY <1>1, SomeAged
<1>3. Here(m, level, n) # {} => First(Here(m, level, n)) \in Here(m, level, n)
  BY <1>2, FirstIs
<1>4. Here(m, level, n) # {} => Outline(First(Here(m, level, n)).type) # Undeclared
  BY <1>1, <1>3, OutlineIs
<1> QED
  BY <1>3, <1>4, AtLevelIs

(* The entry that the i-th declaration of a list becomes. *)
Added(list, c, i) == [list[i] EXCEPT !.seq = c + i]

(* What a list of variables adds to the table m at its level. *)
Adds(m, k, list, c, g, n) ==
  /\ \A i \in 1 .. Len(list) : list[i].name = n =>
       /\ Added(list, c, i) \in Here(k, g, n)
       /\ Added(list, c, i).seq = c + i
       /\ Added(list, c, i).type = list[i].type
  /\ \A e \in Here(k, g, n) :
       e \in Here(m, g, n) \/ \E i \in 1 .. Len(list) :
          list[i].name = n /\ e = Added(list, c, i)
  /\ Here(m, g, n) \subseteq Here(k, g, n)
  /\ \A level : level # g => Here(k, level, n) = Here(m, level, n)

LEMMA HereInserted ==
  ASSUME NEW U, NEW m, NEW c \in Nat, NEW list \in Seq(Local(U)),
         NEW g \in Nat, AllAt(list, g), NEW n
  PROVE  Adds(m, UpdateVariable(m, list, c), list, c, g, n)
<1> DEFINE k == UpdateVariable(m, list, c)
<1>1. \A i \in 1 .. Len(list) :
        /\ Added(list, c, i) \in k
        /\ Added(list, c, i).seq = c + i
        /\ Added(list, c, i).type = list[i].type
        /\ Added(list, c, i).name = list[i].name
        /\ Added(list, c, i).level = g
  <2> TAKE i \in 1 .. Len(list)
  <2>1. list[i] \in Entry(U) /\ list[i].level = g /\ c + i \in Nat
    BY DEF AllAt, Entry
  <2>2. Added(list, c, i) \in k
    BY DEF UpdateVariable, Inserted, Added
  <2> QED
    BY <2>1, <2>2, EntryNumbered DEF Added
<1>2. \A e \in k : e \in m \/ \E i \in 1 .. Len(list) : e = Added(list, c, i)
  BY DEF UpdateVariable, Inserted, Added
<1>3. m \subseteq k
  BY DEF UpdateVariable
<1> HIDE DEF k
<1>4. \A i \in 1 .. Len(list) : list[i].name = n => Added(list, c, i) \in Here(k, g, n)
  BY <1>1 DEF Here
<1>5. \A e \in Here(k, g, n) : e \in Here(m, g, n) \/ \E i \in 1 .. Len(list) :
                                  list[i].name = n /\ e = Added(list, c, i)
  BY <1>1, <1>2 DEF Here
<1>6. Here(m, g, n) \subseteq Here(k, g, n)
  BY <1>3 DEF Here
<1>7. \A level : level # g => Here(k, level, n) = Here(m, level, n)
  <2> TAKE level
  <2> HAVE level # g
  <2>1. \A e \in k : e.level = level => e \in m
    BY <1>1, <1>2
  <2> QED
    BY <1>3, <2>1 DEF Here
<1> QED
  BY <1>1, <1>4, <1>5, <1>6, <1>7 DEF k, Adds

LEMMA ToldIs ==
  ASSUME NEW S, NEW list \in Seq(S)
  PROVE  /\ DOMAIN Told(list) = 1 .. Len(list) /\ Len(Told(list)) = Len(list)
         /\ \A i \in 1 .. Len(list) : /\ Told(list)[i].name = list[i].name
                                      /\ Told(list)[i].type = Outline(list[i].type)
<1>1. DOMAIN list = 1 .. Len(list) /\ Len(list) \in Nat
  OBVIOUS
<1>2. Told(list) = [i \in 1 .. Len(list) |-> [name |-> list[i].name, type |-> Outline(list[i].type)]]
  BY <1>1 DEF Told
<1> QED
  BY <1>1, <1>2

LEMMA LevelDeclares ==
  ASSUME NEW U, Closed(U), NEW m, NEW c \in Nat, Stored(m, c, Entry(U)),
         NEW list \in Seq(Local(U)), NEW g \in Nat, AllAt(list, g)
  PROVE  AtLevel(UpdateVariable(m, list, c), g, Names)
           = Nested!Declares(AtLevel(m, g, Names), Told(list))
<1> DEFINE k == UpdateVariable(m, list, c)
           scope == AtLevel(m, g, Names)
           mine(n) == {i \in DOMAIN Told(list) : Told(list)[i].name = n}
<1>1. Stored(k, c + Len(list), Entry(U)) /\ Aged(m) /\ Aged(k)
  <2>1. list \in Seq(Entry(U)) /\ c + Len(list) \in Nat
    BY SeqMonotonic DEF Entry
  <2>2. \A e \in Entry(U), i \in Nat : [e EXCEPT !.seq = i] \in Entry(U) /\ [e EXCEPT !.seq = i].seq = i
    <3> TAKE e \in Entry(U), i \in Nat
    <3> QED
      BY EntryNumbered
  <2>3. Stored(k, c + Len(list), Entry(U))
    BY <2>1, <2>2, ListStored
  <2> HIDE DEF k
  <2> QED
    BY <2>1, <2>3, StoredAged
<1>2. (\A e \in m : e.type \in U) /\ (\A e \in k : e.type \in U)
  BY <1>1, EntriesAre DEF Stored
<1>3. Nested!Declares(scope, Told(list)) =
        [n \in Names |-> IF scope[n] # Nested!Undeclared \/ mine(n) = {} THEN scope[n]
                         ELSE Told(list)[CHOOSE i \in mine(n) : \A j \in mine(n) : i <= j].type]
  BY DEF Nested!Declares
<1>4. Nested!Undeclared = Undeclared
  BY DEF Nested!Undeclared, Undeclared
<1>5. ASSUME NEW n \in Names
      PROVE  AtLevel(k, g, Names)[n] =
               IF scope[n] # Undeclared \/ mine(n) = {} THEN scope[n]
               ELSE Told(list)[CHOOSE i \in mine(n) : \A j \in mine(n) : i <= j].type
  <2>1. mine(n) = {i \in 1 .. Len(list) : list[i].name = n}
    BY ToldIs
  <2>2. /\ \A i \in mine(n) : /\ Added(list, c, i) \in Here(k, g, n)
                              /\ Added(list, c, i).seq = c + i
                              /\ Added(list, c, i).type = list[i].type
        /\ \A e \in Here(k, g, n) : e \in Here(m, g, n)
             \/ \E i \in mine(n) : e = Added(list, c, i)
        /\ Here(m, g, n) \subseteq Here(k, g, n)
    <3>1. Adds(m, k, list, c, g, n)
      BY HereInserted
    <3> HIDE DEF mine, scope, k
    <3> QED
      BY <2>1, <3>1 DEF Adds
  <2> HIDE DEF k, mine, scope
  <2>3. Aged(Here(k, g, n))
    <3>1. Here(k, g, n) \in SUBSET k
      BY DEF Here
    <3> QED
      BY <1>1, <3>1, SomeAged
  <2>4. /\ scope[n] = Undeclared <=> Here(m, g, n) = {}
        /\ Here(m, g, n) # {} => /\ First(Here(m, g, n)) \in Here(m, g, n)
                                 /\ scope[n] = Outline(First(Here(m, g, n)).type)
        /\ AtLevel(k, g, Names)[n] = Undeclared <=> Here(k, g, n) = {}
        /\ Here(k, g, n) # {} => AtLevel(k, g, Names)[n] = Outline(First(Here(k, g, n)).type)
    BY <1>1, <1>2, DeclaredAt DEF scope
  <2>5. mine(n) \in SUBSET Nat
    BY <2>1
  <2>6. CASE Here(m, g, n) # {}
    <3> DEFINE e == First(Here(m, g, n))
    <3>1. e \in Here(m, g, n) /\ \A f \in Here(m, g, n) : e.seq <= f.seq
      <4>1. Here(m, g, n) \in SUBSET m
        BY DEF Here
      <4>2. Aged(Here(m, g, n))
        BY <1>1, <4>1, SomeAged
      <4> QED
        BY <2>6, <4>2, FirstIs
    <3>2. e.seq \in 1 .. c
      BY <3>1 DEF Here, Stored
    <3> HIDE DEF e
    <3>3. \A f \in Here(k, g, n) : e.seq <= f.seq
      <4> TAKE f \in Here(k, g, n)
      <4>1. CASE f \in Here(m, g, n)
        BY <3>1, <4>1
      <4>2. CASE \E i \in mine(n) : f = Added(list, c, i)
        <5>1. PICK i \in mine(n) : f = Added(list, c, i)
          BY <4>2
        <5>2. f.seq = c + i /\ i \in Nat
          BY <2>2, <2>5, <5>1
        <5> QED
          BY <3>2, <5>2
      <4> QED
        BY <2>2, <4>1, <4>2
    <3>4. First(Here(k, g, n)) = e
      BY <2>2, <2>3, <3>1, <3>3, FirstOnly
    <3> QED
      BY <2>2, <2>4, <2>6, <3>4 DEF e
  <2>7. CASE Here(m, g, n) = {} /\ mine(n) = {}
    BY <2>2, <2>4, <2>7
  <2>8. CASE Here(m, g, n) = {} /\ mine(n) # {}
    <3> DEFINE i == CHOOSE i \in mine(n) : \A j \in mine(n) : i <= j
               e == Added(list, c, i)
    <3>1. i \in mine(n) /\ \A j \in mine(n) : i <= j
      BY <2>5, <2>8, SmallestIs
    <3> HIDE DEF i
    <3>2. e \in Here(k, g, n) /\ e.seq = c + i /\ e.type = list[i].type
      BY <2>2, <3>1
    <3>3. \A f \in Here(k, g, n) : e.seq <= f.seq
      <4> TAKE f \in Here(k, g, n)
      <4>1. PICK j \in mine(n) : f = Added(list, c, j)
        BY <2>2, <2>8
      <4>2. f.seq = c + j /\ j \in Nat /\ i \in Nat /\ i <= j
        BY <2>2, <2>5, <3>1, <4>1
      <4> HIDE DEF e
      <4> QED
        BY <3>2, <4>2
    <3> HIDE DEF e
    <3>4. First(Here(k, g, n)) = e
      BY <2>3, <3>2, <3>3, FirstOnly
    <3>5. AtLevel(k, g, Names)[n] = Outline(list[i].type)
      BY <2>4, <3>2, <3>4
    <3>6. Told(list)[i].type = Outline(list[i].type)
      BY <2>1, <3>1, ToldIs
    <3> QED
      BY <2>4, <2>8, <3>5, <3>6 DEF i
  <2> QED
    BY <2>6, <2>7, <2>8
<1>6. AtLevel(k, g, Names) = [n \in Names |-> AtLevel(k, g, Names)[n]]
  BY DEF AtLevel
<1> HIDE DEF k, scope, mine
<1> QED
  BY <1>3, <1>4, <1>5, <1>6 DEF k, scope

LEMMA CodesAre ==
  ASSUME NEW U, Closed(U), NEW m, NEW c \in Nat, Stored(m, c, Entry(U)),
         NEW list \in Seq(Local(U)), NEW g \in Nat, g > 0, AllAt(list, g)
  PROVE  Redefinitions(m, list, c) =
           Nested!Codes(3, Cardinality(Nested!Repeated(AtLevel(m, g, Names), Told(list))))
<1> DEFINE scope == AtLevel(m, g, Names)
           R == Colliding(m, list, c)
           codes == Redefinitions(m, list, c)
<1>1. Aged(m) /\ \A e \in m : e.type \in U
  BY StoredAged, EntriesAre DEF Stored
<1>2. Nested!Repeated(scope, Told(list)) =
        {i \in 1 .. Len(list) : \/ scope[list[i].name] # Undeclared
                                \/ \E j \in 1 .. i - 1 : list[j].name = list[i].name}
  <2>1. \A i \in 1 .. Len(list) : \A j \in 1 .. i - 1 : j \in 1 .. Len(list)
    OBVIOUS
  <2>2. Nested!Undeclared = Undeclared
    BY DEF Nested!Undeclared, Undeclared
  <2> HIDE DEF scope
  <2> QED
    BY <2>1, <2>2, ToldIs DEF Nested!Repeated
<1>3. \A i \in 1 .. Len(list) :
        scope[list[i].name] # Undeclared <=> \E e \in m : e.name = list[i].name /\ e.level = g
  <2> TAKE i \in 1 .. Len(list)
  <2>1. list[i].name \in Names
    <3>1. list[i] \in Local(U)
      OBVIOUS
    <3> QED
      BY <3>1 DEF Local
  <2>2. scope[list[i].name] = Undeclared <=> Here(m, g, list[i].name) = {}
    BY <1>1, <2>1, DeclaredAt
  <2> QED
    BY <2>2 DEF Here
<1>4. R \in SUBSET (1 .. Len(list))
  BY DEF Colliding
<1>5. \A i \in 1 .. Len(list) :
        /\ CodeOf(m, list, c, i) \in {OK, VARIABLE_REDEFINED}
        /\ i \in R <=> \/ \E e \in m : e.name = list[i].name /\ e.level = g
                       \/ \E j \in 1 .. i - 1 : list[j].name = list[i].name
  <2> TAKE i \in 1 .. Len(list)
  <2> QED
    BY CollidingIs
<1> HIDE DEF scope
<1>6. R = Nested!Repeated(scope, Told(list))
  <2> HIDE DEF R
  <2> QED
    BY <1>2, <1>3, <1>4, <1>5
<1>7. /\ Cardinality(R) \in Nat
      /\ codes \in Seq({VARIABLE_REDEFINED, FUNCTION_REDEFINED}) /\ Len(codes) = Cardinality(R)
      /\ \A k \in 1 .. Cardinality(R) : \E i \in R : codes[k] = CodeOf(m, list, c, i)
  BY RedefinitionsAre
<1>8. \A i \in R : CodeOf(m, list, c, i) = 3
  <2> TAKE i \in R
  <2>1. CodeOf(m, list, c, i) # OK
    BY DEF Colliding
  <2> QED
    BY <1>4, <1>5, <2>1 DEF VARIABLE_REDEFINED
<1> HIDE DEF R, codes
<1>9. codes = [k \in 1 .. Cardinality(R) |-> 3]
  BY <1>7, <1>8
<1> QED
  BY <1>6, <1>9 DEF Nested!Codes, codes, scope

(* The functions of a table. *)
LEMMA FunctionsKept ==
  ASSUME NEW U, NEW m, NEW c \in Nat, Stored(m, c, Entry(U)),
         NEW list \in Seq(Local(U)), NEW g \in Nat, g > 0
  PROVE  /\ Functions(UpdateVariable(m, list, c)) = Functions(m)
         /\ Functions(Erased(m, g)) = Functions(m)
<1>1. \A e \in Inserted(list, Len(list), c) : ~ e.func
  <2> TAKE e \in Inserted(list, Len(list), c)
  <2>1. PICK i \in 1 .. Len(list) : e = [list[i] EXCEPT !.seq = c + i]
    BY DEF Inserted
  <2>2. list[i] \in Entry(U) /\ list[i].func = FALSE
    <3>1. list[i] \in Local(U)
      OBVIOUS
    <3> QED
      BY <3>1 DEF Local, Entry
  <2>3. PICK k \in Nat : k = c + i
    OBVIOUS
  <2>4. e = [list[i] EXCEPT !.seq = k]
    BY <2>1, <2>3
  <2>5. e.func = list[i].func
    BY <2>2, <2>4, EntryNumbered
  <2> QED
    BY <2>2, <2>5
<1>2. \A e \in m : e.func => e.level = 0
  BY EntriesAre DEF Stored
<1> QED
  BY <1>1, <1>2 DEF Functions, UpdateVariable, Erased, Of

LEMMA OverloadsKept ==
  ASSUME NEW m, NEW k, Functions(m) = Functions(k), NEW n
  PROVE  Overloads(m, n) = Overloads(k, n)
BY DEF Overloads

-----------------------------------------------------------------------------
(***************************************************************************)
(* A step of the checker is a step of the nested scopes: an expression, a  *)
(* statement, the beginning of a declaration or its end.                   *)
(***************************************************************************)
(* The instance has its own copy of the operator. *)
LEMMA CardinalityIs ==
  ASSUME NEW S
  PROVE  Nested!Cardinality(S) = Cardinality(S)
BY DEF Cardinality, Nested!Cardinality

LEMMA NothingDeclared ==
  ASSUME NEW m, NEW level
  PROVE  /\ Nested!Declares(AtLevel(m, level, Names), << >>) = AtLevel(m, level, Names)
         /\ Nested!Declares(Nested!Blank(Names), << >>) = Nested!Blank(Names)
         /\ Nested!Codes(3, Cardinality(Nested!Repeated(Nested!Blank(Names), << >>))) = << >>
<1>1. AtLevel(m, level, Names) = [n \in Names |-> AtLevel(m, level, Names)[n]]
  BY DEF AtLevel
<1>2. Nested!Repeated(Nested!Blank(Names), << >>) = {}
  BY DEF Nested!Repeated
<1>3. Cardinality({}) = 0
  BY FS_EmptySet
<1>4. Nested!Codes(3, 0) = << >>
  BY DEF Nested!Codes
<1>5. \A i : i \notin DOMAIN << >>
  OBVIOUS
<1>6. Nested!Declares(AtLevel(m, level, Names), << >>) = AtLevel(m, level, Names)
  BY <1>1, <1>5 DEF Nested!Declares
<1>7. Nested!Declares(Nested!Blank(Names), << >>) = Nested!Blank(Names)
  BY <1>5 DEF Nested!Declares, Nested!Blank
<1> QED
  BY <1>2, <1>3, <1>4, <1>6, <1>7

LEMMA NoReplyIs ==
  [NoReply EXCEPT !.type = Outline(@)] = Nested!Reply(<< >>, EMPTY_TYPE)
<1>1. NoReply = [codes |-> << >>, type |-> EMPTY_TYPE]
  BY DEF NoReply
<1> QED
  BY <1>1, ReplyIs, OutlineOfEmpty

LEMMA EnterNothing ==
  ASSUME Layers, global_scope_level \in Nat, Opens, reply' = NoReply, asked' = <<"enter", << >>>>
  PROVE  Nested!Enter(<< >>)
<1>0. PICK g \in Nat : g = global_scope_level
  OBVIOUS
<1>1. /\ global_scope_level' = g + 1 /\ var_map' = var_map /\ structure_map' = structure_map
  BY <1>0 DEF Opens
<1>2. (\A e \in var_map : e.level # g + 1) /\ (\A e \in structure_map : e.level # g + 1)
  <2>1. (\A e \in var_map : e.level <= g) /\ (\A e \in structure_map : e.level <= g)
    BY <1>0 DEF Layers, Layered
  <2> QED
    BY <2>1
<1>3. /\ AtLevel(var_map, g + 1, Names) = Nested!Blank(Names)
      /\ AtLevel(structure_map, g + 1, SNames) = Nested!Blank(SNames)
  BY <1>2, EmptyLevel
<1>4. /\ OpenScopes(var_map, g + 1) = Append(OpenScopes(var_map, g), AtLevel(var_map, g + 1, Names))
      /\ OpenStructures(structure_map, g + 1) =
           Append(OpenStructures(structure_map, g), AtLevel(structure_map, g + 1, SNames))
  BY ScopesGrow, StructuresGrow
<1>5. OpenScopes(var_map, global_scope_level)'
        = Append(OpenScopes(var_map, global_scope_level), Nested!Declares(Nested!Blank(Names), << >>))
  BY <1>0, <1>1, <1>3, <1>4, NothingDeclared
<1>6. OpenStructures(structure_map, global_scope_level)'
        = Append(OpenStructures(structure_map, global_scope_level), Nested!Blank(SNames))
  BY <1>0, <1>1, <1>3, <1>4
<1>7. [reply EXCEPT !.type = Outline(@)]' =
        Nested!Reply(Nested!Codes(3, Cardinality(Nested!Repeated(Nested!Blank(Names), << >>))), EMPTY_TYPE)
  BY NothingDeclared, NoReplyIs
<1>8. UNCHANGED [n \in Names |-> Overloads(var_map, n)]
  BY <1>1
<1> QED
  BY <1>5, <1>6, <1>7, <1>8, CardinalityIs DEF Nested!Enter

LEMMA LeaveScope ==
  ASSUME NEW U, Typed(U), global_scope_level \in Nat, Closes, reply' = NoReply,
         asked' = <<"leave">>
  PROVE  Nested!Leave
<1> DEFINE g == global_scope_level
           v == Erased(var_map, g)
           s == Erased(structure_map, g)
<1>1. g > 0 /\ global_scope_level' = g - 1 /\ var_map' = v /\ structure_map' = s
  BY DEF Closes
<1>2. PICK h \in Nat : g = h + 1
  BY <1>1
<1>3. /\ \A l \in 1 .. h : AtLevel(v, l, Names) = AtLevel(var_map, l, Names)
      /\ \A l \in 0 .. h : AtLevel(s, l, SNames) = AtLevel(structure_map, l, SNames)
  <2>1. \A l \in 0 .. h : l # g
    BY <1>2
  <2>2. \A l \in 1 .. h : l # g
    BY <1>2
  <2> QED
    BY <2>1, <2>2, ErasedLevel
<1>4. \A n : Overloads(v, n) = Overloads(var_map, n)
  <2>1. Stored(var_map, clock, Entry(U)) /\ clock \in Nat
    BY DEF Typed
  <2>2. << >> \in Seq(Local(U))
    OBVIOUS
  <2>3. Functions(v) = Functions(var_map)
    BY <1>1, <2>1, <2>2, FunctionsKept
  <2> HIDE DEF v
  <2> QED
    BY <2>3, OverloadsKept
<1> HIDE DEF v, s
<1>5. /\ OpenScopes(v, h) = Nested!Left(OpenScopes(var_map, h + 1))
      /\ OpenStructures(s, h) = Nested!Left(OpenStructures(structure_map, h + 1))
  BY <1>3, ScopesGrow, StructuresGrow
<1>6. OpenScopes(var_map, g) # << >>
  <2>1. Len(OpenScopes(var_map, g)) = g
    BY OpenAre
  <2> QED
    BY <1>1, <2>1
<1>7. global_scope_level' = h
  BY <1>1, <1>2
<1> QED
  BY <1>1, <1>2, <1>4, <1>5, <1>6, <1>7, NoReplyIs DEF Nested!Leave

-----------------------------------------------------------------------------
(* What the abstract scopes are told is one of Types, Lists or Signatures. *)
LEMMA StructureTold ==
  ASSUME NEW U, NEW s \in SNames, NEW fields \in Seq(Member(U)), Len(fields) <= MaxList
  PROVE  Outline(CStructure(s, fields)) \in Types
<1> DEFINE names == [i \in DOMAIN fields |-> fields[i].name]
<1>1. Outline(CStructure(s, fields)) = CStructure(s, names)
  BY DEF Outline, OutlineOf, CStructure
<1>2. \A i \in 1 .. Len(fields) : fields[i].name \in Names
  <2> TAKE i \in 1 .. Len(fields)
  <2>1. fields[i] \in Member(U)
    OBVIOUS
  <2> QED
    BY <2>1 DEF Member
<1>3. DOMAIN fields = 1 .. Len(fields) /\ Len(fields) \in 0 .. MaxList
  BY BoundsAssumption
<1>4. names \in [1 .. Len(fields) -> Names]
  BY <1>2, <1>3
<1> HIDE DEF names
<1>5. names \in SeqOf(Names, MaxList)
  BY <1>3, <1>4 DEF SeqOf
<1> QED
  BY <1>1, <1>5 DEF Types

LEMMA SpecifierTold ==
  ASSUME NEW U, Closed(U), NEW t \in Specified(U)
  PROVE  /\ Outline(t) \in Types
         /\ Outline(CArray(t)) = CArray(Outline(t))
<1>1. t \in U /\ t.kind # "ARRAY" /\ (t.kind = "PRIMITIVE" => t.name \in Prims)
  BY DEF Specified, Scalars
<1>2. MadeOf(U, t)
  BY <1>1 DEF Closed
<1>3. Outline(t) = OutlineOf(t)
  BY <1>1 DEF Outline
<1>4. Outline(CArray(t)) = CArray(OutlineOf(t))
  BY DEF Outline, CArray
<1>5. Outline(t) \in Types
  <2>1. CASE t = EMPTY_TYPE
    BY <2>1, OutlineOfEmpty DEF Types
  <2>2. CASE t.kind = "PRIMITIVE" /\ t = CPrimitive(t.name)
    <3>1. OutlineOf(t) = t
      BY <2>2 DEF OutlineOf
    <3>2. t \in {CPrimitive(p) : p \in Prims}
      BY <1>1, <2>2
    <3> QED
      BY <1>3, <3>1, <3>2 DEF Types
  <2>3. CASE /\ t.kind = "STRUCTURE" /\ t = CStructure(t.name, t.fields)
             /\ t.name \in SNames /\ t.fields \in Seq(Member(U)) /\ Len(t.fields) <= MaxList
    <3>1. PICK s \in SNames, fields \in Seq(Member(U)) :
            t = CStructure(s, fields) /\ Len(fields) <= MaxList
      BY <2>3
    <3> QED
      BY <3>1, StructureTold
  <2> QED
    BY <1>1, <1>2, <2>1, <2>2, <2>3 DEF MadeOf
<1> QED
  BY <1>3, <1>4, <1>5

LEMMA ListTold ==
  ASSUME NEW U, Closed(U), NEW t \in Specified(U), NEW list \in Seq(Local(U)),
         Len(list) <= MaxList, \A i \in 1 .. Len(list) : list[i].type \in OfSpecifier(t)
  PROVE  Told(list) \in Lists
<1>1. PICK o \in Types : o = Outline(t)
  BY SpecifierTold
<1>2. \A i \in 1 .. Len(list) :
        [name |-> list[i].name, type |-> Outline(list[i].type)] \in Declarators(o)
  <2> TAKE i \in 1 .. Len(list)
  <2>1. list[i].name \in Names
    <3>1. list[i] \in Local(U)
      OBVIOUS
    <3> QED
      BY <3>1 DEF Local
  <2>2. list[i].type = t \/ ("array" \in Productions /\ list[i].type = CArray(t))
    BY DEF OfSpecifier
  <2>3. \/ Outline(list[i].type) = o
        \/ "array" \in Productions /\ Outline(list[i].type) = CArray(o)
    BY <1>1, <2>2, SpecifierTold
  <2> QED
    BY <2>1, <2>3 DEF Declarators
<1>3. DOMAIN list = 1 .. Len(list) /\ Len(list) \in 0 .. MaxList
  BY BoundsAssumption
<1>4. Told(list) \in [1 .. Len(list) -> Declarators(o)]
  BY <1>2, <1>3 DEF Told
<1>5. Told(list) \in SeqOf(Declarators(o), MaxList)
  BY <1>3, <1>4 DEF SeqOf
<1> QED
  BY <1>1, <1>5 DEF Lists

(***************************************************************************)
(* The end of a list of declarations, and the beginning of a function.     *)
(***************************************************************************)
LEMMA DeclareStep ==
  ASSUME NEW U, Typed(U), Shape, Pending, DecListEnd, asked' = <<"declare", Told(Top.list)>>
  PROVE  \E list \in Lists : Nested!Declare(list)
<1>0. PICK list \in Seq(Local(U)) : list = Top.list
  BY DeclaringEffect
<1>1. PICK g \in Nat : g = global_scope_level
  BY DEF Shape
<1>2. /\ g > 0 /\ Len(list) <= MaxList /\ AllAt(list, g)
      /\ Closed(U) /\ clock \in Nat /\ Stored(var_map, clock, Entry(U))
  BY <1>0, <1>1, DeclaringEffect DEF AllAt, Typed
<1>3. PICK k : k = UpdateVariable(var_map, list, clock)
  OBVIOUS
<1>4. /\ var_map' = k /\ UNCHANGED <<structure_map, global_scope_level>>
      /\ reply' = [NoReply EXCEPT !.codes = Redefinitions(var_map, list, clock)]
  BY <1>0, <1>3 DEF DecListEnd
<1>5. Told(list) \in Lists
  <2>1. Top.type \in Specified(U)
    BY DeclaringEffect DEF Frame, FrameOK
  <2>2. \A i \in 1 .. Len(list) : list[i].type \in OfSpecifier(Top.type)
    BY <1>0, DeclaringEffect
  <2> QED
    BY <1>2, <2>1, <2>2, ListTold
<1>6. AtLevel(k, g, Names) = Nested!Declares(AtLevel(var_map, g, Names), Told(list))
  BY <1>2, <1>3, LevelDeclares
<1>7. \A l \in 1 .. g - 1 : AtLevel(var_map, l, Names) = AtLevel(k, l, Names)
  <2> TAKE l \in 1 .. g - 1
  <2>1. l # g
    OBVIOUS
  <2>2. \A n \in Names : Here(var_map, l, n) = Here(k, l, n)
    <3> TAKE n \in Names
    <3>1. Adds(var_map, k, list, clock, g, n)
      BY <1>2, <1>3, HereInserted
    <3> QED
      BY <2>1, <3>1 DEF Adds
  <2> QED
    BY <2>2, SameLevel
<1>8. OpenScopes(k, g) = [OpenScopes(var_map, g) EXCEPT ![g] = AtLevel(k, g, Names)]
  BY <1>2, <1>7, ScopesChange
<1>9. Len(OpenScopes(var_map, g)) = g /\ OpenScopes(var_map, g)[g] = AtLevel(var_map, g, Names)
  BY <1>2, OpenAre
<1>10. OpenScopes(var_map, global_scope_level)' =
         [OpenScopes(var_map, global_scope_level) EXCEPT
            ![Len(OpenScopes(var_map, global_scope_level))] = Nested!Declares(@, Told(list))]
  BY <1>1, <1>4, <1>6, <1>8, <1>9
<1>11. [reply EXCEPT !.type = Outline(@)]' =
         Nested!Reply(Nested!Codes(3, Nested!Cardinality(
           Nested!Repeated(OpenScopes(var_map, global_scope_level)[g], Told(list)))), EMPTY_TYPE)
  <2>1. Redefinitions(var_map, list, clock) =
          Nested!Codes(3, Cardinality(Nested!Repeated(AtLevel(var_map, g, Names), Told(list))))
    BY <1>2, CodesAre
  <2>2. reply' = [codes |-> Redefinitions(var_map, list, clock), type |-> EMPTY_TYPE]
    BY <1>4 DEF NoReply
  <2> QED
    BY <1>1, <1>9, <2>1, <2>2, ReplyIs, OutlineOfEmpty, CardinalityIs
<1>12. UNCHANGED <<OpenStructures(structure_map, global_scope_level), [n \in Names |-> Overloads(var_map, n)]>>
  <2>1. Functions(k) = Functions(var_map)
    BY <1>2, <1>3, FunctionsKept
  <2>2. \A n : Overloads(k, n) = Overloads(var_map, n)
    BY <2>1, OverloadsKept
  <2> QED
    BY <1>4, <2>2
<1>13. Nested!Declare(Told(list))
  BY <1>0, <1>1, <1>2, <1>9, <1>10, <1>11, <1>12 DEF Nested!Declare
<1> QED
  BY <1>5, <1>13

LEMMA ParameterOutlines ==
  ASSUME NEW t, OfParameter(t)
  PROVE  Outline(t) = t
<1>1. \A u : Primitive(u) => u.kind = "PRIMITIVE"
  BY DEF Primitive, CPrimitive
<1>2. CASE Primitive(t)
  BY <1>1, <1>2 DEF Outline, OutlineOf
<1>3. CASE t.kind = "ARRAY" /\ t = CArray(t.base) /\ Primitive(t.base)
  <2>1. OutlineOf(t.base) = t.base
    BY <1>1, <1>3 DEF OutlineOf
  <2> QED
    BY <1>3, <2>1 DEF Outline, OutlineOf
<1> QED
  BY <1>2, <1>3 DEF OfParameter

LEMMA ParametersTold ==
  ASSUME NEW params \in ParamLists
  PROVE  Told(Parameters(params, 1)) = params /\ params \in Lists
<1> DEFINE T == {params[i].type : i \in DOMAIN params}
           R == [name : Names, type : T]
<1>1. params \in Seq(R) /\ \A i \in DOMAIN params : OfParameter(params[i].type)
  BY ParamListsAssumption, ParamsAre
<1> HIDE DEF T
<1>2. DOMAIN params = 1 .. Len(params) /\ params = [i \in 1 .. Len(params) |-> params[i]]
  BY <1>1
<1>3. \A i \in 1 .. Len(params) :
        /\ Outline(params[i].type) = params[i].type
        /\ params[i] = [name |-> params[i].name, type |-> params[i].type]
  <2> TAKE i \in 1 .. Len(params)
  <2>1. Outline(params[i].type) = params[i].type
    <3> HIDE DEF R
    <3>1. OfParameter(params[i].type)
      BY <1>1, <1>2
    <3> QED
      BY <3>1, ParameterOutlines
  <2>2. params[i] \in R
    <3> HIDE DEF R
    <3> QED
      BY <1>1
  <2> QED
    BY <2>1, <2>2
<1>4. Told(Parameters(params, 1)) =
        [i \in 1 .. Len(params) |-> [name |-> params[i].name, type |-> Outline(params[i].type)]]
  BY <1>2 DEF Told, Parameters, CVariable
<1>5. \A i \in 1 .. Len(params) :
        [name |-> params[i].name, type |-> Outline(params[i].type)] = params[i]
  BY <1>3
<1>6. Told(Parameters(params, 1)) = params
  BY <1>2, <1>4, <1>5
<1> QED
  BY <1>6 DEF Lists

LEMMA EnterStep ==
  ASSUME NEW U, Typed(U), Shape, Layers,
         NEW n \in Names, NEW params \in ParamLists, FunDec(n, params),
         asked' = <<"enter", params>>
  PROVE  params \in Lists /\ Nested!Enter(params)
<1>0. Closed(U) /\ clock \in Nat /\ Stored(var_map, clock, Entry(U))
  BY DEF Typed
<1>1. PICK list \in Seq(Local(U)) : list = Parameters(params, 1)
  BY <1>0, ParametersAre
<1>2. AllAt(list, 1)
  BY <1>0, <1>1, ParametersAre DEF AllAt
<1>3. PICK k : k = UpdateVariable(var_map, list, clock)
  OBVIOUS
<1>4. /\ global_scope_level = 0 /\ global_scope_level' = 1
      /\ var_map' = k /\ structure_map' = structure_map
      /\ reply' = [NoReply EXCEPT !.codes = Redefinitions(var_map, list, clock)]
  BY <1>1, <1>3, EnteringEffect
<1>5. Told(list) = params /\ params \in Lists
  BY <1>1, ParametersTold
<1>6. (\A e \in var_map : e.level # 1) /\ (\A e \in structure_map : e.level # 1)
  <2>1. (\A e \in var_map : e.level <= 0) /\ (\A e \in structure_map : e.level <= 0)
    BY <1>4 DEF Layers, Layered
  <2> QED
    BY <2>1
<1>7. /\ AtLevel(var_map, 1, Names) = Nested!Blank(Names)
      /\ AtLevel(structure_map, 1, SNames) = Nested!Blank(SNames)
  BY <1>6, EmptyLevel
<1>8. AtLevel(k, 1, Names) = Nested!Declares(Nested!Blank(Names), params)
  BY <1>0, <1>2, <1>3, <1>5, <1>7, LevelDeclares
<1>9. Redefinitions(var_map, list, clock) =
        Nested!Codes(3, Cardinality(Nested!Repeated(Nested!Blank(Names), params)))
  BY <1>0, <1>2, <1>5, <1>7, CodesAre
<1>10. /\ OpenScopes(k, 0 + 1) = Append(OpenScopes(var_map, 0), AtLevel(k, 0 + 1, Names))
       /\ OpenStructures(structure_map, 0 + 1) =
            Append(OpenStructures(structure_map, 0), AtLevel(structure_map, 0 + 1, SNames))
  <2>1. \A l \in 1 .. 0 : AtLevel(var_map, l, Names) = AtLevel(k, l, Names)
    OBVIOUS
  <2>2. 0 \in Nat
    OBVIOUS
  <2> QED
    BY <2>1, <2>2, ScopesGrow, StructuresGrow
<1>11. 0 + 1 = 1
  OBVIOUS
<1>12. OpenScopes(var_map, global_scope_level)'
         = Append(OpenScopes(var_map, global_scope_level), Nested!Declares(Nested!Blank(Names), params))
  BY <1>4, <1>8, <1>10, <1>11
<1>13. OpenStructures(structure_map, global_scope_level)'
         = Append(OpenStructures(structure_map, global_scope_level), Nested!Blank(SNames))
  BY <1>4, <1>7, <1>10, <1>11
<1>14. [reply EXCEPT !.type = Outline(@)]' =
         Nested!Reply(Nested!Codes(3, Nested!Cardinality(
           Nested!Repeated(Nested!Blank(Names), params))), EMPTY_TYPE)
  <2>1. reply' = [codes |-> Redefinitions(var_map, list, clock), type |-> EMPTY_TYPE]
    BY <1>4 DEF NoReply
  <2> QED
    BY <1>9, <2>1, ReplyIs, OutlineOfEmpty, CardinalityIs
<1>15. UNCHANGED [name \in Names |-> Overloads(var_map, name)]
  <2>1. Functions(k) = Functions(var_map)
    BY <1>0, <1>2, <1>3, FunctionsKept
  <2>2. \A name : Overloads(k, name) = Overloads(var_map, name)
    BY <2>1, OverloadsKept
  <2> QED
    BY <1>4, <2>2
<1> QED
  BY <1>5, <1>12, <1>13, <1>14, <1>15 DEF Nested!Enter

LEMMA EnterNothingStep ==
  ASSUME Layers, global_scope_level \in Nat,
         \/ \E s \in SNames : StructStart(s)
         \/ BlockStart
         \/ WhileStart,
         asked' = <<"enter", << >>>>
  PROVE  << >> \in Lists /\ Nested!Enter(<< >>)
<1>1. << >> \in Lists
  <2>1. EMPTY_TYPE \in Types
    BY DEF Types
  <2>2. << >> \in [1 .. 0 -> Declarators(EMPTY_TYPE)] /\ 0 \in 0 .. MaxList
    BY BoundsAssumption
  <2>3. << >> \in SeqOf(Declarators(EMPTY_TYPE), MaxList)
    BY <2>2 DEF SeqOf
  <2> QED
    BY <2>1, <2>3 DEF Lists
<1>2. reply' = NoReply
  BY DEF StructStart, BlockStart, WhileStart
<1> QED
  BY <1>1, <1>2, OpeningEffect, EnterNothing

-----------------------------------------------------------------------------
(* Lists of arguments: where nothing throws, only equal ones match. *)
LEMMA ArgsAre ==
  ASSUME NEW U, Closed(U), NEW params \in ArgLists
  PROVE  /\ params \in Seq(U)
         /\ \A i \in 1 .. Len(params) : OfParameter(params[i]) /\ params[i] \in ParamTypes
<1>1. PICK list \in ParamLists : params = [i \in DOMAIN list |-> list[i].type]
  BY DEF ArgLists
<1> DEFINE T == {list[i].type : i \in DOMAIN list}
           R == [name : Names, type : T]
<1>2. list \in Seq(R) /\ \A i \in DOMAIN list : OfParameter(list[i].type)
  BY ParamListsAssumption, ParamsAre
<1> HIDE DEF T, R
<1>3. DOMAIN list = 1 .. Len(list) /\ Len(list) \in Nat
  BY <1>2
<1>4. \A i \in DOMAIN list : list[i].type \in U /\ list[i].type \in ParamTypes
  BY DEF Closed, ParamTypes
<1>5. params \in [1 .. Len(list) -> U]
  BY <1>1, <1>3, <1>4
<1>6. params \in Seq(U) /\ Len(params) = Len(list)
  BY <1>3, <1>5
<1>7. \A i \in 1 .. Len(params) : params[i] = list[i].type
  BY <1>1, <1>3, <1>6
<1>8. \A i \in 1 .. Len(params) : OfParameter(params[i]) /\ params[i] \in ParamTypes
  <2> TAKE i \in 1 .. Len(params)
  <2>1. PICK t : t = list[i].type
    OBVIOUS
  <2>2. OfParameter(t) /\ t \in ParamTypes /\ params[i] = t
    BY <1>2, <1>3, <1>4, <1>6, <1>7, <2>1
  <2> QED
    BY <2>2
<1> QED
  BY <1>6, <1>8

Comparable(params, args) ==
  ~ ArgsThrow(params, args) \/ \A i \in DOMAIN args : args[i].kind # "ARRAY"

LEMMA ParameterMatch ==
  ASSUME NEW U, Closed(U), NEW p, OfParameter(p), NEW t \in U
  PROVE  /\ check_type(p, t) => p = t
         /\ p.kind # "ARRAY" => check_type(p, p)
         /\ p.kind = "ARRAY" => Throws(p, t)
<1>1. \A u : CPrimitive(u).kind = "PRIMITIVE" /\ CPrimitive(u).name = u
  BY DEF CPrimitive
<1>2. t.kind = "PRIMITIVE" => t = CPrimitive(t.name)
  BY DEF Closed, MadeOf, EMPTY_TYPE
<1>3. p.kind = "ARRAY" \/ (p = CPrimitive(p.name) /\ p.kind = "PRIMITIVE")
  BY <1>1 DEF OfParameter, Primitive
<1> QED
  BY <1>2, <1>3 DEF check_type, Throws

LEMMA MatchIs ==
  ASSUME NEW U, Closed(U), NEW params \in ArgLists, NEW args \in Seq(U), Comparable(params, args)
  PROVE  CheckArgs(params, args) <=> params = args
<1>1. /\ params \in Seq(U) /\ DOMAIN args = 1 .. Len(args) /\ Len(args) \in Nat
      /\ \A i \in 1 .. Len(params) : OfParameter(params[i])
  BY ArgsAre
<1>2. \A i \in 1 .. Len(args) : args[i] \in U
  OBVIOUS
<1>3. (Len(params) = Len(args) /\ \A i \in 1 .. Len(args) : params[i] = args[i]) <=> params = args
  BY <1>1, SeqEqual
<1>4. CheckArgs(params, args) => params = args
  <2>1. \A i \in 1 .. Len(params) : check_type(params[i], args[i]) /\ i \in 1 .. Len(args) => params[i] = args[i]
    BY <1>1, <1>2, ParameterMatch
  <2> QED
    BY <1>1, <1>3, <2>1 DEF CheckArgs
<1>5. ASSUME params = args PROVE CheckArgs(params, args)
  <2> DEFINE A == {i \in 1 .. Len(args) : args[i].kind = "ARRAY"}
  <2>1. \A i \in 1 .. Len(args) : /\ i \notin A => check_type(args[i], args[i])
                                  /\ i \in A => Throws(args[i], args[i])
    BY <1>1, <1>2, <1>5, ParameterMatch
  <2>2. A = {}
    <3> SUFFICES ASSUME A # {} PROVE FALSE
      OBVIOUS
    <3>1. ~ ArgsThrow(args, args)
      BY <1>1, <1>5 DEF Comparable
    <3>2. PICK i \in A : \A j \in A : i <= j
      <4>1. A \in SUBSET Nat
        OBVIOUS
      <4> HIDE DEF A
      <4> QED
        BY <4>1, SmallestIs
    <3>3. i \in 1 .. Len(args) /\ \A j \in 1 .. i - 1 : j \in 1 .. Len(args) /\ j \notin A
      BY <1>1, <3>2
    <3>4. Throws(args[i], args[i]) /\ \A j \in 1 .. i - 1 : check_type(args[j], args[j])
      BY <2>1, <3>2, <3>3
    <3> QED
      BY <1>1, <3>1, <3>3, <3>4 DEF ArgsThrow
  <2> QED
    BY <1>1, <1>5, <2>1, <2>2 DEF CheckArgs
<1> QED
  BY <1>4, <1>5

(* The overloads of a name are the functions of that name, by age. *)
Signature(e) == [args |-> e.args, type |-> Outline(e.type)]

LEMMA OverloadsAre ==
  ASSUME NEW m, NEW n, Aged(Named(Functions(m), n)), NEW s, ByAge(s, Named(Functions(m), n))
  PROVE  /\ Overloads(m, n) = [i \in 1 .. Len(s) |-> Signature(s[i])]
         /\ DOMAIN Overloads(m, n) = 1 .. Len(s) /\ Len(Overloads(m, n)) = Len(s)
         /\ \A i \in 1 .. Len(s) : /\ Overloads(m, n)[i].args = s[i].args
                                   /\ Overloads(m, n)[i].type = Outline(s[i].type)
<1>1. EqualRange(Functions(m), n) = s
  BY EqualRangeOnly
<1>2. DOMAIN s = 1 .. Len(s) /\ Len(s) \in Nat
  BY DEF ByAge
<1>3. Overloads(m, n) = [i \in 1 .. Len(s) |-> Signature(s[i])]
  BY <1>1, <1>2 DEF Overloads, Signature
<1> QED
  BY <1>2, <1>3 DEF Signature

LEMMA Registered ==
  ASSUME NEW U, NEW m, NEW c \in Nat, Stored(m, c, Entry(U)), NEW fun \in Function(U), NEW n
  PROVE  Overloads(UpdateVariable(m, <<fun>>, c), n) =
           IF n = fun.name THEN Append(Overloads(m, n), Signature(fun)) ELSE Overloads(m, n)
<1> DEFINE new == [fun EXCEPT !.seq = c + 1]
           S == Named(Functions(m), n)
<1>1. PICK k : k = UpdateVariable(m, <<fun>>, c)
  OBVIOUS
<1>2. k = m \union {new}
  <2>1. Inserted(<<fun>>, 1, c) = {new}
    BY DEF Inserted
  <2> HIDE DEF new
  <2>2. Len(<<fun>>) = 1
    OBVIOUS
  <2> QED
    BY <1>1, <2>1, <2>2 DEF UpdateVariable
<1>3. /\ new.func /\ new.name = fun.name /\ new.args = fun.args /\ new.type = fun.type
      /\ new.seq = c + 1
  BY DEF Function
<1> HIDE DEF new
<1>4. Functions(k) = Functions(m) \union {new}
  BY <1>2, <1>3 DEF Functions
<1>5. S \in SUBSET m
  BY DEF Functions, Named
<1>6. Aged(S) /\ \A e \in S : e.seq \in 1 .. c
  BY <1>5, StoredAged, SomeAged DEF Stored
<1>7. PICK s : s = EqualRange(Functions(m), n)
  OBVIOUS
<1>8. ByAge(s, S)
  <2>1. Functions(m) \in SUBSET m
    BY DEF Functions
  <2>2. Aged(Functions(m))
    BY <2>1, StoredAged, SomeAged
  <2> QED
    BY <1>7, <2>2, EqualRangeIs
<1>9. CASE n # fun.name
  <2>1. Named(Functions(k), n) = S
    BY <1>3, <1>4, <1>9 DEF Named
  <2> HIDE DEF S
  <2>2. /\ Overloads(k, n) = [i \in 1 .. Len(s) |-> Signature(s[i])]
        /\ Overloads(m, n) = [i \in 1 .. Len(s) |-> Signature(s[i])]
    BY <1>6, <1>8, <2>1, OverloadsAre DEF S
  <2> QED
    BY <1>1, <1>9, <2>2
<1>10. CASE n = fun.name
  <2> DEFINE T == S \union {new}
             t == Append(s, new)
  <2>1. Named(Functions(k), n) = T
    BY <1>3, <1>4, <1>10 DEF Named
  <2> HIDE DEF S
  <2>2. s \in Seq(S) /\ Len(s) \in Nat
    BY <1>8 DEF ByAge
  <2>3. /\ t \in Seq(T) /\ Len(t) = Len(s) + 1 /\ t[Len(s) + 1] = new
        /\ \A i \in 1 .. Len(s) : t[i] = s[i]
    BY <2>2, SeqMonotonic
  <2>4. Aged(T)
    <3>1. IsFiniteSet(T)
      BY <1>6, FS_AddElement DEF Aged
    <3>2. \A e \in S : e.seq # new.seq /\ e.seq \in Nat
      <4> TAKE e \in S
      <4>1. e.seq \in 1 .. c
        BY <1>6
      <4> QED
        BY <1>3, <4>1
    <3>3. new.seq \in Nat
      BY <1>3
    <3> QED
      BY <1>6, <3>1, <3>2, <3>3 DEF Aged
  <2>5. ByAge(t, T)
    <3>1. \A i, j \in 1 .. Len(t) : i < j => t[i].seq < t[j].seq
      <4> TAKE i, j \in 1 .. Len(t)
      <4> HAVE i < j
      <4>1. i \in 1 .. Len(s) /\ (j \in 1 .. Len(s) \/ j = Len(s) + 1)
        BY <2>2, <2>3
      <4>2. CASE j \in 1 .. Len(s)
        BY <1>8, <2>3, <4>1, <4>2 DEF ByAge
      <4>3. CASE j = Len(s) + 1
        <5>1. s[i] \in S
          BY <2>2, <4>1
        <5>2. s[i].seq \in 1 .. c
          BY <1>6, <5>1
        <5>3. t[i].seq = s[i].seq /\ t[j].seq = c + 1
          BY <1>3, <2>3, <4>1, <4>3
        <5> QED
          BY <5>2, <5>3
      <4> QED
        BY <4>1, <4>2, <4>3
    <3>2. \A e \in T : \E i \in 1 .. Len(t) : t[i] = e
      <4> TAKE e \in T
      <4>1. CASE e \in S
        <5>1. PICK i \in 1 .. Len(s) : s[i] = e
          BY <1>8, <4>1 DEF ByAge
        <5>2. i \in 1 .. Len(t) /\ t[i] = e
          BY <2>2, <2>3, <5>1
        <5> QED
          BY <5>2
      <4>2. CASE e = new
        <5>1. Len(s) + 1 \in 1 .. Len(t)
          BY <2>2, <2>3
        <5> QED
          BY <2>3, <4>2, <5>1
      <4> QED
        BY <4>1, <4>2
    <3> HIDE DEF t, T
    <3> QED
      BY <2>3, <3>1, <3>2 DEF ByAge
  <2> HIDE DEF t, T
  <2>6. Overloads(k, n) = [i \in 1 .. Len(t) |-> Signature(t[i])]
    BY <2>1, <2>4, <2>5, OverloadsAre
  <2>7. Overloads(m, n) = [i \in 1 .. Len(s) |-> Signature(s[i])]
    BY <1>6, <1>8, OverloadsAre DEF S
  <2>8. Signature(new) = Signature(fun)
    BY <1>3 DEF Signature
  <2>9. Append(Overloads(m, n), Signature(fun)) = [i \in 1 .. Len(s) + 1 |-> Signature(t[i])]
    <3> DEFINE o == [i \in 1 .. Len(s) |-> Signature(s[i])]
               B == {Signature(s[i]) : i \in 1 .. Len(s)} \union {Signature(fun)}
    <3>0. PICK d \in Nat : d = Len(s)
      BY <2>2
    <3>1. PICK x \in B : x = Signature(fun)
      OBVIOUS
    <3>2. o \in Seq(B) /\ Len(o) = d /\ \A i \in 1 .. d : o[i] = Signature(t[i])
      BY <2>2, <2>3, <3>0
    <3> HIDE DEF o, B
    <3>3. /\ Append(o, x) \in Seq(B) /\ Len(Append(o, x)) = d + 1
          /\ Append(o, x)[d + 1] = x /\ \A i \in 1 .. d : Append(o, x)[i] = o[i]
      BY <3>2
    <3>4. \A i \in 1 .. d + 1 : Append(o, x)[i] = Signature(t[i])
      <4> TAKE i \in 1 .. d + 1
      <4>1. i = d + 1 \/ i \in 1 .. d
        OBVIOUS
      <4> QED
        BY <2>3, <2>8, <3>0, <3>1, <3>2, <3>3, <4>1
    <3>5. \A b \in Seq(B) : Len(b) = d + 1 => b = [i \in 1 .. d + 1 |-> b[i]]
      OBVIOUS
    <3>6. Append(o, x) = [i \in 1 .. d + 1 |-> Append(o, x)[i]]
      BY <3>3, <3>5
    <3> QED
      BY <2>7, <3>0, <3>1, <3>4, <3>6 DEF o
  <2> QED
    BY <1>1, <1>10, <2>3, <2>6, <2>9
<1> QED
  BY <1>9, <1>10

(* A function collides with a function that has the same parameters. *)
LEMMA FunctionCodes ==
  ASSUME NEW U, Closed(U), NEW m, NEW c \in Nat, Stored(m, c, Entry(U)), NEW fun \in Function(U),
         ~ GetLocalVariableThrows(m, fun)
  PROVE  Redefinitions(m, <<fun>>, c) =
           IF \E i \in DOMAIN Overloads(m, fun.name) : Overloads(m, fun.name)[i].args = fun.args
           THEN <<4>> ELSE << >>
<1> DEFINE C == Collisions(m, fun)
           S == Named(Functions(m), fun.name)
           s == EqualRange(Functions(m), fun.name)
           same == \E i \in DOMAIN Overloads(m, fun.name) : Overloads(m, fun.name)[i].args = fun.args
<1>1. Aged(m) /\ Aged(Functions(m)) /\ Aged(S) /\ ByAge(s, S)
  <2>1. Aged(m) /\ Functions(m) \in SUBSET m
    BY StoredAged DEF Functions
  <2>2. Aged(Functions(m))
    BY <2>1, SomeAged
  <2> QED
    BY <2>1, <2>2, NamedAged, EqualRangeIs
<1>2. C = {e \in S : e.args = fun.args}
  <2>1. fun.level = 0 /\ fun.args \in ArgLists /\ fun.name \in Names
    BY DEF Function
  <2>2. \A e \in m : /\ e.level = 0 <=> e.func
                     /\ e.func => e.args \in ArgLists
    BY EntriesAre DEF Stored
  <2>3. \A e \in m : e.func /\ e.name = fun.name => (CheckArgs(e.args, fun.args) <=> e.args = fun.args)
    <3>1. fun.args \in Seq(U)
      BY <2>1, ArgsAre
    <3>2. ASSUME NEW e \in m, e.func, e.name = fun.name PROVE Comparable(e.args, fun.args)
      <4> SUFFICES ASSUME ArgsThrow(e.args, fun.args), NEW i \in DOMAIN fun.args, fun.args[i].kind = "ARRAY"
                   PROVE  FALSE
        BY DEF Comparable
      <4>1. \A p : ~ check_type(p, fun.args[i])
        BY DEF check_type
      <4>2. \A f \in m : ~ CheckArgs(f.args, fun.args)
        BY <4>1 DEF CheckArgs
      <4>3. C = {}
        BY <4>2 DEF Collisions, Named
      <4>4. e \in Named(m, fun.name) /\ e.level = fun.level
        BY <2>1, <2>2, <3>2 DEF Named
      <4> QED
        BY <4>3, <4>4 DEF GetLocalVariableThrows
    <3> QED
      BY <2>2, <3>1, <3>2, MatchIs
  <2> QED
    BY <2>1, <2>2, <2>3 DEF Collisions, Named, Functions
<1> HIDE DEF C, S, s
<1>3. same <=> C # {}
  <2>0. PICK o : o = Overloads(m, fun.name)
    OBVIOUS
  <2>1. DOMAIN o = 1 .. Len(s) /\ \A i \in 1 .. Len(s) : o[i].args = s[i].args
    BY <1>1, <2>0, OverloadsAre DEF S
  <2>2. s \in Seq(S) /\ \A e \in S : \E i \in 1 .. Len(s) : s[i] = e
    BY <1>1 DEF ByAge
  <2>3. \A i \in 1 .. Len(s) : s[i] \in S
    BY <2>2
  <2>4. (\E i \in 1 .. Len(s) : s[i].args = fun.args) <=> C # {}
    BY <1>2, <2>2, <2>3
  <2>5. (\E i \in DOMAIN o : o[i].args = fun.args) <=> \E i \in 1 .. Len(s) : s[i].args = fun.args
    BY <2>1
  <2> QED
    BY <2>0, <2>4, <2>5
<1>4. CodeOf(m, <<fun>>, c, 1) = IF C = {} THEN OK ELSE FUNCTION_REDEFINED
  <2>1. Inserted(<<fun>>, 1 - 1, c) = {}
    BY DEF Inserted
  <2>2. m \union {} = m /\ <<fun>>[1] = fun
    OBVIOUS
  <2>3. CodeOf(m, <<fun>>, c, 1) = GetLocalVariable(m, fun)
    BY <2>1, <2>2 DEF CodeOf
  <2>4. C # {} => First(C).func
    <3>1. C \in SUBSET S
      BY <1>2
    <3>2. Aged(C)
      BY <1>1, <3>1, SomeAged
    <3>3. C # {} => First(C) \in S
      BY <3>1, <3>2, FirstIs
    <3> QED
      BY <3>3 DEF S, Named, Functions
  <2> QED
    BY <2>3, <2>4 DEF GetLocalVariable, C
<1> DEFINE R == Colliding(m, <<fun>>, c)
           codes == Redefinitions(m, <<fun>>, c)
<1>5. PICK list : list = <<fun>>
  OBVIOUS
<1>6. PICK T : list \in Seq(T) /\ Len(list) = 1
  <2>1. list \in Seq({fun}) /\ Len(list) = 1
    BY <1>5
  <2> QED
    BY <2>1
<1>7. /\ codes \in Seq({VARIABLE_REDEFINED, FUNCTION_REDEFINED}) /\ Len(codes) = Cardinality(R)
      /\ \A k \in 1 .. Cardinality(R) : \E i \in R : codes[k] = CodeOf(m, <<fun>>, c, i)
  <2>1. /\ Redefinitions(m, list, c) \in Seq({VARIABLE_REDEFINED, FUNCTION_REDEFINED})
        /\ Len(Redefinitions(m, list, c)) = Cardinality(Colliding(m, list, c))
        /\ \A k \in 1 .. Cardinality(Colliding(m, list, c)) :
             \E i \in Colliding(m, list, c) : Redefinitions(m, list, c)[k] = CodeOf(m, list, c, i)
    BY <1>6, RedefinitionsAre
  <2> QED
    BY <1>5, <2>1
<1>8. R = IF C = {} THEN {} ELSE {1}
  <2>1. \A i : i \in 1 .. 1 <=> i = 1
    OBVIOUS
  <2>2. \A i : i \in R <=> i = 1 /\ CodeOf(m, <<fun>>, c, i) # OK
    BY <1>5, <1>6, <2>1 DEF Colliding
  <2> HIDE DEF R
  <2> QED
    BY <1>4, <2>2 DEF OK, FUNCTION_REDEFINED
<1> HIDE DEF R, codes
<1>9. CASE C = {}
  <2>1. Len(codes) = 0
    BY <1>7, <1>8, <1>9, FS_EmptySet
  <2>2. codes = << >>
    BY <1>7, <2>1
  <2> QED
    BY <1>3, <1>9, <2>2 DEF codes
<1>10. CASE C # {}
  <2>1. Cardinality(R) = 1
    BY <1>8, <1>10, FS_Singleton
  <2>2. codes[1] = 4
    <3>1. 1 \in 1 .. Cardinality(R)
      BY <2>1
    <3>2. PICK i \in R : codes[1] = CodeOf(m, <<fun>>, c, i)
      BY <1>7, <3>1
    <3>3. i = 1
      BY <1>8, <1>10
    <3> QED
      BY <1>4, <1>10, <3>2, <3>3 DEF FUNCTION_REDEFINED
  <2>3. codes = <<4>>
    <3>1. codes \in Seq({VARIABLE_REDEFINED, FUNCTION_REDEFINED}) /\ Len(codes) = 1
      BY <1>7, <2>1
    <3>2. \A b \in Seq({VARIABLE_REDEFINED, FUNCTION_REDEFINED}) : Len(b) = 1 => b = <<b[1]>>
      OBVIOUS
    <3> QED
      BY <2>2, <3>1, <3>2
  <2> QED
    BY <1>3, <1>10, <2>3 DEF codes
<1> QED
  BY <1>9, <1>10

LEMMA LeaveFunctionStep ==
  ASSUME Exact, NEW U, Typed(U), Shape, FunEnd,
         asked' = FunctionLeft
  PROVE  \E n \in Names, args \in Signatures, type \in Types : Nested!LeaveFunction(n, args, type)
<1>0. Closed(U) /\ clock \in Nat /\ Stored(var_map, clock, Entry(U))
  BY DEF Typed
<1>1. PICK fun \in Function(U) : fun = Declared(0)
  BY RegisteringEffect
<1>2. /\ fun.name \in Names /\ fun.args \in ArgLists /\ fun.args \in Signatures
      /\ Outline(fun.type) \in Types
  <2>1. fun.name \in Names /\ fun.args \in ArgLists
    BY DEF Function
  <2>2. fun.args \in Signatures
    BY <2>1 DEF ArgLists, Signatures
  <2>3. fun.type = Top.type
    BY <1>1 DEF Declared, CVariable
  <2>4. Top.type \in Specified(U)
    BY RegisteringEffect DEF Frame, FrameOK
  <2> QED
    BY <1>0, <2>1, <2>2, <2>3, <2>4, SpecifierTold
<1>3. PICK v : v = Erased(var_map, 1)
  OBVIOUS
<1>4. PICK k : k = UpdateVariable(v, <<fun>>, clock)
  OBVIOUS
<1>5. PICK s : s = Erased(structure_map, 1)
  OBVIOUS
<1>6. /\ global_scope_level = 1 /\ global_scope_level' = 0
      /\ var_map' = k /\ structure_map' = s
      /\ reply' = [NoReply EXCEPT !.codes = Redefinitions(v, <<fun>>, clock)]
  BY <1>1, <1>3, <1>4, <1>5, RegisteringEffect
<1>7. Stored(v, clock, Entry(U))
  BY <1>0, <1>3, FS_Subset DEF Stored, Erased
<1>8. \A n : Overloads(v, n) = Overloads(var_map, n)
  <2>1. << >> \in Seq(Local(U)) /\ 1 \in Nat /\ 1 > 0
    OBVIOUS
  <2>2. Functions(v) = Functions(var_map)
    BY <1>0, <1>3, <2>1, FunctionsKept
  <2> QED
    BY <2>2, OverloadsKept
<1>9. \A n : Overloads(k, n) = IF n = fun.name THEN Append(Overloads(var_map, n), Signature(fun))
                               ELSE Overloads(var_map, n)
  BY <1>0, <1>4, <1>7, <1>8, Registered
<1>10. OpenScopes(var_map, global_scope_level)' = << >> /\ Len(OpenScopes(var_map, global_scope_level)) = 1
  <2>1. OpenScopes(k, 0) = << >>
    BY DEF OpenScopes
  <2>2. 1 \in Nat
    OBVIOUS
  <2> QED
    BY <1>6, <2>1, <2>2, OpenAre
<1>11. OpenStructures(structure_map, global_scope_level)' = Nested!Left(OpenStructures(structure_map, global_scope_level))
  <2>1. \A l \in 0 .. 0 : AtLevel(s, l, SNames) = AtLevel(structure_map, l, SNames)
    <3>1. \A l \in 0 .. 0 : l # 1
      OBVIOUS
    <3> QED
      BY <1>5, <3>1, ErasedLevel
  <2>2. 0 \in Nat
    OBVIOUS
  <2>3. OpenStructures(s, 0) = Nested!Left(OpenStructures(structure_map, 0 + 1))
    BY <2>1, <2>2, StructuresGrow
  <2>4. 0 + 1 = 1
    OBVIOUS
  <2> QED
    BY <1>6, <2>3, <2>4
<1>12. PICK n \in Names : n = fun.name
  BY <1>2
<1> DEFINE F == [name \in Names |-> Overloads(var_map, name)]
<1>13. F' = [F EXCEPT ![n] = Append(@, [args |-> fun.args, type |-> Outline(fun.type)])]
  <2>1. F' = [name \in Names |-> Overloads(k, name)]
    BY <1>6
  <2>2. \A name \in Names : Overloads(k, name) =
          IF name = n THEN Append(Overloads(var_map, name), [args |-> fun.args, type |-> Outline(fun.type)])
          ELSE Overloads(var_map, name)
    BY <1>9, <1>12 DEF Signature
  <2> QED
    BY <2>1, <2>2
<1>14. [reply EXCEPT !.type = Outline(@)]' =
         Nested!Reply(IF \E i \in DOMAIN F[n] : F[n][i].args = fun.args THEN <<4>> ELSE << >>, EMPTY_TYPE)
  <2>1. Redefinitions(v, <<fun>>, clock) =
          IF \E i \in DOMAIN Overloads(v, fun.name) : Overloads(v, fun.name)[i].args = fun.args
          THEN <<4>> ELSE << >>
    <3>1. ~ GetLocalVariableThrows(v, fun)
      BY <1>1, <1>3, RegisteringEffect
    <3> QED
      BY <1>0, <1>7, <3>1, FunctionCodes
  <2>2. F[n] = Overloads(v, fun.name)
    BY <1>8, <1>12
  <2>3. reply' = [codes |-> Redefinitions(v, <<fun>>, clock), type |-> EMPTY_TYPE]
    BY <1>6 DEF NoReply
  <2>4. reply' = [codes |-> IF \E i \in DOMAIN F[n] : F[n][i].args = fun.args THEN <<4>> ELSE << >>,
                  type |-> EMPTY_TYPE]
    BY <2>1, <2>2, <2>3
  <2> HIDE DEF F
  <2> QED
    BY <2>4, ReplyIs, OutlineOfEmpty
<1>15. asked' = <<"leave function", n, fun.args, Outline(fun.type)>>
  <2>1. fun.name = Top.name /\ fun.args = Declared(0).args /\ fun.type = Top.type
    BY <1>1 DEF Declared, CVariable
  <2>2. asked' = <<"leave function", fun.name, fun.args, Outline(fun.type)>>
    BY <2>1, Zenon DEF FunctionLeft
  <2> QED
    BY <1>12, <2>2
<1>16. Nested!LeaveFunction(n, fun.args, Outline(fun.type))
  BY <1>10, <1>11, <1>13, <1>14, <1>15 DEF Nested!LeaveFunction
<1> QED
  BY <1>2, <1>12, <1>16

(* The structure of a name that is declared at a level already stays. *)
LEMMA LeaveStructureStep ==
  ASSUME Exact, NEW U, Typed(U), Shape, StructEnd,
         asked' = StructureLeft
  PROVE  \E s \in SNames, type \in Types : Nested!LeaveStructure(s, type)
<1> DEFINE type == CStructure(Top.name, Top.list)
<1>0. /\ Closed(U) /\ clock \in Nat
      /\ Stored(var_map, clock, Entry(U)) /\ Stored(structure_map, clock, Structure(U))
  BY DEF Typed
<1>1. Top \in Frame(U) /\ Top.kind = "struct"
  BY DefiningEffect
<1>2. PICK s \in SNames : s = Top.name
  BY <1>1 DEF Frame, FrameOK
<1>3. Outline(type) \in Types
  <2>1. Top.list \in Seq(Member(U)) /\ Len(Top.list) <= MaxList
    BY <1>1 DEF Frame, FrameOK
  <2> QED
    BY <1>2, <2>1, StructureTold
<1>4. global_scope_level > 0 /\ global_scope_level \in Nat
  <2>1. Defines
    BY DefiningEffect
  <2> QED
    BY <2>1 DEF Defines, Shape
<1>5. PICK g \in Nat : global_scope_level = g + 1
  BY <1>4
<1>6. PICK v : v = Erased(var_map, g + 1)
  OBVIOUS
<1>7. PICK r : r = Erased(structure_map, g + 1)
  OBVIOUS
<1>8. PICK e : e = [name |-> s, type |-> type, level |-> g, seq |-> clock + 1]
  OBVIOUS
<1>9. PICK k : k = r \union {e}
  OBVIOUS
<1>10. /\ global_scope_level' = g /\ var_map' = v /\ structure_map' = k
       /\ reply' = Report(GetLocalStructure(r, s, g))
  <2>1. global_scope_level' = global_scope_level - 1 /\ var_map' = Erased(var_map, global_scope_level)
    <3>1. Defines
      BY DefiningEffect
    <3> QED
      BY <3>1 DEF Defines
  <2>2. global_scope_level - 1 = g
    BY <1>5
  <2> QED
    BY <1>2, <1>5, <1>6, <1>7, <1>8, <1>9, <2>1, <2>2, DefiningEffect
<1>11. /\ Stored(r, clock, Structure(U)) /\ Aged(r) /\ Aged(structure_map)
       /\ \A f \in structure_map : f.type \in U /\ f.seq \in 1 .. clock
       /\ r \in SUBSET structure_map
  <2>1. r \in SUBSET structure_map
    BY <1>7 DEF Erased
  <2>2. Stored(r, clock, Structure(U))
    BY <1>0, <2>1, FS_Subset DEF Stored
  <2>3. \A f \in structure_map : f.type \in U /\ f.seq \in 1 .. clock
    BY <1>0 DEF Stored, Structure
  <2> QED
    BY <1>0, <2>1, <2>2, <2>3, StoredAged
<1>12. OpenScopes(v, g) = Nested!Left(OpenScopes(var_map, g + 1)) /\ Len(OpenScopes(var_map, g + 1)) = g + 1
  <2>1. \A l \in 1 .. g : AtLevel(v, l, Names) = AtLevel(var_map, l, Names)
    <3>1. \A l \in 1 .. g : l # g + 1
      OBVIOUS
    <3> QED
      BY <1>6, <3>1, ErasedLevel
  <2>2. OpenScopes(v, g) = Nested!Left(OpenScopes(var_map, g + 1))
    BY <2>1, ScopesGrow
  <2>3. g + 1 \in Nat
    OBVIOUS
  <2> QED
    BY <2>2, <2>3, OpenAre
<1>13. \A n : Overloads(v, n) = Overloads(var_map, n)
  <2>1. << >> \in Seq(Local(U)) /\ g + 1 \in Nat /\ g + 1 > 0
    OBVIOUS
  <2>2. PICK h \in Nat : h = g + 1 /\ h > 0
    BY <2>1
  <2>3. Functions(v) = Functions(var_map)
    BY <1>0, <1>6, <2>1, <2>2, FunctionsKept
  <2> QED
    BY <2>3, OverloadsKept
<1>14. /\ OpenStructures(r, g) = Nested!Left(OpenStructures(structure_map, g + 1))
       /\ OpenStructures(structure_map, g + 1)[g + 1] = AtLevel(r, g, SNames)
  <2>1. \A l \in 0 .. g : AtLevel(r, l, SNames) = AtLevel(structure_map, l, SNames)
    <3>1. \A l \in 0 .. g : l # g + 1
      OBVIOUS
    <3> QED
      BY <1>7, <3>1, ErasedLevel
  <2>2. OpenStructures(r, g) = Nested!Left(OpenStructures(structure_map, g + 1))
    BY <2>1, StructuresGrow
  <2>3. g + 1 \in Nat /\ g + 1 \in 1 .. (g + 1) + 1 /\ (g + 1) - 1 = g /\ g \in 0 .. g
    OBVIOUS
  <2>4. OpenStructures(structure_map, g + 1)[g + 1] = AtLevel(structure_map, g, SNames)
    BY <2>3 DEF OpenStructures
  <2> QED
    BY <2>1, <2>2, <2>3, <2>4
<1>15. \A n \in SNames : \A l : n # s \/ l # g => Here(k, l, n) = Here(r, l, n)
  BY <1>8, <1>9 DEF Here
<1>16. AtLevel(k, g, SNames)[s] =
         IF AtLevel(r, g, SNames)[s] = Undeclared THEN Outline(type) ELSE AtLevel(r, g, SNames)[s]
  <2>1. Here(k, g, s) = Here(r, g, s) \union {e}
    BY <1>8, <1>9 DEF Here
  <2>2. Here(r, g, s) \in SUBSET r
    BY DEF Here
  <2>3. /\ AtLevel(r, g, SNames)[s] = Undeclared <=> Here(r, g, s) = {}
        /\ Here(r, g, s) # {} => /\ First(Here(r, g, s)) \in Here(r, g, s)
                                 /\ AtLevel(r, g, SNames)[s] = Outline(First(Here(r, g, s)).type)
    BY <1>0, <1>2, <1>11, DeclaredAt
  <2>4. AtLevel(k, g, SNames)[s] = Outline(First(Here(k, g, s)).type)
    BY <2>1, AtLevelIs
  <2>5. e.seq = clock + 1 /\ e.type = type
    BY <1>8
  <2>6. \A f \in Here(r, g, s) : f.seq \in Nat /\ f.seq < e.seq
    <3> TAKE f \in Here(r, g, s)
    <3>1. f.seq \in 1 .. clock
      BY <1>11, <2>2
    <3> QED
      BY <1>0, <2>5, <3>1
  <2>7. Aged(Here(k, g, s))
    <3>1. Aged(Here(r, g, s))
      BY <1>11, <2>2, SomeAged
    <3>2. e.seq \in Nat
      BY <1>0, <2>5
    <3> QED
      BY <2>1, <2>6, <3>1, <3>2, FS_AddElement DEF Aged
  <2>8. CASE Here(r, g, s) = {}
    <3>1. First(Here(k, g, s)) = e
      BY <2>1, <2>7, <2>8, FirstIs
    <3> QED
      BY <2>3, <2>4, <2>5, <2>8, <3>1
  <2>9. CASE Here(r, g, s) # {}
    <3>1. PICK f \in Here(r, g, s) : f = First(Here(r, g, s))
      BY <2>3, <2>9
    <3>2. \A x \in Here(r, g, s) : f.seq <= x.seq
      <4>1. Aged(Here(r, g, s))
        BY <1>11, <2>2, SomeAged
      <4> QED
        BY <2>9, <3>1, <4>1, FirstIs
    <3>3. \A x \in Here(k, g, s) : f.seq <= x.seq
      <4> TAKE x \in Here(k, g, s)
      <4>1. f.seq \in Nat /\ f.seq < e.seq /\ e.seq \in Nat
        BY <1>0, <2>5, <2>6
      <4> QED
        BY <2>1, <3>2, <4>1
    <3>4. f \in Here(k, g, s)
      BY <2>1
    <3>5. First(Here(k, g, s)) = f
      BY <2>7, <3>3, <3>4, FirstOnly
    <3> QED
      BY <2>3, <2>4, <2>9, <3>1, <3>5
  <2> QED
    BY <2>8, <2>9
<1>17. OpenStructures(k, g) = [OpenStructures(r, g) EXCEPT ![g + 1] = AtLevel(k, g, SNames)]
  <2>1. \A l \in 1 .. g + 1 : l = g + 1 \/ AtLevel(k, l - 1, SNames) = AtLevel(r, l - 1, SNames)
    <3> TAKE l \in 1 .. g + 1
    <3>1. l = g + 1 \/ l - 1 # g
      OBVIOUS
    <3>2. l - 1 # g => \A n \in SNames : Here(r, l - 1, n) = Here(k, l - 1, n)
      BY <1>15
    <3> QED
      BY <3>1, <3>2, SameLevel
  <2>2. (g + 1) - 1 = g
    OBVIOUS
  <2> QED
    BY <2>1, <2>2 DEF OpenStructures
<1>18. AtLevel(k, g, SNames) =
         [AtLevel(r, g, SNames) EXCEPT ![s] = IF @ = Undeclared THEN Outline(type) ELSE @]
  <2>1. \A n \in SNames : n # s => AtLevel(k, g, SNames)[n] = AtLevel(r, g, SNames)[n]
    <3> TAKE n \in SNames
    <3> HAVE n # s
    <3>1. Here(k, g, n) = Here(r, g, n)
      BY <1>15
    <3> QED
      BY <3>1, AtLevelIs
  <2>2. /\ AtLevel(k, g, SNames) = [n \in SNames |-> AtLevel(k, g, SNames)[n]]
        /\ AtLevel(r, g, SNames) = [n \in SNames |-> AtLevel(r, g, SNames)[n]]
    BY DEF AtLevel
  <2> QED
    BY <1>16, <2>1, <2>2
<1>19. OpenStructures(r, g)[g + 1] = AtLevel(r, g, SNames) /\ g + 1 \in DOMAIN OpenStructures(r, g)
  <2>1. g + 1 \in 1 .. g + 1 /\ (g + 1) - 1 = g
    OBVIOUS
  <2> QED
    BY <2>1 DEF OpenStructures
<1> DEFINE new(old) == IF old = Nested!Undeclared THEN Outline(type) ELSE old
<1>20. OpenStructures(structure_map, global_scope_level)' =
         [Nested!Left(OpenStructures(structure_map, global_scope_level)) EXCEPT
            ![Len(OpenScopes(var_map, global_scope_level))][s] = new(@)]
  <2>1. OpenStructures(k, g) =
          [OpenStructures(r, g) EXCEPT ![g + 1] = [AtLevel(r, g, SNames) EXCEPT ![s] = new(@)]]
    BY <1>17, <1>18 DEF Undeclared, Nested!Undeclared
  <2>2. OpenStructures(k, g) = [OpenStructures(r, g) EXCEPT ![g + 1][s] = new(@)]
    <3> HIDE DEF new
    <3> QED
      BY <1>19, <2>1
  <2> HIDE DEF new
  <2> QED
    BY <1>5, <1>10, <1>12, <1>14, <2>2
<1>21. OpenScopes(var_map, global_scope_level)' = Nested!Left(OpenScopes(var_map, global_scope_level))
  BY <1>5, <1>10, <1>12
<1>22. UNCHANGED [n \in Names |-> Overloads(var_map, n)]
  BY <1>10, <1>13
<1>23. [reply EXCEPT !.type = Outline(@)]' =
         Nested!Reply(IF OpenStructures(structure_map, global_scope_level)[g + 1][s] = Nested!Undeclared
                      THEN << >> ELSE <<15>>, EMPTY_TYPE)
  <2>1. GetLocalStructure(r, s, g) = IF Here(r, g, s) = {} THEN OK ELSE STRUCTURE_REDEFINED
    BY DEF GetLocalStructure, Named, Here
  <2>2. AtLevel(r, g, SNames)[s] = Undeclared <=> Here(r, g, s) = {}
    BY <1>0, <1>2, <1>11, DeclaredAt
  <2>3. OpenStructures(structure_map, global_scope_level)[g + 1] = AtLevel(r, g, SNames)
    BY <1>5, <1>14
  <2>4. Undeclared = Nested!Undeclared
    BY DEF Undeclared, Nested!Undeclared
  <2>5. CASE Here(r, g, s) = {}
    <3>1. reply' = Report(OK)
      BY <1>10, <2>1, <2>5
    <3> QED
      BY <2>2, <2>3, <2>4, <2>5, <3>1, ReportIs
  <2>6. CASE Here(r, g, s) # {}
    <3>1. reply' = Report(STRUCTURE_REDEFINED)
      BY <1>10, <2>1, <2>6
    <3> QED
      BY <2>2, <2>3, <2>4, <2>6, <3>1, ReportIs DEF STRUCTURE_REDEFINED, OK
  <2> QED
    BY <2>5, <2>6
<1>24. OpenScopes(var_map, global_scope_level) # << >> /\ Len(OpenScopes(var_map, global_scope_level)) = g + 1
  BY <1>5, <1>12
<1>25. asked' = <<"leave structure", s, Outline(type)>>
  BY <1>2, Zenon DEF StructureLeft
<1>26. Nested!LeaveStructure(s, Outline(type))
  BY <1>20, <1>21, <1>22, <1>23, <1>24, <1>25 DEF Nested!LeaveStructure
<1> QED
  BY <1>3, <1>26

-----------------------------------------------------------------------------
(***************************************************************************)
(* Requests.  A name means the first entry of its innermost scope.         *)
(***************************************************************************)
LEMMA InnermostIs ==
  ASSUME NEW d \in Nat, NEW F, DOMAIN F = 1 .. d, NEW n
  PROVE  /\ (\A l \in 1 .. d : F[l][n] = Undeclared) => Nested!Innermost(F, n) = Undeclared
         /\ \A l \in 1 .. d :
              F[l][n] # Undeclared /\ (\A h \in 1 .. d : h > l => F[h][n] = Undeclared)
                => Nested!Innermost(F, n) = F[l][n]
<1> DEFINE holding == {l \in 1 .. d : F[l][n] # Undeclared}
<1>1. Nested!Innermost(F, n) =
        IF holding = {} THEN Undeclared
        ELSE F[CHOOSE l \in holding : \A h \in holding : h <= l][n]
  BY DEF Nested!Innermost, Nested!Undeclared, Undeclared
<1>2. ASSUME NEW l \in 1 .. d, F[l][n] # Undeclared, \A h \in 1 .. d : h > l => F[h][n] = Undeclared
      PROVE  Nested!Innermost(F, n) = F[l][n]
  <2>1. l \in holding /\ \A h \in holding : h <= l
    BY <1>2
  <2>2. \A k \in holding : (\A h \in holding : h <= k) => k = l
    <3> TAKE k \in holding
    <3> HAVE \A h \in holding : h <= k
    <3>1. l <= k /\ k <= l /\ k \in Nat /\ l \in Nat
      BY <2>1
    <3> QED
      BY <3>1
  <2> HIDE DEF holding
  <2>3. (CHOOSE k \in holding : \A h \in holding : h <= k) = l
    BY <2>1, <2>2
  <2> QED
    BY <1>1, <2>1, <2>3
<1>3. (\A l \in 1 .. d : F[l][n] = Undeclared) => holding = {}
  OBVIOUS
<1> QED
  BY <1>1, <1>2, <1>3

(* The outline of e is what its name means in a table. *)
Means(m, e) ==
  /\ e \in m
  /\ \A f \in Named(m, e.name) : f.level <= e.level
  /\ \A f \in Here(m, e.level, e.name) : e.seq <= f.seq

LEMMA MeansIs ==
  ASSUME NEW U, Closed(U), NEW m, Aged(m), \A f \in m : f.type \in U /\ f.level \in Nat,
         NEW e, Means(m, e), NEW S, e.name \in S
  PROVE  /\ AtLevel(m, e.level, S)[e.name] = Outline(e.type)
         /\ Outline(e.type) # Undeclared
         /\ \A h \in Int : h > e.level => AtLevel(m, h, S)[e.name] = Undeclared
<1>1. e \in Here(m, e.level, e.name) /\ e.level \in Nat
  BY DEF Means, Here
<1>2. Here(m, e.level, e.name) \in SUBSET m
  BY DEF Here
<1>3. First(Here(m, e.level, e.name)) = e
  <2>1. Aged(Here(m, e.level, e.name))
    BY <1>2, SomeAged
  <2> QED
    BY <1>1, <2>1, FirstOnly DEF Means
<1>4. AtLevel(m, e.level, S)[e.name] = Outline(e.type)
  BY <1>1, <1>3, AtLevelIs
<1>5. e.type \in U
  BY DEF Means
<1>6. \A h \in Int : h > e.level => Here(m, h, e.name) = {}
  <2> TAKE h \in Int
  <2> HAVE h > e.level
  <2>1. \A f \in Named(m, e.name) : f.level # h
    <3> TAKE f \in Named(m, e.name)
    <3>1. f.level <= e.level /\ f.level \in Nat
      BY DEF Means, Named
    <3> QED
      BY <1>1, <3>1
  <2> QED
    BY <2>1 DEF Here, Named
<1>7. \A h \in Int : h > e.level => AtLevel(m, h, S)[e.name] = Undeclared
  BY <1>6, AtLevelIs
<1> QED
  BY <1>4, <1>5, <1>7, OutlineIs

LEMMA ScopesMean ==
  ASSUME NEW U, Closed(U), NEW m, Aged(m), \A f \in m : f.type \in U /\ f.level \in Nat,
         NEW g \in Nat, NEW n \in Names
  PROVE  /\ (\A f \in Named(m, n) : f.level = 0) =>
              Nested!Innermost(OpenScopes(m, g), n) = Undeclared
         /\ \A e : Means(m, e) /\ e.name = n /\ e.level \in 1 .. g =>
              /\ Nested!Innermost(OpenScopes(m, g), n) = Outline(e.type)
              /\ Outline(e.type) # Undeclared
<1>1. /\ DOMAIN OpenScopes(m, g) = 1 .. g
      /\ \A l \in 1 .. g : OpenScopes(m, g)[l] = AtLevel(m, l, Names)
  BY DEF OpenScopes
<1>2. (\A f \in Named(m, n) : f.level = 0) => \A l \in 1 .. g : OpenScopes(m, g)[l][n] = Undeclared
  <2> HAVE \A f \in Named(m, n) : f.level = 0
  <2> TAKE l \in 1 .. g
  <2>1. Here(m, l, n) = {}
    BY DEF Here, Named
  <2> QED
    BY <1>1, <2>1, AtLevelIs
<1>3. ASSUME NEW e, Means(m, e), e.name = n, e.level \in 1 .. g
      PROVE  /\ OpenScopes(m, g)[e.level][n] = Outline(e.type)
             /\ Outline(e.type) # Undeclared
             /\ \A h \in 1 .. g : h > e.level => OpenScopes(m, g)[h][n] = Undeclared
  BY <1>1, <1>3, MeansIs
<1> QED
  BY <1>1, <1>2, <1>3, InnermostIs

LEMMA StructuresMean ==
  ASSUME NEW U, Closed(U), NEW m, Aged(m), \A f \in m : f.type \in U /\ f.level \in Nat,
         NEW g \in Nat, NEW n \in SNames
  PROVE  /\ Named(m, n) = {} => Nested!Innermost(OpenStructures(m, g), n) = Undeclared
         /\ \A e : Means(m, e) /\ e.name = n /\ e.level \in 0 .. g =>
              /\ Nested!Innermost(OpenStructures(m, g), n) = Outline(e.type)
              /\ Outline(e.type) # Undeclared
<1>1. /\ DOMAIN OpenStructures(m, g) = 1 .. g + 1
      /\ \A l \in 1 .. g + 1 : OpenStructures(m, g)[l] = AtLevel(m, l - 1, SNames)
  BY DEF OpenStructures
<1>2. Named(m, n) = {} => \A l \in 1 .. g + 1 : OpenStructures(m, g)[l][n] = Undeclared
  <2> HAVE Named(m, n) = {}
  <2> TAKE l \in 1 .. g + 1
  <2>1. Here(m, l - 1, n) = {}
    BY DEF Here, Named
  <2> QED
    BY <1>1, <2>1, AtLevelIs
<1>3. ASSUME NEW e, Means(m, e), e.name = n, e.level \in 0 .. g
      PROVE  /\ e.level + 1 \in 1 .. g + 1
             /\ OpenStructures(m, g)[e.level + 1][n] = Outline(e.type)
             /\ Outline(e.type) # Undeclared
             /\ \A h \in 1 .. g + 1 : h > e.level + 1 => OpenStructures(m, g)[h][n] = Undeclared
  <2>1. e.level + 1 \in 1 .. g + 1 /\ (e.level + 1) - 1 = e.level
    BY <1>3
  <2>2. \A h \in 1 .. g + 1 : h > e.level + 1 => h - 1 \in Int /\ h - 1 > e.level
    BY <1>3
  <2> QED
    BY <1>1, <1>3, <2>1, <2>2, MeansIs
<1>4. PICK d \in Nat : d = g + 1
  OBVIOUS
<1>5. DOMAIN OpenStructures(m, g) = 1 .. d
  BY <1>1, <1>4
<1>6. Named(m, n) = {} => Nested!Innermost(OpenStructures(m, g), n) = Undeclared
  BY <1>2, <1>4, <1>5, InnermostIs
<1>7. ASSUME NEW e, Means(m, e), e.name = n, e.level \in 0 .. g
      PROVE  /\ Nested!Innermost(OpenStructures(m, g), n) = Outline(e.type)
             /\ Outline(e.type) # Undeclared
  <2>1. PICK l \in 1 .. d : l = e.level + 1
    BY <1>3, <1>4, <1>7
  <2>2. /\ OpenStructures(m, g)[l][n] = Outline(e.type) /\ Outline(e.type) # Undeclared
        /\ \A h \in 1 .. d : h > l => OpenStructures(m, g)[h][n] = Undeclared
    BY <1>3, <1>4, <1>7, <2>1
  <2> QED
    BY <1>5, <2>2, InnermostIs
<1> QED
  BY <1>6, <1>7

LEMMA AnswerIs ==
  ASSUME NEW found
  PROVE  [Answer(found) EXCEPT !.type = Outline(@)]
           = Nested!Reply(IF found.flag = OK THEN << >> ELSE <<found.flag>>, Outline(found.type))
<1>1. Answer(found) = [codes |-> IF found.flag = OK THEN << >> ELSE <<found.flag>>, type |-> found.type]
  <2>1. PICK codes : codes = IF found.flag = OK THEN << >> ELSE <<found.flag>>
    OBVIOUS
  <2>2. Report(found.flag) = [codes |-> codes, type |-> EMPTY_TYPE]
    BY <2>1 DEF Report, NoReply
  <2>3. Answer(found) = [codes |-> codes, type |-> found.type]
    BY <2>2 DEF Answer
  <2> QED
    BY <2>1, <2>3
<1> QED
  BY <1>1, ReplyIs

LEMMA UnchangedIs ==
  ASSUME Quiet
  PROVE  UNCHANGED <<OpenScopes(var_map, global_scope_level),
                     OpenStructures(structure_map, global_scope_level),
                     [n \in Names |-> Overloads(var_map, n)]>>
BY DEF Quiet

LEMMA AskStructureStep ==
  ASSUME NEW U, Typed(U), Shape, Layers, NEW s \in SNames, StructUse(s),
         asked' = <<"structure", s>>
  PROVE  Nested!AskStructure(s)
<1> DEFINE m == structure_map
           D == Deepest(m, s)
           found == GetStructure(m, s)
           meant == Nested!Innermost(OpenStructures(m, global_scope_level), s)
<1>1. PICK g \in Nat : g = global_scope_level
  BY DEF Shape
<1>2. /\ Closed(U) /\ Aged(m) /\ \A f \in m : f.type \in U /\ f.level \in 0 .. g
  <2>1. Closed(U) /\ clock \in Nat /\ Stored(m, clock, Structure(U))
    BY DEF Typed
  <2>2. \A f \in m : f.type \in U /\ f.level \in Nat
    BY <2>1 DEF Stored, Structure
  <2>3. \A f \in m : f.level <= g
    BY <1>1 DEF Layers, Layered
  <2> QED
    BY <2>1, <2>2, <2>3, StoredAged
<1>3. \A f \in m : f.level \in Nat
  BY <1>2
<1>4. reply' = Answer(found) /\ Quiet
  BY QuietEffect DEF StructUse
<1> HIDE DEF m, found
<1>5. Undeclared = Nested!Undeclared
  BY DEF Undeclared, Nested!Undeclared
<1>6. [reply EXCEPT !.type = Outline(@)]' =
        IF meant = Undeclared THEN Nested!Reply(<<14>>, EMPTY_TYPE) ELSE Nested!Reply(<< >>, meant)
  <2>1. CASE Named(m, s) = {}
    <3>1. meant = Undeclared
      BY <1>1, <1>2, <1>3, <2>1, StructuresMean
    <3>2. found.flag = 14 /\ found.type = EMPTY_TYPE
      BY <1>2, <1>3, <2>1, GetStructureIs DEF STRUCTURE_NOT_FOUND, found
    <3> QED
      BY <1>4, <3>1, <3>2, AnswerIs, OutlineOfEmpty DEF OK
  <2>2. CASE Named(m, s) # {}
    <3>1. PICK e : e = First(D)
      OBVIOUS
    <3>2. e \in D /\ found.flag = OK /\ found.type = e.type
      BY <1>2, <1>3, <2>2, <3>1, GetStructureIs DEF found
    <3>3. \A f \in D : e.seq <= f.seq
      <4>1. D \in SUBSET m
        BY DEF Deepest, Named
      <4>2. Aged(D) /\ D # {}
        BY <1>2, <3>2, <4>1, SomeAged
      <4> HIDE DEF D
      <4> QED
        BY <3>1, <4>2, FirstIs
    <3>4. e \in m /\ e.name = s /\ \A f \in Named(m, s) : f.level <= e.level
      BY <3>2 DEF Deepest, Named
    <3>5. \A f \in Here(m, e.level, s) : f \in D
      BY <3>4 DEF Deepest, Here, Named
    <3>6. Means(m, e)
      BY <3>3, <3>4, <3>5 DEF Means
    <3>7. e.level \in 0 .. g
      BY <1>2, <3>4
    <3>8. meant = Outline(e.type) /\ Outline(e.type) # Undeclared
      BY <1>1, <1>2, <1>3, <3>4, <3>6, <3>7, StructuresMean
    <3> QED
      BY <1>4, <3>2, <3>8, AnswerIs
  <2> QED
    BY <2>1, <2>2
<1> QED
  BY <1>4, <1>5, <1>6, UnchangedIs DEF Nested!AskStructure, m

-----------------------------------------------------------------------------
(***************************************************************************)
(* The entries of a name by age: the functions first, then the variables   *)
(* from the outer scopes to the inner ones.                                *)
(***************************************************************************)
ByScope(m, n, s, N, p) ==
  /\ s = EqualRange(m, n) /\ N \in Nat /\ DOMAIN s = 1 .. N /\ p \in 0 .. N
  /\ \A i \in 1 .. N : s[i] \in m /\ s[i].name = n /\ (s[i].func <=> i <= p)
  /\ \A e \in Named(m, n) : \E i \in 1 .. N : s[i] = e
  /\ \A i, j \in 1 .. N : i < j => s[i].seq < s[j].seq /\ s[i].level <= s[j].level

LEMMA ByScopeIs ==
  ASSUME NEW U, NEW m, NEW c \in Nat, Stored(m, c, Entry(U)), NEW g, Layered(m, g), NEW n
  PROVE  \E s, N, p : ByScope(m, n, s, N, p)
<1>1. PICK s : s = EqualRange(m, n)
  OBVIOUS
<1>2. PICK N : N = Len(s)
  OBVIOUS
<1>3. ByAge(s, Named(m, n))
  BY <1>1, StoredAged, EqualRangeIs
<1>4. /\ N \in Nat /\ DOMAIN s = 1 .. N
      /\ \A i \in 1 .. N : s[i] \in m /\ s[i].name = n
      /\ \A e \in Named(m, n) : \E i \in 1 .. N : s[i] = e
      /\ \A i, j \in 1 .. N : i < j => s[i].seq < s[j].seq
  <2>1. s \in Seq(Named(m, n))
    BY <1>3 DEF ByAge
  <2>2. N \in Nat /\ DOMAIN s = 1 .. N /\ \A i \in 1 .. N : s[i] \in Named(m, n)
    BY <1>2, <2>1
  <2> QED
    BY <1>2, <1>3, <2>2 DEF ByAge, Named
<1>5. \A i, j \in 1 .. N : i < j => s[i].level <= s[j].level
  BY <1>4 DEF Layered
<1>6. \A i \in 1 .. N : s[i].level \in Nat /\ s[i].func \in BOOLEAN /\ (s[i].func <=> s[i].level = 0)
  BY <1>4, EntriesAre DEF Stored
<1>7. \E p \in 0 .. N : \A i \in 1 .. N : s[i].func <=> i <= p
  <2> DEFINE V == {i \in 1 .. N : s[i].level > 0}
  <2>1. CASE V = {}
    <3>1. N \in 0 .. N /\ \A i \in 1 .. N : i <= N
      BY <1>4
    <3>2. \A i \in 1 .. N : s[i].level = 0
      BY <1>6, <2>1
    <3> QED
      BY <1>6, <3>1, <3>2
  <2>2. CASE V # {}
    <3>1. V \in SUBSET Nat
      OBVIOUS
    <3>2. PICK v \in V : \A i \in V : v <= i
      <4> HIDE DEF V
      <4> QED
        BY <2>2, <3>1, SmallestIs
    <3>3. v \in 1 .. N /\ s[v].level > 0
      OBVIOUS
    <3>4. PICK p \in 0 .. N : v = p + 1
      BY <1>4, <3>3
    <3>5. \A i \in 1 .. N : s[i].level = 0 <=> i <= p
      <4> TAKE i \in 1 .. N
      <4>1. i <= p => i \notin V
        BY <1>4, <3>2, <3>4
      <4>2. i <= p => s[i].level = 0
        BY <1>6, <4>1
      <4>3. ~ (i <= p) => i = v \/ v < i
        BY <1>4, <3>4
      <4>4. ~ (i <= p) => s[v].level <= s[i].level
        BY <1>5, <1>6, <3>3, <4>3
      <4>5. s[i].level \in Nat /\ s[v].level \in Nat
        BY <1>6, <3>3
      <4>6. ~ (i <= p) => s[i].level # 0
        BY <3>3, <4>4, <4>5
      <4> QED
        BY <4>2, <4>6
    <3> QED
      BY <1>6, <3>5
  <2> QED
    BY <2>1, <2>2
<1>8. PICK p \in 0 .. N : \A i \in 1 .. N : s[i].func <=> i <= p
  BY <1>7
<1>9. ByScope(m, n, s, N, p)
  BY <1>1, <1>4, <1>5, <1>8 DEF ByScope
<1> QED
  BY <1>9

LEMMA OverloadsFirst ==
  ASSUME NEW m, Aged(m), NEW n, NEW s, NEW N, NEW p, ByScope(m, n, s, N, p)
  PROVE  /\ DOMAIN Overloads(m, n) = 1 .. p /\ Len(Overloads(m, n)) = p
         /\ \A i \in 1 .. p : /\ Overloads(m, n)[i].args = s[i].args
                              /\ Overloads(m, n)[i].type = Outline(s[i].type)
         /\ Overloads(m, n) = << >> <=> p = 0
<1> DEFINE S == Named(Functions(m), n)
<1>1. /\ N \in Nat /\ DOMAIN s = 1 .. N /\ p \in 0 .. N /\ p \in Nat
      /\ \A i \in 1 .. N : s[i] \in m /\ s[i].name = n /\ (s[i].func <=> i <= p)
      /\ \A e \in Named(m, n) : \E i \in 1 .. N : s[i] = e
      /\ \A i, j \in 1 .. N : i < j => s[i].seq < s[j].seq
      /\ \A i \in 1 .. p : i \in 1 .. N /\ i <= p
  BY DEF ByScope
<1>2. PICK t : t = [i \in 1 .. p |-> s[i]]
  OBVIOUS
<1>3. \A i \in 1 .. p : s[i] \in S
  BY <1>1 DEF Named, Functions
<1>4. \A e \in S : \E i \in 1 .. p : s[i] = e
  <2> TAKE e \in S
  <2>1. e \in Named(m, n) /\ e.func
    BY DEF Named, Functions
  <2>2. PICK i \in 1 .. N : s[i] = e
    BY <1>1, <2>1
  <2>3. i <= p
    BY <1>1, <2>1, <2>2
  <2>4. i \in 1 .. p
    BY <1>1, <2>3
  <2> QED
    BY <2>2, <2>4
<1>5. Aged(S)
  <2>1. S \in SUBSET m
    BY DEF Named, Functions
  <2> QED
    BY <2>1, SomeAged
<1> HIDE DEF S
<1>6. t \in Seq(S) /\ Len(t) = p /\ \A i \in 1 .. p : t[i] = s[i]
  <2>1. t \in [1 .. p -> S]
    BY <1>2, <1>3
  <2> QED
    BY <1>1, <1>2, <2>1
<1>7. ByAge(t, S)
  <2>1. \A i, j \in 1 .. Len(t) : i < j => t[i].seq < t[j].seq
    BY <1>1, <1>6
  <2>2. \A e \in S : \E i \in 1 .. Len(t) : t[i] = e
    BY <1>4, <1>6
  <2> QED
    BY <1>6, <2>1, <2>2 DEF ByAge
<1>8. PICK o : o = Overloads(m, n)
  OBVIOUS
<1>9. /\ o = [i \in 1 .. p |-> Signature(t[i])]
      /\ DOMAIN o = 1 .. p /\ Len(o) = p
      /\ \A i \in 1 .. p : o[i].args = s[i].args /\ o[i].type = Outline(s[i].type)
  BY <1>5, <1>6, <1>7, <1>8, OverloadsAre DEF S
<1>10. o = << >> <=> p = 0
  <2>1. p = 0 => o = << >>
    BY <1>9
  <2>2. o = << >> => Len(o) = 0
    OBVIOUS
  <2> QED
    BY <1>9, <2>1, <2>2
<1> QED
  BY <1>8, <1>9, <1>10

(* What the loop of GetVariable holds after k functions. *)
FunctionsSeen(r, s, args, call, k) ==
  \/ \E i \in 1 .. k : /\ s[i].args = args /\ \A j \in 1 .. i - 1 : s[j].args # args
                       /\ r = [flag |-> OK, type |-> s[i].type, level |-> 0]
  \/ /\ \A i \in 1 .. k : s[i].args # args
     /\ r = IF k = 0 THEN NotFound(call)
            ELSE [flag |-> MISMATCH_FUNCTION_ARGUMENTS, type |-> s[k].type, level |-> -1]

LoopOf(h, s, N, args, call) ==
  /\ h[0] = NotFound(call)
  /\ \A k \in 1 .. N : h[k] = Examine(h[k - 1], s[k], args, call)

LEMMA FunctionsLoop ==
  ASSUME NEW N \in Nat, NEW p \in 0 .. N, NEW s, NEW args, NEW call, NEW h, LoopOf(h, s, N, args, call),
         \A i \in 1 .. p : /\ s[i].func /\ s[i].level = 0
                           /\ CheckArgs(s[i].args, args) <=> s[i].args = args
  PROVE  FunctionsSeen(h[p], s, args, call, p)
<1> DEFINE K == {k \in Nat : k <= p => FunctionsSeen(h[k], s, args, call, k)}
<1>1. 0 \in K
  <2>1. \A i \in 1 .. 0 : s[i].args # args
    OBVIOUS
  <2>2. FunctionsSeen(h[0], s, args, call, 0)
    BY <2>1 DEF FunctionsSeen, LoopOf
  <2> QED
    BY <2>2
<1>2. ASSUME NEW k \in Nat, k \in K
      PROVE  k + 1 \in K
  <2> SUFFICES ASSUME k + 1 <= p
               PROVE  FunctionsSeen(h[k + 1], s, args, call, k + 1)
    OBVIOUS
  <2>1. FunctionsSeen(h[k], s, args, call, k)
    BY <1>2
  <2>2. PICK d \in 1 .. p : d = k + 1
    OBVIOUS
  <2>3. PICK e : e = s[d]
    OBVIOUS
  <2>4. PICK r : r = h[k]
    OBVIOUS
  <2>5. e.func /\ e.level = 0 /\ (CheckArgs(e.args, args) <=> e.args = args)
    BY <2>3
  <2>6. h[d] = Examine(r, e, args, call)
    <3>1. d \in 1 .. N /\ d - 1 = k
      BY <2>2
    <3> QED
      BY <2>3, <2>4, <3>1 DEF LoopOf
  <2>7. Examine(r, e, args, call) =
          IF e.args = args
          THEN IF 0 > r.level THEN [flag |-> OK, type |-> e.type, level |-> 0] ELSE r
          ELSE IF r.flag # OK
          THEN [r EXCEPT !.flag = MISMATCH_FUNCTION_ARGUMENTS, !.type = e.type] ELSE r
    BY <2>5 DEF Examine
  <2>8. CASE \E i \in 1 .. k : /\ s[i].args = args /\ \A j \in 1 .. i - 1 : s[j].args # args
                               /\ r = [flag |-> OK, type |-> s[i].type, level |-> 0]
    <3>1. PICK i \in 1 .. k : /\ s[i].args = args /\ \A j \in 1 .. i - 1 : s[j].args # args
                              /\ r = [flag |-> OK, type |-> s[i].type, level |-> 0]
      BY <2>8
    <3>2. r.flag = OK /\ r.level = 0
      BY <3>1
    <3>3. h[d] = r
      BY <2>6, <2>7, <3>2
    <3>4. i \in 1 .. d
      BY <2>2
    <3> QED
      BY <2>2, <3>1, <3>3, <3>4 DEF FunctionsSeen
  <2>9. CASE /\ \A i \in 1 .. k : s[i].args # args
             /\ r = IF k = 0 THEN NotFound(call)
                    ELSE [flag |-> MISMATCH_FUNCTION_ARGUMENTS, type |-> s[k].type, level |-> -1]
    <3>1. \E flag, type : flag # OK /\ r = [flag |-> flag, type |-> type, level |-> -1]
      <4>1. CASE k = 0
        <5>1. PICK flag : flag = IF call THEN FUNCTION_NOT_FOUND ELSE VARIABLE_NOT_FOUND
          OBVIOUS
        <5>2. flag # OK
          BY <5>1 DEF FUNCTION_NOT_FOUND, VARIABLE_NOT_FOUND, OK
        <5>3. r = [flag |-> flag, type |-> EMPTY_TYPE, level |-> -1]
          BY <2>9, <4>1, <5>1 DEF NotFound
        <5> QED
          BY <5>2, <5>3
      <4>2. CASE k # 0
        <5>1. MISMATCH_FUNCTION_ARGUMENTS # OK
          BY DEF MISMATCH_FUNCTION_ARGUMENTS, OK
        <5> QED
          BY <2>9, <4>2, <5>1
      <4> QED
        BY <4>1, <4>2
    <3>2. PICK flag, type : flag # OK /\ r = [flag |-> flag, type |-> type, level |-> -1]
      BY <3>1
    <3>3. r.flag # OK /\ 0 > r.level
      BY <3>2
    <3>4. CASE e.args = args
      <4>1. h[d] = [flag |-> OK, type |-> s[d].type, level |-> 0]
        BY <2>3, <2>6, <2>7, <3>3, <3>4
      <4>2. \A j \in 1 .. d - 1 : s[j].args # args
        BY <2>2, <2>9
      <4>3. d \in 1 .. d
        BY <2>2
      <4>4. s[d].args = args
        BY <2>3, <3>4
      <4> QED
        BY <2>2, <4>1, <4>2, <4>3, <4>4 DEF FunctionsSeen
    <3>5. CASE e.args # args
      <4>1. h[d] = [flag |-> MISMATCH_FUNCTION_ARGUMENTS, type |-> s[d].type, level |-> -1]
        BY <2>3, <2>6, <2>7, <3>2, <3>3, <3>5
      <4>2. \A i \in 1 .. d : s[i].args # args
        <5> TAKE i \in 1 .. d
        <5>1. i = d \/ i \in 1 .. k
          BY <2>2
        <5> QED
          BY <2>3, <2>9, <3>5, <5>1
      <4>3. d # 0
        OBVIOUS
      <4> QED
        BY <2>2, <4>1, <4>2, <4>3 DEF FunctionsSeen
    <3> QED
      BY <3>4, <3>5
  <2> QED
    BY <2>1, <2>4, <2>8, <2>9 DEF FunctionsSeen
<1> HIDE DEF K
<1>3. \A k \in Nat : k \in K
  BY <1>1, <1>2, Induction
<1>4. p \in Nat /\ p <= p
  OBVIOUS
<1> QED
  BY <1>3, <1>4 DEF K

(* A call goes past the variables: they change nothing but the flag. *)
AfterVariables(r, N, p, flag, type, level) ==
  r = [flag |-> IF N = p THEN flag ELSE APPLY_FUNCTION_ON_VARIABLE, type |-> type, level |-> level]

LEMMA VariablesCalled ==
  ASSUME NEW N \in Nat, NEW p \in 0 .. N, NEW s, NEW args, NEW h, LoopOf(h, s, N, args, TRUE),
         \A i \in 1 .. N : s[i].func <=> i <= p,
         NEW flag, NEW type, NEW level, h[p] = [flag |-> flag, type |-> type, level |-> level]
  PROVE  AfterVariables(h[N], N, p, flag, type, level)
<1> USE DEF AfterVariables
<1> DEFINE Held(k) == [flag |-> IF k = p THEN flag ELSE APPLY_FUNCTION_ON_VARIABLE,
                       type |-> type, level |-> level]
           K == {k \in Nat : p + k <= N => h[p + k] = Held(p + k)}
<1>1. 0 \in K
  BY p + 0 = p
<1>2. ASSUME NEW k \in Nat, k \in K
      PROVE  k + 1 \in K
  <2> SUFFICES ASSUME p + (k + 1) <= N
               PROVE  h[p + (k + 1)] = Held(p + (k + 1))
    OBVIOUS
  <2>1. PICK d \in 1 .. N : d = p + (k + 1)
    OBVIOUS
  <2>2. d - 1 = p + k /\ d # p /\ ~ (d <= p) /\ p + k <= N
    BY <2>1
  <2>3. h[d - 1] = Held(p + k)
    BY <1>2, <2>2
  <2>4. ~ s[d].func
    BY <2>2
  <2>5. h[d] = [h[d - 1] EXCEPT !.flag = APPLY_FUNCTION_ON_VARIABLE]
    BY <2>4 DEF LoopOf, Examine
  <2>6. h[d] = [flag |-> APPLY_FUNCTION_ON_VARIABLE, type |-> type, level |-> level]
    BY <2>3, <2>5
  <2> QED
    BY <2>1, <2>2, <2>6
<1> HIDE DEF K
<1>3. \A k \in Nat : k \in K
  BY <1>1, <1>2, Induction
<1>4. PICK k \in Nat : N = p + k
  <2>1. N - p \in Nat /\ N = p + (N - p)
    OBVIOUS
  <2> QED
    BY <2>1
<1>5. k \in K
  BY <1>3
<1> QED
  BY <1>4, <1>5 DEF K

(* A use takes the first variable of the innermost scope so far. *)
VariableSeen(r, s, p, k) ==
  \E i \in p + 1 .. k : /\ s[i].level = s[k].level /\ \A j \in p + 1 .. i - 1 : s[j].level < s[i].level
                        /\ r = [flag |-> OK, type |-> s[i].type, level |-> s[k].level]

LEMMA VariablesUsed ==
  ASSUME NEW N \in Nat, NEW p \in 0 .. N, N # p, NEW s, NEW h, LoopOf(h, s, N, << >>, FALSE),
         \A i \in p + 1 .. N : s[i].level \in Nat \ {0} /\ s[i].args = << >>,
         \A i, j \in p + 1 .. N : i < j => s[i].level <= s[j].level,
         h[p].level \in {0, -1}
  PROVE  VariableSeen(h[N], s, p, N)
<1> DEFINE K == {k \in Nat : p + 1 + k <= N => VariableSeen(h[p + 1 + k], s, p, p + 1 + k)}
<1>0. CheckArgs(<< >>, << >>)
  BY DEF CheckArgs
<1>1. ASSUME NEW d \in p + 1 .. N
      PROVE  h[d] = IF s[d].level > h[d - 1].level
                    THEN [flag |-> OK, type |-> s[d].type, level |-> s[d].level] ELSE h[d - 1]
  <2>1. d \in 1 .. N
    OBVIOUS
  <2>2. s[d].args = << >>
    OBVIOUS
  <2> QED
    BY <1>0, <2>1, <2>2 DEF LoopOf, Examine
<1>2. 0 \in K
  <2>1. PICK d \in p + 1 .. N : d = p + 1
    OBVIOUS
  <2>2. s[d].level > h[d - 1].level
    <3>1. d - 1 = p
      BY <2>1
    <3> QED
      BY <3>1
  <2>3. h[d] = [flag |-> OK, type |-> s[d].type, level |-> s[d].level]
    BY <1>1, <2>2
  <2>4. d \in p + 1 .. d /\ \A j \in p + 1 .. d - 1 : s[j].level < s[d].level
    BY <2>1
  <2>5. VariableSeen(h[d], s, p, d)
    BY <2>3, <2>4 DEF VariableSeen
  <2>6. p + 1 + 0 = d
    BY <2>1
  <2> QED
    BY <2>5, <2>6
<1>3. ASSUME NEW k \in Nat, k \in K
      PROVE  k + 1 \in K
  <2> SUFFICES ASSUME p + 1 + (k + 1) <= N
               PROVE  VariableSeen(h[p + 1 + (k + 1)], s, p, p + 1 + (k + 1))
    OBVIOUS
  <2>1. PICK d \in p + 1 .. N : d = p + 1 + (k + 1)
    OBVIOUS
  <2>2. PICK c \in p + 1 .. N : c = p + 1 + k
    OBVIOUS
  <2>3. d - 1 = c /\ c < d
    BY <2>1, <2>2
  <2>4. VariableSeen(h[c], s, p, c)
    BY <1>3, <2>2
  <2>5. PICK i \in p + 1 .. c :
          /\ s[i].level = s[c].level /\ \A j \in p + 1 .. i - 1 : s[j].level < s[i].level
          /\ h[c] = [flag |-> OK, type |-> s[i].type, level |-> s[c].level]
    BY <2>4 DEF VariableSeen
  <2>6. h[c].level = s[c].level /\ s[c].level <= s[d].level
    BY <2>3, <2>5
  <2>7. s[c].level \in Nat /\ s[d].level \in Nat
    OBVIOUS
  <2>8. CASE s[c].level = s[d].level
    <3>1. h[d] = h[c]
      <4>1. ~ (s[d].level > h[d - 1].level)
        <5>1. PICK x \in Nat : x = s[d].level
          BY <2>7
        <5>2. h[d - 1].level = x
          BY <2>3, <2>6, <2>8, <5>1
        <5> QED
          BY <5>1, <5>2
      <4> QED
        BY <1>1, <2>3, <4>1
    <3>2. i \in p + 1 .. d
      BY <2>3
    <3>3. VariableSeen(h[d], s, p, d)
      BY <2>5, <2>8, <3>1, <3>2 DEF VariableSeen
    <3> QED
      BY <2>1, <3>3
  <2>9. CASE s[c].level < s[d].level
    <3>1. h[d] = [flag |-> OK, type |-> s[d].type, level |-> s[d].level]
      BY <1>1, <2>3, <2>6, <2>7, <2>9
    <3>2. \A j \in p + 1 .. d - 1 : s[j].level < s[d].level
      <4> TAKE j \in p + 1 .. d - 1
      <4>1. j \in p + 1 .. N /\ (j = c \/ j < c)
        BY <2>3
      <4>2. s[j].level <= s[c].level /\ s[j].level \in Nat
        BY <2>7, <4>1
      <4>3. \A x, y, z \in Nat : x <= y /\ y < z => x < z
        OBVIOUS
      <4> QED
        BY <2>7, <2>9, <4>2, <4>3
    <3>3. d \in p + 1 .. d
      OBVIOUS
    <3>4. VariableSeen(h[d], s, p, d)
      BY <3>1, <3>2, <3>3 DEF VariableSeen
    <3> QED
      BY <2>1, <3>4
  <2> QED
    BY <2>6, <2>7, <2>8, <2>9
<1> HIDE DEF K
<1>4. \A k \in Nat : k \in K
  BY <1>2, <1>3, Induction
<1>5. PICK k \in Nat : N = p + 1 + k
  <2>1. N - p - 1 \in Nat /\ N = p + 1 + (N - p - 1)
    OBVIOUS
  <2> QED
    BY <2>1
<1>6. k \in K
  BY <1>4
<1> QED
  BY <1>5, <1>6 DEF K

(* The functions a name means, seen by the loop and by the abstract scopes. *)
SameFor(args, told, s, p) == \A i \in 1 .. p : s[i].args = args <=> s[i].args = told

FunctionsAnswer(r, n, told, call) ==
  /\ Outline(r.type) = Nested!FunctionType(n, told)
  /\ r.flag = IF Nested!Matching(n, told) # {} THEN OK
              ELSE IF Overloads(var_map, n) # << >> THEN MISMATCH_FUNCTION_ARGUMENTS
              ELSE IF call THEN FUNCTION_NOT_FOUND ELSE VARIABLE_NOT_FOUND
  /\ r.level \in {0, -1} /\ r = [flag |-> r.flag, type |-> r.type, level |-> r.level]

LEMMA FunctionsMean ==
  ASSUME NEW n \in Names, NEW p \in Nat, NEW s, NEW o, o = Overloads(var_map, n),
         DOMAIN o = 1 .. p, Len(o) = p, o = << >> <=> p = 0,
         \A i \in 1 .. p : o[i].args = s[i].args /\ o[i].type = Outline(s[i].type),
         NEW args, NEW told, SameFor(args, told, s, p),
         NEW call, NEW r, FunctionsSeen(r, s, args, call, p)
  PROVE  FunctionsAnswer(r, n, told, call)
<1> SUFFICES /\ Outline(r.type) = Nested!FunctionType(n, told)
             /\ r.flag = IF Nested!Matching(n, told) # {} THEN OK
                         ELSE IF o # << >> THEN MISMATCH_FUNCTION_ARGUMENTS
                         ELSE IF call THEN FUNCTION_NOT_FOUND ELSE VARIABLE_NOT_FOUND
             /\ r.level \in {0, -1} /\ r = [flag |-> r.flag, type |-> r.type, level |-> r.level]
  BY DEF FunctionsAnswer
<1> USE DEF SameFor
<1> DEFINE M == {i \in 1 .. p : s[i].args = args}
           F == [name \in Names |-> Overloads(var_map, name)]
<1>1. F[n] = o
  OBVIOUS
<1>2. Nested!Matching(n, told) = M
  <2>1. Nested!Matching(n, told) = {i \in DOMAIN F[n] : F[n][i].args = told}
    BY DEF Nested!Matching
  <2>2. {i \in DOMAIN o : o[i].args = told} = M
    OBVIOUS
  <2> QED
    BY <1>1, <2>1, <2>2
<1>3. Nested!FunctionType(n, told) =
        IF M # {} THEN o[CHOOSE i \in M : \A j \in M : i <= j].type
        ELSE IF o # << >> THEN o[p].type ELSE EMPTY_TYPE
  <2>1. Nested!FunctionType(n, told) =
          IF Nested!Matching(n, told) # {}
          THEN F[n][CHOOSE i \in Nested!Matching(n, told) : \A j \in Nested!Matching(n, told) : i <= j].type
          ELSE IF F[n] # << >> THEN F[n][Len(F[n])].type ELSE EMPTY_TYPE
    BY DEF Nested!FunctionType
  <2> HIDE DEF F, M
  <2> QED
    BY <1>1, <1>2, <2>1
<1> HIDE DEF F
<1>4. CASE \E i \in 1 .. p : /\ s[i].args = args /\ \A j \in 1 .. i - 1 : s[j].args # args
                             /\ r = [flag |-> OK, type |-> s[i].type, level |-> 0]
  <2>1. PICK i \in 1 .. p : /\ s[i].args = args /\ \A j \in 1 .. i - 1 : s[j].args # args
                            /\ r = [flag |-> OK, type |-> s[i].type, level |-> 0]
    BY <1>4
  <2>2. i \in M /\ \A j \in M : i <= j
    BY <2>1
  <2>3. \A k \in M : (\A j \in M : k <= j) => k = i
    <3> TAKE k \in M
    <3> HAVE \A j \in M : k <= j
    <3>1. k <= i /\ i <= k /\ i \in Nat /\ k \in Nat
      BY <2>2
    <3> QED
      BY <3>1
  <2> HIDE DEF M
  <2>4. (CHOOSE k \in M : \A j \in M : k <= j) = i
    BY <2>2, <2>3
  <2>5. Nested!FunctionType(n, told) = Outline(s[i].type)
    BY <1>3, <2>2, <2>4
  <2> QED
    BY <1>2, <2>1, <2>2, <2>5
<1>5. CASE /\ \A i \in 1 .. p : s[i].args # args
           /\ r = IF p = 0 THEN NotFound(call)
                  ELSE [flag |-> MISMATCH_FUNCTION_ARGUMENTS, type |-> s[p].type, level |-> -1]
  <2>1. M = {}
    BY <1>5
  <2> HIDE DEF M
  <2>2. CASE p = 0
    <3>1. r = [flag |-> IF call THEN FUNCTION_NOT_FOUND ELSE VARIABLE_NOT_FOUND,
               type |-> EMPTY_TYPE, level |-> -1]
      BY <1>5, <2>2 DEF NotFound
    <3>2. Nested!FunctionType(n, told) = EMPTY_TYPE
      BY <1>3, <2>1, <2>2
    <3> QED
      BY <1>2, <2>1, <2>2, <3>1, <3>2, OutlineOfEmpty
  <2>3. CASE p # 0
    <3>1. Nested!FunctionType(n, told) = o[p].type
      BY <1>3, <2>1, <2>3
    <3>2. o[p].type = Outline(s[p].type)
      BY <2>3
    <3> QED
      BY <1>2, <1>5, <2>1, <2>3, <3>1, <3>2
  <2> QED
    BY <2>2, <2>3
<1> QED
  BY <1>4, <1>5 DEF FunctionsSeen

(* The loop of GetVariable over the entries of a name. *)
Looked(s, N, p, h, n, args, call) ==
  /\ ByScope(var_map, n, s, N, p)
  /\ LoopOf(h, s, N, args, call) /\ h[N] = GetVariable(var_map, n, args, call)
  /\ FunctionsSeen(h[p], s, args, call, p)
  /\ \A i \in 1 .. p : s[i].level = 0 /\ s[i].args \in ArgLists
  /\ \A i \in p + 1 .. N : s[i].args = << >> /\ s[i].level \in 1 .. global_scope_level

LEMMA LookedIs ==
  ASSUME NEW U, Typed(U), Shape, Layers, NEW n, NEW args \in Seq(U), NEW call,
         \A e \in Named(var_map, n) : e.func => ~ ArgsThrow(e.args, args)
  PROVE  \E s, N, p, h : Looked(s, N, p, h, n, args, call)
<1>1. /\ Closed(U) /\ clock \in Nat /\ Stored(var_map, clock, Entry(U))
      /\ Layered(var_map, global_scope_level) /\ global_scope_level \in Nat
  BY DEF Typed, Layers, Shape
<1>2. PICK s, N, p : ByScope(var_map, n, s, N, p)
  BY <1>1, ByScopeIs
<1>3. /\ s = EqualRange(var_map, n) /\ N \in Nat /\ DOMAIN s = 1 .. N /\ p \in 0 .. N
      /\ \A i \in 1 .. N : s[i] \in var_map /\ (s[i].func <=> i <= p)
  BY <1>2 DEF ByScope
<1>4. \A i \in 1 .. N :
        /\ s[i].func <=> s[i].level = 0
        /\ s[i].func => s[i].args \in ArgLists
        /\ ~ s[i].func => s[i].args = << >>
        /\ s[i].level \in 0 .. global_scope_level
  <2> TAKE i \in 1 .. N
  <2>1. s[i] \in Entry(U)
    BY <1>1, <1>3 DEF Stored
  <2>2. s[i].level <= global_scope_level
    BY <1>1, <1>3 DEF Layered
  <2>3. s[i].level \in Nat
    BY <2>1, EntriesAre
  <2>4. s[i].level \in 0 .. global_scope_level
    BY <1>1, <2>2, <2>3
  <2> QED
    BY <2>1, <2>4, EntriesAre
<1>5. \A i \in 1 .. p : i \in 1 .. N /\ i <= p
  BY <1>3
<1>6. \A i \in 1 .. p : s[i].func /\ s[i].level = 0 /\ s[i].args \in ArgLists
  BY <1>3, <1>4, <1>5
<1>7. \A i \in p + 1 .. N : s[i].args = << >> /\ s[i].level \in 1 .. global_scope_level
  <2> TAKE i \in p + 1 .. N
  <2>1. i \in 1 .. N /\ ~ (i <= p)
    BY <1>3
  <2>2. ~ s[i].func
    BY <1>3, <2>1
  <2>3. s[i].args = << >> /\ s[i].level # 0 /\ s[i].level \in 0 .. global_scope_level
    BY <1>4, <2>1, <2>2
  <2> QED
    BY <2>3
<1>8. PICK h : LoopOf(h, s, N, args, call) /\ h[N] = GetVariable(var_map, n, args, call)
  <2>1. \E h : /\ h[0] = NotFound(call)
               /\ \A k \in 1 .. N : h[k] = Examine(h[k - 1], EqualRange(var_map, n)[k], args, call)
               /\ h[N] = GetVariable(var_map, n, args, call)
    BY <1>3, LoopIs
  <2> QED
    BY <1>3, <2>1 DEF LoopOf
<1>9. \A i \in 1 .. p : CheckArgs(s[i].args, args) <=> s[i].args = args
  <2>1. \A i \in 1 .. p : Comparable(s[i].args, args)
    BY <1>2, <1>5, <1>6 DEF ByScope, Named, Comparable
  <2> QED
    BY <1>1, <1>6, <2>1, MatchIs
<1>10. FunctionsSeen(h[p], s, args, call, p)
  BY <1>3, <1>6, <1>8, <1>9, FunctionsLoop
<1>11. Looked(s, N, p, h, n, args, call)
  BY <1>2, <1>6, <1>7, <1>8, <1>10 DEF Looked
<1> QED
  BY <1>11

(* The first variable of the innermost scope is what its name means. *)
LEMMA FirstMeans ==
  ASSUME NEW m, Aged(m), NEW n, NEW s, NEW N, NEW p, ByScope(m, n, s, N, p),
         \A i \in 1 .. p : s[i].level = 0,
         \A i \in p + 1 .. N : s[i].level \in Nat \ {0},
         NEW i \in p + 1 .. N, s[i].level = s[N].level,
         \A j \in p + 1 .. i - 1 : s[j].level < s[i].level
  PROVE  Means(m, s[i]) /\ s[i].name = n
<1>1. /\ N \in Nat /\ p \in 0 .. N
      /\ \A j \in 1 .. N : s[j] \in m /\ s[j].name = n
      /\ \A e \in Named(m, n) : \E j \in 1 .. N : s[j] = e
      /\ \A j, k \in 1 .. N : j < k => s[j].seq < s[k].seq /\ s[j].level <= s[k].level
      /\ i \in 1 .. N /\ N \in 1 .. N
  BY DEF ByScope
<1>2. PICK v \in Nat \ {0} : v = s[i].level
  OBVIOUS
<1>3. \A f \in Named(m, n) : f.level <= v
  <2> TAKE f \in Named(m, n)
  <2>1. PICK j \in 1 .. N : s[j] = f
    BY <1>1
  <2>2. j = N \/ j < N
    BY <1>1
  <2>3. CASE j = N
    BY <1>2, <2>1, <2>3
  <2>4. CASE j < N
    <3>1. s[j].level <= s[N].level
      BY <1>1, <2>4
    <3> QED
      BY <1>2, <2>1, <3>1
  <2> QED
    BY <2>2, <2>3, <2>4
<1>4. \A j \in 1 .. N : s[j].level = v => j = i \/ i < j
  <2> TAKE j \in 1 .. N
  <2> HAVE s[j].level = v
  <2>1. j \notin 1 .. p
    BY <1>2
  <2>2. j \notin p + 1 .. i - 1
    BY <1>2
  <2> QED
    BY <1>1, <2>1, <2>2
<1>5. \A f \in Here(m, v, n) : s[i] = f \/ s[i].seq < f.seq
  <2> TAKE f \in Here(m, v, n)
  <2>1. f \in Named(m, n) /\ f.level = v
    BY DEF Here, Named
  <2>2. PICK j \in 1 .. N : s[j] = f
    BY <1>1, <2>1
  <2>3. j = i \/ i < j
    BY <1>4, <2>1, <2>2
  <2> QED
    BY <1>1, <2>2, <2>3
<1>6. s[i] \in m /\ s[i].name = n
  BY <1>1
<1>7. \A f \in Here(m, v, n) : s[i].seq <= f.seq
  <2> TAKE f \in Here(m, v, n)
  <2>1. f \in m
    BY DEF Here
  <2>2. s[i].seq \in Nat /\ f.seq \in Nat
    BY <1>6, <2>1 DEF Aged
  <2>3. s[i].seq = f.seq \/ s[i].seq < f.seq
    BY <1>5
  <2> QED
    BY <2>2, <2>3
<1> QED
  BY <1>2, <1>3, <1>6, <1>7 DEF Means

(* Whether a variable of that name is known. *)
LEMMA VariableKnown ==
  ASSUME NEW U, Typed(U), Shape, NEW n \in Names,
         NEW s, NEW N, NEW p, NEW h, NEW args, NEW call, Looked(s, N, p, h, n, args, call)
  PROVE  LET meant == Nested!Innermost(OpenScopes(var_map, global_scope_level), n)
         IN  /\ N = p => meant = Undeclared
             /\ N # p => meant # Undeclared
             /\ \A e : Means(var_map, e) /\ e.name = n /\ e.level \in 1 .. global_scope_level =>
                  meant = Outline(e.type)
<1> DEFINE meant == Nested!Innermost(OpenScopes(var_map, global_scope_level), n)
<1>1. PICK g \in Nat : g = global_scope_level
  BY DEF Shape
<1>2. Closed(U) /\ Aged(var_map) /\ \A f \in var_map : f.type \in U /\ f.level \in Nat
  <2>1. Closed(U) /\ clock \in Nat /\ Stored(var_map, clock, Entry(U))
    BY DEF Typed
  <2>2. \A f \in var_map : f.type \in U /\ f.level \in Nat
    BY <2>1, EntriesAre DEF Stored
  <2> QED
    BY <2>1, <2>2, StoredAged
<1>3. /\ ByScope(var_map, n, s, N, p)
      /\ \A i \in 1 .. p : s[i].level = 0
      /\ \A i \in p + 1 .. N : s[i].level \in 1 .. g
  BY <1>1 DEF Looked
<1>4. /\ N \in Nat /\ p \in 0 .. N
      /\ \A i \in 1 .. N : s[i] \in var_map /\ s[i].name = n
      /\ \A e \in Named(var_map, n) : \E i \in 1 .. N : s[i] = e
      /\ \A i, j \in 1 .. N : i < j => s[i].level <= s[j].level
  BY <1>3 DEF ByScope
<1>5. \A e : Means(var_map, e) /\ e.name = n /\ e.level \in 1 .. g =>
        meant = Outline(e.type) /\ Outline(e.type) # Undeclared
  BY <1>1, <1>2, ScopesMean
<1>6. N = p => meant = Undeclared
  <2> HAVE N = p
  <2>1. \A f \in Named(var_map, n) : f.level = 0
    BY <1>3, <1>4
  <2> QED
    BY <1>1, <1>2, <2>1, ScopesMean
<1>7. N # p => meant # Undeclared
  <2> SUFFICES ASSUME N # p PROVE meant # Undeclared
    OBVIOUS
  <2> DEFINE same == {i \in p + 1 .. N : s[i].level = s[N].level}
  <2>1. N \in same /\ same \in SUBSET Nat
    BY <1>4
  <2>2. PICK i \in same : \A j \in same : i <= j
    <3> HIDE DEF same
    <3> QED
      BY <2>1, SmallestIs
  <2>3. i \in p + 1 .. N /\ s[i].level = s[N].level
    OBVIOUS
  <2>4. \A j \in p + 1 .. i - 1 : s[j].level < s[i].level
    <3> TAKE j \in p + 1 .. i - 1
    <3>1. j \in p + 1 .. N /\ j < i /\ j \in 1 .. N /\ i \in 1 .. N
      BY <1>4, <2>3
    <3>2. j \notin same
      BY <2>2, <3>1
    <3>3. s[j].level # s[i].level
      BY <2>3, <3>1, <3>2
    <3>4. s[j].level <= s[i].level
      BY <1>4, <3>1
    <3>5. s[j].level \in Nat /\ s[i].level \in Nat
      BY <1>2, <1>4, <3>1
    <3> QED
      BY <3>3, <3>4, <3>5
  <2>5. Means(var_map, s[i]) /\ s[i].name = n
    <3>1. \A k \in p + 1 .. N : s[k].level \in Nat \ {0}
      BY <1>3
    <3> HIDE DEF same
    <3> QED
      BY <1>2, <1>3, <2>3, <2>4, <3>1, FirstMeans
  <2> QED
    BY <1>3, <1>5, <2>3, <2>5
<1> QED
  BY <1>1, <1>5, <1>6, <1>7

LEMMA AskVariableStep ==
  ASSUME NEW U, Typed(U), Shape, Layers, NEW n \in Names, Variable(n),
         asked' = <<"variable", n>>
  PROVE  Nested!AskVariable(n)
<1> DEFINE meant == Nested!Innermost(OpenScopes(var_map, global_scope_level), n)
           found == GetVariable(var_map, n, << >>, FALSE)
<1>0. << >> \in Seq(U) /\ \A params : ~ ArgsThrow(params, << >>)
  BY DEF ArgsThrow
<1>1. PICK s, N, p, h : Looked(s, N, p, h, n, << >>, FALSE)
  BY <1>0, LookedIs
<1>2. /\ ByScope(var_map, n, s, N, p)
      /\ LoopOf(h, s, N, << >>, FALSE) /\ h[N] = found
      /\ FunctionsSeen(h[p], s, << >>, FALSE, p)
      /\ \A i \in 1 .. p : s[i].level = 0
      /\ \A i \in p + 1 .. N : s[i].args = << >> /\ s[i].level \in 1 .. global_scope_level
  BY <1>1 DEF Looked
<1>3. /\ N \in Nat /\ p \in 0 .. N /\ p \in Nat
      /\ \A i, j \in 1 .. N : i < j => s[i].level <= s[j].level
  BY <1>2 DEF ByScope
<1>4. reply' = Answer(found) /\ Quiet
  BY DEF Variable, Quiet, tables
<1>5. PICK o : o = Overloads(var_map, n)
  OBVIOUS
<1>6. Aged(var_map)
  BY StoredAged DEF Typed
<1>7. /\ DOMAIN o = 1 .. p /\ Len(o) = p /\ (o = << >> <=> p = 0)
      /\ \A i \in 1 .. p : o[i].args = s[i].args /\ o[i].type = Outline(s[i].type)
  BY <1>2, <1>5, <1>6, OverloadsFirst
<1> HIDE DEF found
<1>8. PICK r : r = h[p]
  OBVIOUS
<1>9. /\ Outline(r.type) = Nested!FunctionType(n, << >>)
      /\ r.flag = IF Nested!Matching(n, << >>) # {} THEN OK
                  ELSE IF o # << >> THEN MISMATCH_FUNCTION_ARGUMENTS ELSE VARIABLE_NOT_FOUND
      /\ r.level \in {0, -1}
  <2>1. FunctionsSeen(r, s, << >>, FALSE, p)
    BY <1>2, <1>8
  <2>2. SameFor(<< >>, << >>, s, p)
    BY DEF SameFor
  <2>3. FunctionsAnswer(r, n, << >>, FALSE)
    BY <1>3, <1>5, <1>7, <2>1, <2>2, FunctionsMean
  <2> QED
    BY <1>5, <2>3 DEF FunctionsAnswer
<1> DEFINE codes == IF Nested!Matching(n, << >>) # {} THEN << >> ELSE IF o # << >> THEN <<9>> ELSE <<1>>
<1>10. [reply EXCEPT !.type = Outline(@)]' =
         IF meant # Undeclared THEN Nested!Reply(<< >>, meant)
         ELSE Nested!Reply(codes, Nested!FunctionType(n, << >>))
  <2>1. CASE N = p
    <3>1. meant = Undeclared
      BY <1>1, <2>1, VariableKnown
    <3>2. found = r
      BY <1>2, <1>8, <2>1
    <3>3. (IF r.flag = OK THEN << >> ELSE <<r.flag>>) = codes
      BY <1>9 DEF OK, MISMATCH_FUNCTION_ARGUMENTS, VARIABLE_NOT_FOUND
    <3> HIDE DEF codes, meant
    <3> QED
      BY <1>4, <1>9, <3>1, <3>2, <3>3, AnswerIs
  <2>2. CASE N # p
    <3>1. VariableSeen(h[N], s, p, N)
      <4>1. \A i \in p + 1 .. N : s[i].level \in Nat \ {0} /\ s[i].args = << >>
        BY <1>2
      <4>2. \A i, j \in p + 1 .. N : i < j => s[i].level <= s[j].level
        BY <1>3
      <4> QED
        BY <1>2, <1>3, <1>8, <1>9, <2>2, <4>1, <4>2, VariablesUsed
    <3>2. PICK i \in p + 1 .. N :
            /\ s[i].level = s[N].level /\ \A j \in p + 1 .. i - 1 : s[j].level < s[i].level
            /\ found = [flag |-> OK, type |-> s[i].type, level |-> s[N].level]
      BY <1>2, <3>1 DEF VariableSeen
    <3>3. Means(var_map, s[i]) /\ s[i].name = n
      <4>1. \A k \in p + 1 .. N : s[k].level \in Nat \ {0}
        BY <1>2
      <4> QED
        BY <1>2, <1>6, <3>2, <4>1, FirstMeans
    <3>4. s[i].level \in 1 .. global_scope_level
      BY <1>2
    <3>5. meant = Outline(s[i].type) /\ meant # Undeclared
      BY <1>1, <2>2, <3>3, <3>4, VariableKnown
    <3>6. found.flag = OK /\ found.type = s[i].type
      BY <3>2
    <3> HIDE DEF codes, meant
    <3> QED
      BY <1>4, <3>5, <3>6, AnswerIs
  <2> QED
    BY <2>1, <2>2
<1>11. [name \in Names |-> Overloads(var_map, name)][n] = o /\ Undeclared = Nested!Undeclared
  BY <1>5 DEF Undeclared, Nested!Undeclared
<1> QED
  BY <1>4, <1>10, <1>11, UnchangedIs DEF Nested!AskVariable
LEMMA ToldArgsAre ==
  ASSUME NEW U, Closed(U), NEW args \in Seq(U), Len(args) <= MaxVals
  PROVE  /\ ToldArgs(args) \in Signatures
         /\ \A params \in ArgLists : params = args <=> params = ToldArgs(args)
<1> DEFINE k == Len(args)
           T == {EMPTY_TYPE} \union ParamTypes
           told == ToldArgs(args)
<1>1. k \in 0 .. MaxVals /\ DOMAIN args = 1 .. k
  BY BoundsAssumption
<1>2. told \in [1 .. k -> T]
  BY DEF ToldArgs
<1>3. told \in Seq(T) /\ Len(told) = k /\ DOMAIN told = 1 .. k
  BY <1>1, <1>2
<1>4. \A i \in 1 .. k : told[i] = IF args[i] \in ParamTypes THEN args[i] ELSE EMPTY_TYPE
  BY DEF ToldArgs
<1> HIDE DEF told
<1>5. told \in Signatures
  BY <1>1, <1>2 DEF Signatures, SeqOf
<1>6. ASSUME NEW params \in ArgLists
      PROVE  params = args <=> params = told
  <2>1. /\ params \in Seq(U) /\ \A i \in 1 .. Len(params) : /\ params[i] \in ParamTypes
                                                            /\ params[i] # EMPTY_TYPE
    <3>1. \A i \in 1 .. Len(params) : OfParameter(params[i])
      BY ArgsAre
    <3>2. \A x : OfParameter(x) => x # EMPTY_TYPE
      BY DEF OfParameter, Primitive, CPrimitive, EMPTY_TYPE
    <3> QED
      BY <3>1, <3>2, ArgsAre
  <2>2. params = args <=> Len(params) = k /\ \A i \in 1 .. k : params[i] = args[i]
    BY <1>1, <2>1, SeqEqual
  <2>3. params = told <=> Len(params) = k /\ \A i \in 1 .. k : params[i] = told[i]
    <3>1. DOMAIN params = 1 .. Len(params) /\ Len(params) \in Nat
      BY <2>1
    <3>2. params = told => Len(params) = k /\ \A i \in 1 .. k : params[i] = told[i]
      BY <1>3
    <3>3. ASSUME Len(params) = k, \A i \in 1 .. k : params[i] = told[i] PROVE params = told
      BY <1>3, <2>1, <3>1, <3>3, SeqEqual
    <3> QED
      BY <3>2, <3>3
  <2>4. Len(params) = k => \A i \in 1 .. k : params[i] = args[i] <=> params[i] = told[i]
    BY <1>4, <2>1
  <2> QED
    BY <2>2, <2>3, <2>4
<1> QED
  BY <1>5, <1>6 DEF told

LEMMA CallStep ==
  ASSUME NEW U, Typed(U), Shape, Layers, NEW n \in Names, NEW c \in 0 .. MaxVals, Call(n, c),
         asked' = <<"call", n, ToldArgs(Args(c))>>
  PROVE  \E told \in Signatures : Nested!AskCall(n, told)
<1> DEFINE meant == Nested!Innermost(OpenScopes(var_map, global_scope_level), n)
<1>1. PICK args : args = Args(c)
  OBVIOUS
<1>2. args \in Seq(U) /\ Len(args) = c /\ c \in Nat
  <2>1. c \in Nat /\ Have(c) /\ vals \in Seq(Operand(U))
    BY BoundsAssumption DEF Call, Typed
  <2>2. c \in 0 .. NVals /\ NVals \in Nat /\ \A i \in 1 .. NVals : vals[i].type \in U
    BY <2>1, HaveIs, ValsAre
  <2>3. \A i \in 1 .. c : NVals - c + i \in 1 .. NVals
    BY <2>2
  <2>4. args \in [1 .. c -> U]
    BY <1>1, <2>2, <2>3 DEF Args
  <2> QED
    BY <2>1, <2>4
<1>3. PICK told : told = ToldArgs(args)
  OBVIOUS
<1>4. told \in Signatures /\ \A params \in ArgLists : params = args <=> params = told
  <2>1. Closed(U) /\ Len(args) <= MaxVals
    BY <1>2, BoundsAssumption DEF Typed
  <2> QED
    BY <1>2, <1>3, <2>1, ToldArgsAre
<1>5. PICK s, N, p, h : Looked(s, N, p, h, n, args, TRUE)
  <2>1. ~ GetVariableThrows(var_map, n, args, TRUE)
    BY <1>1 DEF Call
  <2> QED
    BY <1>2, <2>1, LookedIs DEF GetVariableThrows
<1>6. /\ ByScope(var_map, n, s, N, p)
      /\ LoopOf(h, s, N, args, TRUE) /\ h[N] = GetVariable(var_map, n, args, TRUE)
      /\ FunctionsSeen(h[p], s, args, TRUE, p)
      /\ \A i \in 1 .. p : s[i].args \in ArgLists
  BY <1>5 DEF Looked
<1>7. /\ N \in Nat /\ p \in 0 .. N /\ p \in Nat
      /\ \A i \in 1 .. N : s[i].func <=> i <= p
  BY <1>6 DEF ByScope
<1>8. PICK found : found = GetVariable(var_map, n, args, TRUE)
  OBVIOUS
<1>9. reply' = Answer(found) /\ Quiet
  BY <1>1, <1>8 DEF Call, Quiet, tables
<1>10. PICK o : o = Overloads(var_map, n)
  OBVIOUS
<1>11. /\ DOMAIN o = 1 .. p /\ Len(o) = p /\ (o = << >> <=> p = 0)
       /\ \A i \in 1 .. p : o[i].args = s[i].args /\ o[i].type = Outline(s[i].type)
  <2>1. Aged(var_map)
    BY StoredAged DEF Typed
  <2> QED
    BY <1>6, <1>10, <2>1, OverloadsFirst
<1>12. PICK r : r = h[p]
  OBVIOUS
<1>13. PICK call \in BOOLEAN : call = TRUE
  OBVIOUS
<1>14. SameFor(args, told, s, p) /\ FunctionsSeen(r, s, args, call, p)
  BY <1>4, <1>6, <1>12, <1>13 DEF SameFor
<1>15. FunctionsAnswer(r, n, told, call)
  BY <1>7, <1>10, <1>11, <1>14, FunctionsMean
<1>16. /\ Outline(r.type) = Nested!FunctionType(n, told)
       /\ r.flag = IF Nested!Matching(n, told) # {} THEN OK
                   ELSE IF o # << >> THEN MISMATCH_FUNCTION_ARGUMENTS ELSE FUNCTION_NOT_FOUND
       /\ r = [flag |-> r.flag, type |-> r.type, level |-> r.level]
  BY <1>10, <1>13, <1>15 DEF FunctionsAnswer
<1>17. found = [flag |-> IF N = p THEN r.flag ELSE APPLY_FUNCTION_ON_VARIABLE,
                type |-> r.type, level |-> r.level]
  <2>1. PICK flag, type, level : flag = r.flag /\ type = r.type /\ level = r.level
    OBVIOUS
  <2>2. h[p] = [flag |-> flag, type |-> type, level |-> level] /\ LoopOf(h, s, N, args, TRUE)
    BY <1>6, <1>12, <1>16, <2>1
  <2>3. AfterVariables(h[N], N, p, flag, type, level)
    BY <1>7, <2>2, VariablesCalled
  <2> QED
    BY <1>6, <1>8, <2>1, <2>3 DEF AfterVariables
<1>18. N = p <=> meant = Undeclared
  BY <1>5, VariableKnown
<1> HIDE DEF meant
<1> DEFINE codes == IF meant # Undeclared THEN <<11>>
                    ELSE IF Nested!Matching(n, told) # {} THEN << >>
                    ELSE IF o # << >> THEN <<9>> ELSE <<2>>
<1>19. (IF found.flag = OK THEN << >> ELSE <<found.flag>>) = codes /\ found.type = r.type
  BY <1>16, <1>17, <1>18
     DEF OK, MISMATCH_FUNCTION_ARGUMENTS, FUNCTION_NOT_FOUND, APPLY_FUNCTION_ON_VARIABLE
<1> HIDE DEF codes
<1>20. [reply EXCEPT !.type = Outline(@)]' = Nested!Reply(codes, Nested!FunctionType(n, told))
  BY <1>9, <1>16, <1>19, AnswerIs
<1>21. [name \in Names |-> Overloads(var_map, name)][n] = o /\ Undeclared = Nested!Undeclared
  BY <1>10 DEF Undeclared, Nested!Undeclared
<1>22. Nested!AskCall(n, told)
  BY <1>1, <1>3, <1>9, <1>20, <1>21, UnchangedIs DEF Nested!AskCall, codes, meant
<1> QED
  BY <1>4, <1>22
-----------------------------------------------------------------------------
(* The steps that the scopes have no part in. *)
LEMMA SilentStep ==
  ASSUME Quiet, reply' = NoReply, asked' = <<"nothing">>
  PROVE  Nested!JudgeTypes
<1>1. NoReply = Report(OK)
  BY DEF NoReply, Report
<1>2. PICK code \in Nested!TypeErrors \union {OK} : code = OK
  OBVIOUS
<1> QED
  BY <1>1, <1>2, Judged

Tells(code) == code \in Nested!TypeErrors \union {OK} /\ reply' = Report(code)

LEMMA TellingStep ==
  ASSUME Quiet, NEW code, Tells(code), asked' = <<"nothing">>
  PROVE  Nested!JudgeTypes
BY Judged DEF Tells


LEMMA CodesTold ==
  {OK, UNMATCHING_TYPE_ON_ASSIGN, RVALUE_ON_THE_LEFT, UNMATCHING_OPERANDS, MISMATCH_RETURN_TYPE,
   APPLYING_INDEXING_FOR_NON_ARRAY, APPLY_INDEXING_WITH_NON_INT,
   ACCESSING_MEMBER_OF_NON_STRUCTURE_VAR, STRUCTURE_NOT_FOUND}
    \subseteq Nested!TypeErrors \union {OK}
BY DEF Nested!TypeErrors, OK, UNMATCHING_TYPE_ON_ASSIGN, RVALUE_ON_THE_LEFT, UNMATCHING_OPERANDS,
       MISMATCH_RETURN_TYPE, APPLYING_INDEXING_FOR_NON_ARRAY, APPLY_INDEXING_WITH_NON_INT,
       ACCESSING_MEMBER_OF_NON_STRUCTURE_VAR, STRUCTURE_NOT_FOUND

LEMMA NothingTold == reply' = NoReply => Tells(OK)
BY CodesTold DEF NoReply, Report, Tells

LEMMA JudgingStep ==
  ASSUME Judging, asked' = <<"nothing">>
  PROVE  Nested!JudgeTypes
<1>1. Quiet
  BY QuietEffect
     DEF Judging, Literal, Dot, Unary, Index, AssignLeft, Assign, Binary, Combine, ExpStmt, Return,
         tables, Quiet
<1>2. ASSUME \/ \E t \in Prims : TypeSpecifier(t) \/ Literal(t)
             \/ \E n \in Names, dims \in 0 .. 1 : DecStart(n, dims)
             \/ ExtDefEnd \/ DefListEnd \/ Die \/ Finish \/ Unary \/ ExpStmt
      PROVE  reply' = NoReply
  BY <1>2 DEF TypeSpecifier, Literal, DecStart, ExtDefEnd, DefListEnd, Die, Finish, Unary, ExpStmt
<1>3. ASSUME NEW n \in Names, Dot(n)
      PROVE  \/ reply' = NoReply
             \/ Tells(ACCESSING_MEMBER_OF_NON_STRUCTURE_VAR) \/ Tells(STRUCTURE_NOT_FOUND)
  BY <1>3, CodesTold DEF Dot, Tells
<1>4. ASSUME DecEnd PROVE reply' = NoReply \/ Tells(OK) \/ Tells(UNMATCHING_TYPE_ON_ASSIGN)
  BY <1>4, CodesTold DEF DecEnd, Tells
<1>5. ASSUME Index
      PROVE  \/ reply' = NoReply
             \/ Tells(APPLY_INDEXING_WITH_NON_INT) \/ Tells(APPLYING_INDEXING_FOR_NON_ARRAY)
  BY <1>5, CodesTold DEF Index, Tells
<1>6. ASSUME AssignLeft PROVE Tells(OK) \/ Tells(RVALUE_ON_THE_LEFT)
  BY <1>6, CodesTold DEF AssignLeft, Tells
<1>7. ASSUME Assign PROVE Tells(OK) \/ Tells(UNMATCHING_TYPE_ON_ASSIGN)
  BY <1>7, CodesTold DEF Assign, Combine, Tells
<1>8. ASSUME Binary PROVE Tells(OK) \/ Tells(UNMATCHING_OPERANDS)
  BY <1>8, CodesTold DEF Binary, Combine, Tells
<1>9. ASSUME Return PROVE Tells(OK) \/ Tells(MISMATCH_RETURN_TYPE)
  BY <1>9, CodesTold DEF Return, Tells
<1>10. \E code : Tells(code)
  BY <1>2, <1>3, <1>4, <1>5, <1>6, <1>7, <1>8, <1>9, NothingTold DEF Judging
<1> QED
  BY <1>1, <1>10, TellingStep

LEMMA ClosingStep ==
  ASSUME Exact, NEW U, Typed(U), Shape, ScopeEnd, asked' = <<"leave">>
  PROVE  Nested!Leave
<1>1. Closes /\ reply' = NoReply
  BY ClosingEffect DEF ScopeEnd
<1>2. global_scope_level \in Nat
  BY DEF Shape
<1> QED
  BY <1>1, <1>2, LeaveScope

LEMMA NestedVars == UNCHANGED svars => UNCHANGED Nested!vars
BY DEF svars, vars, tables, Nested!vars

LEMMA NestedStep ==
  ASSUME Exact, NEW U, Typed(U), Shape, Pending, Layers, SNext
  PROVE  Nested!Next
<1>0. global_scope_level \in Nat
  BY DEF Shape
<1>1. ASSUME Nested!JudgeTypes \/ Nested!Leave
      PROVE  Nested!Next
  BY <1>1 DEF Nested!Next
<1>2. ASSUME NEW list \in Lists, Nested!Declare(list) \/ Nested!Enter(list)
      PROVE  Nested!Next
  BY <1>2 DEF Nested!Next
<1>3. ASSUME Declaring PROVE Nested!Next
  <2>1. ASSUME NEW s \in SNames, StructUse(s), Asks(<<"structure", s>>) PROVE Nested!Next
    <3>1. Nested!AskStructure(s)
      BY <2>1, AskStructureStep DEF Asks
    <3> QED
      BY <3>1 DEF Nested!Next
  <2>2. ASSUME NEW s \in SNames, StructStart(s), Asks(<<"enter", << >>>>) PROVE Nested!Next
    <3>1. \E list \in Lists : Nested!Enter(list)
      BY <1>0, <2>2, EnterNothingStep DEF Asks
    <3> QED
      BY <1>2, <3>1
  <2>3. CASE StructEnd /\ Asks(StructureLeft)
    <3>1. \E s \in SNames, type \in Types : Nested!LeaveStructure(s, type)
      BY <2>3, LeaveStructureStep DEF Asks
    <3> QED
      BY <3>1 DEF Nested!Next
  <2>4. CASE DecListEnd /\ Asks(<<"declare", Told(Top.list)>>)
    <3>1. \E list \in Lists : Nested!Declare(list)
      BY <2>4, DeclareStep DEF Asks
    <3> QED
      BY <1>2, <3>1
  <2>5. ASSUME NEW n \in Names, NEW params \in ParamLists, FunDec(n, params), Asks(<<"enter", params>>)
        PROVE  Nested!Next
    <3>1. params \in Lists /\ Nested!Enter(params)
      BY <2>5, EnterStep DEF Asks
    <3> QED
      BY <1>2, <3>1
  <2>6. CASE FunEnd /\ Asks(FunctionLeft)
    <3>1. \E n \in Names, args \in Signatures, type \in Types : Nested!LeaveFunction(n, args, type)
      BY <2>6, LeaveFunctionStep DEF Asks
    <3> QED
      BY <3>1 DEF Nested!Next
  <2> QED
    BY <1>3, <2>1, <2>2, <2>3, <2>4, <2>5, <2>6 DEF Declaring
<1>4. ASSUME Executing PROVE Nested!Next
  <2>1. CASE (BlockStart \/ WhileStart) /\ Asks(<<"enter", << >>>>)
    <3>1. \E list \in Lists : Nested!Enter(list)
      BY <1>0, <2>1, EnterNothingStep DEF Asks
    <3> QED
      BY <1>2, <3>1
  <2>2. CASE ScopeEnd /\ Asks(<<"leave">>)
    BY <1>1, <2>2, ClosingStep DEF Asks
  <2> QED
    BY <1>4, <2>1, <2>2 DEF Executing
<1>5. ASSUME Evaluating PROVE Nested!Next
  <2>1. ASSUME NEW n \in Names, Variable(n), Asks(<<"variable", n>>) PROVE Nested!Next
    <3>1. Nested!AskVariable(n)
      BY <2>1, AskVariableStep DEF Asks
    <3> QED
      BY <3>1 DEF Nested!Next
  <2>2. ASSUME NEW n \in Names, NEW k \in 0 .. MaxVals, Call(n, k), Asks(<<"call", n, ToldArgs(Args(k))>>)
        PROVE  Nested!Next
    <3>1. \E args \in Signatures : Nested!AskCall(n, args)
      BY <2>2, CallStep DEF Asks
    <3> QED
      BY <3>1 DEF Nested!Next
  <2> QED
    BY <1>5, <2>1, <2>2 DEF Evaluating
<1>6. CASE Judging /\ Asks(<<"nothing">>)
  BY <1>1, <1>6, JudgingStep DEF Asks
<1> QED
  BY <1>3, <1>4, <1>5, <1>6 DEF SNext

LEMMA NestedInit == SInit => Nested!Init
<1> SUFFICES ASSUME SInit PROVE Nested!Init
  OBVIOUS
<1>1. /\ var_map = {} /\ structure_map = {} /\ global_scope_level = 0 /\ reply = NoReply
      /\ asked = <<"nothing">>
  BY DEF SInit, Init
<1>2. OpenScopes(var_map, global_scope_level) = << >>
  BY <1>1 DEF OpenScopes
<1>3. OpenStructures(structure_map, global_scope_level) = <<Nested!Blank(SNames)>>
  <2>1. AtLevel({}, 0, SNames) = Nested!Blank(SNames)
    BY DEF AtLevel, Nested!Blank, Undeclared, Nested!Undeclared
  <2>2. OpenStructures({}, 0) = [l \in 1 .. 1 |-> AtLevel({}, l - 1, SNames)]
    BY DEF OpenStructures
  <2>3. OpenStructures({}, 0) = <<AtLevel({}, 0, SNames)>>
    BY <2>2
  <2> QED
    BY <1>1, <2>1, <2>3
<1>4. [n \in Names |-> Overloads(var_map, n)] = [n \in Names |-> << >>]
  <2>1. ASSUME NEW n \in Names PROVE Overloads(var_map, n) = << >>
    <3>1. EqualRange({}, n) = << >>
      <4>1. Aged({}) /\ Named({}, n) = {}
        BY FS_EmptySet DEF Aged, Named
      <4>2. ByAge(EqualRange({}, n), {})
        BY <4>1, EqualRangeIs
      <4> QED
        BY <4>2 DEF ByAge
    <3> QED
      BY <1>1, <3>1 DEF Overloads, Functions
  <2> QED
    BY <2>1
<1>5. [reply EXCEPT !.type = Outline(@)] = Nested!Reply(<< >>, EMPTY_TYPE)
  BY <1>1, NoReplyIs
<1> QED
  BY <1>1, <1>2, <1>3, <1>4, <1>5 DEF Nested!Init

(***************************************************************************)
(* Unless PopScope steps over entries, the flat tables implement nested    *)
(* scopes (ImplementsScopes): in every program, of any size, each          *)
(* declaration, use, call and reference is answered, for the name and the  *)
(* argument types that the program asks for, as resolving that name from   *)
(* the innermost open scope outwards would (semantic.cpp:498-627).         *)
(***************************************************************************)
THEOREM ImplementsScopesHolds ==
  ASSUME Exact
  PROVE  SSpec => ImplementsScopes
<1>1. SInit => Nested!Init
  BY NestedInit
<1>2. IInv /\ Layers /\ [SNext]_svars => [Nested!Next]_(Nested!vars)
  <2> SUFFICES ASSUME IInv, Layers, [SNext]_svars PROVE [Nested!Next]_(Nested!vars)
    OBVIOUS
  <2>1. PICK U : Typed(U)
    BY DEF IInv
  <2>2. Shape /\ Pending
    BY DEF IInv
  <2>3. CASE SNext
    BY <2>1, <2>2, <2>3, NestedStep
  <2>4. CASE UNCHANGED svars
    BY <2>4, NestedVars
  <2> QED
    BY <2>3, <2>4
<1> QED
  BY <1>1, <1>2, LayersInvariant, PTL DEF SSpec, ImplementsScopes, Nested!Spec

-----------------------------------------------------------------------------
(* What the checker lets pass. *)

LEMMA TStepIs == [TNext]_tvars => [Next]_vars
BY DEF TNext, tvars

LEMMA TInitIInv == TInit => IInv
BY InitIInv DEF TInit

LEMMA TNextIInv == IInv /\ [TNext]_tvars => IInv'
BY TStepIs, NextIInv

-----------------------------------------------------------------------------
(***************************************************************************)
(* No error is swallowed.  EmptyMeansReported is not inductive: a member   *)
(* of a structure can become an operand.  W is a set of types that has no  *)
(* EMPTY_TYPE and, with a type, the types of its parts.                    *)
(***************************************************************************)
Whole(W) ==
  /\ EMPTY_TYPE \notin W
  /\ \A t \in Prims : CPrimitive(t) \in W
  /\ \A params \in ParamLists : \A i \in DOMAIN params : params[i].type \in W
  /\ \A t \in W : /\ t.kind = "ARRAY" => t.base \in W
                  /\ t.kind = "STRUCTURE" => \A i \in DOMAIN t.fields : t.fields[i].type \in W

FilledFrame(W, f) ==
  /\ f.kind \in {"def", "dec", "fun"} => f.type \in W
  /\ \A i \in 1 .. Len(f.list) : f.list[i].type \in W

FilledStack(W) == \A i \in 1 .. Depth : FilledFrame(W, stack[i])

FilledVals(W) == \A i \in 1 .. NVals : vals[i].type \in W

FilledMaps(W) == (\A e \in var_map : e.type \in W) /\ (\A e \in structure_map : e.type \in W)

Filled(W) == FilledStack(W) /\ FilledVals(W) /\ FilledMaps(W)

LEMMA AddPart ==
  ASSUME NEW W, Whole(W), NEW t, t # EMPTY_TYPE,
         t.kind = "ARRAY" => t.base \in W,
         t.kind = "STRUCTURE" => \A i \in DOMAIN t.fields : t.fields[i].type \in W
  PROVE  Whole(W \union {t})
BY DEF Whole

LEMMA MoreFilled ==
  ASSUME NEW W, NEW V, W \subseteq V
  PROVE  /\ \A f : FilledFrame(W, f) => FilledFrame(V, f)
         /\ FilledStack(W) => FilledStack(V)
         /\ FilledVals(W) => FilledVals(V)
         /\ FilledMaps(W) => FilledMaps(V)
BY DEF FilledFrame, FilledStack, FilledVals, FilledMaps

LEMMA FramePushed ==
  ASSUME NEW W, NEW S, NEW s \in Seq(S), \A i \in 1 .. Len(s) : FilledFrame(W, s[i]),
         NEW f, FilledFrame(W, f), stack' = Append(s, f)
  PROVE  FilledStack(W)'
<1>1. Depth' = Len(s) + 1 /\ Len(s) \in Nat /\ stack'[Len(s) + 1] = f
      /\ \A i \in 1 .. Len(s) : stack'[i] = s[i]
  BY Appended DEF Depth
<1>2. \A i \in 1 .. Len(s) + 1 : i \in 1 .. Len(s) \/ i = Len(s) + 1
  BY <1>1
<1> QED
  BY <1>1, <1>2 DEF FilledStack

(* The frames that stay open stay what they are. *)
LEMMA KeptFrames ==
  ASSUME NEW U, Typed(U), Shape, NEW W, FilledStack(W)
  PROVE  /\ \A n \in 0 .. Depth : /\ Keep(n) \in Seq(Frame(U)) /\ Len(Keep(n)) = n
                                  /\ \A i \in 1 .. Len(Keep(n)) : FilledFrame(W, Keep(n)[i])
         /\ stack \in Seq(Frame(U)) /\ Depth \in Nat
         /\ \A i \in 1 .. Len(stack) : FilledFrame(W, stack[i])
<1>1. Depth \in Nat /\ Depth = Len(stack) /\ stack \in Seq(Frame(U))
  BY FramesAre, Places
<1>2. ASSUME NEW n \in 0 .. Depth
      PROVE  /\ Keep(n) \in Seq(Frame(U)) /\ Len(Keep(n)) = n
             /\ \A i \in 1 .. Len(Keep(n)) : FilledFrame(W, Keep(n)[i])
  <2>1. /\ Keep(n) \in Seq(Frame(U)) /\ Len(Keep(n)) = n
        /\ \A i \in 1 .. n : Keep(n)[i] = stack[i]
    BY FramesAre
  <2>2. \A i \in 1 .. n : i \in 1 .. Depth
    BY <1>1
  <2> QED
    BY <2>1, <2>2 DEF FilledStack
<1> QED
  BY <1>1, <1>2 DEF FilledStack

(* Such a set exists: types enter the tables, the calls and the operands from it. *)
Fills == \E W : Whole(W) /\ Filled(W)

LEMMA SaysNothing ==
  /\ \A code : Report(code).codes = << >> => code = OK
  /\ \A found : Answer(found).codes = << >> => found.flag = OK
<1>1. \A code : Report(code) = [codes |-> IF code = OK THEN << >> ELSE <<code>>, type |-> EMPTY_TYPE]
  BY DEF Report, NoReply
<1>2. \A code : Report(code).codes = << >> => code = OK
  BY <1>1
<1>3. \A found : Answer(found).codes = Report(found.flag).codes
  BY <1>1 DEF Answer
<1> QED
  BY <1>2, <1>3

(* Specifiers, and scopes that open. *)
LEMMA SpecifierFills ==
  ASSUME NEW U, Typed(U), Shape, NEW W, Whole(W), Filled(W), reply'.codes = << >>,
         \/ \E t \in Prims : TypeSpecifier(t)
         \/ \E s \in SNames : StructUse(s) \/ StructStart(s)
         \/ BlockStart \/ WhileStart
  PROVE  Fills'
<1>1. FilledStack(W) /\ FilledVals(W) /\ FilledMaps(W)
  BY DEF Filled
<1>2. stack \in Seq(Frame(U)) /\ \A i \in 1 .. Len(stack) : FilledFrame(W, stack[i])
  BY <1>1, KeptFrames
<1>3. ASSUME NEW f, FilledFrame(W, f), stack' = Append(stack, f),
             UNCHANGED <<var_map, structure_map, vals>>
      PROVE  Fills'
  <2>1. FilledStack(W)'
    BY <1>2, <1>3, FramePushed
  <2>2. FilledVals(W)' /\ FilledMaps(W)'
    BY <1>1, <1>3 DEF FilledVals, FilledMaps, NVals
  <2> QED
    BY <2>1, <2>2 DEF Fills, Filled
<1>4. \A kind, n, t, late :
        (kind \in {"def", "dec", "fun"} => t \in W) => FilledFrame(W, MkFrame(kind, n, t, << >>, late))
  BY DEF FilledFrame, MkFrame
<1>5. ASSUME NEW t \in Prims, TypeSpecifier(t) PROVE Fills'
  <2>1. CPrimitive(t) \in W
    BY DEF Whole
  <2> QED
    BY <1>3, <1>4, <1>5, <2>1 DEF TypeSpecifier, Push, tables
<1>6. ASSUME NEW s \in SNames, StructUse(s) PROVE Fills'
  <2>1. PICK found : /\ found = GetStructure(structure_map, s)
                     /\ stack' = Append(stack, MkFrame("def", 0, found.type, << >>, FALSE))
                     /\ reply' = Answer(found)
                     /\ UNCHANGED <<var_map, structure_map, vals>>
    BY <1>6 DEF StructUse, Push, tables
  <2>2. found.flag = OK
    BY <2>1, SaysNothing
  <2>3. Aged(structure_map) /\ \A e \in structure_map : e.level \in Nat
    BY EntryTypes
  <2>4. Named(structure_map, s) # {}
    BY <2>1, <2>2, <2>3, GetStructureIs DEF OK, STRUCTURE_NOT_FOUND
  <2>5. PICK d : d \in Deepest(structure_map, s) /\ found.type = d.type
    BY <2>1, <2>3, <2>4, GetStructureIs
  <2>6. found.type \in W
    BY <1>1, <2>5 DEF FilledMaps, Deepest, Named
  <2> QED
    BY <1>3, <1>4, <2>1, <2>6
<1>7. ASSUME NEW s \in SNames, StructStart(s) PROVE Fills'
  BY <1>3, <1>4, <1>7 DEF StructStart, Push
<1>8. CASE BlockStart
  BY <1>3, <1>4, <1>8 DEF BlockStart, Push
<1>9. CASE WhileStart
  BY <1>3, <1>4, <1>9 DEF WhileStart, Push
<1> QED
  BY <1>5, <1>6, <1>7, <1>8, <1>9

LEMMA DecStartFills ==
  ASSUME NEW U, Typed(U), Shape, NEW W, Whole(W), Filled(W),
         NEW n \in Names, NEW dims \in 0 .. 1, DecStart(n, dims)
  PROVE  Fills'
<1>1. PICK type : /\ type = IF dims = 0 THEN Top.type ELSE CArray(Top.type)
                  /\ stack' = Append(stack, MkFrame("dec", n, type, << >>, FALSE))
  BY DEF DecStart, Push
<1>2. TopIs({"def"}) /\ UNCHANGED <<var_map, structure_map, vals>>
  BY DEF DecStart, tables
<1>3. Top.type \in W
  <2>1. Depth \in Nat /\ Depth > 0 /\ Top = stack[Depth] /\ Top.kind = "def"
    BY <1>2, Places DEF TopIs, Top
  <2>2. FilledFrame(W, Top)
    BY <2>1 DEF Filled, FilledStack
  <2> QED
    BY <2>1, <2>2 DEF FilledFrame
<1>4. PICK V : V = W \union {type}
  OBVIOUS
<1>5. Whole(V)
  <2>1. CASE dims = 0
    <3>1. V = W
      BY <1>1, <1>3, <1>4, <2>1
    <3> QED
      BY <3>1
  <2>2. CASE dims # 0
    <3>1. type = CArray(Top.type)
      BY <1>1, <2>2
    <3>2. type.kind = "ARRAY" /\ type.base = Top.type /\ type # EMPTY_TYPE
      BY <3>1 DEF CArray, EMPTY_TYPE
    <3> QED
      BY <1>3, <1>4, <3>2, AddPart
  <2> QED
    BY <2>1, <2>2
<1>6. FilledFrame(V, MkFrame("dec", n, type, << >>, FALSE))
  BY <1>4 DEF FilledFrame, MkFrame
<1>7. FilledStack(V) /\ FilledVals(V) /\ FilledMaps(V)
  BY <1>4, MoreFilled DEF Filled
<1>8. stack \in Seq(Frame(U)) /\ \A i \in 1 .. Len(stack) : FilledFrame(V, stack[i])
  BY <1>7, KeptFrames
<1>9. FilledStack(V)'
  BY <1>1, <1>6, <1>8, FramePushed
<1>10. FilledVals(V)' /\ FilledMaps(V)'
  BY <1>2, <1>7 DEF FilledVals, FilledMaps, NVals
<1> QED
  BY <1>5, <1>9, <1>10 DEF Fills, Filled

LEMMA DecEndFills ==
  ASSUME NEW U, Typed(U), Shape, Pending, NEW W, Whole(W), Filled(W), DecEnd
  PROVE  Fills'
<1> DEFINE dec == CVariable(Top.name, Top.type, << >>, global_scope_level, FALSE)
           f == [Under EXCEPT !.list = Append(@, dec)]
<1>1. /\ TopIs({"dec"}) /\ stack' = Append(Keep(Depth - 2), f) /\ vals' = << >>
      /\ UNCHANGED <<var_map, structure_map>>
  BY DEF DecEnd, tables
<1>2. /\ Depth = global_scope_level + 2 /\ Under = stack[global_scope_level + 1] /\ Under.kind = "def"
      /\ Depth \in Nat /\ global_scope_level \in Nat /\ Top = stack[Depth] /\ Top.kind = "dec"
  BY <1>1, Places DEF TopIs, Top
<1>3. /\ FilledFrame(W, Top) /\ FilledFrame(W, Under)
      /\ Under \in Frame(U)
  <2>1. global_scope_level + 1 \in 1 .. Depth /\ Depth \in 1 .. Depth
    BY <1>2
  <2> QED
    BY <1>2, <2>1, FramesAre DEF Filled, FilledStack
<1>4. FilledFrame(W, f)
  <2>1. Top.type \in W /\ Under.type \in W /\ dec.type = Top.type
    BY <1>2, <1>3 DEF FilledFrame, CVariable
  <2>2. PICK list \in Seq(Local(U)) : list = Under.list
    BY <1>2, <1>3 DEF Frame, FrameOK
  <2>3. f.type = Under.type /\ f.list = Append(list, dec)
    BY <1>3, <2>2 DEF Frame
  <2> HIDE DEF dec, f
  <2>4. /\ Len(f.list) = Len(list) + 1 /\ Len(list) \in Nat /\ f.list[Len(list) + 1] = dec
        /\ \A i \in 1 .. Len(list) : f.list[i] = list[i]
    BY <2>3, Appended
  <2>5. \A i \in 1 .. Len(list) + 1 : i \in 1 .. Len(list) \/ i = Len(list) + 1
    BY <2>4
  <2> QED
    BY <1>3, <2>1, <2>2, <2>3, <2>4, <2>5 DEF FilledFrame
<1> HIDE DEF f, dec
<1>5. FilledStack(W)'
  <2>1. Depth - 2 \in 0 .. Depth
    BY <1>2
  <2>2. /\ Keep(Depth - 2) \in Seq(Frame(U))
        /\ \A i \in 1 .. Len(Keep(Depth - 2)) : FilledFrame(W, Keep(Depth - 2)[i])
    BY <2>1, KeptFrames DEF Filled
  <2> QED
    BY <1>1, <1>4, <2>2, FramePushed
<1>6. FilledVals(W)' /\ FilledMaps(W)'
  <2>1. NVals' = 0
    BY <1>1 DEF NVals
  <2> QED
    BY <1>1, <2>1 DEF Filled, FilledVals, FilledMaps
<1> QED
  BY <1>5, <1>6 DEF Fills, Filled
(* Frames that are left, and frames that are replaced. *)
LEMMA FramesKept ==
  ASSUME NEW U, Typed(U), Shape, NEW W, FilledStack(W), NEW n \in 0 .. Depth
  PROVE  /\ stack' = Keep(n) => FilledStack(W)'
         /\ \A f : FilledFrame(W, f) /\ stack' = Append(Keep(n), f) => FilledStack(W)'
<1>1. PICK s \in Seq(Frame(U)) : s = Keep(n) /\ \A i \in 1 .. Len(s) : FilledFrame(W, s[i])
  BY KeptFrames
<1>2. stack' = s => FilledStack(W)'
  BY <1>1 DEF FilledStack, Depth
<1>3. ASSUME NEW f, FilledFrame(W, f), stack' = Append(s, f) PROVE FilledStack(W)'
  BY <1>1, <1>3, FramePushed
<1> QED
  BY <1>1, <1>2, <1>3

LEMMA TopFilled ==
  ASSUME NEW U, Typed(U), Shape, Depth > 0, NEW W, FilledStack(W)
  PROVE  /\ FilledFrame(W, Top) /\ Top \in Frame(U) /\ Top = stack[Depth] /\ Depth \in Nat
         /\ Depth - 1 \in 0 .. Depth
<1>1. Depth \in Nat /\ Depth \in 1 .. Depth
  BY Places
<1> QED
  BY <1>1, FramesAre DEF FilledStack, Top

LEMMA PopFilled ==
  ASSUME NEW W, NEW m, \A e \in m : e.type \in W, NEW level, NEW rest \in PopResults(m, level)
  PROVE  \A e \in rest : e.type \in W
BY DEF PopResults, Erased, Of

LEMMA DefListEndFills ==
  ASSUME NEW U, Typed(U), Shape, NEW W, Whole(W), Filled(W), DefListEnd
  PROVE  Fills'
<1>1. /\ TopIs({"fun", "block"}) /\ stack' = Append(Keep(Depth - 1), [Top EXCEPT !.late = TRUE])
      /\ UNCHANGED <<var_map, structure_map, vals>>
  BY DEF DefListEnd, Replace, tables
<1>2. FilledStack(W) /\ FilledVals(W) /\ FilledMaps(W)
  BY DEF Filled
<1>3. Depth > 0
  BY <1>1 DEF TopIs
<1>4. FilledFrame(W, Top) /\ Top \in Frame(U) /\ Depth - 1 \in 0 .. Depth
  BY <1>2, <1>3, TopFilled
<1>5. PICK f : f = [Top EXCEPT !.late = TRUE]
  OBVIOUS
<1>6. f.kind = Top.kind /\ f.type = Top.type /\ f.list = Top.list
  BY <1>4, <1>5 DEF Frame
<1>7. FilledFrame(W, f)
  BY <1>4, <1>6 DEF FilledFrame
<1>8. FilledStack(W)'
  BY <1>1, <1>2, <1>4, <1>5, <1>7, FramesKept
<1>9. FilledVals(W)' /\ FilledMaps(W)'
  BY <1>1, <1>2 DEF FilledVals, FilledMaps, NVals
<1> QED
  BY <1>8, <1>9 DEF Fills, Filled

LEMMA ScopeEndFills ==
  ASSUME NEW U, Typed(U), Shape, NEW W, Whole(W), Filled(W), ScopeEnd \/ ExtDefEnd
  PROVE  Fills'
<1>1. FilledStack(W) /\ FilledVals(W) /\ FilledMaps(W)
  BY DEF Filled
<1>2. Depth > 0 /\ stack' = Keep(Depth - 1) /\ vals' = vals
  <2>1. CASE ScopeEnd
    BY <2>1 DEF ScopeEnd, TopIs
  <2>2. CASE ExtDefEnd
    <3>1. Depth = 1 /\ stack' = << >> /\ vals' = vals
      BY <2>2 DEF ExtDefEnd, tables
    <3>2. Keep(0) \in Seq(Frame(U)) /\ Len(Keep(0)) = 0
      BY <3>1, FramesAre
    <3>3. Keep(0) = << >> /\ Depth - 1 = 0
      BY <3>1, <3>2
    <3> QED
      BY <3>1, <3>3
  <2> QED
    BY <2>1, <2>2
<1>3. Depth - 1 \in 0 .. Depth
  BY <1>1, <1>2, TopFilled
<1>4. FilledStack(W)'
  BY <1>1, <1>2, <1>3, FramesKept
<1>5. FilledVals(W)'
  BY <1>1, <1>2 DEF FilledVals, NVals
<1>6. FilledMaps(W)'
  <2>1. CASE ScopeEnd
    <3>1. PICK v \in PopResults(var_map, global_scope_level),
               s \in PopResults(structure_map, global_scope_level) : var_map' = v /\ structure_map' = s
      BY <2>1 DEF ScopeEnd, PopScope
    <3> QED
      BY <1>1, <3>1, PopFilled DEF FilledMaps
  <2>2. CASE ExtDefEnd
    BY <1>1, <2>2 DEF ExtDefEnd, tables, FilledMaps
  <2> QED
    BY <2>1, <2>2
<1> QED
  BY <1>4, <1>5, <1>6 DEF Fills, Filled
(* The entries that a list of variables brings. *)
LEMMA InsertedFilled ==
  ASSUME NEW U, NEW W, NEW m, \A e \in m : e.type \in W, NEW list \in Seq(Entry(U)),
         \A i \in 1 .. Len(list) : list[i].type \in W, NEW c \in Nat
  PROVE  \A e \in UpdateVariable(m, list, c) : e.type \in W
<1> TAKE e \in UpdateVariable(m, list, c)
<1>1. \/ e \in m
      \/ \E i \in 1 .. Len(list) : /\ e.name = list[i].name /\ e.level = list[i].level
                                   /\ e.type = list[i].type /\ e.args = list[i].args
                                   /\ e.func = list[i].func /\ e.seq = c + i
  BY InsertedFrom
<1> QED
  BY <1>1

LEMMA FunEndFills ==
  ASSUME NEW U, Typed(U), Shape, NEW W, Whole(W), Filled(W), FunEnd
  PROVE  Fills'
<1>1. FilledStack(W) /\ FilledVals(W) /\ FilledMaps(W) /\ clock \in Nat
  BY DEF Filled, Typed
<1>2. TopIs({"fun"}) /\ AtStmt /\ stack' = Keep(Depth - 1) /\ vals' = vals
  BY DEF FunEnd
<1>3. Depth = 1 /\ global_scope_level = 1 /\ Declared(0) \in Entry(U)
  BY <1>2, DeclaredIs
<1>4. Depth > 0 /\ global_scope_level - 1 = 0
  BY <1>3
<1>5. FilledStack(W)'
  BY <1>1, <1>2, <1>4, TopFilled, FramesKept
<1>6. FilledVals(W)'
  BY <1>1, <1>2 DEF FilledVals, NVals
<1>7. PICK fun : fun = Declared(0)
  OBVIOUS
<1>8. fun.type \in W /\ fun \in Entry(U)
  <2>1. FilledFrame(W, Top) /\ Top.kind = "fun"
    BY <1>1, <1>2, <1>4, TopFilled DEF TopIs
  <2>2. Top.type \in W
    BY <2>1 DEF FilledFrame
  <2> QED
    BY <1>3, <1>7, <2>2 DEF Declared, CVariable
<1>9. PICK rest \in PopResults(var_map, global_scope_level) : var_map' = UpdateVariable(rest, <<fun>>, clock)
  BY <1>4, <1>7 DEF FunEnd
<1>10. \A e \in UpdateVariable(rest, <<fun>>, clock) : e.type \in W
  <2>1. \A e \in rest : e.type \in W
    BY <1>1, PopFilled DEF FilledMaps
  <2>2. PICK list : list = <<fun>>
    OBVIOUS
  <2>3. list \in Seq(Entry(U)) /\ \A i \in 1 .. Len(list) : list[i].type \in W
    BY <1>8, <2>2
  <2> QED
    BY <1>1, <2>1, <2>2, <2>3, InsertedFilled
<1>11. PICK s \in PopResults(structure_map, global_scope_level) : structure_map' = s
  BY DEF FunEnd
<1>12. FilledMaps(W)'
  <2>1. \A e \in s : e.type \in W
    BY <1>1, PopFilled DEF FilledMaps
  <2> QED
    BY <1>9, <1>10, <1>11, <2>1 DEF FilledMaps
<1> QED
  BY <1>5, <1>6, <1>12 DEF Fills, Filled

LEMMA FunDecFills ==
  ASSUME NEW U, Typed(U), Shape, NEW W, Whole(W), Filled(W),
         NEW n \in Names, NEW params \in ParamLists, FunDec(n, params)
  PROVE  Fills'
<1>1. FilledStack(W) /\ FilledVals(W) /\ FilledMaps(W) /\ clock \in Nat /\ Closed(U)
  BY DEF Filled, Typed
<1>2. PICK args : args = Parameters(params, 1)
  OBVIOUS
<1>3. TopIs({"def"}) /\ Depth = 1 /\ vals' = vals
  BY DEF FunDec
<1>4. var_map' = UpdateVariable(var_map, args, clock) /\ structure_map' = structure_map
  BY <1>2, EnteringEffect
<1>5. args \in Seq(Entry(U)) /\ \A i \in 1 .. Len(args) : args[i].type \in W
  <2>1. args \in Seq(Local(U)) /\ Len(args) = Len(params)
    BY <1>1, <1>2, ParametersAre
  <2>2. args \in Seq(Entry(U))
    BY <2>1, SeqMonotonic DEF Entry
  <2>3. \A i \in DOMAIN params : args[i].type = params[i].type
    BY <1>2 DEF Parameters, CVariable
  <2>4. DOMAIN params = 1 .. Len(params)
    BY ParamListsAssumption
  <2> QED
    BY <2>1, <2>2, <2>3, <2>4 DEF Whole
<1>6. stack' = Append(Keep(Depth - 1), MkFrame("fun", n, Top.type, args, FALSE))
  <2>1. global_scope_level + 1 = 1
    BY <1>3, Places
  <2> QED
    BY <1>2, <2>1 DEF FunDec, Replace
<1>7. FilledFrame(W, MkFrame("fun", n, Top.type, args, FALSE))
  <2>1. FilledFrame(W, Top) /\ Top.kind = "def"
    BY <1>1, <1>3, TopFilled DEF TopIs
  <2>2. Top.type \in W
    BY <2>1 DEF FilledFrame
  <2> QED
    BY <1>5, <2>2 DEF FilledFrame, MkFrame
<1>8. FilledStack(W)'
  <2>1. Depth - 1 \in 0 .. Depth
    BY <1>1, <1>3, TopFilled
  <2> QED
    BY <1>1, <1>6, <1>7, <2>1, FramesKept
<1>9. FilledVals(W)'
  BY <1>1, <1>3 DEF FilledVals, NVals
<1>10. \A e \in UpdateVariable(var_map, args, clock) : e.type \in W
  BY <1>1, <1>5, InsertedFilled DEF FilledMaps
<1>11. FilledMaps(W)'
  BY <1>1, <1>4, <1>10 DEF FilledMaps
<1> QED
  BY <1>8, <1>9, <1>11 DEF Fills, Filled

IsJoined(s, x, y) ==
  /\ Len(s) = Len(x) + Len(y) /\ Len(x) \in Nat
  /\ \A i \in 1 .. Len(x) : s[i] = x[i]
  /\ \A i \in 1 .. Len(y) : s[Len(x) + i] = y[i]

LEMMA Joined ==
  ASSUME NEW S, NEW x \in Seq(S), NEW y \in Seq(S)
  PROVE  IsJoined(x \o y, x, y)
BY DEF IsJoined

(* A structure that takes members of types in W keeps its frame filled. *)
LEMMA MembersFilled ==
  ASSUME NEW U, NEW W, NEW s \in Seq(Frame(U)), Len(s) > 0,
         \A i \in 1 .. Len(s) : FilledFrame(W, s[i]),
         NEW list \in Seq(Local(U)), \A i \in 1 .. Len(list) : list[i].type \in W,
         stack' = WithMembers(s, list)
  PROVE  FilledStack(W)'
<1>1. Len(s) \in Nat /\ Len(s) \in 1 .. Len(s) /\ s[Len(s)] \in Frame(U) /\ FilledFrame(W, s[Len(s)])
  OBVIOUS
<1>2. PICK f : f = s[Len(s)]
  OBVIOUS
<1>3. CASE f.kind # "struct"
  <2>1. stack' = s
    BY <1>2, <1>3 DEF WithMembers
  <2> QED
    BY <2>1 DEF FilledStack, Depth
<1>4. CASE f.kind = "struct"
  <2>1. PICK members : members = [i \in DOMAIN list |-> [name |-> list[i].name, type |-> list[i].type]]
    OBVIOUS
  <2>2. PICK h : h = [f EXCEPT !.list = @ \o members]
    OBVIOUS
  <2>3. stack' = [s EXCEPT ![Len(s)] = h]
    BY <1>2, <1>4, <2>1, <2>2 DEF WithMembers
  <2>4. DOMAIN members = 1 .. Len(list) /\ Len(list) \in Nat
        /\ \A i \in 1 .. Len(list) : members[i].type = list[i].type
    BY <2>1
  <2>5. PICK before \in Seq(Member(U)) : before = f.list
    BY <1>1, <1>2, <1>4 DEF Frame, FrameOK
  <2>6. h.list = before \o members /\ h.kind = f.kind /\ h.type = f.type
    BY <1>1, <1>2, <2>2, <2>5 DEF Frame
  <2>7. members \in Seq(Member(U)) /\ Len(members) = Len(list)
    <3>1. \A d \in Local(U) : [name |-> d.name, type |-> d.type] \in Member(U)
      BY DEF Local, Member
    <3>2. members \in [1 .. Len(list) -> Member(U)]
      BY <2>1, <2>4, <3>1
    <3> QED
      BY <2>4, <3>2
  <2>8. /\ Len(before \o members) = Len(before) + Len(list) /\ Len(before) \in Nat
        /\ \A i \in 1 .. Len(before) : (before \o members)[i] = before[i]
        /\ \A i \in 1 .. Len(list) : (before \o members)[Len(before) + i] = members[i]
    <3>1. IsJoined(before \o members, before, members)
      BY <2>5, <2>7, Joined
    <3> QED
      BY <2>7, <3>1 DEF IsJoined
  <2>9. \A i \in 1 .. Len(before) + Len(list) :
          i \in 1 .. Len(before) \/ \E j \in 1 .. Len(list) : i = Len(before) + j
    <3> TAKE i \in 1 .. Len(before) + Len(list)
    <3>1. CASE i <= Len(before)
      BY <3>1, <2>8
    <3>2. CASE i > Len(before)
      <4>1. i - Len(before) \in 1 .. Len(list) /\ i = Len(before) + (i - Len(before))
        BY <2>4, <2>8, <3>2
      <4> QED
        BY <4>1
    <3> QED
      BY <2>8, <3>1, <3>2
  <2>10. \A i \in 1 .. Len(h.list) : h.list[i].type \in W
    <3>1. \A i \in 1 .. Len(before) : before[i].type \in W
      BY <1>1, <1>2, <2>5 DEF FilledFrame
    <3>2. ASSUME NEW i \in 1 .. Len(before) PROVE h.list[i].type \in W
      BY <2>6, <2>8, <3>1
    <3>3. ASSUME NEW j \in 1 .. Len(list) PROVE h.list[Len(before) + j].type \in W
      BY <2>4, <2>6, <2>8, <3>3
    <3>4. Len(h.list) = Len(before) + Len(list)
      BY <2>6, <2>8
    <3> QED
      BY <2>9, <3>2, <3>3, <3>4
  <2>11. FilledFrame(W, h)
    BY <1>4, <2>6, <2>10 DEF FilledFrame
  <2>12. Depth' = Len(s) /\ stack'[Len(s)] = h /\ \A i \in 1 .. Len(s) : i # Len(s) => stack'[i] = s[i]
    BY <1>1, <2>3 DEF Depth
  <2> QED
    BY <2>11, <2>12 DEF FilledStack
<1> QED
  BY <1>3, <1>4

LEMMA DecListEndFills ==
  ASSUME NEW U, Typed(U), Shape, Pending, NEW W, Whole(W), Filled(W), DecListEnd
  PROVE  Fills'
<1>1. FilledStack(W) /\ FilledVals(W) /\ FilledMaps(W) /\ clock \in Nat
  BY DEF Filled, Typed
<1>2. PICK list : list = Top.list
  OBVIOUS
<1>3. /\ Depth > 1 /\ stack' = WithMembers(Keep(Depth - 1), list)
      /\ var_map' = UpdateVariable(var_map, list, clock)
      /\ UNCHANGED <<structure_map, vals>>
  BY <1>2 DEF DecListEnd
<1>4. list \in Seq(Local(U)) /\ \A i \in 1 .. Len(list) : list[i].type \in W
  <2>1. Depth > 0 /\ Top.list \in Seq(Local(U))
    BY DeclaringEffect
  <2>2. FilledFrame(W, Top)
    BY <1>1, <2>1, TopFilled
  <2> QED
    BY <1>2, <2>1, <2>2 DEF FilledFrame
<1>5. FilledStack(W)'
  <2>1. Depth \in Nat /\ Depth - 1 \in 0 .. Depth /\ Depth - 1 > 0
    BY <1>3, Places
  <2>2. PICK s \in Seq(Frame(U)) : /\ s = Keep(Depth - 1) /\ Len(s) > 0
                                   /\ \A i \in 1 .. Len(s) : FilledFrame(W, s[i])
    BY <1>1, <2>1, KeptFrames
  <2> QED
    BY <1>3, <1>4, <2>2, MembersFilled
<1>6. FilledVals(W)'
  BY <1>1, <1>3 DEF FilledVals, NVals
<1>7. \A e \in UpdateVariable(var_map, list, clock) : e.type \in W
  <2>1. list \in Seq(Entry(U))
    BY <1>4, SeqMonotonic DEF Entry
  <2> QED
    BY <1>1, <1>4, <2>1, InsertedFilled DEF FilledMaps
<1>8. FilledMaps(W)'
  BY <1>1, <1>3, <1>7 DEF FilledMaps
<1> QED
  BY <1>5, <1>6, <1>8 DEF Fills, Filled

LEMMA StructEndFills ==
  ASSUME NEW U, Typed(U), Shape, NEW W, Whole(W), Filled(W), StructEnd
  PROVE  Fills'
<1>1. TopIs({"struct"}) /\ vals' = vals
  BY DEF StructEnd
<1>2. PICK type : type = CStructure(Top.name, Top.list)
  OBVIOUS
<1>3. stack' = Append(Keep(Depth - 1), MkFrame("def", 0, type, << >>, FALSE))
  BY <1>2 DEF StructEnd, Replace
<1>4. PICK rest, e : /\ rest \in PopResults(structure_map, global_scope_level)
                     /\ structure_map' = rest \union {e} /\ e.type = type
  <2>1. PICK e : e = [name |-> Top.name, type |-> type, level |-> global_scope_level - 1, seq |-> clock + 1]
    OBVIOUS
  <2>2. PICK rest \in PopResults(structure_map, global_scope_level) : structure_map' = rest \union {e}
    BY <1>2, <2>1 DEF StructEnd
  <2> QED
    BY <2>1, <2>2
<1>5. PICK v \in PopResults(var_map, global_scope_level) : var_map' = v
  BY DEF StructEnd
<1>6. PICK V : V = W \union {type}
  OBVIOUS
<1>7. Whole(V)
  <2>1. FilledFrame(W, Top) /\ Top \in Frame(U) /\ Top.kind = "struct"
    BY <1>1, TopFilled DEF TopIs, Filled
  <2>2. Top.list \in Seq(Member(U))
    BY <2>1 DEF Frame, FrameOK
  <2>3. \A i \in DOMAIN Top.list : Top.list[i].type \in W
    BY <2>1, <2>2 DEF FilledFrame
  <2>4. type.kind = "STRUCTURE" /\ type.fields = Top.list /\ type # EMPTY_TYPE
    BY <1>2 DEF CStructure, EMPTY_TYPE
  <2> QED
    BY <1>6, <2>3, <2>4, AddPart
<1>8. FilledStack(V) /\ FilledVals(V) /\ FilledMaps(V)
  BY <1>6, MoreFilled DEF Filled
<1>9. FilledFrame(V, MkFrame("def", 0, type, << >>, FALSE))
  BY <1>6 DEF FilledFrame, MkFrame
<1>10. FilledStack(V)'
  <2>1. Depth - 1 \in 0 .. Depth
    BY <1>1, <1>8, TopFilled DEF TopIs
  <2> QED
    BY <1>3, <1>8, <1>9, <2>1, FramesKept
<1>11. FilledVals(V)'
  BY <1>1, <1>8 DEF FilledVals, NVals
<1>12. FilledMaps(V)'
  <2>1. (\A d \in rest : d.type \in V) /\ (\A d \in v : d.type \in V)
    BY <1>4, <1>8, PopFilled DEF FilledMaps
  <2> QED
    BY <1>4, <1>5, <1>6, <2>1 DEF FilledMaps
<1> QED
  BY <1>7, <1>10, <1>11, <1>12 DEF Fills, Filled
(* Operands are found in the tables, in a type or in another operand. *)
LEMMA ValsPushed ==
  ASSUME NEW U, vals \in Seq(Operand(U)), NEW W, FilledVals(W), NEW n \in 0 .. NVals,
         NEW t \in W, NEW tag, vals' = Append(KeepVals(n), Val(t, tag))
  PROVE  FilledVals(W)'
<1>1. PICK s \in Seq(Operand(U)) : s = KeepVals(n) /\ Len(s) = n /\ \A i \in 1 .. n : s[i] = vals[i]
  <2>1. KeepVals(n) \in Seq(Operand(U)) /\ Len(KeepVals(n)) = n
    BY DEF KeepVals, NVals
  <2>2. \A i \in 1 .. n : KeepVals(n)[i] = vals[i]
    BY DEF KeepVals, NVals
  <2> QED
    BY <2>1, <2>2
<1>2. PICK v : v = Val(t, tag) /\ v.type = t
  BY DEF Val
<1>3. vals' = Append(s, v)
  BY <1>1, <1>2
<1>4. NVals' = n + 1 /\ n \in Nat /\ vals'[n + 1] = v /\ \A i \in 1 .. n : vals'[i] = vals[i]
  BY <1>1, <1>3, Appended DEF NVals
<1>5. \A i \in 1 .. n : i \in 1 .. NVals
  BY ValsAre
<1>6. \A i \in 1 .. n + 1 : i \in 1 .. n \/ i = n + 1
  BY <1>4
<1> QED
  BY <1>2, <1>4, <1>5, <1>6 DEF FilledVals

LEMMA ReturnsFilled ==
  ASSUME NEW U, vals \in Seq(Operand(U)), NEW W, FilledVals(W), NEW k \in Nat, Have(k),
         NEW t \in W, Returns(k, t)
  PROVE  FilledVals(W)'
<1>1. NVals - k \in 0 .. NVals
  BY HaveIs, ValsAre
<1>2. PICK n : n = NVals - k
  OBVIOUS
<1>3. vals' = Append(KeepVals(n), Val(t, "value"))
  BY <1>2 DEF Returns
<1> QED
  BY <1>1, <1>2, <1>3, ValsPushed

LEMMA LastFilled ==
  ASSUME NEW U, vals \in Seq(Operand(U)), NEW W, FilledVals(W)
  PROVE  /\ \A k \in Nat : Have(k) /\ k > 0 => Last_val.type \in W
         /\ NVals > 1 \/ Have(2) => vals[NVals - 1].type \in W
<1>1. NVals \in Nat
  BY ValsAre
<1>2. \A k \in Nat : Have(k) => k <= NVals
  BY HaveIs
<1>3. \A k \in Nat : Have(k) /\ k > 0 => NVals \in 1 .. NVals
  BY <1>1, <1>2
<1>4. NVals > 1 \/ Have(2) => NVals - 1 \in 1 .. NVals
  BY <1>1, <1>2
<1> QED
  BY <1>3, <1>4 DEF FilledVals, Last_val

LEMMA VariableFilled ==
  ASSUME NEW U, Typed(U), NEW W, FilledMaps(W), NEW n, NEW args, NEW call,
         GetVariable(var_map, n, args, call).flag = OK
  PROVE  GetVariable(var_map, n, args, call).type \in W
<1>1. GetVariable(var_map, n, args, call).type \in {e.type : e \in Named(var_map, n)}
  BY EntryTypes, FoundIs
<1> QED
  BY <1>1 DEF FilledMaps, Named

LEMMA MemberFilled ==
  ASSUME NEW U, Typed(U), NEW W, Whole(W), NEW t \in W, t \in U, t.kind = "STRUCTURE",
         NEW n, Members(t, n) # {}
  PROVE  GetMemberType(t, n) \in W
<1>1. MadeOf(U, t)
  BY DEF Typed, Closed
<1>2. t.fields \in Seq(Member(U))
  BY <1>1 DEF MadeOf, EMPTY_TYPE
<1>3. DOMAIN t.fields \in SUBSET Nat
  BY <1>2
<1>4. PICK i \in DOMAIN t.fields : GetMemberType(t, n) = t.fields[i].type
  BY <1>3, GetMemberTypeIs
<1> QED
  BY <1>4 DEF Whole

LEMMA CombineFilled ==
  ASSUME NEW U, vals \in Seq(Operand(U)), NEW W, FilledVals(W), reply'.codes = << >>,
         NEW code \in {UNMATCHING_TYPE_ON_ASSIGN, UNMATCHING_OPERANDS},
         NVals > 1 \/ Have(2), Combine(code)
  PROVE  FilledVals(W)'
<1>1. PICK left, same : /\ left = vals[NVals - 1].type
                        /\ Returns(2, IF same THEN left ELSE EMPTY_TYPE)
                        /\ reply' = Report(IF same THEN OK ELSE code)
  BY DEF Combine
<1>2. code # OK
  BY DEF UNMATCHING_TYPE_ON_ASSIGN, UNMATCHING_OPERANDS, OK
<1>3. same
  BY <1>1, <1>2, SaysNothing
<1>4. left \in W /\ Returns(2, left)
  BY <1>1, <1>3, LastFilled
<1>5. NVals - 2 \in 0 .. NVals
  BY ValsAre, HaveIs
<1>6. PICK n : n = NVals - 2 /\ vals' = Append(KeepVals(n), Val(left, "value"))
  BY <1>4 DEF Returns
<1> QED
  BY <1>4, <1>5, <1>6, ValsPushed

LEMMA ExpressionFills ==
  ASSUME NEW U, Typed(U), NEW W, Whole(W), Filled(W), reply'.codes = << >>, Expressions
  PROVE  FilledVals(W)'
<1>1. FilledVals(W) /\ FilledMaps(W) /\ vals \in Seq(Operand(U)) /\ NVals \in Nat
  BY ValsAre DEF Filled, Typed
<1>2. ASSUME NEW t \in Prims, Literal(t) PROVE FilledVals(W)'
  <2>1. vals' = Append(KeepVals(NVals), Val(CPrimitive(t), "literal"))
    BY <1>1, <1>2 DEF Literal, KeepVals, NVals
  <2>2. CPrimitive(t) \in W /\ NVals \in 0 .. NVals
    BY <1>1 DEF Whole
  <2> QED
    BY <1>1, <2>1, <2>2, ValsPushed
<1>3. ASSUME NEW n \in Names, Variable(n) PROVE FilledVals(W)'
  <2>1. PICK found : /\ found = GetVariable(var_map, n, << >>, FALSE)
                     /\ vals' = Append(vals, Val(found.type, "value")) /\ reply' = Answer(found)
    BY <1>3 DEF Variable
  <2>2. found.flag = OK
    BY <2>1, SaysNothing
  <2>3. found.type \in W
    BY <1>1, <2>1, <2>2, VariableFilled
  <2>4. KeepVals(NVals) = vals /\ NVals \in 0 .. NVals
    BY <1>1 DEF KeepVals, NVals
  <2> QED
    BY <1>1, <2>1, <2>3, <2>4, ValsPushed
<1>4. ASSUME NEW n \in Names, NEW k \in 0 .. MaxVals, Call(n, k) PROVE FilledVals(W)'
  <2>1. PICK found : /\ found = GetVariable(var_map, n, Args(k), TRUE)
                     /\ Returns(k, found.type) /\ reply' = Answer(found)
    BY <1>4 DEF Call
  <2>2. found.flag = OK
    BY <2>1, SaysNothing
  <2>3. found.type \in W
    BY <1>1, <2>1, <2>2, VariableFilled
  <2>4. k \in Nat /\ Have(k)
    BY <1>4, BoundsAssumption DEF Call
  <2> QED
    BY <1>1, <2>1, <2>3, <2>4, ReturnsFilled
<1>5. ASSUME NEW n \in Names, Dot(n) PROVE FilledVals(W)'
  <2>1. PICK type : type = Last_val.type
    OBVIOUS
  <2>2. Have(1) /\ type \in W /\ type \in U
    <3>1. Have(1)
      BY <1>5 DEF Dot
    <3>2. NVals \in 1 .. NVals
      BY <1>1, <3>1, HaveIs
    <3> QED
      BY <1>1, <2>1, <3>1, <3>2, LastFilled, ValsAre DEF Last_val
  <2>3. type.kind = "STRUCTURE" /\ Members(type, n) # {} /\ Returns(1, GetMemberType(type, n))
    <3>1. \A code \in 1 .. 15 : reply' # Report(code)
      BY SaysNothing DEF OK
    <3>2. reply' # Report(ACCESSING_MEMBER_OF_NON_STRUCTURE_VAR) /\ reply' # Report(STRUCTURE_NOT_FOUND)
      BY <3>1 DEF ACCESSING_MEMBER_OF_NON_STRUCTURE_VAR, STRUCTURE_NOT_FOUND
    <3> QED
      BY <1>5, <2>1, <3>2 DEF Dot
  <2>4. GetMemberType(type, n) \in W
    BY <2>2, <2>3, MemberFilled
  <2> QED
    BY <1>1, <2>2, <2>3, <2>4, ReturnsFilled
<1>6. CASE Unary
  BY <1>1, <1>6, LastFilled, ReturnsFilled DEF Unary
<1>7. CASE Index
  <2>1. PICK type : type = vals[NVals - 1].type
    OBVIOUS
  <2>2. Have(2) /\ type \in W
    BY <1>1, <1>7, <2>1, LastFilled DEF Index
  <2>3. type.kind = "ARRAY" /\ Returns(2, type.base)
    <3>1. \A code \in 1 .. 15 : reply' # Report(code)
      BY SaysNothing DEF OK
    <3>2. reply' # Report(APPLY_INDEXING_WITH_NON_INT) /\ reply' # Report(APPLYING_INDEXING_FOR_NON_ARRAY)
      BY <3>1 DEF APPLY_INDEXING_WITH_NON_INT, APPLYING_INDEXING_FOR_NON_ARRAY
    <3> QED
      BY <1>7, <2>1, <3>2 DEF Index
  <2>4. type.base \in W
    BY <2>2, <2>3 DEF Whole
  <2> QED
    BY <1>1, <2>2, <2>3, <2>4, ReturnsFilled
<1>8. CASE AssignLeft
  <2>1. Have(1) /\ vals' = Append(KeepVals(NVals - 1), Val(Last_val.type, "assigned"))
    BY <1>8, SaysNothing DEF AssignLeft, RVALUE_ON_THE_LEFT, OK
  <2>2. Last_val.type \in W /\ NVals - 1 \in 0 .. NVals
    BY <1>1, <2>1, LastFilled, HaveIs
  <2>3. PICK n, t : n = NVals - 1 /\ t = Last_val.type
    OBVIOUS
  <2> QED
    BY <1>1, <2>1, <2>2, <2>3, ValsPushed
<1>9. CASE Assign
  BY <1>1, <1>9, CombineFilled DEF Assign
<1>10. CASE Binary
  BY <1>1, <1>10, CombineFilled DEF Binary
<1> QED
  BY <1>2, <1>3, <1>4, <1>5, <1>6, <1>7, <1>8, <1>9, <1>10 DEF Expressions
LEMMA NextFills ==
  ASSUME IInv, Fills, Next, reply'.codes = << >>
  PROVE  Fills'
<1>1. PICK U : Typed(U)
  BY DEF IInv
<1>2. Shape /\ Pending
  BY DEF IInv
<1>3. PICK W : Whole(W) /\ Filled(W)
  BY DEF Fills
<1>4. ASSUME UNCHANGED <<stack, vals>>, UNCHANGED <<var_map, structure_map>> PROVE Fills'
  BY <1>3, <1>4 DEF Fills, Filled, FilledStack, FilledVals, FilledMaps, Depth, NVals
<1>5. CASE Declarations
  BY <1>1, <1>2, <1>3, <1>5, SpecifierFills, DecStartFills, DecEndFills, StructEndFills, DecListEndFills,
     ScopeEndFills, FunDecFills, FunEndFills DEF Declarations
<1>6. CASE Statements
  <2>1. CASE ExpStmt \/ Return
    <3>1. vals' = << >> /\ UNCHANGED <<var_map, structure_map, stack>>
      BY <2>1 DEF ExpStmt, Return, tables
    <3>2. NVals' = 0
      BY <3>1 DEF NVals
    <3> QED
      BY <1>3, <3>1, <3>2 DEF Fills, Filled, FilledStack, FilledVals, FilledMaps, Depth
  <2> QED
    BY <1>1, <1>2, <1>3, <1>6, <2>1, SpecifierFills, DefListEndFills, ScopeEndFills DEF Statements
<1>7. CASE Expressions
  <2>1. UNCHANGED <<var_map, structure_map, stack>>
    BY <1>1, <1>7, ExpressionStep DEF tables
  <2>2. FilledVals(W)'
    BY <1>1, <1>3, <1>7, ExpressionFills
  <2> QED
    BY <1>3, <2>1, <2>2 DEF Fills, Filled, FilledStack, FilledMaps, Depth
<1>8. CASE Die \/ Finish
  BY <1>4, <1>8 DEF Die, Finish, tables
<1> QED
  BY <1>5, <1>6, <1>7, <1>8 DEF Next

LEMMA InitFills == Init => Fills
<1> SUFFICES ASSUME Init PROVE Fills
  OBVIOUS
<1>1. PICK W : W = BasicParts
  OBVIOUS
<1>3. Whole(W)
  <2>1. (\A t \in Prims : CPrimitive(t) \in W)
        /\ \A params \in ParamLists : \A i \in DOMAIN params : params[i].type \in W
    BY <1>1 DEF BasicParts, BasicTypes
  <2>2. \A t : Primitive(t) => t.kind = "PRIMITIVE"
    BY DEF Primitive
  <2>3. \A t \in W : t.kind = "PRIMITIVE" \/ (t.kind = "ARRAY" /\ t.base \in W)
    BY <1>1, <2>2, BasicAre
  <2>4. EMPTY_TYPE.kind = "EMPTY"
    BY DEF EMPTY_TYPE
  <2> QED
    BY <2>1, <2>3, <2>4 DEF Whole
<1>4. Filled(W)
  <2>1. Depth = 0 /\ NVals = 0 /\ var_map = {} /\ structure_map = {}
    BY DEF Init, Depth, NVals
  <2> QED
    BY <2>1 DEF Filled, FilledStack, FilledVals, FilledMaps
<1> QED
  BY <1>3, <1>4 DEF Fills

LEMMA FillsMeans ==
  ASSUME NEW U, Typed(U), clean => Fills
  PROVE  EmptyMeansReported
<1> SUFFICES ASSUME Fills
             PROVE  /\ \A i \in 1 .. NVals : vals[i].type # EMPTY_TYPE
                    /\ \A e \in var_map : e.type # EMPTY_TYPE
                    /\ \A i \in DOMAIN stack :
                         stack[i].kind \in {"def", "dec"} => stack[i].type # EMPTY_TYPE
  BY DEF EmptyMeansReported
<1>1. PICK W : Whole(W) /\ FilledStack(W) /\ FilledVals(W) /\ FilledMaps(W)
  BY DEF Fills, Filled
<1>2. DOMAIN stack = 1 .. Depth
  BY DEF Typed, Depth
<1>3. \A i \in DOMAIN stack : stack[i].kind \in {"def", "dec"} => stack[i].type \in W
  BY <1>1, <1>2 DEF FilledStack, FilledFrame
<1>4. (\A i \in 1 .. NVals : vals[i].type \in W) /\ (\A e \in var_map : e.type \in W)
  BY <1>1 DEF FilledVals, FilledMaps
<1>5. \A t \in W : t # EMPTY_TYPE
  BY <1>1 DEF Whole
<1> QED
  BY <1>3, <1>4, <1>5

(* The types of a program that nothing was reported for are all known. *)
FilledWhileClean == clean => Fills

(***************************************************************************)
(* The walk never loses an error: an operand, an entry or a declaration    *)
(* without a type means that something was printed, whatever the depth of  *)
(* the program and whatever PopScope leaves in the tables.                 *)
(***************************************************************************)
THEOREM EmptyMeansReportedHolds == TSpec => []EmptyMeansReported
<1>1. TInit => IInv /\ FilledWhileClean
  BY TInitIInv, InitFills DEF TInit, FilledWhileClean
<1>2. IInv /\ FilledWhileClean /\ [TNext]_tvars => IInv' /\ FilledWhileClean'
  <2> SUFFICES ASSUME IInv, FilledWhileClean, [TNext]_tvars PROVE IInv' /\ FilledWhileClean'
    OBVIOUS
  <2>1. IInv'
    BY TNextIInv
  <2>2. CASE TNext
    <3> SUFFICES ASSUME clean' PROVE Fills'
      BY <2>1 DEF FilledWhileClean
    <3>1. Next /\ clean /\ reply'.codes = << >>
      BY <2>2 DEF TNext
    <3> QED
      BY <3>1, NextFills DEF FilledWhileClean
  <2>3. CASE UNCHANGED tvars
    BY <2>1, <2>3 DEF tvars, vars, tables, FilledWhileClean, Fills, Filled, FilledStack, FilledVals, FilledMaps, Depth, NVals
  <2> QED
    BY <2>1, <2>2, <2>3
<1>3. IInv /\ FilledWhileClean => EmptyMeansReported
  BY FillsMeans DEF IInv, FilledWhileClean
<1> QED
  BY <1>1, <1>2, <1>3, PTL DEF TSpec
-----------------------------------------------------------------------------
(***************************************************************************)
(* The structure of a variable is in the table for as long as the variable *)
(* is.  LiveTypes is not inductive: the type of a variable was taken from  *)
(* the table when its specifier was read, and the type of a function, put  *)
(* into the table when its body is over, before the body.                  *)
(***************************************************************************)
InTable(m, type, level) ==
  type.kind = "STRUCTURE" => \E s \in m : s.type = type /\ s.level <= level

LiveEntries == \A e \in var_map : InTable(structure_map, ElementType(e.type), e.level)

LiveDefinition ==
  Depth > global_scope_level =>
    InTable(structure_map, stack[global_scope_level + 1].type, global_scope_level)

LiveFunction ==
  \A i \in 1 .. Depth : stack[i].kind = "fun" => InTable(structure_map, stack[i].type, 0)

Live == LiveEntries /\ LiveDefinition /\ LiveFunction

(* The open calls of functions, and the list of declarations, after a step. *)
FunsKept ==
  \A i \in 1 .. Depth' :
    stack'[i].kind = "fun" => /\ i \in 1 .. Depth
                              /\ stack[i].kind = "fun"
                              /\ stack'[i].type = stack[i].type
                              /\ stack'[i].list = stack[i].list

DefKept ==
  Depth' > global_scope_level' =>
    /\ global_scope_level' = global_scope_level
    /\ Depth > global_scope_level
    /\ stack'[global_scope_level + 1].type = stack[global_scope_level + 1].type

LEMMA PushKeeps ==
  ASSUME NEW S, stack \in Seq(S), NEW f, f.kind # "fun", stack' = Append(stack, f)
  PROVE  FunsKept /\ Depth' = Depth + 1 /\ \A i \in 1 .. Depth : stack'[i] = stack[i]
<1>1. /\ Depth' = Depth + 1 /\ Depth \in Nat /\ stack'[Depth + 1] = f
      /\ \A i \in 1 .. Depth : stack'[i] = stack[i]
  BY Appended DEF Depth
<1>2. \A i \in 1 .. Depth + 1 : i \in 1 .. Depth \/ i = Depth + 1
  BY <1>1
<1> QED
  BY <1>1, <1>2 DEF FunsKept

LEMMA DropKeeps ==
  ASSUME NEW U, Typed(U), Shape, NEW n \in 0 .. Depth, stack' = Keep(n)
  PROVE  FunsKept /\ Depth' = n
<1>1. Len(Keep(n)) = n /\ Depth \in Nat /\ \A i \in 1 .. n : Keep(n)[i] = stack[i]
  BY FramesAre, Places
<1>2. \A i \in 1 .. n : i \in 1 .. Depth
  BY <1>1
<1> QED
  BY <1>1, <1>2 DEF FunsKept, Depth

LEMMA ReplaceKeeps ==
  ASSUME NEW U, Typed(U), Shape, NEW n \in 0 .. Depth, n < Depth, NEW f, stack' = Append(Keep(n), f),
         f.kind = "fun" => /\ stack[n + 1].kind = "fun" /\ stack[n + 1].type = f.type
                           /\ stack[n + 1].list = f.list
  PROVE  FunsKept /\ Depth' = n + 1 /\ stack'[n + 1] = f
<1>1. PICK s \in Seq(Frame(U)) : s = Keep(n) /\ Len(s) = n /\ \A i \in 1 .. n : s[i] = stack[i]
  BY FramesAre
<1>2. Depth \in Nat /\ n + 1 \in 1 .. Depth /\ \A i \in 1 .. n : i \in 1 .. Depth
  BY Places
<1>3. stack' = Append(s, f)
  BY <1>1
<1>4. Depth' = n + 1 /\ stack'[n + 1] = f /\ \A i \in 1 .. n : stack'[i] = stack[i]
  BY <1>1, <1>3, Appended DEF Depth
<1>5. \A i \in 1 .. n + 1 : i \in 1 .. n \/ i = n + 1
  OBVIOUS
<1> QED
  BY <1>2, <1>4, <1>5 DEF FunsKept

LEMMA MembersKeep ==
  ASSUME NEW U, NEW s \in Seq(Frame(U)), Len(s) > 0, NEW list \in Seq(Local(U))
  PROVE  /\ Len(WithMembers(s, list)) = Len(s)
         /\ \A i \in 1 .. Len(s) : WithMembers(s, list)[i].kind = "fun" =>
                                     WithMembers(s, list)[i] = s[i]
<1>1. Len(s) \in Nat /\ Len(s) \in 1 .. Len(s) /\ s[Len(s)] \in Frame(U)
  OBVIOUS
<1>2. PICK f : f = s[Len(s)]
  OBVIOUS
<1>3. CASE f.kind # "struct"
  BY <1>2, <1>3 DEF WithMembers
<1>4. CASE f.kind = "struct"
  <2>1. PICK h : /\ h = [f EXCEPT !.list =
                           @ \o [i \in DOMAIN list |-> [name |-> list[i].name, type |-> list[i].type]]]
                 /\ WithMembers(s, list) = [s EXCEPT ![Len(s)] = h]
    BY <1>2, <1>4 DEF WithMembers
  <2>2. h.kind = "struct"
    BY <1>1, <1>2, <1>4, <2>1 DEF Frame
  <2>3. /\ Len([s EXCEPT ![Len(s)] = h]) = Len(s) /\ [s EXCEPT ![Len(s)] = h][Len(s)] = h
        /\ \A i \in 1 .. Len(s) : i # Len(s) => [s EXCEPT ![Len(s)] = h][i] = s[i]
    BY <1>1
  <2> QED
    BY <2>1, <2>2, <2>3
<1> QED
  BY <1>3, <1>4

LEMMA OpeningKeeps ==
  ASSUME NEW U, Typed(U), Shape,
         (\E s \in SNames : StructStart(s)) \/ BlockStart \/ WhileStart
  PROVE  FunsKept /\ DefKept
<1>2. AtDef \/ AtStmt
  BY DEF StructStart, BlockStart, WhileStart
<1>3. Depth = global_scope_level /\ Depth \in Nat /\ stack \in Seq(Frame(U))
  BY <1>2, FramesAre, Places
<1>4. PICK f : f.kind # "fun" /\ stack' = Append(stack, f)
  <2>1. CASE \E s \in SNames : StructStart(s)
    <3>1. PICK s \in SNames : stack' = Append(stack, MkFrame("struct", s, EMPTY_TYPE, << >>, FALSE))
      BY <2>1 DEF StructStart, Push
    <3> QED
      BY <3>1 DEF MkFrame
  <2>2. CASE BlockStart
    BY <2>2 DEF BlockStart, Push, MkFrame
  <2>3. CASE WhileStart
    BY <2>3 DEF WhileStart, Push, MkFrame
  <2> QED
    BY <2>1, <2>2, <2>3
<1>5. global_scope_level' = global_scope_level + 1
  BY DEF StructStart, BlockStart, WhileStart, PushScope
<1>6. FunsKept /\ Depth' = Depth + 1
  BY <1>3, <1>4, PushKeeps
<1>7. ~ (Depth' > global_scope_level')
  BY <1>3, <1>5, <1>6
<1> QED
  BY <1>6, <1>7 DEF DefKept

LEMMA DecStartKeeps ==
  ASSUME NEW U, Typed(U), Shape, NEW n \in Names, NEW dims \in 0 .. 1, DecStart(n, dims)
  PROVE  FunsKept /\ DefKept
<1>1. TopIs({"def"}) /\ global_scope_level' = global_scope_level
  BY DEF DecStart, tables
<1>2. Depth = global_scope_level + 1 /\ Depth \in Nat /\ global_scope_level \in Nat
      /\ stack \in Seq(Frame(U))
  BY <1>1, FramesAre, Places
<1>3. PICK f : f.kind = "dec" /\ stack' = Append(stack, f)
  BY DEF DecStart, Push, MkFrame
<1>4. FunsKept /\ \A i \in 1 .. Depth : stack'[i] = stack[i]
  BY <1>2, <1>3, PushKeeps
<1>5. global_scope_level + 1 \in 1 .. Depth /\ Depth > global_scope_level
  BY <1>2
<1> QED
  BY <1>1, <1>4, <1>5 DEF DefKept

LEMMA DecEndKeeps ==
  ASSUME NEW U, Typed(U), Shape, DecEnd
  PROVE  FunsKept /\ DefKept
<1>1. TopIs({"dec"}) /\ global_scope_level' = global_scope_level
  BY DEF DecEnd, tables
<1>2. /\ Depth = global_scope_level + 2 /\ Depth \in Nat /\ global_scope_level \in Nat
      /\ Under = stack[global_scope_level + 1] /\ Under.kind = "def"
  BY <1>1, Places
<1>3. PICK n \in 0 .. Depth : n = global_scope_level /\ n < Depth /\ Depth - 2 = n
  BY <1>2
<1>4. PICK dec : stack' = Append(Keep(n), [Under EXCEPT !.list = Append(@, dec)])
  BY <1>3 DEF DecEnd
<1>5. PICK f : f = [Under EXCEPT !.list = Append(@, dec)]
  OBVIOUS
<1>6. f.kind = "def" /\ f.type = Under.type
  <2>1. global_scope_level + 1 \in 1 .. Depth
    BY <1>2
  <2>2. Under \in Frame(U)
    BY <1>2, <2>1, FramesAre
  <2> QED
    BY <1>2, <1>5, <2>2 DEF Frame
<1>7. FunsKept /\ Depth' = n + 1 /\ stack'[n + 1] = f
  BY <1>3, <1>4, <1>5, <1>6, ReplaceKeeps
<1>8. Depth > global_scope_level
  BY <1>2
<1> QED
  BY <1>1, <1>2, <1>3, <1>6, <1>7, <1>8 DEF DefKept

LEMMA DefListEndKeeps ==
  ASSUME NEW U, Typed(U), Shape, DefListEnd
  PROVE  FunsKept /\ DefKept
<1>1. /\ TopIs({"fun", "block"}) /\ global_scope_level' = global_scope_level
      /\ stack' = Append(Keep(Depth - 1), [Top EXCEPT !.late = TRUE])
  BY DEF DefListEnd, Replace, tables
<1>2. Depth = global_scope_level /\ Depth > 0 /\ Depth \in Nat /\ Top = stack[Depth] /\ Top \in Frame(U)
  BY <1>1, Places, FramesAre DEF ScopeKinds, Top
<1>3. PICK n \in 0 .. Depth : n = Depth - 1 /\ n < Depth /\ n + 1 = Depth
  BY <1>2
<1>4. PICK f : f = [Top EXCEPT !.late = TRUE]
  OBVIOUS
<1>5. FunsKept /\ Depth' = n + 1
  <2>1. f.kind = Top.kind /\ f.type = Top.type /\ f.list = Top.list
    BY <1>2, <1>4 DEF Frame
  <2> QED
    BY <1>1, <1>2, <1>3, <1>4, <2>1, ReplaceKeeps
<1> QED
  BY <1>1, <1>2, <1>3, <1>5 DEF DefKept

LEMMA LeavingKeeps ==
  ASSUME NEW U, Typed(U), Shape, ScopeEnd \/ FunEnd \/ ExtDefEnd
  PROVE  FunsKept /\ DefKept
<1>1. CASE ScopeEnd \/ FunEnd
  <2>1. AtStmt /\ stack' = Keep(Depth - 1) /\ global_scope_level' = global_scope_level - 1
    BY <1>1 DEF ScopeEnd, FunEnd, PopScope
  <2>2. Depth = global_scope_level /\ Depth > 0 /\ Depth \in Nat
    BY <2>1, FramesAre, Places
  <2>3. Depth - 1 \in 0 .. Depth
    BY <2>2
  <2>4. FunsKept /\ Depth' = Depth - 1
    BY <2>1, <2>3, DropKeeps
  <2> QED
    BY <2>1, <2>2, <2>4 DEF DefKept
<1>2. CASE ExtDefEnd
  <2>1. stack' = << >> /\ Depth = 1 /\ global_scope_level' = global_scope_level
        /\ TopIs({"def"})
    BY <1>2 DEF ExtDefEnd, tables
  <2>2. global_scope_level = 0 /\ Depth' = 0
    BY <2>1, Places DEF Depth
  <2> QED
    BY <2>1, <2>2 DEF FunsKept, DefKept
<1> QED
  BY <1>1, <1>2

LEMMA DecListEndKeeps ==
  ASSUME NEW U, Typed(U), Shape, Pending, DecListEnd
  PROVE  FunsKept /\ DefKept
<1>1. /\ Top.list \in Seq(Local(U)) /\ Depth = global_scope_level + 1
      /\ global_scope_level > 0 /\ global_scope_level \in Nat
  BY DeclaringEffect
<1>2. stack' = WithMembers(Keep(Depth - 1), Top.list) /\ global_scope_level' = global_scope_level
  BY DEF DecListEnd
<1>3. Depth - 1 \in 0 .. Depth /\ Depth - 1 = global_scope_level /\ Depth \in Nat
      /\ \A i \in 1 .. global_scope_level : i \in 1 .. Depth
  BY <1>1
<1>4. PICK s \in Seq(Frame(U)) : /\ s = Keep(global_scope_level) /\ Len(s) = global_scope_level
                                 /\ \A i \in 1 .. Len(s) : s[i] = stack[i]
  BY <1>3, FramesAre
<1>5. /\ Depth' = global_scope_level
      /\ \A i \in 1 .. global_scope_level : stack'[i].kind = "fun" => stack'[i] = s[i]
  BY <1>1, <1>2, <1>3, <1>4, MembersKeep DEF Depth
<1>6. FunsKept
  BY <1>3, <1>4, <1>5 DEF FunsKept
<1> QED
  BY <1>1, <1>2, <1>5, <1>6 DEF DefKept

LEMMA StillKeeps ==
  ASSUME UNCHANGED <<stack, global_scope_level>>
  PROVE  FunsKept /\ DefKept
BY DEF FunsKept, DefKept, Depth
(* A step that leaves the tables as they are, and one that closes a scope. *)
LEMMA KeptLive ==
  ASSUME Live, FunsKept, DefKept, structure_map' = structure_map, var_map' = var_map
  PROVE  Live'
<1>1. LiveEntries'
  BY DEF Live, LiveEntries
<1>2. LiveFunction'
  BY DEF Live, LiveFunction, FunsKept
<1>3. LiveDefinition'
  BY DEF Live, LiveDefinition, DefKept
<1> QED
  BY <1>1, <1>2, <1>3 DEF Live

LEMMA ClosedLive ==
  ASSUME Live, FunsKept, global_scope_level \in Nat, global_scope_level > 0,
         \A s \in structure_map : s.level \in Nat, \A e \in var_map : e.level \in Nat,
         Layered(var_map, global_scope_level),
         \A s \in Erased(structure_map, global_scope_level) : s \in structure_map'
  PROVE  /\ \A e \in Erased(var_map, global_scope_level) :
              InTable(structure_map', ElementType(e.type), e.level)
         /\ LiveFunction'
<1>1. \A t, level : InTable(structure_map, t, level) /\ level \in Nat /\ level < global_scope_level =>
                     InTable(structure_map', t, level)
  BY DEF InTable, Erased, Of
<1>2. ASSUME NEW e \in Erased(var_map, global_scope_level)
      PROVE  InTable(structure_map', ElementType(e.type), e.level)
  <2>1. e \in var_map /\ e.level \in Nat /\ e.level < global_scope_level
    BY DEF Erased, Of, Layered
  <2>2. InTable(structure_map, ElementType(e.type), e.level)
    BY <2>1 DEF Live, LiveEntries
  <2> QED
    BY <1>1, <2>1, <2>2
<1>3. LiveFunction'
  BY <1>1 DEF Live, LiveFunction, FunsKept
<1> QED
  BY <1>2, <1>3
LEMMA LevelsAre ==
  ASSUME NEW U, Typed(U), Shape
  PROVE  /\ global_scope_level \in Nat /\ clock \in Nat
         /\ \A s \in structure_map : s.level \in Nat
         /\ \A e \in var_map : e.level \in Nat
<1>1. \A e \in var_map : e.level \in Nat
  BY EntriesAre DEF Typed, Stored
<1> QED
  BY <1>1, EntryTypes DEF Shape, Typed

LEMMA SpecifierLive ==
  ASSUME NEW U, Typed(U), Shape, Layers, Live,
         \/ \E t \in Prims : TypeSpecifier(t)
         \/ \E s \in SNames : StructUse(s)
  PROVE  Live'
<1>1. /\ AtDef /\ UNCHANGED <<var_map, structure_map, global_scope_level>>
      /\ \E t : /\ stack' = Append(stack, MkFrame("def", 0, t, << >>, FALSE))
                /\ \/ t.kind = "PRIMITIVE"
                   \/ \E s \in SNames : t = GetStructure(structure_map, s).type
  <2>1. ASSUME NEW p \in Prims, TypeSpecifier(p)
        PROVE  AtDef /\ UNCHANGED <<var_map, structure_map, global_scope_level>>
               /\ stack' = Append(stack, MkFrame("def", 0, CPrimitive(p), << >>, FALSE))
    BY <2>1 DEF TypeSpecifier, Push, tables
  <2>2. \A p : CPrimitive(p).kind = "PRIMITIVE"
    BY DEF CPrimitive
  <2>3. ASSUME NEW s \in SNames, StructUse(s)
        PROVE  AtDef /\ UNCHANGED <<var_map, structure_map, global_scope_level>>
               /\ stack' = Append(stack, MkFrame("def", 0, GetStructure(structure_map, s).type, << >>, FALSE))
    BY <2>3 DEF StructUse, Push, tables
  <2> QED
    BY <2>1, <2>2, <2>3
<1>2. Depth = global_scope_level /\ Depth \in Nat /\ stack \in Seq(Frame(U))
  BY <1>1, FramesAre, Places
<1>3. PICK t, f : /\ f = MkFrame("def", 0, t, << >>, FALSE) /\ stack' = Append(stack, f)
                  /\ t.kind = "PRIMITIVE" \/ \E s \in SNames : t = GetStructure(structure_map, s).type
  BY <1>1
<1>4. f.kind = "def" /\ f.type = t
  BY <1>3 DEF MkFrame
<1>5. FunsKept
  BY <1>2, <1>3, <1>4, PushKeeps
<1>6. stack'[global_scope_level' + 1] = f
  <2>1. Append(stack, f)[Len(stack) + 1] = f /\ Len(stack) = global_scope_level
    BY <1>2, Appended DEF Depth
  <2> QED
    BY <1>1, <1>3, <2>1
<1>7. InTable(structure_map, t, global_scope_level)
  <2>1. CASE t.kind = "PRIMITIVE"
    BY <2>1 DEF InTable
  <2>2. ASSUME NEW s \in SNames, t = GetStructure(structure_map, s).type
        PROVE  InTable(structure_map, t, global_scope_level)
    <3>1. Aged(structure_map) /\ \A e \in structure_map : e.level \in Nat
      BY EntryTypes
    <3>2. CASE Named(structure_map, s) = {}
      <4>1. t = EMPTY_TYPE
        BY <2>2, <3>1, <3>2, GetStructureIs
      <4> QED
        BY <4>1 DEF EMPTY_TYPE, InTable
    <3>3. CASE Named(structure_map, s) # {}
      <4>1. PICK d : d \in Deepest(structure_map, s) /\ t = d.type
        BY <2>2, <3>1, <3>3, GetStructureIs
      <4>2. d \in structure_map /\ d.level <= global_scope_level
        BY <4>1 DEF Deepest, Named, Layers, Layered
      <4> QED
        BY <4>1, <4>2 DEF InTable
    <3> QED
      BY <3>2, <3>3
  <2> QED
    BY <1>3, <2>1, <2>2
<1>8. LiveEntries' /\ LiveFunction'
  BY <1>1, <1>5 DEF Live, LiveEntries, LiveFunction, FunsKept
<1>9. LiveDefinition'
  BY <1>1, <1>4, <1>6, <1>7 DEF LiveDefinition
<1> QED
  BY <1>8, <1>9 DEF Live

LEMMA ScopeEndLive ==
  ASSUME Exact, NEW U, Typed(U), Shape, Layers, Live, ScopeEnd
  PROVE  Live'
<1>1. Closes /\ FunsKept /\ DefKept
  BY ClosingEffect, LeavingKeeps
<1>2. /\ \A e \in Erased(var_map, global_scope_level) : InTable(structure_map', ElementType(e.type), e.level)
      /\ LiveFunction'
  BY <1>1, LevelsAre, ClosedLive DEF Closes, Layers
<1>3. LiveEntries'
  BY <1>1, <1>2 DEF Closes, LiveEntries
<1>4. LiveDefinition'
  <2>1. global_scope_level' # global_scope_level
    BY <1>1, LevelsAre DEF Closes
  <2> QED
    BY <1>1, <2>1 DEF LiveDefinition, DefKept
<1> QED
  BY <1>2, <1>3, <1>4 DEF Live

LEMMA StructEndLive ==
  ASSUME Exact, NEW U, Typed(U), Shape, Layers, Live, StructEnd
  PROVE  Live'
<1>1. PICK type, e :
        /\ e = [name |-> Top.name, type |-> type, level |-> global_scope_level', seq |-> clock + 1]
        /\ structure_map' = Erased(structure_map, global_scope_level) \union {e}
        /\ stack' = Append(Keep(Depth - 1), MkFrame("def", 0, type, << >>, FALSE))
        /\ Depth = global_scope_level
        /\ Defines
  BY DefiningEffect
<1>2. /\ global_scope_level > 0 /\ global_scope_level' = global_scope_level - 1
      /\ var_map' = Erased(var_map, global_scope_level)
      /\ global_scope_level \in Nat
  BY <1>1, LevelsAre DEF Defines
<1>3. PICK n \in 0 .. Depth : n = Depth - 1 /\ n < Depth
  BY <1>1, <1>2
<1>4. PICK f : f = MkFrame("def", 0, type, << >>, FALSE)
  OBVIOUS
<1>9. f.kind = "def" /\ f.type = type
  BY <1>4 DEF MkFrame
<1>5. FunsKept /\ Depth' = n + 1 /\ stack'[n + 1] = f
  BY <1>1, <1>3, <1>4, <1>9, ReplaceKeeps
<1>6. /\ \A d \in Erased(var_map, global_scope_level) : InTable(structure_map', ElementType(d.type), d.level)
      /\ LiveFunction'
  BY <1>1, <1>2, <1>5, LevelsAre, ClosedLive DEF Layers
<1>7. LiveEntries'
  BY <1>2, <1>6 DEF LiveEntries
<1>8. LiveDefinition'
  <2>1. e \in structure_map' /\ e.type = type /\ e.level = global_scope_level'
    BY <1>1
  <2>2. global_scope_level' <= global_scope_level'
    BY <1>2
  <2>3. InTable(structure_map', type, global_scope_level')
    BY <2>1, <2>2 DEF InTable
  <2>4. stack'[global_scope_level' + 1].type = type
    BY <1>1, <1>2, <1>3, <1>5, <1>9
  <2> QED
    BY <2>3, <2>4 DEF LiveDefinition
<1> QED
  BY <1>6, <1>7, <1>8 DEF Live

(* The entries of a list whose types are in the table at its level. *)
LEMMA InsertedLive ==
  ASSUME NEW U, NEW m, NEW v, \A e \in v : InTable(m, ElementType(e.type), e.level),
         NEW list \in Seq(Entry(U)),
         \A i \in 1 .. Len(list) : InTable(m, ElementType(list[i].type), list[i].level), NEW c \in Nat
  PROVE  \A e \in UpdateVariable(v, list, c) : InTable(m, ElementType(e.type), e.level)
<1> TAKE e \in UpdateVariable(v, list, c)
<1>1. \/ e \in v
      \/ \E i \in 1 .. Len(list) : /\ e.name = list[i].name /\ e.level = list[i].level
                                   /\ e.type = list[i].type /\ e.args = list[i].args
                                   /\ e.func = list[i].func /\ e.seq = c + i
  BY InsertedFrom
<1> QED
  BY <1>1

LEMMA FunEndLive ==
  ASSUME Exact, NEW U, Typed(U), Shape, Layers, Live, FunEnd
  PROVE  Live'
<1>1. /\ Declared(0) \in Function(U) /\ Top \in Frame(U) /\ Top.kind = "fun"
      /\ global_scope_level = 1 /\ global_scope_level' = 0
      /\ var_map' = UpdateVariable(Erased(var_map, 1), <<Declared(0)>>, clock)
      /\ structure_map' = Erased(structure_map, 1)
  BY RegisteringEffect
<1>2. FunsKept /\ DefKept
  BY LeavingKeeps
<1>3. /\ \A e \in Erased(var_map, 1) : InTable(structure_map', ElementType(e.type), e.level)
      /\ LiveFunction'
  <2>1. \A s \in Erased(structure_map, global_scope_level) : s \in structure_map'
    BY <1>1
  <2>2. global_scope_level > 0
    BY <1>1
  <2> QED
    BY <1>1, <1>2, <2>1, <2>2, LevelsAre, ClosedLive DEF Layers
<1>4. InTable(structure_map', Top.type, 0)
  <2>1. TopIs({"fun"}) /\ Depth \in Nat
    BY Places DEF FunEnd
  <2>2. Depth \in 1 .. Depth /\ Top = stack[Depth]
    BY <2>1 DEF TopIs, Top
  <2>3. InTable(structure_map, Top.type, 0)
    BY <1>1, <2>2 DEF Live, LiveFunction
  <2>4. \A s \in structure_map : s.level \in Nat /\ s.level <= 0 => s \in structure_map'
    BY <1>1 DEF Erased, Of
  <2> QED
    BY <2>3, <2>4, LevelsAre DEF InTable
<1>5. PICK list : list = <<Declared(0)>>
  OBVIOUS
<1>6. list \in Seq(Entry(U)) /\ \A i \in 1 .. Len(list) : InTable(structure_map', ElementType(list[i].type), list[i].level)
  <2>1. Declared(0).type = Top.type /\ Declared(0).level = 0
    BY DEF Declared, CVariable
  <2>2. ElementType(Top.type) = Top.type
    BY <1>1, <2>1 DEF Function, Scalars, ElementType
  <2>3. Declared(0) \in Entry(U)
    BY <1>1 DEF Entry
  <2> QED
    BY <1>4, <1>5, <2>1, <2>2, <2>3
<1>7. LiveEntries'
  <2>1. PICK m, v : m = structure_map' /\ v = Erased(var_map, 1)
    OBVIOUS
  <2>2. \A e \in UpdateVariable(v, list, clock) : InTable(m, ElementType(e.type), e.level)
    BY <1>3, <1>6, <2>1, LevelsAre, InsertedLive
  <2> QED
    BY <1>1, <1>5, <2>1, <2>2 DEF LiveEntries
<1>8. LiveDefinition'
  <2>1. global_scope_level' # global_scope_level
    BY <1>1
  <2> QED
    BY <1>2, <2>1 DEF LiveDefinition, DefKept
<1> QED
  BY <1>3, <1>7, <1>8 DEF Live

LEMMA DecListEndLive ==
  ASSUME NEW U, Typed(U), Shape, Pending, Live, DecListEnd
  PROVE  Live'
<1>1. /\ Top.list \in Seq(Local(U))
      /\ \A i \in 1 .. Len(Top.list) : /\ Top.list[i].level = global_scope_level
                                       /\ Top.list[i].type \in OfSpecifier(Top.type)
      /\ Top \in Frame(U) /\ Top.kind = "def" /\ Depth = global_scope_level + 1
      /\ global_scope_level \in Nat
  BY DeclaringEffect
<1>2. /\ var_map' = UpdateVariable(var_map, Top.list, clock)
      /\ UNCHANGED <<structure_map, global_scope_level>>
  BY DEF DecListEnd
<1>3. FunsKept /\ DefKept
  BY DecListEndKeeps
<1>4. InTable(structure_map, Top.type, global_scope_level)
  <2>1. Depth > global_scope_level /\ Top = stack[global_scope_level + 1]
    BY <1>1 DEF Top
  <2> QED
    BY <2>1 DEF Live, LiveDefinition
<1>5. \A t \in OfSpecifier(Top.type) : ElementType(t) = Top.type
  <2>1. Top.type.kind # "ARRAY"
    BY <1>1 DEF Frame, FrameOK, Specified, Scalars
  <2>2. \A u : CArray(u).kind = "ARRAY" /\ CArray(u).base = u
    BY DEF CArray
  <2> QED
    BY <2>1, <2>2 DEF OfSpecifier, ElementType
<1>6. PICK list : list = Top.list
  OBVIOUS
<1>7. list \in Seq(Entry(U)) /\ \A i \in 1 .. Len(list) : InTable(structure_map, ElementType(list[i].type), list[i].level)
  BY <1>1, <1>4, <1>5, <1>6, SeqMonotonic DEF Entry
<1>8. LiveEntries'
  <2>1. \A e \in UpdateVariable(var_map, list, clock) : InTable(structure_map, ElementType(e.type), e.level)
    BY <1>7, LevelsAre, InsertedLive DEF Live, LiveEntries
  <2> QED
    BY <1>2, <1>6, <2>1 DEF LiveEntries
<1>9. LiveFunction'
  BY <1>2, <1>3 DEF Live, LiveFunction, FunsKept
<1>10. LiveDefinition'
  BY <1>2, <1>3 DEF Live, LiveDefinition, DefKept
<1> QED
  BY <1>8, <1>9, <1>10 DEF Live

LEMMA FunDecLive ==
  ASSUME NEW U, Typed(U), Shape, Live, NEW n \in Names, NEW params \in ParamLists, FunDec(n, params)
  PROVE  Live'
<1>1. /\ global_scope_level = 0 /\ global_scope_level' = 1
      /\ var_map' = UpdateVariable(var_map, Parameters(params, 1), clock)
      /\ structure_map' = structure_map
      /\ Len(stack') = 1
  BY EnteringEffect
<1>2. PICK args : args = Parameters(params, 1)
  OBVIOUS
<1>3. args \in Seq(Entry(U)) /\ \A i \in 1 .. Len(args) : InTable(structure_map, ElementType(args[i].type), args[i].level)
  <2>1. args \in Seq(Local(U)) /\ Len(args) = Len(params)
    <3>1. Closed(U)
      BY DEF Typed
    <3> QED
      BY <1>2, <3>1, ParametersAre
  <2>2. args \in Seq(Entry(U))
    BY <2>1, SeqMonotonic DEF Entry
  <2>3. \A i \in DOMAIN params : args[i].type = params[i].type
    BY <1>2 DEF Parameters, CVariable
  <2>4. DOMAIN params = 1 .. Len(params) /\ \A i \in DOMAIN params : OfParameter(params[i].type)
    BY ParamsAre
  <2>5. \A t : OfParameter(t) => ElementType(t).kind = "PRIMITIVE"
    BY DEF OfParameter, ElementType, Primitive
  <2>6. \A i \in 1 .. Len(args) : ElementType(args[i].type).kind = "PRIMITIVE"
    BY <2>1, <2>3, <2>4, <2>5
  <2> QED
    BY <2>2, <2>6 DEF InTable
<1>4. LiveEntries'
  <2>1. \A e \in UpdateVariable(var_map, args, clock) : InTable(structure_map, ElementType(e.type), e.level)
    BY <1>3, LevelsAre, InsertedLive DEF Live, LiveEntries
  <2> QED
    BY <1>1, <1>2, <2>1 DEF LiveEntries
<1>5. Depth' = 1
  BY <1>1 DEF Depth
<1>6. LiveDefinition'
  BY <1>1, <1>5 DEF LiveDefinition
<1>7. LiveFunction'
  <2>1. TopIs({"def"}) /\ Depth = 1 /\ stack' = Append(Keep(Depth - 1), MkFrame("fun", n, Top.type, args, FALSE))
    <3>1. global_scope_level + 1 = 1
      BY <1>1
    <3> QED
      BY <1>2, <3>1 DEF FunDec, Replace
  <2>2. PICK s \in Seq(Frame(U)) : s = Keep(Depth - 1) /\ Len(s) = 0
    BY <2>1, FramesAre
  <2>3. PICK f : f = MkFrame("fun", n, Top.type, args, FALSE)
    OBVIOUS
  <2>4. stack'[1] = f /\ f.type = Top.type
    <3>1. stack' = Append(s, f)
      BY <2>1, <2>2, <2>3
    <3>2. Append(s, f)[Len(s) + 1] = f /\ Len(s) + 1 = 1
      BY <2>2, Appended
    <3> QED
      BY <2>3, <3>1, <3>2 DEF MkFrame
  <2>5. InTable(structure_map, Top.type, 0)
    <3>1. Depth > global_scope_level /\ Top = stack[global_scope_level + 1]
      BY <1>1, <2>1 DEF Top
    <3> QED
      BY <1>1, <3>1 DEF Live, LiveDefinition
  <2>6. \A i \in 1 .. 1 : i = 1
    OBVIOUS
  <2> QED
    BY <1>1, <1>5, <2>4, <2>5, <2>6 DEF LiveFunction
<1> QED
  BY <1>4, <1>6, <1>7 DEF Live
LEMMA LiveStep ==
  ASSUME Exact, NEW U, Typed(U), Shape, Pending, Layers, Live, [Next]_vars
  PROVE  Live'
<1>1. CASE (\E t \in Prims : TypeSpecifier(t)) \/ (\E s \in SNames : StructUse(s))
  BY <1>1, SpecifierLive
<1>2. CASE (\E s \in SNames : StructStart(s)) \/ BlockStart \/ WhileStart
  <2>1. Opens /\ FunsKept /\ DefKept
    BY <1>2, OpeningEffect, OpeningKeeps
  <2> QED
    BY <2>1, KeptLive DEF Opens
<1>3. CASE (\E n \in Names, dims \in 0 .. 1 : DecStart(n, dims)) \/ DecEnd \/ DefListEnd \/ ExtDefEnd
  <2>1. FunsKept /\ DefKept
    BY <1>3, DecStartKeeps, DecEndKeeps, DefListEndKeeps, LeavingKeeps
  <2>2. Quiet
    BY <1>3, QuietEffect
  <2> QED
    BY <2>1, <2>2, KeptLive DEF Quiet
<1>4. CASE Expressions \/ ExpStmt \/ Return
  <2>1. UNCHANGED <<tables, stack>>
    BY <1>4, ExpressionStep
  <2> QED
    BY <2>1, StillKeeps, KeptLive DEF tables
<1>5. CASE Die \/ Finish \/ UNCHANGED vars
  <2>1. UNCHANGED <<tables, stack>>
    BY <1>5 DEF Die, Finish, vars, tables
  <2> QED
    BY <2>1, StillKeeps, KeptLive DEF tables
<1>6. CASE StructEnd \/ DecListEnd \/ FunEnd \/ ScopeEnd
  BY <1>6, StructEndLive, DecListEndLive, FunEndLive, ScopeEndLive
<1>7. CASE \E n \in Names, params \in ParamLists : FunDec(n, params)
  BY <1>7, FunDecLive
<1> QED
  BY <1>1, <1>2, <1>3, <1>4, <1>5, <1>6, <1>7 DEF Next, Declarations, Statements

(* While nothing was reported, a scope has at most one structure of a name. *)
Unique == \A d, e \in structure_map : d.name = e.name /\ d.level = e.level => d = e

LEMMA UniqueStep ==
  ASSUME Exact, NEW U, Typed(U), Shape, Pending, Unique, Next, reply'.codes = << >>
  PROVE  Unique'
<1>1. CASE StructEnd
  <2>1. PICK n, type, level, rest, e :
          /\ e = [name |-> n, type |-> type, level |-> level, seq |-> clock + 1]
          /\ rest = Erased(structure_map, global_scope_level)
          /\ structure_map' = rest \union {e}
          /\ reply' = Report(GetLocalStructure(rest, n, level))
    <3>1. global_scope_level' = global_scope_level - 1
      BY <1>1 DEF StructEnd
    <3> QED
      BY <1>1, <3>1, DefiningEffect
  <2>2. GetLocalStructure(rest, n, level) = OK
    BY <2>1, SaysNothing
  <2>3. \A d \in rest : ~ (d.name = n /\ d.level = level)
    BY <2>2 DEF GetLocalStructure, Named, OK, STRUCTURE_REDEFINED
  <2>4. e.name = n /\ e.level = level /\ \A d \in rest : d \in structure_map
    BY <2>1 DEF Erased
  <2> QED
    BY <2>1, <2>3, <2>4 DEF Unique
<1>2. CASE structure_map' \subseteq structure_map
  BY <1>2 DEF Unique
<1>3. \/ StructEnd \/ structure_map' \subseteq structure_map
  <2>1. CASE Expressions \/ Return \/ ExpStmt
    BY <2>1, ExpressionStep DEF tables
  <2>2. CASE Die \/ Finish
    BY <2>2, QuietEffect DEF Quiet
  <2>3. CASE Declarations
    <3>1. CASE FunEnd
      BY <3>1, RegisteringEffect DEF Erased
    <3>2. CASE DecListEnd
      BY <3>2 DEF DecListEnd
    <3>3. CASE \E n \in Names, params \in ParamLists : FunDec(n, params)
      BY <3>3, EnteringEffect
    <3>4. CASE \E s \in SNames : StructStart(s)
      BY <3>4, OpeningEffect DEF Opens
    <3> QED
      BY <2>3, <3>1, <3>2, <3>3, <3>4, QuietEffect DEF Declarations, Quiet
  <2>4. CASE DefListEnd \/ BlockStart \/ WhileStart \/ ScopeEnd
    BY <2>4, QuietEffect, OpeningEffect, ClosingEffect DEF Quiet, Opens, Closes, Erased
  <2> QED
    BY <2>1, <2>2, <2>3, <2>4 DEF Next, Statements
<1> QED
  BY <1>1, <1>2, <1>3

UniqueWhileClean == clean => Unique

TypesInv == IInv /\ Layers /\ Live /\ UniqueWhileClean

LEMMA InitTypesInv == TInit => TypesInv
<1> SUFFICES ASSUME TInit PROVE TypesInv
  OBVIOUS
<1>1. /\ var_map = {} /\ structure_map = {} /\ global_scope_level = 0 /\ Depth = 0
  BY DEF TInit, Init, Depth
<1>2. Layers
  BY <1>1 DEF Layers, Layered
<1>3. Live
  BY <1>1 DEF Live, LiveEntries, LiveDefinition, LiveFunction
<1> QED
  BY <1>1, <1>2, <1>3, TInitIInv DEF TypesInv, UniqueWhileClean, Unique

LEMMA NextTypesInv ==
  ASSUME Exact, TypesInv, [TNext]_tvars
  PROVE  TypesInv'
<1>1. PICK U : Typed(U)
  BY DEF TypesInv, IInv
<1>2. Shape /\ Pending /\ Layers /\ Live /\ UniqueWhileClean /\ IInv
  BY DEF TypesInv, IInv
<1>3. [Next]_vars
  BY TStepIs
<1>4. IInv' /\ Layers' /\ Live'
  BY <1>1, <1>2, <1>3, TNextIInv, LayersStep, LiveStep
<1>5. UniqueWhileClean'
  <2>1. CASE TNext
    <3> SUFFICES ASSUME clean' PROVE Unique'
      BY DEF UniqueWhileClean
    <3>1. Next /\ clean /\ reply'.codes = << >>
      BY <2>1 DEF TNext
    <3> QED
      BY <1>1, <1>2, <3>1, UniqueStep DEF UniqueWhileClean
  <2>2. CASE UNCHANGED tvars
    BY <1>2, <2>2 DEF tvars, vars, tables, UniqueWhileClean, Unique
  <2> QED
    BY <2>1, <2>2
<1> QED
  BY <1>4, <1>5 DEF TypesInv

LEMMA LiveMeans == TypesInv => LiveTypes
<1> SUFFICES ASSUME TypesInv, NEW e \in var_map, ElementType(e.type).kind = "STRUCTURE"
             PROVE  \E s \in structure_map : s.type = ElementType(e.type) /\ s.level <= e.level
  BY DEF LiveTypes
<1>1. InTable(structure_map, ElementType(e.type), e.level)
  BY DEF TypesInv, Live, LiveEntries
<1> QED
  BY <1>1 DEF InTable

LEMMA InUse ==
  ASSUME TypesInv, NEW t \in TypesInUse, t.kind = "STRUCTURE"
  PROVE  \E d \in structure_map : d.type = t
<1>1. CASE t \in {ElementType(e.type) : e \in var_map}
  BY <1>1 DEF TypesInv, Live, LiveEntries, InTable
<1>2. CASE t \in {stack[i].type : i \in {j \in DOMAIN stack : stack[j].kind = "def"}}
  <2>1. PICK i \in DOMAIN stack : stack[i].kind = "def" /\ t = stack[i].type
    BY <1>2
  <2>2. Depth \in Nat /\ global_scope_level \in Nat /\ i \in 1 .. Depth /\ Depth <= global_scope_level + 2
    <3>1. PICK U : Typed(U)
      BY DEF TypesInv, IInv
    <3> QED
      BY <3>1, Places DEF TypesInv, IInv, Typed, Depth, Shape
  <2>3. i \notin 1 .. global_scope_level
    BY <2>1 DEF TypesInv, IInv, Shape, ScopeKinds
  <2>4. ~ (i = Depth /\ Depth = global_scope_level + 2)
    BY <2>1 DEF TypesInv, IInv, Shape, Top
  <2>5. i = global_scope_level + 1 /\ Depth > global_scope_level
    BY <2>2, <2>3, <2>4
  <2> QED
    BY <2>1, <2>5 DEF TypesInv, Live, LiveDefinition, InTable
<1> QED
  BY <1>1, <1>2 DEF TypesInUse

LEMMA ShadowedMeans == TypesInv => MixedUpIsShadowed
<1> SUFFICES ASSUME TypesInv, clean, NEW t \in TypesInUse, NEW u \in TypesInUse,
                    t # u, {t.kind, u.kind} = {"STRUCTURE"}, check_type(t, u)
             PROVE  \E d, e \in structure_map : d.type = t /\ e.type = u /\ d.level # e.level
  BY DEF MixedUpIsShadowed
<1>1. t.kind = "STRUCTURE" /\ u.kind = "STRUCTURE" /\ t.name = u.name
  BY DEF check_type
<1>2. PICK d \in structure_map, e \in structure_map : d.type = t /\ e.type = u
  BY <1>1, InUse
<1>3. PICK U : Typed(U)
  BY DEF TypesInv, IInv
<1>4. d.name = t.name /\ e.name = u.name
  BY <1>2, <1>3 DEF Typed, Stored, Structure
<1>5. d.level # e.level
  BY <1>1, <1>2, <1>4 DEF TypesInv, UniqueWhileClean, Unique
<1> QED
  BY <1>2, <1>5

(***************************************************************************)
(* No variable outlives its structure, in every program: the definition of *)
(* its type is in structure_map, in the variable's own scope or around it  *)
(* (unless PopScope steps over entries).                                   *)
(***************************************************************************)
THEOREM LiveTypesHolds ==
  ASSUME Exact
  PROVE  TSpec => []LiveTypes
<1>1. TypesInv /\ [TNext]_tvars => TypesInv'
  BY NextTypesInv
<1> QED
  BY <1>1, InitTypesInv, LiveMeans, PTL DEF TSpec

(***************************************************************************)
(* Comparing structures by their names alone (semantic.h:179-181) confuses *)
(* two types that are in use only where one shadows the other, as long as  *)
(* nothing was reported: a second definition in a scope is always reported.*)
(***************************************************************************)
THEOREM MixedUpIsShadowedHolds ==
  ASSUME Exact
  PROVE  TSpec => []MixedUpIsShadowed
<1>1. TypesInv /\ [TNext]_tvars => TypesInv'
  BY NextTypesInv
<1> QED
  BY <1>1, InitTypesInv, ShadowedMeans, PTL DEF TSpec

-----------------------------------------------------------------------------
(***************************************************************************)
(* What kills the checker.  DiesOfArrays is not inductive: an operand may  *)
(* be an array.  While the types of the table are plain, those of the      *)
(* operands are too; blocks and loops are inside of a function, so that    *)
(* RETURN compares with its type; and no operand waits where a scope is    *)
(* closed.                                                                 *)
(***************************************************************************)
Grounded ==
  \A i \in 1 .. Depth : stack[i].kind \in {"block", "while"} => stack[1].kind = "fun"

(* The first n open calls stay, and f is the kind of the next one, if there is one. *)
LEMMA GroundKept ==
  ASSUME Grounded, Depth \in Nat, NEW n \in 0 .. Depth, Depth' \in {n, n + 1},
         \A i \in 1 .. n : stack'[i].kind = stack[i].kind,
         Depth' = n + 1 /\ stack'[n + 1].kind \in {"block", "while"} => n > 0 /\ stack[1].kind = "fun"
  PROVE  Grounded'
<1> SUFFICES ASSUME NEW i \in 1 .. Depth', stack'[i].kind \in {"block", "while"}
             PROVE  stack'[1].kind = "fun"
  BY DEF Grounded
<1>1. CASE i \in 1 .. n
  <2>1. i \in 1 .. Depth /\ 1 \in 1 .. n /\ stack[i].kind \in {"block", "while"}
    BY <1>1
  <2> QED
    BY <2>1 DEF Grounded
<1>2. CASE i \notin 1 .. n
  <2>1. i = n + 1 /\ Depth' = n + 1
    BY <1>2
  <2>2. n > 0 /\ stack[1].kind = "fun"
    BY <2>1
  <2> QED
    BY <2>2
<1> QED
  BY <1>1, <1>2

LEMMA PushGrounded ==
  ASSUME NEW S, stack \in Seq(S), Grounded, NEW f, stack' = Append(stack, f),
         f.kind \in {"block", "while"} => Depth > 0 /\ stack[1].kind = "fun"
  PROVE  Grounded'
<1>1. /\ Depth' = Depth + 1 /\ Depth \in Nat /\ stack'[Depth + 1] = f
      /\ \A i \in 1 .. Depth : stack'[i] = stack[i]
  BY Appended DEF Depth
<1>2. Depth \in 0 .. Depth
  BY <1>1
<1> QED
  BY <1>1, <1>2, GroundKept

LEMMA ReplaceGrounded ==
  ASSUME NEW U, Typed(U), Shape, Grounded, NEW n \in 0 .. Depth, NEW f, stack' = Append(Keep(n), f),
         f.kind \in {"block", "while"} => n > 0 /\ stack[1].kind = "fun"
  PROVE  Grounded'
<1>1. PICK s \in Seq(Frame(U)) : s = Keep(n) /\ Len(s) = n /\ \A i \in 1 .. n : s[i] = stack[i]
  BY FramesAre
<1>2. stack' = Append(s, f)
  BY <1>1
<1>3. Depth' = n + 1 /\ stack'[n + 1] = f /\ \A i \in 1 .. n : stack'[i] = stack[i]
  BY <1>1, <1>2, Appended DEF Depth
<1>4. Depth \in Nat
  BY Places
<1> QED
  BY <1>3, <1>4, GroundKept

LEMMA DropGrounded ==
  ASSUME NEW U, Typed(U), Shape, Grounded, NEW n \in 0 .. Depth, stack' = Keep(n)
  PROVE  Grounded'
<1>1. Len(Keep(n)) = n /\ Depth \in Nat /\ \A i \in 1 .. n : Keep(n)[i] = stack[i]
  BY FramesAre, Places
<1>2. Depth' = n /\ \A i \in 1 .. n : stack'[i].kind = stack[i].kind
  BY <1>1 DEF Depth
<1> QED
  BY <1>1, <1>2, GroundKept

(* Statements are inside of a function. *)
LEMMA InFunction ==
  ASSUME NEW U, Typed(U), Shape, Grounded, Depth > 0, Top.late
  PROVE  /\ stack[1].kind = "fun" /\ 1 \in 1 .. Depth
         /\ Top.kind \in {"block", "while"} => Depth > 1
<1>1. Depth \in Nat /\ Depth \in 1 .. Depth /\ 1 \in 1 .. Depth /\ Top = stack[Depth]
  BY Places DEF Top
<1>2. Top \in Frame(U)
  BY <1>1, FramesAre
<1>3. Top.kind \in {"fun", "block", "while"}
  BY <1>2 DEF Frame, FrameOK
<1>4. Top.kind = "fun" => Depth = 1
  BY <1>1 DEF Shape
<1>5. stack[1].kind = "fun"
  BY <1>1, <1>3, <1>4 DEF Grounded
<1>6. Depth = 1 => Top.kind = "fun"
  BY <1>1, <1>5
<1> QED
  BY <1>1, <1>5, <1>6

LEMMA MembersKinds ==
  ASSUME NEW U, NEW s \in Seq(Frame(U)), Len(s) > 0, NEW list
  PROVE  /\ Len(WithMembers(s, list)) = Len(s)
         /\ \A i \in 1 .. Len(s) : WithMembers(s, list)[i].kind = s[i].kind
<1>1. Len(s) \in Nat /\ Len(s) \in 1 .. Len(s) /\ s[Len(s)] \in Frame(U)
  OBVIOUS
<1>2. PICK f : f = s[Len(s)]
  OBVIOUS
<1>3. CASE f.kind # "struct"
  BY <1>2, <1>3 DEF WithMembers
<1>4. CASE f.kind = "struct"
  <2>1. PICK h : /\ h = [f EXCEPT !.list =
                           @ \o [i \in DOMAIN list |-> [name |-> list[i].name, type |-> list[i].type]]]
                 /\ WithMembers(s, list) = [s EXCEPT ![Len(s)] = h]
    BY <1>2, <1>4 DEF WithMembers
  <2>2. h.kind = f.kind
    BY <1>1, <1>2, <2>1 DEF Frame
  <2>3. /\ Len([s EXCEPT ![Len(s)] = h]) = Len(s) /\ [s EXCEPT ![Len(s)] = h][Len(s)] = h
        /\ \A i \in 1 .. Len(s) : i # Len(s) => [s EXCEPT ![Len(s)] = h][i] = s[i]
    BY <1>1
  <2> QED
    BY <1>2, <2>1, <2>2, <2>3
<1> QED
  BY <1>3, <1>4

LEMMA DeclarationsGrounded ==
  ASSUME NEW U, Typed(U), Shape, Pending, Grounded, Declarations
  PROVE  Grounded'
<1>1. stack \in Seq(Frame(U)) /\ Depth \in Nat
  BY FramesAre, Places
<1>2. ASSUME NEW f, f.kind \in {"def", "struct", "dec"}, stack' = Append(stack, f) PROVE Grounded'
  BY <1>1, <1>2, PushGrounded
<1>3. CASE \E t \in Prims : TypeSpecifier(t)
  BY <1>2, <1>3 DEF TypeSpecifier, Push, MkFrame
<1>4. CASE \E s \in SNames : StructUse(s)
  BY <1>2, <1>4 DEF StructUse, Push, MkFrame
<1>5. CASE \E s \in SNames : StructStart(s)
  BY <1>2, <1>5 DEF StructStart, Push, MkFrame
<1>6. CASE \E n \in Names, dims \in 0 .. 1 : DecStart(n, dims)
  BY <1>2, <1>6 DEF DecStart, Push, MkFrame
<1>7. ASSUME NEW n \in 0 .. Depth, NEW f, f.kind \in {"def", "fun"}, stack' = Append(Keep(n), f)
      PROVE  Grounded'
  BY <1>7, ReplaceGrounded
<1>8. CASE StructEnd
  <2>1. Depth > 0
    BY <1>8 DEF StructEnd, TopIs
  <2>2. PICK n \in 0 .. Depth : n = Depth - 1
    BY <1>1, <2>1
  <2>3. PICK t : stack' = Append(Keep(n), MkFrame("def", 0, t, << >>, FALSE))
    BY <1>8, <2>2 DEF StructEnd, Replace
  <2> QED
    BY <1>7, <2>3 DEF MkFrame
<1>9. CASE DecEnd
  <2>1. TopIs({"dec"})
    BY <1>9 DEF DecEnd
  <2>2. /\ Depth = global_scope_level + 2 /\ global_scope_level \in Nat
        /\ Under = stack[global_scope_level + 1] /\ Under.kind = "def"
    BY <2>1, Places
  <2>3. PICK n \in 0 .. Depth : n = Depth - 2
    BY <1>1, <2>2
  <2>4. PICK dec : stack' = Append(Keep(n), [Under EXCEPT !.list = Append(@, dec)])
    BY <1>9, <2>3 DEF DecEnd
  <2>5. PICK f : f = [Under EXCEPT !.list = Append(@, dec)]
    OBVIOUS
  <2>6. global_scope_level + 1 \in 1 .. Depth
    BY <2>2
  <2>7. f.kind = "def"
    BY <2>2, <2>5, <2>6, FramesAre DEF Frame
  <2>8. stack' = Append(Keep(n), f)
    BY <2>4, <2>5
  <2> QED
    BY <1>7, <2>7, <2>8
<1>10. CASE DecListEnd
  <2>1. Depth = global_scope_level + 1 /\ global_scope_level > 0 /\ global_scope_level \in Nat
    BY <1>10, DeclaringEffect
  <2>2. PICK n \in 0 .. Depth : n = Depth - 1 /\ n > 0
    BY <1>1, <2>1
  <2>3. PICK s \in Seq(Frame(U)) : s = Keep(n) /\ Len(s) = n /\ \A i \in 1 .. n : s[i] = stack[i]
    BY FramesAre
  <2>4. stack' = WithMembers(s, Top.list)
    BY <1>10, <2>2, <2>3 DEF DecListEnd
  <2>5. Depth' = n /\ \A i \in 1 .. n : stack'[i].kind = stack[i].kind
    BY <2>2, <2>3, <2>4, MembersKinds DEF Depth
  <2> QED
    BY <1>1, <2>5, GroundKept
<1>11. CASE ExtDefEnd
  BY <1>11 DEF ExtDefEnd, Grounded, Depth
<1>12. CASE \E n \in Names, params \in ParamLists : FunDec(n, params)
  <2>1. Depth = 1 /\ \E n, t, list : stack' = Append(Keep(Depth - 1), MkFrame("fun", n, t, list, FALSE))
    BY <1>12 DEF FunDec, Replace
  <2>2. PICK n \in 0 .. Depth : n = Depth - 1
    BY <1>1, <2>1
  <2>3. PICK f : f.kind = "fun" /\ stack' = Append(Keep(n), f)
    BY <2>1, <2>2 DEF MkFrame
  <2> QED
    BY <1>7, <2>3
<1>13. CASE FunEnd
  <2>1. Depth > 0 /\ stack' = Keep(Depth - 1)
    BY <1>13 DEF FunEnd, TopIs
  <2>2. PICK n \in 0 .. Depth : n = Depth - 1
    BY <1>1, <2>1
  <2> QED
    BY <2>1, <2>2, DropGrounded
<1> QED
  BY <1>3, <1>4, <1>5, <1>6, <1>8, <1>9, <1>10, <1>11, <1>12, <1>13 DEF Declarations

LEMMA StatementsGrounded ==
  ASSUME NEW U, Typed(U), Shape, Grounded, Statements
  PROVE  Grounded'
<1>1. stack \in Seq(Frame(U)) /\ Depth \in Nat
  BY FramesAre, Places
<1>2. CASE ExpStmt \/ Return
  BY <1>2 DEF ExpStmt, Return, Grounded, Depth
<1>3. CASE BlockStart \/ WhileStart
  <2>1. Depth > 0 /\ Top.late
    BY <1>3 DEF BlockStart, WhileStart, AtStmt
  <2>2. stack[1].kind = "fun"
    BY <2>1, InFunction
  <2>3. PICK f : stack' = Append(stack, f)
    BY <1>3 DEF BlockStart, WhileStart, Push
  <2> QED
    BY <1>1, <2>1, <2>2, <2>3, PushGrounded
<1>4. CASE ScopeEnd
  <2>1. Depth > 0 /\ stack' = Keep(Depth - 1)
    BY <1>4 DEF ScopeEnd, TopIs
  <2>2. PICK n \in 0 .. Depth : n = Depth - 1
    BY <1>1, <2>1
  <2> QED
    BY <2>1, <2>2, DropGrounded
<1>5. CASE DefListEnd
  <2>1. Depth > 0 /\ stack' = Append(Keep(Depth - 1), [Top EXCEPT !.late = TRUE])
    BY <1>5 DEF DefListEnd, Replace, TopIs
  <2>2. PICK n \in 0 .. Depth : n = Depth - 1
    BY <1>1, <2>1
  <2>3. PICK f : f = [Top EXCEPT !.late = TRUE]
    OBVIOUS
  <2>4. Depth \in 1 .. Depth /\ Top = stack[Depth] /\ Top \in Frame(U)
    BY <1>1, <2>1, FramesAre DEF Top
  <2>5. f.kind = Top.kind
    BY <2>3, <2>4 DEF Frame
  <2>6. f.kind \in {"block", "while"} => n > 0 /\ stack[1].kind = "fun"
    <3>1. f.kind \in {"block", "while"} => stack[1].kind = "fun"
      BY <2>4, <2>5 DEF Grounded
    <3>2. n = 0 => f.kind = stack[1].kind
      BY <1>1, <2>2, <2>4, <2>5
    <3> QED
      BY <1>1, <2>2, <3>1, <3>2
  <2> QED
    BY <2>1, <2>2, <2>3, <2>6, ReplaceGrounded
<1> QED
  BY <1>2, <1>3, <1>4, <1>5 DEF Statements

(* Operands wait only where the innermost call takes an expression. *)
Waiting == vals # << >> => Depth > 0 /\ (Top.late \/ Top.kind = "dec")

(* Only expressions leave operands behind. *)
LEMMA NoneWaiting ==
  ASSUME NEW U, Typed(U), Shape, Waiting, Declarations \/ Statements
  PROVE  vals' = << >>
<1>1. AtDef \/ AtStmt => vals = << >>
  BY DEF AtDef, AtStmt
<1>2. ASSUME TopIs({"def", "struct"}) PROVE vals = << >>
  <2>1. Depth \in Nat /\ Depth > 0 /\ Depth \in 1 .. Depth /\ Top = stack[Depth]
    BY <1>2, Places DEF TopIs, Top
  <2>2. Top \in Frame(U) /\ Top.kind \in {"def", "struct"}
    BY <1>2, <2>1, FramesAre DEF TopIs
  <2>3. ~ Top.late
    BY <2>2 DEF Frame, FrameOK
  <2> QED
    BY <2>2, <2>3 DEF Waiting
<1>3. ASSUME TopIs({"fun", "block"}), ~ Top.late PROVE vals = << >>
  BY <1>3 DEF Waiting, TopIs
<1>4. \/ AtDef \/ AtStmt \/ TopIs({"def", "struct"}) \/ (TopIs({"fun", "block"}) /\ ~ Top.late)
      \/ DecEnd \/ ExpStmt \/ Return
  <2>1. CASE Declarations
    BY <2>1 DEF Declarations, TypeSpecifier, StructUse, StructStart, StructEnd, DecStart, DecListEnd,
                ExtDefEnd, FunDec, FunEnd, TopIs
  <2>2. CASE Statements
    BY <2>2 DEF Statements, DefListEnd, BlockStart, WhileStart, ScopeEnd
  <2> QED
    BY <2>1, <2>2
<1>5. vals' = vals \/ vals' = << >>
  <2>1. CASE Declarations
    BY <2>1 DEF Declarations, TypeSpecifier, StructUse, StructStart, StructEnd, DecStart, DecEnd, DecListEnd,
                ExtDefEnd, FunDec, FunEnd
  <2>2. CASE Statements
    BY <2>2 DEF Statements, DefListEnd, BlockStart, WhileStart, ScopeEnd, ExpStmt, Return
  <2> QED
    BY <2>1, <2>2
<1>6. DecEnd \/ ExpStmt \/ Return => vals' = << >>
  BY DEF DecEnd, ExpStmt, Return
<1> QED
  BY <1>1, <1>2, <1>3, <1>4, <1>5, <1>6

LEMMA WaitingStep ==
  ASSUME NEW U, Typed(U), Shape, Waiting, Next
  PROVE  Waiting'
<1>1. CASE Declarations \/ Statements
  BY <1>1, NoneWaiting DEF Waiting
<1>2. CASE Expressions
  <2>1. UNCHANGED stack /\ InExp
    BY <1>2 DEF Expressions, Literal, Variable, Call, Dot, Unary, Index, AssignLeft, Assign, Binary, Combine
  <2> QED
    BY <2>1 DEF Waiting, InExp, Depth, Top
<1>3. CASE Die \/ Finish
  BY <1>3 DEF Die, Finish, Waiting, Depth, Top
<1> QED
  BY <1>1, <1>2, <1>3 DEF Next

-----------------------------------------------------------------------------
(***************************************************************************)
(* The parameters of an open function stay in the table until its body is  *)
(* over: no scope inside it has their level.                               *)
(***************************************************************************)
ParamsKnown ==
  \A i \in 1 .. Depth : stack[i].kind = "fun" =>
    \A j \in DOMAIN stack[i].list : \E e \in var_map : e.level = 1 /\ e.type = stack[i].list[j].type

LEMMA ParamsKept ==
  ASSUME ParamsKnown, FunsKept, \A e \in var_map : e.level = 1 => e \in var_map'
  PROVE  ParamsKnown'
<1> SUFFICES ASSUME NEW i \in 1 .. Depth', stack'[i].kind = "fun", NEW j \in DOMAIN stack'[i].list
             PROVE  \E e \in var_map' : e.level = 1 /\ e.type = stack'[i].list[j].type
  BY DEF ParamsKnown
<1>1. i \in 1 .. Depth /\ stack[i].kind = "fun" /\ stack'[i].list = stack[i].list
  BY DEF FunsKept
<1>2. PICK e \in var_map : e.level = 1 /\ e.type = stack[i].list[j].type
  BY <1>1 DEF ParamsKnown
<1> QED
  BY <1>1, <1>2

LEMMA ParamsClosed ==
  ASSUME ParamsKnown, FunsKept, Depth \in Nat, Depth > 0, Top.kind # "fun",
         var_map' \in PopResults(var_map, Depth)
  PROVE  ParamsKnown'
<1>1. \A e \in Erased(var_map, Depth) : e \in var_map'
  BY DEF PopResults
<1>2. CASE Depth = 1
  <2>1. \A i \in 1 .. Depth : stack[i].kind # "fun"
    BY <1>2 DEF Top
  <2> QED
    BY <2>1 DEF ParamsKnown, FunsKept
<1>3. CASE Depth # 1
  <2>1. \A e \in var_map : e.level = 1 => e \in var_map'
    BY <1>1, <1>3 DEF Erased, Of
  <2> QED
    BY <2>1, ParamsKept
<1> QED
  BY <1>2, <1>3

LEMMA StructEndParams ==
  ASSUME NEW U, Typed(U), Shape, ParamsKnown, StructEnd
  PROVE  ParamsKnown'
<1>1. Depth = global_scope_level /\ Depth > 0 /\ Depth \in Nat /\ Top.kind # "fun"
  BY Places DEF StructEnd, ScopeKinds, TopIs
<1>2. PICK n \in 0 .. Depth : n = Depth - 1 /\ n < Depth
  BY <1>1
<1>3. var_map' \in PopResults(var_map, Depth) /\ \E t : stack' = Append(Keep(n), MkFrame("def", 0, t, << >>, FALSE))
  BY <1>1, <1>2 DEF StructEnd, Replace
<1>4. PICK f : f.kind = "def" /\ stack' = Append(Keep(n), f)
  BY <1>3 DEF MkFrame
<1>5. FunsKept
  BY <1>2, <1>4, ReplaceKeeps
<1> QED
  BY <1>1, <1>3, <1>5, ParamsClosed

LEMMA ScopeEndParams ==
  ASSUME NEW U, Typed(U), Shape, ParamsKnown, ScopeEnd \/ FunEnd
  PROVE  ParamsKnown'
<1>1. Depth = global_scope_level /\ Depth > 0 /\ Depth \in Nat /\ FunsKept
  <2>1. FunsKept
    BY LeavingKeeps
  <2>2. AtStmt
    BY DEF ScopeEnd, FunEnd
  <2>3. Depth = global_scope_level /\ Depth > 0 /\ Depth \in Nat
    BY <2>2, FramesAre, Places
  <2> QED
    BY <2>1, <2>3
<1>2. CASE ScopeEnd
  <2>1. Top.kind # "fun" /\ var_map' \in PopResults(var_map, global_scope_level)
    BY <1>2 DEF ScopeEnd, PopScope, TopIs
  <2> QED
    BY <1>1, <2>1, ParamsClosed
<1>3. CASE FunEnd
  <2>1. Depth = 1 /\ stack' = Keep(Depth - 1)
    BY <1>3, DeclaredIs DEF FunEnd
  <2>2. Depth' = 0
    BY <2>1, DropKeeps
  <2> QED
    BY <2>2 DEF ParamsKnown
<1> QED
  BY <1>2, <1>3

LEMMA FunDecParams ==
  ASSUME NEW U, Typed(U), Shape, NEW n \in Names, NEW params \in ParamLists, FunDec(n, params)
  PROVE  ParamsKnown'
<1>1. global_scope_level = 0 /\ var_map' = UpdateVariable(var_map, Parameters(params, 1), clock)
  BY EnteringEffect
<1>2. PICK args : args = Parameters(params, 1)
  OBVIOUS
<1>3. Closed(U) /\ args \in Seq(Local(U)) /\ Len(args) \in Nat
  <2>1. Closed(U)
    BY DEF Typed
  <2>2. args \in Seq(Local(U))
    BY <1>2, <2>1, ParametersAre
  <2> QED
    BY <2>1, <2>2
<1>4. Depth = 1 /\ stack' = Append(Keep(Depth - 1), MkFrame("fun", n, Top.type, args, FALSE))
  <2>1. global_scope_level + 1 = 1
    BY <1>1
  <2> QED
    BY <1>2, <2>1 DEF FunDec, Replace
<1>5. PICK f : f = MkFrame("fun", n, Top.type, args, FALSE)
  OBVIOUS
<1>6. PICK s \in Seq(Frame(U)) : s = Keep(Depth - 1) /\ Len(s) = 0
  BY <1>4, FramesAre
<1>7. stack' = Append(s, f)
  BY <1>4, <1>5, <1>6
<1>8. Depth' = 1 /\ stack'[1] = f
  BY <1>6, <1>7, Appended DEF Depth
<1>9. f.list = args
  BY <1>5 DEF MkFrame
<1>10. \A j \in 1 .. Len(args) : args[j].level = 1
  BY <1>2, <1>3, ParametersAre
<1>11. ASSUME NEW j \in 1 .. Len(args)
       PROVE  \E e \in var_map' : e.level = 1 /\ e.type = args[j].type
  <2>1. PICK e : e = [args[j] EXCEPT !.seq = clock + j]
    OBVIOUS
  <2>2. e \in var_map'
    BY <1>1, <1>2, <2>1 DEF UpdateVariable, Inserted
  <2>3. e.level = 1 /\ e.type = args[j].type
    BY <1>3, <1>10, <2>1 DEF Local
  <2> QED
    BY <2>2, <2>3
<1>12. \A i \in 1 .. Depth' : i = 1
  BY <1>8
<1>13. DOMAIN args = 1 .. Len(args)
  BY <1>3
<1> QED
  BY <1>8, <1>9, <1>11, <1>12, <1>13 DEF ParamsKnown

LEMMA ParamsStep ==
  ASSUME NEW U, Typed(U), Shape, Pending, ParamsKnown, Next
  PROVE  ParamsKnown'
<1>1. ASSUME FunsKept, var_map' = var_map PROVE ParamsKnown'
  BY <1>1, ParamsKept
<1>2. CASE (\E t \in Prims : TypeSpecifier(t)) \/ (\E s \in SNames : StructUse(s))
  <2>1. stack \in Seq(Frame(U)) /\ var_map' = var_map
    BY <1>2, FramesAre DEF TypeSpecifier, StructUse, tables
  <2>2. PICK f : f.kind = "def" /\ stack' = Append(stack, f)
    BY <1>2 DEF TypeSpecifier, StructUse, Push, MkFrame
  <2> QED
    BY <1>1, <2>1, <2>2, PushKeeps
<1>3. CASE (\E s \in SNames : StructStart(s)) \/ BlockStart \/ WhileStart
  <2>1. FunsKept /\ var_map' = var_map
    BY <1>3, OpeningKeeps DEF StructStart, BlockStart, WhileStart
  <2> QED
    BY <1>1, <2>1
<1>4. CASE (\E n \in Names, dims \in 0 .. 1 : DecStart(n, dims)) \/ DecEnd \/ DefListEnd \/ ExtDefEnd
  <2>1. FunsKept
    BY <1>4, DecStartKeeps, DecEndKeeps, DefListEndKeeps, LeavingKeeps
  <2>2. Quiet
    BY <1>4, QuietEffect
  <2> QED
    BY <1>1, <2>1, <2>2 DEF Quiet
<1>5. CASE Expressions \/ ExpStmt \/ Return \/ Die \/ Finish
  <2>1. UNCHANGED <<tables, stack>>
    BY <1>5, ExpressionStep DEF Die, Finish
  <2> QED
    BY <1>1, <2>1, StillKeeps DEF tables
<1>6. CASE DecListEnd
  <2>1. var_map' = UpdateVariable(var_map, Top.list, clock)
    BY <1>6 DEF DecListEnd
  <2>2. \A e \in var_map : e \in var_map'
    BY <2>1 DEF UpdateVariable
  <2> QED
    BY <1>6, <2>2, DecListEndKeeps, ParamsKept
<1>7. CASE StructEnd \/ FunEnd \/ ScopeEnd
  BY <1>7, StructEndParams, ScopeEndParams
<1>8. CASE \E n \in Names, params \in ParamLists : FunDec(n, params)
  BY <1>8, FunDecParams
<1> QED
  BY <1>2, <1>3, <1>4, <1>5, <1>6, <1>7, <1>8 DEF Next, Declarations, Statements

-----------------------------------------------------------------------------
(* W has the plain types that every program can use. *)
Plain(W) ==
  /\ EMPTY_TYPE \in W
  /\ \A t \in Prims : CPrimitive(t) \in W
  /\ \A t \in W : /\ t.kind # "ARRAY"
                  /\ t.kind = "STRUCTURE" => \A i \in DOMAIN t.fields : t.fields[i].type \in W

PlainEntries(W) ==
  \A e \in var_map : e.type \in W /\ \A i \in DOMAIN e.args : e.args[i] \in W

LEMMA PlainFound ==
  ASSUME NEW U, Typed(U), NEW W, Plain(W), PlainEntries(W), NEW n, NEW args, NEW call
  PROVE  GetVariable(var_map, n, args, call).type \in W
<1>1. GetVariable(var_map, n, args, call).type \in {EMPTY_TYPE} \union {e.type : e \in Named(var_map, n)}
  BY EntryTypes, FoundIs
<1> QED
  BY <1>1 DEF Plain, PlainEntries, Named

LEMMA PlainMember ==
  ASSUME NEW U, Typed(U), NEW W, Plain(W), NEW t \in W, t \in U, t.kind = "STRUCTURE",
         NEW n, Members(t, n) # {}
  PROVE  GetMemberType(t, n) \in W
<1>1. MadeOf(U, t)
  BY DEF Typed, Closed
<1>2. t.fields \in Seq(Member(U))
  BY <1>1 DEF MadeOf, EMPTY_TYPE
<1>3. DOMAIN t.fields \in SUBSET Nat
  BY <1>2
<1>4. PICK i \in DOMAIN t.fields : GetMemberType(t, n) = t.fields[i].type
  BY <1>3, GetMemberTypeIs
<1> QED
  BY <1>4 DEF Plain

LEMMA PlainCombined ==
  ASSUME NEW U, vals \in Seq(Operand(U)), NEW W, Plain(W), FilledVals(W), NEW code,
         NVals > 1 \/ Have(2), Combine(code)
  PROVE  FilledVals(W)'
<1>1. PICK t : t \in {vals[NVals - 1].type, EMPTY_TYPE} /\ Returns(2, t)
  BY DEF Combine
<1>2. t \in W
  BY <1>1, LastFilled DEF Plain
<1>3. NVals - 2 \in 0 .. NVals
  BY ValsAre, HaveIs
<1>4. PICK n : n = NVals - 2 /\ vals' = Append(KeepVals(n), Val(t, "value"))
  BY <1>1 DEF Returns
<1> QED
  BY <1>2, <1>3, <1>4, ValsPushed

(* An expression makes no array of what is none. *)
LEMMA PlainExpression ==
  ASSUME NEW U, Typed(U), NEW W, Plain(W), PlainEntries(W), FilledVals(W), Expressions
  PROVE  FilledVals(W)'
<1>1. vals \in Seq(Operand(U)) /\ NVals \in Nat /\ EMPTY_TYPE \in W
  BY ValsAre DEF Typed, Plain
<1>2. ASSUME NEW t \in Prims, Literal(t) PROVE FilledVals(W)'
  <2>1. vals' = Append(KeepVals(NVals), Val(CPrimitive(t), "literal"))
    BY <1>1, <1>2 DEF Literal, KeepVals, NVals
  <2>2. CPrimitive(t) \in W /\ NVals \in 0 .. NVals
    BY <1>1 DEF Plain
  <2> QED
    BY <1>1, <2>1, <2>2, ValsPushed
<1>3. ASSUME NEW n \in Names, Variable(n) PROVE FilledVals(W)'
  <2>1. PICK t \in W : vals' = Append(vals, Val(t, "value"))
    BY <1>3, PlainFound DEF Variable
  <2>2. KeepVals(NVals) = vals /\ NVals \in 0 .. NVals
    BY <1>1 DEF KeepVals, NVals
  <2> QED
    BY <1>1, <2>1, <2>2, ValsPushed
<1>4. ASSUME NEW n \in Names, NEW k \in 0 .. MaxVals, Call(n, k) PROVE FilledVals(W)'
  <2>1. PICK t \in W : Returns(k, t)
    BY <1>4, PlainFound DEF Call
  <2>2. k \in Nat /\ Have(k)
    BY <1>4, BoundsAssumption DEF Call
  <2> QED
    BY <1>1, <2>1, <2>2, ReturnsFilled
<1>5. ASSUME NEW n \in Names, Dot(n) PROVE FilledVals(W)'
  <2>1. PICK type : type = Last_val.type
    OBVIOUS
  <2>2. Have(1) /\ type \in W /\ type \in U
    <3>1. Have(1)
      BY <1>5 DEF Dot
    <3>2. NVals \in 1 .. NVals
      BY <1>1, <3>1, HaveIs
    <3> QED
      BY <1>1, <2>1, <3>1, <3>2, LastFilled, ValsAre DEF Last_val
  <2>3. \/ Returns(1, EMPTY_TYPE)
        \/ type.kind = "STRUCTURE" /\ Members(type, n) # {} /\ Returns(1, GetMemberType(type, n))
    BY <1>5, <2>1 DEF Dot
  <2>4. PICK t \in W : Returns(1, t)
    BY <1>1, <2>2, <2>3, PlainMember
  <2> QED
    BY <1>1, <2>2, <2>4, ReturnsFilled
<1>6. CASE Unary
  BY <1>1, <1>6, LastFilled, ReturnsFilled DEF Unary
<1>7. CASE Index
  <2>1. PICK type : type = vals[NVals - 1].type
    OBVIOUS
  <2>2. Have(2) /\ type \in W
    BY <1>1, <1>7, <2>1, LastFilled DEF Index
  <2>3. type.kind # "ARRAY"
    BY <2>2 DEF Plain
  <2>4. Returns(2, EMPTY_TYPE)
    BY <1>7, <2>1, <2>3 DEF Index
  <2> QED
    BY <1>1, <2>2, <2>4, ReturnsFilled
<1>8. CASE AssignLeft
  <2>1. Have(1) /\ \E t \in {Last_val.type, EMPTY_TYPE} :
                     vals' = Append(KeepVals(NVals - 1), Val(t, "assigned"))
    BY <1>8 DEF AssignLeft
  <2>2. Last_val.type \in W /\ NVals - 1 \in 0 .. NVals
    BY <1>1, <2>1, LastFilled, HaveIs
  <2>3. PICK n : n = NVals - 1
    OBVIOUS
  <2>4. PICK t \in W : vals' = Append(KeepVals(n), Val(t, "assigned"))
    BY <1>1, <2>1, <2>2, <2>3
  <2> QED
    BY <1>1, <2>2, <2>3, <2>4, ValsPushed
<1>9. CASE Assign
  BY <1>1, <1>9, PlainCombined DEF Assign
<1>10. CASE Binary
  BY <1>1, <1>10, PlainCombined DEF Binary
<1> QED
  BY <1>2, <1>3, <1>4, <1>5, <1>6, <1>7, <1>8, <1>9, <1>10 DEF Expressions

-----------------------------------------------------------------------------
LEMMA NothingThrown ==
  ASSUME NEW left, NEW right, left.kind # "ARRAY", right.kind # "ARRAY"
  PROVE  ~ Throws(left, right)
BY DEF Throws

LEMMA ArgListsAre ==
  \A args \in ArgLists : Len(args) \in Nat /\ DOMAIN args = 1 .. Len(args)
<1> TAKE args \in ArgLists
<1>1. PICK params \in ParamLists : args = [i \in DOMAIN params |-> params[i].type]
  BY DEF ArgLists
<1>2. DOMAIN params = 1 .. Len(params) /\ Len(params) \in Nat
  BY ParamsAre
<1> QED
  BY <1>1, <1>2

LEMMA NoArgThrows ==
  ASSUME NEW params \in ArgLists \union {<< >>}, NEW args, DOMAIN args = 1 .. Len(args),
         \A i \in DOMAIN params : params[i].kind # "ARRAY",
         \A i \in DOMAIN args : args[i].kind # "ARRAY"
  PROVE  ~ ArgsThrow(params, args)
<1> SUFFICES ASSUME Len(params) = Len(args), NEW i \in DOMAIN args PROVE ~ Throws(params[i], args[i])
  BY DEF ArgsThrow
<1>1. DOMAIN params = 1 .. Len(params)
  BY ArgListsAre
<1> QED
  BY <1>1, NothingThrown

(* What the comparisons of BadCast meet. *)
LEMMA SpecifiedPlain ==
  ASSUME NEW U, Typed(U), Shape, NEW i \in 1 .. Depth, stack[i].kind \in {"def", "fun"}
  PROVE  stack[i].type.kind # "ARRAY"
<1>1. stack[i] \in Frame(U)
  BY FramesAre
<1>2. stack[i].type \in Scalars(U)
  BY <1>1 DEF Frame, FrameOK, Specified
<1> QED
  BY <1>2 DEF Scalars

LEMMA ReturnTypePlain ==
  ASSUME NEW U, Typed(U), Shape, Grounded, Depth > 0, Top.late
  PROVE  Return_type.kind # "ARRAY"
<1>1. stack[1].kind = "fun" /\ 1 \in 1 .. Depth
  BY InFunction
<1>2. PICK S : S = {stack[i] : i \in 1 .. Depth}
  OBVIOUS
<1>3. \E f \in S : f.kind = "fun"
  BY <1>1, <1>2
<1>4. PICK f \in S : f.kind = "fun" /\ Return_type = f.type
  BY <1>2, <1>3 DEF Return_type
<1>5. PICK i \in 1 .. Depth : f = stack[i]
  BY <1>2
<1> QED
  BY <1>4, <1>5, SpecifiedPlain

LEMMA NoCallThrows ==
  ASSUME NEW U, Typed(U), NEW W, Plain(W), PlainEntries(W), FilledVals(W), NEW n, NEW k \in 0 .. NVals
  PROVE  ~ GetVariableThrows(var_map, n, Args(k), TRUE)
<1> SUFFICES ASSUME NEW e \in var_map, e.func PROVE ~ ArgsThrow(e.args, Args(k))
  BY DEF GetVariableThrows, Named
<1>1. NVals \in Nat /\ k \in Nat /\ k <= NVals
  BY ValsAre DEF Typed
<1>2. e.args \in ArgLists
  BY EntriesAre DEF Typed, Stored
<1>3. PICK args : args = Args(k)
  OBVIOUS
<1>4. Len(args) = k /\ DOMAIN args = 1 .. k
  BY <1>1, <1>3 DEF Args
<1>5. ASSUME NEW i \in 1 .. k PROVE args[i].kind # "ARRAY"
  <2>1. args[i] = vals[NVals - k + i].type
    BY <1>3 DEF Args
  <2>2. NVals - k + i \in 1 .. NVals
    BY <1>1
  <2>3. args[i] \in W
    BY <2>1, <2>2 DEF FilledVals
  <2> QED
    BY <2>3 DEF Plain
<1>6. \A i \in DOMAIN e.args : e.args[i].kind # "ARRAY"
  BY DEF PlainEntries, Plain
<1>7. ~ ArgsThrow(e.args, args)
  BY <1>2, <1>4, <1>5, <1>6, NoArgThrows
<1> QED
  BY <1>3, <1>7

LEMMA NoDeclaredThrows ==
  ASSUME NEW U, Typed(U), Shape, ParamsKnown, NEW W, Plain(W), PlainEntries(W), TopIs({"fun"}), AtStmt
  PROVE  ~ GetLocalVariableThrows(Erased(var_map, global_scope_level), Declared(global_scope_level - 1))
<1>1. /\ global_scope_level = 1 /\ global_scope_level - 1 = 0 /\ Declared(0) \in Function(U)
      /\ Top = stack[1] /\ 1 \in 1 .. Depth /\ Top.kind = "fun"
  BY DeclaredIs DEF TopIs, Top
<1>2. PICK fun : fun = Declared(0)
  OBVIOUS
<1>3. fun.args \in ArgLists
  BY <1>1, <1>2 DEF Function
<1>4. DOMAIN fun.args = 1 .. Len(fun.args)
  BY <1>3, ArgListsAre
<1>5. fun.args = [i \in DOMAIN Top.list |-> Top.list[i].type]
  BY <1>2 DEF Declared, CVariable
<1>6. \A i \in DOMAIN Top.list : \E e \in var_map : e.type = Top.list[i].type
  BY <1>1 DEF ParamsKnown
<1>7. \A i \in DOMAIN fun.args : fun.args[i] \in W
  BY <1>5, <1>6 DEF PlainEntries
<1>8. \A i \in DOMAIN fun.args : fun.args[i].kind # "ARRAY"
  BY <1>7 DEF Plain
<1>9. ASSUME NEW e \in var_map PROVE ~ ArgsThrow(e.args, fun.args)
  <2>1. e.args \in ArgLists \union {<< >>}
    BY EntriesAre DEF Typed, Stored
  <2>2. \A i \in DOMAIN e.args : e.args[i].kind # "ARRAY"
    BY DEF PlainEntries, Plain
  <2> QED
    BY <1>4, <1>8, <2>1, <2>2, NoArgThrows
<1>10. ~ GetLocalVariableThrows(Erased(var_map, global_scope_level), fun)
  BY <1>9 DEF GetLocalVariableThrows, Named, Erased
<1> QED
  BY <1>1, <1>2, <1>10

LEMMA NoBadCast ==
  ASSUME NEW U, Typed(U), Shape, Grounded, ParamsKnown, NEW W, Plain(W), PlainEntries(W), FilledVals(W)
  PROVE  ~ BadCast
<1>1. vals \in Seq(Operand(U)) /\ NVals \in Nat
  BY ValsAre DEF Typed
<1>2. \A i \in 1 .. NVals : vals[i].type.kind # "ARRAY"
  BY DEF FilledVals, Plain
<1>3. ~ (TopIs({"dec"}) /\ NVals = 1 /\ Have(1) /\ Throws(Under.type, vals[1].type))
  <2> SUFFICES ASSUME TopIs({"dec"}), NVals = 1 PROVE ~ Throws(Under.type, vals[1].type)
    OBVIOUS
  <2>1. /\ Depth = global_scope_level + 2 /\ Under = stack[global_scope_level + 1] /\ Under.kind = "def"
        /\ global_scope_level \in Nat
    BY Places
  <2>2. global_scope_level + 1 \in 1 .. Depth
    BY <2>1
  <2>3. Under.type.kind # "ARRAY"
    BY <2>1, <2>2, SpecifiedPlain
  <2> QED
    BY <1>2, <2>3, NothingThrown
<1>4. ~ (InExp /\ NVals > 1 /\ Have(1) /\ Throws(vals[NVals - 1].type, Last_val.type))
  <2> SUFFICES ASSUME NVals > 1 PROVE ~ Throws(vals[NVals - 1].type, Last_val.type)
    OBVIOUS
  <2>1. NVals - 1 \in 1 .. NVals /\ NVals \in 1 .. NVals
    BY <1>1
  <2> QED
    BY <1>2, <2>1, NothingThrown DEF Last_val
<1>5. \A n \in Names, k \in 0 .. NVals : ~ GetVariableThrows(var_map, n, Args(k), TRUE)
  BY NoCallThrows
<1>6. ~ (Depth > 0 /\ Top.late /\ NVals = 1 /\ Throws(vals[1].type, Return_type))
  BY <1>2, ReturnTypePlain, NothingThrown
<1>7. ~ (TopIs({"fun"}) /\ AtStmt
           /\ GetLocalVariableThrows(Erased(var_map, global_scope_level), Declared(global_scope_level - 1)))
  BY NoDeclaredThrows
<1>8. ~ \E n \in Names, k \in 0 .. NVals : Have(k) /\ GetVariableThrows(var_map, n, Args(k), TRUE)
  BY <1>5
<1> QED
  BY <1>3, <1>4, <1>6, <1>7, <1>8 DEF BadCast

(***************************************************************************)
(* While the table holds nothing but plain types, so do the operands.      *)
(***************************************************************************)
PlainOperands(W) == PlainEntries(W) => FilledVals(W)

CastsInv(W) ==
  /\ IInv /\ Grounded /\ Waiting /\ ParamsKnown
  /\ PlainOperands(W)
  /\ status = "crashed" /\ ~ LostIterator => ~ PlainEntries(W)

LEMMA InitCasts ==
  ASSUME NEW W, Init PROVE CastsInv(W)
<1>1. Depth = 0 /\ NVals = 0 /\ vals = << >> /\ status # "crashed"
  BY DEF Init, Depth, NVals
<1> QED
  BY <1>1, InitIInv DEF CastsInv, Grounded, Waiting, ParamsKnown, PlainOperands, FilledVals

LEMMA NextCasts ==
  ASSUME NEW W, Plain(W), CastsInv(W), Next PROVE CastsInv(W)'
<1>1. PICK U : Typed(U)
  BY DEF CastsInv, IInv
<1>2. /\ IInv /\ Shape /\ Pending /\ Grounded /\ Waiting /\ ParamsKnown
      /\ PlainEntries(W) => FilledVals(W)
  BY DEF CastsInv, IInv, PlainOperands
<1>3. IInv' /\ Waiting' /\ ParamsKnown'
  BY <1>1, <1>2, NextIInv, WaitingStep, ParamsStep
<1>4. CASE Declarations \/ Statements
  <2>1. Grounded'
    BY <1>1, <1>2, <1>4, DeclarationsGrounded, StatementsGrounded
  <2>2. vals' = << >>
    BY <1>1, <1>2, <1>4, NoneWaiting
  <2>3. PlainOperands(W)'
    BY <2>2 DEF PlainOperands, FilledVals, NVals
  <2>4. status' # "crashed"
    <3>1. CASE Declarations
      BY <3>1 DEF Declarations, TypeSpecifier, StructUse, StructStart, StructEnd, DecStart, DecEnd, DecListEnd,
                  ExtDefEnd, FunDec, FunEnd, Uses, Running
    <3>2. CASE Statements
      BY <3>2 DEF Statements, DefListEnd, BlockStart, WhileStart, ScopeEnd, ExpStmt, Return, Uses, Running
    <3> QED
      BY <1>4, <3>1, <3>2
  <2> QED
    BY <1>3, <2>1, <2>3, <2>4 DEF CastsInv
<1>5. CASE Expressions
  <2>1. UNCHANGED <<var_map, stack>> /\ status' = status /\ status = "running"
    BY <1>5 DEF Expressions, Literal, Variable, Call, Dot, Unary, Index, AssignLeft, Assign, Binary, Combine,
                InExp, Running, tables
  <2>2. Grounded'
    BY <1>2, <2>1 DEF Grounded, Depth
  <2>3. PlainEntries(W) => FilledVals(W)'
    BY <1>1, <1>2, <1>5, PlainExpression
  <2>4. PlainOperands(W)'
    BY <2>1, <2>3 DEF PlainOperands, PlainEntries
  <2> QED
    BY <1>3, <2>1, <2>2, <2>4 DEF CastsInv
<1>6. CASE Die \/ Finish
  <2>1. UNCHANGED <<tables, stack, vals>>
    BY <1>6 DEF Die, Finish
  <2>2. Grounded' /\ PlainOperands(W)' /\ (PlainEntries(W)' <=> PlainEntries(W))
    BY <1>2, <2>1 DEF Grounded, Depth, PlainOperands, PlainEntries, FilledVals, NVals, tables
  <2>3. LostIterator' <=> LostIterator
    BY <2>1 DEF LostIterator, TopIs, AtStmt, Top, Depth, tables
  <2>4. status' = "crashed" /\ ~ LostIterator => ~ PlainEntries(W)
    <3> SUFFICES ASSUME status' = "crashed", ~ LostIterator, PlainEntries(W) PROVE FALSE
      OBVIOUS
    <3>1. BadCast
      BY <1>6 DEF Die, Finish
    <3> QED
      BY <1>1, <1>2, <3>1, NoBadCast
  <2> QED
    BY <1>3, <2>2, <2>3, <2>4 DEF CastsInv
<1> QED
  BY <1>4, <1>5, <1>6 DEF Next

LEMMA StillCasts ==
  ASSUME NEW W, CastsInv(W), UNCHANGED vars PROVE CastsInv(W)'
<1>1. IInv'
  BY NextIInv DEF CastsInv
<1>2. UNCHANGED <<tables, stack, vals, status>>
  BY DEF vars
<1>3. LostIterator' <=> LostIterator
  BY <1>2 DEF LostIterator, TopIs, AtStmt, Top, Depth, tables
<1> QED
  BY <1>1, <1>2, <1>3 DEF CastsInv, Grounded, Waiting, ParamsKnown, PlainOperands, PlainEntries, FilledVals,
                          NVals, Depth, Top, tables

(* The plain types, and those that every program can use. *)
PlainAndBasic ==
  PlainTypes \union {EMPTY_TYPE} \union {CPrimitive(t) : t \in Prims}

LEMMA PlainAndBasicPlain == Plain(PlainAndBasic)
<1>1. EMPTY_TYPE.kind = "EMPTY" /\ \A t : CPrimitive(t).kind = "PRIMITIVE"
  BY DEF EMPTY_TYPE, CPrimitive
<1>2. \A t \in PlainAndBasic :
        t.kind # "ARRAY" /\ (t.kind = "STRUCTURE" => \A i \in DOMAIN t.fields : t.fields[i].type \in PlainAndBasic)
  BY <1>1, PlainTypesAssumption DEF PlainAndBasic
<1> QED
  BY <1>2 DEF Plain, PlainAndBasic

(***************************************************************************)
(* A program dies of a failed cast only while the table has an entry that  *)
(* is an array, has one among its members or takes one as a parameter,     *)
(* whichever types are called plain and whatever PopScope leaves in the    *)
(* tables.                                                                 *)
(***************************************************************************)
THEOREM DiesOfArraysHolds == TSpec => []DiesOfArrays
<1>1. TInit => CastsInv(PlainAndBasic)
  BY InitCasts DEF TInit
<1>2. CastsInv(PlainAndBasic) /\ [TNext]_tvars => CastsInv(PlainAndBasic)'
  BY PlainAndBasicPlain, NextCasts, StillCasts DEF TNext, tvars
<1>3. CastsInv(PlainAndBasic) => DiesOfArrays
  BY DEF CastsInv, PlainEntries, PlainAndBasic, DiesOfArrays
<1> QED
  BY <1>1, <1>2, <1>3, PTL DEF TSpec

=============================================================================
