--------------------------- MODULE SemanticScopes ---------------------------
(***************************************************************************)
(* The flat tables of the semantic checker against the nested scopes they  *)
(* stand for.                                                              *)
(***************************************************************************)
EXTENDS Semantic

VARIABLES
  declared,   \* the names declared in each open scope, innermost last
  asked       \* what the program asked or declared last

svars == <<vars, declared, asked>>

NamesOf(list) == {list[i].name : i \in DOMAIN list}

(* What the program itself says of its scopes, whatever the tables hold. *)
NextDeclared ==
  IF global_scope_level' > global_scope_level
  THEN Append(declared, NamesOf(IF Len(stack') = 1 THEN stack'[1].list ELSE << >>))
  ELSE IF global_scope_level' < global_scope_level THEN Front(declared)
  ELSE IF DecListEnd
  THEN [declared EXCEPT ![Len(declared)] = @ \union NamesOf(Top.list)]
  ELSE declared

(* A type up to the types of its members, so that there are finitely many. *)
OutlineOf(scalar) ==
  IF scalar.kind # "STRUCTURE" THEN scalar
  ELSE CStructure(scalar.name, [i \in DOMAIN scalar.fields |-> scalar.fields[i].name])

Outline(type) == IF type.kind = "ARRAY" THEN CArray(OutlineOf(type.base)) ELSE OutlineOf(type)

(***************************************************************************)
(* What the program asks of its scopes: the name it uses, the name and the *)
(* types it calls, the lists it declares.  Argument types that no          *)
(* parameter has are alike: they fit no function.                          *)
(***************************************************************************)
ParamTypes == UNION {{params[i].type : i \in DOMAIN params} : params \in ParamLists}

ToldArgs(args) ==
  [i \in 1 .. Len(args) |-> IF args[i] \in ParamTypes THEN args[i] ELSE EMPTY_TYPE]

Told(list) == [i \in DOMAIN list |-> [name |-> list[i].name, type |-> Outline(list[i].type)]]

Asks(request) == asked' = request

StructureLeft == <<"leave structure", Top.name, Outline(CStructure(Top.name, Top.list))>>

FunctionLeft == <<"leave function", Top.name, Declared(0).args, Outline(Top.type)>>

Declaring ==
  \/ \E s \in SNames : StructUse(s) /\ Asks(<<"structure", s>>)
  \/ \E s \in SNames : StructStart(s) /\ Asks(<<"enter", << >>>>)
  \/ StructEnd /\ Asks(StructureLeft)
  \/ DecListEnd /\ Asks(<<"declare", Told(Top.list)>>)
  \/ \E n \in Names, params \in ParamLists : FunDec(n, params) /\ Asks(<<"enter", params>>)
  \/ FunEnd /\ Asks(FunctionLeft)

Executing ==
  \/ (BlockStart \/ WhileStart) /\ Asks(<<"enter", << >>>>)
  \/ ScopeEnd /\ Asks(<<"leave">>)

Evaluating ==
  \/ \E n \in Names : Variable(n) /\ Asks(<<"variable", n>>)
  \/ \E n \in Names, k \in 0 .. MaxVals : Call(n, k) /\ Asks(<<"call", n, ToldArgs(Args(k))>>)

(* The steps that the scopes have no part in. *)
Judging ==
  \/ \E t \in Prims : TypeSpecifier(t) \/ Literal(t)
  \/ \E n \in Names, dims \in 0 .. 1 : DecStart(n, dims)
  \/ \E n \in Names : Dot(n)
  \/ DecEnd \/ ExtDefEnd \/ DefListEnd \/ ExpStmt \/ Return
  \/ Unary \/ Index \/ AssignLeft \/ Assign \/ Binary
  \/ Die \/ Finish

SInit == Init /\ declared = << >> /\ asked = <<"nothing">>

(* Next, whatever was declared and asked remembered. *)
SNext ==
  /\ Declaring \/ Executing \/ Evaluating \/ (Judging /\ Asks(<<"nothing">>))
  /\ declared' = NextDeclared

SSpec == SInit /\ [][SNext]_svars

-----------------------------------------------------------------------------
Kinds == {"EMPTY", "PRIMITIVE", "ARRAY", "STRUCTURE"}

(* Types of the tables and of the walk. *)
TypeOK ==
  /\ global_scope_level \in Nat
  /\ clock \in 0 .. MaxInserts
  /\ \A e \in var_map :
       /\ e.name \in Names /\ e.type.kind \in Kinds /\ e.func \in BOOLEAN
       /\ e.level \in Nat /\ e.seq \in 1 .. clock
  /\ \A e \in structure_map :
       e.name \in SNames /\ e.type.kind = "STRUCTURE" /\ e.level \in Nat /\ e.seq \in 1 .. clock
  /\ \A i \in DOMAIN stack :
       stack[i].kind \in {"fun", "struct", "block", "while", "def", "dec"}
  /\ \A i \in DOMAIN vals : vals[i].type.kind \in Kinds
  /\ status \in {"running", "done", "crashed"}

(***************************************************************************)
(* The level counter is the number of open scopes, whatever path opened    *)
(* and closed them (semantic.cpp:67-71, 119-123, 467-469, 489-492).        *)
(***************************************************************************)
LevelIsDepth ==
  global_scope_level =
    Cardinality({i \in DOMAIN stack : stack[i].kind \in {"fun", "struct", "block", "while"}})

(***************************************************************************)
(* An entry outlives its scope by no step: none is deeper than the current *)
(* level; functions, and only they, are at level 0 (semantic.cpp:268, 620).*)
(***************************************************************************)
NoStaleEntry ==
  /\ \A e \in var_map : e.level <= global_scope_level /\ (e.func <=> e.level = 0)
  /\ \A e \in structure_map : e.level <= global_scope_level

(***************************************************************************)
(* Younger entries are never in outer scopes.  GetVariable, which scans    *)
(* from the oldest entry and keeps the first of the highest level, and     *)
(* lets a variable override a function seen before it, depends on this     *)
(* order (semantic.cpp:566-586).                                           *)
(***************************************************************************)
YoungerIsDeeper ==
  /\ \A e, f \in var_map : e.seq < f.seq => e.level <= f.level
  /\ \A e, f \in structure_map : e.seq < f.seq => e.level <= f.level

TableOK == LevelIsDepth /\ NoStaleEntry /\ YoungerIsDeeper

-----------------------------------------------------------------------------
(***************************************************************************)
(* The nested scopes that the flat tables stand for.                       *)
(***************************************************************************)
Undeclared == [kind |-> "UNDECLARED"]

AtLevel(m, level, S) ==
  [n \in S |-> LET here == {e \in m : e.name = n /\ e.level = level}
               IN  IF here = {} THEN Undeclared ELSE Outline(First(here).type)]

OpenScopes(m, level) == [l \in 1 .. level |-> AtLevel(m, l, Names)]

OpenStructures(m, level) == [l \in 1 .. level + 1 |-> AtLevel(m, l - 1, SNames)]

(* The overloads of a name, by age. *)
Functions(m) == {e \in m : e.func}

Overloads(m, n) ==
  LET byAge == EqualRange(Functions(m), n)
  IN  [i \in DOMAIN byAge |-> [args |-> byAge[i].args, type |-> Outline(byAge[i].type)]]

(***************************************************************************)
(* What the abstract scopes are told: the outlines of the types that are   *)
(* no arrays, the lists of names declared together (parameters, or one     *)
(* specifier with its declarators), and the lists of argument types.       *)
(***************************************************************************)
Types ==
  {EMPTY_TYPE} \union {CPrimitive(t) : t \in Prims}
  \union {CStructure(s, names) : s \in SNames, names \in SeqOf(Names, MaxList)}

Declarators(t) ==
  [name : Names, type : {t} \union {CArray(u) : u \in IF "array" \in Productions THEN {t} ELSE {}}]

Lists == ParamLists \union UNION {SeqOf(Declarators(t), MaxList) : t \in Types}

Signatures ==
  SeqOf({EMPTY_TYPE} \union ParamTypes, MaxVals)
  \union {[i \in DOMAIN params |-> params[i].type] : params \in ParamLists}

Nested == INSTANCE Scopes WITH
  scopes  <- OpenScopes(var_map, global_scope_level),
  structs <- OpenStructures(structure_map, global_scope_level),
  funs    <- [n \in Names |-> Overloads(var_map, n)],
  request <- asked,
  reply   <- [reply EXCEPT !.type = Outline(@)]

(***************************************************************************)
(* The flat tables implement nested scopes: every declaration, use, call   *)
(* and reference of the program gets, for the name and the types that it   *)
(* asks for, the answer that resolving that name from the innermost open   *)
(* scope outwards gives (semantic.cpp:498-627).                            *)
(***************************************************************************)
ImplementsScopes == Nested!Spec

(***************************************************************************)
(* A redefinition is what the message says, "redefined in the same scope": *)
(* the scope the program is in has declared the name before                *)
(* (semantic.cpp:640).                                                     *)
(***************************************************************************)
RedefinedInSameScope ==
  [][DecListEnd /\ VARIABLE_REDEFINED \in Range(reply'.codes) =>
       \E i \in DOMAIN Top.list :
         \/ Top.list[i].name \in Last(declared)
         \/ \E j \in 1 .. i - 1 : Top.list[j].name = Top.list[i].name]_svars

=============================================================================
