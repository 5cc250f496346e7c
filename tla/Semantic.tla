------------------------------ MODULE Semantic ------------------------------
(***************************************************************************)
(* The semantic checker of project 2                                       *)
(* (src/11710123_project2/semantic.cpp): one walk over the syntax tree     *)
(* that declares, looks up and compares types.                             *)
(*                                                                         *)
(* As in ControlGen the model walks an arbitrary tree: an action is the    *)
(* code between two recursive calls, "stack" holds the calls still open    *)
(* that own a scope or a list of declarations, and "vals" the types that   *)
(* the finished calls of ProcessExp returned.  IF has no state of its own: *)
(* its condition is an expression statement whose type is dropped and its  *)
(* branches are statements.  Global variables leave no trace, as           *)
(* ProcessExtDecList has an empty body.                                    *)
(***************************************************************************)
EXTENDS SymbolTable

CONSTANTS
  Names,        \* names of variables, functions and members
  SNames,       \* names of structures
  Prims,        \* primitive types
  IndexType,    \* the primitive type an array index must have
  ParamLists,   \* lists of [name, type] a function may be declared with
  Productions,  \* the optional productions the source programs may use
  MaxList,      \* bound: names in one list of declarations, members of a structure
  MaxInserts,   \* bound: entries declared by one program
  MaxDepth,     \* bound: open calls
  MaxVals       \* bound: operands waiting in one expression

ASSUME NamesAssumption == Names \subseteq Nat /\ SNames \subseteq Nat

(***************************************************************************)
(* Parameters are primitive or arrays of primitives: one of a structure    *)
(* type depends on the tables.                                             *)
(***************************************************************************)
Primitive(t) == t.kind = "PRIMITIVE" /\ t = CPrimitive(t.name)

ASSUME ParamListsAssumption ==
  \A params \in ParamLists :
    /\ params \in Seq([name : Names, type : {params[i].type : i \in DOMAIN params}])
    /\ \A i \in DOMAIN params :
         LET t == params[i].type
         IN  Primitive(t) \/ (t.kind = "ARRAY" /\ t = CArray(t.base) /\ Primitive(t.base))

ASSUME BoundsAssumption ==
  MaxList \in Nat /\ MaxInserts \in Nat /\ MaxDepth \in Nat /\ MaxVals \in Nat

VARIABLES
  var_map,             \* entries of variables and functions
  structure_map,       \* entries of structures
  global_scope_level,
  clock,               \* entries inserted so far
  stack,               \* the open calls, innermost last
  vals,                \* the operands of the expression being checked
  reply,               \* what the last handler printed and was told by the tables
  status               \* "running", "done" or "crashed"

tables == <<var_map, structure_map, global_scope_level, clock>>

vars == <<tables, stack, vals, reply, status>>

-----------------------------------------------------------------------------
(***************************************************************************)
(* Frames: "fun" (from PushScope in ProcessExtDef on), "struct" (the same  *)
(* in ProcessStructSpecifier), "block", "while" (in ProcessStmt), "def" (a *)
(* Def, or an ExtDef, whose Specifier is done; list = its declarations so  *)
(* far) and "dec" (a Dec after its VarDec).  late: the DefList is over.    *)
(***************************************************************************)
MkFrame(kind, n, type, list, late) ==
  [kind |-> kind, name |-> n, type |-> type, list |-> list, late |-> late]

Depth == Len(stack)

Top == stack[Depth]

Under == stack[Depth - 1]

TopIs(kinds) == Depth > 0 /\ Top.kind \in kinds

Keep(n) == SubSeq(stack, 1, n)

Running == status = "running"

Uses(p) == Running /\ p \in Productions

(* ProcessDefList, or ProcessExtDefList, takes its next element. *)
AtDef == vals = << >> /\ (Depth = 0 \/ (TopIs({"fun", "block", "struct"}) /\ ~ Top.late))

(* ProcessStmtList takes its next element. *)
AtStmt == vals = << >> /\ Depth > 0 /\ Top.late

(* An expression may begin or go on. *)
InExp == Running /\ Depth > 0 /\ (Top.late \/ Top.kind = "dec")

Push(frame) == Depth < MaxDepth /\ stack' = Append(stack, frame)

Replace(frame) == stack' = Append(Keep(Depth - 1), frame)

NoReply == [codes |-> << >>, type |-> EMPTY_TYPE]

Report(code) == [NoReply EXCEPT !.codes = IF code = OK THEN << >> ELSE <<code>>]

Answer(found) == [Report(found.flag) EXCEPT !.type = found.type]

(***************************************************************************)
(* ProcessExp.  An operand is the type its call returned and what the      *)
(* caller does with it: "literal" for one that is a lone literal (which an *)
(* assignment calls with single = TRUE), "assigned" for the left side of   *)
(* an assignment whose right side is still to come, otherwise "value".     *)
(***************************************************************************)
Val(type, tag) == [type |-> type, tag |-> tag]

NVals == Len(vals)

Last_val == vals[NVals]

(* The last n operands are complete values. *)
Have(n) ==
  NVals >= n /\ \A i \in NVals - n + 1 .. NVals : vals[i].tag # "assigned"

KeepVals(n) == SubSeq(vals, 1, n)

Returns(n, type) == vals' = Append(KeepVals(NVals - n), Val(type, "value"))

(* PopScope: what both loops leave, the structures' first. *)
PopScope ==
  /\ structure_map' \in PopResults(structure_map, global_scope_level)
  /\ var_map' \in PopResults(var_map, global_scope_level)
  /\ global_scope_level' = global_scope_level - 1

PushScope == global_scope_level' = global_scope_level + 1

-----------------------------------------------------------------------------
Init ==
  /\ var_map = {}
  /\ structure_map = {}
  /\ global_scope_level = 0
  /\ clock = 0
  /\ stack = << >>
  /\ vals = << >>
  /\ reply = NoReply
  /\ status = "running"

(* ProcessSpecifier on a primitive type. *)
TypeSpecifier(t) ==
  /\ Running
  /\ AtDef
  /\ Push(MkFrame("def", 0, CPrimitive(t), << >>, FALSE))
  /\ reply' = NoReply
  /\ UNCHANGED <<tables, vals, status>>

(* ProcessStructSpecifier on STRUCT ID. *)
StructUse(s) ==
  LET found == GetStructure(structure_map, s)
  IN  /\ Uses("struct")
      /\ AtDef
      /\ Push(MkFrame("def", 0, found.type, << >>, FALSE))
      /\ reply' = Answer(found)
      /\ UNCHANGED <<tables, vals, status>>

(* ProcessStructSpecifier on STRUCT ID LC DefList RC, before its DefList. *)
StructStart(s) ==
  /\ Uses("struct")
  /\ AtDef
  /\ TopIs({"struct"}) => "nested" \in Productions
  /\ Push(MkFrame("struct", s, EMPTY_TYPE, << >>, FALSE))
  /\ PushScope
  /\ reply' = NoReply
  /\ UNCHANGED <<var_map, structure_map, clock, vals, status>>

(* The structure is registered one level too deep (for the mutation runs). *)
StructEndInside ==
  /\ Running
  /\ TopIs({"struct"})
  /\ clock < MaxInserts
  /\ LET type  == CStructure(Top.name, Top.list)
         level == global_scope_level
     IN  /\ \E rest \in PopResults(structure_map, global_scope_level) :
              /\ structure_map' = rest \union {[name |-> Top.name, type |-> type,
                                                level |-> level, seq |-> clock + 1]}
              /\ reply' = Report(GetLocalStructure(rest, Top.name, level - 1))
         /\ var_map' \in PopResults(var_map, global_scope_level)
         /\ Replace(MkFrame("def", 0, type, << >>, FALSE))
  /\ global_scope_level' = global_scope_level - 1
  /\ clock' = clock + 1
  /\ UNCHANGED <<vals, status>>

(* ProcessStructSpecifier after its DefList: PopScope, then UpdateStructure. *)
StructEnd ==
  /\ Running
  /\ TopIs({"struct"})
  /\ clock < MaxInserts
  /\ LET type  == CStructure(Top.name, Top.list)
         level == global_scope_level - 1
     IN  /\ \E rest \in PopResults(structure_map, global_scope_level) :
              /\ structure_map' = rest \union {[name |-> Top.name, type |-> type,
                                                level |-> level, seq |-> clock + 1]}
              /\ reply' = Report(GetLocalStructure(rest, Top.name, level))
         /\ var_map' \in PopResults(var_map, global_scope_level)
         /\ Replace(MkFrame("def", 0, type, << >>, FALSE))
  /\ global_scope_level' = global_scope_level - 1
  /\ clock' = clock + 1
  /\ UNCHANGED <<vals, status>>

-----------------------------------------------------------------------------
(* ProcessVarDec on n, or on n with one dimension: the type and the level. *)
DecStart(n, dims) ==
  LET type == IF dims = 0 THEN Top.type ELSE CArray(Top.type)
  IN  /\ Running
      /\ TopIs({"def"})
      /\ Depth > 1
      /\ clock + Len(Top.list) < MaxInserts
      /\ Len(Top.list) + (IF Under.kind = "struct" THEN Len(Under.list) ELSE 0) < MaxList
      /\ dims > 0 => "array" \in Productions
      /\ Push(MkFrame("dec", n, type, << >>, FALSE))
      /\ reply' = NoReply
      /\ UNCHANGED <<tables, vals, status>>

(* The end of ProcessDec, without and with an initial value. *)
DecEnd ==
  LET dec  == CVariable(Top.name, Top.type, << >>, global_scope_level, FALSE)
      type == Under.type
  IN  /\ Running
      /\ TopIs({"dec"})
      /\ \/ vals = << >> /\ reply' = NoReply
         \/ /\ NVals = 1
            /\ Have(1)
            /\ ~ Throws(type, vals[1].type)
            /\ reply' = Report(IF check_type(type, vals[1].type) THEN OK
                               ELSE UNMATCHING_TYPE_ON_ASSIGN)
      /\ stack' = Append(Keep(Depth - 2), [Under EXCEPT !.list = Append(@, dec)])
      /\ vals' = << >>
      /\ UNCHANGED <<tables, status>>

(* A structure collects the members of its definitions. *)
WithMembers(frames, list) ==
  LET d == Len(frames)
  IN  IF frames[d].kind # "struct" THEN frames
      ELSE [frames EXCEPT ![d].list =
              @ \o [i \in DOMAIN list |-> [name |-> list[i].name, type |-> list[i].type]]]

(* The end of ProcessDecList: all of its declarations enter the table. *)
DecListEnd ==
  /\ Running
  /\ TopIs({"def"})
  /\ Depth > 1
  /\ Top.list # << >>
  /\ var_map' = UpdateVariable(var_map, Top.list, clock)
  /\ clock' = clock + Len(Top.list)
  /\ reply' = [NoReply EXCEPT !.codes = Redefinitions(var_map, Top.list, clock)]
  /\ stack' = WithMembers(Keep(Depth - 1), Top.list)
  /\ UNCHANGED <<structure_map, global_scope_level, vals, status>>

(* ProcessExtDef without FunDec: SEMI, or global variables, which are ignored. *)
ExtDefEnd ==
  /\ Running
  /\ TopIs({"def"})
  /\ Depth = 1
  /\ stack' = << >>
  /\ reply' = NoReply
  /\ UNCHANGED <<tables, vals, status>>

(* The parameters of ProcessFunDec, one scope deeper. *)
Parameters(params, level) ==
  [i \in DOMAIN params |->
     CVariable(params[i].name, params[i].type, << >>, level, FALSE)]

(* ProcessExtDef with FunDec: PushScope and ProcessFunDec. *)
FunDec(n, params) ==
  LET args == Parameters(params, global_scope_level + 1)
  IN  /\ Uses("function")
      /\ TopIs({"def"})
      /\ Depth = 1
      /\ clock + Len(args) < MaxInserts
      /\ PushScope
      /\ var_map' = UpdateVariable(var_map, args, clock)
      /\ clock' = clock + Len(args)
      /\ reply' = [NoReply EXCEPT !.codes = Redefinitions(var_map, args, clock)]
      /\ Replace(MkFrame("fun", n, Top.type, args, FALSE))
      /\ UNCHANGED <<structure_map, vals, status>>

(* The function that the innermost frame would register. *)
Declared(level) ==
  CVariable(Top.name, Top.type, [i \in DOMAIN Top.list |-> Top.list[i].type], level, TRUE)

(* ProcessExtDef after CompSt: PopScope, then the function itself is registered. *)
FunEnd ==
  /\ Running
  /\ TopIs({"fun"})
  /\ AtStmt
  /\ clock < MaxInserts
  /\ structure_map' \in PopResults(structure_map, global_scope_level)
  /\ global_scope_level' = global_scope_level - 1
  /\ LET function_declare == Declared(global_scope_level - 1)
     IN  \E rest \in PopResults(var_map, global_scope_level) :
           /\ ~ GetLocalVariableThrows(rest, function_declare)
           /\ var_map' = UpdateVariable(rest, <<function_declare>>, clock)
           /\ reply' = [NoReply EXCEPT
                          !.codes = Redefinitions(rest, <<function_declare>>, clock)]
  /\ clock' = clock + 1
  /\ stack' = Keep(Depth - 1)
  /\ UNCHANGED <<vals, status>>

-----------------------------------------------------------------------------
(* ProcessCompSt between its DefList and its StmtList. *)
DefListEnd ==
  /\ Running
  /\ TopIs({"fun", "block"})
  /\ ~ Top.late
  /\ Replace([Top EXCEPT !.late = TRUE])
  /\ reply' = NoReply
  /\ UNCHANGED <<tables, vals, status>>

(* ProcessStmt on CompSt. *)
BlockStart ==
  /\ Uses("block")
  /\ AtStmt
  /\ Push(MkFrame("block", 0, EMPTY_TYPE, << >>, FALSE))
  /\ PushScope
  /\ reply' = NoReply
  /\ UNCHANGED <<var_map, structure_map, clock, vals, status>>

(* A loop that opens no scope but closes one (for the mutation runs). *)
WhileStartNoPush ==
  /\ Uses("while")
  /\ AtStmt
  /\ Push(MkFrame("while", 0, EMPTY_TYPE, << >>, TRUE))
  /\ reply' = NoReply
  /\ UNCHANGED <<tables, vals, status>>

(* ProcessStmt on WHILE, whose condition and statement are in a scope of their own. *)
WhileStart ==
  /\ Uses("while")
  /\ AtStmt
  /\ Push(MkFrame("while", 0, EMPTY_TYPE, << >>, TRUE))
  /\ PushScope
  /\ reply' = NoReply
  /\ UNCHANGED <<var_map, structure_map, clock, vals, status>>

(* A scope that is left without erasing its entries (for the mutation runs). *)
ScopeEndNoErase ==
  /\ Running
  /\ TopIs({"block", "while"})
  /\ AtStmt
  /\ global_scope_level' = global_scope_level - 1
  /\ stack' = Keep(Depth - 1)
  /\ reply' = NoReply
  /\ UNCHANGED <<var_map, structure_map, clock, vals, status>>

(* ProcessStmt at the end of CompSt and of WHILE. *)
ScopeEnd ==
  /\ Running
  /\ TopIs({"block", "while"})
  /\ AtStmt
  /\ PopScope
  /\ stack' = Keep(Depth - 1)
  /\ reply' = NoReply
  /\ UNCHANGED <<clock, vals, status>>

-----------------------------------------------------------------------------
Literal(t) ==
  /\ InExp
  /\ "literal" \in Productions
  /\ NVals < MaxVals
  /\ vals' = Append(vals, Val(CPrimitive(t), "literal"))
  /\ reply' = NoReply
  /\ UNCHANGED <<tables, stack, status>>

(* ID *)
Variable(n) ==
  LET found == GetVariable(var_map, n, << >>, FALSE)
  IN  /\ InExp
      /\ NVals < MaxVals
      /\ vals' = Append(vals, Val(found.type, "value"))
      /\ reply' = Answer(found)
      /\ UNCHANGED <<tables, stack, status>>

(* ID LP RP and ID LP Args RP: the arguments are the last k operands. *)
Args(k) == [i \in 1 .. k |-> vals[NVals - k + i].type]

Call(n, k) ==
  /\ InExp
  /\ "call" \in Productions
  /\ Have(k)
  /\ NVals - k < MaxVals
  /\ ~ GetVariableThrows(var_map, n, Args(k), TRUE)
  /\ LET found == GetVariable(var_map, n, Args(k), TRUE)
     IN  Returns(k, found.type) /\ reply' = Answer(found)
  /\ UNCHANGED <<tables, stack, status>>

(* NOT Exp and SUB Exp: the type of the operand, which is no lone literal now. *)
Unary ==
  /\ InExp
  /\ "operator" \in Productions
  /\ Have(1)
  /\ Returns(1, Last_val.type)
  /\ reply' = NoReply
  /\ UNCHANGED <<tables, stack, status>>

(* A missing member that is not reported (for the mutation runs). *)
DotSilent(n) ==
  LET type == Last_val.type
  IN  /\ InExp
      /\ "member" \in Productions
      /\ Have(1)
      /\ IF type.kind # "STRUCTURE"
         THEN /\ Returns(1, EMPTY_TYPE)
              /\ reply' = Report(ACCESSING_MEMBER_OF_NON_STRUCTURE_VAR)
         ELSE /\ Returns(1, IF Members(type, n) = {} THEN EMPTY_TYPE
                            ELSE GetMemberType(type, n))
              /\ reply' = NoReply
      /\ UNCHANGED <<tables, stack, status>>

(* Exp DOT ID *)
Dot(n) ==
  LET type == Last_val.type
  IN  /\ InExp
      /\ "member" \in Productions
      /\ Have(1)
      /\ \/ /\ type.kind # "STRUCTURE"
            /\ Returns(1, EMPTY_TYPE)
            /\ reply' = Report(ACCESSING_MEMBER_OF_NON_STRUCTURE_VAR)
         \/ /\ type.kind = "STRUCTURE"
            /\ Members(type, n) = {}
            /\ Returns(1, EMPTY_TYPE)
            /\ reply' = Report(STRUCTURE_NOT_FOUND)
         \/ /\ type.kind = "STRUCTURE"
            /\ Members(type, n) # {}
            /\ Returns(1, GetMemberType(type, n))
            /\ reply' = NoReply
      /\ UNCHANGED <<tables, stack, status>>

(* Exp LB Exp RB *)
Index ==
  /\ InExp
  /\ "array" \in Productions
  /\ Have(2)
  /\ LET type == vals[NVals - 1].type
     IN  \/ /\ Last_val.type # CPrimitive(IndexType)
            /\ Returns(2, EMPTY_TYPE)
            /\ reply' = Report(APPLY_INDEXING_WITH_NON_INT)
         \/ /\ Last_val.type = CPrimitive(IndexType)
            /\ type.kind # "ARRAY"
            /\ Returns(2, EMPTY_TYPE)
            /\ reply' = Report(APPLYING_INDEXING_FOR_NON_ARRAY)
         \/ /\ Last_val.type = CPrimitive(IndexType)
            /\ type.kind = "ARRAY"
            /\ Returns(2, type.base)
            /\ reply' = NoReply
  /\ UNCHANGED <<tables, stack, status>>

(* Exp ASSIGN Exp after its left side. *)
AssignLeft ==
  /\ InExp
  /\ "operator" \in Productions
  /\ Have(1)
  /\ LET rvalue == Last_val.tag = "literal"
     IN  /\ vals' = Append(KeepVals(NVals - 1),
                           Val(IF rvalue THEN EMPTY_TYPE ELSE Last_val.type, "assigned"))
         /\ reply' = Report(IF rvalue THEN RVALUE_ON_THE_LEFT ELSE OK)
  /\ UNCHANGED <<tables, stack, status>>

(* The end of an operator: both sides must have one type. *)
Combine(code) ==
  LET left  == vals[NVals - 1].type
      right == Last_val.type
      same  == check_type(left, right)
  IN  /\ ~ Throws(left, right)
      /\ Returns(2, IF same THEN left ELSE EMPTY_TYPE)
      /\ reply' = Report(IF same THEN OK ELSE code)
      /\ UNCHANGED <<tables, stack, status>>

Assign ==
  /\ InExp
  /\ NVals > 1
  /\ vals[NVals - 1].tag = "assigned"
  /\ Have(1)
  /\ Combine(UNMATCHING_TYPE_ON_ASSIGN)

(* Exp AND Exp, ..., Exp DIV Exp *)
Binary ==
  /\ InExp
  /\ "operator" \in Productions
  /\ Have(2)
  /\ Combine(UNMATCHING_OPERANDS)

(* ProcessStmt on Exp SEMI, and the conditions of IF and WHILE. *)
ExpStmt ==
  /\ Running
  /\ Depth > 0
  /\ Top.late
  /\ NVals = 1
  /\ Have(1)
  /\ vals' = << >>
  /\ reply' = NoReply
  /\ UNCHANGED <<tables, stack, status>>

(* The return type of the function whose body is being checked. *)
Return_type == (CHOOSE f \in {stack[i] : i \in 1 .. Depth} : f.kind = "fun").type

(* ProcessStmt on RETURN Exp SEMI. *)
Return ==
  /\ Uses("return")
  /\ Depth > 0
  /\ Top.late
  /\ NVals = 1
  /\ Have(1)
  /\ ~ Throws(vals[1].type, Return_type)
  /\ vals' = << >>
  /\ reply' = Report(IF check_type(vals[1].type, Return_type) THEN OK
                     ELSE MISMATCH_RETURN_TYPE)
  /\ UNCHANGED <<tables, stack, status>>

(***************************************************************************)
(* std::bad_cast leaves a comparison with an array, or PopScope follows a  *)
(* dangling pointer: the process dies.                                     *)
(***************************************************************************)
BadCast ==
  \/ TopIs({"dec"}) /\ NVals = 1 /\ Have(1) /\ Throws(Under.type, vals[1].type)
  \/ InExp /\ NVals > 1 /\ Have(1) /\ Throws(vals[NVals - 1].type, Last_val.type)
       /\ (vals[NVals - 1].tag = "assigned" \/ "operator" \in Productions)
  \/ InExp /\ "call" \in Productions
       /\ \E n \in Names, k \in 0 .. NVals :
            Have(k) /\ GetVariableThrows(var_map, n, Args(k), TRUE)
  \/ Uses("return") /\ Depth > 0 /\ Top.late /\ NVals = 1 /\ Have(1)
       /\ Throws(vals[1].type, Return_type)
  \/ TopIs({"fun"}) /\ AtStmt
       /\ GetLocalVariableThrows(Erased(var_map, global_scope_level),
                                 Declared(global_scope_level - 1))

LostIterator ==
  /\ TopIs({"struct"}) \/ (TopIs({"fun", "block", "while"}) /\ AtStmt)
  /\ \/ PopCrashes(structure_map, global_scope_level)
     \/ PopCrashes(var_map, global_scope_level)

Die ==
  /\ Running
  /\ BadCast \/ LostIterator
  /\ status' = "crashed"
  /\ reply' = NoReply
  /\ UNCHANGED <<tables, stack, vals>>

(* The end of ProcessProgram. *)
Finish ==
  /\ Running
  /\ Depth = 0
  /\ status' = "done"
  /\ reply' = NoReply
  /\ UNCHANGED <<tables, stack, vals>>

-----------------------------------------------------------------------------
Declarations ==
  \/ \E t \in Prims : TypeSpecifier(t)
  \/ \E s \in SNames : StructUse(s) \/ StructStart(s)
  \/ StructEnd
  \/ \E n \in Names, dims \in 0 .. 1 : DecStart(n, dims)
  \/ DecEnd
  \/ DecListEnd
  \/ ExtDefEnd
  \/ \E n \in Names, params \in ParamLists : FunDec(n, params)
  \/ FunEnd

Statements == DefListEnd \/ BlockStart \/ WhileStart \/ ScopeEnd \/ ExpStmt \/ Return

Expressions ==
  \/ \E t \in Prims : Literal(t)
  \/ \E n \in Names : Variable(n) \/ Dot(n) \/ \E k \in 0 .. MaxVals : Call(n, k)
  \/ Unary
  \/ Index
  \/ AssignLeft
  \/ Assign
  \/ Binary

Next == Declarations \/ Statements \/ Expressions \/ Die \/ Finish

Spec == Init /\ [][Next]_vars

=============================================================================
