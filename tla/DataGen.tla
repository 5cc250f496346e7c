------------------------------ MODULE DataGen ------------------------------
(***************************************************************************)
(* The data half of project3's IR generator (src/project3/tac_ir.cpp):     *)
(* declarations, parameters, calls, arithmetic, arrays and members.        *)
(*                                                                         *)
(* translate_Exp is a recursive walk.  An expression is given by the calls *)
(* of this walk, in the order in which they do their own work (DataTree    *)
(* has it): a visit says what is done, and names by their positions the    *)
(* earlier visits whose results it takes.  The generator g is              *)
(* [code, names, ok]: tac_list, name_to_addr and whether the program still *)
(* runs (it dies on a failed dynamic_cast).  An action is one declarator,  *)
(* statement or brace of the source program.                               *)
(***************************************************************************)
EXTENDS DataTac

CONSTANTS
  Names,      \* the names of variables and functions
  Profiles,   \* families of source programs
  Structs,    \* [Profiles -> the structures, as <<name, fields>>]
  ExtDecs,    \* [Profiles -> the lists of global declarators]
  Functions,  \* [Profiles -> the functions, as <<name, parameters>>]
  Defs,       \* [Profiles -> the declarators of definitions]
  Stmts,      \* [Profiles -> the statements]
  MaxItems    \* [Profiles -> bound: statements and braces of one program]

VARIABLES
  tac_list,      \* the instructions emitted so far
  name_to_addr,  \* the instruction each name stands for; 0 for none
  strc_map,      \* the fields of the structures defined so far
  depth,         \* the open calls of translate_CompSt
  status,        \* "running" or "crashed"
  profile,       \* the family of the program; it never changes
  src            \* history: the program so far, item by item

vars == <<tac_list, name_to_addr, strc_map, depth, status, profile, src>>

-----------------------------------------------------------------------------
(***************************************************************************)
(* Expressions.  A visit is [op, single, name, number, parts]; parts are   *)
(* the positions of the visits whose results it takes.                     *)
(***************************************************************************)
Ops == {"read", "int", "id", "paren", "neg", "access", "first", "later", "elements", "members",
        "assign", "mixed", "member", "index", "call", "args"} \union Tokens

(* The way from a variable to an element or a member, step by step. *)
Steps == {"elements", "index", "mixed", "members", "member"}

Arity(v) ==
  CASE v.op \in {"read", "int", "id"} -> {0}
    [] v.op \in {"paren", "neg", "access", "first", "later", "elements", "members"} -> {1}
    [] v.op \in Tokens \union {"assign", "mixed", "member"} -> {2}
    [] v.op = "index" -> {3}
    [] v.op \in {"call", "args"} -> Nat

(* The left side of an assignment; in parentheses it is a value like any other. *)
IsTarget(v) == IF v.single THEN v.op \in {"id", "access"} ELSE v.op = "paren"

(* What stands in front of the step v of an access. *)
InFront(v) ==
  CASE v.op \in {"elements", "members"} -> {"id"}
    [] v.op \in {"index", "mixed"}      -> {"elements", "index", "mixed"}
    [] v.op = "member"                  -> {"members", "member"}
    [] v.op = "access"                  -> {"index", "mixed", "member"}

(* e[k] is the visit of a node of a syntax tree, behind those of its children. *)
IsVisit(e, k) ==
  LET v       == e[k]
      part(i) == e[v.parts[i]]
  IN  /\ v.single \in BOOLEAN /\ v.number \in Nat /\ v.parts \in Seq(1 .. k - 1)
      /\ v.single => k < Len(e) /\ e[k + 1].op = "assign"
      /\ \A i \in DOMAIN v.parts : part(i).single => v.op = "assign" /\ i = 2
      /\ v.op \in Ops /\ Len(v.parts) \in Arity(v)
      /\ v.op = "args" => k = Len(e)
      /\ v.op \in {"id", "call"} => v.name \in Names
      /\ v.op = "assign" =>
           v.parts[2] = k - 1 /\ v.parts[1] < k - 1 /\ IsTarget(part(2))
      /\ v.op \in Steps \union {"access"} => part(1).op \in InFront(v)
      /\ v.op \in {"elements", "members"} =>
           \E j \in DOMAIN e : e[j].op \in Steps /\ e[j].parts # << >> /\ e[j].parts[1] = k
      /\ v.op \in {"index", "mixed", "member"} => Last(v.parts) = Last(part(1).parts)
      /\ v.op \in {"call", "args"} =>
           \A i \in DOMAIN v.parts : part(i).op = IF i = 1 THEN "first" ELSE "later"

IsVisits(e) == e # << >> /\ e \in Seq(Range(e)) /\ \A k \in DOMAIN e : IsVisit(e, k)

IsExp(e) == IsVisits(e) /\ Last(e).op \notin Steps \union {"first", "later", "args"}

IsArgs(e) == IsVisits(e) /\ Last(e).op = "args"

(* A declarator is [spec, name, dims], in a definition with init. *)
IsDeclarator(d) == d.name \in Names /\ d.dims \in Seq(Nat)

Distinct(ds) ==
  /\ ds \in Seq(Range(ds))
  /\ \A i \in DOMAIN ds : IsDeclarator(ds[i])
  /\ \A i, j \in DOMAIN ds : ds[i].name = ds[j].name => i = j

ASSUME MaxItemsAssumption == MaxItems \in [Profiles -> Nat]

(* "int" is a keyword, and no name of a structure. *)
ASSUME StructsAssumption ==
  \A p \in Profiles : \A d \in Structs[p] : d[1] # "int" /\ d[2] \in Seq(Range(d[2]))

ASSUME ExtDecsAssumption == \A p \in Profiles : \A ds \in ExtDecs[p] : ds # << >> /\ Distinct(ds)

ASSUME FunctionsAssumption ==
  \A p \in Profiles : \A f \in Functions[p] : f[1] \in Names /\ Distinct(f[2])

(* Only scalars are initialised. *)
ASSUME DefsAssumption ==
  \A p \in Profiles : \A d \in Defs[p] :
    /\ IsDeclarator(d)
    /\ d.init # << >> => IsExp(d.init) /\ d.spec = "int" /\ d.dims = << >>

ASSUME StmtsAssumption ==
  \A p \in Profiles : \A s \in Stmts[p] :
    \/ s[1] \in {"exp", "return"} /\ IsExp(s[2])
    \/ s[1] = "write" /\ IsArgs(s[2])

-----------------------------------------------------------------------------
(* tac_list.size(): index 0 of the C++ vector holds a dummy. *)
Size(g) == Len(g.code) + 1

Push(g, tac) == [g EXCEPT !.code = Append(@, tac)]

(* Push tac and return its index. *)
Emit(g, tac) == [g |-> Push(g, tac), addr |-> Size(g)]

Return(g, addr) == [g |-> g, addr |-> addr]

Crash(g) == [g |-> [g EXCEPT !.ok = FALSE], addr |-> 0]

OpOf(g, addr) == IF addr \in DOMAIN g.code THEN g.code[addr].op ELSE "none"

(* dynamic_cast to DecCode succeeds: its address is taken in front. *)
AddressOf(addr, g) ==
  IF OpOf(g, addr) = "DEC" THEN Emit(g, AssignAddrCode(Size(g), addr)) ELSE Return(g, addr)

-----------------------------------------------------------------------------
(* Every assignment declares its target anew (for the mutation runs). *)
IdentifierAnew(x, single, g) ==
  IF single \/ g.names[x] = 0
  THEN Emit([g EXCEPT !.names[x] = Size(g)], AssignCode(Size(g), 0)) ELSE Return(g, g.names[x])

(* An assignment patches the declaration of its target (for the mutation runs). *)
IdentifierInPlace(x, single, g) ==
  IF g.names[x] = 0 THEN Emit(g, AssignCode(Size(g), 0)) ELSE Return(g, g.names[x])

(***************************************************************************)
(* An identifier.  On the left of an assignment ("single") it gets an      *)
(* instruction of its own, whose source is filled in later; elsewhere it   *)
(* is the instruction that name_to_addr knows, or a fresh zero.            *)
(***************************************************************************)
Identifier(x, single, g) ==
  LET known == g.names[x]
      addr  == IF known = 0 THEN Size(g) ELSE known
  IN  IF single
      THEN Emit([g EXCEPT !.names[x] = addr], AssignCode(addr, 0))
      ELSE IF known = 0 THEN Emit(g, AssignCode(addr, 0)) ELSE Return(g, known)

(* The target becomes its own source (for the mutation runs). *)
AssignmentOwn(r, l, g) == Return([g EXCEPT !.code[l].raddr = l], r)

(* Assignment, behind the value at r and the target at l: its source is patched. *)
Assignment(r, l, g) ==
  IF OpOf(g, l) \in {"ASSIGN", "STORE"}
  THEN Return([g EXCEPT !.code[l].raddr = r], r) ELSE Crash(g)

(* What the members and subscripts of an access start at; it dies elsewhere. *)
HasLayout(base, g) == OpOf(g, base) \in {"DEC", "PARAM"}

(* Only variables with a DEC have elements (for the mutation runs). *)
ElementsOfDec(base, g) ==
  IF OpOf(g, base) = "DEC" THEN AddressOf(base, g) ELSE Crash(g)

(* The variable in front of subscripts. *)
Elements(base, g) == IF HasLayout(base, g) THEN AddressOf(base, g) ELSE Crash(g)

(* The variable in front of members. *)
Members(base, g) ==
  IF HasLayout(base, g) /\ g.code[base].type.kind = "structure"
  THEN AddressOf(base, g) ELSE Crash(g)

(***************************************************************************)
(* One more subscript: its value times the size behind it is added to the  *)
(* address so far.  i counts the subscripts that follow, and selects the   *)
(* element of suffix.                                                      *)
(***************************************************************************)
Subscript(head, offset, base, i, g) ==
  LET sizes  == g.code[base].sizes
      scaled == Emit(g, ArithCode(Size(g), offset, -(suffix(sizes)[i + 1] * type_size), "*"))
  IN  IF i < Len(sizes)
      THEN Emit(scaled.g, ArithCode(Size(scaled.g), head, scaled.addr, "+")) ELSE Crash(g)

(***************************************************************************)
(* One more member: the offset of its name in the type of the variable at  *)
(* the start.  A subscript among members has no name, and is not computed. *)
(***************************************************************************)
Member(head, base, name, g) ==
  Emit(g, ArithCode(Size(g), head, -get_offset(g.code[base].type, name), "+"))

(* The address is complete: the access itself. *)
Access(head, single, g) ==
  Emit(g, IF single THEN AssignToAddrCode(head, 0) ELSE AssignValCode(Size(g), head))

(***************************************************************************)
(* translate_Args: an array in the first place is passed by its address    *)
(* (AddressOf); in the other places the value of an array goes into the    *)
(* list as it is, and it is the scalars whose address is taken, for        *)
(* nothing.                                                                *)
(***************************************************************************)
Later(addr, g) ==
  IF OpOf(g, addr) = "DEC" THEN Return(g, addr)
  ELSE Return(Push(g, AssignAddrCode(Size(g), addr)), addr)

PushAll(g, tacs) == [g EXCEPT !.code = @ \o tacs]

Call(f, addrs, g) ==
  LET all == PushAll(g, [i \in DOMAIN addrs |-> ArgCode(addrs[i])])
  IN  Emit(all, CallCode(Size(all), f))

(* The results that a visit takes, in a list of the results so far. *)
Taken(v, at) == [i \in DOMAIN v.parts |-> at[v.parts[i]]]

(* The work of one call of translate_Exp, on the results p of the calls it made. *)
Visited(v, p, g) ==
  CASE v.op = "read"     -> Emit(g, ReadCode(Size(g)))
    [] v.op = "int"      -> Emit(g, AssignCode(Size(g), -v.number))
    [] v.op = "id"       -> Identifier(v.name, v.single, g)
    [] v.op = "paren"    -> Return(g, p[1])
    [] v.op = "neg"      -> Emit(g, ArithCode(Size(g), 0, p[1], "-"))
    [] v.op \in Tokens   -> Emit(g, ArithCode(Size(g), p[1], p[2], v.op))
    [] v.op = "assign"   -> Assignment(p[1], p[2], g)
    [] v.op = "elements" -> Elements(p[1], g)
    [] v.op = "index"    -> Subscript(p[1], p[2], p[3], v.number, g)
    [] v.op = "mixed"    -> Crash(g)
    [] v.op = "members"  -> Members(p[1], g)
    [] v.op = "member"   -> Member(p[1], p[2], v.name, g)
    [] v.op = "access"   -> Access(p[1], v.single, g)
    [] v.op = "first"    -> AddressOf(p[1], g)
    [] v.op = "later"    -> Later(p[1], g)
    [] v.op = "args"     -> Return(g, 0)
    [] v.op = "call"     -> Call(v.name, p, g)

(* One visit more. Nothing is done any more once the program has died. *)
Visit(t, v) ==
  LET r == IF t.g.ok THEN Visited(v, Taken(v, t.at), t.g) ELSE Crash(t.g)
  IN  [g |-> r.g, at |-> Append(t.at, r.addr)]

Walk == INSTANCE Iteration WITH Step <- Visit

Translation(e, g) == Walk!Iterate([g |-> g, at |-> << >>], e)

translate_Exp(e, g) == LET t == Translation(e, g) IN Return(t.g, Last(t.at))

(* The list of addresses that translate_Args returns; e ends with its visit. *)
translate_Args(e, g) ==
  LET t == Translation(e, g) IN [g |-> t.g, addrs |-> Taken(Last(e), t.at)]

-----------------------------------------------------------------------------
KnownType(s) == s = "int" \/ s \in DOMAIN strc_map

(* A specifier: "int" or the name of a structure. *)
translate_Specifier(s) == IF s = "int" THEN Primitive ELSE Structure(strc_map[s])

(* translate_VarDec: the instruction that declares d. It is not pushed yet. *)
translate_VarDec(d, type, g) ==
  IF d.dims # << >> \/ type.kind = "structure"
  THEN DecCode(Size(g), type, d.dims) ELSE AssignCode(Size(g), 0)

(* The index of the instruction behind it (for the mutation runs). *)
RegisterNext(g, x) == [g EXCEPT !.names[x] = Size(g) + 1]

Register(g, x) == [g EXCEPT !.names[x] = Size(g)]

(* One declarator. The initialiser, if there is one, comes in front of the declaration. *)
translate_Dec(d, type, g) ==
  LET value == IF d.init = << >> THEN Return(g, 0) ELSE translate_Exp(d.init, g)
      tac   == translate_VarDec(d, type, value.g)
  IN  IF ~ value.g.ok THEN value.g
      ELSE IF value.addr = 0 THEN Push(Register(value.g, d.name), tac)
      ELSE IF tac.op # "ASSIGN" THEN Crash(value.g).g
      ELSE Push(Register(value.g, d.name), [tac EXCEPT !.raddr = value.addr])

translate_ParamDec(p, addr) == ParamCode(addr, translate_Specifier(p.spec), p.dims)

(* The parameters from the first to the last (for the mutation runs). *)
translate_VarList_forward(params, g) ==
  LET tacs == [j \in DOMAIN params |-> translate_ParamDec(params[j], Len(g.code) + j)]
  IN  PushAll([g EXCEPT !.names = [x \in Names |->
                IF \E j \in DOMAIN params : params[j].name = x
                THEN Len(g.code) + CHOOSE j \in DOMAIN params : params[j].name = x
                ELSE @[x]]], tacs)

(* The parameters from the last to the first: j counts them in this order. *)
translate_VarList(params, g) ==
  LET p    == Reverse(params)
      tacs == [j \in DOMAIN p |-> translate_ParamDec(p[j], Len(g.code) + j)]
  IN  PushAll([g EXCEPT !.names = [x \in Names |->
                IF \E j \in DOMAIN p : p[j].name = x
                THEN Len(g.code) + CHOOSE j \in DOMAIN p : p[j].name = x
                ELSE @[x]]], tacs)

(* The name of a function goes into the same table. *)
translate_FunDec(f, params, g) == translate_VarList(params, Push(Register(g, f), FuncCode(f)))

(* Nothing is registered (for the mutation runs). *)
ExtDecListUnnamed(decs, g) ==
  Push(g, translate_VarDec(decs[1], translate_Specifier(decs[1].spec), g))

(* Global variables: one instruction, for the first of them. *)
translate_ExtDecList(decs, g) ==
  Push(Register(g, decs[1].name),
       translate_VarDec(decs[1], translate_Specifier(decs[1].spec), g))

-----------------------------------------------------------------------------
(***************************************************************************)
(* The fields of a structure (semantic.cpp).  Every dimension of a field   *)
(* gets the size of the last one; the layout does not look at it.          *)
(***************************************************************************)
handle_VarDec(d) == [name |-> d.name, sizes |-> [i \in DOMAIN d.dims |-> Last(d.dims)]]

handle_DefList(fields) == [i \in DOMAIN fields |-> handle_VarDec(fields[i])]

-----------------------------------------------------------------------------
Last_item == IF src = << >> THEN "none" ELSE Last(src)[1]

Count(kind) == Cardinality({i \in DOMAIN src : src[i][1] = kind})

(* One more item; g is the generator after it. *)
Item(item, g) ==
  /\ status = "running" /\ Len(src) - Count("def") < MaxItems[profile]
  /\ IF g.ok
     THEN tac_list' = g.code /\ name_to_addr' = g.names /\ UNCHANGED status
     ELSE status' = "crashed" /\ UNCHANGED <<tac_list, name_to_addr>>
  /\ src' = Append(src, item)
  /\ UNCHANGED profile

Now_g == [code |-> tac_list, names |-> name_to_addr, ok |-> TRUE]

(* init_all, and an empty program. *)
Init ==
  /\ tac_list = << >> /\ name_to_addr = [x \in Names |-> 0]
  /\ strc_map = << >> /\ depth = 0 /\ status = "running"
  /\ profile \in Profiles /\ src = << >>

(* ExtDef: struct S { ... };  The first definition of a name stays. *)
StructDef(s, fields) ==
  /\ depth = 0
  /\ strc_map' = [t \in DOMAIN strc_map \union {s} |->
                    IF t \in DOMAIN strc_map THEN strc_map[t] ELSE handle_DefList(fields)]
  /\ Item(<<"struct", s, fields>>, Now_g)
  /\ UNCHANGED depth

(* ExtDef: global variables. *)
ExtDec(decs) ==
  /\ depth = 0 /\ KnownType(decs[1].spec)
  /\ Item(<<"ext", decs>>, translate_ExtDecList(decs, Now_g))
  /\ UNCHANGED <<strc_map, depth>>

(* ExtDef: the head of a function, and the brace of its body. *)
Function(f, params) ==
  /\ depth = 0 /\ \A i \in DOMAIN params : KnownType(params[i].spec)
  /\ Item(<<"fun", f, params>>, translate_FunDec(f, params, Now_g))
  /\ depth' = 1 /\ UNCHANGED strc_map

EndFunction == depth = 1 /\ Item(<<"end">>, Now_g) /\ depth' = 0 /\ UNCHANGED strc_map

(* CompSt inside a function: its definitions come before its statements. *)
OpenBlock == depth > 0 /\ Item(<<"open">>, Now_g) /\ depth' = depth + 1 /\ UNCHANGED strc_map

CloseBlock == depth > 1 /\ Item(<<"close">>, Now_g) /\ depth' = depth - 1 /\ UNCHANGED strc_map

(* A declarator of a definition. *)
Def(d) ==
  /\ depth > 0 /\ Last_item \in {"fun", "open", "def"} /\ KnownType(d.spec)
  /\ Item(<<"def", d>>, translate_Dec(d, translate_Specifier(d.spec), Now_g))
  /\ UNCHANGED <<strc_map, depth>>

(* translate_Stmt on an expression, a WRITE and a RETURN. *)
ExpStmt(e) ==
  depth > 0 /\ Item(<<"exp", e>>, translate_Exp(e, Now_g).g) /\ UNCHANGED <<strc_map, depth>>

Write(e) ==
  LET res == translate_Args(e, Now_g)
  IN  /\ depth > 0
      /\ Item(<<"write", e>>,
              PushAll(res.g, [i \in DOMAIN res.addrs |-> WriteCode(res.addrs[i])]))
      /\ UNCHANGED <<strc_map, depth>>

ReturnStmt(e) ==
  LET r == translate_Exp(e, Now_g)
  IN  /\ depth > 0 /\ Item(<<"return", e>>, Push(r.g, ReturnCode(r.addr)))
      /\ UNCHANGED <<strc_map, depth>>

=============================================================================
