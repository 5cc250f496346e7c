---------------------------- MODULE SymbolTable ----------------------------
(***************************************************************************)
(* The symbol tables of project 2's semantic checker                       *)
(* (src/11710123_project2/semantic.cpp, semantic.h): types and their       *)
(* comparison, the two multimaps and the functions that search, extend and *)
(* prune them.                                                             *)
(*                                                                         *)
(* There is one flat table for all scopes: an entry carries the level of   *)
(* the scope it was declared in, and closing a scope erases the entries of *)
(* its level.  A multimap is a set of entries here; "seq" is the insertion *)
(* number, which orders entries of equal names as the multimap does, and   *)
(* names are numbers so that they have the order of the C++ strings.       *)
(***************************************************************************)
EXTENDS Integers, FiniteSets, SequencesExt

CONSTANT PopOutcomes   \* what the undefined behaviour in PopScope may do

ASSUME PopOutcomesAssumption ==
  PopOutcomes \subseteq {"exact", "skip", "crash"} /\ PopOutcomes # {}

(* CheckInfo, with the numbers SemanticErrorReport prints. *)
OK == 0
VARIABLE_NOT_FOUND == 1
FUNCTION_NOT_FOUND == 2
VARIABLE_REDEFINED == 3
FUNCTION_REDEFINED == 4
UNMATCHING_TYPE_ON_ASSIGN == 5
RVALUE_ON_THE_LEFT == 6
UNMATCHING_OPERANDS == 7
MISMATCH_RETURN_TYPE == 8
MISMATCH_FUNCTION_ARGUMENTS == 9
APPLYING_INDEXING_FOR_NON_ARRAY == 10
APPLY_FUNCTION_ON_VARIABLE == 11
APPLY_INDEXING_WITH_NON_INT == 12
ACCESSING_MEMBER_OF_NON_STRUCTURE_VAR == 13
STRUCTURE_NOT_FOUND == 14
STRUCTURE_REDEFINED == 15

-----------------------------------------------------------------------------
(***************************************************************************)
(* Types.  Array sizes are left out: no comparison ever reaches them.      *)
(***************************************************************************)
EMPTY_TYPE == [kind |-> "EMPTY"]

CPrimitive(t) == [kind |-> "PRIMITIVE", name |-> t]

CArray(base) == [kind |-> "ARRAY", base |-> base]

CStructure(n, fields) == [kind |-> "STRUCTURE", name |-> n, fields |-> fields]

(* The same cast in CStructure::operator== (for the mutation runs). *)
ThrowsStructures(left, right) ==
  left.kind \in {"ARRAY", "STRUCTURE"} \/ (left.kind # "EMPTY" /\ right.kind = "ARRAY")

(***************************************************************************)
(* check_type first compares each side with EMPTY_TYPE.  For an array that *)
(* is CArray::operator==, which casts its argument to CArray& and throws   *)
(* std::bad_cast, which nothing catches.                                   *)
(***************************************************************************)
Throws(left, right) ==
  left.kind = "ARRAY" \/ (left.kind # "EMPTY" /\ right.kind = "ARRAY")

(* check_type, where it does not throw: structures are compared by name. *)
check_type(left, right) ==
  left.kind \in {"PRIMITIVE", "STRUCTURE"} /\ left.kind = right.kind /\ left.name = right.name

(* CVariable::CheckArgs: whether the comparison throws, and its result. *)
ArgsThrow(params, args) ==
  /\ Len(params) = Len(args)
  /\ \E i \in DOMAIN args : /\ Throws(params[i], args[i])
                            /\ \A j \in 1 .. i - 1 : check_type(params[j], args[j])

CheckArgs(params, args) ==
  /\ Len(params) = Len(args)
  /\ \A i \in DOMAIN args : check_type(params[i], args[i])

(* CStructure::GetMemberType: the first member of that name, or none. *)
Members(type, n) == {i \in DOMAIN type.fields : type.fields[i].name = n}

GetMemberType(type, n) ==
  type.fields[CHOOSE i \in Members(type, n) : \A j \in Members(type, n) : i <= j].type

-----------------------------------------------------------------------------
(* Entries of var_map and of structure_map. *)
CVariable(n, type, args, level, func) ==
  [name |-> n, type |-> type, args |-> args, level |-> level, func |-> func, seq |-> 0]

Named(m, n) == {e \in m : e.name = n}

(* The numbers of S, the smallest first. *)
Ascending(S) ==
  [k \in 1 .. Cardinality(S) |-> CHOOSE i \in S : Cardinality({j \in S : j <= i}) = k]

(* equal_range: the entries of a name in the order of their insertion. *)
EqualRange(m, n) ==
  LET ages == Ascending({e.seq : e \in Named(m, n)})
  IN  [k \in DOMAIN ages |-> CHOOSE e \in Named(m, n) : e.seq = ages[k]]

First(S) == CHOOSE e \in S : \A f \in S : e.seq <= f.seq

(* The scope level forgotten, so that any match wins (for the mutation runs). *)
GetVariableAnyLevel(m, n, args, call) ==
  LET Step(r, e) ==
        IF call /\ ~ e.func THEN [r EXCEPT !.flag = APPLY_FUNCTION_ON_VARIABLE]
        ELSE IF CheckArgs(e.args, args)
        THEN IF r.level < 0 THEN [flag |-> OK, type |-> e.type, level |-> e.level] ELSE r
        ELSE IF r.flag # OK
        THEN [r EXCEPT !.flag = MISMATCH_FUNCTION_ARGUMENTS, !.type = e.type] ELSE r
  IN  FoldLeft(Step, [flag  |-> IF call THEN FUNCTION_NOT_FOUND ELSE VARIABLE_NOT_FOUND,
                      type  |-> EMPTY_TYPE,
                      level |-> -1], EqualRange(m, n))

(***************************************************************************)
(* GetVariable, for a use (call = FALSE, no args) or a call of a name: a   *)
(* turn of the loop over its entries, and the loop.                        *)
(***************************************************************************)
Examine(r, e, args, call) ==
  IF call /\ ~ e.func THEN [r EXCEPT !.flag = APPLY_FUNCTION_ON_VARIABLE]
  ELSE IF CheckArgs(e.args, args)
  THEN IF e.level > r.level THEN [flag |-> OK, type |-> e.type, level |-> e.level] ELSE r
  ELSE IF r.flag # OK
  THEN [r EXCEPT !.flag = MISMATCH_FUNCTION_ARGUMENTS, !.type = e.type] ELSE r

NotFound(call) ==
  [flag  |-> IF call THEN FUNCTION_NOT_FOUND ELSE VARIABLE_NOT_FOUND,
   type  |-> EMPTY_TYPE,
   level |-> -1]

GetVariable(m, n, args, call) ==
  FoldLeft(LAMBDA r, e : Examine(r, e, args, call), NotFound(call), EqualRange(m, n))

GetVariableThrows(m, n, args, call) ==
  \E e \in Named(m, n) : (call => e.func) /\ ArgsThrow(e.args, args)

(* GetLocalVariable: the entries a new one of the current level collides with. *)
Collisions(m, v) ==
  {e \in Named(m, v.name) : e.level = v.level /\ CheckArgs(e.args, v.args)}

GetLocalVariable(m, v) ==
  IF Collisions(m, v) = {} THEN OK
  ELSE IF First(Collisions(m, v)).func THEN FUNCTION_REDEFINED ELSE VARIABLE_REDEFINED

GetLocalVariableThrows(m, v) ==
  \E e \in Named(m, v.name) : /\ e.level = v.level /\ ArgsThrow(e.args, v.args)
                              /\ \A f \in Collisions(m, v) : e.seq < f.seq

(***************************************************************************)
(* UpdateVariable: every entry of the list is inserted, a redefinition too *)
(* (SemanticErrorReport always returns true); the codes it prints.         *)
(***************************************************************************)
Inserted(list, n, clock) == {[list[i] EXCEPT !.seq = clock + i] : i \in 1 .. n}

UpdateVariable(m, list, clock) == m \union Inserted(list, Len(list), clock)

Redefinitions(m, list, clock) ==
  LET code(i)  == GetLocalVariable(m \union Inserted(list, i - 1, clock), list[i])
      reported == Ascending({i \in DOMAIN list : code(i) # OK})
  IN  [k \in DOMAIN reported |-> code(reported[k])]

(* GetStructure: the entry of the innermost scope, the first one inserted there. *)
GetStructure(m, n) ==
  IF Named(m, n) = {} THEN [flag |-> STRUCTURE_NOT_FOUND, type |-> EMPTY_TYPE]
  ELSE LET deepest == {e \in Named(m, n) : \A f \in Named(m, n) : f.level <= e.level}
       IN  [flag |-> OK, type |-> First(deepest).type]

(* Asked before the scope is left (for the mutation runs). *)
GetLocalStructureInside(m, n, level) ==
  IF \E e \in Named(m, n) : e.level = level + 1 THEN STRUCTURE_REDEFINED ELSE OK

(* GetLocalStructure *)
GetLocalStructure(m, n, level) ==
  IF \E e \in Named(m, n) : e.level = level THEN STRUCTURE_REDEFINED ELSE OK

-----------------------------------------------------------------------------
(***************************************************************************)
(* PopScope on one multimap.  The loop erases the iterator's node and then *)
(* increments the iterator, which reads the freed node.  A build may still *)
(* erase exactly the entries of the level; it may step over the successor  *)
(* of an erased node, when that node had two children and the successor    *)
(* was not its right child (so entries of other levels stay on both sides  *)
(* of the pair); or it may follow a pointer that free() has overwritten.   *)
(* The shape of the tree is left out: any entry with such neighbours may   *)
(* be stepped over.                                                        *)
(***************************************************************************)
Precedes(e, f) == e.name < f.name \/ (e.name = f.name /\ e.seq < f.seq)

Of(m, level) == {e \in m : e.level = level}

Erased(m, level) == m \ Of(m, level)

(* Of the map m, rest stays: e because p, just before it, was erased. *)
SteppedOver(m, level, rest, e) ==
  /\ \E p \in Of(m, level) \ rest :
       /\ Precedes(p, e)
       /\ ~ \E f \in m : Precedes(p, f) /\ Precedes(f, e)
       /\ \E f \in Erased(m, level) : Precedes(f, p)
  /\ \E f \in Erased(m, level) : Precedes(e, f)

PopResults(m, level) ==
  {rest \in {Erased(m, level) \union kept : kept \in SUBSET Of(m, level)} :
     \/ "exact" \in PopOutcomes /\ rest = Erased(m, level)
     \/ "skip" \in PopOutcomes /\ \A e \in Of(rest, level) : SteppedOver(m, level, rest, e)}

PopCrashes(m, level) == "crash" \in PopOutcomes /\ Of(m, level) # {}

=============================================================================
