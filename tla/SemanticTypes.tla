--------------------------- MODULE SemanticTypes ---------------------------
(***************************************************************************)
(* What the semantic checker lets pass: the types of a program that no     *)
(* error was reported for.                                                 *)
(***************************************************************************)
EXTENDS Semantic

CONSTANT PlainTypes   \* types that are no arrays and have none among their members

ASSUME PlainTypesAssumption ==
  \A t \in PlainTypes :
    /\ t.kind # "ARRAY"
    /\ t.kind = "STRUCTURE" => \A i \in DOMAIN t.fields : t.fields[i].type \in PlainTypes

VARIABLE clean   \* nothing was reported so far

tvars == <<vars, clean>>

TInit == Init /\ clean = TRUE

TNext == Next /\ clean' = (clean /\ reply'.codes = << >>)

TSpec == TInit /\ [][TNext]_tvars

-----------------------------------------------------------------------------
(***************************************************************************)
(* Nothing fails silently: while nothing was reported, every operand, every*)
(* entry and every declaration begun has a type (semantic.cpp:319-405,     *)
(* 522-588 answer with EMPTY_TYPE, and it is the caller who reports).      *)
(***************************************************************************)
EmptyMeansReported ==
  clean => /\ \A i \in 1 .. NVals : vals[i].type # EMPTY_TYPE
           /\ \A e \in var_map : e.type # EMPTY_TYPE
           /\ \A i \in DOMAIN stack : stack[i].kind \in {"def", "dec"} => stack[i].type # EMPTY_TYPE

ElementType(type) == IF type.kind = "ARRAY" THEN type.base ELSE type

(***************************************************************************)
(* No variable outlives the definition of its structure: the definition is *)
(* in structure_map, in the variable's scope or around it, although the two*)
(* maps are extended and pruned apart (semantic.cpp:116-126, 507, 614-627).*)
(***************************************************************************)
LiveTypes ==
  \A e \in var_map :
    LET type == ElementType(e.type)
    IN  type.kind = "STRUCTURE" =>
          \E s \in structure_map : s.type = type /\ s.level <= e.level

(* The types of variables, and of the definitions that have begun. *)
TypesInUse ==
  {ElementType(e.type) : e \in var_map} \cup
  {stack[i].type : i \in {j \in DOMAIN stack : stack[j].kind = "def"}}

(***************************************************************************)
(* Structures are equal when their names are (semantic.h:179-181).  While  *)
(* nothing was reported, two types in use are mixed up only if one shadows *)
(* the other: both definitions are in the table, at different levels.      *)
(***************************************************************************)
MixedUpIsShadowed ==
  clean => \A t, u \in TypesInUse :
    (t # u /\ {t.kind, u.kind} = {"STRUCTURE"} /\ check_type(t, u)) =>
      \E d, e \in structure_map : d.type = t /\ e.type = u /\ d.level # e.level

(***************************************************************************)
(* CArray::operator== throws (semantic.h:103-109), which kills the checker.*)
(* It takes an array in the table: a variable in scope, a member of one or *)
(* a parameter of a function.  No comparison meets an array that a closed  *)
(* scope left over in an operand, a structure or an open call.             *)
(***************************************************************************)
DiesOfArrays ==
  status = "crashed" /\ ~ LostIterator =>
    \E e \in var_map : \/ e.type \notin PlainTypes
                       \/ \E i \in DOMAIN e.args : e.args[i] \notin PlainTypes

=============================================================================
