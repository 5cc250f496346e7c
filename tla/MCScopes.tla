------------------------------ MODULE MCScopes ------------------------------
(***************************************************************************)
(* Small instances of SemanticScopes. Parameters may have types that the   *)
(* declarations do not use, so that overloads differ in it.                *)
(***************************************************************************)
EXTENDS SemanticScopes

TypesOfParams == {CPrimitive(t) : t \in Prims \union {"char"}} \union {CArray(CPrimitive("int"))}

Params == {<< >>} \union {<<[name |-> 1, type |-> t]>> : t \in TypesOfParams}

NoParams == {<< >>}

(***************************************************************************)
(* Bound: while a structure is asked for, open or known, or something has  *)
(* its type, only name 1 is declared and the program has declared at most  *)
(* MaxWithStructures times. Programs without have all names and MaxInserts *)
(* declarations.                                                           *)
(***************************************************************************)
MaxWithStructures == 3

OfStructure(type) == type.kind \in {"STRUCTURE", "EMPTY"}

UsesStructures ==
  \/ structure_map # {} \/ asked[1] = "structure"
  \/ \E e \in var_map : OfStructure(e.type)
  \/ \E i \in DOMAIN stack :
       \/ stack[i].kind = "struct"
       \/ stack[i].kind \in {"fun", "def", "dec"} /\ OfStructure(stack[i].type)

FewStructures ==
  UsesStructures =>
    /\ clock <= MaxWithStructures
    /\ \A e \in var_map : e.name = 1
    /\ \A i \in DOMAIN stack : stack[i].name \in {0, 1}

(* Bound: name 2 is declared, or an open call is about to, only while name 1 is. *)
SecondName ==
  LET mentioned == {e.name : e \in var_map} \union {stack[i].name : i \in DOMAIN stack}
  IN  2 \in mentioned => 1 \in mentioned

=============================================================================
