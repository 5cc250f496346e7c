------------------------------- MODULE MCLabs -------------------------------
(***************************************************************************)
(* The data structures of the labs on small instances (run labs): the      *)
(* two symbol tables of lab 5, the linked list of lab 1, the checker of    *)
(* keys of lab 8.  They do not interact: "which" is chosen once.           *)
(***************************************************************************)
EXTENDS SymtabList, SymtabTree, LinkedList

VARIABLES
  which,
  stack, size, verdict   \* KeyCheck

keyVars == <<stack, size, verdict>>

(* Bound: the keys for the list.  The tree has one more, so that a successor *)
(* may have a right tree of its own.                                         *)
ListKeys == 1 .. 4

(* Bound: two values for every other key of the tree, one for those between them. *)
TreeValues(k) == IF k % 2 = 0 THEN {10} ELSE Values

(* Positions on both sides of the bounds. *)
MCIndexes == -1 .. 4

(* The empty key, and two that begin alike. *)
Keys8 == INSTANCE KeyCheck WITH
  Texts <- {<<"quote", "quote">>, <<"quote", "a", "quote">>, <<"quote", "a", "b", "quote">>},
  MaxSize <- 5

MCInit ==
  /\ which \in {"symtab_ll", "symtab_bt", "linked_list", "keys"}
  /\ Init /\ tree_init /\ linked_list_init /\ Keys8!Init
  /\ which # "symtab_bt" => yields = "node"

MCNext ==
  /\ UNCHANGED which
  /\ \/ which = "symtab_ll" /\ Next /\ call'[2] \in ListKeys /\ UNCHANGED <<tree_vars, list_vars, keyVars>>
     \/ /\ which = "symtab_bt" /\ TreeNext
        /\ tree_call'[1] = "insert" => tree_call'[3] \in TreeValues(tree_call'[2])
        /\ UNCHANGED <<vars, list_vars, keyVars>>
     \/ which = "linked_list" /\ ListNext /\ UNCHANGED <<vars, tree_vars, keyVars>>
     \/ which = "keys" /\ Keys8!Next /\ UNCHANGED <<vars, tree_vars, list_vars>>

MCSpec == MCInit /\ [][MCNext]_<<which, vars, tree_vars, list_vars, keyVars>>

-----------------------------------------------------------------------------
(* The property of the instance, under its own name. *)
AcceptedHasNoTwins == Keys8!AcceptedHasNoTwins

=============================================================================
