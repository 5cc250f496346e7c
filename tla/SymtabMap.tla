----------------------------- MODULE SymtabMap -----------------------------
(***************************************************************************)
(* What a symbol table of lab 5 promises (src/lab5/symtab.h): a map from   *)
(* keys to values.                                                         *)
(***************************************************************************)
EXTENDS Integers

CONSTANTS Keys, Values

VARIABLES
  map,   \* the pairs in the table
  call,  \* the last call
  ret    \* what it returned

vars == <<map, call, ret>>

Without(k) == [key \in DOMAIN map \ {k} |-> map[key]]

Init == map = [k \in {} |-> 0] /\ call = <<"init">> /\ ret = 0

Insert(k, v) ==
  /\ call' = <<"insert", k, v>>
  /\ IF k \in DOMAIN map
     THEN ret' = 0 /\ UNCHANGED map
     ELSE /\ ret' = 1
          /\ map' = [key \in DOMAIN map \union {k} |-> IF key = k THEN v ELSE map[key]]

Lookup(k) ==
  /\ call' = <<"lookup", k>>
  /\ ret' = IF k \in DOMAIN map THEN map[k] ELSE -1
  /\ UNCHANGED map

Remove(k) ==
  /\ call' = <<"remove", k>>
  /\ ret' = IF k \in DOMAIN map THEN 1 ELSE 0
  /\ map' = Without(k)

Next == \E k \in Keys : Lookup(k) \/ Remove(k) \/ \E v \in Values : Insert(k, v)

Spec == Init /\ [][Next]_vars

=============================================================================
