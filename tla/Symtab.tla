------------------------------- MODULE Symtab -------------------------------
(***************************************************************************)
(* What the symbol tables of lab 5 share (src/lab5/symtab.h): the entries  *)
(* and what callers put into them.  Keys are numbers in the order of       *)
(* strcmp; "" is no key that callers use, it is that of the first node.    *)
(***************************************************************************)
EXTENDS Integers

CONSTANTS
  Keys,
  Values,
  MaxNodes  \* bound: nodes behind the first one

ASSUME KeysAssumption == Keys \subseteq Int
ASSUME BoundAssumption == MaxNodes \in Nat

Entry(k, v) == [key |-> k, value |-> v]

=============================================================================
