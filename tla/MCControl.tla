----------------------------- MODULE MCControl -----------------------------
(***************************************************************************)
(* Small instances of ControlSem: at most two comparisons that can be told *)
(* apart, one effect.                                                      *)
(***************************************************************************)
EXTENDS ControlSem

CONSTANTS a1, a2, m1

(* Every operand is an identifier. *)
NoLiterals == [a \in Atoms |-> 0]

(* One of the two has a literal as its right operand, which needs a TAC of its own. *)
Mixed == [a \in Atoms |-> IF a = a2 THEN 1 ELSE 0]

(* Bound: instructions that are neither jumps nor labels, where most of a program is conditions. *)
MaxStraight == 2

FewStraight ==
  Cardinality({i \in DOMAIN tac_list : tac_list[i].op \notin {"IF", "GOTO", "LABEL"}}) <= MaxStraight

=============================================================================
