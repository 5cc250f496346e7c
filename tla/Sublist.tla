------------------------------ MODULE Sublist ------------------------------
(***************************************************************************)
(* Sequences with some of their elements left out.                         *)
(***************************************************************************)
EXTENDS SequencesExt

Take(r, x, S) == IF x \in S THEN Append(r, x) ELSE r

(* The elements of s that are in S, in their order. *)
Those(s, S) == FoldLeft(LAMBDA r, x : Take(r, x, S), << >>, s)

=============================================================================
