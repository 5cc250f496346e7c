------------------------------ MODULE TacList ------------------------------
(***************************************************************************)
(* The three-address code that project3 builds in memory                   *)
(* (src/project3/tac_ir.hpp): a vector of instruction objects and a heap   *)
(* of jump labels.                                                         *)
(*                                                                         *)
(* tac_list[0] is a dummy pushed by init_all, so index i of the C++ vector *)
(* is position i of the sequence used here and tac_list.size() is          *)
(* Len(code) + 1.  A jump holds a POINTER to an int allocated by new_label;*)
(* two jumps may point to the same int, so a jump here carries the index   *)
(* of a cell of the label heap, and the heap is a sequence of numbers.     *)
(* LabelCode(addr) is always pushed at position addr, so a label's printed *)
(* number is its position.                                                 *)
(***************************************************************************)
EXTENDS Integers, Sequences

CONSTANTS
  Atoms,      \* comparisons between operands (the IF instruction's l, token, r)
  Marks,      \* side effects that can be told apart (the operand of a WRITE)
  NoArg,      \* the operand of an instruction that has none
  FreshSwap   \* the values is_swap may have in a newly allocated instruction

ASSUME FreshSwapAssumption == FreshSwap \subseteq BOOLEAN /\ FreshSwap # {}

ASSUME NoArgAssumption == NoArg \notin Atoms \union Marks

Ops == {"IF", "GOTO", "LABEL", "ASSIGN", "WRITE", "RETURN"}

(***************************************************************************)
(* An instruction: its class, its is_swap flag, the label cell it points   *)
(* to (0 when its class has no label) and its operand.                     *)
(***************************************************************************)
TAC == [op    : Ops,
        swap  : BOOLEAN,
        label : Nat,
        arg   : Atoms \union Marks \union {NoArg}]

(***************************************************************************)
(* is_swap is read only in instructions whose index translate_Exp returned *)
(* (IF and ASSIGN here); in the others the flag is fixed.                  *)
(***************************************************************************)
IfCode(a, s, p) == [op |-> "IF", swap |-> s, label |-> p, arg |-> a]

GotoCode(p) == [op |-> "GOTO", swap |-> FALSE, label |-> p, arg |-> NoArg]

LabelCode == [op |-> "LABEL", swap |-> FALSE, label |-> 0, arg |-> NoArg]

AssignCode(s) == [op |-> "ASSIGN", swap |-> s, label |-> 0, arg |-> NoArg]

WriteCode(m) == [op |-> "WRITE", swap |-> FALSE, label |-> 0, arg |-> m]

ReturnCode == [op |-> "RETURN", swap |-> FALSE, label |-> 0, arg |-> NoArg]

(***************************************************************************)
(* The results of the dynamic_casts: an index holds an object of the class *)
(* asked for.  Otherwise the cast is a null pointer, which the code        *)
(* dereferences.                                                           *)
(***************************************************************************)
IsIf(code, i) == i \in DOMAIN code /\ code[i].op = "IF"

IsGoto(code, i) == i \in DOMAIN code /\ code[i].op = "GOTO"

IsLabel(code, i) == i \in DOMAIN code /\ code[i].op = "LABEL"

(***************************************************************************)
(* The default argument of new_label: the number of the instruction after  *)
(* the one about to be pushed at position i.  The sign is no part of it: a *)
(* negative cell has the number it was allocated with, and no assignment   *)
(* has reached it yet.                                                     *)
(***************************************************************************)
Placeholder(i) == -(i + 1)

(* The number in a label cell, as it is printed. *)
Number(cell) == IF cell < 0 THEN -cell ELSE cell

(* back_patch has both casts succeed on the condition at addr. *)
CanPatch(code, addr) == IsIf(code, addr) /\ IsGoto(code, addr + 1)

(* A back_patch that forgets the GOTO (for the mutation runs). *)
PatchedIfOnly(code, heap, addr, true_list, false_list) ==
  [heap EXCEPT ![code[addr].label] =
     IF code[addr].swap THEN false_list ELSE true_list]

(***************************************************************************)
(* back_patch: write the two targets into the label cells of the IF at     *)
(* addr and of the GOTO behind it, exchanged when the condition is negated.*)
(***************************************************************************)
Patched(code, heap, addr, true_list, false_list) ==
  LET s == code[addr].swap
  IN  [heap EXCEPT ![code[addr].label]     = IF s THEN false_list ELSE true_list,
                   ![code[addr + 1].label] = IF s THEN true_list ELSE false_list]

=============================================================================
