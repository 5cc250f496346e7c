---------------------------- MODULE ControlHist ----------------------------
(***************************************************************************)
(* ControlGen with one history variable, and the structural properties of  *)
(* the code it emits.                                                      *)
(*                                                                         *)
(* A textbook back-patcher keeps, for a condition, the LIST of its true    *)
(* exits and the list of its false exits.  project3 keeps no list: the     *)
(* exits of a condition are the jumps that share the label cell of its     *)
(* last comparison.  Re-pointing one of several jumps that share a cell    *)
(* therefore loses the others.  "lost" records that this has happened, or  *)
(* that a condition was used as a value (or a statement), so that none of  *)
(* its exits will be patched.                                              *)
(***************************************************************************)
EXTENDS ControlGen

VARIABLE lost   \* an exit that no later step can patch has been left behind

hvars == <<vars, lost>>

Jumps == {i \in 1 .. Len(tac_list) : tac_list[i].op \in {"IF", "GOTO"}}

(* Another jump still points to the label cell that Join(k) takes from l. *)
Shared(k) ==
  LET e == ShareExit(k, Under.exp, Under.swap)
  IN  \E j \in Jumps \ {e} : tac_list[j].label = tac_list[e].label

(* One of the n innermost frames holds a condition. *)
HoldsIf(n) == \E f \in Depth - n + 1 .. Depth : IsIf(tac_list, stack[f].exp)

(* A step that needs no more of its n operands than their indices. *)
UsesValues(n) ==
  \/ Value(n)
  \/ \E a \in Atoms : Relop(a, n)
  \/ n = 1 /\ ExpStmt
  \/ n = 1 /\ Assign(2)    \* the index of the array element on the left
  \/ n < 2 /\ Return(n)
  \/ n < 2 /\ \E m \in Marks : Write(m, n)

Loses ==
  \/ \E k \in {"and", "or"} : Join(k) /\ Shared(k)
  \/ \E n \in Arity : UsesValues(n) /\ HoldsIf(n)

HInit == Init /\ lost = FALSE

HNext == Next /\ lost' = (lost \/ Loses)

HSpec == HInit /\ [][HNext]_hvars

-----------------------------------------------------------------------------
(* Types; every jump's label cell and every returned index exist. *)
TypeOK ==
  /\ tac_list \in Seq(TAC)
  /\ label \in Seq(Int)
  /\ stack \in Seq(Frame)
  /\ status \in {"running", "done", "crashed"}
  /\ lost \in BOOLEAN
  /\ \A i \in Jumps : tac_list[i].label \in 1 .. Len(label)
  /\ \A f \in 1 .. Depth : stack[f].exp <= Len(tac_list)

(***************************************************************************)
(* The jump at i leads to a LABEL of the code, and by an assignment: the   *)
(* placeholder of a new cell often is the number of a LABEL by accident.   *)
(***************************************************************************)
Resolved(i) == IsLabel(tac_list, label[tac_list[i].label])

(* The frames that hold the index of an expression. *)
Conds == {f \in 1 .. Depth : stack[f].kind \notin {"else", "while"}}

(***************************************************************************)
(* The jump at i shares its cell with an exit of a condition that is still *)
(* open (back_patch or Join will write that cell), or it is the jump over  *)
(* an ELSE statement that is still open.                                   *)
(***************************************************************************)
Pending(i) ==
  \/ \E f \in Conds :
       /\ IsIf(tac_list, stack[f].exp)
       /\ \/ tac_list[i].label = tac_list[stack[f].exp].label
          \/ tac_list[i].label = tac_list[stack[f].exp + 1].label
  \/ \E f \in 1 .. Depth : stack[f].kind = "else" /\ i = stack[f].at

(***************************************************************************)
(* No jump is forgotten: as long as no exit was lost, every IF and GOTO    *)
(* emitted so far either leads to a LABEL or is still going to be patched  *)
(* (tac_ir.cpp:18-24, 206-220, 235-249).                                   *)
(***************************************************************************)
NoJumpForgotten ==
  ~ lost => \A i \in Jumps : (Resolved(i) \/ Pending(i))

(***************************************************************************)
(* When translate_Programe prints the code, every jump of it has been      *)
(* patched, with the number of a LABEL of that code, for every program     *)
(* that loses no exit.                                                     *)
(***************************************************************************)
LabelsDefined == status = "done" /\ ~ lost => \A i \in Jumps : Resolved(i)

(***************************************************************************)
(* The generator dies on a failed cast only for the sake of an expression  *)
(* that is no comparison: a step to "crashed" finds, in the innermost      *)
(* frame or, under a result, in the one that waited for it, a condition    *)
(* whose code is not an IF (tac_ir.cpp:22-23, 206-220).                    *)
(***************************************************************************)
CrashNeedsNonCondition ==
  [][status' = "crashed" =>
       \E f \in Conds :
         /\ f = Depth \/ (f = Depth - 1 /\ TopIs({"exp"}))
         /\ ~ IsIf(tac_list, stack[f].exp)]_hvars

-----------------------------------------------------------------------------
(***************************************************************************)
(* The inductive strengthening of NoJumpForgotten: an IF is followed by    *)
(* its GOTO; the indices kept in frames point to instructions of the class *)
(* they will be cast to, and no two frames hold the same expression.       *)
(***************************************************************************)
IfHasGoto ==
  \A i \in 1 .. Len(tac_list) : tac_list[i].op = "IF" => IsGoto(tac_list, i + 1)

ExpsOK ==
  /\ \A f \in Conds : /\ stack[f].exp \in 1 .. Len(tac_list)
                      /\ tac_list[stack[f].exp].op \in {"IF", "ASSIGN"}
  /\ \A f, g \in Conds : stack[f].exp = stack[g].exp => f = g

MarksOK ==
  \A f \in 1 .. Depth :
    /\ stack[f].kind \in {"and", "or", "if", "body"} => IsLabel(tac_list, stack[f].at)
    /\ stack[f].kind = "else" => IsGoto(tac_list, stack[f].at)
    /\ stack[f].kind \in {"while", "body"} => IsLabel(tac_list, stack[f].start)

(* Only the innermost frame is a result; no value stands before a GOTO. *)
ResultOK ==
  \A f \in 1 .. Depth :
    /\ stack[f].kind = "exp" => f = Depth
    /\ stack[f].kind \in {"exp", "operand"} =>
         IsIf(tac_list, stack[f].exp) \/ ~ IsGoto(tac_list, stack[f].exp + 1)

(* What is open inside an operator is an expression. *)
Nesting ==
  \A f, g \in 1 .. Depth :
    stack[f].kind = "operand" /\ f < g => stack[g].kind \in {"exp", "operand", "and", "or"}

DoneOK == status = "done" => Depth = 0

(***************************************************************************)
(* The code and the open calls always fit together, and no jump is         *)
(* forgotten (the conjunction that every action of tac_ir.cpp preserves).  *)
(***************************************************************************)
IInv ==
  /\ TypeOK
  /\ IfHasGoto
  /\ ExpsOK
  /\ MarksOK
  /\ ResultOK
  /\ Nesting
  /\ DoneOK
  /\ NoJumpForgotten

=============================================================================
