--------------------------- MODULE ControlSource ---------------------------
(***************************************************************************)
(* ControlHist with two histories of the source that is translated: "src", *)
(* its syntax trees, and "shape", what decides whether the scheme of       *)
(* back_patch can translate its conditions.  Neither influences a step.    *)
(***************************************************************************)
EXTENDS ControlHist, SequencesExt

VARIABLES
  src,    \* [exprs : Seq(tree), blocks : Seq(Seq(statement))]
  shape   \* [open : Seq(Look), chained, valued, dropped : BOOLEAN]

svars == <<hvars, src, shape>>

-----------------------------------------------------------------------------
(* The trees. They are tuples that start with their production. *)
LastExpr == Last(src.exprs)

(* The innermost n trees become the tree e. *)
BuildExpr(n, e) ==
  src' = [src EXCEPT !.exprs = Append(SubSeq(@, 1, Len(@) - n), e)]

Negated(e) == IF e[1] = "not" THEN e[2] ELSE <<"not", e>>

(* One statement more in the innermost open block of bs. *)
WithStmt(bs, s) == [bs EXCEPT ![Len(bs)] = Append(@, s)]

(* The innermost n trees go into the statement s. *)
AddStmt(n, s) ==
  src' = [exprs  |-> SubSeq(src.exprs, 1, Len(src.exprs) - n),
          blocks |-> WithStmt(src.blocks, s)]

OpenBlock == src' = [src EXCEPT !.blocks = Append(@, << >>)]

(* The innermost n blocks and the last condition become the statement s. *)
CloseBlocks(n, s) ==
  src' = [exprs  |-> Front(src.exprs),
          blocks |-> WithStmt(SubSeq(src.blocks, 1, Len(src.blocks) - n), s)]

Block(n) == src.blocks[Len(src.blocks) - n]

(* The tree under the innermost one. *)
UnderExpr == src.exprs[Len(src.exprs) - 1]

-----------------------------------------------------------------------------
(***************************************************************************)
(* The look of a condition, read off its tree from the leaves upwards:     *)
(* "several" are the truth values b for which more than one of its         *)
(* comparisons can end it with b; "chained", that a connective in it has a *)
(* left operand with several exits of the kind that it re-points;          *)
(* "literal", that a value is in it; "value", that it is nothing else.     *)
(***************************************************************************)
Look == [several : SUBSET BOOLEAN, chained : BOOLEAN, literal : BOOLEAN, value : BOOLEAN]

RelopLook == [several |-> {}, chained |-> FALSE, literal |-> FALSE, value |-> FALSE]

LiteralLook == [RelopLook EXCEPT !.literal = TRUE, !.value = TRUE]

NotLook(x) == [x EXCEPT !.several = {b \in BOOLEAN : (~ b) \in x.several}]

JoinLook(k, l, r) ==
  [several |-> r.several \union {k = "or"},
   chained |-> l.chained \/ r.chained \/ (k = "or") \in l.several,
   literal |-> l.literal \/ r.literal,
   value   |-> FALSE]

(* A call that has no condition. *)
NoLook == RelopLook

(* shape.open has the look of the condition of every open call, in their order. *)
LastLook == shape.open[Len(shape.open)]

Below(n) == SubSeq(shape.open, 1, Len(shape.open) - n)

Opens(look) == shape' = [shape EXCEPT !.open = Append(@, look)]

Returns(n, look) == shape' = [shape EXCEPT !.open = Append(Below(n), look)]

Closes == shape' = [shape EXCEPT !.open = Below(1)]

(* An IF or a WHILE has used its condition; the next calls are open. *)
Consumes(open) ==
  shape' = [shape EXCEPT !.open    = open,
                         !.chained = @ \/ LastLook.chained,
                         !.valued  = @ \/ LastLook.literal]

(* One of the n innermost operands is a condition. *)
NotValues(n) ==
  \E i \in Len(shape.open) - n + 1 .. Len(shape.open) : ~ shape.open[i].value

(* n operands are used as values, in a call that is left or in one that has a look. *)
Drops(n) ==
  shape' = [shape EXCEPT !.open = Below(n), !.dropped = @ \/ NotValues(n)]

ComputesFrom(n, look) ==
  shape' = [shape EXCEPT !.open = Append(Below(n), look), !.dropped = @ \/ NotValues(n)]

-----------------------------------------------------------------------------
SInit ==
  /\ HInit
  /\ src = [exprs |-> << >>, blocks |-> << << >> >>]
  /\ shape = [open |-> << >>, chained |-> FALSE, valued |-> FALSE, dropped |-> FALSE]

SNext ==
  /\ \/ Operand /\ UNCHANGED <<src, shape>>
     \/ \E n \in Arity : Value(n) /\ BuildExpr(n, <<"value">>) /\ ComputesFrom(n, LiteralLook)
     \/ \E a \in Atoms, n \in Arity :
          Relop(a, n) /\ BuildExpr(n, <<"relop", a>>) /\ ComputesFrom(n, RelopLook)
     \/ Assign(1) /\ UNCHANGED <<src, shape>>
     \/ Assign(2) /\ BuildExpr(2, UnderExpr) /\ Drops(1)
     \/ Not /\ BuildExpr(1, Negated(LastExpr)) /\ Returns(1, NotLook(LastLook))
     \/ \E k \in {"and", "or"} :
          \/ Connective(k) /\ UNCHANGED <<src, shape>>
          \/ Join(k) /\ BuildExpr(2, <<k, UnderExpr, LastExpr>>)
             /\ Returns(2, JoinLook(k, shape.open[Len(shape.open) - 1], LastLook))
     \/ \E n \in {0, 1} :
          \/ Return(n) /\ AddStmt(n, <<"return">>) /\ Drops(n)
          \/ \E m \in Marks : Write(m, n) /\ AddStmt(n, <<"write", m>>) /\ Drops(n)
     \/ ExpStmt /\ AddStmt(1, <<"exp", LastExpr>>) /\ Drops(1)
     \/ IfCond /\ OpenBlock /\ UNCHANGED shape
     \/ Else /\ OpenBlock /\ Consumes(Append(Below(1), NoLook))
     \/ WhileStart /\ UNCHANGED src /\ Opens(NoLook)
     \/ WhileCond /\ OpenBlock /\ Returns(2, LastLook)
     \/ IfEnd /\ CloseBlocks(1, <<"if", LastExpr, Block(0), << >> >>) /\ Consumes(Below(1))
     \/ ElseEnd /\ CloseBlocks(2, <<"if", LastExpr, Block(1), Block(0)>>) /\ Closes
     \/ WhileEnd /\ CloseBlocks(1, <<"while", LastExpr, Block(0)>>) /\ Consumes(Below(1))
     \/ (NullCast \/ Finish) /\ UNCHANGED <<src, shape>>
  /\ lost' = (lost \/ Loses)

SSpec == SInit /\ [][SNext]_svars

-----------------------------------------------------------------------------
Done == status = "done"

(***************************************************************************)
(* Whether an exit is lost can be read off the source: it happens exactly  *)
(* when the left operand of && has several false exits (a left-nested      *)
(* chain), or the left operand of || several true ones (tac_ir.cpp:206-220,*)
(* 235-249), or a condition is used as a value: as an operand of a         *)
(* comparison, of arithmetic or of a call, as an index, as what is written *)
(* or returned, or as a statement, stored in a variable or not             *)
(* (tac_ir.cpp:106-121, 141-153, 185-193, 264-288, 602-607, 656-661).      *)
(***************************************************************************)
LostIffChained == Done => (lost <=> shape.chained \/ shape.dropped)

(***************************************************************************)
(* A condition that is, or contains, a value instead of comparisons never  *)
(* gets through: a program that is translated to the end has none, and a   *)
(* translation only dies while such a condition is open.                   *)
(***************************************************************************)
ValuesAreNoConditions ==
  /\ Done => ~ shape.valued
  /\ status = "crashed" => \E f \in DOMAIN shape.open : shape.open[f].literal

-----------------------------------------------------------------------------
(***************************************************************************)
(* The inductive strengthening of the two: what a condition looks like is  *)
(* what its jumps in the code share.  The exit of the condition at e for   *)
(* the outcome b is its IF, or its GOTO when negations and outcome agree.  *)
(***************************************************************************)
Exit(code, e, b) == IF b = code[e].swap THEN e + 1 ELSE e

(* Another jump has the label cell of the one at x. *)
Joined(code, x) ==
  \E j \in 1 .. Len(code) :
    j # x /\ code[j].op \in {"IF", "GOTO"} /\ code[j].label = code[x].label

LookFits(code, fr, look) ==
  IF fr.kind \in {"else", "while"} THEN look = NoLook
  ELSE /\ look.literal = look.value
       /\ look.chained => ~ look.value
       /\ look.literal = ~ IsIf(code, fr.exp)
       /\ fr.kind \in {"and", "or"} => fr.swap = code[fr.exp].swap
       /\ IsIf(code, fr.exp) =>
            \A b \in BOOLEAN : b \in look.several <=> Joined(code, Exit(code, fr.exp, b))

LooksFit == \A f \in 1 .. Depth : LookFits(tac_list, stack[f], shape.open[f])

(* The conditions that open calls hold. *)
Heads == {stack[f].exp : f \in {g \in Conds : IsIf(tac_list, stack[g].exp)}}

(* The jumps of open conditions have a cell of their own each, among these jumps. *)
CellsApart ==
  \A p, q \in Heads : \A x \in {p, p + 1}, y \in {q, q + 1} :
    tac_list[x].label = tac_list[y].label => x = y

LostShows ==
  lost <=> shape.chained \/ shape.dropped \/ \E f \in 1 .. Depth : shape.open[f].chained

ShapeOK ==
  /\ shape \in [open : Seq(Look), chained : BOOLEAN, valued : BOOLEAN, dropped : BOOLEAN]
  /\ Len(shape.open) = Depth

(* Only the last operand of a program that died can have been a value. *)
ValuesStop ==
  /\ ~ shape.valued
  /\ status = "crashed" => \E f \in 1 .. Depth : shape.open[f].literal

SourceInv == ShapeOK /\ LooksFit /\ CellsApart /\ LostShows /\ ValuesStop

=============================================================================
