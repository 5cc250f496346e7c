----------------------------- MODULE ControlSem -----------------------------
(***************************************************************************)
(* What the emitted code must do: run like the source program.             *)
(*                                                                         *)
(* A reference interpreter runs the syntax tree, a second one runs the     *)
(* code; both take the truth values of successive comparisons from the     *)
(* same sequence and log the comparisons they evaluate, the writes and the *)
(* returns (which values are stored and written is DataSem's question).    *)
(* Only TLC uses this module.                                              *)
(***************************************************************************)
EXTENDS ControlSource

CONSTANT MaxTests   \* bound: comparisons evaluated in one execution

-----------------------------------------------------------------------------
(***************************************************************************)
(* Executions.  A run is [left, log, on]: the truth values not yet used,   *)
(* the log, and whether it goes on.                                        *)
(***************************************************************************)
Start(values) == [left |-> values, log |-> << >>, on |-> TRUE]

Stop(r, event) == [r EXCEPT !.log = Append(@, event), !.on = FALSE]

(* Evaluate the comparison a: [run, value]. *)
Test(r, a) ==
  IF r.left = << >> THEN [run |-> Stop(r, "out of tests"), value |-> FALSE]
  ELSE [run   |-> [r EXCEPT !.left = Tail(@), !.log = Append(@, a)],
        value |-> Head(r.left)]

RECURSIVE EvalExp(_, _)
EvalExp(e, r) ==
  CASE ~ r.on           -> [run |-> r, value |-> FALSE]
    [] e[1] = "relop"   -> Test(r, e[2])
    [] e[1] = "value"   -> [run |-> r, value |-> FALSE]
    [] e[1] = "not"     -> LET x == EvalExp(e[2], r)
                           IN  [x EXCEPT !.value = ~ @]
    [] OTHER            -> LET x == EvalExp(e[2], r)
                           IN  IF x.value = (e[1] = "or") THEN x
                               ELSE EvalExp(e[3], x.run)

RECURSIVE RunStmts(_, _)
RunStmts(list, r) ==
  IF list = << >> \/ ~ r.on THEN r
  ELSE LET s    == Head(list)
           c    == EvalExp(s[2], r)
           next ==
             CASE s[1] = "write"  -> [r EXCEPT !.log = Append(@, s[2])]
               [] s[1] = "return" -> Stop(r, "return")
               [] s[1] = "exp"    -> EvalExp(s[2], r).run
               [] s[1] = "if"     -> RunStmts(IF c.value THEN s[3] ELSE s[4], c.run)
               [] s[1] = "while"  -> IF c.value THEN RunStmts(s[3] \o <<s>>, c.run)
                                     ELSE c.run
       IN  RunStmts(Tail(list), next)

SourceLog(values) == RunStmts(src.blocks[1], Start(values)).log

(* The code from instruction i on; a jump to a number no LABEL has stops it. *)
RECURSIVE RunCode(_, _)
RunCode(i, r) ==
  IF ~ r.on \/ i > Len(tac_list) THEN r
  ELSE LET tac   == tac_list[i]
           c     == Test(r, tac.arg)
           dest  == Number(label[tac.label])
           to(q) == IF IsLabel(tac_list, dest) THEN RunCode(dest, q)
                    ELSE Stop(q, "undefined label")
       IN  CASE tac.op = "IF"     -> IF c.value THEN to(c.run) ELSE RunCode(i + 1, c.run)
             [] tac.op = "GOTO"   -> to(r)
             [] tac.op = "WRITE"  -> RunCode(i + 1, [r EXCEPT !.log = Append(@, tac.arg)])
             [] tac.op = "RETURN" -> Stop(r, "return")
             [] OTHER             -> RunCode(i + 1, r)

CodeLog(values) == RunCode(1, Start(values)).log

SameRuns == \A values \in [1 .. MaxTests -> BOOLEAN] : SourceLog(values) = CodeLog(values)

-----------------------------------------------------------------------------
(* The conditions of a statement list, those of nested statements included. *)
RECURSIVE Conditions(_)
Conditions(list) ==
  IF list = << >> THEN {}
  ELSE LET s == Head(list)
       IN  Conditions(Tail(list)) \union
           CASE s[1] = "if"    -> {s[2]} \union Conditions(s[3]) \union Conditions(s[4])
             [] s[1] = "while" -> {s[2]} \union Conditions(s[3])
             [] OTHER          -> {}

(***************************************************************************)
(* The code of a finished program whose conditions lost no exit evaluates  *)
(* the same comparisons in the same order, and has the same effects, as    *)
(* the program: short-circuit evaluation, branches, loops and returns      *)
(* (translate_Exp and translate_Stmt, tac_ir.cpp:106-272, 600-662).        *)
(***************************************************************************)
CodeRunsLikeSource == Done /\ ~ lost => SameRuns

(***************************************************************************)
(* The exact boundary, for programs without ELSE that use no condition as  *)
(* a value: the code runs like the source if and only if no condition is   *)
(* chained.  A lost exit then always shows, for some outcome of the        *)
(* comparisons; behind an ELSE the placeholder of a forgotten jump can be  *)
(* the number of the right LABEL by accident (if (a && a && a) {} else {}).*)
(***************************************************************************)
RunsLikeSourceIffUnchained ==
  Done /\ ~ shape.dropped => (SameRuns <=> ~ shape.chained)

(***************************************************************************)
(* What the comments at tac_ir.cpp:208-218 say of && and ||: the left      *)
(* operand's exits are those of exp2's truelist or falselist, so that the  *)
(* code runs like the source whatever the operands are.                    *)
(***************************************************************************)
ConnectivesJoinExits == Done /\ ~ shape.dropped => SameRuns

(***************************************************************************)
(* What the expected outputs of the tests show (test_3_r02.out:12-13): the *)
(* code of a program with one unnested, undecorated comparison as its      *)
(* condition runs like the program.                                        *)
(***************************************************************************)
PlainConditionsWork ==
  Done /\ ~ shape.dropped /\ (\A e \in Conditions(src.blocks[1]) : e[1] = "relop") => SameRuns

=============================================================================
