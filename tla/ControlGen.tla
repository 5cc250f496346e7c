----------------------------- MODULE ControlGen -----------------------------
(***************************************************************************)
(* The control-flow half of project3's IR generator                        *)
(* (src/project3/tac_ir.cpp): conditions built from comparisons, !, && and *)
(* ||, and the statements that consume them.                               *)
(*                                                                         *)
(* The program walks a syntax tree by recursive calls and emits code       *)
(* between them.  The model walks an arbitrary tree in the same order: an  *)
(* action is the code between two recursive calls, "stack" holds the       *)
(* locals of the calls still open and the value each finished              *)
(* translate_Exp returned.  Choosing the next production is the only       *)
(* freedom, so the behaviours are the translations of all the programs     *)
(* whose code fits in MaxCode instructions.                                *)
(***************************************************************************)
EXTENDS TacList

CONSTANTS
  Literals,     \* how many operands of a comparison of literals and identifiers are literals
  Productions,  \* the grammar productions the source programs may use
  MaxCode       \* bound: instructions in the code of one program

ASSUME LiteralsAssumption == Literals \in [Atoms -> Nat]

ASSUME MaxCodeAssumption == MaxCode \in Nat

VARIABLES
  tac_list,   \* the instructions emitted so far
  label,      \* the label cells allocated so far
  stack,      \* the open calls, innermost last
  status      \* "running", "done" or "crashed"

vars == <<tac_list, label, stack, status>>

-----------------------------------------------------------------------------
(***************************************************************************)
(* Frames.  kind "exp" is a translate_Exp that returned the index exp; the *)
(* others are calls waiting for a child: "and", "or" for the right operand *)
(* (l = exp, addr = at, ls = swap), "operand" for the next operand of a    *)
(* comparison, of arithmetic or of a call, or for the left side of an      *)
(* assignment (l or r = exp), "if", "body" for the statement under         *)
(* exp_addr = exp, true_list = at, "else" for the one after jump_addr = at,*)
(* "while" for its condition; start is loop_start.                         *)
(***************************************************************************)
Kinds == {"exp", "operand", "and", "or", "if", "else", "while", "body"}

Frame == [kind : Kinds, exp : Nat, at : Nat, start : Nat, swap : BOOLEAN]

MkFrame(k, e, a, s, w) ==
  [kind |-> k, exp |-> e, at |-> a, start |-> s, swap |-> w]

ExpFrame(addr) == MkFrame("exp", addr, 0, 0, FALSE)

Depth == Len(stack)

Top == stack[Depth]

Under == stack[Depth - 1]

TopIs(kinds) == Depth > 0 /\ Top.kind \in kinds

(* The two innermost frames: a call of kind k and the result it waited for. *)
Returned(k) == Depth > 1 /\ Top.kind = "exp" /\ Under.kind = k

(* translate_Stmt is about to be called, or to return. *)
AtStmt == Depth > 0 => Top.kind \in {"if", "else", "body"}

(* A finished expression that translate_Stmt itself asked for. *)
StmtExp ==
  TopIs({"exp"}) /\ (Depth > 1 => Under.kind \in {"if", "else", "body"})

Keep(n) == SubSeq(stack, 1, n)

(* How many operands of an expression can be expressions with code of their own. *)
Arity == 0 .. 2

(* The n innermost frames are operands that have been translated. *)
Operands(n) ==
  \/ n = 0 /\ ~ TopIs({"exp"})
  \/ n = 1 /\ TopIs({"exp"}) /\ "operand" \in Productions
  \/ n = 2 /\ Returned("operand")

(* tac_list.size(): the index the next instruction will have. *)
Next_addr == Len(tac_list) + 1

Uses(p) == status = "running" /\ p \in Productions

Emit(code) ==
  /\ Len(tac_list) + Len(code) <= MaxCode
  /\ tac_list' = tac_list \o code

-----------------------------------------------------------------------------
(* Init: init_all has run, nothing is translated yet. *)
Init ==
  /\ tac_list = << >>
  /\ label = << >>
  /\ stack = << >>
  /\ status = "running"

(* An operand is translated, and the next one is about to be. *)
Operand ==
  /\ Uses("operand")
  /\ TopIs({"exp"})
  /\ stack' = Append(Keep(Depth - 1), MkFrame("operand", Top.exp, 0, 0, FALSE))
  /\ UNCHANGED <<tac_list, label, status>>

(***************************************************************************)
(* translate_Exp on what computes a value, which is not a condition: INT,  *)
(* FLOAT, CHAR and READ (n = 0), arithmetic, a call and an array element   *)
(* (n of whose operands have code of their own).                           *)
(***************************************************************************)
Value(n) ==
  /\ Uses(IF n = 0 THEN "literal" ELSE "value")
  /\ Operands(n)
  /\ \E s \in FreshSwap : Emit(<<AssignCode(s)>>)
  /\ stack' = Append(Keep(Depth - n), ExpFrame(Next_addr))
  /\ UNCHANGED <<label, status>>

(* A comparison without its GOTO (for the mutation runs). *)
RelopNoGoto(a, n) ==
  /\ Uses("relop")
  /\ Operands(n)
  /\ Emit(<<IfCode(a, FALSE, Len(label) + 1)>>)
  /\ label' = Append(label, Placeholder(Next_addr))
  /\ stack' = Append(Keep(Depth - n), ExpFrame(Next_addr))
  /\ UNCHANGED status

(* The literals among the operands, when nothing else in them has code. *)
Load(a, n) == [i \in 1 .. (IF n = 0 THEN Literals[a] ELSE 0) |-> AssignCode(FALSE)]

(***************************************************************************)
(* translate_Exp on a comparison: the code of its operands, whatever they  *)
(* are, then an IF and a GOTO with a fresh label each.                     *)
(***************************************************************************)
Relop(a, n) ==
  LET addr == Next_addr + Len(Load(a, n))
  IN  /\ Uses("relop")
      /\ Operands(n)
      /\ \E s \in FreshSwap :
           Emit(Load(a, n) \o <<IfCode(a, s, Len(label) + 1), GotoCode(Len(label) + 2)>>)
      /\ label' = label \o <<Placeholder(addr), Placeholder(addr + 1)>>
      /\ stack' = Append(Keep(Depth - n), ExpFrame(addr))
      /\ UNCHANGED status

(***************************************************************************)
(* translate_Exp on ASSIGN (and translate_Dec on an initialisation): the   *)
(* right side r is translated before the left one, and r is the result.    *)
(* n = 1: the left side is a variable or a member; n = 2: an array element *)
(* whose index was translated last.                                        *)
(***************************************************************************)
Assign(n) ==
  /\ Uses("assign")
  /\ n > 0 /\ Operands(n)
  /\ Emit(<<AssignCode(FALSE)>>)
  /\ stack' = Append(Keep(Depth - n), ExpFrame(stack[Depth - n + 1].exp))
  /\ UNCHANGED <<label, status>>

(* translate_Exp on NOT: no code, the operand's is_swap is toggled. *)
Not ==
  /\ Uses("not")
  /\ TopIs({"exp"})
  /\ tac_list' = [tac_list EXCEPT ![Top.exp].swap = ~ @]
  /\ UNCHANGED <<label, stack, status>>

(***************************************************************************)
(* translate_Exp on AND, OR between the operands: the label of the right   *)
(* operand, and the left operand's is_swap read now.                       *)
(***************************************************************************)
Connective(k) ==
  /\ Uses(k)
  /\ TopIs({"exp"})
  /\ Emit(<<LabelCode>>)
  /\ stack' = Append(Keep(Depth - 1),
                     MkFrame(k, Top.exp, Next_addr, 0, tac_list[Top.exp].swap))
  /\ UNCHANGED <<label, status>>

(***************************************************************************)
(* The end of AND and OR.  One exit of the left operand l is patched with  *)
(* the right operand's label; the other exit is made to SHARE the label    *)
(* cell of an exit of the right operand r.                                 *)
(***************************************************************************)
(* Where the patched exit is: at the IF of l, or at the GOTO behind it. *)
FallExit(k, l, ls) == IF (k = "and") = ls THEN l + 1 ELSE l

(* Sharing the IF whatever the connective and the flag (for the mutation runs). *)
ShareExitIf(k, l, ls) == l

ShareExit(k, l, ls) == IF (k = "and") = ls THEN l ELSE l + 1

(* The right operand's flag ignored (for the mutation runs). *)
SourceExitNoSwap(k, r, rs) == IF k = "and" THEN r + 1 ELSE r

(* The exit of r whose cell is shared: the false one for AND, the true one for OR. *)
SourceExit(k, r, rs) == IF (k = "and") = rs THEN r ELSE r + 1

(* Both casts of the right operand to IfCode (for the mutation runs). *)
CastsOKIfOnly(k, l, r) ==
  CanPatch(tac_list, l) /\ IsIf(tac_list, SourceExit(k, r, tac_list[r].swap))

CastsOK(k, l, r) ==
  LET src == SourceExit(k, r, tac_list[r].swap)
  IN  /\ CanPatch(tac_list, l)
      /\ IF src = r THEN IsIf(tac_list, src) ELSE IsGoto(tac_list, src)

Join(k) ==
  /\ status = "running"
  /\ Returned(k)
  /\ LET l  == Under.exp
         ls == Under.swap
         r  == Top.exp
         rs == tac_list[r].swap
     IN  /\ CastsOK(k, l, r)
         /\ label' = [label EXCEPT ![tac_list[FallExit(k, l, ls)].label] = Under.at]
         /\ tac_list' = [tac_list EXCEPT ![ShareExit(k, l, ls)].label =
                                            tac_list[SourceExit(k, r, rs)].label]
         /\ stack' = Append(Keep(Depth - 2), Top)
  /\ UNCHANGED status

-----------------------------------------------------------------------------
(* translate_Stmt is to use an identifier (n = 0), or an expression just translated. *)
StmtUses(n) == IF n = 0 THEN AtStmt ELSE "operand" \in Productions /\ StmtExp

(* translate_Stmt on WRITE. *)
Write(m, n) ==
  /\ Uses("write")
  /\ StmtUses(n)
  /\ Emit(<<WriteCode(m)>>)
  /\ stack' = Keep(Depth - n)
  /\ UNCHANGED <<label, status>>

(* translate_Stmt on RETURN. *)
Return(n) ==
  /\ Uses("return")
  /\ StmtUses(n)
  /\ Emit(<<ReturnCode>>)
  /\ stack' = Keep(Depth - n)
  /\ UNCHANGED <<label, status>>

(* translate_Stmt on Exp SEMI: the index is dropped. *)
ExpStmt ==
  /\ Uses("expstmt")
  /\ StmtExp
  /\ stack' = Keep(Depth - 1)
  /\ UNCHANGED <<tac_list, label, status>>

(* IF, after its condition: the label of the true branch. *)
IfCond ==
  /\ Uses("if")
  /\ StmtExp
  /\ Emit(<<LabelCode>>)
  /\ stack' = Append(Keep(Depth - 1), MkFrame("if", Top.exp, Next_addr, 0, FALSE))
  /\ UNCHANGED <<label, status>>

(* IF without ELSE, after its statement: the false label, then back_patch. *)
IfEnd ==
  /\ status = "running"
  /\ TopIs({"if"})
  /\ CanPatch(tac_list, Top.exp)
  /\ Emit(<<LabelCode>>)
  /\ label' = Patched(tac_list, label, Top.exp, Top.at, Next_addr)
  /\ stack' = Keep(Depth - 1)
  /\ UNCHANGED status

(* An ELSE whose jump is given no label cell (for the mutation runs). *)
ElseNoLabel ==
  /\ Uses("else")
  /\ TopIs({"if"})
  /\ CanPatch(tac_list, Top.exp)
  /\ Emit(<<GotoCode(Len(label) + 1), LabelCode>>)
  /\ label' = Patched(tac_list, label, Top.exp, Top.at, Next_addr + 1)
  /\ stack' = Append(Keep(Depth - 1), MkFrame("else", 0, Next_addr, 0, FALSE))
  /\ UNCHANGED status

(* IF with ELSE, between its statements: a jump over the second one as well. *)
Else ==
  /\ Uses("else")
  /\ TopIs({"if"})
  /\ CanPatch(tac_list, Top.exp)
  /\ Emit(<<GotoCode(Len(label) + 1), LabelCode>>)
  /\ label' = Append(Patched(tac_list, label, Top.exp, Top.at, Next_addr + 1),
                     Placeholder(Next_addr))
  /\ stack' = Append(Keep(Depth - 1), MkFrame("else", 0, Next_addr, 0, FALSE))
  /\ UNCHANGED status

(* An ELSE that never patches its jump (for the mutation runs). *)
ElseEndNoPatch ==
  /\ status = "running"
  /\ TopIs({"else"})
  /\ Emit(<<LabelCode>>)
  /\ stack' = Keep(Depth - 1)
  /\ UNCHANGED <<label, status>>

(* IF with ELSE, after its second statement: the jump's target. *)
ElseEnd ==
  /\ status = "running"
  /\ TopIs({"else"})
  /\ Emit(<<LabelCode>>)
  /\ label' = [label EXCEPT ![tac_list[Top.at].label] = Next_addr]
  /\ stack' = Keep(Depth - 1)
  /\ UNCHANGED status

(* WHILE, before its condition. *)
WhileStart ==
  /\ Uses("while")
  /\ AtStmt
  /\ Emit(<<LabelCode>>)
  /\ stack' = Append(stack, MkFrame("while", 0, 0, Next_addr, FALSE))
  /\ UNCHANGED <<label, status>>

(* WHILE, after its condition: the label of the body. *)
WhileCond ==
  /\ status = "running"
  /\ Returned("while")
  /\ Emit(<<LabelCode>>)
  /\ stack' = Append(Keep(Depth - 2),
                     MkFrame("body", Top.exp, Next_addr, Under.start, FALSE))
  /\ UNCHANGED <<label, status>>

(* A loop whose jump back leads out of it (for the mutation runs). *)
WhileEndLeaves ==
  /\ status = "running"
  /\ TopIs({"body"})
  /\ CanPatch(tac_list, Top.exp)
  /\ Emit(<<GotoCode(Len(label) + 1), LabelCode>>)
  /\ label' = Append(Patched(tac_list, label, Top.exp, Top.at, Next_addr + 1),
                     Next_addr + 1)
  /\ stack' = Keep(Depth - 1)
  /\ UNCHANGED status

(***************************************************************************)
(* WHILE, after its body: the jump back, the exit label and back_patch.    *)
(* back_loop_patch follows, on con_addr and br_addr, which nothing fills:  *)
(* the grammar has no break or continue.                                   *)
(***************************************************************************)
WhileEnd ==
  /\ status = "running"
  /\ TopIs({"body"})
  /\ CanPatch(tac_list, Top.exp)
  /\ Emit(<<GotoCode(Len(label) + 1), LabelCode>>)
  /\ label' = Append(Patched(tac_list, label, Top.exp, Top.at, Next_addr + 1),
                     Top.start)
  /\ stack' = Keep(Depth - 1)
  /\ UNCHANGED status

(***************************************************************************)
(* A dynamic_cast gives a null pointer (or tac_list is indexed past its    *)
(* end) and the result is dereferenced: the process dies.  What it pushed  *)
(* just before is lost, the output being written at the very end only.     *)
(***************************************************************************)
NullCast ==
  /\ status = "running"
  /\ \/ \E k \in {"and", "or"} : Returned(k) /\ ~ CastsOK(k, Under.exp, Top.exp)
     \/ TopIs({"if", "body"}) /\ ~ CanPatch(tac_list, Top.exp)
  /\ status' = "crashed"
  /\ UNCHANGED <<tac_list, label, stack>>

(* The end of translate_Programe: every instruction is printed. *)
Finish ==
  /\ status = "running"
  /\ Depth = 0
  /\ status' = "done"
  /\ UNCHANGED <<tac_list, label, stack>>

-----------------------------------------------------------------------------
Next ==
  \/ Operand
  \/ \E n \in Arity : Value(n) \/ Assign(n)
  \/ \E a \in Atoms, n \in Arity : Relop(a, n)
  \/ Not
  \/ \E k \in {"and", "or"} : Connective(k) \/ Join(k)
  \/ \E n \in {0, 1} : Return(n) \/ \E m \in Marks : Write(m, n)
  \/ ExpStmt
  \/ IfCond
  \/ IfEnd
  \/ Else
  \/ ElseEnd
  \/ WhileStart
  \/ WhileCond
  \/ WhileEnd
  \/ NullCast
  \/ Finish

Spec == Init /\ [][Next]_vars

=============================================================================
