-------------------------------- MODULE MCIr --------------------------------
(* IrWalk on small files (run ir_walk). *)
EXTENDS IrWalk

MCLine(tokens) == [tokens |-> tokens, gaps |-> 0, length |-> 20]

MCVar(name) == Word(name)
MCLit(n) == Tok("#", "", n)
MCLabel == Tok("label", "", 1)
MCIs == Word(":=")

MCArith(a, op, b) == MCLine(<<MCVar("t1"), MCIs, a, Word(op), b>>)
MCIf(op) == MCLine(<<Word("IF"), MCVar("t1"), Word(op), MCVar("t2"), Word("GOTO"), MCLabel>>)

(* The lines of the IR as project3 writes it. *)
MCGood ==
  { MCLine(<<Word("LABEL"), MCLabel, Word(":")>>),
    MCLine(<<Word("FUNCTION"), Word("main"), Word(":")>>),
    MCLine(<<Word("DEC"), Word("v1"), Tok("", "", 8)>>),
    MCLine(<<MCVar("t1"), MCIs, MCLit(-2)>>),
    MCLine(<<MCVar("t1"), MCIs, MCVar("t2")>>),
    MCLine(<<MCVar("t1"), MCIs, Tok("&", "v1", 0)>>),
    MCLine(<<MCVar("t1"), MCIs, Tok("*", "t2", 0)>>),
    MCLine(<<Tok("*", "t1", 0), MCIs, MCVar("t2")>>),
    MCLine(<<Tok("*", "t1", 0), MCIs, MCLit(3)>>),
    MCLine(<<MCVar("t1"), MCIs, Word("CALL"), Word("main")>>),
    MCLine(<<Word("GOTO"), MCLabel>>),
    MCLine(<<Word("RETURN"), MCLit(0)>>),
    MCLine(<<Word("ARG"), Tok("&", "v1", 0)>>),
    MCLine(<<Word("PARAM"), MCVar("t1")>>),
    MCLine(<<Word("READ"), MCVar("t1")>>),
    MCLine(<<Word("WRITE"), MCVar("t1")>>),
    MCLine(<<Word("WRITE"), MCLit(1)>>),
    MCArith(MCVar("t1"), "+", MCVar("t2")), MCArith(MCLit(1), "+", MCVar("t2")),
    MCArith(MCLit(1), "+", MCLit(2)),
    MCArith(MCVar("t1"), "-", MCLit(-1)), MCArith(MCLit(1), "-", MCVar("t2")),
    MCArith(MCVar("t1"), "*", MCVar("t2")), MCArith(MCVar("t1"), "*", MCLit(4)),
    MCArith(MCVar("t1"), "/", MCVar("t2")) }
  \cup { MCIf(op) : op \in {"<", "<=", ">", ">=", "==", "!="} }

(***************************************************************************)
(* And the lines at the edges: an empty one, one word, a doubled blank, an *)
(* unknown operator, 63 and 64 characters, names of 7 and 8, a variable    *)
(* called "labelx".                                                        *)
(***************************************************************************)
MCEdges ==
  { MCLine(<< >>), MCLine(<<Word("t1")>>),
    [MCLine(<<Word("GOTO"), MCLabel>>) EXCEPT !.gaps = 1],
    MCLine(<<Word("JUMP"), MCLabel>>),
    MCArith(MCVar("t1"), "%", MCVar("t2")),
    [MCLine(<<Word("FUNCTION"), Word("f"), Word(":")>>) EXCEPT !.length = 63],
    [MCLine(<<Word("FUNCTION"), Word("f"), Word(":")>>) EXCEPT !.length = 64],
    MCLine(<<Word("READ"), Word("t123456")>>),
    MCLine(<<Word("READ"), Word("t1234567")>>),
    MCLine(<<Word("READ"), Tok("label", "x", 0)>>) }

MCLines == MCGood \cup MCEdges

(* The hypothesis of the theorem about PrintsBack holds of them. *)
ASSUME MCPlainTargets == PlainTargets

=============================================================================
