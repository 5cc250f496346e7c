------------------------------ MODULE Handover ------------------------------
(***************************************************************************)
(* Projects 3 and 4 in a row: the generator prints its instructions        *)
(* (to_instruction in src/project3/tac_ir.hpp), and the reader and the     *)
(* back end of project4 (module Ir) take the text.                         *)
(***************************************************************************)
EXTENDS DataSem

VARIABLE
  addressed   \* history: an address was taken or a subscript was scaled

hvars == <<dvars, addressed>>

P4 == INSTANCE Ir

-----------------------------------------------------------------------------
(* The sign in front of a variable is forgotten (for the mutation runs). *)
Unmarked(mark, addr) == P4!Tok("", "t" \o ToString(addr), 0)

(* A variable, with the sign that stands in front of it. *)
Marked(mark, addr) == P4!Tok(mark, "t" \o ToString(addr), 0)

addr_to_string(addr) == IF addr > 0 THEN Marked("", addr) ELSE P4!Tok("#", "", -addr)

Is == P4!Word(":=")

(* The tokens of the line that an instruction is printed as. *)
to_instruction(tac) ==
  LET t(a) == Marked("", a)
  IN  CASE tac.op = "FUNCTION" -> <<P4!Word("FUNCTION"), P4!Word(tac.name), P4!Word(":")>>
        [] tac.op \in {"PARAM", "READ"} -> <<P4!Word(tac.op), t(tac.addr)>>
        [] tac.op = "DEC"     -> <<P4!Word("DEC"), t(tac.addr), P4!Tok("", "", DecSize(tac))>>
        [] tac.op = "ASSIGN"  -> <<t(tac.addr), Is, addr_to_string(tac.raddr)>>
        [] tac.op = "STORE"   -> <<Marked("*", tac.addr), Is, t(tac.raddr)>>
        [] tac.op = "ADDRESS" -> <<t(tac.addr), Is, Marked("&", tac.raddr)>>
        [] tac.op = "LOAD"    -> <<t(tac.addr), Is, Marked("*", tac.raddr)>>
        [] tac.op = "ARITH"   -> <<t(tac.addr), Is, addr_to_string(tac.laddr),
                                   P4!Word(tac.token), addr_to_string(tac.raddr)>>
        [] tac.op \in {"WRITE", "ARG"} -> <<P4!Word(tac.op), t(tac.raddr)>>
        [] tac.op = "RETURN"  -> <<P4!Word("RETURN"), addr_to_string(tac.raddr)>>
        [] tac.op = "CALL"    -> <<t(tac.addr), Is, P4!Word("CALL"), P4!Word(tac.name)>>

(* Its line. With names that fit, CALL of a function is the longest one. *)
Line(tac) == [tokens |-> to_instruction(tac), gaps |-> 0, length |-> 47]

(* The back end gets a register for every operand of the line. *)
Translated(tac) ==
  /\ P4!Outcome(Line(tac)) = "read"
  /\ P4!emit(P4!OfTokens(to_instruction(tac))).ok

-----------------------------------------------------------------------------
(***************************************************************************)
(* Where the generator takes an address or multiplies by a literal: a      *)
(* subscript; a member, unless of a parameter; a block as first argument   *)
(* and anything else as a later one (tac_ir.cpp:286-369, 573-600).         *)
(***************************************************************************)
TakesAddress(e) ==
  LET a == Looks(e)
      OfBlock(k) == \E x \in a[e[k].parts[1]].aliases : IsBlock(x)
  IN  \E k \in DOMAIN e :
        \/ e[k].op = "index"
        \/ e[k].op \in {"members", "first"} /\ OfBlock(k)
        \/ e[k].op = "later" /\ ~ OfBlock(k)

(* The expressions that a step translates. *)
NewExps ==
  LET item == Last(src')
  IN  CASE item[1] = "def" -> {item[2].init} \ {<< >>}
        [] item[1] \in {"exp", "write", "return"} -> {item[2]}
        [] OTHER -> {}

HInit == DInit /\ addressed = FALSE

HNext ==
  /\ DNext
  /\ addressed' = (addressed \/ \E e \in NewExps : TakesAddress(e))

HSpec == HInit /\ [][HNext]_hvars

(***************************************************************************)
(* Every line is one that project4 reads, and its back end runs to the end *)
(* of the program exactly when no address is taken: it is made for &x      *)
(* (mips32.c:182) and for products with literals (mips32.c:132), but gives *)
(* both operands of them a register.  So it stops at every subscript, and  *)
(* at every call with two scalars, whose addresses are taken for nothing.  *)
(* Not for programs with accesses the generator is not made for, or names  *)
(* whose scopes it mixes up.                                               *)
(***************************************************************************)
TranslatedIffUnaddressed ==
  (status = "running" /\ flaws \subseteq {"late", "paren", "array"}) =>
    ((\A i \in DOMAIN tac_list : Translated(tac_list[i])) <=> ~ addressed)

=============================================================================
