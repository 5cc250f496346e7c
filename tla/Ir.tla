--------------------------------- MODULE Ir ---------------------------------
(***************************************************************************)
(* The instructions that project4 reads, prints and translates             *)
(* (src/project4/tac.h, tac.c, mips32.c).                                  *)
(*                                                                         *)
(* A line is [tokens, gaps, length]: gaps counts the blanks in it that     *)
(* follow another blank.  A token is [pre, rest, num]: pre is what the     *)
(* reader looks at ("#", "&", "*", "label" or nothing), rest the text      *)
(* behind it, num what atoi makes of that text.  An operand is a pair of   *)
(* its kind and its value, an instruction a pair of its kind and its       *)
(* operands.                                                               *)
(***************************************************************************)
EXTENDS Integers, Sequences

Tok(pre, rest, num) == [pre |-> pre, rest |-> rest, num |-> num]

Word(text) == Tok("", text, 0)

tac_opd_label(n) == <<"OP_LABEL", n>>
tac_opd_variable(name) == <<"OP_VARIABLE", name>>
tac_opd_constant(n) == <<"OP_CONSTANT", n>>
tac_opd_pointer(name) == <<"OP_POINTER", name>>

(* A function's name and a size are no operands; they are written like them. *)
FuncName(name) == <<"NAME", name>>
Bytes(n) == <<"SIZE", n>>

(* char_val and funcname have 8 and 32 bytes. *)
Fits(operand) ==
  /\ operand[1] \in {"OP_VARIABLE", "OP_POINTER"} => Len(operand[2]) < 8
  /\ operand[1] = "NAME" => Len(operand[2]) < 32

-----------------------------------------------------------------------------
_tac_opd_from_str(tk) ==
  CASE tk.pre = "#"     -> tac_opd_constant(tk.num)
    [] tk.pre = "&"     -> tac_opd_pointer(tk.rest)
    [] tk.pre = "label" -> tac_opd_label(tk.num)
    [] OTHER            -> tac_opd_variable(tk.rest)

Keywords == {"GOTO", "RETURN", "ARG", "PARAM", "READ", "WRITE"}

Operators == {"+", "-", "*", "/"}

(* The kinds of instruction for the operators and the comparisons. *)
ArithKind(op) ==
  CASE op = "+" -> "ADD" [] op = "-" -> "SUB" [] op = "*" -> "MUL" [] op = "/" -> "DIV"

(* "<" taken for "<=" and the other way round (for the mutation runs). *)
IfKindSwapped(op) ==
  CASE op = "<"  -> "IFLE" [] op = ">"  -> "IFGT" [] op = "<=" -> "IFLT"
    [] op = ">=" -> "IFGE" [] op = "!=" -> "IFNE" [] OTHER     -> "IFEQ"

IfKind(op) ==
  CASE op = "<"  -> "IFLT" [] op \in {">", "="} -> "IFGT" [] op = "<=" -> "IFLE"
    [] op = ">=" -> "IFGE" [] op = "!=" -> "IFNE" [] OTHER     -> "IFEQ"

Headers == {Word("LABEL"), Word("FUNCTION"), Word("DEC")}

OfHeader(t1, t2, t3) ==
  CASE t1.rest = "LABEL"    -> <<"LABEL", <<_tac_opd_from_str(t2)>>>>
    [] t1.rest = "FUNCTION" -> <<"FUNCTION", <<FuncName(t2.rest)>>>>
    [] t1.rest = "DEC"      -> <<"DEC", <<tac_opd_pointer(t2.rest), Bytes(t3.num)>>>>

(* The left side is looked at first. *)
OfAssignment(t1, t3) ==
  IF t1.pre = "*" THEN <<"DEREF", <<tac_opd_variable(t1.rest), _tac_opd_from_str(t3)>>>>
  ELSE CASE t3.pre = "*" -> <<"FETCH", <<_tac_opd_from_str(t1), tac_opd_variable(t3.rest)>>>>
         [] t3.pre = "&" -> <<"ADDR", <<_tac_opd_from_str(t1), _tac_opd_from_str(t3)>>>>
         [] OTHER        -> <<"ASSIGN", <<_tac_opd_from_str(t1), _tac_opd_from_str(t3)>>>>

(***************************************************************************)
(* The instruction of a line by the number of its tokens. Six and more are *)
(* taken for a condition, and four for a call.                             *)
(***************************************************************************)
OfTokens(t) ==
  LET opd(i) == _tac_opd_from_str(t[i])
  IN  CASE Len(t) = 2 -> <<t[1].rest, <<opd(2)>>>>
        [] Len(t) = 3 -> IF t[1] \in Headers THEN OfHeader(t[1], t[2], t[3])
                         ELSE OfAssignment(t[1], t[3])
        [] Len(t) = 4 -> <<"CALL", <<opd(1), FuncName(t[4].rest)>>>>
        [] Len(t) = 5 -> <<ArithKind(t[4].rest), <<opd(1), opd(3), opd(5)>>>>
        [] OTHER      -> <<IfKind(t[3].rest), <<opd(2), opd(4), opd(6)>>>>

(***************************************************************************)
(* What reading a line comes to.  _str_split asserts that there are as     *)
(* many tokens as blanks and one: not so for an empty line or doubled      *)
(* blanks; a line of two tokens must start with a keyword.  A line of one  *)
(* token reads tokens it does not have, an unknown operator leaves the     *)
(* instruction undefined, and lnbuf has 64 bytes.                          *)
(***************************************************************************)
Outcome(line) ==
  LET t == line.tokens
  IN  IF line.length > 63 THEN "undefined"
      ELSE IF t = << >> \/ line.gaps > 0 \/ (Len(t) = 2 /\ t[1].rest \notin Keywords)
        THEN "aborted"
      ELSE IF \/ Len(t) = 1
              \/ Len(t) = 5 /\ t[4].rest \notin Operators
              \/ \E i \in DOMAIN OfTokens(t)[2] : ~ Fits(OfTokens(t)[2][i])
        THEN "undefined"
      ELSE "read"

-----------------------------------------------------------------------------
tac_opd_print(o) ==
  CASE o[1] = "OP_LABEL"    -> Tok("label", "", o[2])
    [] o[1] = "OP_CONSTANT" -> Tok("#", "", o[2])
    [] o[1] = "OP_POINTER"  -> Tok("&", o[2], 0)
    [] OTHER                -> Word(o[2])

Symbol(kind) ==
  CASE kind = "ADD"  -> "+"  [] kind = "SUB"  -> "-"  [] kind = "MUL"  -> "*"
    [] kind = "DIV"  -> "/"  [] kind = "IFLT" -> "<"  [] kind = "IFLE" -> "<="
    [] kind = "IFGT" -> ">"  [] kind = "IFGE" -> ">=" [] kind = "IFNE" -> "!="
    [] OTHER         -> "=="

(* tac_print of one instruction: the tokens of its line. *)
tac_print(c) ==
  LET o    == c[2]
      p(i) == tac_opd_print(o[i])
  IN  CASE c[1] = "LABEL"    -> <<Word("LABEL"), p(1), Word(":")>>
        [] c[1] = "FUNCTION" -> <<Word("FUNCTION"), Word(o[1][2]), Word(":")>>
        [] c[1] = "DEC"      -> <<Word("DEC"), Word(o[1][2]), Tok("", "", o[2][2])>>
        [] c[1] = "DEREF"    -> <<Tok("*", o[1][2], 0), Word(":="), p(2)>>
        [] c[1] = "FETCH"    -> <<Word(o[1][2]), Word(":="), Tok("*", o[2][2], 0)>>
        [] c[1] = "ADDR"     -> <<Word(o[1][2]), Word(":="), Tok("&", o[2][2], 0)>>
        [] c[1] = "ASSIGN"   -> <<p(1), Word(":="), p(2)>>
        [] c[1] = "CALL"     -> <<p(1), Word(":="), Word("CALL"), Word(o[2][2])>>
        [] c[1] \in Keywords -> <<Word(c[1]), p(1)>>
        [] c[1] \in {"ADD", "SUB", "MUL", "DIV"} ->
             <<p(1), Word(":="), p(2), Word(Symbol(c[1])), p(3)>>
        [] OTHER -> <<Word("IF"), p(1), Word(Symbol(c[1])), p(2), Word("GOTO"), p(3)>>

-----------------------------------------------------------------------------
(***************************************************************************)
(* The emitters of mips32.c: regs are the operands that get a register     *)
(* (which must be variables), text is what is written.  get_register and   *)
(* get_register_w always give the same one; conditions, calls, parameters  *)
(* and RETURN are not translated yet.                                      *)
(***************************************************************************)
Emits(regs, text) ==
  [ok |-> \A o \in regs : o[1] = "OP_VARIABLE", text |-> text]

get_register == "$t0"
get_register_w == "$s0"

IsConstant(o) == o[1] = "OP_CONSTANT"

emit_label(o) == Emits({}, <<<<"label", o[1][2]>>>>)

emit_function(o) == Emits({}, <<<<"function", o[1][2]>>>>)

emit_assign(o) ==
  IF IsConstant(o[2]) THEN Emits({o[1]}, <<<<"li", get_register_w, o[2][2]>>>>)
  ELSE Emits({o[1], o[2]}, <<<<"move", get_register_w, get_register>>>>)

emit_add(o) ==
  CASE IsConstant(o[2]) -> Emits({o[1], o[3]}, <<<<"addi", get_register_w, get_register, o[2][2]>>>>)
    [] IsConstant(o[3]) /\ ~ IsConstant(o[2]) ->
         Emits({o[1], o[2]}, <<<<"addi", get_register_w, get_register, o[3][2]>>>>)
    [] OTHER -> Emits({o[1], o[2], o[3]}, <<<<"add", get_register_w, get_register, get_register>>>>)

(* The literal on the right is written behind a minus sign. *)
emit_sub(o) ==
  CASE IsConstant(o[2]) ->
         Emits({o[1], o[3]}, <<<<"neg", get_register, get_register>>,
                               <<"addi", get_register_w, get_register, o[2][2]>>>>)
    [] IsConstant(o[3]) /\ ~ IsConstant(o[2]) ->
         Emits({o[1], o[2]}, <<<<"addi", get_register_w, get_register, "-", o[3][2]>>>>)
    [] OTHER -> Emits({o[1], o[2], o[3]}, <<<<"sub", get_register_w, get_register, get_register>>>>)

(* A literal gets a register too, so the loads in front are never reached. *)
emit_mul(o) ==
  Emits({o[1], o[2], o[3]}, <<<<"mul", get_register_w, get_register, get_register>>>>)

emit_div(o) ==
  Emits({o[1], o[2], o[3]}, <<<<"div", get_register, get_register>>, <<"mflo", get_register_w>>>>)

emit_addr(o) == Emits({o[1], o[2]}, <<<<"move", get_register_w, get_register>>>>)

emit_fetch(o) == Emits({o[1], o[2]}, <<<<"lw", get_register_w, get_register>>>>)

emit_deref(o) == Emits({o[1], o[2]}, <<<<"sw", get_register, get_register>>>>)

emit_goto(o) == Emits({}, <<<<"j", o[1][2]>>>>)

(* $ra is saved around the call of the library function. *)
Calling(f) == <<<<"addi", "$sp", "$sp", -4>>, <<"sw", "$ra", "$sp">>, <<"jal", f>>,
                <<"lw", "$ra", "$sp">>, <<"addi", "$sp", "$sp", 4>>>>

emit_read(o) == Emits({o[1]}, Calling("read") \o <<<<"move", get_register, "$v0">>>>)

emit_write(o) == Emits({o[1]}, <<<<"move", "$a0", get_register_w>>>> \o Calling("write"))

(* The kinds of instruction in the order of tac.h. *)
Kinds ==
  <<"LABEL", "FUNCTION", "ASSIGN", "ADD", "SUB", "MUL", "DIV", "ADDR", "FETCH", "DEREF",
    "GOTO", "IFLT", "IFLE", "IFGT", "IFGE", "IFNE", "IFEQ", "RETURN", "DEC", "ARG",
    "CALL", "PARAM", "READ", "WRITE">>

(* The table without emit_addr (for the mutation runs). *)
emitter_short ==
  <<"LABEL", "FUNCTION", "ASSIGN", "ADD", "SUB", "MUL", "DIV", "FETCH", "DEREF",
    "GOTO", "IFLT", "IFLE", "IFGT", "IFGE", "IFNE", "IFEQ", "RETURN", "DEC", "ARG",
    "CALL", "PARAM", "READ", "WRITE", "NONE">>

(* emitter: the table that emit_code indexes with the kind. *)
emitter ==
  <<"LABEL", "FUNCTION", "ASSIGN", "ADD", "SUB", "MUL", "DIV", "ADDR", "FETCH", "DEREF",
    "GOTO", "IFLT", "IFLE", "IFGT", "IFGE", "IFNE", "IFEQ", "RETURN", "DEC", "ARG",
    "CALL", "PARAM", "READ", "WRITE">>

(* emit_code on one instruction. *)
emit(c) ==
  LET entry == emitter[CHOOSE k \in DOMAIN Kinds : Kinds[k] = c[1]]
      o     == c[2]
  IN  CASE entry = "LABEL"    -> emit_label(o)
        [] entry = "FUNCTION" -> emit_function(o)
        [] entry = "ASSIGN"   -> emit_assign(o)
        [] entry = "ADD"      -> emit_add(o)
        [] entry = "SUB"      -> emit_sub(o)
        [] entry = "MUL"      -> emit_mul(o)
        [] entry = "DIV"      -> emit_div(o)
        [] entry = "ADDR"     -> emit_addr(o)
        [] entry = "FETCH"    -> emit_fetch(o)
        [] entry = "DEREF"    -> emit_deref(o)
        [] entry = "GOTO"     -> emit_goto(o)
        [] entry = "READ"     -> emit_read(o)
        [] entry = "WRITE"    -> emit_write(o)
        [] OTHER              -> Emits({}, << >>)

=============================================================================
