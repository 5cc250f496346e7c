------------------------------ MODULE DataTac ------------------------------
(***************************************************************************)
(* The instructions that move data in project3's three-address code        *)
(* (src/project3/tac_ir.hpp), one constructor per class, and the layout of *)
(* arrays and structures they rest on (src/project3/semantic.cpp).         *)
(*                                                                         *)
(* An operand is the number n > 0 of the variable tn, or minus a literal:  *)
(* what addr_to_string prints as "t4" or "#4".  The field op stands for    *)
(* the class; the code asks for it by typeid and dynamic_cast.             *)
(***************************************************************************)
EXTENDS Integers, SequencesExt

(* The operators of arithmetic. *)
Tokens == {"+", "-", "*", "/"}

(* Bytes of an int. *)
type_size == 4

Times(x, y) == x * y

Multiplying == INSTANCE Iteration WITH Step <- Times

Product(s) == Multiplying!Iterate(1, s)

(* The last n elements of s. *)
LastN(s, n) == SubSeq(s, Len(s) - n + 1, Len(s))

-----------------------------------------------------------------------------
(* Types. A field is [name, sizes]; only its name reaches the layout.      *)
Primitive == [kind |-> "primitive", fields |-> << >>]

Structure(fields) == [kind |-> "structure", fields |-> fields]

(* Structure::get_size: every field counts one int, whatever its type. *)
get_size(type) ==
  IF type.kind = "primitive" THEN type_size ELSE type_size * Len(type.fields)

(* The offset of the field behind the one asked for (for the mutation runs). *)
get_offset_next(type, name) ==
  type_size * Cardinality({i \in DOMAIN type.fields :
                             \A j \in 1 .. i - 1 : type.fields[j].name # name})

(***************************************************************************)
(* Structure::get_offset: the ints in front of the first field with that   *)
(* name, and all of them when there is none.                               *)
(***************************************************************************)
get_offset(type, name) ==
  type_size * Cardinality({i \in DOMAIN type.fields :
                             \A j \in 1 .. i : type.fields[j].name # name})

(* The sizes multiplied from the front (for the mutation runs). *)
suffix_front(sizes) == [k \in 1 .. Len(sizes) |-> Product(SubSeq(sizes, 1, k - 1))]

(***************************************************************************)
(* What the constructors of DecCode and ParamCode put into suffix: element *)
(* k is the product of the last k - 1 sizes.                               *)
(***************************************************************************)
suffix(sizes) == [k \in 1 .. Len(sizes) |-> Product(LastN(sizes, k - 1))]

-----------------------------------------------------------------------------
FuncCode(name) == [op |-> "FUNCTION", name |-> name]

ParamCode(addr, type, sizes) ==
  [op |-> "PARAM", addr |-> addr, type |-> type, sizes |-> sizes]

DecCode(addr, type, sizes) ==
  [op |-> "DEC", addr |-> addr, type |-> type, sizes |-> sizes]

(* DecCode::to_instruction: the bytes that DEC asks for. *)
DecSize(tac) == get_size(tac.type) * Product(tac.sizes)

AssignCode(addr, raddr) == [op |-> "ASSIGN", addr |-> addr, raddr |-> raddr]

AssignToAddrCode(addr, raddr) == [op |-> "STORE", addr |-> addr, raddr |-> raddr]

AssignAddrCode(addr, raddr) == [op |-> "ADDRESS", addr |-> addr, raddr |-> raddr]

AssignValCode(addr, raddr) == [op |-> "LOAD", addr |-> addr, raddr |-> raddr]

ArithCode(addr, laddr, raddr, token) ==
  [op |-> "ARITH", addr |-> addr, laddr |-> laddr, raddr |-> raddr, token |-> token]

ReadCode(addr) == [op |-> "READ", addr |-> addr]

WriteCode(raddr) == [op |-> "WRITE", raddr |-> raddr]

ReturnCode(raddr) == [op |-> "RETURN", raddr |-> raddr]

ArgCode(raddr) == [op |-> "ARG", raddr |-> raddr]

CallCode(addr, name) == [op |-> "CALL", addr |-> addr, name |-> name]

(* The variables an instruction reads. *)
Reads(tac) ==
  CASE tac.op \in {"FUNCTION", "PARAM", "DEC", "READ", "CALL"} -> {}
    [] tac.op = "ARITH" -> {a \in {tac.laddr, tac.raddr} : a > 0}
    [] tac.op = "STORE" -> {tac.addr, tac.raddr}
    [] OTHER            -> {a \in {tac.raddr} : a > 0}

(* The variable an instruction defines, or none. *)
Defines(tac) ==
  IF tac.op \in {"FUNCTION", "STORE", "WRITE", "RETURN", "ARG"} THEN {} ELSE {tac.addr}

=============================================================================
