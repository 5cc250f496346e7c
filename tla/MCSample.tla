------------------------------ MODULE MCSample ------------------------------
(***************************************************************************)
(* IrWalk on the one file that comes with project4 as a sample,            *)
(* src/project4/sample/test_4_fact.ir (run ir_sample).                     *)
(***************************************************************************)
EXTENDS MCIr, SequencesExt

Label(n) == Tok("label", "", n)
LabelLine(n) == MCLine(<<Word("LABEL"), Label(n), Word(":")>>)
FunctionLine(name) == MCLine(<<Word("FUNCTION"), Word(name), Word(":")>>)
If(x, op, y, n) == MCLine(<<Word("IF"), x, Word(op), y, Word("GOTO"), Label(n)>>)
Goto(n) == MCLine(<<Word("GOTO"), Label(n)>>)
One(keyword, x) == MCLine(<<Word(keyword), x>>)
Copy(x, y) == MCLine(<<x, MCIs, y>>)
Arith(x, y, op, z) == MCLine(<<x, MCIs, y, Word(op), z>>)
Calls(x, name) == MCLine(<<x, MCIs, Word("CALL"), Word(name)>>)

v1 == Word("v1")
v2 == Word("v2")
v3 == Word("v3")
t(n) == Word(<<"t1", "t2", "t3", "t4", "t5">>[n])

Sample == <<
  FunctionLine("fact"), One("PARAM", v1), If(v1, "==", MCLit(1), 1), Goto(2),
  LabelLine(1), One("RETURN", v1), LabelLine(2),
  Arith(t(1), v1, "-", MCLit(1)), One("ARG", t(1)), Calls(t(2), "fact"),
  Arith(t(3), v1, "*", t(2)), One("RETURN", t(3)),
  MCLine(<< >>),
  FunctionLine("main"), One("READ", t(4)), Copy(v2, t(4)), If(v2, ">", MCLit(1), 3), Goto(4),
  LabelLine(3), One("ARG", v2), Calls(t(5), "fact"), Copy(v3, t(5)), Goto(5),
  LabelLine(4), Copy(v3, MCLit(1)), LabelLine(5), One("WRITE", v3), One("RETURN", MCLit(0))>>

SampleLines == {Sample[i] : i \in DOMAIN Sample}

(* The buffer is the sample. *)
SampleNext ==
  /\ Next
  /\ IsPrefix(lines', Sample)
  /\ pc' = "emit" => lines' = Sample

SampleSpec == Init /\ [][SampleNext]_vars

(***************************************************************************)
(* The sample is a program that project4 translates: its assembly is kept  *)
(* beside it (sample/test_4_fact.s).                                       *)
(***************************************************************************)
SampleIsTranslated == pc \notin {"aborted", "undefined"}

=============================================================================
