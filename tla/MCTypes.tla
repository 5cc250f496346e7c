------------------------------ MODULE MCTypes ------------------------------
(***************************************************************************)
(* Small instances of SemanticTypes.                                       *)
(***************************************************************************)
EXTENDS SemanticTypes

OneParam == {<<[name |-> 1, type |-> t]>> : t \in {CPrimitive("int"), CArray(CPrimitive("int"))}}

(* The types without arrays, as deep as MaxInserts declarations can nest them. *)
ScalarTypes == {EMPTY_TYPE} \union {CPrimitive(t) : t \in Prims}

MemberLists(types) ==
  {<< >>} \union {<<[name |-> n, type |-> t]>> : n \in Names, t \in types}

PlainUpTo[depth \in 0 .. MaxInserts] ==
  IF depth = 0 THEN ScalarTypes
  ELSE ScalarTypes \union
       {CStructure(s, fields) : s \in SNames, fields \in MemberLists(PlainUpTo[depth - 1])}

AllPlainTypes == PlainUpTo[MaxInserts]
=============================================================================
