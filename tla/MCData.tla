------------------------------- MODULE MCData -------------------------------
(***************************************************************************)
(* Small instances of DataSem: families of programs, each rich in one      *)
(* part of the language.                                                   *)
(***************************************************************************)
EXTENDS Handover, DataTree

(* Trees. *)
Id(x) == <<"id", x>>
Lit(n) == <<"int", n>>
Assign(l, r) == <<"assign", l, r>>
At(b, i) == <<"index", b, i>>
Dot(b, f) == <<"dot", b, f>>

Dec(s, x, dims) == [spec |-> s, name |-> x, dims |-> dims, init |-> << >>]
DecInit(x, e) == [spec |-> "int", name |-> x, dims |-> << >>, init |-> Plain(<< >>, e)]
Param(s, x, dims) == [spec |-> s, name |-> x, dims |-> dims]

A == Id("a")
B == Id("b")

Vars == {A, B}
Sets(es) == {Assign(v, e) : v \in Vars, e \in es}
Differences(es) == {<<"-", x, y>> : x, y \in es}

Simple == Vars \union {Lit(3), <<"read">>, <<"neg", B>>} \union Sets({Lit(3)})
Deep == Sets(Simple \union Sets({A})) \union {Assign(A, e) : e \in Differences(Simple)} \union
        {Assign(<<"paren", A>>, e) : e \in {B, Lit(3)}}

MCNames == {"a", "b", "v", "p", "f", "main"}

Student == <<Param("int", "x", << >>), Param("int", "y", << >>)>>

WorkerGroup == <<Param("S", "x", <<2>>), Param("int", "y", << >>)>>

MCStructs == [p \in Profiles |->
  CASE p = "members" -> {<<"S", Student>>, <<"T", WorkerGroup>>}
    [] p = "records" -> {<<"S", Student>>}
    [] OTHER         -> {}]

Globals == {<<Param("int", "a", << >>), Param("int", "b", << >>)>>,
            <<Param("int", "b", << >>)>>, <<Param("int", "v", <<2>>)>>}

MCExtDecs == [p \in Profiles |-> IF p = "globals" THEN Globals ELSE {}]

Callees == {<<"f", <<Param("int", "a", << >>), Param("int", "b", << >>)>>>>,
            <<"f", <<Param("int", "v", <<2>>), Param("int", "a", << >>)>>>>,
            <<"f", <<Param("int", "a", << >>), Param("int", "v", <<2>>)>>>>}

MCFunctions == [p \in Profiles |->
  {<<"main", << >>>>} \union
  CASE p = "calls"   -> Callees
    [] p = "records" -> {<<"f", <<Param("S", "p", << >>), Param("int", "a", << >>)>>>>}
    [] OTHER         -> {}]

MCDefs == [p \in Profiles |->
  CASE p = "operands" -> {DecInit("a", <<"read">>), DecInit("b", <<"read">>)}
    [] p = "scopes"   -> {Dec("int", "a", << >>), DecInit("b", <<"read">>)}
    [] p = "elements" -> {DecInit("a", Lit(1)), Dec("int", "v", <<2, 3>>)}
    [] p = "members"  -> {Dec("S", "p", << >>), Dec("T", "p", << >>), Dec("S", "p", <<2>>)}
    [] p = "calls"    -> {Dec("int", "v", <<2>>)}
    [] p = "records"  -> {Dec("S", "p", << >>)}
    [] OTHER          -> {Dec("int", "a", << >>)}]

Vec == Id("v")
ElementTrees == {At(At(Vec, i), j) : i \in {Lit(1), A}, j \in {Lit(2), A}} \union
                {At(At(Vec, Assign(A, Lit(0))), A)}
MemberTrees == {Dot(Id("p"), "y"), Dot(Id("p"), "x"), Dot(At(Id("p"), Lit(1)), "y"),
            Dot(At(Dot(Id("p"), "x"), Lit(1)), "y"), At(Dot(Id("p"), "x"), Lit(1))}
Actuals == {Lit(4), Vec, At(Vec, Lit(1))}

Exps(es) == {<<"exp", Plain(<< >>, e)>> : e \in es}
Returns(es) == {<<"return", Plain(<< >>, e)>> : e \in es}
Writing(es) == <<"write", ArgsVisits(<< >>, es, "args", "")>>
Outs(es) == {Writing(<<e>>) : e \in es}

(* Statements on elements or members: every one is assigned to every one. *)
Moves(es, others) == Exps({Assign(e, x) : e \in es, x \in es \union others}) \union Outs(es)

MCStmts == [p \in Profiles |->
  CASE p = "operands" -> Exps(Deep) \union {Writing(<<A, B>>)}
    [] p = "scopes"   -> Exps({Assign(A, <<"+", A, B>>), Assign(B, A)}) \union Outs(Vars)
    [] p = "elements" -> Moves(ElementTrees \union {A}, {Lit(3), <<"read">>})
                           \union Outs({At(Vec, Lit(1))})
    [] p = "members"  -> Moves(MemberTrees, {Lit(3), <<"read">>})
    [] p = "calls"    -> Outs({<<"call", "f", <<x, y>>>> : x \in {<<"read">>, Vec}, y \in Actuals})
                           \union Exps({Assign(At(Vec, Lit(1)), <<"+", A, Lit(2)>>)})
                           \union Returns({<<"-", A, B>>, <<"neg", At(Vec, A)>>})
    [] p = "records"  -> Exps({Assign(Dot(Id("p"), "x"), Lit(3)),
                               Assign(Dot(Id("p"), "y"), <<"read">>)})
                           \union Returns({<<"-", Dot(Id("p"), "y"), x>> :
                                              x \in {A, Dot(Id("p"), "x")}})
                           \union Outs({<<"call", "f", <<Id("p"), Lit(2)>>>>, Dot(Id("p"), "x")})
    [] OTHER          -> Exps(Sets(Vars)) \union Outs(Vars)]

MCMaxItems == [p \in Profiles |->
  CASE p \in {"operands", "elements"} -> 3 [] p \in {"scopes", "members", "globals"} -> 5 [] p = "records" -> 7
    [] OTHER -> 6]

=============================================================================
