------------------------------ MODULE DataSem ------------------------------
(***************************************************************************)
(* What the code of the data half must do: compute what the source does.   *)
(*                                                                         *)
(* One interpreter runs the items of the source: names are looked up in    *)
(* nested scopes, operands are values, elements and members lie where      *)
(* their types put them.  The other runs the instructions, as the expected *)
(* outputs and samples of project3 show the IR to work (test/*.out,        *)
(* sample/*.ir): every call has variables of its own, DEC reserves bytes,  *)
(* PARAM takes the latest ARG that is left.  Both read the same inputs;    *)
(* what they write is compared.  Only TLC uses this module.                *)
(***************************************************************************)
EXTENDS DataHist

-----------------------------------------------------------------------------
(***************************************************************************)
(* The source. s = [env, mem, in, out, at, returned, ok]: the scopes of    *)
(* the running call, whose entries are places [at, spec, dims], the cells, *)
(* how many inputs are read, and the results of the visits so far.         *)
(***************************************************************************)
RECURSIVE Cells(_, _)
Cells(spec, dims) ==
  Product(dims) *
    (IF spec = "int" THEN 1
     ELSE FoldLeft(LAMBDA n, f : n + Cells(f.spec, f.dims), 0, FieldsOf(spec)))

(* The place of the field of that name in a place of that structure. *)
FieldAt(place, name) ==
  LET fields == FieldsOf(place.spec)
      i      == CHOOSE k \in DOMAIN fields : fields[k].name = name
  IN  [at   |-> FoldLeft(LAMBDA n, f : n + Cells(f.spec, f.dims), place.at,
                         SubSeq(fields, 1, i - 1)),
       spec |-> fields[i].spec, dims |-> fields[i].dims]

(* The n-th input of a run. *)
Input(n) == 10 + n

Bad(s) == [s EXCEPT !.ok = FALSE]

Bind(s, x, place) == [s EXCEPT !.env[Len(s.env)] = (x :> place) @@ @]

(* Declare x with the given value in its first cell. *)
Declare(s, x, spec, dims, value) ==
  LET n == Cells(spec, dims)
  IN  [Bind(s, x, [at |-> Len(s.mem) + 1, spec |-> spec, dims |-> dims])
         EXCEPT !.mem = @ \o [i \in 1 .. n |-> IF i = 1 THEN value ELSE 0]]

Apply(token, x, y) == CASE token = "+" -> x + y [] token = "-" -> x - y [] token = "*" -> x * y

(* A result is a value, and a place where it is one. *)
Result(s, value) == [s EXCEPT !.at = Append(@, [value |-> value, place |-> 0])]

(* A place: a scalar's value, or where the others begin. *)
Name(s, place) ==
  [s EXCEPT !.at = Append(@, [value |-> IF IsScalar(place) THEN s.mem[place.at] ELSE place.at,
                              place |-> place])]

ElementAt(s, place, i) ==
  IF i \notin 0 .. Head(place.dims) - 1 THEN Bad(s)
  ELSE Name(s, [place EXCEPT !.at   = @ + i * Cells(place.spec, Tail(place.dims)),
                             !.dims = Tail(@)])

(* A call: parameters that are arrays or structures name the caller's. *)
Enter(s, params, values) ==
  FoldLeft(LAMBDA t, i :
             LET v == [at |-> values[i], spec |-> params[i].spec, dims |-> params[i].dims]
             IN  IF IsScalar(v) THEN Declare(t, params[i].name, "int", << >>, v.at)
                 ELSE Bind(t, params[i].name, v),
           [s EXCEPT !.env = <<EmptyScope>>], [i \in DOMAIN params |-> i])

FunctionAt(f) == CHOOSE i \in DOMAIN src : src[i][1] = "fun" /\ src[i][2] = f

(* s from i on, in front of the first element to stop at. *)
UpTo(s, i, Stop(_)) ==
  LET n == SelectInSubSeq(s, i, Len(s), Stop)
  IN  SubSeq(s, i, IF n = 0 THEN Len(s) ELSE n - 1)

(* The items of the body of f, as far as it is written. *)
Body(f) == UpTo(src, FunctionAt(f) + 1, LAMBDA item : item[1] = "end")

(* What a visit makes of the results p of its parts; the steps of an access are places. *)
Combine(v, p, s) ==
  CASE v.op = "int"    -> Result(s, v.number)
    [] v.op = "read"   -> Result([s EXCEPT !.in = @ + 1], Input(s.in))
    [] v.op = "id"     -> Name(s, Entry(s.env, v.name))
    [] v.op = "neg"    -> Result(s, -p[1].value)
    [] v.op = "index"  -> ElementAt(s, p[1].place, p[2].value)
    [] v.op \in {"mixed", "member"} ->
         IF v.name = "" THEN Bad(s) ELSE Name(s, FieldAt(p[1].place, v.name))
    [] v.op = "assign" -> Result([s EXCEPT !.mem[p[2].place.at] = p[1].value], p[1].value)
    [] v.op = "args"   -> Result(s, 0)
    [] v.op \in Tokens -> Result(s, Apply(v.op, p[1].value, p[2].value))
    [] OTHER           -> [s EXCEPT !.at = Append(@, p[1])]

RECURSIVE Compute(_, _)

(* The state after the visits of e. *)
Computed(e, s) == FoldLeft(Compute, [s EXCEPT !.at = << >>], e)

ValueIn(s) == Last(s.at).value

(* What an item does once its expression is computed. *)
Done(item, t) ==
  CASE ~ t.ok -> t
    [] t.ok /\ item[1] = "def" ->
         Declare(t, item[2].name, item[2].spec, item[2].dims, ValueIn(t))
    [] t.ok /\ item[1] = "exp" -> t
    [] t.ok /\ item[1] = "return" -> [t EXCEPT !.returned = TRUE]
    [] t.ok /\ item[1] = "write" ->
         LET p == Taken(Last(item[2]), t.at)
         IN  [t EXCEPT !.out = @ \o [i \in DOMAIN p |-> p[i].value]]

(* One item of a body. After a return nothing more of it is run. *)
RunItem(s, item) ==
  IF ~ s.ok \/ s.returned THEN s
  ELSE CASE item[1] = "open"  -> [s EXCEPT !.env = Append(@, EmptyScope)]
         [] item[1] = "close" -> [s EXCEPT !.env = Front(@)]
         [] item[1] = "def"   ->
              Done(item, IF item[2].init = << >> THEN Result(s, 0) ELSE Computed(item[2].init, s))
         [] OTHER -> Done(item, Computed(item[2], s))

(* The caller s goes on, when the function has got to t. *)
Left(s, t) ==
  Result([t EXCEPT !.env = s.env, !.returned = s.returned, !.at = s.at],
         IF t.returned THEN ValueIn(t) ELSE 0)

(* Run the body of f on these values. *)
RunFunction(s, f, values) ==
  Left(s, FoldLeft(RunItem, Enter([s EXCEPT !.returned = FALSE], src[FunctionAt(f)][3], values),
                   Body(f)))

(* One visit, on the results p of its parts. *)
ComputeOn(s, v, p) ==
  IF v.op = "call" THEN RunFunction(s, v.name, [i \in DOMAIN p |-> p[i].value])
  ELSE Combine(v, p, s)

Compute(s, v) == IF s.ok THEN ComputeOn(s, v, Taken(v, s.at)) ELSE s

(* The program: a call of main. *)
SourceRun ==
  RunFunction([env |-> << >>, mem |-> << >>, in |-> 0, out |-> << >>, at |-> << >>,
               returned |-> FALSE, ok |-> TRUE], "main", << >>)

-----------------------------------------------------------------------------
(***************************************************************************)
(* The code. m = [t, at, mem, next, args, in, out, value, returned, ok]:   *)
(* the variables of the running call, the blocks its DECs reserved, the    *)
(* bytes of all blocks and the ARGs no PARAM took. A variable without      *)
(* value is an error, as is an access outside of every block.              *)
(***************************************************************************)
Operand(m, a) == IF a > 0 THEN m.t[a] ELSE -a

(* The distance of two blocks: farther than any wrong access goes. *)
BlockGap == 1000

Readable(m, tac) ==
  /\ tac.op # "ADDRESS" => Reads(tac) \subseteq DOMAIN m.t
  /\ tac.op = "STORE" => m.t[tac.addr] \in DOMAIN m.mem
  /\ tac.op = "LOAD" => m.t[tac.raddr] \in DOMAIN m.mem
  /\ tac.op = "PARAM" => m.args # << >>

(* The value an instruction gives its variable. *)
ValueOf(tac, m) ==
  CASE tac.op = "PARAM"   -> Last(m.args)
    [] tac.op = "ASSIGN"  -> Operand(m, tac.raddr)
    [] tac.op = "ADDRESS" -> IF tac.raddr \in DOMAIN m.at THEN m.at[tac.raddr] ELSE 0
    [] tac.op = "LOAD"    -> m.mem[m.t[tac.raddr]]
    [] tac.op = "ARITH"   -> Apply(tac.token, Operand(m, tac.laddr), Operand(m, tac.raddr))
    [] tac.op = "READ"    -> Input(m.in)
    [] tac.op = "CALL"    -> m.value

Block(from, size) == [a \in {from + type_size * k : k \in 0 .. size \div type_size - 1} |-> 0]

(* The instructions of f. *)
CodeOf(f) ==
  LET i == CHOOSE j \in DOMAIN tac_list : tac_list[j].op = "FUNCTION" /\ tac_list[j].name = f
  IN  UpTo(tac_list, i + 1, LAMBDA tac : tac.op = "FUNCTION")

RECURSIVE Called(_, _)

(* What an instruction does besides giving its variable a value. *)
Effect(tac, u) ==
  CASE tac.op = "PARAM"  -> [u EXCEPT !.args = Front(@)]
    [] tac.op = "READ"   -> [u EXCEPT !.in = @ + 1]
    [] tac.op = "DEC"    -> [u EXCEPT !.at   = (tac.addr :> u.next) @@ @,
                                      !.mem  = Block(u.next, DecSize(tac)) @@ @,
                                      !.next = @ + BlockGap]
    [] tac.op = "STORE"  -> [u EXCEPT !.mem[u.t[tac.addr]] = u.t[tac.raddr]]
    [] tac.op = "WRITE"  -> [u EXCEPT !.out = Append(@, u.t[tac.raddr])]
    [] tac.op = "ARG"    -> [u EXCEPT !.args = Append(@, u.t[tac.raddr])]
    [] tac.op = "RETURN" -> [u EXCEPT !.value = u.t[tac.raddr], !.returned = TRUE]
    [] OTHER             -> u

Executed(tac, n) ==
  Effect(tac, IF tac.op \in {"DEC", "STORE", "WRITE", "RETURN", "ARG"} THEN n
              ELSE [n EXCEPT !.t = (tac.addr :> ValueOf(tac, n)) @@ @])

(* One instruction. After a RETURN nothing more of the call is run. *)
RunTac(m, tac) ==
  IF ~ m.ok \/ m.returned THEN m
  ELSE IF ~ Readable(m, tac) THEN Bad(m)
  ELSE Executed(tac, IF tac.op = "CALL" THEN Called(m, tac.name) ELSE m)

(* m after a call that got to n: the caller's variables and blocks are its own. *)
Back(m, n) == [n EXCEPT !.t = m.t, !.at = m.at, !.returned = m.returned]

Called(m, f) ==
  Back(m, FoldLeft(RunTac, [m EXCEPT !.t = << >>, !.at = << >>, !.returned = FALSE], CodeOf(f)))

CodeRun ==
  Called([t |-> << >>, at |-> << >>, mem |-> << >>, next |-> BlockGap, args |-> << >>,
          in |-> 0, out |-> << >>, value |-> 0, returned |-> FALSE, ok |-> TRUE], "main")

-----------------------------------------------------------------------------
HasMain == "main" \in Defined

(***************************************************************************)
(* The IR writes what the source program writes: for every program without *)
(* one of the known flaws (and without global variables, which the samples *)
(* of the IR do not have), however its scopes nest, its subscripts nest    *)
(* and its functions pass scalars, arrays and structures. A run of the     *)
(* source that leaves an array says nothing.                               *)
(***************************************************************************)
CodeComputesSource ==
  flaws = {} /\ NoGlobals /\ HasMain =>
    LET source == SourceRun
        code   == CodeRun
    IN  source.ok => status = "running" /\ code.ok /\ code.out = source.out

=============================================================================
