------------------------------ MODULE DataHist ------------------------------
(***************************************************************************)
(* The well-formed programs, with what is known of their names and of the  *)
(* constructions that the generator gets wrong; and what holds of the      *)
(* tables and of the instructions of their translations.                   *)
(***************************************************************************)
EXTENDS DataGen

VARIABLES
  scopes,  \* history: the names declared in the open scopes, innermost last
  stale,   \* history: names whose latest declaration was in a scope now closed
  flaws    \* history: the places where the generator is known to go wrong

dvars == <<vars, scopes, stale, flaws>>

-----------------------------------------------------------------------------
(* Names. An entry of a scope is [spec, dims, param, at].                  *)
Declared == UNION {DOMAIN scopes[i] : i \in DOMAIN scopes}

Entry(env, x) ==
  LET k == CHOOSE i \in DOMAIN env : x \in DOMAIN env[i] /\ \A j \in i + 1 .. Len(env) :
                                                              x \notin DOMAIN env[j]
  IN  env[k][x]

EmptyScope == [x \in {} |-> 0]

NamesOf(ds) == {ds[i].name : i \in DOMAIN ds}

(* The instruction by which this step declares x; 0 when there is none. *)
DeclaredAt(x) == IF name_to_addr'[x] > Len(tac_list) THEN name_to_addr'[x] ELSE 0

Places(ds, param) ==
  [x \in NamesOf(ds) |->
     LET d == ds[CHOOSE i \in DOMAIN ds : ds[i].name = x]
     IN  [spec |-> d.spec, dims |-> d.dims, param |-> param, at |-> DeclaredAt(x)]]

(* The scope new on top of the scope old. *)
Over(new, old) ==
  [x \in DOMAIN new \union DOMAIN old |-> IF x \in DOMAIN new THEN new[x] ELSE old[x]]

(* The names of ds are declared in the innermost scope. *)
Declares(ds) ==
  /\ \A x \in NamesOf(ds) : x \notin DOMAIN Last(scopes)
  /\ scopes' = [scopes EXCEPT ![Len(scopes)] = Over(Places(ds, FALSE), @)]
  /\ stale' = stale \ NamesOf(ds)

-----------------------------------------------------------------------------
(* Types of expressions.                                                   *)
Scalar == [spec |-> "int", dims |-> << >>]

NoType == [spec |-> "none", dims |-> << >>]

IsScalar(v) == v.dims = << >> /\ v.spec = "int"

(* The type of the structure, field or variable d. *)
TypeBy(d) == [spec |-> d.spec, dims |-> d.dims]

FieldsOf(spec) ==
  src[CHOOSE i \in DOMAIN src : src[i][1] = "struct" /\ src[i][2] = spec][3]

(* A call of f fits its definition, which is complete: nothing is recursive. *)
Callable(f, types) ==
  \E i, k \in DOMAIN src :
    /\ i < k /\ src[i][1] = "fun" /\ src[i][2] = f /\ src[k] = <<"end">>
    /\ types = [j \in DOMAIN src[i][3] |-> TypeBy(src[i][3][j])]

(* The member of that name; a subscript among members has none. *)
MemberType(type, name) ==
  IF name = "" THEN IF type.dims = << >> THEN NoType ELSE [type EXCEPT !.dims = Tail(@)]
  ELSE IF type.dims # << >> \/ type.spec \notin DOMAIN strc_map THEN NoType
  ELSE LET fields == FieldsOf(type.spec)
           named  == {i \in DOMAIN fields : fields[i].name = name}
       IN  IF named = {} THEN NoType ELSE TypeBy(fields[CHOOSE i \in named : TRUE])

(* The type of the visit v, given those of its parts; NoType when they do not fit. *)
TypeOf(v, types) ==
  CASE v.op \in {"int", "read"} -> Scalar
    [] v.op = "id" -> IF v.name \in Declared THEN TypeBy(Entry(scopes, v.name)) ELSE NoType
    [] v.op \in {"paren", "first", "later", "elements", "members", "access"} -> types[1]
    [] v.op = "index" ->
         IF types[1].dims = << >> \/ types[2] # Scalar THEN NoType
         ELSE [types[1] EXCEPT !.dims = Tail(@)]
    [] v.op \in {"mixed", "member"} -> MemberType(types[1], v.name)
    [] v.op = "call" -> IF Callable(v.name, types) THEN Scalar ELSE NoType
    [] v.op \in Tokens \union {"neg", "assign", "args"} ->
         IF \A i \in DOMAIN types : types[i] = Scalar THEN Scalar ELSE NoType

-----------------------------------------------------------------------------
(***************************************************************************)
(* What is known of a visit: its type, the variables whose own instruction *)
(* its result is, the variable it is when parentheses are taken away, and  *)
(* the variables that it and its parts assign to.                          *)
(***************************************************************************)
LookOf(v, p) ==
  [type    |-> TypeOf(v, [i \in DOMAIN p |-> p[i].type]),
   aliases |-> IF v.op = "id" THEN {v.name}
               ELSE IF v.op \in {"paren", "assign", "first", "later"} THEN p[1].aliases ELSE {},
   bare    |-> IF v.op = "id" THEN {v.name} ELSE IF v.op = "paren" THEN p[1].bare ELSE {},
   writes  |-> UNION {p[i].writes : i \in DOMAIN p}
                 \union IF v.op = "assign" THEN p[2].bare ELSE {}]

Look(a, v) == Append(a, LookOf(v, Taken(v, a)))

Looking == INSTANCE Iteration WITH Step <- Look

(* What is known of the visits of e. *)
Looks(e) == Looking!Iterate(<< >>, e)

(***************************************************************************)
(* An operand is kept as the number of its variable, which is read when    *)
(* the whole expression is: too late, if a later part assigns to it        *)
(* (tac_ir.cpp:174, 265-283, 596).                                         *)
(***************************************************************************)
ReadLate(v, a) ==
  v.op \notin Steps /\ \E i, j \in DOMAIN v.parts :
    i < j /\ a[v.parts[i]].aliases \intersect a[v.parts[j]].writes # {}

(***************************************************************************)
(* The accesses the generator is made for: every subscript of an array of  *)
(* ints, or one member of a structure that is no array (tac_ir.cpp:286-369)*)
(***************************************************************************)
Unsupported(e, k, a) ==
  LET v == e[k]
  IN  \/ v.op = "index" /\ (a[k].type.spec # "int" \/ Len(a[k].type.dims) # v.number)
      \/ v.op = "mixed"
      \/ v.op = "member" /\ (v.name = "" \/ e[v.parts[1]].op # "members")

(* A variable with a DEC: it is reserved in a block of its own. *)
IsBlock(x) == LET v == Entry(scopes, x) IN ~ v.param /\ ~ IsScalar(v)

FlawKinds == {"late", "paren", "access", "array", "scope", "global"}

(* The visit e[k] has the flaw f. *)
HasFlaw(f, e, k, a) ==
  LET v == e[k]
  IN  \/ f = "late" /\ ReadLate(v, a)
      \/ f = "paren" /\ v.op = "assign" /\ e[v.parts[2]].op = "paren"  \* tac_ir.cpp:180
      \/ f = "access" /\ Unsupported(e, k, a)
      \/ f = "array" /\ v.op = "later" /\ \E x \in a[k].aliases : IsBlock(x)  \* :597
      \/ f = "scope" /\ v.op = "id" /\ v.name \in stale
      \/ f = "global" /\ v.op = "id" /\ Entry(scopes, v.name).at = 0

FlawsOf(e, a) == {f \in FlawKinds : \E k \in DOMAIN e : HasFlaw(f, e, k, a)}

(* e fits the declarations in sight, and its value is a scalar. *)
Using(e) ==
  LET a == Looks(e)
  IN  /\ \A k \in DOMAIN e : a[k].type # NoType
      /\ IsScalar(Last(a).type)
      /\ flaws' = flaws \union FlawsOf(e, a)

-----------------------------------------------------------------------------
DInit == Init /\ scopes = <<EmptyScope>> /\ stale = {} /\ flaws = {}

Defined == {src[i][2] : i \in {j \in DOMAIN src : src[j][1] = "fun"}}

(* A step of a well-formed program, whose last function is main. *)
DNext ==
  \/ \E d \in Structs[profile] :
       /\ d[1] \notin DOMAIN strc_map /\ \A i \in DOMAIN d[2] : KnownType(d[2][i].spec)
       /\ StructDef(d[1], d[2]) /\ UNCHANGED <<scopes, stale, flaws>>
  \/ \E ds \in ExtDecs[profile] :
       ExtDec(ds) /\ NamesOf(ds) \intersect Defined = {} /\ Declares(ds) /\ UNCHANGED flaws
  \/ \E f \in Functions[profile] :
       /\ f[1] \notin Defined \union DOMAIN scopes[1]
       /\ f[1] = "main" => \A h \in Functions[profile] : h[1] \in Defined \union {"main"}
       /\ Function(f[1], f[2]) /\ UNCHANGED flaws
       /\ scopes' = Append(scopes, Places(f[2], TRUE))
       /\ stale' = stale \ NamesOf(f[2])
  \/ \E d \in Defs[profile] :
       /\ Def(d) /\ Declares(<<d>>)
       /\ IF d.init = << >> THEN UNCHANGED flaws ELSE Using(d.init)
  \/ OpenBlock /\ scopes' = Append(scopes, EmptyScope) /\ UNCHANGED <<stale, flaws>>
  \/ /\ EndFunction \/ CloseBlock
     /\ depth = 1 => Last_item = "return"
     /\ stale' = stale \union DOMAIN Last(scopes)
     /\ scopes' = Front(scopes) /\ UNCHANGED flaws
  \/ \E s \in Stmts[profile] :
       /\ Last_item # "return"
       /\ \/ s[1] = "exp" /\ ExpStmt(s[2])
          \/ s[1] = "write" /\ Write(s[2])
          \/ s[1] = "return" /\ ReturnStmt(s[2])
       /\ Using(s[2]) /\ UNCHANGED <<scopes, stale>>

DSpec == DInit /\ [][DNext]_dvars

-----------------------------------------------------------------------------
(***************************************************************************)
(* Type invariant. The tables stay within their types: a name stands for   *)
(* an instruction that exists, and operands are variables or literals.     *)
(***************************************************************************)
TypeOK ==
  /\ name_to_addr \in [Names -> 0 .. Len(tac_list)]
  /\ status \in {"running", "crashed"} /\ depth = Len(scopes) - 1
  /\ \A i \in DOMAIN tac_list : Reads(tac_list[i]) \union Defines(tac_list[i]) \subseteq Nat

NoGlobals == \A i \in DOMAIN src : src[i][1] # "ext"

(***************************************************************************)
(* An instruction only reads variables that an earlier instruction of its  *)
(* function defined, and the variable of a DEC only to take its address.   *)
(* Patching the source of an assignment (tac_ir.cpp:187-191) keeps this,   *)
(* unless the left side is in parentheses; so do wrong addresses.          *)
(***************************************************************************)
OperandsDefined ==
  flaws \subseteq {"late", "access"} /\ NoGlobals =>
    \A i \in DOMAIN tac_list : \A a \in Reads(tac_list[i]) :
      \E j \in 1 .. i - 1 :
        /\ a \in Defines(tac_list[j])
        /\ \A k \in j .. i : tac_list[k].op # "FUNCTION"
        /\ tac_list[j].op = "DEC" => tac_list[i].op = "ADDRESS"

(***************************************************************************)
(* name_to_addr has no scopes (tac_ir.cpp:158, 527): a name that is        *)
(* visible stands for its visible declaration exactly as long as no inner  *)
(* declaration of the same name has been left; from then on it stands for  *)
(* that one. A declaration without instruction (at = 0) is exempt.         *)
(***************************************************************************)
NamesFollowScopes ==
  status = "running" =>
    \A x \in Declared : LET at == Entry(scopes, x).at IN
      at # 0 => (name_to_addr[x] = at <=> x \notin stale)

(***************************************************************************)
(* translate_ExtDecList (tac_ir.cpp:712-723) registers the first of its    *)
(* declarators: only the other global variables are without an instruction,*)
(* whatever is declared between and behind them.                           *)
(***************************************************************************)
GlobalsKnown ==
  status = "running" =>
    \A x \in Declared : Entry(scopes, x).at = 0 =>
      \E i \in DOMAIN src : src[i][1] = "ext" /\ x \in NamesOf(Tail(src[i][2]))

(***************************************************************************)
(* The generator only dies, of a failed dynamic_cast, on an assignment in  *)
(* parentheses, on an access that is not of the two supported shapes, or   *)
(* on a name that does not stand for its declaration.                      *)
(***************************************************************************)
CrashNeeds ==
  status = "crashed" => flaws \intersect {"paren", "access", "scope", "global"} # {}

(***************************************************************************)
(* Instructions are only ever appended: the assignment that patches an     *)
(* instruction behind its back patches one of its own, as long as no left  *)
(* side is in parentheses.                                                 *)
(***************************************************************************)
OnlyAppends == [][ "paren" \notin flaws' => IsPrefix(tac_list, tac_list') ]_dvars

=============================================================================
