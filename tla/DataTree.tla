------------------------------ MODULE DataTree ------------------------------
(***************************************************************************)
(* From syntax trees to the visits of module DataGen: the recursive calls  *)
(* of translate_Exp and translate_Args (src/project3/tac_ir.cpp), in the   *)
(* order in which the source makes them.  A tree is a tuple that starts    *)
(* with its production.  Only TLC uses this module.                        *)
(***************************************************************************)
EXTENDS Integers, SequencesExt

V(op, name, number, parts) ==
  [op |-> op, single |-> FALSE, name |-> name, number |-> number, parts |-> parts]

(* A visit without a name or a number. *)
W(op, parts) == V(op, "", 0, parts)

(* The subscripts and members of an access from the variable outwards. *)
RECURSIVE Chain(_)
Chain(e) == IF e[1] \in {"index", "dot"} THEN Append(Chain(e[2]), e) ELSE <<e>>

(***************************************************************************)
(* The visits of e behind those in c; "single" is translate_Exp's second   *)
(* argument, which it looks at for a name and for an access.               *)
(***************************************************************************)
RECURSIVE Visits(_, _, _)

Plain(c, e) == Visits(c, e, FALSE)

(* The value of an assignment comes before its target. *)
AssignmentVisits(c, left, right) ==
  LET r == Plain(c, right)
      l == Visits(r, left, TRUE)
  IN  Append(l, W("assign", <<Len(r), Len(l)>>))

ArithmeticVisits(c, token, left, right) ==
  LET l == Plain(c, left)
      r == Plain(l, right)
  IN  Append(r, W(token, <<Len(l), Len(r)>>))

(* Subscripts, each in front of the step it belongs to; a member has none. *)
ElementVisits(c, chain) ==
  LET base == Plain(c, chain[1])
      n    == Len(chain) - 1
      step(b, k) ==
        LET s == Plain(b, chain[k + 1][3])
        IN  IF chain[k + 1][1] = "index"
            THEN Append(s, V("index", "", n - k, <<Len(b), Len(s), Len(base)>>))
            ELSE Append(b, V("mixed", chain[k + 1][3], 0, <<Len(b), Len(base)>>))
  IN  FoldLeft(step, Append(base, W("elements", <<Len(base)>>)), [k \in 1 .. n |-> k])

MemberVisits(c, chain) ==
  LET base == Plain(c, chain[1])
      step(b, e) == Append(b, V("member", IF e[1] = "dot" THEN e[3] ELSE "", 0,
                                <<Len(b), Len(base)>>))
  IN  FoldLeft(step, Append(base, W("members", <<Len(base)>>)), Tail(chain))

(* The last production decides which of the two loops runs along the chain. *)
AccessVisits(c, e, single) ==
  LET b == IF e[1] = "index" THEN ElementVisits(c, Chain(e)) ELSE MemberVisits(c, Chain(e))
  IN  Append(b, [W("access", <<Len(b)>>) EXCEPT !.single = single])

(* Arguments, and what op does with them. *)
ArgsVisits(c, args, op, name) ==
  LET one(a, i) ==
        LET b == Plain(a.c, args[i])
        IN  [c |-> Append(b, W(IF i = 1 THEN "first" ELSE "later", <<Len(b)>>)),
             at |-> Append(a.at, Len(b) + 1)]
      all == FoldLeft(one, [c |-> c, at |-> << >>], [i \in DOMAIN args |-> i])
  IN  Append(all.c, V(op, name, 0, all.at))

Visits(c, e, single) ==
  CASE e[1] = "read"             -> Append(c, W("read", << >>))
    [] e[1] = "int"              -> Append(c, V("int", "", e[2], << >>))
    [] e[1] = "id"               -> Append(c, [V("id", e[2], 0, << >>) EXCEPT !.single = single])
    [] e[1] \in {"neg", "paren"} -> LET b == Plain(c, e[2]) IN Append(b, W(e[1], <<Len(b)>>))
    [] e[1] = "call"             -> ArgsVisits(c, e[3], "call", e[2])
    [] e[1] = "assign"           -> AssignmentVisits(c, e[2], e[3])
    [] e[1] \in {"index", "dot"} -> AccessVisits(c, e, single)
    [] OTHER                     -> ArithmeticVisits(c, e[1], e[2], e[3])

=============================================================================
