------------------------------ MODULE KeyCheck ------------------------------
(***************************************************************************)
(* The checker of keys of lab 8 (src/lab8/JSONType.h, the actions of       *)
(* syntax.y): the actions build a value on a stack, and checkValue         *)
(* looks for keys that an object has twice.                                *)
(*                                                                         *)
(* A text is the sequence of its characters, with the quotes.  A value is  *)
(* <<"string", text>>, <<"scalar">>, <<"object", members>> or <<"array",   *)
(* values>>; members is a sequence of [key, value].                        *)
(***************************************************************************)
EXTENDS Integers, Sequences

CONSTANTS
  Texts,   \* the strings of the input
  MaxSize  \* bound: scalars, strings and arrays in the input

VARIABLES
  stack,    \* the semantic values of the parser: <<symbol, value>>
  size,     \* scalars, strings and arrays so far
  verdict   \* "none", or what checkValue returned and the key it complained of

vars == <<stack, size, verdict>>

Scalar == <<"scalar">>

Init == stack = << >> /\ size = 0 /\ verdict = <<"none">>

-----------------------------------------------------------------------------
(* The n-th symbol from the top, its value, and the stack below. *)
Symbol(n) == stack[Len(stack) - n + 1][1]
ValueOf(n) == stack[Len(stack) - n + 1][2]
Has(symbols) ==
  /\ Len(stack) >= Len(symbols)
  /\ \A n \in DOMAIN symbols : Symbol(n) = symbols[Len(symbols) - n + 1]

Reduce(n, symbol, v) ==
  /\ verdict = <<"none">>
  /\ stack' = Append(SubSeq(stack, 1, Len(stack) - n), <<symbol, v>>)
  /\ UNCHANGED verdict

Shift(symbol, v) == size < MaxSize /\ size' = size + 1 /\ Reduce(0, symbol, v)

(* Numbers, true, false and null; an object without members is a null, too. *)
NewScalar == Shift("value", Scalar)

(* The value of a key is a string that has not become a Value. *)
NewString == \E text \in Texts : Shift("string", <<"string", text>>)

StringIsValue == Has(<<"string">>) /\ Reduce(1, "value", ValueOf(1)) /\ UNCHANGED size

NewEmptyArray == Shift("value", <<"array", <<Scalar>>>>)

NewMember ==
  /\ Has(<<"string", "value">>)
  /\ Reduce(2, "members", <<[key |-> ValueOf(2)[2], value |-> ValueOf(1)]>>)
  /\ UNCHANGED size

(* The list is built from its end: the new member comes in front. *)
AddMemberItem ==
  /\ Has(<<"members", "members">>) /\ Len(ValueOf(2)) = 1
  /\ Reduce(2, "members", ValueOf(2) \o ValueOf(1))
  /\ UNCHANGED size

NewObjectFromMember ==
  Has(<<"members">>) /\ Reduce(1, "value", <<"object", ValueOf(1)>>) /\ UNCHANGED size

NewArray ==
  /\ Has(<<"value">>) /\ size < MaxSize
  /\ size' = size + 1
  /\ Reduce(1, "values", <<ValueOf(1)>>)

AddArrayItem ==
  Has(<<"value", "values">>) /\ Reduce(2, "values", <<ValueOf(2)>> \o ValueOf(1)) /\ UNCHANGED size

ArrayIsValue ==
  Has(<<"values">>) /\ Reduce(1, "value", <<"array", ValueOf(1)>>) /\ UNCHANGED size

-----------------------------------------------------------------------------
(* The one character of a key that is compared: the one behind the quote. *)
Compared(key) == key[2]

(* The first member whose key begins like that of a member before it, or 0. *)
FirstTwin(members) ==
  LET twins == {i \in DOMAIN members :
                  \E j \in 1 .. i - 1 : Compared(members[j].key) = Compared(members[i].key)}
  IN  IF twins = {} THEN 0 ELSE CHOOSE i \in twins : \A j \in twins : i <= j

(* The items of an array are not looked at (for the mutation runs). *)
Children_members(v) ==
  IF v[1] = "object" THEN [i \in DOMAIN v[2] |-> v[2][i].value] ELSE << >>

(* The values that checkMember and checkArray go on to, in their order. *)
Children(v) ==
  CASE v[1] = "object" -> [i \in DOMAIN v[2] |-> v[2][i].value]
    [] v[1] = "array"  -> v[2]
    [] OTHER           -> << >>

(***************************************************************************)
(* checkValue: the keys of an object first, then what is in it; the first  *)
(* complaint ends the walk.  The key complained of, or no key at all.      *)
(***************************************************************************)
RECURSIVE checkValue(_)
checkValue(v) ==
  IF v[1] = "object" /\ FirstTwin(v[2]) # 0 THEN <<v[2][FirstTwin(v[2])].key>>
  ELSE LET inner    == [i \in DOMAIN Children(v) |-> checkValue(Children(v)[i])]
           refusing == {i \in DOMAIN inner : inner[i] # << >>}
       IN  IF refusing = {} THEN << >>
           ELSE inner[CHOOSE i \in refusing : \A j \in refusing : i <= j]

Json ==
  /\ verdict = <<"none">> /\ Len(stack) = 1 /\ Has(<<"value">>)
  /\ verdict' = LET complaint == checkValue(ValueOf(1))
                IN  IF complaint = << >> THEN <<"valid">> ELSE <<"duplicate", complaint[1]>>
  /\ UNCHANGED <<stack, size>>

Next ==
  \/ NewScalar \/ NewString \/ StringIsValue \/ NewEmptyArray \/ NewMember \/ AddMemberItem
  \/ NewObjectFromMember \/ NewArray \/ AddArrayItem \/ ArrayIsValue \/ Json

Spec == Init /\ [][Next]_vars

-----------------------------------------------------------------------------
(* Every value inside v, v included. *)
RECURSIVE Within(_)
Within(v) ==
  {v} \cup CASE v[1] = "object" -> UNION {Within(v[2][i].value) : i \in DOMAIN v[2]}
             [] v[1] = "array"  -> UNION {Within(v[2][i]) : i \in DOMAIN v[2]}
             [] OTHER           -> {}

Objects(v) == {w \in Within(v) : w[1] = "object"}

Input == stack[1][2]

(***************************************************************************)
(* What is accepted has no object, at any depth, with two equal keys       *)
(* (checkValue, checkMember and checkArray, JSONType.h:95-130).            *)
(***************************************************************************)
AcceptedHasNoTwins ==
  verdict = <<"valid">> =>
    \A o \in Objects(Input) : \A i, j \in DOMAIN o[2] : o[2][i].key = o[2][j].key => i = j

(***************************************************************************)
(* A complaint, "duplicate key" (JSONType.h:117), names a key that one of  *)
(* the objects has twice.  It does not hold: the set has one character of  *)
(* each key (JSONType.h:113).                                              *)
(***************************************************************************)
OnlyDuplicatesRefused ==
  verdict[1] = "duplicate" =>
    \E o \in Objects(Input) : \E i, j \in DOMAIN o[2] :
      i < j /\ o[2][i].key = verdict[2] /\ o[2][j].key = verdict[2]

=============================================================================
