------------------------------ MODULE IntList ------------------------------
(***************************************************************************)
(* What the linked list of lab 1 promises (src/lab1/linked_list.h:14-57):  *)
(* a sequence of integers with positions from 0.                           *)
(***************************************************************************)
EXTENDS Integers, Sublist

CONSTANTS Values, Indexes, INT_MIN

VARIABLES
  list,
  call,  \* the last call
  ret    \* what it returned, if it returns something

vars == <<list, call, ret>>

Void == <<"void">>

InBounds(i) == i \in 0 .. Len(list) - 1

Positions(v) == {i \in DOMAIN list : list[i] = v}

First(v) == CHOOSE i \in Positions(v) : \A j \in Positions(v) : i <= j

Init == list = << >> /\ call = <<"init">> /\ ret = Void

Changes(new) == list' = new /\ ret' = Void

Returns(type, r) == ret' = <<type, r>> /\ UNCHANGED list

Call(name) == call' = name

Append1(v) == Call(<<"append", v>>) /\ Changes(Append(list, v))

Insert(v, i) ==
  /\ Call(<<"insert", v, i>>)
  /\ Changes(IF i \in 0 .. Len(list) THEN InsertAt(list, i + 1, v) ELSE list)

Delete(i) ==
  Call(<<"delete", i>>) /\ Changes(IF InBounds(i) THEN RemoveAt(list, i + 1) ELSE list)

Remove1(v) ==
  Call(<<"remove", v>>) /\ Changes(IF Positions(v) = {} THEN list ELSE RemoveAt(list, First(v)))

RemoveAll(v) == Call(<<"remove_all", v>>) /\ Changes(Those(list, Values \ {v}))

Free == Call(<<"free">>) /\ Changes(<< >>)

Size == Call(<<"size">>) /\ Returns("int", Len(list))

Get(i) == Call(<<"get", i>>) /\ Returns("int", IF InBounds(i) THEN list[i + 1] ELSE INT_MIN)

Search(v) ==
  Call(<<"search", v>>) /\ Returns("int", IF Positions(v) = {} THEN -1 ELSE First(v) - 1)

SearchAll(v) ==
  Call(<<"search_all", v>>) /\ Returns("list", Those([i \in DOMAIN list |-> i - 1], {i - 1 : i \in Positions(v)}))

Next ==
  \/ Size \/ Free
  \/ \E v \in Values : Append1(v) \/ Remove1(v) \/ RemoveAll(v) \/ Search(v) \/ SearchAll(v)
  \/ \E i \in Indexes : Delete(i) \/ Get(i) \/ \E v \in Values : Insert(v, i)

Spec == Init /\ [][Next]_vars

=============================================================================
