----------------------------- MODULE SymtabList -----------------------------
(***************************************************************************)
(* The linked list of lab 5 (src/lab5/symtab_ll.c) behind the interface of *)
(* a symbol table.  "nodes" are the nodes behind the list's own first one, *)
(* whose key is "" and which is no entry.                                  *)
(***************************************************************************)
EXTENDS Symtab, SequencesExt

VARIABLES
  nodes,   \* a sequence of [key, value]
  call,    \* the last call
  ret      \* what it returned

vars == <<nodes, call, ret>>

With(list, k) == {i \in DOMAIN list : list[i].key = k}

FirstWith(list, k) ==
  CHOOSE i \in With(list, k) : \A j \in With(list, k) : i <= j

(* The table that a caller sees: the search for a key ends at its first node. *)
Table(list) ==
  [k \in {list[i].key : i \in DOMAIN list} |-> list[FirstWith(list, k)].value]

-----------------------------------------------------------------------------
Init == nodes = << >> /\ call = <<"init">> /\ ret = 0

(* The loop stops two nodes before the end (for the mutation runs). *)
ComparedTwoShort == 1 .. Len(nodes) - 2

(* The nodes that the loop of symtab_insert compares: it stops on the last one. *)
Compared == 1 .. Len(nodes) - 1

symtab_insert(k, v) ==
  /\ call' = <<"insert", k, v>>
  /\ Len(nodes) < MaxNodes
  /\ IF \E i \in Compared : nodes[i].key = k
     THEN ret' = 0 /\ UNCHANGED nodes
     ELSE ret' = 1 /\ nodes' = Append(nodes, Entry(k, v))

symtab_lookup(k) ==
  /\ call' = <<"lookup", k>>
  /\ ret' = IF With(nodes, k) = {} THEN -1 ELSE nodes[FirstWith(nodes, k)].value
  /\ UNCHANGED nodes

(* The search for the node starts one node late (for the mutation runs). *)
symtab_remove_late(k) ==
  /\ call' = <<"remove", k>>
  /\ \/ With(nodes, k) \ {1} = {} /\ ret' = 0 /\ UNCHANGED nodes
     \/ With(nodes, k) \ {1} # {} /\ ret' = 1 /\ nodes' = RemoveAt(nodes, FirstWith(nodes, k))

symtab_remove(k) ==
  /\ call' = <<"remove", k>>
  /\ \/ With(nodes, k) = {} /\ ret' = 0 /\ UNCHANGED nodes
     \/ With(nodes, k) # {} /\ ret' = 1 /\ nodes' = RemoveAt(nodes, FirstWith(nodes, k))

Next ==
  \E k \in Keys : symtab_lookup(k) \/ symtab_remove(k) \/ \E v \in Values : symtab_insert(k, v)

Spec == Init /\ [][Next]_vars

-----------------------------------------------------------------------------
(***************************************************************************)
(* The loop of symtab_insert misses the last node (symtab_ll.c:24).  A key *)
(* can be there twice, then, but never more often, and its two nodes stay  *)
(* neighbours whatever is removed.                                         *)
(***************************************************************************)
TwinsAreNeighbours ==
  \A i, j \in DOMAIN nodes : i < j /\ nodes[i].key = nodes[j].key => j = i + 1

Map == INSTANCE SymtabMap WITH map <- Table(nodes)

(* No key is in the list twice. *)
Apart(list) == \A i, j \in 1 .. Len(list) : list[i].key = list[j].key => i = j

(* A step that inserts the youngest key again. *)
InsertsLast == nodes # << >> /\ \E v \in Values : call' = <<"insert", Last(nodes).key, v>>

(***************************************************************************)
(* The youngest key is the only danger: as long as no key is in the list   *)
(* twice, every call but its insertion does and returns what a map does    *)
(* (symtab.h:28-38).                                                       *)
(***************************************************************************)
StepsLikeMap == [][Apart(nodes) /\ ~ InsertsLast => Map!Next]_vars

=============================================================================
