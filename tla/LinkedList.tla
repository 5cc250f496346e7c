----------------------------- MODULE LinkedList -----------------------------
(***************************************************************************)
(* The linked list of lab 1 (src/lab1/linked_list.c): nodes in a heap,     *)
(* chained by their next pointers from a head node whose value is the      *)
(* number of elements.  A loop along the chain is a walk over "Chain", the *)
(* nodes it visits.                                                        *)
(***************************************************************************)
EXTENDS Integers, FiniteSets, Sublist

CONSTANTS
  Elements,   \* the integers that callers use
  Indexes,    \* the positions they use, some of them out of bounds
  INT_MIN,    \* what get returns out of bounds; no value
  Addresses,  \* bound: addresses that malloc may return
  head        \* the address of the head node

VARIABLES
  value,      \* of the allocated nodes; of the head, the union's count
  next,       \* of the allocated nodes
  list_call,  \* the last call
  list_ret    \* what it returned, if it returns something

list_vars == <<value, next, list_call, list_ret>>

NULL == "NULL"

Void == <<"void">>

Heap == DOMAIN next

(* There are finitely many addresses, NULL is none. *)
ASSUME MemoryAssumption ==
  IsFiniteSet(Addresses) /\ head \in Addresses /\ NULL \notin Addresses

(* The node that each number of moves along the pointers ends at. *)
Moves(links) ==
  LET node[k \in 0 .. Cardinality(DOMAIN links)] ==
        IF k = 0 THEN head
        ELSE IF node[k - 1] \in DOMAIN links THEN links[node[k - 1]] ELSE NULL
  IN  node

(* The nodes behind the head; a freed node is the last one, if there is any. *)
ChainOf(links) ==
  LET node == Moves(links)
  IN  [k \in 1 .. Cardinality({i \in DOMAIN node : i > 0 /\ node[i] # NULL}) |-> node[k]]

Chain == ChainOf(next)

(* The node that index moves along the chain end at. *)
After(index) == IF index = 0 THEN head ELSE Chain[index]

Count == value[head]

-----------------------------------------------------------------------------
linked_list_init ==
  /\ value = [q \in {head} |-> 0]
  /\ next = [q \in {head} |-> NULL]
  /\ list_call = <<"init">> /\ list_ret = Void

(* A new node with value v behind cur, and one more in the count. *)
InsertBehind(cur, v) ==
  \E new \in Addresses \ Heap :
    /\ value' = [q \in Heap \cup {new} |-> CASE q = new  -> v
                                             [] q = head -> Count + 1
                                             [] OTHER    -> value[q]]
    /\ next' = [q \in Heap \cup {new} |-> CASE q = new -> next[cur]
                                            [] q = cur -> new
                                            [] OTHER   -> next[q]]

(* The node behind cur is unlinked and freed, and one less in the count. *)
DeleteBehind(cur) ==
  LET rest == Heap \ {next[cur]}
  IN  /\ value' = [q \in rest |-> IF q = head THEN Count - 1 ELSE value[q]]
      /\ next' = [q \in rest |-> IF q = cur THEN next[next[cur]] ELSE next[q]]

Keeps == UNCHANGED <<value, next>>

linked_list_append(v) ==
  /\ list_call' = <<"append", v>> /\ list_ret' = Void
  /\ InsertBehind(After(Len(Chain)), v)

(* The place behind the last element is out of bounds (for the mutation runs). *)
linked_list_insert_within(v, index) ==
  /\ list_call' = <<"insert", v, index>> /\ list_ret' = Void
  /\ IF index \in 0 .. Count - 1 THEN InsertBehind(After(index), v) ELSE Keeps

linked_list_insert(v, index) ==
  /\ list_call' = <<"insert", v, index>> /\ list_ret' = Void
  /\ IF index \in 0 .. Count THEN InsertBehind(After(index), v) ELSE Keeps

linked_list_delete(index) ==
  /\ list_call' = <<"delete", index>> /\ list_ret' = Void
  /\ IF index \in 0 .. Count - 1 THEN DeleteBehind(After(index)) ELSE Keeps

Positions(v) == {i \in DOMAIN Chain : value[Chain[i]] = v}

First(v) == CHOOSE i \in Positions(v) : \A j \in Positions(v) : i <= j

(* The node is unlinked but kept (for the mutation runs). *)
linked_list_remove_keeps(v) ==
  /\ list_call' = <<"remove", v>> /\ list_ret' = Void
  /\ IF Positions(v) # {}
     THEN LET cur == After(First(v) - 1)
          IN  /\ value' = [value EXCEPT ![head] = Count - 1]
              /\ next' = [next EXCEPT ![cur] = next[next[cur]]]
     ELSE Keeps

linked_list_remove(v) ==
  /\ list_call' = <<"remove", v>> /\ list_ret' = Void
  /\ IF Positions(v) # {} THEN DeleteBehind(After(First(v) - 1)) ELSE Keeps

(* The nodes are freed while they are still chained (for the mutation runs). *)
linked_list_remove_all_frees(v) ==
  LET rest == {q \in Heap : q = head \/ value[q] # v}
  IN  /\ list_call' = <<"remove_all", v>> /\ list_ret' = Void
      /\ value' = [q \in rest |-> IF q = head THEN Cardinality(rest) - 1 ELSE value[q]]
      /\ next' = [q \in rest |-> next[q]]

(* The nodes are unlinked, but nobody frees them. *)
linked_list_remove_all(v) ==
  LET kept      == <<head>> \o Those(Chain, {q \in Heap : value[q] # v})
      Follow(i) == IF i = Len(kept) THEN NULL ELSE kept[i + 1]
  IN  /\ list_call' = <<"remove_all", v>> /\ list_ret' = Void
      /\ value' = [value EXCEPT ![head] = Count - Cardinality(Positions(v))]
      /\ next' = [q \in Heap |-> IF \E i \in DOMAIN kept : kept[i] = q
                                 THEN Follow(CHOOSE i \in DOMAIN kept : kept[i] = q)
                                 ELSE next[q]]

(* Everything on the chain is freed, the head with it; no call follows. *)
linked_list_free ==
  LET rest == {q \in Heap \ {head} : \A i \in DOMAIN Chain : Chain[i] # q}
  IN  /\ list_call' = <<"free">> /\ list_ret' = Void
      /\ value' = [q \in rest |-> value[q]]
      /\ next' = [q \in rest |-> next[q]]

linked_list_size ==
  list_call' = <<"size">> /\ list_ret' = <<"int", Count>> /\ Keeps

linked_list_get(index) ==
  /\ list_call' = <<"get", index>>
  /\ list_ret' = <<"int", IF index \in 0 .. Count - 1 THEN value[After(index + 1)] ELSE INT_MIN>>
  /\ Keeps

linked_list_search(v) ==
  /\ list_call' = <<"search", v>>
  /\ list_ret' = <<"int", IF Positions(v) = {} THEN -1 ELSE First(v) - 1>>
  /\ Keeps

(* A list of its own, which belongs to the caller. *)
linked_list_search_all(v) ==
  /\ list_call' = <<"search_all", v>>
  /\ list_ret' = <<"list", Those([i \in DOMAIN Chain |-> i - 1], {i - 1 : i \in Positions(v)})>>
  /\ Keeps

ListNext ==
  /\ head \in Heap
  /\ \/ linked_list_size \/ linked_list_free
     \/ \E v \in Elements : \/ linked_list_append(v) \/ linked_list_remove(v)
                          \/ linked_list_remove_all(v)
                          \/ linked_list_search(v) \/ linked_list_search_all(v)
     \/ \E i \in Indexes : \/ linked_list_delete(i) \/ linked_list_get(i)
                           \/ \E v \in Elements : linked_list_insert(v, i)

ListSpec == linked_list_init /\ [][ListNext]_list_vars

-----------------------------------------------------------------------------
OnChain == {head} \cup {Chain[i] : i \in DOMAIN Chain}

(* No loop along the chain reads a node that was freed (linked_list.c:73-100). *)
ChainIsAllocated == head \in Heap => OnChain \subseteq Heap

(***************************************************************************)
(* A node is unlinked without being freed by remove_all only: what is left *)
(* of a list after linked_list_free are the nodes of those calls           *)
(* (linked_list.c:102-114).                                                *)
(***************************************************************************)
OnlyRemoveAllLeaks ==
  [][(Heap' \ OnChain') \subseteq (Heap \ OnChain) \/ list_call'[1] = "remove_all"]_list_vars

Contents == INSTANCE IntList WITH
  list <- [i \in DOMAIN Chain |-> value[Chain[i]]],
  call <- list_call, ret <- list_ret, Values <- Elements

(***************************************************************************)
(* The chain is the sequence that linked_list.h describes, its count the   *)
(* length, after any calls with positions in and out of bounds.            *)
(***************************************************************************)
ImplementsList == Contents!Spec

=============================================================================
