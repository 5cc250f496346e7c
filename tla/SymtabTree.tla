----------------------------- MODULE SymtabTree -----------------------------
(***************************************************************************)
(* The search tree of lab 5 (src/lab5/symtab_bt.c) behind the interface of *)
(* a symbol table.  A pointer is named by its place, the turns on the way  *)
(* to it from the root; the first one is always to the right and left out, *)
(* since the root's own key is "", the least of all and no entry.          *)
(***************************************************************************)
EXTENDS Symtab, FiniteSets, SequencesExt

VARIABLES
  tree,       \* the entry of the node at each place that has one
  yields,     \* what the missing return of symtab_rm yields in this build
  tree_call,  \* the last call
  tree_ret    \* what it returned

tree_vars == <<tree, yields, tree_call, tree_ret>>

Sides == {"left", "right"}

NoTree == [p \in {} |-> 0]

KeysOf(t) == {t[p].key : p \in DOMAIN t}

(* The pointers in the nodes of a tree, and the one to it. *)
Pointers(t) == {<< >>} \union {Append(p, d) : p \in DOMAIN t, d \in Sides}

-----------------------------------------------------------------------------
Side(k, key) == IF k > key THEN "right" ELSE "left"

(* The pointers that the search for a key follows, from one of them on. *)
Way(t, from, k) ==
  {p \in Pointers(t) :
     /\ IsPrefix(from, p)
     /\ \A i \in Len(from) + 1 .. Len(p) :
          LET node == t[SubSeq(p, 1, i - 1)]
          IN  node.key # k /\ p[i] = Side(k, node.key)}

Found(t, from, k) == {p \in Way(t, from, k) : p \in DOMAIN t /\ t[p].key = k}

Find(t, from, k) == CHOOSE p \in Found(t, from, k) : TRUE

(* Any node of the right tree will do (for the mutation runs). *)
right_child(t, p) == p

(* The node that turns to the left from a place on lead to. *)
find_successer(t, p) ==
  CHOOSE q \in DOMAIN t :
    /\ IsPrefix(p, q) /\ \A i \in Len(p) + 1 .. Len(q) : q[i] = "left"
    /\ Append(q, "left") \notin DOMAIN t

(* What a pointer points to, as a tree; and the tree in which it points to s. *)
Subtree(t, p) ==
  [q \in {SubSeq(r, Len(p) + 1, Len(r)) : r \in {r \in DOMAIN t : IsPrefix(p, r)}} |-> t[p \o q]]

Replaced(t, p, s) ==
  LET rest == {q \in DOMAIN t : ~ IsPrefix(p, q)}
  IN  [q \in rest \union {p \o r : r \in DOMAIN s} |->
         IF q \in rest THEN t[q] ELSE s[SubSeq(q, Len(p) + 1, Len(q))]]

(* The child that takes the place of a node with less than two. *)
Child(t, p) ==
  IF Append(p, "left") \notin DOMAIN t THEN Append(p, "right") ELSE Append(p, "left")

(***************************************************************************)
(* The node at p is freed.  Behind a recursive call symtab_rm reaches its  *)
(* end without a return: in some builds it returns root, which it has just *)
(* used, so that the pointer to the node takes the child; in others what   *)
(* the recursive call returned, which it has just stored, so that every    *)
(* pointer on the way to the node, the root's first, takes the child.      *)
(***************************************************************************)
Freed(t, p, falls) ==
  LET child == Subtree(t, Child(t, p))
  IN  IF falls = "node" THEN Replaced(t, p, child) ELSE child

(* symtab_rm for a key in the tree.  The next node has no left tree. *)
symtab_rm(t, k, falls) ==
  LET p     == Find(t, << >>, k)
      right == Append(p, "right")
      next  == find_successer(t, right)
      moved == [t EXCEPT ![p] = t[next]]
  IN  IF {Append(p, "left"), right} \subseteq DOMAIN t
      THEN Freed(moved, Find(moved, right, t[next].key), falls)
      ELSE Freed(t, p, falls)

-----------------------------------------------------------------------------
tree_init ==
  /\ tree = NoTree /\ yields \in {"node", "result"}
  /\ tree_call = <<"init">> /\ tree_ret = 0

tree_insert(k, v) ==
  /\ tree_call' = <<"insert", k, v>>
  /\ \/ Found(tree, << >>, k) # {} /\ tree_ret' = 0 /\ UNCHANGED tree
     \/ /\ Found(tree, << >>, k) = {}
        /\ Cardinality(DOMAIN tree) < MaxNodes
        /\ \E p \in Way(tree, << >>, k) \ DOMAIN tree :
             tree' = [q \in DOMAIN tree \union {p} |-> IF q = p THEN Entry(k, v) ELSE tree[q]]
        /\ tree_ret' = 1

tree_lookup(k) ==
  /\ tree_call' = <<"lookup", k>>
  /\ tree_ret' = IF Found(tree, << >>, k) = {} THEN -1 ELSE tree[Find(tree, << >>, k)].value
  /\ UNCHANGED tree

tree_remove(k) ==
  /\ tree_call' = <<"remove", k>>
  /\ \/ /\ Found(tree, << >>, k) = {} /\ tree_ret' = 0
        /\ tree' = IF yields = "node" THEN tree ELSE NoTree
     \/ Found(tree, << >>, k) # {} /\ tree_ret' = 1 /\ tree' = symtab_rm(tree, k, yields)

TreeNext ==
  /\ UNCHANGED yields
  /\ \E k \in Keys : tree_lookup(k) \/ tree_remove(k) \/ \E v \in Values : tree_insert(k, v)

TreeSpec == tree_init /\ [][TreeNext]_tree_vars

-----------------------------------------------------------------------------
(***************************************************************************)
(* The tree stays a search tree: a key is above all of its left tree and   *)
(* below all of its right tree, whichever nodes a removal moved            *)
(* (symtab_bt.c:68-91).                                                    *)
(***************************************************************************)
SearchTree ==
  \A p, q \in DOMAIN tree :
    /\ IsPrefix(Append(p, "left"), q) => tree[q].key < tree[p].key
    /\ IsPrefix(Append(p, "right"), q) => tree[q].key > tree[p].key

TreeMap == INSTANCE SymtabMap WITH
  call <- tree_call, ret <- tree_ret,
  map <- [k \in KeysOf(tree) |-> tree[CHOOSE p \in DOMAIN tree : tree[p].key = k].value]

(***************************************************************************)
(* Where the missing return yields the node itself, the tree is the map    *)
(* that symtab.h:28-38 describes: every call changes and returns what it   *)
(* does there.                                                             *)
(***************************************************************************)
ImplementsMap == TreeMap!Init /\ [][yields = "node" => TreeMap!Next]_tree_vars

(***************************************************************************)
(* Where it yields what the recursive call returned, symtab_rm does not    *)
(* "remove a key-value pair from the table" (symtab.h:36): nothing stays   *)
(* when the key was not there, and otherwise only the one tree, if any,    *)
(* that hung on the node of the key or of the next key.                    *)
(***************************************************************************)
KeepsOneBranch ==
  [][LET k == tree_call'[2]
     IN  yields = "result" /\ tree_call'[1] = "remove" =>
           \/ k \notin KeysOf(tree) /\ tree' = NoTree
           \/ /\ k \in KeysOf(tree) \ KeysOf(tree')
              /\ \E p \in DOMAIN tree :
                   /\ tree[p].key >= k
                   /\ \A x \in KeysOf(tree) : ~ (k < x /\ x < tree[p].key)
                   /\ {Subtree(tree, Append(p, d)) : d \in Sides} = {NoTree, tree'}]_tree_vars

=============================================================================
