------------------------------ MODULE RecordIndex ------------------------------
(***************************************************************************)
(* The index of a collection, pico/pico_index.h: an unbalanced binary      *)
(* search tree.  A node has the hash of a record's key and the offset of   *)
(* that record in the file.  The root is a node of no record, made by the  *)
(* constructor.                                                            *)
(*                                                                         *)
(* A node is known by its offset, which never changes and is that of no    *)
(* other node.  A tree is a function of its nodes, and the two pointers of *)
(* a node are the sets of nodes they lead to: a null pointer is the empty  *)
(* set, and the children are the nodes of the sets that are below no other *)
(* of them.  So a descent of the code, from child to child, is told by the *)
(* nodes it passes.  The field origin is not in the code: it is the key of *)
(* the record the node was inserted for.                                   *)
(***************************************************************************)
EXTENDS Integers, FiniteSets

Node(key) == [key |-> key, lefts |-> {}, rights |-> {}, origin |-> key]

RootKey == -1
Root == -1
EmptyTree == [n \in {Root} |-> Node(RootKey)]

Below(n, t) == t[n].lefts \cup t[n].rights

(* A descent in the subtree S that goes to the left of the greater keys    *)
(* and to the right of the others passes n.                                *)
OnWay(key, n, S, t) ==
  \A a \in S : n \in Below(a, t) => (n \in t[a].lefts <=> key < t[a].key)

Insert(key, offset, t) ==
  [n \in DOMAIN t \cup {offset} |->
     CASE n = offset -> Node(key)
       [] n # offset /\ ~OnWay(key, n, DOMAIN t, t) -> t[n]
       [] n # offset /\ OnWay(key, n, DOMAIN t, t) ->
            IF key < t[n].key THEN [t[n] EXCEPT !.lefts = @ \cup {offset}]
            ELSE [t[n] EXCEPT !.rights = @ \cup {offset}]]

(* The node found in the subtree S, if any: the first of the key.          *)
SearchIn(key, S, t) ==
  {n \in S : /\ t[n].key = key
             /\ OnWay(key, n, S, t)
             /\ \A a \in S : n \in Below(a, t) => t[a].key # key}

Search(key, t) == SearchIn(key, DOMAIN t, t)

(* Mutant of MinKey: it goes to the right.                                 *)
MaxKey(S, t) ==
  t[CHOOSE m \in S :
      /\ t[m].rights = {}
      /\ \A a \in S : m \in Below(a, t) => m \in t[a].rights].key

(* The key at the end of the pointers to the left.                         *)
MinKey(S, t) ==
  t[CHOOSE m \in S :
      /\ t[m].lefts = {}
      /\ \A a \in S : m \in Below(a, t) => m \in t[a].lefts].key

(* The pointer to a node with one subtree at most becomes the one to that  *)
(* subtree.                                                                *)
Without(n, t) ==
  [m \in DOMAIN t \ {n} |->
     [t[m] EXCEPT !.lefts = @ \ {n}, !.rights = @ \ {n}]]

(* Mutant of Deleted: the least key is not deleted.                        *)
DeletedOnce(n, t) ==
  IF t[n].lefts = {} \/ t[n].rights = {} THEN Without(n, t)
  ELSE [t EXCEPT ![n].key = MinKey(t[n].rights, t)]

(* A node with two subtrees takes the least key of the right one, which is *)
(* deleted there, and keeps its own offset.  The node found there has no   *)
(* left subtree, or its keys would be less (StorageProofs).                *)
Deleted(n, t) ==
  IF t[n].lefts = {} \/ t[n].rights = {} THEN Without(n, t)
  ELSE LET least == MinKey(t[n].rights, t)
           m     == CHOOSE m \in SearchIn(least, t[n].rights, t) : TRUE
       IN Without(m, [t EXCEPT ![n].key = least])

(* remove.  At the root the code makes a parent for the deletion.          *)
Removed(key, t) ==
  IF Search(key, t) = {} THEN t
  ELSE Deleted(CHOOSE n \in Search(key, t) : TRUE, t)

(* The number of nodes, the root included.                                 *)
TreeSize(t) == Cardinality(DOMAIN t)

CopiesOf(key, t) == Cardinality({n \in DOMAIN t : t[n].key = key})
=============================================================================
