------------------------------- MODULE MCStore -------------------------------
(***************************************************************************)
(* Values for the constants of Store: a collection large enough for a node *)
(* with two subtrees to be deleted, and another that moves the offset.     *)
(* The indexes reached are compared with what the pointers of the code     *)
(* give.                                                                   *)
(***************************************************************************)
EXTENDS Store

CONSTANTS a, b, NoNode

Capacities == [c \in Collections |-> IF c = a THEN 4 ELSE 1]

Pointers == INSTANCE PointerIndex

(* The pointers of the subtree S.                                          *)
RECURSIVE Linked(_, _)
Linked(S, t) ==
  IF S = {} THEN NoNode
  ELSE LET top == CHOOSE n \in S : \A m \in S : n \notin Below(m, t)
       IN [Pointers!Node(t[top].key, top) EXCEPT
             !.left = Linked(t[top].lefts, t), !.right = Linked(t[top].rights, t)]

PointersOf(t) == Linked(DOMAIN t, t)

(* An offset no node has: the files hold fewer records.                    *)
NewOffset == 5

(* insert, search and remove do to the sets of nodes below each node what  *)
(* they do to its pointers (pico_index.h:51-80,129-254).                   *)
PointersAgree ==
  /\ PointersOf(EmptyTree) = Pointers!EmptyTree
  /\ \A c \in open :
       LET t    == index[c]
           root == PointersOf(t)
       IN \A k \in Records \cup {RootKey} :
            /\ PointersOf(Insert(k, NewOffset, t)) = Pointers!Insert(k, NewOffset, root)
            /\ Search(k, t) = LET node == Pointers!Search(k, root)
                             IN IF node = NoNode THEN {} ELSE {node.offset}
            /\ PointersOf(Removed(k, t)) = Pointers!Remove(k, root)
=============================================================================
