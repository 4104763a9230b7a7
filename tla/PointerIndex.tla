----------------------------- MODULE PointerIndex -----------------------------
(***************************************************************************)
(* The index of a collection as pico/pico_index.h has it: a node has its   *)
(* children, or NoNode for a null pointer, and the functions descend from  *)
(* child to child.  A function that changes a subtree returns it changed,  *)
(* where the code assigns the pointer of the parent.  RecordIndex has the  *)
(* same operations in a form that proofs can be made about.                *)
(***************************************************************************)
EXTENDS Integers

CONSTANT NoNode

RootKey == -1
Root == -1

Node(key, offset) ==
  [key |-> key, offset |-> offset, left |-> NoNode, right |-> NoNode]

EmptyTree == Node(RootKey, Root)

(* Mutant of Insert: a copy of a key goes to the left.                     *)
RECURSIVE InsertLeft(_, _, _)
InsertLeft(key, offset, leaf) ==
  CASE leaf = NoNode -> Node(key, offset)
    [] leaf # NoNode /\ key <= leaf.key ->
         [leaf EXCEPT !.left = InsertLeft(key, offset, @)]
    [] OTHER -> [leaf EXCEPT !.right = InsertLeft(key, offset, @)]

RECURSIVE Insert(_, _, _)
Insert(key, offset, leaf) ==
  CASE leaf = NoNode -> Node(key, offset)
    [] leaf # NoNode /\ key < leaf.key ->
         [leaf EXCEPT !.left = Insert(key, offset, @)]
    [] OTHER -> [leaf EXCEPT !.right = Insert(key, offset, @)]

RECURSIVE Search(_, _)
Search(key, leaf) ==
  IF leaf = NoNode \/ key = leaf.key THEN leaf
  ELSE Search(key, IF key < leaf.key THEN leaf.left ELSE leaf.right)

RECURSIVE MinKey(_)
MinKey(node) == IF node.left = NoNode THEN node.key ELSE MinKey(node.left)

RECURSIVE DeleteNode(_, _)
DeleteNode(key, node) ==
  CASE node = NoNode -> NoNode
    [] node # NoNode /\ key < node.key ->
         [node EXCEPT !.left = DeleteNode(key, @)]
    [] node # NoNode /\ key > node.key ->
         [node EXCEPT !.right = DeleteNode(key, @)]
    [] OTHER ->
         IF node.left # NoNode /\ node.right # NoNode
         THEN LET least == MinKey(node.right)
              IN [node EXCEPT !.key = least, !.right = DeleteNode(least, @)]
         ELSE IF node.left # NoNode THEN node.left ELSE node.right

(* remove.  At the root the code makes a parent of key 0 for the deletion; *)
(* deleteNode starts below that parent.                                    *)
Remove(key, root) == DeleteNode(key, root)
=============================================================================
