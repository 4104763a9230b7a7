------------------------------- MODULE KeyBag -------------------------------
(***************************************************************************)
(* What the index of a collection promises: it is a bag of keys.  It is    *)
(* filled when the collection is opened, a deletion takes one copy of one  *)
(* key out of it if there is one, and it is lost when the process ends.    *)
(***************************************************************************)
EXTENDS Naturals

CONSTANTS Collections, Keys

VARIABLE keys   \* keys[c][k]: copies of key k in the index of c

Empty == [k \in Keys |-> 0]

Init == keys = [c \in Collections |-> Empty]

Fill(c) ==
  /\ keys[c] = Empty
  /\ keys'[c] \in [Keys -> Nat]
  /\ keys' = [keys EXCEPT ![c] = keys'[c]]

TakeOne(c, k) ==
  /\ keys[c][k] > 0
  /\ keys' = [keys EXCEPT ![c][k] = @ - 1]

Lose == keys' = [c \in Collections |-> Empty]

Next ==
  \/ \E c \in Collections : Fill(c) \/ \E k \in Keys : TakeOne(c, k)
  \/ Lose

Spec == Init /\ [][Next]_keys
=============================================================================
