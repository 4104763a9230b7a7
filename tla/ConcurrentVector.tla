-------------------------- MODULE ConcurrentVector --------------------------
(***************************************************************************)
(* The operations of pico/ConcurrentVector.h on the sequence of its        *)
(* elements.  pop, peek and push_back run under the vector's mutex, so     *)
(* each is one step; remove takes no lock, so it is two: what it reads     *)
(* before it moves the elements, and the move.                             *)
(***************************************************************************)
EXTENDS Integers, Sequences

CONSTANT NullRef   \* an empty shared_ptr

(* Mutants: the wrong end is read, nothing is removed.                     *)
PeekFront(v)   == IF v = <<>> THEN NullRef ELSE v[1]
PopNothing(v)  == v

(* push_back, pop and peek work on the end of the vector: it is a stack.   *)
PushBack(v, e) == Append(v, e)
Peek(v)        == IF v = <<>> THEN NullRef ELSE v[Len(v)]
PopBack(v)     == SubSeq(v, 1, Len(v) - 1)

(* remove finds its element at one of these positions ...                  *)
PositionsOf(v, e) == {i \in 1..Len(v) : v[i] = e}

(* ... and erases it, having read that the vector ends at position end: it *)
(* moves the elements behind it down by one, which leaves an empty pointer *)
(* in the last place, and shortens the vector.                             *)
SlotAt(v, j) == IF j \in 1..Len(v) THEN v[j] ELSE NullRef

Moved(v, pos, end, j) ==
  IF j \in pos..(end - 1) THEN SlotAt(v, j + 1)
  ELSE IF j = end /\ pos < end THEN NullRef
  ELSE SlotAt(v, j)

Erased(v, pos, end, len) == [j \in 1..len |-> Moved(v, pos, end, j)]

(* The length it leaves.  Undisturbed, one less.  When another thread has  *)
(* changed the length in between, the decrement is applied to the old      *)
(* length, to the new one, or is overwritten.                              *)
LengthsAfterErase(v, end) ==
  IF Len(v) = end THEN {end - 1} ELSE {end - 1, Len(v) - 1, Len(v)}
=============================================================================
