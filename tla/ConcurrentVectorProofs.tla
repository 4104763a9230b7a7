----------------------- MODULE ConcurrentVectorProofs -----------------------
(***************************************************************************)
(* What the operations of ConcurrentVector return, for every sequence.     *)
(***************************************************************************)
EXTENDS ConcurrentVector, SequenceTheorems, TLAPS

(* push_back keeps the elements in place and adds one at the end.          *)
LEMMA PushBackLemma ==
  ASSUME NEW S, NEW v \in Seq(S), NEW e \in S
  PROVE  /\ PushBack(v, e) \in Seq(S)
         /\ PushBack(v, e) # <<>>
         /\ Len(PushBack(v, e)) = Len(v) + 1
         /\ \A i \in 1..Len(v) : PushBack(v, e)[i] = v[i]
         /\ PushBack(v, e)[Len(v) + 1] = e
  BY AppendProperties DEF PushBack

(* peek and pop of a vector that is not empty: the last element, and the   *)
(* others in place.                                                        *)
LEMMA PopBackLemma ==
  ASSUME NEW S, NEW v \in Seq(S), v # <<>>
  PROVE  /\ Peek(v) \in S
         /\ Peek(v) = v[Len(v)]
         /\ Len(v) \in 1..Len(v)
         /\ PopBack(v) \in Seq(S)
         /\ Len(PopBack(v)) = Len(v) - 1
         /\ \A i \in 1..(Len(v) - 1) : PopBack(v)[i] = v[i]
  <1>1. Len(v) \in Nat \ {0}
    BY EmptySeq
  <1>2. Len(v) \in 1..Len(v)
    BY <1>1
  <1>3. Peek(v) = v[Len(v)] /\ Peek(v) \in S
    BY <1>2, ElementOfSeq DEF Peek
  <1>4. PopBack(v) \in Seq(S)
    BY DEF PopBack
  <1>5. Len(PopBack(v)) = Len(v) - 1
    <2> DEFINE n == Len(v)
               l == Len(SubSeq(v, 1, n - 1))
    <2>1. \A i \in 1..(n - 1) : v[i] \in S
      OBVIOUS
    <2>2. l = IF 1 <= n - 1 THEN (n - 1) - 1 + 1 ELSE 0
      BY <1>1, <2>1, SubSeqProperties
    <2>3. n \in Nat \ {0}
      BY <1>1
    <2> HIDE DEF n, l
    <2>4. l = n - 1
      BY <2>2, <2>3
    <2> QED
      BY <2>4 DEF n, l, PopBack
  <1>6. ASSUME NEW i \in 1..(Len(v) - 1)
        PROVE  PopBack(v)[i] = v[i]
    BY DEF PopBack
  <1> QED
    BY <1>2, <1>3, <1>4, <1>5, <1>6

(* The element peek shows is at a position of the vector.                  *)
LEMMA PeekLemma ==
  ASSUME NEW S, NEW v \in Seq(S), NEW e, e # NullRef, Peek(v) = e
  PROVE  Len(v) \in PositionsOf(v, e)
  <1>1. v # <<>>
    BY DEF Peek
  <1> QED
    BY <1>1, PopBackLemma DEF PositionsOf

(* However remove() was disturbed, it leaves elements of the vector and    *)
(* empty pointers.                                                         *)
LEMMA ErasedLemma ==
  ASSUME NEW S, NEW v \in Seq(S \cup {NullRef}), NEW pos \in Nat, NEW end \in Nat,
         NEW len \in Nat
  PROVE  /\ Erased(v, pos, end, len) \in Seq(S \cup {NullRef})
         /\ Len(Erased(v, pos, end, len)) = len
  <1>1. \A j : SlotAt(v, j) \in S \cup {NullRef}
    BY ElementOfSeq DEF SlotAt
  <1>2. \A j : Moved(v, pos, end, j) \in S \cup {NullRef}
    BY <1>1 DEF Moved
  <1>3. Erased(v, pos, end, len) \in [1..len -> S \cup {NullRef}]
    BY <1>2 DEF Erased
  <1>4. Erased(v, pos, end, len) \in Seq(S \cup {NullRef})
    BY <1>3, SeqDef
  <1> QED
    BY <1>3, <1>4, LenProperties
=============================================================================
