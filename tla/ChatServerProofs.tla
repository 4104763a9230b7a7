-------------------------- MODULE ChatServerProofs --------------------------
(***************************************************************************)
(* For any set of sessions, any number of messages and any limit of the    *)
(* recent ones: every session writes an interval of the room's messages.   *)
(***************************************************************************)
EXTENDS ChatServer, SequenceTheorems, TLAPS

(* A message that continues the count is appended.                         *)
LEMMA CountsAppend ==
  ASSUME NEW q \in Seq(Nat), NEW n \in Int, NEW m \in Nat,
         CountsFrom(q, n), m = n + Len(q)
  PROVE  /\ Append(q, m) \in Seq(Nat)
         /\ Len(Append(q, m)) = Len(q) + 1
         /\ Append(q, m) # <<>>
         /\ CountsFrom(Append(q, m), n)
  <1>1. /\ Append(q, m) \in Seq(Nat)
        /\ Append(q, m) # <<>>
        /\ Len(Append(q, m)) = Len(q) + 1
        /\ \A i \in 1..Len(q) : Append(q, m)[i] = q[i]
        /\ Append(q, m)[Len(q) + 1] = m
    BY AppendProperties
  <1>2. Len(q) \in Nat
    OBVIOUS
  <1> DEFINE a == Append(q, m)
             l == Len(q)
  <1>3. \A i \in 1..(l + 1) : a[i] = n + i - 1
    <2>1. \A i \in 1..l : a[i] = n + i - 1
      BY <1>1 DEF CountsFrom
    <2>2. a[l + 1] = n + (l + 1) - 1
      BY <1>1, <1>2
    <2>3. l \in Nat
      BY <1>2
    <2> HIDE DEF a, l
    <2> TAKE i \in 1..(l + 1)
    <2>4. CASE i \in 1..l
      BY <2>1, <2>4
    <2>5. CASE i = l + 1
      BY <2>2, <2>5
    <2> QED
      BY <2>3, <2>4, <2>5
  <1> QED
    BY <1>1, <1>3 DEF CountsFrom

(* The first message is taken off.                                         *)
LEMMA CountsTail ==
  ASSUME NEW q \in Seq(Nat), NEW n \in Int, CountsFrom(q, n), q # <<>>
  PROVE  /\ Head(q) = n
         /\ Head(q) \in Nat
         /\ Tail(q) \in Seq(Nat)
         /\ Len(Tail(q)) = Len(q) - 1
         /\ CountsFrom(Tail(q), n + 1)
  <1>1. Len(q) \in Nat \ {0}
    BY EmptySeq
  <1>2. /\ Head(q) = q[1]
        /\ Tail(q) \in Seq(Nat)
        /\ Len(Tail(q)) = Len(q) - 1
        /\ \A i \in 1..(Len(q) - 1) : Tail(q)[i] = q[i + 1]
    BY HeadTailProperties
  <1>3. q[1] = n
    BY <1>1 DEF CountsFrom
  <1>4. q[1] \in Nat
    BY <1>1, ElementOfSeq
  <1>5. CountsFrom(Tail(q), n + 1)
    <2> SUFFICES ASSUME NEW i \in 1..(Len(q) - 1)
                 PROVE  Tail(q)[i] = n + 1 + i - 1
      BY <1>2 DEF CountsFrom
    <2>1. i + 1 \in 1..Len(q)
      BY <1>1
    <2>2. q[i + 1] = n + (i + 1) - 1
      BY <2>1 DEF CountsFrom
    <2> QED
      BY <1>2, <2>2
  <1> QED
    BY <1>2, <1>3, <1>4, <1>5

(* The room keeps the end of its messages.                                 *)
LEMMA RecentLemma ==
  ASSUME NEW q \in Seq(Nat), NEW n \in Int, CountsFrom(q, n)
  PROVE  /\ Recent(q) \in Seq(Nat)
         /\ Len(Recent(q)) <= max_recent_msgs
         /\ Len(Recent(q)) <= Len(q)
         /\ Len(Recent(q)) = Kept(Len(q))
         /\ CountsFrom(Recent(q), n + Len(q) - Len(Recent(q)))
  <1> DEFINE k == max_recent_msgs
             l == Len(q)
             r == SubSeq(q, l - k + 1, l)
  <1>1. k \in Nat /\ l \in Nat
    BY ChatAssumption
  <1>2. CASE l <= k
    <2>1. Recent(q) = q
      BY <1>1, <1>2 DEF Recent
    <2>2. n + Len(q) - Len(q) = n
      OBVIOUS
    <2> QED
      BY <1>1, <1>2, <2>1, <2>2 DEF Kept
  <1>3. CASE l > k
    <2>1. Recent(q) = r
      BY <1>1, <1>3 DEF Recent
    <2>2. \A i \in (l - k + 1)..l : q[i] \in Nat
      BY <1>1, <1>3, ElementOfSeq
    <2>3. /\ r \in Seq(Nat)
          /\ Len(r) = IF l - k + 1 <= l THEN l - (l - k + 1) + 1 ELSE 0
          /\ \A i \in 1..(l - (l - k + 1) + 1) : r[i] = q[(l - k + 1) + i - 1]
      BY <1>1, <1>3, <2>2, SubSeqProperties
    <2>4. Len(r) = k
      <3> HIDE DEF k, l, r
      <3> QED
        BY <1>1, <2>3
    <2>5. \A i \in 1..k : r[i] = q[l - k + i]
      <3>1. \A i \in 1..k : (l - k + 1) + i - 1 = l - k + i
        BY <1>1
      <3>2. l - (l - k + 1) + 1 = k
        BY <1>1
      <3> HIDE DEF k, l, r
      <3> QED
        BY <2>3, <3>1, <3>2
    <2>6. \A i \in 1..k : q[l - k + i] = n + l - k + i - 1
      <3> TAKE i \in 1..k
      <3>1. l - k + i \in 1..l
        BY <1>1, <1>3
      <3>2. q[l - k + i] = n + (l - k + i) - 1
        BY <3>1 DEF CountsFrom
      <3> QED
        BY <1>1, <3>2
    <2>7. CountsFrom(r, n + l - k)
      BY <2>4, <2>5, <2>6 DEF CountsFrom
    <2>8. k <= k /\ k <= l
      BY <1>1, <1>3
    <2> HIDE DEF k, l, r
    <2> QED
      BY <1>1, <1>3, <2>1, <2>3, <2>4, <2>7, <2>8 DEF k, l, Kept
  <1> QED
    BY <1>1, <1>2, <1>3

-----------------------------------------------------------------------------
(* The inductive invariant: beside the invariants of ChatServer, that the  *)
(* recent messages are not more than all, that a session not started has   *)
(* nothing, and that a write under way has a message.                      *)
NotStarted(s) ==
  first[s] = 0 =>
    /\ s \notin participants_
    /\ reading[s] = "none"
    /\ ~writing[s]
    /\ write_msgs_[s] = <<>>
    /\ written[s] = <<>>

WriteHasMessage(s) == writing[s] => write_msgs_[s] # <<>>

Inv ==
  /\ TypeOK
  /\ Len(recent_msgs_) <= delivered
  /\ RecentAreLast
  /\ StreamsFollowRoom
  /\ ParticipantsAreServed
  /\ \A s \in Sessions : NotStarted(s) /\ WriteHasMessage(s)

(* The invariant holds initially.                                          *)
LEMMA InvInit == Init => Inv
  <1> SUFFICES ASSUME Init PROVE Inv
    OBVIOUS
  <1>1. <<>> \in Seq(Nat) /\ Len(<<>>) = 0
    OBVIOUS
  <1>2. TypeOK
    BY <1>1, ChatAssumption DEF Init, TypeOK
  <1>3. \A s \in Sessions : written[s] = <<>> /\ write_msgs_[s] = <<>>
    BY DEF Init
  <1>4. StreamsFollowRoom
    <2>1. \A i : i \notin 1..0
      OBVIOUS
    <2> QED
      BY <1>1, <1>3, <2>1
         DEF Init, StreamsFollowRoom, StreamFollowsRoom, CountsFrom
  <1>5. RecentAreLast
    BY ChatAssumption DEF Init, RecentAreLast, CountsFrom, Kept
  <1>6. Len(recent_msgs_) <= delivered
    BY <1>1 DEF Init
  <1>7. ParticipantsAreServed
    BY DEF Init, ParticipantsAreServed, ParticipantIsServed
  <1>8. \A s \in Sessions : NotStarted(s) /\ WriteHasMessage(s)
    BY DEF Init, NotStarted, WriteHasMessage
  <1> QED
    BY <1>2, <1>4, <1>5, <1>6, <1>7, <1>8 DEF Inv

(* What the invariant says of one session, with the lengths of its queues. *)
SessionInv(s) ==
  StreamFollowsRoom(s) /\ ParticipantIsServed(s) /\ NotStarted(s) /\ WriteHasMessage(s)

RoomInv == TypeOK /\ Len(recent_msgs_) <= delivered /\ RecentAreLast

(* The invariant, the part of the room and the parts of the sessions.      *)
LEMMA InvParts == Inv <=> RoomInv /\ \A s \in Sessions : SessionInv(s)
  BY DEF Inv, RoomInv, SessionInv, StreamsFollowRoom, ParticipantsAreServed

(* The same after a step.                                                  *)
LEMMA InvPartsNext == Inv' <=> RoomInv' /\ \A s \in Sessions : SessionInv(s)'
  BY DEF Inv, RoomInv, SessionInv, StreamsFollowRoom, ParticipantsAreServed

(* A session whose state does not change keeps its part, if it is not one  *)
(* to which the room has meanwhile delivered.                              *)
LEMMA OtherSession ==
  ASSUME NEW s \in Sessions, SessionInv(s),
         UNCHANGED <<reading[s], write_msgs_[s], writing[s], written[s], first[s]>>,
         s \in participants_' => s \in participants_ /\ UNCHANGED delivered
  PROVE  SessionInv(s)'
  BY DEF SessionInv, StreamFollowsRoom, StreamEnd, ParticipantIsServed,
         NotStarted, WriteHasMessage, CountsFrom

(* A session that starts gets the recent messages, which end with the last.*)
LEMMA StartKeeps ==
  ASSUME Inv, NEW s \in Sessions, HandleAccept(s)
  PROVE  Inv'
  <1> USE InvParts DEF HandleAccept, Start, Join
  <1>1. /\ RoomInv
        /\ delivered \in 0..MaxMessages
        /\ recent_msgs_ \in Seq(Nat)
        /\ Len(recent_msgs_) \in Nat
        /\ Len(recent_msgs_) <= delivered
        /\ MaxMessages \in Nat
        /\ SessionInv(s)
    BY ChatAssumption DEF RoomInv, TypeOK
  <1> DEFINE f == delivered - Len(recent_msgs_) + 1
  <1>2. f \in 1..(MaxMessages + 1) /\ f + Len(recent_msgs_) - 1 = delivered
    BY <1>1
  <1>3. TypeOK'
    <2> HIDE DEF f
    <2>1. first' = [first EXCEPT ![s] = f]
      BY DEF f
    <2>2. f \in 0..(MaxMessages + 1)
      BY <1>2, <1>1
    <2> QED
      BY <1>1, <2>1, <2>2 DEF RoomInv, TypeOK
  <1>4. RoomInv'
    BY <1>1, <1>3 DEF RoomInv, RecentAreLast, CountsFrom, Kept
  <1>5. SessionInv(s)'
    <2>1. /\ write_msgs_'[s] = recent_msgs_
          /\ writing'[s] = (recent_msgs_ # <<>>)
          /\ first'[s] = f
          /\ reading'[s] = "header"
          /\ written'[s] = <<>>
      BY <1>1 DEF RoomInv, TypeOK, SessionInv, NotStarted
    <2>2. CountsFrom(recent_msgs_, f)
      BY <1>1 DEF RoomInv, RecentAreLast
    <2>3. Len(<<>>) = 0 /\ f \in Nat /\ f # 0 /\ f + 0 = f
      BY <1>2
    <2> HIDE DEF f
    <2>4. StreamFollowsRoom(s)'
      <3>1. CountsFrom(<<>>, f)
        BY DEF CountsFrom
      <3>2. f + Len(<<>>) + Len(recent_msgs_) - 1 = delivered
        BY <1>1, <1>2, <2>3
      <3> QED
        BY <2>1, <2>2, <2>3, <3>1, <3>2
           DEF StreamFollowsRoom, StreamEnd, CountsFrom
    <2> QED
      BY <2>1, <2>3, <2>4
         DEF SessionInv, ParticipantIsServed, NotStarted, WriteHasMessage
  <1>6. ASSUME NEW p \in Sessions, p # s
        PROVE  SessionInv(p)'
    BY <1>1, <1>6, OtherSession DEF RoomInv, TypeOK
  <1> QED
    BY <1>4, <1>5, <1>6, InvPartsNext

(* A session whose read fails is no participant any more.                  *)
LEMMA ReadFailsKeeps ==
  ASSUME Inv, NEW s \in Sessions, ReadFails(s)
  PROVE  Inv'
  <1> USE InvParts DEF ReadFails, Leave
  <1>1. RoomInv'
    BY DEF RoomInv, TypeOK, RecentAreLast, CountsFrom, Kept
  <1>2. SessionInv(s)'
    BY DEF RoomInv, TypeOK, SessionInv, StreamFollowsRoom, StreamEnd, CountsFrom,
           ParticipantIsServed, NotStarted, WriteHasMessage
  <1>3. ASSUME NEW p \in Sessions, p # s
        PROVE  SessionInv(p)'
    BY <1>3, OtherSession DEF RoomInv, TypeOK
  <1> QED
    BY <1>1, <1>2, <1>3, InvPartsNext

(* The header only starts the read of the body.                            *)
LEMMA HandleReadHeaderKeeps ==
  ASSUME Inv, NEW s \in Sessions, HandleReadHeader(s)
  PROVE  Inv'
  <1> USE InvParts DEF HandleReadHeader, roomVars
  <1>1. RoomInv'
    BY DEF RoomInv, TypeOK, RecentAreLast, CountsFrom, Kept
  <1>2. SessionInv(s)'
    BY DEF RoomInv, TypeOK, SessionInv, StreamFollowsRoom, StreamEnd, CountsFrom,
           ParticipantIsServed, NotStarted, WriteHasMessage
  <1>3. ASSUME NEW p \in Sessions, p # s
        PROVE  SessionInv(p)'
    BY <1>3, OtherSession DEF RoomInv, TypeOK
  <1> QED
    BY <1>1, <1>2, <1>3, InvPartsNext

(* A session whose write fails is no participant any more.                 *)
LEMMA WriteFailsKeeps ==
  ASSUME Inv, NEW s \in Sessions, WriteFails(s)
  PROVE  Inv'
  <1> USE InvParts DEF WriteFails, Leave
  <1>1. RoomInv'
    BY DEF RoomInv, TypeOK, RecentAreLast, CountsFrom, Kept
  <1>2. SessionInv(s)'
    BY DEF RoomInv, TypeOK, SessionInv, StreamFollowsRoom, StreamEnd, CountsFrom,
           ParticipantIsServed, NotStarted, WriteHasMessage
  <1>3. ASSUME NEW p \in Sessions, p # s
        PROVE  SessionInv(p)'
    BY <1>3, OtherSession DEF RoomInv, TypeOK
  <1> QED
    BY <1>1, <1>2, <1>3, InvPartsNext

(* Sums of the rank of a first message and the lengths of two queues.      *)
LEMMA Shift ==
  ASSUME NEW a \in Nat, NEW b \in Nat, NEW c \in Nat
  PROVE  /\ a + (b + 1) + (c - 1) - 1 = a + b + c - 1
         /\ a + b + (c + 1) - 1 = (a + b + c - 1) + 1
         /\ \A d \in Nat : a + b + c - 1 = d => d + 1 = a + b + c
  OBVIOUS

(* The first message moves from the queue to what is written.              *)
LEMMA HandleWriteKeeps ==
  ASSUME Inv, NEW s \in Sessions, HandleWrite(s)
  PROVE  Inv'
  <1> USE InvParts DEF HandleWrite, roomVars
  <1> DEFINE q == write_msgs_[s]
             w == written[s]
             n == first[s]
  <1>1. /\ TypeOK
        /\ SessionInv(s)
        /\ q \in Seq(Nat) /\ q # <<>>
        /\ w \in Seq(Nat)
        /\ n \in Nat
        /\ Len(w) \in Nat /\ Len(q) \in Nat
        /\ CountsFrom(w, n)
        /\ CountsFrom(q, n + Len(w))
    <2>1. TypeOK /\ SessionInv(s)
      BY DEF RoomInv
    <2>2. q # <<>> /\ CountsFrom(w, n) /\ CountsFrom(q, n + Len(w))
      BY <2>1 DEF SessionInv, WriteHasMessage, StreamFollowsRoom
    <2>3. q \in Seq(Nat) /\ w \in Seq(Nat) /\ n \in Nat
      BY <2>1 DEF TypeOK
    <2>4. Len(w) \in Nat /\ Len(q) \in Nat
      BY <2>3
    <2> QED
      BY <2>1, <2>2, <2>3, <2>4
  <1>2. /\ Head(q) = n + Len(w)
        /\ Head(q) \in Nat
        /\ Tail(q) \in Seq(Nat)
        /\ Len(Tail(q)) = Len(q) - 1
        /\ CountsFrom(Tail(q), n + Len(w) + 1)
    <2>1. n + Len(w) \in Int
      BY <1>1
    <2> HIDE DEF q, w, n
    <2> QED
      BY <1>1, <2>1, CountsTail
  <1>3. /\ Append(w, Head(q)) \in Seq(Nat)
        /\ Len(Append(w, Head(q))) = Len(w) + 1
        /\ CountsFrom(Append(w, Head(q)), n)
    <2> HIDE DEF q, w, n
    <2> QED
      BY <1>1, <1>2, CountsAppend
  <1>4. RoomInv'
    <2>1. /\ written' = [written EXCEPT ![s] = Append(w, Head(q))]
          /\ write_msgs_' = [write_msgs_ EXCEPT ![s] = Tail(q)]
          /\ writing' = [writing EXCEPT ![s] = (Tail(q) # <<>>)]
      OBVIOUS
    <2>2. TypeOK'
      <3>1. written' \in [Sessions -> Seq(Nat)]
        <4> HIDE DEF q, w, n
        <4> QED
          BY <1>1, <1>3, <2>1 DEF TypeOK
      <3>2. write_msgs_' \in [Sessions -> Seq(Nat)]
        <4> HIDE DEF q, w, n
        <4> QED
          BY <1>1, <1>2, <2>1 DEF TypeOK
      <3>3. writing' \in [Sessions -> BOOLEAN]
        BY <1>1 DEF TypeOK
      <3> QED
        BY <1>1, <3>1, <3>2, <3>3 DEF TypeOK
    <2> QED
      BY <2>2 DEF RoomInv, RecentAreLast, CountsFrom, Kept
  <1>5. SessionInv(s)'
    <2>1. /\ written'[s] = Append(w, Head(q))
          /\ write_msgs_'[s] = Tail(q)
          /\ writing'[s] = (Tail(q) # <<>>)
          /\ first'[s] = n
      BY <1>1 DEF TypeOK
    <2>2. n # 0
      BY <1>1 DEF SessionInv, NotStarted
    <2>3. n + (Len(w) + 1) = n + Len(w) + 1
      BY <1>1
    <2>4. n + (Len(w) + 1) + (Len(q) - 1) - 1 = n + Len(w) + Len(q) - 1
      BY <1>1, Shift
    <2>5. s \in participants_ => n + Len(w) + Len(q) - 1 = delivered
      BY <1>1 DEF SessionInv, StreamFollowsRoom, StreamEnd
    <2>6. /\ CountsFrom(written[s], first[s])'
          /\ CountsFrom(write_msgs_[s], first[s] + Len(written[s]))'
          /\ (s \in participants_ => StreamEnd(s) = delivered)'
      <3> HIDE DEF q, w, n
      <3>1. (first[s] + Len(written[s]))' = n + Len(w) + 1
        BY <1>3, <2>1, <2>3
      <3>2. StreamEnd(s)' = n + Len(w) + Len(q) - 1
        BY <1>2, <1>3, <2>1, <2>4 DEF StreamEnd
      <3>3. CountsFrom(written[s], first[s])'
        BY <1>3, <2>1 DEF CountsFrom
      <3>4. CountsFrom(write_msgs_[s], first[s] + Len(written[s]))'
        BY <1>2, <2>1, <3>1 DEF CountsFrom
      <3> QED
        BY <3>2, <3>3, <3>4, <2>5
    <2>7. StreamFollowsRoom(s)'
      BY <2>6 DEF StreamFollowsRoom
    <2> QED
      BY <1>1, <2>1, <2>2, <2>7
         DEF SessionInv, ParticipantIsServed, NotStarted, WriteHasMessage
  <1>6. ASSUME NEW p \in Sessions, p # s
        PROVE  SessionInv(p)'
    BY <1>1, <1>6, OtherSession DEF TypeOK
  <1> QED
    BY <1>4, <1>5, <1>6, InvPartsNext

(* A message of the room continues the stream of each participant.         *)
LEMMA HandleReadBodyKeeps ==
  ASSUME Inv, NEW s \in Sessions, HandleReadBody(s)
  PROVE  Inv'
  <1> USE InvParts
  <1> DEFINE d == delivered + 1
             old == recent_msgs_
             new == Append(old, d)
  <1>1. /\ TypeOK /\ RoomInv
        /\ delivered \in 0..MaxMessages /\ MaxMessages \in Nat
        /\ delivered < MaxMessages
        /\ old \in Seq(Nat)
        /\ Len(old) \in Nat /\ Len(old) <= delivered /\ Len(old) = Kept(delivered)
        /\ CountsFrom(old, delivered - Len(old) + 1)
        /\ d \in 0..MaxMessages /\ d \in Nat /\ delivered' = d
        /\ recent_msgs_' = Recent(new)
    <2>1. RoomInv /\ TypeOK /\ RecentAreLast /\ Len(old) <= delivered
      BY DEF RoomInv
    <2>2. Len(old) = Kept(delivered) /\ CountsFrom(old, delivered - Len(old) + 1)
      BY <2>1 DEF RecentAreLast
    <2>3. /\ delivered \in 0..MaxMessages /\ MaxMessages \in Nat
          /\ old \in Seq(Nat) /\ Len(old) \in Nat
      BY <2>1, ChatAssumption DEF TypeOK
    <2>4. /\ delivered < MaxMessages /\ delivered' = d
          /\ recent_msgs_' = Recent(new)
      BY DEF HandleReadBody
    <2>5. d \in 0..MaxMessages /\ d \in Nat
      BY <2>3, <2>4
    <2> HIDE DEF old, new, d
    <2> QED
      BY <2>1, <2>2, <2>3, <2>4, <2>5
  <1>2. /\ new \in Seq(Nat)
        /\ Len(new) = Len(old) + 1
        /\ CountsFrom(new, delivered - Len(old) + 1)
    <2>1. delivered - Len(old) + 1 \in Int /\ d = delivered - Len(old) + 1 + Len(old)
      BY <1>1
    <2> HIDE DEF old, d
    <2> QED
      BY <1>1, <2>1, CountsAppend
  <1>3. /\ recent_msgs_' \in Seq(Nat)
        /\ Len(recent_msgs_') <= max_recent_msgs
        /\ Len(recent_msgs_') <= delivered'
        /\ Len(recent_msgs_') = Kept(delivered')
        /\ CountsFrom(recent_msgs_', delivered' - Len(recent_msgs_') + 1)
    <2> DEFINE r == Recent(new)
    <2>1. /\ r \in Seq(Nat)
          /\ Len(r) <= max_recent_msgs
          /\ Len(r) <= Len(new)
          /\ Len(r) = Kept(Len(new))
          /\ CountsFrom(r, (delivered - Len(old) + 1) + Len(new) - Len(r))
      <3>1. delivered - Len(old) + 1 \in Int
        BY <1>1
      <3> HIDE DEF new
      <3> QED
        BY <1>2, <3>1, RecentLemma
    <2>2. Len(r) \in Nat
      BY <2>1
    <2>3. /\ (delivered - Len(old) + 1) + (Len(old) + 1) - Len(r) = d - Len(r) + 1
          /\ Len(old) + 1 <= d
      <3> HIDE DEF r
      <3> QED
        BY <1>1, <2>2
    <2>4. Len(r) <= d
      <3> HIDE DEF r, new, old, d
      <3> QED
        BY <1>1, <1>2, <2>1, <2>2, <2>3
    <2>5. Len(r) = Kept(d)
      <3>1. \A l \in Nat : l = Kept(delivered) => Kept(l + 1) = Kept(delivered + 1)
        BY <1>1, ChatAssumption DEF Kept
      <3>2. Kept(Len(old) + 1) = Kept(delivered + 1)
        BY <1>1, <3>1
      <3> QED
        BY <1>2, <2>1, <3>2
    <2> HIDE DEF r, new, old, d
    <2> QED
      BY <1>1, <1>2, <2>1, <2>3, <2>4, <2>5 DEF r
  <1>4. ASSUME NEW p \in participants_
        PROVE  /\ write_msgs_'[p] = Append(write_msgs_[p], d)
               /\ writing'[p]
               /\ write_msgs_'[p] \in Seq(Nat)
               /\ Len(write_msgs_'[p]) = Len(write_msgs_[p]) + 1
               /\ write_msgs_'[p] # <<>>
               /\ CountsFrom(write_msgs_'[p], first[p] + Len(written[p]))
    <2> DEFINE q == write_msgs_[p]
               n == first[p] + Len(written[p])
    <2>1. p \in Sessions
      BY <1>1 DEF TypeOK
    <2>2. SessionInv(p)
      BY <2>1
    <2>3. q \in Seq(Nat) /\ n \in Int /\ CountsFrom(q, n)
      BY <1>1, <2>1, <2>2 DEF TypeOK, SessionInv, StreamFollowsRoom
    <2>4. d = n + Len(q)
      <3>1. first[p] + Len(written[p]) + Len(q) - 1 = delivered
        BY <2>2 DEF SessionInv, StreamFollowsRoom, StreamEnd
      <3>2. first[p] \in Nat /\ Len(written[p]) \in Nat /\ Len(q) \in Nat
        BY <1>1, <2>1 DEF TypeOK
      <3>3. delivered \in Nat
        BY <1>1
      <3> QED
        BY <3>1, <3>2, <3>3, Shift
    <2>5. write_msgs_'[p] = Append(q, d)
      BY <2>1 DEF HandleReadBody, Deliver
    <2>6. writing'[p]
      BY <2>1, <2>2 DEF HandleReadBody, Starts, SessionInv, ParticipantIsServed
    <2> HIDE DEF q, n, d
    <2>7. /\ Append(q, d) \in Seq(Nat)
          /\ Len(Append(q, d)) = Len(q) + 1
          /\ Append(q, d) # <<>>
          /\ CountsFrom(Append(q, d), n)
      BY <1>1, <2>3, <2>4, CountsAppend
    <2> QED
      BY <2>5, <2>6, <2>7 DEF q, n
  <1>5. ASSUME NEW p \in Sessions, p \notin participants_
        PROVE  write_msgs_'[p] = write_msgs_[p] /\ writing'[p] = writing[p]
    BY <1>5 DEF HandleReadBody
  <1>6. RoomInv'
    <2>1. write_msgs_' \in [Sessions -> Seq(Nat)]
      <3>1. \A p \in Sessions : write_msgs_'[p] \in Seq(Nat)
        BY <1>1, <1>4, <1>5 DEF TypeOK
      <3> QED
        BY <3>1 DEF HandleReadBody
    <2>2. writing' \in [Sessions -> BOOLEAN]
      <3>1. \A p \in Sessions : writing'[p] \in BOOLEAN
        BY <1>1, <1>4, <1>5 DEF TypeOK
      <3> QED
        BY <3>1 DEF HandleReadBody
    <2>3. TypeOK'
      BY <1>1, <1>3, <2>1, <2>2 DEF HandleReadBody, TypeOK
    <2> QED
      BY <1>3, <2>3 DEF RoomInv, RecentAreLast, CountsFrom, Kept
  <1>7. ASSUME NEW p \in Sessions
        PROVE  SessionInv(p)'
    <2>1. /\ SessionInv(p)
          /\ first'[p] = first[p] /\ written'[p] = written[p]
          /\ participants_' = participants_
          /\ (reading'[p] # "none") = (reading[p] # "none")
      BY <1>1 DEF HandleReadBody, TypeOK
    <2>2. CASE p \in participants_
      <3>1. first[p] \in Nat /\ Len(written[p]) \in Nat /\ Len(write_msgs_[p]) \in Nat
        BY <1>1 DEF TypeOK
      <3>2. StreamEnd(p)' = delivered'
        <4>1. StreamEnd(p) = delivered
          BY <2>1, <2>2 DEF SessionInv, StreamFollowsRoom
        <4>2. StreamEnd(p)' = first[p] + Len(written[p]) + (Len(write_msgs_[p]) + 1) - 1
          BY <1>4, <2>1, <2>2 DEF StreamEnd
        <4>3. first[p] + Len(written[p]) + (Len(write_msgs_[p]) + 1) - 1
                = (first[p] + Len(written[p]) + Len(write_msgs_[p]) - 1) + 1
          BY <3>1, Shift
        <4>4. first[p] + Len(written[p]) + Len(write_msgs_[p]) - 1 = delivered
          BY <4>1 DEF StreamEnd
        <4>5. delivered' = delivered + 1
          BY <1>1
        <4> QED
          BY <4>2, <4>3, <4>4, <4>5
      <3>3. StreamFollowsRoom(p)'
        BY <1>4, <2>1, <2>2, <3>2
           DEF SessionInv, StreamFollowsRoom, CountsFrom
      <3> QED
        BY <1>4, <2>1, <2>2, <3>3
           DEF SessionInv, ParticipantIsServed, NotStarted, WriteHasMessage
    <2>3. CASE p \notin participants_
      BY <1>5, <2>1, <2>3
         DEF SessionInv, StreamFollowsRoom, StreamEnd, CountsFrom,
             ParticipantIsServed, NotStarted, WriteHasMessage
    <2> QED
      BY <2>2, <2>3
  <1> QED
    BY <1>6, <1>7, InvPartsNext

(* A step that changes nothing keeps the invariant.                        *)
LEMMA InvStutters == Inv /\ UNCHANGED vars => Inv'
  <1> SUFFICES ASSUME Inv, UNCHANGED vars PROVE Inv'
    OBVIOUS
  <1> USE DEF vars, roomVars
  <1>1. RoomInv'
    BY InvParts DEF RoomInv, TypeOK, RecentAreLast, CountsFrom, Kept
  <1>2. ASSUME NEW s \in Sessions
        PROVE  SessionInv(s)'
    BY InvParts, OtherSession
  <1> QED
    BY <1>1, <1>2, InvPartsNext

(* Every step keeps the invariant.                                         *)
LEMMA InvInductive == Inv /\ [Next]_vars => Inv'
  BY InvStutters, StartKeeps, ReadFailsKeeps, HandleReadHeaderKeeps,
     HandleReadBodyKeeps, HandleWriteKeeps, WriteFailsKeeps DEF Next

(* The inductive invariant always holds: types, the recent messages, and   *)
(* what the next two theorems say.                                         *)
THEOREM AlwaysInv == Spec => []Inv
  BY InvInit, InvInductive, PTL DEF Spec

(* Every variable has its type, whatever reads and writes fail.            *)
THEOREM ChatTypeCorrect == Spec => []TypeOK
  <1>1. Inv => TypeOK
    BY DEF Inv
  <1> QED
    BY <1>1, AlwaysInv, PTL

(* The recent messages are the last ones of the room: all of them until    *)
(* the limit is reached, as many as the limit from then on                 *)
(* (chat_room::deliver).                                                   *)
THEOREM RecentStayLast == Spec => []RecentAreLast
  <1>1. Inv => RecentAreLast
    BY InvParts DEF RoomInv
  <1> QED
    BY <1>1, AlwaysInv, PTL

(* Every session writes consecutive messages of the room, and to those in  *)
(* the room all of them up to the last (chat_session::deliver and          *)
(* handle_write, chat_room::join and deliver).                             *)
THEOREM StreamsFollow == Spec => []StreamsFollowRoom
  <1>1. Inv => StreamsFollowRoom
    BY DEF Inv
  <1> QED
    BY <1>1, AlwaysInv, PTL

(* A participant always has a read under way, and a write exactly when it  *)
(* has messages to write.                                                  *)
THEOREM ParticipantsServed == Spec => []ParticipantsAreServed
  <1>1. Inv => ParticipantsAreServed
    BY DEF Inv
  <1> QED
    BY <1>1, AlwaysInv, PTL
=============================================================================
