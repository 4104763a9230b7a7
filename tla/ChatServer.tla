----------------------------- MODULE ChatServer -----------------------------
(***************************************************************************)
(* chat_server.h: a room that delivers each message to all participants,   *)
(* and to a new one the most recent messages; sessions that read messages  *)
(* from their socket and write theirs to it, one asynchronous write at a   *)
(* time.  One thread runs the io_service: each handler is one step.        *)
(*                                                                         *)
(* A message is the rank of its delivery in the room.  An asynchronous     *)
(* operation that is under way ends, at any later time, with or without an *)
(* error.                                                                  *)
(***************************************************************************)
EXTENDS Integers, Sequences

CONSTANTS
  Sessions,         \* connections the acceptor accepts
  max_recent_msgs,  \* 100 in the code
  MaxMessages       \* bound: messages the room delivers

ASSUME ChatAssumption ==
  /\ max_recent_msgs \in Nat
  /\ MaxMessages \in Nat

VARIABLES
  delivered,      \* number of messages the room has delivered
  participants_,
  recent_msgs_,
  reading,        \* reading[s]: the read under way, "none" before and after
  write_msgs_,    \* write_msgs_[s]: messages to write, the first being written
  writing,        \* writing[s]: an async_write is under way
  written,        \* written[s]: the messages whose write has ended well
  first           \* first[s]: the first message delivered to s, 0 before start

roomVars == <<delivered, participants_, recent_msgs_>>
vars == <<roomVars, reading, write_msgs_, writing, written, first>>

Init ==
  /\ delivered = 0
  /\ participants_ = {}
  /\ recent_msgs_ = <<>>
  /\ reading = [s \in Sessions |-> "none"]
  /\ write_msgs_ = [s \in Sessions |-> <<>>]
  /\ writing = [s \in Sessions |-> FALSE]
  /\ written = [s \in Sessions |-> <<>>]
  /\ first = [s \in Sessions |-> 0]

-----------------------------------------------------------------------------
(* Mutant of Recent: the newest message is dropped.                        *)
RecentOldest(msgs) == IF Len(msgs) > max_recent_msgs
                      THEN SubSeq(msgs, 1, max_recent_msgs) ELSE msgs

(* The room keeps the last of its messages.                                *)
Recent(msgs) ==
  IF Len(msgs) > max_recent_msgs
  THEN SubSeq(msgs, Len(msgs) - max_recent_msgs + 1, Len(msgs))
  ELSE msgs

Leave(s) == participants_' = participants_ \ {s}

(* The recent messages are delivered to the participant that joins.        *)
Join(s) ==
  /\ participants_' = participants_ \cup {s}
  /\ write_msgs_' = [write_msgs_ EXCEPT ![s] = recent_msgs_]
  /\ writing' = [writing EXCEPT ![s] = recent_msgs_ # <<>>]
  /\ first' = [first EXCEPT ![s] = delivered - Len(recent_msgs_) + 1]

Start(s) ==
  /\ Join(s)
  /\ reading' = [reading EXCEPT ![s] = "header"]
  /\ UNCHANGED <<delivered, recent_msgs_, written>>

(* An accept that fails only starts another.                               *)
HandleAccept(s) == first[s] = 0 /\ Start(s)

(* Mutant of ReadFails: the session does not leave the room.               *)
ReadFailsStays(s) ==
  /\ reading[s] # "none"
  /\ reading' = [reading EXCEPT ![s] = "none"]
  /\ UNCHANGED <<roomVars, write_msgs_, writing, written, first>>

(* An error, or a header that announces more than max_body_length.         *)
ReadFails(s) ==
  /\ reading[s] # "none"
  /\ Leave(s)
  /\ reading' = [reading EXCEPT ![s] = "none"]
  /\ UNCHANGED <<delivered, recent_msgs_, write_msgs_, writing, written, first>>

HandleReadHeader(s) ==
  /\ reading[s] = "header"
  /\ reading' = [reading EXCEPT ![s] = "body"]
  /\ UNCHANGED <<roomVars, write_msgs_, writing, written, first>>

(* deliver of a session: a write is started if none is under way, which is *)
(* what a queue that is not empty means to it.                             *)
Deliver(s, m) == Append(write_msgs_[s], m)
Starts(s)     == writing[s] \/ write_msgs_[s] = <<>>

(* The message is delivered to all participants, the sender too, if it has *)
(* not left.                                                               *)
HandleReadBody(s) ==
  /\ reading[s] = "body"
  /\ delivered < MaxMessages
  /\ delivered' = delivered + 1
  /\ recent_msgs_' = Recent(Append(recent_msgs_, delivered + 1))
  /\ write_msgs_' = [p \in Sessions |-> IF p \in participants_
                                        THEN Deliver(p, delivered + 1)
                                        ELSE write_msgs_[p]]
  /\ writing' = [p \in Sessions |-> IF p \in participants_
                                    THEN Starts(p) ELSE writing[p]]
  /\ reading' = [reading EXCEPT ![s] = "header"]
  /\ UNCHANGED <<participants_, written, first>>

(* Mutant of HandleWrite: the next message is not written.                 *)
HandleWriteOnce(s) ==
  /\ writing[s]
  /\ written' = [written EXCEPT ![s] = Append(@, Head(write_msgs_[s]))]
  /\ write_msgs_' = [write_msgs_ EXCEPT ![s] = Tail(@)]
  /\ writing' = [writing EXCEPT ![s] = FALSE]
  /\ UNCHANGED <<roomVars, reading, first>>

HandleWrite(s) ==
  /\ writing[s]
  /\ written' = [written EXCEPT ![s] = Append(@, Head(write_msgs_[s]))]
  /\ write_msgs_' = [write_msgs_ EXCEPT ![s] = Tail(@)]
  /\ writing' = [writing EXCEPT ![s] = Tail(write_msgs_[s]) # <<>>]
  /\ UNCHANGED <<roomVars, reading, first>>

(* Mutant of WriteFails: an error is treated like a success.               *)
WriteErrorIgnored(s) ==
  /\ writing[s]
  /\ write_msgs_' = [write_msgs_ EXCEPT ![s] = Tail(@)]
  /\ writing' = [writing EXCEPT ![s] = Tail(write_msgs_[s]) # <<>>]
  /\ UNCHANGED <<roomVars, reading, written, first>>

(* The session leaves the room but goes on reading: what its client still  *)
(* sends is delivered to the others.                                       *)
WriteFails(s) ==
  /\ writing[s]
  /\ Leave(s)
  /\ writing' = [writing EXCEPT ![s] = FALSE]
  /\ UNCHANGED <<delivered, recent_msgs_, reading, write_msgs_, written, first>>

-----------------------------------------------------------------------------
Next ==
  \E s \in Sessions :
    \/ HandleAccept(s)
    \/ HandleReadHeader(s) \/ HandleReadBody(s) \/ ReadFails(s)
    \/ HandleWrite(s) \/ WriteFails(s)

Spec == Init /\ [][Next]_vars

(* A client that is connected takes what is written to it.                 *)
FairSpec ==
  Spec /\ \A s \in Sessions : WF_vars(HandleWrite(s) \/ WriteFails(s))

-----------------------------------------------------------------------------
TypeOK ==
  /\ delivered \in 0..MaxMessages
  /\ participants_ \subseteq Sessions
  /\ recent_msgs_ \in Seq(Nat) /\ Len(recent_msgs_) <= max_recent_msgs
  /\ reading \in [Sessions -> {"none", "header", "body"}]
  /\ write_msgs_ \in [Sessions -> Seq(Nat)]
  /\ writing \in [Sessions -> BOOLEAN]
  /\ written \in [Sessions -> Seq(Nat)]
  /\ first \in [Sessions -> 0..(MaxMessages + 1)]

(* Consecutive messages from n on.                                         *)
CountsFrom(msgs, n) == \A i \in 1..Len(msgs) : msgs[i] = n + i - 1

(* What the room keeps for those who join is the last messages it has      *)
(* delivered: all of them while they are few, then as many as its limit.   *)
Kept(n) == IF n <= max_recent_msgs THEN n ELSE max_recent_msgs

RecentAreLast ==
  /\ Len(recent_msgs_) = Kept(delivered)
  /\ CountsFrom(recent_msgs_, delivered - Len(recent_msgs_) + 1)

(* What a session writes, and has still to write, is an interval of the    *)
(* messages of the room, in their order: no message comes twice, none is   *)
(* left out where the recent messages end and the new ones begin, whatever *)
(* is delivered while earlier writes are under way.  For a participant it  *)
(* reaches up to the room's last message.                                  *)
StreamEnd(s) == first[s] + Len(written[s]) + Len(write_msgs_[s]) - 1

StreamFollowsRoom(s) ==
  /\ CountsFrom(written[s], first[s])
  /\ CountsFrom(write_msgs_[s], first[s] + Len(written[s]))
  /\ s \in participants_ => StreamEnd(s) = delivered

StreamsFollowRoom == \A s \in Sessions : StreamFollowsRoom(s)

(* A participant has a read under way, and a write exactly when it has     *)
(* messages to write: the room holds no session that nothing will ever     *)
(* wake, and two writes never mix on one socket.                           *)
ParticipantIsServed(s) ==
  s \in participants_ =>
    reading[s] # "none" /\ (writing[s] <=> write_msgs_[s] # <<>>)

ParticipantsAreServed == \A s \in Sessions : ParticipantIsServed(s)

(* A message delivered to a participant reaches its client, unless a write *)
(* to it fails.                                                            *)
MessagesArrive ==
  \A s \in Sessions : \A m \in 1..MaxMessages :
    (s \in participants_ /\ first[s] <= m /\ delivered = m)
      ~> (\/ written[s] # <<>> /\ written[s][Len(written[s])] >= m
          \/ s \notin participants_ /\ write_msgs_[s] # <<>> /\ ~writing[s])
=============================================================================
