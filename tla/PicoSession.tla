---------------------------- MODULE PicoSession ----------------------------
(***************************************************************************)
(* The server side, pico/pico_session.h: class pico_session, run by the    *)
(* server's only thread.  It repeats for ever: read one message, queue the *)
(* reply, take the newest reply from the queue, write it.  The reply is    *)
(* the message itself: the call of the request processor is commented out. *)
(***************************************************************************)
EXTENDS PicoWire, ConcurrentVector

VARIABLES
  session,       \* where the server thread is
  announced,     \* the size the header it read last announced
  replyQueue,    \* replies to send
  replying,      \* the reply it popped last
  executions     \* executions[k]: how often call k was processed

sessionVars == <<session, announced, replyQueue, replying, executions>>

SessionStates == {"accepting", "readSize", "readData", "check", "waiting",
                  "sendSize", "sendData"}

SessionInit ==
  /\ session = "accepting"
  /\ announced = 0
  /\ replyQueue = <<>>
  /\ replying = NoMessage
  /\ executions = [k \in Calls |-> 0]

(* The accept handler creates the session and runs it, on its own stack.   *)
Accept ==
  /\ session = "accepting"
  /\ connected
  /\ session' = "readSize"
  /\ UNCHANGED <<announced, replyQueue, replying, executions, wireVars>>

(* What the driver announces is always a positive number: this side's      *)
(* assert and conversion of the size cannot fail.                          *)
SessionReadSize ==
  /\ session = "readSize"
  /\ SizeArrives(toServer)
  /\ announced' = Head(toServer).size
  /\ toServer' = Tail(toServer)
  /\ session' = "readData"
  /\ UNCHANGED <<replyQueue, replying, executions, toClient, connected, crash>>

(* An exception ends start(), and with it the session, whose destructor    *)
(* asserts that it was shut down normally.                                 *)
SessionReadData ==
  /\ session = "readData"
  /\ DataArrives(toServer)
  /\ toServer' = Tail(toServer)
  /\ LET m == Head(toServer).msg
     IN \E result \in ReadOutcomes(m, announced) :
          \/ /\ result = "message"
             /\ executions' = [executions EXCEPT ![m.id] = @ + 1]
             /\ replyQueue' = PushBack(replyQueue, m)
             /\ session' = "check"
             /\ UNCHANGED crash
          \/ /\ result = "exception"
             /\ Crash("destructor")
             /\ UNCHANGED <<executions, replyQueue, session>>
          \/ /\ result = "assert"
             /\ Crash("parse")
             /\ UNCHANGED <<executions, replyQueue, session>>
  /\ UNCHANGED <<announced, replying, toClient, connected>>

(* An empty queue makes the thread wait; the server has no notifier.       *)
TakeReply ==
  /\ session = "check"
  /\ IF replyQueue = <<>>
     THEN /\ session' = "waiting"
          /\ UNCHANGED <<replyQueue, replying>>
     ELSE /\ session' = "sendSize"
          /\ replying' = Peek(replyQueue)
          /\ replyQueue' = PopBack(replyQueue)
  /\ UNCHANGED <<announced, executions, wireVars>>

(* The header is made from the c_str() of a string already destroyed.      *)
SessionSendSize ==
  /\ session = "sendSize"
  /\ \E n \in {HeaderSize(replying)} \cup DanglingSizes :
       toClient' = Append(toClient, SizeFrame(n))
  /\ session' = "sendData"
  /\ UNCHANGED <<announced, replyQueue, replying, executions, toServer,
                 connected, crash>>

SessionSendData ==
  /\ session = "sendData"
  /\ toClient' = Append(toClient, DataFrame(replying))
  /\ session' = "readSize"
  /\ UNCHANGED <<announced, replyQueue, replying, executions, toServer,
                 connected, crash>>

-----------------------------------------------------------------------------
SessionThread ==
  Running /\ (\/ Accept \/ SessionReadSize \/ SessionReadData \/ TakeReply
              \/ SessionSendSize \/ SessionSendData)

SessionTypeOK ==
  /\ session \in SessionStates
  /\ announced \in Announcements \cup {0}
  /\ replyQueue \in Seq(Message)
  /\ replying \in Message \cup {NoMessage}
  /\ executions \in [Calls -> Nat]
=============================================================================
