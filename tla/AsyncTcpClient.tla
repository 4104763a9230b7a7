--------------------------- MODULE AsyncTcpClient ---------------------------
(***************************************************************************)
(* AsyncTcpClient.h: a client whose actors - connecting, reading,          *)
(* heartbeats, the deadline - are chains of asynchronous operations and    *)
(* their handlers.  One thread runs the io_service: each handler is one    *)
(* step, and the handlers of completed operations run in any order.        *)
(*                                                                         *)
(* op[a] is the operation of actor a: "pending" until it completes, "ok"   *)
(* or "failed" while its handler has yet to run, "twice" if a second one   *)
(* was begun before that.  Of time the model keeps only whether the expiry *)
(* of deadline_ is ahead, has passed, or is infinite ("never").            *)
(***************************************************************************)
EXTENDS Naturals

CONSTANTS
  NumEndpoints,  \* endpoints the resolver returned
  MaxLines       \* bound: whole messages that one read brings

ASSUME ClientAssumption ==
  /\ NumEndpoints \in Nat \ {0}
  /\ MaxLines \in Nat \ {0}

VARIABLES
  stopped_,
  is_open,        \* the socket is open
  endpoint_iter,  \* the endpoint tried last, 0 before start
  deadline_,      \* the expiry of the timer
  op,
  input_buffer_   \* whole messages in the buffer

vars == <<stopped_, is_open, endpoint_iter, deadline_, op, input_buffer_>>

SocketActors == {"connect", "read", "write"}
Actors       == SocketActors \cup {"heartbeat", "deadline"}

Init ==
  /\ stopped_ = FALSE
  /\ is_open = FALSE
  /\ endpoint_iter = 0
  /\ deadline_ = "never"
  /\ op = [a \in Actors |-> "none"]
  /\ input_buffer_ = 0

-----------------------------------------------------------------------------
Completed(a) == op[a] \in {"ok", "failed"}

(* The operations when the handler of a has been taken from the queue;     *)
(* when an operation of a has been begun; when the pending ones of A have  *)
(* been cancelled, so that their handlers will run.                        *)
Handled(a) == [op EXCEPT ![a] = "none"]
Begun(a, status, ops) ==
  [ops EXCEPT ![a] = IF @ = "none" THEN status ELSE "twice"]
Cancelled(A, ops) ==
  [a \in Actors |-> IF a \in A /\ ops[a] = "pending" THEN "failed" ELSE ops[a]]

(* Mutant of Stop: the wait of the deadline actor is not cancelled.        *)
StopSocket(ops) ==
  /\ stopped_' = TRUE
  /\ is_open' = FALSE
  /\ op' = Cancelled(Actors \ {"deadline"}, ops)
  /\ UNCHANGED deadline_

Stop(ops) ==
  /\ stopped_' = TRUE
  /\ is_open' = FALSE
  /\ op' = Cancelled(Actors, ops)
  /\ UNCHANGED deadline_

(* Mutant of StartConnect: the end of the endpoints is not noticed.        *)
StartConnectAnyway(i, ops) ==
  /\ endpoint_iter' = i
  /\ is_open' = TRUE
  /\ deadline_' = "ahead"
  /\ op' = Begun("connect", "pending", Cancelled({"deadline"}, ops))
  /\ UNCHANGED stopped_

(* Setting the deadline cancels the wait of its actor; async_connect opens *)
(* the socket.                                                             *)
StartConnect(i, ops) ==
  /\ endpoint_iter' = i
  /\ IF i <= NumEndpoints
     THEN /\ is_open' = TRUE
          /\ deadline_' = "ahead"
          /\ op' = Begun("connect", "pending", Cancelled({"deadline"}, ops))
          /\ UNCHANGED stopped_
     ELSE Stop(ops)

(* A read completes at once with a message that the buffer holds, and with *)
(* an error when there is none and the socket is closed.                   *)
ReadStatus(lines) == IF lines > 0 THEN "ok"
                     ELSE IF is_open THEN "pending" ELSE "failed"

StartedRead(lines, ops) ==
  Begun("read", ReadStatus(lines), Cancelled({"deadline"}, ops))

StartedWrite(ops) ==
  Begun("write", IF is_open THEN "pending" ELSE "failed", ops)

-----------------------------------------------------------------------------
Start ==
  /\ endpoint_iter = 0
  /\ endpoint_iter' = 1
  /\ is_open' = TRUE
  /\ deadline_' = "ahead"
  /\ op' = Begun("deadline", "pending", Begun("connect", "pending", op))
  /\ UNCHANGED <<stopped_, input_buffer_>>

UserStops ==
  /\ endpoint_iter # 0
  /\ Stop(op)
  /\ UNCHANGED <<endpoint_iter, input_buffer_>>

(* Every handler returns at once when the client is stopped.               *)
Returns(a) ==
  /\ stopped_
  /\ op' = Handled(a)
  /\ UNCHANGED <<stopped_, is_open, endpoint_iter, deadline_, input_buffer_>>

(* Mutant of ConnectFailed: the same endpoint is tried again.              *)
ConnectFailedAgain ==
  /\ ~is_open \/ op["connect"] = "failed"
  /\ StartConnect(endpoint_iter, Handled("connect"))
  /\ UNCHANGED input_buffer_

(* A closed socket means that the deadline actor has run first.            *)
ConnectFailed ==
  /\ ~is_open \/ op["connect"] = "failed"
  /\ StartConnect(endpoint_iter + 1, Handled("connect"))
  /\ UNCHANGED input_buffer_

ConnectSucceeded ==
  /\ is_open /\ op["connect"] = "ok"
  /\ deadline_' = "ahead"
  /\ op' = StartedWrite(StartedRead(input_buffer_, Handled("connect")))
  /\ UNCHANGED <<stopped_, is_open, endpoint_iter, input_buffer_>>

HandleConnect ==
  /\ Completed("connect")
  /\ IF stopped_ THEN Returns("connect") ELSE ConnectFailed \/ ConnectSucceeded

MessageRead ==
  /\ op["read"] = "ok"
  /\ deadline_' = "ahead"
  /\ input_buffer_' = input_buffer_ - 1
  /\ op' = StartedRead(input_buffer_ - 1, Handled("read"))
  /\ UNCHANGED <<stopped_, is_open, endpoint_iter>>

ReadFailed ==
  /\ op["read"] = "failed"
  /\ Stop(Handled("read"))
  /\ UNCHANGED <<endpoint_iter, input_buffer_>>

HandleRead ==
  /\ Completed("read")
  /\ IF stopped_ THEN Returns("read") ELSE MessageRead \/ ReadFailed

HeartbeatSent ==
  /\ op["write"] = "ok"
  /\ op' = Begun("heartbeat", "pending", Handled("write"))
  /\ UNCHANGED <<stopped_, is_open, endpoint_iter, deadline_, input_buffer_>>

WriteFailed ==
  /\ op["write"] = "failed"
  /\ Stop(Handled("write"))
  /\ UNCHANGED <<endpoint_iter, input_buffer_>>

HandleWrite ==
  /\ Completed("write")
  /\ IF stopped_ THEN Returns("write") ELSE HeartbeatSent \/ WriteFailed

(* The handler of the heartbeat timer is start_write.                      *)
SendHeartbeat ==
  /\ op' = StartedWrite(Handled("heartbeat"))
  /\ UNCHANGED <<stopped_, is_open, endpoint_iter, deadline_, input_buffer_>>

HandleHeartbeat ==
  /\ Completed("heartbeat")
  /\ IF stopped_ THEN Returns("heartbeat") ELSE SendHeartbeat

DeadlineAhead ==
  /\ deadline_ # "passed"
  /\ op' = Begun("deadline", "pending", Handled("deadline"))
  /\ UNCHANGED <<stopped_, is_open, endpoint_iter, deadline_, input_buffer_>>

(* Mutants of DeadlinePassed: the actor does not wait again; the socket    *)
(* stays open.                                                             *)
DeadlinePassedOnce ==
  /\ deadline_ = "passed"
  /\ is_open' = FALSE
  /\ deadline_' = "never"
  /\ op' = Cancelled(SocketActors, Handled("deadline"))
  /\ UNCHANGED <<stopped_, endpoint_iter, input_buffer_>>

DeadlinePassedOpen ==
  /\ deadline_ = "passed"
  /\ deadline_' = "never"
  /\ op' = Begun("deadline", "pending", Handled("deadline"))
  /\ UNCHANGED <<stopped_, is_open, endpoint_iter, input_buffer_>>

DeadlinePassed ==
  /\ deadline_ = "passed"
  /\ is_open' = FALSE
  /\ deadline_' = "never"
  /\ op' = Begun("deadline", "pending",
                 Cancelled(SocketActors, Handled("deadline")))
  /\ UNCHANGED <<stopped_, endpoint_iter, input_buffer_>>

CheckDeadline ==
  /\ Completed("deadline")
  /\ IF stopped_ THEN Returns("deadline") ELSE DeadlineAhead \/ DeadlinePassed

-----------------------------------------------------------------------------
(* The network and the clock.                                              *)
Completes(a, status) ==
  /\ op[a] = "pending"
  /\ op' = [op EXCEPT ![a] = status]
  /\ UNCHANGED <<stopped_, is_open, endpoint_iter, deadline_>>

Connected    == Completes("connect", "ok") /\ UNCHANGED input_buffer_
Written      == Completes("write", "ok") /\ UNCHANGED input_buffer_
HeartbeatDue == Completes("heartbeat", "ok") /\ UNCHANGED input_buffer_

LinesArrive ==
  /\ Completes("read", "ok")
  /\ input_buffer_' \in 1..MaxLines

NetworkFails ==
  /\ \E a \in SocketActors : Completes(a, "failed")
  /\ UNCHANGED input_buffer_

DeadlinePasses ==
  /\ deadline_ = "ahead"
  /\ deadline_' = "passed"
  /\ UNCHANGED <<stopped_, is_open, endpoint_iter, op, input_buffer_>>

DeadlineWakes ==
  /\ deadline_ = "passed"
  /\ Completes("deadline", "ok")
  /\ UNCHANGED input_buffer_

-----------------------------------------------------------------------------
Handlers == HandleConnect \/ HandleRead \/ HandleWrite \/ HandleHeartbeat
            \/ CheckDeadline

Network == Connected \/ Written \/ LinesArrive \/ NetworkFails
Clock   == HeartbeatDue \/ DeadlinePasses \/ DeadlineWakes

Next == Start \/ UserStops \/ Handlers \/ Network \/ Clock

Spec == Init /\ [][Next]_vars

(* The operation that the deadline was set for.                            *)
Awaited == {"connect", "read"}

(* The io_service runs every handler that is ready, and time passes while  *)
(* an operation is awaited.  Nothing is assumed of the network.            *)
FairSpec ==
  /\ Spec
  /\ WF_vars(HandleConnect) /\ WF_vars(HandleRead) /\ WF_vars(HandleWrite)
  /\ WF_vars(HandleHeartbeat) /\ WF_vars(CheckDeadline)
  /\ WF_vars(DeadlineWakes)
  /\ WF_vars(DeadlinePasses /\ \E a \in Awaited : op[a] = "pending")

-----------------------------------------------------------------------------
(* The state's types; the endpoints are tried up to the last and no        *)
(* further.                                                                *)
TypeOK ==
  /\ stopped_ \in BOOLEAN
  /\ is_open \in BOOLEAN
  /\ endpoint_iter \in 0..(NumEndpoints + 1)
  /\ deadline_ \in {"never", "ahead", "passed"}
  /\ op \in [Actors -> {"none", "pending", "ok", "failed", "twice"}]
  /\ input_buffer_ \in 0..MaxLines

Runs(a) == op[a] # "none"

(* The actors of the diagram in the header of the file: until the client   *)
(* is stopped the deadline actor lives, and either the connect actor or    *)
(* both of its successors, of which the heartbeat is writing or waiting.   *)
(* None is ever doubled, whichever handlers cross.                         *)
ActorsLive ==
  /\ \A a \in Actors : op[a] # "twice"
  /\ endpoint_iter # 0 /\ ~stopped_ =>
       /\ Runs("deadline")
       /\ Runs("connect") <=> ~Runs("read")
       /\ Runs("connect") => ~Runs("write") /\ ~Runs("heartbeat")
       /\ Runs("read") => (Runs("write") <=> ~Runs("heartbeat"))

(* What connects or reads does so on an open socket and under a deadline:  *)
(* no message that arrives as the deadline passes leaves the client        *)
(* waiting for the network with the deadline at infinity.                  *)
NothingAwaitedForEver ==
  \A a \in Awaited : op[a] = "pending" => is_open /\ deadline_ # "never"

(* An operation with a deadline comes to an end, though the other side is  *)
(* silent; and of the finitely many endpoints one is reached or the client *)
(* stops.                                                                  *)
AwaitedEnds ==
  /\ \A a \in Awaited : op[a] = "pending" ~> op[a] # "pending"
  /\ Runs("connect") ~> ~Runs("connect")

(* Once stopped, the client leaves the io_service nothing to wait for.     *)
StopCompletes == stopped_ ~> \A a \in Actors : ~Runs(a)
=============================================================================
