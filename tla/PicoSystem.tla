----------------------------- MODULE PicoSystem -----------------------------
(***************************************************************************)
(* The program main() starts: the server thread, the driver's IO thread    *)
(* and the callers, joined by one socket and in one process.               *)
(***************************************************************************)
EXTENDS PonocoDriver, PicoSession

vars == <<driverVars, sessionVars, wireVars>>

Init == WireInit /\ DriverInit /\ SessionInit

ServerStep == SessionThread /\ UNCHANGED driverVars
DriverStep == DriverNext /\ UNCHANGED sessionVars

Next == ServerStep \/ DriverStep

Spec == Init /\ [][Next]_vars

(* Every thread runs again and again; nobody has to begin a call.          *)
Fairness ==
  /\ WF_vars(ServerStep)
  /\ WF_vars(IoThread /\ UNCHANGED sessionVars)
  /\ WF_vars(Notifier /\ UNCHANGED sessionVars)
  /\ \A c \in Callers : WF_vars(CallerThread(c) /\ UNCHANGED sessionVars)

FairSpec == Spec /\ Fairness

-----------------------------------------------------------------------------
(* TypeOK: every variable has its type, and a pointer that is about to be  *)
(* dereferenced is set.  So the driver never pops an empty queue, though   *)
(* it tests and pops it in two steps and may be woken for nothing.         *)
PointersSet ==
  /\ io \in {"sendSize", "sendData", "readSize", "readData", "push"} => sending \in Message
  /\ io = "push" => received \in Message
  /\ io = "pop" => bufferQueue # <<>>
  /\ session \in {"sendSize", "sendData"} => replying \in Message
  /\ \A c \in Callers :
       phase[c] # "idle" => request[c] \in Message /\ request[c].id = CurrentCall(c)

TypeOK == WireTypeOK /\ DriverTypeOK /\ SessionTypeOK /\ PointersSet

(***************************************************************************)
(* The two sides keep step.                                                *)
(***************************************************************************)

(* Nothing is under way between the driver and the session: no frame is in *)
(* either direction and the session is about to read the next header.      *)
Quiet ==
  /\ toServer = <<>>
  /\ toClient = <<>>
  /\ session \in {"accepting", "readSize"}
  /\ replyQueue = <<>>

(* The driver has begun to write a request.                                *)
RequestBegun ==
  /\ toClient = <<>>
  /\ replyQueue = <<>>
  /\ \/ toServer = <<SizeFrame(HeaderSize(sending))>> /\ session \in {"accepting", "readSize"}
     \/ toServer = <<>> /\ session = "readData"

(* The request, or its reply, is on its way, in the only order possible.   *)
RequestUnderWay ==
  /\ toClient = <<>>
  /\ replyQueue = <<>>
  /\ \/ /\ toServer = <<SizeFrame(HeaderSize(sending)), DataFrame(sending)>>
        /\ session \in {"accepting", "readSize"}
     \/ toServer = <<DataFrame(sending)>> /\ session = "readData"

ReplyPrepared ==
  /\ toServer = <<>>
  /\ toClient = <<>>
  /\ \/ session = "check" /\ replyQueue = <<sending>>
     \/ session = "sendSize" /\ replyQueue = <<>> /\ replying = sending

ReplyBegun ==
  /\ toServer = <<>>
  /\ replyQueue = <<>>
  /\ \E n \in Announcements :
       \/ toClient = <<SizeFrame(n)>> /\ session = "sendData" /\ replying = sending
       \/ toClient = <<SizeFrame(n), DataFrame(sending)>> /\ session = "readSize"

ReplyHalfRead ==
  /\ toServer = <<>>
  /\ replyQueue = <<>>
  /\ \/ toClient = <<>> /\ session = "sendData" /\ replying = sending
     \/ toClient = <<DataFrame(sending)>> /\ session = "readSize"

(* After an exception the IO thread is gone; the session does not notice.  *)
ReplyAbandoned ==
  /\ toServer = <<>>
  /\ replyQueue = <<>>
  /\ session \in {"accepting", "readSize", "sendData"}

(* LockStep: while the process runs, the driver and the session have at    *)
(* most one request between them, the one the driver popped last, and each *)
(* reads what the other has just written.  The code relies on it: neither  *)
(* side checks what kind of data it reads, and a session that finds its    *)
(* queue empty would wait for ever.                                        *)
LockStep ==
  Running =>
    CASE io \in {"connecting", "check", "block", "waiting", "pop", "sendSize"} -> Quiet
      [] io = "sendData" -> RequestBegun
      [] io = "readSize" -> RequestUnderWay \/ ReplyPrepared \/ ReplyBegun
      [] io = "readData" -> ReplyHalfRead
      [] io = "push"     -> Quiet /\ received = sending
      [] io = "ended"    -> ReplyAbandoned

(* SessionNeverWaits: the server thread is the only one that fills and     *)
(* empties its queue, and nothing would wake it: writeOneBuffer must never *)
(* find the queue empty.                                                   *)
SessionNeverWaits == session # "waiting"

(***************************************************************************)
(* What becomes of a call.                                                 *)
(***************************************************************************)

(* AtMostOnce: no call is processed twice, whatever was timed out or       *)
(* overtaken: the server does not recognise a request it has seen.         *)
AtMostOnce == \A k \in Calls : executions[k] <= 1

(* NoAnswerLost: the request or the response of a call that waits is in    *)
(* exactly the hands it should be in: queued, carried by the IO thread, or *)
(* among the responses.  With two callers it fails: remove() takes no      *)
(* lock, and what it moves can overwrite the response that the IO thread   *)
(* pushes for the other caller meanwhile.                                  *)
Waits(c) == phase[c] \in {"notify", "poll", "found"}

Carried(k) ==
  /\ io \in {"sendSize", "sendData", "readSize", "readData", "push"}
  /\ sending.id = k

NoAnswerLost ==
  Running /\ io # "ended" =>
    \A c \in Callers : Waits(c) =>
      \/ \E i \in 1..Len(bufferQueue) : bufferQueue[i].id = CurrentCall(c)
      \/ Carried(CurrentCall(c))
      \/ \E i \in 1..Len(responseQueue) : responseQueue[i] = CurrentCall(c)

(* The driver and the server together keep what RequestResponse promises.  *)
Abstract == INSTANCE RequestResponse WITH
  Callers <- Callers, MaxCalls <- MaxCalls,
  outcome <- outcome, executions <- executions

Promise == Abstract!Spec

(* OnlyWholeTextsExecuted: the server never processes a call whose text it *)
(* did not receive whole, or took for a header.                            *)
OnlyWholeTextsExecuted ==
  \A c \in Callers :
    phase[c] # "idle" /\ executions[CurrentCall(c)] > 0 =>
      /\ SizeOf[request[c].body] < SizeLimit
      /\ request[c].body \notin Marked

(* CrashCauses: the whole process, callers and server, dies only by the    *)
(* request under way: a text with "####" in it or one too long for the     *)
(* header; by a header from freed memory; or by two callers that remove    *)
(* responses at once.                                                      *)
CrashCauses ==
  /\ crash = "destructor" => sending.body \in Marked
  /\ crash = "parse" => \/ session = "readData" /\ SizeOf[sending.body] >= SizeLimit
                        \/ io = "readData" /\ expected # HeaderSize(sending)
  /\ crash = "size" => io = "readSize" /\ DanglingSizes # {}
  /\ crash \in {"memory", "range"} => \E c, d \in Callers : c # d

(***************************************************************************)
(* Progress.                                                               *)
(***************************************************************************)

(* The process has ended, or its IO thread has: what can be sent to it is  *)
(* not answered any more.                                                  *)
Unserved == ~Running \/ io = "ended"

(* RequestsAreProcessed: a request that was queued is processed, although  *)
(* its caller's notification may come before the IO thread waits and be    *)
(* lost, the caller may have given up and newer requests are sent first.   *)
RequestsAreProcessed ==
  \A k \in Calls : outcome[k] # "none" ~> executions[k] = 1 \/ Unserved

(* CallsReturn: as long as no call was timed out, every call is answered:  *)
(* a caller then polls for the answer on top of the stack, where nothing   *)
(* hides it.                                                               *)
CallsReturn ==
  \A k \in Calls :
    outcome[k] = "waiting" ~>
      \/ outcome[k] = "answered"
      \/ \E j \in Calls : outcome[j] = "timedOut"
      \/ Unserved

(* EveryCallReturns: a call ends, with an answer or with a timeout.        *)
EveryCallReturns ==
  \A k \in Calls : outcome[k] = "waiting" ~> outcome[k] \in {"answered", "timedOut"}
=============================================================================
