---------------------------- MODULE PonocoDriver ----------------------------
(***************************************************************************)
(* The client side, pico/pico_client.h: class PonocoDriver.                *)
(*                                                                         *)
(* Three kinds of threads share it.  The callers run insert, update, get   *)
(* and the others, which push a request and then poll for its response.    *)
(* The IO thread connects and then repeats for ever: take the newest       *)
(* request, write it, read the reply, push it to the response queue.  The  *)
(* notifier wakes the IO thread when there is something to write.          *)
(***************************************************************************)
EXTENDS PicoWire, ConcurrentVector

CONSTANTS
  ConnectMayFail,   \* the server may not be listening yet
  CallersMayStall   \* a caller may be descheduled for the whole timeout

ASSUME DriverAssumption ==
  /\ NullRef \notin Calls
  /\ ConnectMayFail \in BOOLEAN
  /\ CallersMayStall \in BOOLEAN

VARIABLES
  io,             \* where the IO thread is
  sending,        \* the request the IO thread popped last
  expected,       \* the size the header it read last announced
  received,       \* the reply it read last
  bufferQueue,    \* requests to send
  responseQueue,  \* ids of the responses received
  phase,          \* phase[c]: where caller c is
  request,        \* request[c]: the message of c's current call
  calls,          \* calls[c]: number of calls c has begun
  stalled,        \* stalled[c]: c lost the timeout between its two clock reads
  removal,        \* removal[c]: position and end remove() has read
  outcome         \* outcome[k]: what the driver answered to call k

ioVars     == <<io, sending, expected, received>>
callerVars == <<phase, request, calls, stalled, removal, outcome>>
driverVars == <<ioVars, bufferQueue, responseQueue, callerVars>>

IoStates == {"connecting", "check", "block", "waiting", "pop", "sendSize",
             "sendData", "readSize", "readData", "push", "ended"}
Phases   == {"idle", "notify", "poll", "found", "erase"}
Outcomes == {"none", "waiting", "answered", "timedOut"}

CurrentCall(c) == <<c, calls[c]>>

DriverInit ==
  /\ io = "connecting"
  /\ sending = NoMessage
  /\ expected = 0
  /\ received = NoMessage
  /\ bufferQueue = <<>>
  /\ responseQueue = <<>>
  /\ phase = [c \in Callers |-> "idle"]
  /\ request = [c \in Callers |-> NoMessage]
  /\ calls = [c \in Callers |-> 0]
  /\ stalled = [c \in Callers |-> FALSE]
  /\ removal = [c \in Callers |-> [pos |-> 0, end |-> 0]]
  /\ outcome = [k \in Calls |-> "none"]

-----------------------------------------------------------------------------
(* The IO thread.                                                          *)

(* start() is the handler of the connect: an error is logged and the       *)
(* thread's io_service runs out of work.                                   *)
Connect ==
  /\ io = "connecting"
  /\ \/ io' = "check" /\ connected' = TRUE
     \/ ConnectMayFail /\ io' = "ended" /\ UNCHANGED connected
  /\ UNCHANGED <<sending, expected, received, bufferQueue, responseQueue,
                 callerVars, toServer, toClient, crash>>

(* The queue is tested without a lock ...                                  *)
CheckQueue ==
  /\ io = "check"
  /\ io' = IF bufferQueue = <<>> THEN "block" ELSE "pop"
  /\ UNCHANGED <<sending, expected, received, bufferQueue, responseQueue,
                 callerVars, wireVars>>

(* ... and what was pushed in between does not keep the thread from        *)
(* waiting.                                                                *)
Block ==
  /\ io = "block"
  /\ io' = "waiting"
  /\ UNCHANGED <<sending, expected, received, bufferQueue, responseQueue,
                 callerVars, wireVars>>

PopRequest ==
  /\ io = "pop"
  /\ sending' = Peek(bufferQueue)
  /\ bufferQueue' = PopBack(bufferQueue)
  /\ io' = "sendSize"
  /\ UNCHANGED <<expected, received, responseQueue, callerVars, wireVars>>

SendSize ==
  /\ io = "sendSize"
  /\ toServer' = Append(toServer, SizeFrame(HeaderSize(sending)))
  /\ io' = "sendData"
  /\ UNCHANGED <<sending, expected, received, bufferQueue, responseQueue,
                 callerVars, toClient, connected, crash>>

(* Mutant of SendData: the loop does not read the reply.                   *)
SendDataOnly ==
  /\ io = "sendData"
  /\ toServer' = Append(toServer, DataFrame(sending))
  /\ io' = "check"
  /\ UNCHANGED <<sending, expected, received, bufferQueue, responseQueue,
                 callerVars, toClient, connected, crash>>

SendData ==
  /\ io = "sendData"
  /\ toServer' = Append(toServer, DataFrame(sending))
  /\ io' = "readSize"
  /\ UNCHANGED <<sending, expected, received, bufferQueue, responseQueue,
                 callerVars, toClient, connected, crash>>

(* The conversion of the announced size throws when it is not a number:    *)
(* start() catches that, raises SIGABRT, whose handler returns, and is     *)
(* over.  A size that is not positive fails an assert.                     *)
ReadSize ==
  /\ io = "readSize"
  /\ SizeArrives(toClient)
  /\ toClient' = Tail(toClient)
  /\ LET n == Head(toClient).size
     IN  \/ /\ n = NotANumber
            /\ io' = "ended"
            /\ UNCHANGED <<expected, crash>>
         \/ /\ n # NotANumber /\ n <= 0
            /\ Crash("size")
            /\ UNCHANGED <<io, expected>>
         \/ /\ n # NotANumber /\ n > 0
            /\ io' = "readData"
            /\ expected' = n
            /\ UNCHANGED crash
  /\ UNCHANGED <<sending, received, bufferQueue, responseQueue, callerVars,
                 toServer, connected>>

ReadData ==
  /\ io = "readData"
  /\ DataArrives(toClient)
  /\ toClient' = Tail(toClient)
  /\ LET m == Head(toClient).msg
     IN \E result \in ReadOutcomes(m, expected) :
          \/ /\ result = "message"
             /\ received' = m
             /\ io' = "push"
             /\ UNCHANGED crash
          \/ /\ result = "exception"
             /\ io' = "ended"
             /\ UNCHANGED <<received, crash>>
          \/ /\ result = "assert"
             /\ Crash("parse")
             /\ UNCHANGED <<received, io>>
  /\ UNCHANGED <<sending, expected, bufferQueue, responseQueue, callerVars,
                 toServer, connected>>

PushResponse ==
  /\ io = "push"
  /\ responseQueue' = PushBack(responseQueue, received.id)
  /\ io' = "check"
  /\ UNCHANGED <<sending, expected, received, bufferQueue, callerVars, wireVars>>

(* The notifier thread, and a wakeup of the condition variable without a   *)
(* cause.                                                                  *)
(* Mutant of WakeIo: the wait is in an "if", not in a loop.                *)
WakeIoUnchecked == io' = IF io = "waiting" THEN "pop" ELSE io

WakeIo == io' = IF io = "waiting" THEN "check" ELSE io

(* Mutant of NotifierService: it looks at the responses only.              *)
NotifierForResponses ==
  /\ io = "waiting"
  /\ responseQueue # <<>>
  /\ WakeIo
  /\ UNCHANGED <<sending, expected, received, bufferQueue, responseQueue,
                 callerVars, wireVars>>

NotifierService ==
  /\ io = "waiting"
  /\ bufferQueue # <<>>
  /\ WakeIo
  /\ UNCHANGED <<sending, expected, received, bufferQueue, responseQueue,
                 callerVars, wireVars>>

SpuriousWakeup ==
  /\ io = "waiting"
  /\ WakeIo
  /\ UNCHANGED <<sending, expected, received, bufferQueue, responseQueue,
                 callerVars, wireVars>>

-----------------------------------------------------------------------------
(* A caller.                                                               *)

(* insert, update, deleteRecord, get, createCollection, deleteCollection   *)
(* differ in the text of their message: a caller builds it and pushes it.  *)
QueueRequest(c, b) ==
  /\ phase[c] = "idle"
  /\ calls[c] < MaxCalls
  /\ LET k == <<c, calls[c] + 1>>
         m == [id |-> k, body |-> b]
     IN  /\ calls' = [calls EXCEPT ![c] = @ + 1]
         /\ request' = [request EXCEPT ![c] = m]
         /\ bufferQueue' = PushBack(bufferQueue, m)
         /\ outcome' = [outcome EXCEPT ![k] = "waiting"]
  /\ phase' = [phase EXCEPT ![c] = "notify"]
  /\ UNCHANGED <<ioVars, responseQueue, stalled, removal, wireVars>>

(* It notifies without the mutex of the condition variable, and begins to  *)
(* wait: both readings of the clock are taken here, once.                  *)
NotifyIo(c) ==
  /\ phase[c] = "notify"
  /\ WakeIo
  /\ \E late \in IF CallersMayStall THEN BOOLEAN ELSE {FALSE} :
       stalled' = [stalled EXCEPT ![c] = late]
  /\ phase' = [phase EXCEPT ![c] = "poll"]
  /\ UNCHANGED <<sending, expected, received, bufferQueue, responseQueue,
                 request, calls, removal, outcome, wireVars>>

(* Mutant of PollHit: the ids are not compared.                            *)
PollHitAny(c) ==
  /\ phase[c] = "poll"
  /\ responseQueue # <<>>
  /\ phase' = [phase EXCEPT ![c] = "found"]
  /\ UNCHANGED <<ioVars, bufferQueue, responseQueue, request, calls, stalled,
                 removal, outcome, wireVars>>

(* One turn of the loop finds the response on top of the queue ...         *)
PollHit(c) ==
  /\ phase[c] = "poll"
  /\ Peek(responseQueue) = request[c].id
  /\ phase' = [phase EXCEPT ![c] = "found"]
  /\ UNCHANGED <<ioVars, bufferQueue, responseQueue, request, calls, stalled,
                 removal, outcome, wireVars>>

(* ... or does not, also when another thread holds the queue's mutex: the  *)
(* elapsed time is the one between the two readings, so the first such     *)
(* turn of a stalled caller ends the call and the others change nothing.   *)
QueueBusyFor(c) ==
  io = "push" \/ \E d \in Callers \ {c} : phase[d] = "poll"

TimeOut(c) ==
  /\ phase[c] = "poll"
  /\ stalled[c]
  /\ Peek(responseQueue) = request[c].id => QueueBusyFor(c)
  /\ phase' = [phase EXCEPT ![c] = "idle"]
  /\ outcome' = [outcome EXCEPT ![request[c].id] = "timedOut"]
  /\ UNCHANGED <<ioVars, bufferQueue, responseQueue, request, calls, stalled,
                 removal, wireVars>>

Answer(c) ==
  /\ phase' = [phase EXCEPT ![c] = "idle"]
  /\ outcome' = [outcome EXCEPT ![request[c].id] = "answered"]

(* responseQueue_.remove(response): no lock is held.  The loop looks for   *)
(* the response behind a position of v.  It can miss it when another       *)
(* caller moves the elements meanwhile, and at(i) throws when i was behind *)
(* the end by then: nothing catches that in the caller's thread.           *)
SearchFrom(c, v, from) ==
  LET at        == {i \in PositionsOf(v, request[c].id) : i > from}
      disturbed == \E d \in Callers \ {c} : phase[d] = "erase"
  IN  \/ /\ at = {} \/ disturbed
         /\ Answer(c)
         /\ UNCHANGED <<removal, crash>>
      \/ /\ disturbed
         /\ Crash("range")
         /\ UNCHANGED <<phase, removal, outcome>>
      \/ \E i \in at :
           /\ phase' = [phase EXCEPT ![c] = "erase"]
           /\ removal' = [removal EXCEPT ![c] = [pos |-> i, end |-> Len(v)]]
           /\ UNCHANGED <<outcome, crash>>

RemoveFind(c) ==
  /\ phase[c] = "found"
  /\ SearchFrom(c, responseQueue, 0)
  /\ UNCHANGED <<ioVars, bufferQueue, responseQueue, request, calls, stalled,
                 toServer, toClient, connected>>

(* The loop goes on behind the position erased.                            *)
RemoveErase(c) ==
  /\ phase[c] = "erase"
  /\ \E len \in LengthsAfterErase(responseQueue, removal[c].end) :
       \/ /\ len >= 0
          /\ responseQueue' = Erased(responseQueue, removal[c].pos, removal[c].end, len)
          /\ SearchFrom(c, responseQueue', removal[c].pos)
       \/ /\ len < 0
          /\ Crash("memory")
          /\ UNCHANGED <<responseQueue, phase, removal, outcome>>
  /\ UNCHANGED <<ioVars, bufferQueue, request, calls, stalled,
                 toServer, toClient, connected>>

-----------------------------------------------------------------------------
IoThread ==
  Running /\ (\/ Connect \/ CheckQueue \/ Block \/ PopRequest \/ SendSize
              \/ SendData \/ ReadSize \/ ReadData \/ PushResponse)

Notifier == Running /\ NotifierService

(* What a caller does once it has begun a call.                            *)
CallerThread(c) ==
  Running /\ (\/ NotifyIo(c) \/ PollHit(c) \/ TimeOut(c)
              \/ RemoveFind(c) \/ RemoveErase(c))

BeginCall(c) == Running /\ \E b \in Bodies : QueueRequest(c, b)

DriverNext ==
  \/ IoThread
  \/ Notifier
  \/ Running /\ SpuriousWakeup
  \/ \E c \in Callers : BeginCall(c) \/ CallerThread(c)

DriverTypeOK ==
  /\ io \in IoStates
  /\ sending \in Message \cup {NoMessage}
  /\ expected \in Announcements \cup {0}
  /\ received \in Message \cup {NoMessage}
  /\ bufferQueue \in Seq(Message)
  /\ responseQueue \in Seq(Calls \cup {NullRef})
  /\ phase \in [Callers -> Phases]
  /\ request \in [Callers -> Message \cup {NoMessage}]
  /\ calls \in [Callers -> 0..MaxCalls]
  /\ stalled \in [Callers -> BOOLEAN]
  /\ removal \in [Callers -> [pos : Nat, end : Nat]]
  /\ outcome \in [Calls -> Outcomes]
=============================================================================
