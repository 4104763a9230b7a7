------------------------ MODULE AsyncTcpClientProofs ------------------------
(***************************************************************************)
(* Safety of AsyncTcpClient, for any number of endpoints and of messages   *)
(* that a read can bring.                                                  *)
(***************************************************************************)
EXTENDS AsyncTcpClient, TLAPS

(* What the properties need beside themselves: nothing runs before start;  *)
(* the connect actor runs for an endpoint that exists; a read that is done *)
(* well has left a message in the buffer.                                  *)
Idle         == \A a \in Actors : ~Runs(a)
NotStarted   == endpoint_iter = 0 => ~stopped_ /\ Idle
Trying       == ~stopped_ /\ Runs("connect") => endpoint_iter <= NumEndpoints
MessageHeld  == op["read"] = "ok" => input_buffer_ > 0

Inv == /\ TypeOK
       /\ ActorsLive
       /\ NothingAwaitedForEver
       /\ NotStarted
       /\ Trying
       /\ MessageHeld

-----------------------------------------------------------------------------
(* The constructed client satisfies Inv.                                   *)
THEOREM InitInv == Init => Inv
<1> SUFFICES ASSUME Init PROVE Inv
  OBVIOUS
<1>1. TypeOK
  <2>1. endpoint_iter \in 0..(NumEndpoints + 1) /\ input_buffer_ \in 0..MaxLines
    BY ClientAssumption DEF Init
  <2>2. op \in [Actors -> {"none", "pending", "ok", "failed", "twice"}]
    BY DEF Init
  <2> QED
    BY <2>1, <2>2 DEF Init, TypeOK
<1>2. Idle /\ \A a \in Actors : op[a] = "none"
  BY DEF Init, Idle, Runs
<1> QED
  BY <1>1, <1>2 DEF Init, Inv, ActorsLive, NothingAwaitedForEver, NotStarted,
     Trying, MessageHeld, Idle, Runs, Actors, SocketActors, Awaited

(* What stop() leaves: nothing pending, so that only handlers remain.       *)
LEMMA StopKeeps ==
  ASSUME Inv,
         NEW ops \in [Actors -> {"none", "pending", "ok", "failed"}],
         ops["read"] = "ok" => input_buffer_ > 0,
         Stop(ops),
         endpoint_iter' \in 1..(NumEndpoints + 1),
         input_buffer_' = input_buffer_
  PROVE  Inv'
<1>1. /\ op' \in [Actors -> {"none", "ok", "failed"}]
      /\ op'["read"] = "ok" => input_buffer_' > 0
  BY DEF Stop, Cancelled, Actors, SocketActors
<1>2. stopped_' = TRUE /\ is_open' = FALSE /\ deadline_' = deadline_
  BY DEF Stop
<1>3. endpoint_iter' \in 0..(NumEndpoints + 1) /\ endpoint_iter' # 0
  BY ClientAssumption
<1> QED
  BY <1>1, <1>2, <1>3 DEF Inv, TypeOK, ActorsLive, NothingAwaitedForEver,
     NotStarted, Trying, MessageHeld, Runs, Awaited, Actors, SocketActors

(* A handler that returns at once only empties the queue.                  *)
LEMMA ReturnsKeeps ==
  ASSUME Inv, NEW a \in Actors, Completed(a), Returns(a)
  PROVE  Inv'
  BY DEF Returns, Completed, Handled, Inv, TypeOK, ActorsLive,
     NothingAwaitedForEver, NotStarted, Trying, MessageHeld, Idle, Runs,
     Awaited, Actors, SocketActors

(* The operations when a handler of a client that is not stopped runs.     *)
LEMMA HandledOps ==
  ASSUME Inv, NEW a \in Actors, Completed(a)
  PROVE  /\ endpoint_iter \in 1..(NumEndpoints + 1)
         /\ Handled(a) \in [Actors -> {"none", "pending", "ok", "failed"}]
         /\ Handled(a)["read"] = "ok" => input_buffer_ > 0
<1>1. endpoint_iter # 0
  BY DEF Inv, NotStarted, Idle, Completed, Runs
<1> QED
  BY <1>1, ClientAssumption DEF Inv, TypeOK, ActorsLive, MessageHeld, Handled,
     Actors, SocketActors

(* start() and a stop() of the user.                                       *)
LEMMA StartKeeps == Inv /\ Start => Inv'
  BY ClientAssumption DEF Start, Begun, Inv, TypeOK, ActorsLive,
     NothingAwaitedForEver, NotStarted, Trying, MessageHeld, Idle, Runs,
     Awaited, Actors, SocketActors

LEMMA UserStopsKeeps == Inv /\ UserStops => Inv'
<1> SUFFICES ASSUME Inv, UserStops PROVE Inv'
  OBVIOUS
<1>1. /\ op \in [Actors -> {"none", "pending", "ok", "failed"}]
      /\ op["read"] = "ok" => input_buffer_ > 0
  BY DEF Inv, TypeOK, ActorsLive, MessageHeld
<1>2. endpoint_iter' \in 1..(NumEndpoints + 1)
  BY ClientAssumption DEF Inv, TypeOK, UserStops
<1> QED
  BY <1>1, <1>2, StopKeeps DEF UserStops

-----------------------------------------------------------------------------
(* The connect actor: the next endpoint, or the end, or its successors.    *)
LEMMA ConnectFailedKeeps ==
  ASSUME Inv, Completed("connect"), ~stopped_, ConnectFailed
  PROVE  Inv'
<1>1. /\ endpoint_iter \in 1..NumEndpoints
      /\ endpoint_iter' = endpoint_iter + 1 /\ input_buffer_' = input_buffer_
  BY ClientAssumption DEF Inv, TypeOK, NotStarted, Idle, Trying, Completed,
     Runs, ConnectFailed, StartConnect, Actors, SocketActors
<1>2. /\ op \in [Actors -> {"none", "pending", "ok", "failed"}]
      /\ ~Runs("read") /\ ~Runs("write") /\ ~Runs("heartbeat")
      /\ Runs("deadline")
  BY <1>1 DEF Inv, TypeOK, ActorsLive, Completed, Runs, Actors, SocketActors
<1>3. CASE endpoint_iter + 1 <= NumEndpoints
  <2>1. /\ op' \in [Actors -> {"none", "pending", "ok", "failed"}]
        /\ op'["connect"] = "pending" /\ op'["deadline"] \in {"ok", "failed"}
        /\ \A a \in Actors \ {"connect", "deadline"} : op'[a] = "none"
    BY <1>2, <1>3 DEF ConnectFailed, StartConnect, Begun, Cancelled, Handled,
       Runs, Actors, SocketActors
  <2>2. is_open' = TRUE /\ deadline_' = "ahead" /\ stopped_' = FALSE
    BY <1>3 DEF ConnectFailed, StartConnect, Inv, TypeOK
  <2>3. /\ endpoint_iter' \in 0..(NumEndpoints + 1)
        /\ endpoint_iter' # 0 /\ endpoint_iter' <= NumEndpoints
    BY <1>1, <1>3, ClientAssumption
  <2> QED
    BY <1>1, <2>1, <2>2, <2>3 DEF Inv, TypeOK, ActorsLive,
       NothingAwaitedForEver, NotStarted, Trying, MessageHeld, Runs, Awaited,
       Actors, SocketActors
<1>4. CASE ~(endpoint_iter + 1 <= NumEndpoints)
  <2>1. Stop(Handled("connect")) /\ "connect" \in Actors
    BY <1>4 DEF ConnectFailed, StartConnect, Actors, SocketActors
  <2>2. endpoint_iter' \in 1..(NumEndpoints + 1)
    BY <1>1, ClientAssumption
  <2> QED
    BY <1>1, <2>1, <2>2, HandledOps, StopKeeps
<1> QED
  BY <1>3, <1>4

LEMMA ConnectSucceededKeeps ==
  ASSUME Inv, Completed("connect"), ~stopped_, ConnectSucceeded
  PROVE  Inv'
  BY ClientAssumption DEF ConnectSucceeded, StartedRead,
     StartedWrite, ReadStatus, Completed, Handled, Begun, Cancelled, Inv,
     TypeOK, ActorsLive, NothingAwaitedForEver, NotStarted, Trying,
     MessageHeld, Idle, Runs, Awaited, Actors, SocketActors

LEMMA HandleConnectKeeps == Inv /\ HandleConnect => Inv'
  BY ConnectFailedKeeps, ConnectSucceededKeeps, ReturnsKeeps
     DEF HandleConnect, Actors, SocketActors

-----------------------------------------------------------------------------
(* Its successors.                                                         *)
LEMMA MessageReadKeeps ==
  ASSUME Inv, Completed("read"), ~stopped_, MessageRead
  PROVE  Inv'
  BY ClientAssumption DEF MessageRead, StartedRead,
     ReadStatus, Completed, Handled, Begun, Cancelled, Inv, TypeOK, ActorsLive,
     NothingAwaitedForEver, NotStarted, Trying, MessageHeld, Idle, Runs,
     Awaited, Actors, SocketActors

LEMMA HandleReadKeeps == Inv /\ HandleRead => Inv'
<1> SUFFICES ASSUME Inv, HandleRead PROVE Inv'
  OBVIOUS
<1>1. Completed("read") /\ "read" \in Actors
  BY DEF HandleRead, Actors, SocketActors
<1>2. CASE ~stopped_ /\ ReadFailed
  BY <1>1, <1>2, HandledOps, StopKeeps DEF ReadFailed
<1> QED
  BY <1>1, <1>2, MessageReadKeeps, ReturnsKeeps DEF HandleRead

LEMMA HeartbeatSentKeeps ==
  ASSUME Inv, Completed("write"), ~stopped_, HeartbeatSent
  PROVE  Inv'
  BY DEF HeartbeatSent, Completed, Handled, Begun, Inv, TypeOK, ActorsLive,
     NothingAwaitedForEver, NotStarted, Trying, MessageHeld, Idle, Runs,
     Awaited, Actors, SocketActors

LEMMA HandleWriteKeeps == Inv /\ HandleWrite => Inv'
<1> SUFFICES ASSUME Inv, HandleWrite PROVE Inv'
  OBVIOUS
<1>1. Completed("write") /\ "write" \in Actors
  BY DEF HandleWrite, Actors, SocketActors
<1>2. CASE ~stopped_ /\ WriteFailed
  BY <1>1, <1>2, HandledOps, StopKeeps DEF WriteFailed
<1> QED
  BY <1>1, <1>2, HeartbeatSentKeeps, ReturnsKeeps DEF HandleWrite

LEMMA HandleHeartbeatKeeps == Inv /\ HandleHeartbeat => Inv'
<1> SUFFICES ASSUME Inv, HandleHeartbeat PROVE Inv'
  OBVIOUS
<1>1. Completed("heartbeat") /\ "heartbeat" \in Actors
  BY DEF HandleHeartbeat, Actors
<1>2. CASE ~stopped_ /\ SendHeartbeat
  BY <1>1, <1>2 DEF SendHeartbeat, StartedWrite, Completed, Handled, Begun,
     Inv, TypeOK, ActorsLive, NothingAwaitedForEver, NotStarted, Trying,
     MessageHeld, Idle, Runs, Awaited, Actors, SocketActors
<1> QED
  BY <1>1, <1>2, ReturnsKeeps DEF HandleHeartbeat

(* The deadline actor: whatever it finds it waits again; what it cancels   *)
(* by closing the socket is no longer pending.                             *)
LEMMA CheckDeadlineKeeps == Inv /\ CheckDeadline => Inv'
<1> SUFFICES ASSUME Inv, CheckDeadline PROVE Inv'
  OBVIOUS
<1>1. Completed("deadline") /\ "deadline" \in Actors
  BY DEF CheckDeadline, Actors
<1>2. CASE ~stopped_ /\ DeadlineAhead
  BY <1>1, <1>2 DEF DeadlineAhead, Completed, Handled, Begun, Inv, TypeOK,
     ActorsLive, NothingAwaitedForEver, NotStarted, Trying, MessageHeld, Idle,
     Runs, Awaited, Actors, SocketActors
<1>3. CASE ~stopped_ /\ DeadlinePassed
  BY <1>1, <1>3 DEF DeadlinePassed, Completed, Handled, Begun, Cancelled, Inv,
     TypeOK, ActorsLive, NothingAwaitedForEver, NotStarted, Trying,
     MessageHeld, Idle, Runs, Awaited, Actors, SocketActors
<1> QED
  BY <1>1, <1>2, <1>3, ReturnsKeeps DEF CheckDeadline

-----------------------------------------------------------------------------
(* The network and the clock.                                              *)
LEMMA CompletesKeeps ==
  ASSUME Inv, NEW a \in Actors, NEW status \in {"ok", "failed"},
         Completes(a, status),
         input_buffer_' \in 0..MaxLines,
         a = "read" /\ status = "ok" => input_buffer_' > 0,
         a # "read" => input_buffer_' = input_buffer_,
         status = "failed" => input_buffer_' = input_buffer_
  PROVE  Inv'
  BY DEF Completes, Inv, TypeOK, ActorsLive, NothingAwaitedForEver, NotStarted,
     Trying, MessageHeld, Idle, Runs, Awaited, Actors, SocketActors

LEMMA NetworkKeeps == Inv /\ Network => Inv'
<1> SUFFICES ASSUME Inv, Network PROVE Inv'
  OBVIOUS
<1>1. input_buffer_ \in 0..MaxLines
  BY DEF Inv, TypeOK
<1>2. CASE Connected
  BY <1>1, <1>2, CompletesKeeps DEF Connected, Actors, SocketActors
<1>3. CASE Written
  BY <1>1, <1>3, CompletesKeeps DEF Written, Actors, SocketActors
<1>4. CASE LinesArrive
  <2>1. input_buffer_' \in 0..MaxLines /\ input_buffer_' > 0
    BY <1>4, ClientAssumption DEF LinesArrive
  <2> QED
    BY <1>4, <2>1, CompletesKeeps DEF LinesArrive, Actors, SocketActors
<1>5. CASE NetworkFails
  BY <1>1, <1>5, CompletesKeeps DEF NetworkFails, Actors, SocketActors
<1> QED
  BY <1>2, <1>3, <1>4, <1>5 DEF Network

LEMMA ClockKeeps == Inv /\ Clock => Inv'
<1> SUFFICES ASSUME Inv, Clock PROVE Inv'
  OBVIOUS
<1>1. input_buffer_ \in 0..MaxLines
  BY DEF Inv, TypeOK
<1>2. CASE HeartbeatDue
  BY <1>1, <1>2, CompletesKeeps DEF HeartbeatDue, Actors
<1>3. CASE DeadlinePasses
  BY <1>3 DEF DeadlinePasses, Inv, TypeOK, ActorsLive, NothingAwaitedForEver,
     NotStarted, Trying, MessageHeld, Idle, Runs, Awaited
<1>4. CASE DeadlineWakes
  BY <1>1, <1>4, CompletesKeeps DEF DeadlineWakes, Actors
<1> QED
  BY <1>2, <1>3, <1>4 DEF Clock

-----------------------------------------------------------------------------
(* Every step, of a handler, the network or the clock, preserves Inv.      *)
THEOREM NextInv == Inv /\ [Next]_vars => Inv'
<1> SUFFICES ASSUME Inv, [Next]_vars PROVE Inv'
  OBVIOUS
<1>1. CASE UNCHANGED vars
  BY <1>1 DEF vars, Inv, TypeOK, ActorsLive, NothingAwaitedForEver, NotStarted,
     Trying, MessageHeld, Idle, Runs
<1> QED
  BY <1>1, StartKeeps, UserStopsKeeps, HandleConnectKeeps, HandleReadKeeps,
     HandleWriteKeeps, HandleHeartbeatKeeps, CheckDeadlineKeeps, NetworkKeeps,
     ClockKeeps DEF Next, Handlers

(* Inv holds in every reachable state of the client.                       *)
THEOREM AlwaysInv == Spec => []Inv
  BY InitInv, NextInv, PTL DEF Spec

(* The types of the client's state; no endpoint beyond the last is tried.  *)
THEOREM ClientTypeCorrect == Spec => []TypeOK
<1>1. Inv => TypeOK
  BY DEF Inv
<1> QED
  BY <1>1, AlwaysInv, PTL

(* Every actor lives on, once, until the client is stopped.                *)
THEOREM ActorsStayAlive == Spec => []ActorsLive
<1>1. Inv => ActorsLive
  BY DEF Inv
<1> QED
  BY <1>1, AlwaysInv, PTL

(* Nothing is awaited without a deadline or on a closed socket.            *)
THEOREM AlwaysUnderDeadline == Spec => []NothingAwaitedForEver
<1>1. Inv => NothingAwaitedForEver
  BY DEF Inv
<1> QED
  BY <1>1, AlwaysInv, PTL
=============================================================================
