-------------------------- MODULE PicoSystemProofs --------------------------
(***************************************************************************)
(* Invariants of PicoSystem for every set of callers, number of calls, set *)
(* of texts and their sizes: the types; that the driver and the session    *)
(* keep step, so that there is never more than one request between them;   *)
(* and what becomes of a call.                                             *)
(***************************************************************************)
EXTENDS PicoSystem, ConcurrentVectorProofs, WellFoundedInduction

-----------------------------------------------------------------------------
(* Frames and wires.                                                       *)

LEMMA SizeFrameType ==
  ASSUME NEW n \in Announcements
  PROVE  SizeFrame(n) \in Frame
  BY DEF SizeFrame, Frame

LEMMA DataFrameType ==
  ASSUME NEW m \in Message
  PROVE  DataFrame(m) \in Frame
  BY DEF DataFrame, Frame

LEMMA HeaderSizeType ==
  ASSUME NEW m \in Message
  PROVE  HeaderSize(m) \in Announcements
  BY DEF HeaderSize, Announcements, Message

(* What is read from a wire of frames.                                     *)
LEMMA ArrivalType ==
  ASSUME NEW wire \in Seq(Frame)
  PROVE  /\ SizeArrives(wire) => /\ Head(wire).size \in Announcements
                                 /\ Tail(wire) \in Seq(Frame)
         /\ DataArrives(wire) => /\ Head(wire).msg \in Message
                                 /\ Tail(wire) \in Seq(Frame)
  <1>1. ASSUME wire # <<>>
        PROVE  Head(wire) \in Frame /\ Tail(wire) \in Seq(Frame)
    BY <1>1, HeadTailProperties
  <1>2. \A f \in Frame : /\ f.kind = "size" => f.size \in Announcements
                         /\ f.kind = "data" => f.msg \in Message
    BY DEF Frame
  <1> QED
    BY <1>1, <1>2 DEF SizeArrives, DataArrives

-----------------------------------------------------------------------------
(* Type correctness.                                                       *)

LEMMA InitTypeOK == Init => TypeOK
  <1> SUFFICES ASSUME Init PROVE TypeOK
    OBVIOUS
  <1> USE DEF Init, WireInit, DriverInit, SessionInit
  <1>1. WireTypeOK
    <2>1. connected \in BOOLEAN /\ crash \in {"none", "size", "parse", "destructor", "memory", "range"}
      OBVIOUS
    <2>2. toServer \in Seq(Frame) /\ toClient \in Seq(Frame)
      OBVIOUS
    <2> QED
      BY <2>1, <2>2 DEF WireTypeOK
  <1>2. DriverTypeOK
    BY WireAssumption DEF DriverTypeOK, IoStates, Phases, Outcomes
  <1>3. SessionTypeOK
    BY DEF SessionTypeOK, SessionStates
  <1>4. PointersSet
    BY DEF PointersSet
  <1> QED
    BY <1>1, <1>2, <1>3, <1>4 DEF TypeOK

(* The search of a remove ends the call, meets the end of the vector, or   *)
(* finds a position.                                                       *)
Searched(c, v) ==
  \/ Answer(c) /\ UNCHANGED <<removal, crash>>
  \/ /\ \E d \in Callers \ {c} : phase[d] = "erase"
     /\ crash' = "range"
     /\ UNCHANGED <<phase, removal, outcome>>
  \/ \E i \in PositionsOf(v, request[c].id) :
       /\ phase' = [phase EXCEPT ![c] = "erase"]
       /\ removal' = [removal EXCEPT ![c] = [pos |-> i, end |-> Len(v)]]
       /\ UNCHANGED <<outcome, crash>>

LEMMA SearchResult ==
  ASSUME NEW c, NEW v, NEW from, SearchFrom(c, v, from)
  PROVE  Searched(c, v)
  BY DEF SearchFrom, Searched, Crash

LEMMA SearchType ==
  ASSUME DriverTypeOK, NEW c \in Callers, NEW v, Len(v) \in Nat, request[c].id \in Calls,
         Searched(c, v)
  PROVE  /\ phase' \in [Callers -> Phases]
         /\ outcome' \in [Calls -> Outcomes]
         /\ removal' \in [Callers -> [pos : Nat, end : Nat]]
         /\ crash' \in {crash, "range"}
         /\ \A d \in Callers \ {c} : phase'[d] = phase[d] /\ removal'[d] = removal[d]
  <1> USE DEF DriverTypeOK, Phases, Outcomes
  <1>1. CASE Answer(c) /\ UNCHANGED <<removal, crash>>
    BY <1>1 DEF Answer
  <1>2. CASE crash' = "range" /\ UNCHANGED <<phase, removal, outcome>>
    BY <1>2
  <1>3. ASSUME NEW i \in PositionsOf(v, request[c].id),
               phase' = [phase EXCEPT ![c] = "erase"],
               removal' = [removal EXCEPT ![c] = [pos |-> i, end |-> Len(v)]],
               UNCHANGED <<outcome, crash>>
        PROVE  /\ phase' \in [Callers -> Phases]
               /\ outcome' \in [Calls -> Outcomes]
               /\ removal' \in [Callers -> [pos : Nat, end : Nat]]
               /\ crash' \in {crash, "range"}
               /\ \A d \in Callers \ {c} : phase'[d] = phase[d] /\ removal'[d] = removal[d]
    <2>1. i \in Nat
      BY DEF PositionsOf
    <2> QED
      BY <1>3, <2>1
  <1> QED
    BY <1>1, <1>2, <1>3 DEF Searched

LEMMA DriverStepType == TypeOK /\ DriverStep => TypeOK'
  <1> SUFFICES ASSUME TypeOK, DriverStep PROVE TypeOK'
    OBVIOUS
  <1> USE DEF TypeOK
  <1> SUFFICES WireTypeOK' /\ DriverTypeOK' /\ PointersSet'
    BY DEF DriverStep, sessionVars, SessionTypeOK
  <1>a. UNCHANGED sessionVars
    BY DEF DriverStep
  <1>1. CASE Connect
    <2>1. WireTypeOK'
      BY <1>1 DEF Connect, wireVars, WireTypeOK
    <2>2. DriverTypeOK'
      BY <1>1 DEF Connect, driverVars, ioVars, callerVars, DriverTypeOK, PointersSet, IoStates, Phases, Outcomes
    <2>3. PointersSet'
      BY <1>1, <1>a DEF Connect, callerVars, sessionVars, DriverTypeOK, PointersSet, CurrentCall
    <2> QED
      BY <2>1, <2>2, <2>3
  <1>2. CASE CheckQueue
    <2>1. WireTypeOK'
      BY <1>2 DEF CheckQueue, wireVars, WireTypeOK
    <2>2. DriverTypeOK'
      BY <1>2 DEF CheckQueue, driverVars, ioVars, callerVars, DriverTypeOK, PointersSet, IoStates, Phases, Outcomes
    <2>3. PointersSet'
      BY <1>2, <1>a DEF CheckQueue, callerVars, sessionVars, DriverTypeOK, PointersSet, CurrentCall
    <2> QED
      BY <2>1, <2>2, <2>3
  <1>3. CASE Block
    <2>1. WireTypeOK'
      BY <1>3 DEF Block, wireVars, WireTypeOK
    <2>2. DriverTypeOK'
      BY <1>3 DEF Block, driverVars, ioVars, callerVars, DriverTypeOK, PointersSet, IoStates, Phases, Outcomes
    <2>3. PointersSet'
      BY <1>3, <1>a DEF Block, callerVars, sessionVars, DriverTypeOK, PointersSet, CurrentCall
    <2> QED
      BY <2>1, <2>2, <2>3
  <1>4. CASE PopRequest
    <2>1. WireTypeOK'
      BY <1>4 DEF PopRequest, wireVars, WireTypeOK
    <2>2. DriverTypeOK'
      BY <1>4, PopBackLemma DEF PopRequest, driverVars, ioVars, callerVars, DriverTypeOK, PointersSet, IoStates, Phases, Outcomes
    <2>3. PointersSet'
      BY <1>4, <1>a, PopBackLemma DEF PopRequest, callerVars, sessionVars, DriverTypeOK, PointersSet, CurrentCall
    <2> QED
      BY <2>1, <2>2, <2>3
  <1>5. CASE SendSize
    <2>1. WireTypeOK'
      <3>1. SizeFrame(HeaderSize(sending)) \in Frame
        BY <1>5, SizeFrameType, HeaderSizeType DEF SendSize, PointersSet
      <3> QED
        BY <1>5, <3>1, AppendProperties DEF SendSize, WireTypeOK
    <2>2. DriverTypeOK'
      BY <1>5 DEF SendSize, driverVars, ioVars, callerVars, DriverTypeOK, PointersSet, IoStates, Phases, Outcomes
    <2>3. PointersSet'
      BY <1>5, <1>a DEF SendSize, callerVars, sessionVars, DriverTypeOK, PointersSet, CurrentCall
    <2> QED
      BY <2>1, <2>2, <2>3
  <1>6. CASE SendData
    <2>1. WireTypeOK'
      <3>1. DataFrame(sending) \in Frame
        BY <1>6, DataFrameType DEF SendData, PointersSet
      <3> QED
        BY <1>6, <3>1, AppendProperties DEF SendData, WireTypeOK
    <2>2. DriverTypeOK'
      BY <1>6 DEF SendData, driverVars, ioVars, callerVars, DriverTypeOK, PointersSet, IoStates, Phases, Outcomes
    <2>3. PointersSet'
      BY <1>6, <1>a DEF SendData, callerVars, sessionVars, DriverTypeOK, PointersSet, CurrentCall
    <2> QED
      BY <2>1, <2>2, <2>3
  <1>7. CASE ReadSize
    <2>1. WireTypeOK'
      BY <1>7, ArrivalType DEF ReadSize, wireVars, WireTypeOK, Crash
    <2>2. DriverTypeOK'
      <3>1. Head(toClient).size \in Announcements
        BY <1>7, ArrivalType DEF ReadSize, WireTypeOK
      <3>2. io' \in IoStates /\ expected' \in Announcements \cup {0}
        BY <1>7, <3>1 DEF ReadSize, DriverTypeOK, IoStates
      <3> QED
        BY <1>7, <3>2 DEF ReadSize, callerVars, DriverTypeOK
    <2>3. PointersSet'
      BY <1>7, <1>a, ArrivalType DEF ReadSize, callerVars, sessionVars, DriverTypeOK, PointersSet, CurrentCall
    <2> QED
      BY <2>1, <2>2, <2>3
  <1>8. CASE ReadData
    <2>1. WireTypeOK'
      BY <1>8, ArrivalType DEF ReadData, wireVars, WireTypeOK, Crash
    <2>2. DriverTypeOK'
      <3>1. Head(toClient).msg \in Message
        BY <1>8, ArrivalType DEF ReadData, WireTypeOK
      <3>2. io' \in IoStates /\ received' \in Message \cup {NoMessage}
        BY <1>8, <3>1 DEF ReadData, DriverTypeOK, IoStates
      <3> QED
        BY <1>8, <3>2 DEF ReadData, callerVars, DriverTypeOK
    <2>3. PointersSet'
      <3>1. Head(toClient).msg \in Message
        BY <1>8, ArrivalType DEF ReadData, WireTypeOK
      <3>2. io' = "push" => received' \in Message
        BY <1>8, <3>1 DEF ReadData, PointersSet
      <3>3. sending' \in Message
        BY <1>8 DEF ReadData, PointersSet
      <3> QED
        BY <1>8, <1>a, <3>2, <3>3 DEF ReadData, callerVars, sessionVars, PointersSet, CurrentCall
    <2> QED
      BY <2>1, <2>2, <2>3
  <1>9. CASE PushResponse
    <2>1. WireTypeOK'
      BY <1>9 DEF PushResponse, wireVars, WireTypeOK
    <2>2. DriverTypeOK'
      <3>1. received.id \in Calls \cup {NullRef}
        BY <1>9 DEF PushResponse, PointersSet, Message
      <3>2. responseQueue' \in Seq(Calls \cup {NullRef})
        BY <1>9, <3>1, PushBackLemma DEF PushResponse, DriverTypeOK
      <3> QED
        BY <1>9, <3>2 DEF PushResponse, callerVars, DriverTypeOK, IoStates
    <2>3. PointersSet'
      BY <1>9, <1>a, PushBackLemma DEF PushResponse, callerVars, sessionVars, DriverTypeOK, PointersSet, CurrentCall
    <2> QED
      BY <2>1, <2>2, <2>3
  <1>10. CASE NotifierService
    <2>1. WireTypeOK'
      BY <1>10 DEF NotifierService, wireVars, WireTypeOK
    <2>2. DriverTypeOK'
      BY <1>10 DEF NotifierService, driverVars, ioVars, callerVars, DriverTypeOK, PointersSet, IoStates, Phases, Outcomes, WakeIo
    <2>3. PointersSet'
      BY <1>10, <1>a DEF NotifierService, callerVars, sessionVars, DriverTypeOK, PointersSet, CurrentCall, WakeIo
    <2> QED
      BY <2>1, <2>2, <2>3
  <1>11. CASE SpuriousWakeup
    <2>1. WireTypeOK'
      BY <1>11 DEF SpuriousWakeup, wireVars, WireTypeOK
    <2>2. DriverTypeOK'
      BY <1>11 DEF SpuriousWakeup, driverVars, ioVars, callerVars, DriverTypeOK, PointersSet, IoStates, Phases, Outcomes, WakeIo
    <2>3. PointersSet'
      BY <1>11, <1>a DEF SpuriousWakeup, callerVars, sessionVars, DriverTypeOK, PointersSet, CurrentCall, WakeIo
    <2> QED
      BY <2>1, <2>2, <2>3
  <1>12. ASSUME NEW c \in Callers, NEW b \in Bodies, QueueRequest(c, b)
        PROVE  WireTypeOK' /\ DriverTypeOK' /\ PointersSet'
    <2>1. WireTypeOK'
      BY <1>12 DEF QueueRequest, wireVars, WireTypeOK
    <2>2. DriverTypeOK'
      <3> DEFINE k == <<c, calls[c] + 1>>
                 m == [id |-> k, body |-> b]
      <3>1. calls[c] + 1 \in 0..MaxCalls /\ k \in Calls
        BY <1>12, WireAssumption DEF QueueRequest, DriverTypeOK, Calls
      <3>2. m \in Message
        BY <3>1 DEF Message
      <3>3. bufferQueue' \in Seq(Message)
        BY <1>12, <3>2, PushBackLemma DEF QueueRequest, DriverTypeOK
      <3>4. /\ calls' \in [Callers -> 0..MaxCalls]
            /\ request' \in [Callers -> Message \cup {NoMessage}]
            /\ outcome' \in [Calls -> Outcomes]
            /\ phase' \in [Callers -> Phases]
        BY <1>12, <3>1, <3>2 DEF QueueRequest, DriverTypeOK, Outcomes, Phases
      <3> QED
        BY <1>12, <3>3, <3>4 DEF QueueRequest, ioVars, DriverTypeOK
    <2>3. PointersSet'
      <3>1. /\ sending' = sending /\ received' = received /\ io' = io
            /\ session' = session /\ replying' = replying
        BY <1>12, <1>a DEF QueueRequest, ioVars, sessionVars
      <3>2. ASSUME NEW d \in Callers, phase'[d] # "idle"
            PROVE  request'[d] \in Message /\ request'[d].id = CurrentCall(d)'
        <4>1. CASE d = c
          <5> DEFINE k == <<c, calls[c] + 1>>
                     m == [id |-> k, body |-> b]
          <5>1. k \in Calls
            BY <1>12, WireAssumption DEF QueueRequest, DriverTypeOK, Calls
          <5>2. request'[c] = m /\ m \in Message /\ m.id = k
            BY <1>12, <5>1 DEF QueueRequest, DriverTypeOK, Message
          <5>3. calls'[c] = calls[c] + 1
            BY <1>12 DEF QueueRequest, DriverTypeOK
          <5> QED
            BY <4>1, <5>2, <5>3 DEF CurrentCall
        <4>2. CASE d # c
          BY <1>12, <3>2, <4>2 DEF QueueRequest, DriverTypeOK, PointersSet, CurrentCall
        <4> QED
          BY <4>1, <4>2
      <3>3. bufferQueue' # <<>>
        <4> DEFINE m == [id |-> <<c, calls[c] + 1>>, body |-> b]
        <4>1. m \in Message
          BY <1>12, WireAssumption DEF QueueRequest, DriverTypeOK, Message, Calls
        <4>2. bufferQueue' = PushBack(bufferQueue, m) /\ bufferQueue \in Seq(Message)
          BY <1>12 DEF QueueRequest, DriverTypeOK
        <4> HIDE DEF m
        <4> QED
          BY <4>1, <4>2, PushBackLemma
      <3> QED
        BY <3>1, <3>2, <3>3 DEF PointersSet
    <2> QED
      BY <2>1, <2>2, <2>3
  <1>13. ASSUME NEW c \in Callers, NotifyIo(c)
        PROVE  WireTypeOK' /\ DriverTypeOK' /\ PointersSet'
    <2>1. WireTypeOK'
      BY <1>13 DEF NotifyIo, wireVars, WireTypeOK
    <2>2. DriverTypeOK'
      BY <1>13 DEF NotifyIo, driverVars, ioVars, callerVars, DriverTypeOK, PointersSet, IoStates, Phases, Outcomes, WakeIo
    <2>3. PointersSet'
      BY <1>13, <1>a DEF NotifyIo, callerVars, sessionVars, DriverTypeOK, PointersSet, CurrentCall, WakeIo
    <2> QED
      BY <2>1, <2>2, <2>3
  <1>14. ASSUME NEW c \in Callers, PollHit(c)
        PROVE  WireTypeOK' /\ DriverTypeOK' /\ PointersSet'
    <2>1. WireTypeOK'
      BY <1>14 DEF PollHit, wireVars, WireTypeOK
    <2>2. DriverTypeOK'
      BY <1>14 DEF PollHit, driverVars, ioVars, callerVars, DriverTypeOK, PointersSet, IoStates, Phases, Outcomes, CurrentCall
    <2>3. PointersSet'
      <3>1. /\ sending' = sending /\ received' = received /\ io' = io
            /\ session' = session /\ replying' = replying
            /\ request' = request /\ calls' = calls /\ bufferQueue' = bufferQueue
        BY <1>14, <1>a DEF PollHit, ioVars, sessionVars
      <3>2. \A d \in Callers : phase'[d] # "idle" => phase[d] # "idle"
        BY <1>14 DEF PollHit, Answer, DriverTypeOK
      <3> QED
        BY <3>1, <3>2 DEF PointersSet, CurrentCall
    <2> QED
      BY <2>1, <2>2, <2>3
  <1>15. ASSUME NEW c \in Callers, TimeOut(c)
        PROVE  WireTypeOK' /\ DriverTypeOK' /\ PointersSet'
    <2>1. WireTypeOK'
      BY <1>15 DEF TimeOut, wireVars, WireTypeOK
    <2>2. DriverTypeOK'
      BY <1>15 DEF TimeOut, driverVars, ioVars, callerVars, DriverTypeOK, PointersSet, IoStates, Phases, Outcomes, CurrentCall
    <2>3. PointersSet'
      <3>1. /\ sending' = sending /\ received' = received /\ io' = io
            /\ session' = session /\ replying' = replying
            /\ request' = request /\ calls' = calls /\ bufferQueue' = bufferQueue
        BY <1>15, <1>a DEF TimeOut, ioVars, sessionVars
      <3>2. \A d \in Callers : phase'[d] # "idle" => phase[d] # "idle"
        BY <1>15 DEF TimeOut, Answer, DriverTypeOK
      <3> QED
        BY <3>1, <3>2 DEF PointersSet, CurrentCall
    <2> QED
      BY <2>1, <2>2, <2>3
  <1>16. ASSUME NEW c \in Callers, RemoveFind(c)
        PROVE  WireTypeOK' /\ DriverTypeOK' /\ PointersSet'
    <2>1. /\ Searched(c, responseQueue) /\ phase[c] = "found"
          /\ UNCHANGED <<ioVars, bufferQueue, responseQueue, request, calls, stalled,
                         toServer, toClient, connected>>
      BY <1>16, SearchResult DEF RemoveFind
    <2>2. request[c].id \in Calls /\ Len(responseQueue) \in Nat
      BY <2>1, LenProperties DEF PointersSet, Message, DriverTypeOK
    <2>3. /\ phase' \in [Callers -> Phases]
          /\ outcome' \in [Calls -> Outcomes]
          /\ removal' \in [Callers -> [pos : Nat, end : Nat]]
          /\ crash' \in {crash, "range"}
          /\ \A d \in Callers \ {c} : phase'[d] = phase[d]
      BY <2>1, <2>2, SearchType
    <2>4. WireTypeOK'
      BY <2>1, <2>3 DEF WireTypeOK
    <2>5. DriverTypeOK'
      BY <2>1, <2>3 DEF ioVars, DriverTypeOK
    <2>6. PointersSet'
      <3>1. /\ sending' = sending /\ received' = received /\ io' = io
            /\ session' = session /\ replying' = replying
            /\ request' = request /\ calls' = calls /\ bufferQueue' = bufferQueue
        BY <2>1, <1>a DEF ioVars, sessionVars
      <3>2. \A d \in Callers : phase'[d] # "idle" => phase[d] # "idle"
        BY <2>1, <2>3
      <3> QED
        BY <3>1, <3>2 DEF PointersSet, CurrentCall
    <2> QED
      BY <2>4, <2>5, <2>6
  <1>17. ASSUME NEW c \in Callers, RemoveErase(c)
        PROVE  WireTypeOK' /\ DriverTypeOK' /\ PointersSet'
    <2>1. /\ phase[c] = "erase" /\ request[c].id \in Calls
          /\ UNCHANGED <<ioVars, bufferQueue, request, calls, stalled, toServer, toClient, connected>>
      BY <1>17 DEF RemoveErase, PointersSet, Message
    <2>2. responseQueue' \in Seq(Calls \cup {NullRef})
      <3>1. removal[c].pos \in Nat /\ removal[c].end \in Nat /\ Len(responseQueue) \in Nat
        BY LenProperties DEF DriverTypeOK
      <3>2. PICK len \in LengthsAfterErase(responseQueue, removal[c].end) :
              \/ /\ len >= 0
                 /\ responseQueue' = Erased(responseQueue, removal[c].pos, removal[c].end, len)
              \/ responseQueue' = responseQueue
        BY <1>17 DEF RemoveErase
      <3>3. len >= 0 => len \in Nat
        BY <3>1 DEF LengthsAfterErase
      <3>4. len \in Nat => Erased(responseQueue, removal[c].pos, removal[c].end, len)
                             \in Seq(Calls \cup {NullRef})
        <4> DEFINE S == Calls
        <4>1. responseQueue \in Seq(S \cup {NullRef})
          BY DEF DriverTypeOK
        <4> HIDE DEF S
        <4>2. len \in Nat => Erased(responseQueue, removal[c].pos, removal[c].end, len)
                               \in Seq(S \cup {NullRef})
          BY <3>1, <4>1, ErasedLemma
        <4> QED
          BY <4>2 DEF S
      <3> QED
        BY <3>2, <3>3, <3>4 DEF DriverTypeOK
    <2>3. Len(responseQueue') \in Nat
      BY <2>2, LenProperties
    <2>4. /\ phase' \in [Callers -> Phases]
          /\ outcome' \in [Calls -> Outcomes]
          /\ removal' \in [Callers -> [pos : Nat, end : Nat]]
          /\ crash' \in {crash, "range", "memory"}
          /\ \A d \in Callers \ {c} : phase'[d] = phase[d]
      <3>1. CASE SearchFrom(c, responseQueue', removal[c].pos)
        <4>1. Searched(c, responseQueue')
          BY <3>1, SearchResult
        <4> QED
          BY <2>1, <2>3, <4>1, SearchType
      <3>2. CASE crash' = "memory" /\ UNCHANGED <<phase, removal, outcome>>
        BY <3>2 DEF DriverTypeOK
      <3> QED
        BY <1>17, <3>1, <3>2 DEF RemoveErase, Crash
    <2>5. WireTypeOK'
      BY <2>1, <2>4 DEF WireTypeOK
    <2>6. DriverTypeOK'
      BY <2>1, <2>2, <2>4 DEF ioVars, DriverTypeOK
    <2>7. PointersSet'
      <3>1. /\ sending' = sending /\ received' = received /\ io' = io
            /\ session' = session /\ replying' = replying
            /\ request' = request /\ calls' = calls /\ bufferQueue' = bufferQueue
        BY <2>1, <1>a DEF ioVars, sessionVars
      <3>2. \A d \in Callers : phase'[d] # "idle" => phase[d] # "idle"
        BY <2>1, <2>4
      <3> QED
        BY <3>1, <3>2 DEF PointersSet, CurrentCall
    <2> QED
      BY <2>5, <2>6, <2>7
  <1> QED
    BY <1>1, <1>2, <1>3, <1>4, <1>5, <1>6, <1>7, <1>8, <1>9, <1>10, <1>11, <1>12, <1>13, <1>14, <1>15, <1>16, <1>17
    DEF DriverStep, DriverNext, IoThread, Notifier, CallerThread, BeginCall

LEMMA ServerStepType == TypeOK /\ ServerStep => TypeOK'
  <1> SUFFICES ASSUME TypeOK, ServerStep PROVE TypeOK'
    OBVIOUS
  <1> USE DEF TypeOK
  <1>a. UNCHANGED driverVars
    BY DEF ServerStep
  <1>b. DriverTypeOK'
    BY <1>a DEF driverVars, ioVars, callerVars, DriverTypeOK
  <1> SUFFICES WireTypeOK' /\ SessionTypeOK' /\ PointersSet'
    BY <1>b
  <1>1. CASE Accept
    <2>1. WireTypeOK'
      BY <1>1 DEF Accept, wireVars, WireTypeOK, PointersSet
    <2>2. SessionTypeOK'
      BY <1>1 DEF Accept, WireTypeOK, SessionTypeOK, SessionStates
    <2>3. PointersSet'
      BY <1>1, <1>a DEF Accept, driverVars, ioVars, callerVars, PointersSet, SessionTypeOK, CurrentCall
    <2> QED
      BY <2>1, <2>2, <2>3
  <1>2. CASE SessionReadSize
    <2>1. WireTypeOK'
      BY <1>2, ArrivalType DEF SessionReadSize, wireVars, WireTypeOK, PointersSet
    <2>2. SessionTypeOK'
      BY <1>2, ArrivalType DEF SessionReadSize, WireTypeOK, SessionTypeOK, SessionStates
    <2>3. PointersSet'
      BY <1>2, <1>a, ArrivalType DEF SessionReadSize, driverVars, ioVars, callerVars, PointersSet, SessionTypeOK, CurrentCall
    <2> QED
      BY <2>1, <2>2, <2>3
  <1>3. CASE SessionReadData
    <2>1. WireTypeOK'
      BY <1>3, ArrivalType DEF SessionReadData, wireVars, WireTypeOK, PointersSet, Crash
    <2>2. SessionTypeOK'
      <3>1. Head(toServer).msg \in Message
        BY <1>3, ArrivalType DEF SessionReadData, WireTypeOK
      <3>2. Head(toServer).msg.id \in Calls
        BY <3>1 DEF Message
      <3>3. replyQueue' \in Seq(Message)
        <4>1. PushBack(replyQueue, Head(toServer).msg) \in Seq(Message)
          BY <3>1, PushBackLemma DEF SessionTypeOK
        <4>2. replyQueue' = replyQueue \/ replyQueue' = PushBack(replyQueue, Head(toServer).msg)
          BY <1>3 DEF SessionReadData
        <4> QED
          BY <4>1, <4>2 DEF SessionTypeOK
      <3>4. executions' \in [Calls -> Nat] /\ session' \in SessionStates
        BY <1>3, <3>2 DEF SessionReadData, SessionTypeOK, SessionStates
      <3> QED
        BY <1>3, <3>3, <3>4 DEF SessionReadData, SessionTypeOK
    <2>3. PointersSet'
      BY <1>3, <1>a, ArrivalType, PushBackLemma DEF SessionReadData, driverVars, ioVars, callerVars, PointersSet, SessionTypeOK, CurrentCall
    <2> QED
      BY <2>1, <2>2, <2>3
  <1>4. CASE TakeReply
    <2>1. WireTypeOK'
      BY <1>4 DEF TakeReply, wireVars, WireTypeOK, PointersSet
    <2>2. SessionTypeOK'
      BY <1>4, PopBackLemma DEF TakeReply, WireTypeOK, SessionTypeOK, SessionStates
    <2>3. PointersSet'
      BY <1>4, <1>a, PopBackLemma DEF TakeReply, driverVars, ioVars, callerVars, PointersSet, SessionTypeOK, CurrentCall
    <2> QED
      BY <2>1, <2>2, <2>3
  <1>5. CASE SessionSendSize
    <2>1. WireTypeOK'
      <3>1. HeaderSize(replying) \in Announcements /\ DanglingSizes \subseteq Announcements
        BY <1>5, HeaderSizeType DEF SessionSendSize, PointersSet, Announcements
      <3>2. \E n \in Announcements : toClient' = Append(toClient, SizeFrame(n))
        BY <1>5, <3>1 DEF SessionSendSize
      <3>3. toClient' \in Seq(Frame)
        BY <3>2, SizeFrameType, AppendProperties DEF WireTypeOK
      <3> QED
        BY <1>5, <3>3 DEF SessionSendSize, WireTypeOK
    <2>2. SessionTypeOK'
      BY <1>5 DEF SessionSendSize, WireTypeOK, SessionTypeOK, SessionStates
    <2>3. PointersSet'
      BY <1>5, <1>a DEF SessionSendSize, driverVars, ioVars, callerVars, PointersSet, SessionTypeOK, CurrentCall
    <2> QED
      BY <2>1, <2>2, <2>3
  <1>6. CASE SessionSendData
    <2>1. WireTypeOK'
      BY <1>6, DataFrameType DEF SessionSendData, wireVars, WireTypeOK, PointersSet
    <2>2. SessionTypeOK'
      BY <1>6 DEF SessionSendData, WireTypeOK, SessionTypeOK, SessionStates
    <2>3. PointersSet'
      BY <1>6, <1>a DEF SessionSendData, driverVars, ioVars, callerVars, PointersSet, SessionTypeOK, CurrentCall
    <2> QED
      BY <2>1, <2>2, <2>3
  <1> QED
    BY <1>1, <1>2, <1>3, <1>4, <1>5, <1>6
    DEF ServerStep, SessionThread

(* Every variable has its type, and a pointer is set before its use.       *)
THEOREM TypeCorrect == Spec => []TypeOK
  <1>1. TypeOK /\ UNCHANGED vars => TypeOK'
    BY DEF vars, driverVars, ioVars, callerVars, sessionVars, wireVars, TypeOK, WireTypeOK,
           DriverTypeOK, SessionTypeOK, PointersSet, CurrentCall
  <1>2. TypeOK /\ [Next]_vars => TypeOK'
    BY <1>1, DriverStepType, ServerStepType DEF Next
  <1> QED
    BY <1>2, InitTypeOK, PTL DEF Spec

-----------------------------------------------------------------------------
(* A direction of the socket holds at most two frames.                     *)

LEMMA OneElement ==
  ASSUME NEW a
  PROVE  /\ <<a>> # <<>>
         /\ Append(<<>>, a) = <<a>>
         /\ Head(<<a>>) = a
         /\ Tail(<<a>>) = <<>>
         /\ Len(<<a>>) = 1
  OBVIOUS

LEMMA TwoElements ==
  ASSUME NEW a, NEW b
  PROVE  /\ <<a, b>> # <<>>
         /\ Append(<<a>>, b) = <<a, b>>
         /\ Head(<<a, b>>) = a
         /\ Tail(<<a, b>>) = <<b>>
  <1>1. <<a, b>> # <<>> /\ Head(<<a, b>>) = a
    OBVIOUS
  <1>2. Tail(<<a, b>>) = <<b>>
    OBVIOUS
  <1>3. Append(<<a>>, b) = <<a, b>>
    <2> DEFINE S == {a, b}
    <2>1. <<a>> \in Seq(S) /\ <<a, b>> \in Seq(S) /\ b \in S
      OBVIOUS
    <2>2. /\ Append(<<a>>, b) \in Seq(S)
          /\ Len(Append(<<a>>, b)) = 2
          /\ Append(<<a>>, b)[1] = a
          /\ Append(<<a>>, b)[2] = b
      BY <2>1, AppendProperties
    <2>3. Len(<<a, b>>) = 2 /\ <<a, b>>[1] = a /\ <<a, b>>[2] = b
      OBVIOUS
    <2>4. \A i \in 1..2 : Append(<<a>>, b)[i] = <<a, b>>[i]
      <3>1. \A i \in 1..2 : i = 1 \/ i = 2
        OBVIOUS
      <3> HIDE DEF S
      <3> QED
        BY <2>2, <2>3, <3>1
    <2> HIDE DEF S
    <2> QED
      BY <2>1, <2>2, <2>3, <2>4, SeqEqual
  <1> QED
    BY <1>1, <1>2, <1>3

LEMMA FrameKinds ==
  /\ \A n : SizeFrame(n).kind = "size" /\ SizeFrame(n).size = n
  /\ \A m : DataFrame(m).kind = "data" /\ DataFrame(m).msg = m
  BY DEF SizeFrame, DataFrame

(* What can be read from a direction in each of its states.                *)
LEMMA EmptyWire == ~SizeArrives(<<>>) /\ ~DataArrives(<<>>)
  BY DEF SizeArrives, DataArrives

LEMMA SizeWire ==
  ASSUME NEW n
  PROVE  SizeArrives(<<SizeFrame(n)>>) /\ ~DataArrives(<<SizeFrame(n)>>)
  BY OneElement, FrameKinds DEF SizeArrives, DataArrives

LEMMA DataWire ==
  ASSUME NEW m
  PROVE  ~SizeArrives(<<DataFrame(m)>>) /\ DataArrives(<<DataFrame(m)>>)
  BY OneElement, FrameKinds DEF SizeArrives, DataArrives

LEMMA WholeWire ==
  ASSUME NEW n, NEW m
  PROVE  /\ SizeArrives(<<SizeFrame(n), DataFrame(m)>>)
         /\ ~DataArrives(<<SizeFrame(n), DataFrame(m)>>)
  BY TwoElements, FrameKinds DEF SizeArrives, DataArrives

(* A reply queue of one element.                                           *)
LEMMA OneReply ==
  ASSUME NEW m
  PROVE  /\ PushBack(<<>>, m) = <<m>>
         /\ Peek(<<m>>) = m
         /\ PopBack(<<m>>) = <<>>
  <1>1. PushBack(<<>>, m) = <<m>>
    BY OneElement DEF PushBack
  <1>2. Peek(<<m>>) = m
    BY OneElement DEF Peek
  <1>3. PopBack(<<m>>) = <<>>
    BY OneElement DEF PopBack
  <1> QED
    BY <1>1, <1>2, <1>3

-----------------------------------------------------------------------------
(* LockStep, one conjunct per group of states of the IO thread.            *)
LockStepByCase ==
  /\ io \in {"connecting", "check", "block", "waiting", "pop", "sendSize"} => Quiet
  /\ io = "sendData" => RequestBegun
  /\ io = "readSize" => RequestUnderWay \/ ReplyPrepared \/ ReplyBegun
  /\ io = "readData" => ReplyHalfRead
  /\ io = "push"     => Quiet /\ received = sending
  /\ io = "ended"    => ReplyAbandoned

LEMMA LockStepCases ==
  ASSUME io \in IoStates
  PROVE  LockStep <=> (Running => LockStepByCase)
  BY DEF LockStep, LockStepByCase, IoStates

LEMMA LockStepCasesNext ==
  ASSUME io' \in IoStates
  PROVE  LockStep' <=> (Running' => LockStepByCase')
  BY DEF LockStep, LockStepByCase, IoStates

LEMMA InitLockStep == Init => LockStep
  BY DEF Init, WireInit, DriverInit, SessionInit, LockStep, Quiet

(* A step that leaves alone what LockStep looks at.                        *)
LEMMA LockStepUnseen ==
  ASSUME LockStep, io \in IoStates,
         Running' => Running,
         UNCHANGED <<io, sending, received, toServer, toClient, session, replyQueue, replying>>
  PROVE  LockStep'
  <1>1. Running => LockStepByCase
    BY LockStepCases
  <1>2. LockStepByCase => LockStepByCase'
    BY DEF LockStepByCase, Quiet, RequestBegun, RequestUnderWay, ReplyPrepared, ReplyBegun,
           ReplyHalfRead, ReplyAbandoned
  <1> QED
    BY <1>1, <1>2, LockStepCasesNext

-----------------------------------------------------------------------------
(* The steps of the driver.                                                *)

LEMMA DriverLockStep ==
  TypeOK /\ TypeOK' /\ LockStep /\ DriverStep => LockStep'
  <1> SUFFICES ASSUME TypeOK, TypeOK', LockStep, DriverStep PROVE LockStep'
    OBVIOUS
  <1>a. UNCHANGED <<session, replyQueue, replying>>
    BY DEF DriverStep, sessionVars
  <1>b. io \in IoStates /\ io' \in IoStates
    BY DEF TypeOK, DriverTypeOK
  <1>c. Running /\ LockStepByCase
    BY <1>b, LockStepCases DEF DriverStep, DriverNext, IoThread, Notifier, CallerThread, BeginCall
  <1>d. SUFFICES ASSUME Running' PROVE LockStepByCase'
    BY <1>b, LockStepCasesNext
  <1> USE DEF LockStepByCase
  <1>1. CASE Connect
    BY <1>1, <1>a, <1>c DEF Connect, Quiet, ReplyAbandoned
  <1>2. CASE CheckQueue
    BY <1>2, <1>a, <1>c DEF CheckQueue, wireVars, Quiet
  <1>3. CASE Block
    BY <1>3, <1>a, <1>c DEF Block, wireVars, Quiet
  <1>4. CASE PopRequest
    BY <1>4, <1>a, <1>c DEF PopRequest, wireVars, Quiet
  <1>5. CASE SendSize
    BY <1>5, <1>a, <1>c, OneElement DEF SendSize, Quiet, RequestBegun
  <1>6. CASE SendData
    <2>1. RequestBegun /\ io' = "readSize" /\ toServer' = Append(toServer, DataFrame(sending))
          /\ sending' = sending /\ toClient' = toClient
      BY <1>6, <1>c DEF SendData
    <2>2. /\ HeaderSize(sending)' = HeaderSize(sending)
          /\ toClient' = <<>> /\ replyQueue' = <<>>
      BY <1>a, <2>1 DEF RequestBegun, HeaderSize
    <2>3. CASE toServer = <<SizeFrame(HeaderSize(sending))>> /\ session \in {"accepting", "readSize"}
      <3>1. toServer' = <<SizeFrame(HeaderSize(sending)), DataFrame(sending)>>
        BY <2>1, <2>3, TwoElements
      <3> QED
        BY <1>a, <2>1, <2>2, <2>3, <3>1 DEF RequestUnderWay, HeaderSize
    <2>4. CASE toServer = <<>> /\ session = "readData"
      <3>1. toServer' = <<DataFrame(sending)>>
        BY <2>1, <2>4, OneElement
      <3> QED
        BY <1>a, <2>1, <2>2, <2>4, <3>1 DEF RequestUnderWay
    <2> QED
      BY <2>1, <2>3, <2>4 DEF RequestBegun
  <1>7. CASE ReadSize
    <2>1. /\ io = "readSize" /\ toClient' = Tail(toClient) /\ toClient # <<>>
          /\ sending' = sending /\ toServer' = toServer
      BY <1>7 DEF ReadSize, SizeArrives
    <2>2. ReplyBegun
      BY <1>c, <2>1 DEF RequestUnderWay, ReplyPrepared
    <2>3. PICK n \in Announcements :
            \/ toClient = <<SizeFrame(n)>> /\ session = "sendData" /\ replying = sending
            \/ toClient = <<SizeFrame(n), DataFrame(sending)>> /\ session = "readSize"
      BY <2>2 DEF ReplyBegun
    <2>4. ReplyHalfRead'
      <3>1. CASE toClient = <<SizeFrame(n)>> /\ session = "sendData" /\ replying = sending
        <4>1. toClient' = <<>>
          BY <2>1, <3>1, OneElement
        <4> QED
          BY <1>a, <2>1, <2>2, <3>1, <4>1 DEF ReplyBegun, ReplyHalfRead
      <3>2. CASE toClient = <<SizeFrame(n), DataFrame(sending)>> /\ session = "readSize"
        <4>1. toClient' = <<DataFrame(sending)>>
          BY <2>1, <3>2, TwoElements
        <4> QED
          BY <1>a, <2>1, <2>2, <3>2, <4>1 DEF ReplyBegun, ReplyHalfRead
      <3> QED
        BY <2>3, <3>1, <3>2
    <2>5. ReplyAbandoned'
      BY <1>a, <2>1, <2>2, <2>3 DEF ReplyBegun, ReplyAbandoned
    <2>6. io' \in {"ended", "readData"}
      BY <1>7, <1>c, <1>d DEF ReadSize, Crash, Running
    <2> QED
      BY <2>4, <2>5, <2>6
  <1>8. CASE ReadData
    <2>1. /\ io = "readData" /\ toClient' = Tail(toClient) /\ toClient # <<>>
          /\ sending' = sending /\ toServer' = toServer
      BY <1>8 DEF ReadData, DataArrives
    <2>2. ReplyHalfRead /\ toClient = <<DataFrame(sending)>> /\ session = "readSize"
      BY <1>c, <2>1 DEF ReplyHalfRead
    <2>3. Quiet' /\ ReplyAbandoned'
      BY <1>a, <2>1, <2>2, OneElement DEF ReplyHalfRead, Quiet, ReplyAbandoned
    <2>4. Head(toClient).msg = sending
      BY <2>2, OneElement, FrameKinds
    <2>5. \/ io' = "ended"
          \/ io' = "push" /\ received' = Head(toClient).msg
          \/ crash' = "parse"
      BY <1>8 DEF ReadData, Crash
    <2>6. crash' # "parse"
      BY <1>d DEF Running
    <2> QED
      BY <2>1, <2>3, <2>4, <2>5, <2>6
  <1>9. CASE PushResponse
    BY <1>9, <1>a, <1>c DEF PushResponse, wireVars, Quiet
  <1>10. CASE NotifierService
    BY <1>10, <1>a, <1>c DEF NotifierService, WakeIo, wireVars, Quiet
  <1>11. CASE SpuriousWakeup
    BY <1>11, <1>a, <1>c DEF SpuriousWakeup, WakeIo, wireVars, Quiet
  <1>12. ASSUME NEW c \in Callers, NEW b \in Bodies, QueueRequest(c, b)
         PROVE  LockStepByCase'
    <2>1. UNCHANGED <<io, sending, received, toServer, toClient>>
      BY <1>12 DEF QueueRequest, ioVars, wireVars
    <2> QED
      BY <1>a, <1>b, <1>c, <1>d, <2>1, LockStepUnseen, LockStepCasesNext
  <1>13. ASSUME NEW c \in Callers, NotifyIo(c)
         PROVE  LockStepByCase'
    <2>1. /\ UNCHANGED <<sending, received, toServer, toClient>>
          /\ io' = IF io = "waiting" THEN "check" ELSE io
      BY <1>13 DEF NotifyIo, WakeIo, wireVars
    <2>2. CASE io = "waiting"
      BY <1>a, <1>c, <2>1, <2>2 DEF Quiet
    <2>3. CASE io # "waiting"
      BY <1>a, <1>b, <1>c, <1>d, <2>1, <2>3, LockStepUnseen, LockStepCasesNext
    <2> QED
      BY <2>2, <2>3
  <1>14. ASSUME NEW c \in Callers, PollHit(c) \/ TimeOut(c) \/ RemoveFind(c) \/ RemoveErase(c)
         PROVE  LockStepByCase'
    <2>1. UNCHANGED <<io, sending, received, toServer, toClient>>
      BY <1>14 DEF PollHit, TimeOut, RemoveFind, RemoveErase, ioVars, wireVars
    <2> QED
      BY <1>a, <1>b, <1>c, <1>d, <2>1, LockStepUnseen, LockStepCasesNext
  <1> QED
    BY <1>1, <1>2, <1>3, <1>4, <1>5, <1>6, <1>7, <1>8, <1>9, <1>10, <1>11, <1>12, <1>13, <1>14
    DEF DriverStep, DriverNext, IoThread, Notifier, CallerThread, BeginCall

-----------------------------------------------------------------------------
(* The steps of the session.                                               *)

LEMMA ServerLockStep ==
  TypeOK /\ TypeOK' /\ LockStep /\ ServerStep => LockStep' /\ session' # "waiting"
  <1> SUFFICES ASSUME TypeOK, TypeOK', LockStep, ServerStep
               PROVE  LockStep' /\ session' # "waiting"
    OBVIOUS
  <1>a. UNCHANGED <<io, sending, received>>
    BY DEF ServerStep, driverVars, ioVars
  <1>b. io \in IoStates /\ io' \in IoStates
    BY DEF TypeOK, DriverTypeOK
  <1>c. Running /\ LockStepByCase
    BY <1>b, LockStepCases DEF ServerStep, SessionThread
  <1>d. SUFFICES (Running' => LockStepByCase') /\ session' # "waiting"
    BY <1>b, LockStepCasesNext
  <1> USE DEF LockStepByCase
  <1>1. CASE Accept
    <2>1. session = "accepting" /\ session' = "readSize"
          /\ UNCHANGED <<toServer, toClient, replyQueue, replying>>
      BY <1>1 DEF Accept, wireVars
    <2> QED
      BY <1>a, <1>b, <1>c, <2>1
      DEF IoStates, Quiet, RequestBegun, RequestUnderWay, ReplyPrepared, ReplyBegun, ReplyHalfRead,
          ReplyAbandoned
  <1>2. CASE SessionReadSize
    <2>1. session = "readSize" /\ session' = "readData" /\ toServer # <<>>
          /\ toServer' = Tail(toServer) /\ UNCHANGED <<toClient, replyQueue, replying>>
      BY <1>2 DEF SessionReadSize, SizeArrives
    <2>2. \/ io = "sendData" /\ RequestBegun
          \/ io = "readSize" /\ RequestUnderWay
      BY <1>b, <1>c, <2>1
      DEF IoStates, Quiet, ReplyPrepared, ReplyBegun, ReplyHalfRead, ReplyAbandoned
    <2>3. CASE io = "sendData" /\ RequestBegun
      <3>1. toServer = <<SizeFrame(HeaderSize(sending))>>
        BY <2>1, <2>3 DEF RequestBegun
      <3>2. RequestBegun'
        BY <1>a, <2>1, <2>3, <3>1, OneElement DEF RequestBegun
      <3> QED
        BY <1>a, <2>1, <2>3, <3>2
    <2>4. CASE io = "readSize" /\ RequestUnderWay
      <3>1. toServer = <<SizeFrame(HeaderSize(sending)), DataFrame(sending)>>
        BY <2>1, <2>4 DEF RequestUnderWay
      <3>2. RequestUnderWay'
        BY <1>a, <2>1, <2>4, <3>1, TwoElements DEF RequestUnderWay
      <3> QED
        BY <1>a, <2>1, <2>4, <3>2
    <2> QED
      BY <2>2, <2>3, <2>4
  <1>3. CASE SessionReadData
    <2>1. session = "readData" /\ toServer # <<>> /\ toServer' = Tail(toServer)
          /\ UNCHANGED <<toClient, replying>>
      BY <1>3 DEF SessionReadData, DataArrives
    <2>2. io = "readSize" /\ toServer = <<DataFrame(sending)>> /\ toClient = <<>> /\ replyQueue = <<>>
      BY <1>b, <1>c, <2>1
      DEF IoStates, Quiet, RequestBegun, RequestUnderWay, ReplyPrepared, ReplyBegun, ReplyHalfRead,
          ReplyAbandoned
    <2>3. Head(toServer).msg = sending
      BY <2>2, OneElement, FrameKinds
    <2>4. \/ replyQueue' = PushBack(replyQueue, Head(toServer).msg) /\ session' = "check"
          \/ crash' # "none" /\ session' = session
      BY <1>3 DEF SessionReadData, Crash
    <2>5. CASE replyQueue' = PushBack(replyQueue, Head(toServer).msg) /\ session' = "check"
      <3>1. replyQueue' = <<sending>>
        BY <2>2, <2>3, <2>5, OneReply
      <3>2. ReplyPrepared'
        BY <1>a, <2>1, <2>2, <2>5, <3>1, OneElement DEF ReplyPrepared
      <3> QED
        BY <1>a, <2>2, <2>5, <3>2
    <2>6. CASE crash' # "none" /\ session' = session
      BY <2>1, <2>6 DEF Running
    <2> QED
      BY <2>4, <2>5, <2>6
  <1>4. CASE TakeReply
    <2>1. session = "check" /\ UNCHANGED <<toServer, toClient>>
      BY <1>4 DEF TakeReply, wireVars
    <2>2. io = "readSize" /\ ReplyPrepared /\ replyQueue = <<sending>>
      BY <1>b, <1>c, <2>1
      DEF IoStates, Quiet, RequestBegun, RequestUnderWay, ReplyPrepared, ReplyBegun, ReplyHalfRead,
          ReplyAbandoned
    <2>3. session' = "sendSize" /\ replying' = sending /\ replyQueue' = <<>>
      BY <1>4, <2>2, OneReply, OneElement DEF TakeReply
    <2>4. ReplyPrepared'
      BY <1>a, <2>1, <2>2, <2>3 DEF ReplyPrepared
    <2> QED
      BY <1>a, <2>2, <2>3, <2>4
  <1>5. CASE SessionSendSize
    <2>1. /\ session = "sendSize" /\ session' = "sendData" /\ UNCHANGED <<toServer, replyQueue, replying>>
          /\ \E n \in {HeaderSize(replying)} \cup DanglingSizes :
               toClient' = Append(toClient, SizeFrame(n))
      BY <1>5 DEF SessionSendSize
    <2>2. io = "readSize" /\ ReplyPrepared /\ replying = sending
      BY <1>b, <1>c, <2>1
      DEF IoStates, Quiet, RequestBegun, RequestUnderWay, ReplyPrepared, ReplyBegun, ReplyHalfRead,
          ReplyAbandoned
    <2>3. HeaderSize(replying) \in Announcements
      BY <2>1, HeaderSizeType DEF TypeOK, PointersSet
    <2>4. \E n \in Announcements : toClient' = Append(toClient, SizeFrame(n))
      BY <2>1, <2>3 DEF Announcements
    <2>5. ReplyBegun'
      BY <1>a, <2>1, <2>2, <2>4, OneElement DEF ReplyPrepared, ReplyBegun, Announcements
    <2> QED
      BY <1>a, <2>1, <2>2, <2>5
  <1>6. CASE SessionSendData
    <2>1. session = "sendData" /\ session' = "readSize" /\ UNCHANGED <<toServer, replyQueue, replying>>
          /\ toClient' = Append(toClient, DataFrame(replying))
      BY <1>6 DEF SessionSendData
    <2>2. \/ io = "readSize" /\ ReplyBegun
          \/ io = "readData" /\ ReplyHalfRead
          \/ io = "ended" /\ ReplyAbandoned
      BY <1>b, <1>c, <2>1
      DEF IoStates, Quiet, RequestBegun, RequestUnderWay, ReplyPrepared
    <2>3. CASE io = "readSize" /\ ReplyBegun
      <3>1. \E n \in Announcements : toClient = <<SizeFrame(n)>> /\ replying = sending
        BY <2>1, <2>3 DEF ReplyBegun
      <3>2. ReplyBegun'
        BY <1>a, <2>1, <2>3, <3>1, TwoElements DEF ReplyBegun, Announcements
      <3> QED
        BY <1>a, <2>1, <2>3, <3>2
    <2>4. CASE io = "readData" /\ ReplyHalfRead
      <3>1. ReplyHalfRead'
        BY <1>a, <2>1, <2>4, OneElement DEF ReplyHalfRead
      <3> QED
        BY <1>a, <2>1, <2>4, <3>1
    <2>5. CASE io = "ended" /\ ReplyAbandoned
      BY <1>a, <2>1, <2>5 DEF ReplyAbandoned
    <2> QED
      BY <2>2, <2>3, <2>4, <2>5
  <1> QED
    BY <1>1, <1>2, <1>3, <1>4, <1>5, <1>6 DEF ServerStep, SessionThread

-----------------------------------------------------------------------------
(* The driver and the session always keep step.                            *)
THEOREM KeepStep == Spec => []LockStep
  <1>1. TypeOK /\ LockStep /\ UNCHANGED vars => LockStep'
    <2> SUFFICES ASSUME TypeOK, LockStep, UNCHANGED vars PROVE LockStep'
      OBVIOUS
    <2>1. UNCHANGED <<io, sending, received, toServer, toClient, session, replyQueue, replying,
                      crash>>
      BY DEF vars, driverVars, ioVars, sessionVars, wireVars
    <2> QED
      BY <2>1, LockStepUnseen DEF TypeOK, DriverTypeOK, Running
  <1>2. TypeOK /\ TypeOK' /\ LockStep /\ [Next]_vars => LockStep'
    BY <1>1, DriverLockStep, ServerLockStep DEF Next
  <1> QED
    BY <1>2, InitLockStep, TypeCorrect, PTL DEF Spec

(* The session never finds its reply queue empty and so never waits.       *)
THEOREM NeverWaits == Spec => []SessionNeverWaits
  <1>1. Init => SessionNeverWaits
    BY DEF Init, SessionInit, SessionNeverWaits
  <1>2. TypeOK /\ TypeOK' /\ LockStep /\ SessionNeverWaits /\ [Next]_vars => SessionNeverWaits'
    BY ServerLockStep DEF SessionNeverWaits, Next, DriverStep, vars, sessionVars
  <1> QED
    BY <1>1, <1>2, KeepStep, TypeCorrect, PTL DEF Spec

-----------------------------------------------------------------------------
(***************************************************************************)
(* No call is processed twice, and the driver and the server implement     *)
(* RequestResponse.                                                        *)
(*                                                                         *)
(* The argument follows a request: while it is queued, or the IO thread    *)
(* has it and the session has not read it, it is in one place and was not  *)
(* processed; once the session has read it, it is in no queue of requests  *)
(* any more.                                                               *)
(***************************************************************************)
Begun(k) == outcome[k] # "none"
Ended(k) == outcome[k] \in {"answered", "timedOut"}

(* A caller's calls are made one after the other.                          *)
CallsInOrder ==
  \A c \in Callers, n \in 1..MaxCalls :
    /\ n > calls[c] => ~Begun(<<c, n>>)
    /\ n < calls[c] => Ended(<<c, n>>)
    /\ n = calls[c] => IF phase[c] = "idle" THEN Ended(<<c, n>>)
                       ELSE outcome[<<c, n>>] = "waiting"

Queued(k) == \E i \in 1..Len(bufferQueue) : bufferQueue[i].id = k

(* The IO thread has a request that the session has not read ...           *)
Undelivered == io \in {"sendSize", "sendData"} \/ (io = "readSize" /\ toServer # <<>>)

(* ... or one that it has.                                                 *)
Delivered == io \in {"readData", "push"} \/ (io = "readSize" /\ toServer = <<>>)

QueuedOnce ==
  \A i, j \in 1..Len(bufferQueue) : bufferQueue[i].id = bufferQueue[j].id => i = j

QueuedFresh ==
  \A i \in 1..Len(bufferQueue) :
    Begun(bufferQueue[i].id) /\ executions[bufferQueue[i].id] = 0

SendingFresh ==
  Undelivered => /\ Begun(sending.id) /\ executions[sending.id] = 0
                 /\ ~Queued(sending.id)

UnbegunFresh == \A k \in Calls : ~Begun(k) => executions[k] = 0

Fresh == QueuedOnce /\ QueuedFresh /\ SendingFresh /\ UnbegunFresh /\ AtMostOnce

SendingDone == Delivered => executions[sending.id] = 1

ResponsesDone ==
  \A i \in 1..Len(responseQueue) :
    responseQueue[i] # NullRef => executions[responseQueue[i]] = 1

FoundDone ==
  \A c \in Callers : phase[c] \in {"found", "erase"} => executions[request[c].id] = 1

Done == (Running => SendingDone) /\ ResponsesDone /\ FoundDone

Accounts == CallsInOrder /\ Fresh /\ Done

-----------------------------------------------------------------------------
(* What the parts depend on.                                               *)

LEMMA InOrderUnseen ==
  CallsInOrder /\ UNCHANGED <<calls, phase, outcome>> => CallsInOrder'
  BY DEF CallsInOrder, Begun, Ended

LEMMA FreshUnseen ==
  ASSUME Fresh, Undelivered' => Undelivered,
         UNCHANGED <<bufferQueue, executions, outcome, sending>>
  PROVE  Fresh'
  BY DEF Fresh, QueuedOnce, QueuedFresh, SendingFresh, UnbegunFresh, AtMostOnce, Queued, Begun

LEMMA DoneUnseen ==
  ASSUME Done, Running, Delivered' => Delivered,
         UNCHANGED <<executions, sending, responseQueue, phase, request>>
  PROVE  Done'
  BY DEF Done, SendingDone, ResponsesDone, FoundDone

LEMMA InitAccounts == Init => Accounts
  <1> SUFFICES ASSUME Init PROVE Accounts
    OBVIOUS
  <1> USE DEF Init, WireInit, DriverInit, SessionInit
  <1>1. CallsInOrder
    <2>1. ASSUME NEW c \in Callers, NEW n \in 1..MaxCalls
          PROVE  calls[c] = 0 /\ ~(n < 0) /\ n # 0 /\ outcome[<<c, n>>] = "none"
      BY WireAssumption DEF Calls
    <2> QED
      BY <2>1 DEF CallsInOrder, Begun
  <1>2. Fresh
    <2>1. Len(bufferQueue) = 0 /\ ~Undelivered
      BY DEF Undelivered
    <2>2. \A k \in Calls : executions[k] = 0
      OBVIOUS
    <2>3. 0 <= 1
      OBVIOUS
    <2> QED
      BY <2>1, <2>2, <2>3
      DEF Fresh, QueuedOnce, QueuedFresh, SendingFresh, UnbegunFresh, AtMostOnce
  <1>3. Done
    <2>1. Len(responseQueue) = 0 /\ ~Delivered /\ \A c \in Callers : phase[c] = "idle"
      BY DEF Delivered
    <2> QED
      BY <2>1 DEF Done, SendingDone, ResponsesDone, FoundDone
  <1> QED
    BY <1>1, <1>2, <1>3 DEF Accounts

-----------------------------------------------------------------------------
(* The steps of the session.                                               *)

(* What the session reads is what the IO thread has sent.                  *)
LEMMA SessionReads ==
  ASSUME TypeOK, LockStep, Running
  PROVE  /\ SessionReadSize /\ io = "readSize" => Tail(toServer) # <<>>
         /\ SessionReadData => /\ io = "readSize" /\ toServer = <<DataFrame(sending)>>
                               /\ Head(toServer).msg = sending /\ Tail(toServer) = <<>>
  <1>1. io \in IoStates
    BY DEF TypeOK, DriverTypeOK
  <1>2. LockStepByCase
    BY <1>1, LockStepCases
  <1>3. ASSUME SessionReadSize, io = "readSize" PROVE Tail(toServer) # <<>>
    <2>1. session = "readSize" /\ toServer # <<>>
      BY <1>3 DEF SessionReadSize, SizeArrives
    <2>2. toServer = <<SizeFrame(HeaderSize(sending)), DataFrame(sending)>>
      BY <1>2, <1>3, <2>1 DEF LockStepByCase, RequestUnderWay, ReplyPrepared, ReplyBegun
    <2> QED
      BY <2>2, TwoElements, OneElement
  <1>4. ASSUME SessionReadData PROVE io = "readSize" /\ toServer = <<DataFrame(sending)>>
    <2>1. session = "readData" /\ toServer # <<>>
      BY <1>4 DEF SessionReadData, DataArrives
    <2> QED
      BY <1>1, <1>2, <2>1
      DEF LockStepByCase, IoStates, Quiet, RequestBegun, RequestUnderWay, ReplyPrepared, ReplyBegun,
          ReplyHalfRead, ReplyAbandoned
  <1> QED
    BY <1>3, <1>4, OneElement, FrameKinds

(* The session executes the request the IO thread has sent.                *)
Executes(k) ==
  /\ Begun(k) /\ executions[k] = 0
  /\ executions' = [executions EXCEPT ![k] = 1]

LEMMA ReadDataExecutes ==
  ASSUME TypeOK, LockStep, Running, Fresh, SessionReadData
  PROVE  /\ sending.id \in Calls /\ ~Queued(sending.id) /\ toServer' = <<>> /\ io = "readSize"
         /\ \/ Executes(sending.id) /\ crash' = crash
            \/ executions' = executions /\ crash' # "none"
  <1>1. /\ io = "readSize" /\ toServer # <<>> /\ Head(toServer).msg = sending
        /\ Tail(toServer) = <<>>
    BY SessionReads, OneElement
  <1>2. /\ toServer' = <<>>
        /\ \/ executions' = [executions EXCEPT ![sending.id] = @ + 1] /\ crash' = crash
           \/ executions' = executions /\ crash' # "none"
    BY <1>1 DEF SessionReadData, Crash
  <1>3. sending.id \in Calls
    BY <1>1 DEF TypeOK, PointersSet, Message
  <1>4. Begun(sending.id) /\ executions[sending.id] = 0 /\ ~Queued(sending.id)
    BY <1>1 DEF Fresh, SendingFresh, Undelivered
  <1>5. executions[sending.id] + 1 = 1
    BY <1>4
  <1>6. [executions EXCEPT ![sending.id] = @ + 1] = [executions EXCEPT ![sending.id] = 1]
    BY <1>5
  <1> QED
    BY <1>1, <1>2, <1>3, <1>4, <1>6 DEF Executes

LEMMA ServerAccounts ==
  TypeOK /\ LockStep /\ Accounts /\ ServerStep => Accounts'
  <1> SUFFICES ASSUME TypeOK, LockStep, Accounts, ServerStep PROVE Accounts'
    OBVIOUS
  <1> USE DEF Accounts
  <1>1. Running
    BY DEF ServerStep, SessionThread
  <1>2. /\ UNCHANGED <<io, sending, bufferQueue, responseQueue, outcome, calls, phase, request>>
    BY DEF ServerStep, driverVars, ioVars, callerVars
  <1>3. CallsInOrder'
    BY <1>2, InOrderUnseen
  <1>4. CASE Accept \/ TakeReply \/ SessionSendSize \/ SessionSendData
    <2>1. UNCHANGED <<executions, toServer>>
      BY <1>4 DEF Accept, TakeReply, SessionSendSize, SessionSendData, wireVars
    <2>2. (Undelivered' => Undelivered) /\ (Delivered' => Delivered)
      BY <1>2, <2>1 DEF Undelivered, Delivered
    <2> QED
      BY <1>1, <1>2, <1>3, <2>1, <2>2, FreshUnseen, DoneUnseen
  <1>5. CASE SessionReadSize
    <2>1. executions' = executions /\ toServer' = Tail(toServer) /\ toServer # <<>>
      BY <1>5 DEF SessionReadSize, SizeArrives
    <2>2. Undelivered' => Undelivered
      BY <1>2, <2>1 DEF Undelivered
    <2>3. Delivered' => Delivered
      BY <1>1, <1>2, <1>5, <2>1, SessionReads DEF Delivered
    <2> QED
      BY <1>1, <1>2, <1>3, <2>1, <2>2, <2>3, FreshUnseen, DoneUnseen
  <1>6. CASE SessionReadData
    <2>1. /\ sending.id \in Calls /\ ~Queued(sending.id) /\ toServer' = <<>> /\ io = "readSize"
          /\ \/ Executes(sending.id) /\ crash' = crash
             \/ executions' = executions /\ crash' # "none"
      BY <1>1, <1>6, ReadDataExecutes
    <2>2. ~Undelivered'
      BY <1>2, <2>1 DEF Undelivered
    <2>3. CASE executions' = executions /\ crash' # "none"
      <3>1. Fresh'
        BY <1>2, <2>2, <2>3, FreshUnseen
      <3>2. Done'
        BY <1>2, <2>3 DEF Done, ResponsesDone, FoundDone, Running
      <3> QED
        BY <1>3, <3>1, <3>2
    <2>4. CASE Executes(sending.id) /\ crash' = crash
      <3>1. /\ executions'[sending.id] = 1
            /\ \A k \in Calls : k # sending.id => executions'[k] = executions[k]
        BY <2>1, <2>4 DEF Executes, TypeOK, SessionTypeOK
      <3>2. \A k \in Calls : executions[k] = 1 => executions'[k] = 1
        BY <3>1
      <3>3. QueuedOnce'
        BY <1>2 DEF Fresh, QueuedOnce
      <3>4. QueuedFresh'
        <4>1. ASSUME NEW i \in 1..Len(bufferQueue)
              PROVE  Begun(bufferQueue[i].id) /\ executions'[bufferQueue[i].id] = 0
          <5>1. bufferQueue[i] \in Message
            BY ElementOfSeq DEF TypeOK, DriverTypeOK
          <5>2. bufferQueue[i].id \in Calls
            BY <5>1 DEF Message
          <5>3. bufferQueue[i].id # sending.id
            BY <2>1 DEF Queued
          <5> QED
            BY <3>1, <5>2, <5>3 DEF Fresh, QueuedFresh
        <4> QED
          BY <1>2, <4>1 DEF QueuedFresh, Begun
      <3>5. SendingFresh'
        BY <2>2 DEF SendingFresh
      <3>6. UnbegunFresh'
        BY <1>2, <2>4, <3>1 DEF Fresh, UnbegunFresh, Begun, Executes
      <3>7. AtMostOnce'
        <4>1. \A k \in Calls : executions'[k] = 1 \/ executions'[k] = executions[k]
          BY <3>1
        <4>2. 1 <= 1
          OBVIOUS
        <4> QED
          BY <4>1, <4>2 DEF Fresh, AtMostOnce
      <3>8. SendingDone'
        BY <1>2, <3>1 DEF SendingDone
      <3>9. ResponsesDone'
        <4>1. \A i \in 1..Len(responseQueue) : responseQueue[i] \in Calls \cup {NullRef}
          BY ElementOfSeq DEF TypeOK, DriverTypeOK
        <4> QED
          BY <1>2, <3>2, <4>1 DEF Done, ResponsesDone
      <3>10. FoundDone'
        <4>1. \A c \in Callers : phase[c] \in {"found", "erase"} => request[c].id \in Calls
          BY DEF TypeOK, PointersSet, Message
        <4> QED
          BY <1>2, <3>2, <4>1 DEF Done, FoundDone
      <3> QED
        BY <1>3, <3>3, <3>4, <3>5, <3>6, <3>7, <3>8, <3>9, <3>10 DEF Fresh, Done
    <2> QED
      BY <2>1, <2>3, <2>4
  <1> QED
    BY <1>4, <1>5, <1>6 DEF ServerStep, SessionThread

-----------------------------------------------------------------------------
(* The steps of the IO thread and of the notifier.                         *)

LEMMA PopAccounts ==
  ASSUME TypeOK, Fresh, PopRequest, executions' = executions
  PROVE  Fresh'
  <1> DEFINE q == bufferQueue
             l == Len(q)
  <1>1. /\ q \in Seq(Message) /\ q # <<>>
        /\ sending' = Peek(q) /\ bufferQueue' = PopBack(q) /\ io' = "sendSize"
        /\ outcome' = outcome
    BY DEF PopRequest, TypeOK, DriverTypeOK, PointersSet, callerVars
  <1>2. /\ Peek(q) = q[l] /\ l \in 1..l
        /\ Len(PopBack(q)) = l - 1
        /\ \A i \in 1..(l - 1) : PopBack(q)[i] = q[i]
    <2> HIDE DEF q
    <2> QED
      BY <1>1, PopBackLemma
  <1>3. l \in Nat /\ \A i \in 1..(l - 1) : i \in 1..l /\ i # l
    <2>1. l \in Nat
      BY <1>1, LenProperties
    <2> HIDE DEF l
    <2> QED
      BY <2>1
  <1>4. /\ Len(bufferQueue') = l - 1
        /\ \A i \in 1..(l - 1) : bufferQueue'[i] = q[i]
        /\ sending' = q[l]
    BY <1>1, <1>2
  <1>5. QueuedOnce'
    BY <1>3, <1>4 DEF Fresh, QueuedOnce
  <1>6. QueuedFresh'
    BY <1>1, <1>3, <1>4 DEF Fresh, QueuedFresh, Begun
  <1>7. SendingFresh'
    <2>1. Begun(q[l].id) /\ executions[q[l].id] = 0
      BY <1>2 DEF Fresh, QueuedFresh
    <2>2. ASSUME NEW i \in 1..(l - 1) PROVE bufferQueue'[i].id # q[l].id
      BY <1>2, <1>3, <1>4 DEF Fresh, QueuedOnce
    <2> QED
      BY <1>1, <1>4, <2>1, <2>2 DEF SendingFresh, Queued, Begun
  <1>8. UnbegunFresh' /\ AtMostOnce'
    BY <1>1 DEF Fresh, UnbegunFresh, AtMostOnce, Begun
  <1> QED
    BY <1>5, <1>6, <1>7, <1>8 DEF Fresh

LEMMA PushResponseAccounts ==
  ASSUME TypeOK, LockStep, Done, PushResponse, Running, executions' = executions
  PROVE  Done'
  <1> DEFINE q == responseQueue
             S == Calls \cup {NullRef}
  <1>1. /\ io = "push" /\ io' = "check" /\ responseQueue' = PushBack(q, received.id)
        /\ UNCHANGED <<sending, phase, request>>
    BY DEF PushResponse, callerVars
  <1>2. received = sending
    BY <1>1 DEF LockStep
  <1>3. executions[received.id] = 1
    BY <1>1, <1>2 DEF Done, SendingDone, Delivered
  <1>4. received.id \in S /\ q \in Seq(S)
    BY <1>1 DEF TypeOK, PointersSet, Message, DriverTypeOK
  <1>5. /\ Len(PushBack(q, received.id)) = Len(q) + 1
        /\ \A i \in 1..Len(q) : PushBack(q, received.id)[i] = q[i]
        /\ PushBack(q, received.id)[Len(q) + 1] = received.id
    <2> DEFINE e == received.id
    <2>1. e \in S /\ q \in Seq(S)
      BY <1>4
    <2> HIDE DEF q, S, e
    <2>2. /\ Len(PushBack(q, e)) = Len(q) + 1
          /\ \A i \in 1..Len(q) : PushBack(q, e)[i] = q[i]
          /\ PushBack(q, e)[Len(q) + 1] = e
      BY <2>1, PushBackLemma
    <2> QED
      BY <2>2 DEF e
  <1>6. \A i \in 1..(Len(q) + 1) : i \in 1..Len(q) \/ i = Len(q) + 1
    <2> DEFINE l == Len(q)
    <2>1. l \in Nat
      BY <1>4, LenProperties
    <2> HIDE DEF l
    <2>2. \A i \in 1..(l + 1) : i \in 1..l \/ i = l + 1
      BY <2>1
    <2> QED
      BY <2>2 DEF l
  <1>7. ResponsesDone'
    BY <1>1, <1>3, <1>5, <1>6 DEF Done, ResponsesDone
  <1>8. ~Delivered'
    BY <1>1 DEF Delivered
  <1> QED
    BY <1>1, <1>7, <1>8 DEF Done, SendingDone, FoundDone

LEMMA IoAccounts ==
  ASSUME TypeOK, LockStep, Accounts, executions' = executions,
         IoThread \/ Notifier \/ (Running /\ SpuriousWakeup)
  PROVE  Accounts'
  <1> USE DEF Accounts
  <1>1. Running /\ UNCHANGED <<calls, phase, request, outcome>>
    BY DEF IoThread, Notifier, SpuriousWakeup, Connect, CheckQueue, Block, PopRequest, SendSize,
           SendData, ReadSize, ReadData, PushResponse, NotifierService, callerVars
  <1>2. CallsInOrder'
    BY <1>1, InOrderUnseen
  <1>3. CASE Connect \/ CheckQueue \/ Block \/ NotifierService \/ SpuriousWakeup
    <2>1. UNCHANGED <<bufferQueue, responseQueue, sending>>
      BY <1>3 DEF Connect, CheckQueue, Block, NotifierService, SpuriousWakeup
    <2>2. io' \in {"check", "ended", "block", "pop", "waiting"}
      BY <1>3 DEF Connect, CheckQueue, Block, NotifierService, SpuriousWakeup, WakeIo
    <2> QED
      BY <1>1, <1>2, <2>1, <2>2, FreshUnseen, DoneUnseen DEF Undelivered, Delivered
  <1>4. CASE PopRequest
    <2>1. responseQueue' = responseQueue /\ io' = "sendSize"
      BY <1>4 DEF PopRequest
    <2>2. Done'
      BY <1>1, <2>1 DEF Done, SendingDone, ResponsesDone, FoundDone, Delivered
    <2> QED
      BY <1>2, <1>4, <2>2, PopAccounts
  <1>5. CASE SendSize
    <2>1. /\ UNCHANGED <<bufferQueue, responseQueue, sending>>
          /\ io = "sendSize" /\ io' = "sendData"
      BY <1>5 DEF SendSize
    <2> QED
      BY <1>1, <1>2, <2>1, FreshUnseen, DoneUnseen DEF Undelivered, Delivered
  <1>6. CASE SendData
    <2>1. /\ UNCHANGED <<bufferQueue, responseQueue, sending>>
          /\ io = "sendData" /\ io' = "readSize" /\ toServer' = Append(toServer, DataFrame(sending))
      BY <1>6 DEF SendData
    <2>2. toServer' # <<>>
      <3>1. DataFrame(sending) \in Frame
        BY <2>1, DataFrameType DEF TypeOK, PointersSet
      <3> QED
        BY <2>1, <3>1, AppendProperties DEF TypeOK, WireTypeOK
    <2> QED
      BY <1>1, <1>2, <2>1, <2>2, FreshUnseen, DoneUnseen DEF Undelivered, Delivered
  <1>7. CASE ReadSize
    <2>1. /\ UNCHANGED <<bufferQueue, responseQueue, sending, toServer>>
          /\ io = "readSize" /\ io' \in {"readSize", "readData", "ended"} /\ toClient # <<>>
      BY <1>7 DEF ReadSize, SizeArrives
    <2>2. toServer = <<>>
      BY <1>1, <2>1 DEF LockStep, RequestUnderWay, ReplyPrepared, ReplyBegun
    <2> QED
      BY <1>1, <1>2, <2>1, <2>2, FreshUnseen, DoneUnseen DEF Undelivered, Delivered
  <1>8. CASE ReadData
    <2>1. /\ UNCHANGED <<bufferQueue, responseQueue, sending, toServer>>
          /\ io = "readData" /\ io' \in {"readData", "push", "ended"}
      BY <1>8 DEF ReadData
    <2> QED
      BY <1>1, <1>2, <2>1, FreshUnseen, DoneUnseen DEF Undelivered, Delivered
  <1>9. CASE PushResponse
    <2>1. UNCHANGED <<bufferQueue, sending>> /\ io' = "check"
      BY <1>9 DEF PushResponse
    <2>2. Fresh'
      BY <1>1, <2>1, FreshUnseen DEF Undelivered
    <2> QED
      BY <1>1, <1>2, <1>9, <2>2, PushResponseAccounts
  <1> QED
    BY <1>3, <1>4, <1>5, <1>6, <1>7, <1>8, <1>9 DEF IoThread, Notifier

-----------------------------------------------------------------------------
(* The steps of a caller.                                                  *)

LEMMA QueueRequestAccounts ==
  ASSUME TypeOK, Accounts, Running, NEW c \in Callers, NEW b \in Bodies, QueueRequest(c, b),
         executions' = executions
  PROVE  Accounts'
  <1> DEFINE n == calls[c] + 1
             k == <<c, n>>
             m == [id |-> k, body |-> b]
             q == bufferQueue
             l == Len(q)
  <1>1. /\ phase[c] = "idle" /\ calls[c] \in 0..MaxCalls /\ n \in 1..MaxCalls /\ k \in Calls
        /\ m \in Message /\ m.id = k
        /\ q \in Seq(Message)
    <2>1. calls[c] \in 0..MaxCalls /\ calls[c] < MaxCalls /\ phase[c] = "idle" /\ MaxCalls \in Nat
      BY WireAssumption DEF QueueRequest, TypeOK, DriverTypeOK
    <2>2. n \in 1..MaxCalls
      BY <2>1
    <2>3. k \in Calls
      BY <2>2 DEF Calls
    <2> QED
      BY <2>1, <2>2, <2>3 DEF Message, TypeOK, DriverTypeOK
  <1>2. /\ bufferQueue' = PushBack(q, m)
        /\ calls'[c] = n /\ outcome'[k] = "waiting" /\ phase'[c] = "notify"
        /\ \A d \in Callers : d # c => /\ calls'[d] = calls[d] /\ phase'[d] = phase[d]
                                       /\ request'[d] = request[d]
        /\ \A j \in Calls : j # k => outcome'[j] = outcome[j]
        /\ UNCHANGED <<io, sending, responseQueue, toServer, crash>>
    BY <1>1 DEF QueueRequest, ioVars, wireVars, TypeOK, DriverTypeOK
  <1>3. ~Begun(k) /\ executions[k] = 0
    <2>1. n > calls[c]
      BY <1>1
    <2> QED
      BY <1>1, <2>1 DEF Accounts, CallsInOrder, Fresh, UnbegunFresh
  <1>4. /\ outcome'[k] # "none"
        /\ \A j \in Calls : Begun(j) => outcome'[j] # "none" /\ j # k
    BY <1>2, <1>3 DEF Begun
  <1>5. /\ Len(bufferQueue') = l + 1
        /\ \A i \in 1..l : bufferQueue'[i] = q[i]
        /\ bufferQueue'[l + 1] = m
        /\ l \in Nat
    <2>1. l \in Nat
      BY <1>1, LenProperties
    <2>2. /\ Len(PushBack(q, m)) = Len(q) + 1
          /\ \A i \in 1..Len(q) : PushBack(q, m)[i] = q[i]
          /\ PushBack(q, m)[Len(q) + 1] = m
      <3>1. q \in Seq(Message) /\ m \in Message
        BY <1>1
      <3> HIDE DEF q, m
      <3> QED
        BY <3>1, PushBackLemma
    <2> QED
      BY <1>2, <2>1, <2>2
  <1>6. \A i \in 1..(l + 1) : i \in 1..l \/ i = l + 1
    <2>1. l \in Nat
      BY <1>5
    <2> HIDE DEF l
    <2> QED
      BY <2>1
  <1>7. \A i \in 1..l : q[i].id \in Calls /\ q[i].id # k /\ Begun(q[i].id)
    <2> SUFFICES ASSUME NEW i \in 1..l PROVE q[i].id \in Calls /\ q[i].id # k /\ Begun(q[i].id)
      OBVIOUS
    <2>1. q[i] \in Message
      BY <1>1, ElementOfSeq
    <2>2. q[i].id \in Calls
      BY <2>1 DEF Message
    <2>3. Begun(q[i].id)
      BY DEF Accounts, Fresh, QueuedFresh
    <2> QED
      BY <1>3, <2>2, <2>3
  <1>8. CallsInOrder'
    <2> SUFFICES ASSUME NEW d \in Callers, NEW i \in 1..MaxCalls
                 PROVE  /\ i > calls'[d] => outcome'[<<d, i>>] = "none"
                        /\ i < calls'[d] => outcome'[<<d, i>>] \in {"answered", "timedOut"}
                        /\ i = calls'[d] => IF phase'[d] = "idle"
                                            THEN outcome'[<<d, i>>] \in {"answered", "timedOut"}
                                            ELSE outcome'[<<d, i>>] = "waiting"
      BY DEF CallsInOrder, Begun, Ended
    <2>1. <<d, i>> \in Calls
      BY DEF Calls
    <2>2. /\ i > calls[d] => outcome[<<d, i>>] = "none"
          /\ i < calls[d] => outcome[<<d, i>>] \in {"answered", "timedOut"}
          /\ i = calls[d] => IF phase[d] = "idle"
                             THEN outcome[<<d, i>>] \in {"answered", "timedOut"}
                             ELSE outcome[<<d, i>>] = "waiting"
      BY DEF Accounts, CallsInOrder, Begun, Ended
    <2>3. CASE d # c
      BY <1>2, <2>1, <2>2, <2>3
    <2>4. CASE d = c /\ i = n
      BY <1>1, <1>2, <2>4
    <2>5. CASE d = c /\ i # n
      <3>1. outcome'[<<d, i>>] = outcome[<<d, i>>] /\ calls'[d] = n
        BY <1>2, <2>1, <2>5
      <3>2. (i > n => i > calls[d]) /\ (i < n => i < calls[d] \/ i = calls[d])
        BY <1>1, <2>5
      <3> QED
        BY <1>1, <2>2, <2>5, <3>1, <3>2
    <2> QED
      BY <2>3, <2>4, <2>5
  <1>9. QueuedOnce'
    <2> SUFFICES ASSUME NEW i \in 1..(l + 1), NEW j \in 1..(l + 1),
                        bufferQueue'[i].id = bufferQueue'[j].id
                 PROVE  i = j
      BY <1>5 DEF QueuedOnce
    <2>1. CASE i \in 1..l /\ j \in 1..l
      BY <1>5, <2>1 DEF Accounts, Fresh, QueuedOnce
    <2>2. CASE i \in 1..l /\ j = l + 1
      BY <1>1, <1>5, <1>7, <2>2
    <2>3. CASE i = l + 1 /\ j \in 1..l
      BY <1>1, <1>5, <1>7, <2>3
    <2> QED
      BY <1>6, <2>1, <2>2, <2>3
  <1>10. QueuedFresh'
    <2> SUFFICES ASSUME NEW i \in 1..(l + 1)
                 PROVE  /\ outcome'[bufferQueue'[i].id] # "none"
                        /\ executions[bufferQueue'[i].id] = 0
      BY <1>5 DEF QueuedFresh, Begun
    <2>1. CASE i \in 1..l
      BY <1>4, <1>5, <1>7, <2>1 DEF Accounts, Fresh, QueuedFresh, Begun
    <2>2. CASE i = l + 1
      BY <1>1, <1>3, <1>4, <1>5, <2>2 DEF Begun
    <2> QED
      BY <1>6, <2>1, <2>2
  <1>11. SendingFresh'
    <2> SUFFICES ASSUME Undelivered
                 PROVE  /\ outcome'[sending.id] # "none" /\ executions[sending.id] = 0
                        /\ \A i \in 1..(l + 1) : bufferQueue'[i].id # sending.id
      BY <1>2, <1>5 DEF SendingFresh, Undelivered, Queued, Begun
    <2>1. Begun(sending.id) /\ executions[sending.id] = 0 /\ ~Queued(sending.id)
      BY DEF Accounts, Fresh, SendingFresh
    <2>2. sending.id \in Calls
      BY DEF Undelivered, TypeOK, PointersSet, Message
    <2>3. sending.id # k
      BY <1>3, <2>1
    <2>4. ASSUME NEW i \in 1..(l + 1) PROVE bufferQueue'[i].id # sending.id
      <3>1. CASE i \in 1..l
        BY <1>5, <2>1, <3>1 DEF Queued
      <3>2. CASE i = l + 1
        BY <1>1, <1>5, <2>3, <3>2
      <3> QED
        BY <1>6, <3>1, <3>2
    <2>5. outcome'[sending.id] # "none"
      BY <1>4, <2>1, <2>2
    <2> QED
      BY <2>1, <2>4, <2>5
  <1>12. UnbegunFresh' /\ AtMostOnce'
    BY <1>3, <1>4 DEF Accounts, Fresh, UnbegunFresh, AtMostOnce, Begun
  <1>13. Done'
    BY <1>2 DEF Accounts, Done, SendingDone, ResponsesDone, FoundDone, Delivered, Running
  <1> QED
    BY <1>8, <1>9, <1>10, <1>11, <1>12, <1>13 DEF Accounts, Fresh

(* A caller within a call waits for it.                                    *)
LEMMA CurrentWaits ==
  ASSUME TypeOK, CallsInOrder, NEW c \in Callers, phase[c] # "idle"
  PROVE  /\ request[c].id = <<c, calls[c]>> /\ calls[c] \in 1..MaxCalls
         /\ request[c].id \in Calls /\ request[c].id # NullRef
         /\ outcome[request[c].id] = "waiting"
  <1>1. request[c].id = <<c, calls[c]>> /\ request[c].id \in Calls
    BY DEF TypeOK, PointersSet, CurrentCall, Message
  <1>2. calls[c] \in 1..MaxCalls
    BY <1>1 DEF Calls
  <1> QED
    BY <1>1, <1>2, DriverAssumption DEF CallsInOrder

(* A call ends.                                                            *)
EndsCall(c) ==
  /\ phase[c] # "idle"
  /\ phase' = [phase EXCEPT ![c] = "idle"]
  /\ \E o \in {"answered", "timedOut"} : outcome' = [outcome EXCEPT ![request[c].id] = o]

LEMMA EndingAccounts ==
  ASSUME TypeOK, CallsInOrder, Fresh, NEW c \in Callers, EndsCall(c),
         UNCHANGED <<io, toServer, calls, bufferQueue, executions, sending>>
  PROVE  CallsInOrder' /\ Fresh'
  <1> DEFINE k == <<c, calls[c]>>
  <1>1. /\ phase[c] # "idle" /\ phase'[c] = "idle"
        /\ \A d \in Callers : d # c => phase'[d] = phase[d]
    BY DEF EndsCall, TypeOK, DriverTypeOK
  <1>2. k \in Calls /\ outcome[k] = "waiting" /\ calls[c] \in 1..MaxCalls /\ request[c].id = k
    BY <1>1, CurrentWaits
  <1>3. /\ outcome'[k] \in {"answered", "timedOut"}
        /\ \A j \in Calls : j # k => outcome'[j] = outcome[j]
    BY <1>2 DEF EndsCall, TypeOK, DriverTypeOK
  <1>4. CallsInOrder'
    <2> SUFFICES ASSUME NEW d \in Callers, NEW i \in 1..MaxCalls
                 PROVE  /\ i > calls[d] => outcome'[<<d, i>>] = "none"
                        /\ i < calls[d] => outcome'[<<d, i>>] \in {"answered", "timedOut"}
                        /\ i = calls[d] => IF phase'[d] = "idle"
                                           THEN outcome'[<<d, i>>] \in {"answered", "timedOut"}
                                           ELSE outcome'[<<d, i>>] = "waiting"
      BY DEF CallsInOrder, Begun, Ended
    <2>1. /\ i > calls[d] => outcome[<<d, i>>] = "none"
          /\ i < calls[d] => outcome[<<d, i>>] \in {"answered", "timedOut"}
          /\ i = calls[d] => IF phase[d] = "idle"
                             THEN outcome[<<d, i>>] \in {"answered", "timedOut"}
                             ELSE outcome[<<d, i>>] = "waiting"
      BY DEF CallsInOrder, Begun, Ended
    <2>2. <<d, i>> \in Calls
      BY DEF Calls
    <2>3. CASE d = c /\ i = calls[c]
      BY <1>1, <1>2, <1>3, <2>3
    <2>4. CASE d = c /\ i # calls[c]
      BY <1>3, <2>1, <2>2, <2>4
    <2>5. CASE d # c
      BY <1>1, <1>3, <2>1, <2>2, <2>5
    <2> QED
      BY <2>3, <2>4, <2>5
  <1>5. \A j \in Calls : outcome'[j] = "none" <=> outcome[j] = "none"
    BY <1>2, <1>3
  <1>6. QueuedOnce' /\ AtMostOnce'
    BY DEF Fresh, QueuedOnce, AtMostOnce
  <1>7. QueuedFresh'
    <2>1. ASSUME NEW i \in 1..Len(bufferQueue)
          PROVE  outcome'[bufferQueue[i].id] # "none" /\ executions[bufferQueue[i].id] = 0
      <3>1. bufferQueue[i] \in Message
        BY ElementOfSeq DEF TypeOK, DriverTypeOK
      <3>2. bufferQueue[i].id \in Calls
        BY <3>1 DEF Message
      <3> QED
        BY <1>5, <3>2 DEF Fresh, QueuedFresh, Begun
    <2> QED
      BY <2>1 DEF QueuedFresh, Begun
  <1>8. SendingFresh'
    <2>1. Undelivered => sending.id \in Calls
      BY DEF Undelivered, TypeOK, PointersSet, Message
    <2> QED
      BY <1>5, <2>1 DEF Fresh, SendingFresh, Undelivered, Queued, Begun
  <1>9. UnbegunFresh'
    BY <1>5 DEF Fresh, UnbegunFresh, Begun
  <1> QED
    BY <1>4, <1>6, <1>7, <1>8, <1>9 DEF Fresh

(* A caller goes on within its call.                                       *)
LEMMA WithinCall ==
  ASSUME TypeOK, CallsInOrder, NEW c \in Callers, phase[c] # "idle", NEW p, p # "idle",
         phase' = [phase EXCEPT ![c] = p], UNCHANGED <<calls, outcome>>
  PROVE  CallsInOrder'
  <1>1. \A d \in Callers : phase'[d] = "idle" <=> phase[d] = "idle"
    BY DEF TypeOK, DriverTypeOK
  <1> QED
    BY <1>1 DEF CallsInOrder, Begun, Ended

LEMMA NotifyAccounts ==
  ASSUME TypeOK, Accounts, Running, NEW c \in Callers, NotifyIo(c), executions' = executions
  PROVE  Accounts'
  <1>1. /\ phase[c] = "notify" /\ phase' = [phase EXCEPT ![c] = "poll"]
        /\ io' \in {io, "check"}
        /\ UNCHANGED <<sending, bufferQueue, responseQueue, request, calls, outcome, toServer, crash>>
    BY DEF NotifyIo, WakeIo, wireVars
  <1>2. CallsInOrder'
    BY <1>1, WithinCall DEF Accounts
  <1>3. Fresh'
    BY <1>1, FreshUnseen DEF Accounts, Undelivered
  <1>4. \A d \in Callers : phase'[d] \in {"found", "erase"} => phase[d] \in {"found", "erase"}
    BY <1>1 DEF TypeOK, DriverTypeOK
  <1>5. Done'
    BY <1>1, <1>4 DEF Accounts, Done, SendingDone, ResponsesDone, FoundDone, Delivered
  <1> QED
    BY <1>2, <1>3, <1>5 DEF Accounts

LEMMA PollHitAccounts ==
  ASSUME TypeOK, Accounts, Running, NEW c \in Callers, PollHit(c), executions' = executions
  PROVE  Accounts'
  <1>1. /\ phase[c] = "poll" /\ phase' = [phase EXCEPT ![c] = "found"]
        /\ Peek(responseQueue) = request[c].id
        /\ UNCHANGED <<io, sending, bufferQueue, responseQueue, request, calls, outcome, toServer,
                       crash>>
    BY DEF PollHit, ioVars, wireVars
  <1>2. CallsInOrder'
    BY <1>1, WithinCall DEF Accounts
  <1>3. Fresh'
    BY <1>1, FreshUnseen DEF Accounts, Undelivered
  <1>4. request[c].id # NullRef /\ request[c].id \in Calls
    BY <1>1, CurrentWaits DEF Accounts
  <1>5. \E i \in 1..Len(responseQueue) : responseQueue[i] = request[c].id
    <2> DEFINE S == Calls \cup {NullRef}
               e == request[c].id
    <2>1. responseQueue \in Seq(S) /\ e # NullRef /\ Peek(responseQueue) = e
      BY <1>1, <1>4 DEF TypeOK, DriverTypeOK
    <2>2. Len(responseQueue) \in PositionsOf(responseQueue, e)
      <3> HIDE DEF S, e
      <3> QED
        BY <2>1, PeekLemma
    <2> QED
      BY <2>2 DEF PositionsOf
  <1>6. executions[request[c].id] = 1
    BY <1>4, <1>5 DEF Accounts, Done, ResponsesDone
  <1>7. \A d \in Callers : d # c => phase'[d] = phase[d]
    BY <1>1 DEF TypeOK, DriverTypeOK
  <1>8. FoundDone'
    BY <1>1, <1>6, <1>7 DEF Accounts, Done, FoundDone
  <1>9. Done'
    BY <1>1, <1>8 DEF Accounts, Done, SendingDone, ResponsesDone, Delivered
  <1> QED
    BY <1>2, <1>3, <1>9 DEF Accounts

LEMMA TimeOutAccounts ==
  ASSUME TypeOK, Accounts, Running, NEW c \in Callers, TimeOut(c), executions' = executions
  PROVE  Accounts' /\ EndsCall(c)
  <1>1. /\ EndsCall(c)
        /\ UNCHANGED <<io, sending, bufferQueue, responseQueue, request, calls, toServer, crash>>
    BY DEF TimeOut, EndsCall, ioVars, wireVars
  <1>2. CallsInOrder' /\ Fresh'
    BY <1>1, EndingAccounts DEF Accounts
  <1>3. \A d \in Callers : phase'[d] \in {"found", "erase"} => phase[d] \in {"found", "erase"}
    BY <1>1 DEF EndsCall, TypeOK, DriverTypeOK
  <1>4. Done'
    BY <1>1, <1>3 DEF Accounts, Done, SendingDone, ResponsesDone, FoundDone, Delivered, Running
  <1> QED
    BY <1>1, <1>2, <1>4 DEF Accounts

(* A turn of remove() ends the call or leaves it under way.                *)
InRemove(c) ==
  \/ EndsCall(c)
  \/ /\ phase' = phase \/ phase' = [phase EXCEPT ![c] = "erase"]
     /\ outcome' = outcome

LEMMA RemoveTurn ==
  ASSUME NEW c \in Callers, RemoveFind(c) \/ RemoveErase(c)
  PROVE  /\ phase[c] \in {"found", "erase"} /\ InRemove(c)
         /\ UNCHANGED <<io, sending, bufferQueue, request, calls, toServer>>
  <1>1. phase[c] \in {"found", "erase"}
    BY DEF RemoveFind, RemoveErase
  <1>2. UNCHANGED <<io, sending, bufferQueue, request, calls, toServer>>
    BY DEF RemoveFind, RemoveErase, ioVars
  <1>3. InRemove(c)
    <2>1. ASSUME NEW v, Searched(c, v)
          PROVE  InRemove(c)
      BY <1>1, <2>1 DEF Searched, InRemove, EndsCall, Answer
    <2>2. \/ Searched(c, responseQueue) \/ Searched(c, responseQueue')
          \/ UNCHANGED <<phase, outcome>>
      BY SearchResult DEF RemoveFind, RemoveErase
    <2> QED
      BY <2>1, <2>2 DEF InRemove
  <1> QED
    BY <1>1, <1>2, <1>3

LEMMA InRemoveAccounts ==
  ASSUME TypeOK, Accounts, NEW c \in Callers, InRemove(c), phase[c] \in {"found", "erase"},
         executions' = executions,
         UNCHANGED <<io, sending, bufferQueue, request, calls, toServer>>
  PROVE  /\ CallsInOrder' /\ Fresh'
         /\ \A d \in Callers : phase'[d] \in {"found", "erase"} => phase[d] \in {"found", "erase"}
  <1>1. CASE EndsCall(c)
    <2>1. CallsInOrder' /\ Fresh'
      BY <1>1, EndingAccounts DEF Accounts
    <2> QED
      BY <1>1, <2>1 DEF EndsCall, TypeOK, DriverTypeOK
  <1>2. CASE phase' = [phase EXCEPT ![c] = "erase"] /\ outcome' = outcome
    <2>1. CallsInOrder' /\ Fresh'
      BY <1>2, WithinCall, FreshUnseen DEF Accounts, Undelivered
    <2> QED
      BY <1>2, <2>1 DEF TypeOK, DriverTypeOK
  <1>3. CASE phase' = phase /\ outcome' = outcome
    <2>1. Fresh'
      BY <1>3, FreshUnseen DEF Accounts, Undelivered
    <2>2. CallsInOrder'
      BY <1>3 DEF Accounts, CallsInOrder, Begun, Ended
    <2> QED
      BY <1>3, <2>1, <2>2
  <1> QED
    BY <1>1, <1>2, <1>3 DEF InRemove

LEMMA RemoveFindAccounts ==
  ASSUME TypeOK, Accounts, Running, NEW c \in Callers, RemoveFind(c), executions' = executions
  PROVE  Accounts'
  <1>1. /\ phase[c] \in {"found", "erase"} /\ InRemove(c)
        /\ UNCHANGED <<io, sending, bufferQueue, responseQueue, request, calls, toServer>>
    BY RemoveTurn DEF RemoveFind
  <1>2. /\ CallsInOrder' /\ Fresh'
        /\ \A d \in Callers : phase'[d] \in {"found", "erase"} => phase[d] \in {"found", "erase"}
    BY <1>1, InRemoveAccounts
  <1>3. Done'
    BY <1>1, <1>2 DEF Accounts, Done, SendingDone, ResponsesDone, FoundDone, Delivered, Running
  <1> QED
    BY <1>2, <1>3 DEF Accounts

(* However remove() was disturbed, what it leaves was there before.        *)
LEMMA ErasedKeeps ==
  ASSUME NEW v, NEW pos, NEW end, NEW len \in Nat, NEW P,
         \A i \in 1..Len(v) : v[i] # NullRef => v[i] \in P,
         NEW j \in 1..len, Erased(v, pos, end, len)[j] # NullRef
  PROVE  Erased(v, pos, end, len)[j] \in P
  <1>1. Erased(v, pos, end, len)[j] = Moved(v, pos, end, j)
    BY DEF Erased
  <1>2. \A i : SlotAt(v, i) # NullRef => SlotAt(v, i) \in P
    BY DEF SlotAt
  <1> QED
    BY <1>1, <1>2 DEF Moved

LEMMA ErasedLength ==
  ASSUME NEW v, NEW pos, NEW end, NEW len \in Nat
  PROVE  Len(Erased(v, pos, end, len)) = len
  BY DEF Erased

LEMMA RemoveEraseAccounts ==
  ASSUME TypeOK, Accounts, Running, NEW c \in Callers, RemoveErase(c), executions' = executions
  PROVE  Accounts'
  <1>1. /\ phase[c] \in {"found", "erase"} /\ InRemove(c)
        /\ UNCHANGED <<io, sending, bufferQueue, request, calls, toServer>>
    BY RemoveTurn
  <1>2. /\ CallsInOrder' /\ Fresh'
        /\ \A d \in Callers : phase'[d] \in {"found", "erase"} => phase[d] \in {"found", "erase"}
    BY <1>1, InRemoveAccounts
  <1>4. ResponsesDone'
    <2> DEFINE P == {k \in Calls : executions[k] = 1}
               v == responseQueue
    <2>1. \A i \in 1..Len(v) : v[i] # NullRef => v[i] \in P
      <3>1. \A i \in 1..Len(v) : v[i] \in Calls \cup {NullRef}
        BY ElementOfSeq DEF TypeOK, DriverTypeOK
      <3> QED
        BY <3>1 DEF Accounts, Done, ResponsesDone
    <2>2. PICK len \in LengthsAfterErase(v, removal[c].end) :
            \/ len >= 0 /\ responseQueue' = Erased(v, removal[c].pos, removal[c].end, len)
            \/ responseQueue' = v
      BY DEF RemoveErase
    <2>3. CASE responseQueue' = v
      BY <2>3 DEF Accounts, Done, ResponsesDone
    <2>4. CASE len >= 0 /\ responseQueue' = Erased(v, removal[c].pos, removal[c].end, len)
      <3>1. /\ removal[c].pos \in Nat /\ removal[c].end \in Nat /\ Len(v) \in Nat
            /\ v \in Seq(Calls \cup {NullRef})
        BY LenProperties DEF TypeOK, DriverTypeOK
      <3>2. len \in Nat
        BY <2>4, <3>1 DEF LengthsAfterErase
      <3>3. Len(responseQueue') = len
        BY <2>4, <3>2, ErasedLength
      <3>4. ASSUME NEW j \in 1..len, responseQueue'[j] # NullRef
            PROVE  executions[responseQueue'[j]] = 1
        <4>1. responseQueue'[j] \in P
          <5> HIDE DEF P, v
          <5> QED
            BY <2>1, <2>4, <3>2, <3>4, ErasedKeeps
        <4> QED
          BY <4>1
      <3> QED
        BY <3>3, <3>4 DEF ResponsesDone
    <2> QED
      BY <2>2, <2>3, <2>4
  <1>5. Done'
    BY <1>1, <1>2, <1>4 DEF Accounts, Done, SendingDone, FoundDone, Delivered, Running
  <1> QED
    BY <1>2, <1>5 DEF Accounts

LEMMA DriverAccounts ==
  TypeOK /\ LockStep /\ Accounts /\ DriverStep => Accounts'
  <1> SUFFICES ASSUME TypeOK, LockStep, Accounts, DriverStep PROVE Accounts'
    OBVIOUS
  <1>1. executions' = executions
    BY DEF DriverStep, sessionVars
  <1>2. CASE IoThread \/ Notifier \/ (Running /\ SpuriousWakeup)
    BY <1>1, <1>2, IoAccounts
  <1>3. ASSUME NEW c \in Callers, BeginCall(c) PROVE Accounts'
    BY <1>1, <1>3, QueueRequestAccounts DEF BeginCall
  <1>4. ASSUME NEW c \in Callers, CallerThread(c) PROVE Accounts'
    BY <1>1, <1>4, NotifyAccounts, PollHitAccounts, TimeOutAccounts, RemoveFindAccounts,
       RemoveEraseAccounts
    DEF CallerThread
  <1> QED
    BY <1>2, <1>3, <1>4 DEF DriverStep, DriverNext

LEMMA AlwaysAccounts == Spec => []Accounts
  <1>1. Accounts /\ UNCHANGED vars => Accounts'
    <2> SUFFICES ASSUME Accounts, UNCHANGED vars PROVE Accounts'
      OBVIOUS
    <2>1. UNCHANGED <<io, sending, bufferQueue, responseQueue, phase, request, calls, outcome,
                      executions, toServer, crash>>
      BY DEF vars, driverVars, ioVars, callerVars, sessionVars, wireVars
    <2>2. CallsInOrder' /\ Fresh'
      BY <2>1, InOrderUnseen, FreshUnseen DEF Accounts, Undelivered
    <2>3. Done'
      BY <2>1 DEF Accounts, Done, SendingDone, ResponsesDone, FoundDone, Delivered, Running
    <2> QED
      BY <2>2, <2>3 DEF Accounts
  <1>2. TypeOK /\ LockStep /\ Accounts /\ [Next]_vars => Accounts'
    BY <1>1, DriverAccounts, ServerAccounts DEF Next
  <1> QED
    BY <1>2, InitAccounts, TypeCorrect, KeepStep, PTL DEF Spec

(* No call is processed twice.                                             *)
THEOREM ProcessedOnce == Spec => []AtMostOnce
  <1>1. Accounts => AtMostOnce
    BY DEF Accounts, Fresh
  <1> QED
    BY <1>1, AlwaysAccounts, PTL

-----------------------------------------------------------------------------
(* Every step is one of RequestResponse, or none.                          *)

Unseen == UNCHANGED <<outcome, executions>>

LEMMA AbstractCalls == Abstract!Calls = Calls
  BY DEF Abstract!Calls, Calls

LEMMA InitMaps == Init => Abstract!Init
  BY AbstractCalls DEF Init, DriverInit, SessionInit, Abstract!Init

(* A caller begins a call when those before it have ended.                 *)
LEMMA QueueRequestMaps ==
  ASSUME TypeOK, CallsInOrder, NEW c \in Callers, NEW b \in Bodies, QueueRequest(c, b),
         executions' = executions
  PROVE  Abstract!Next
  <1> DEFINE n == calls[c] + 1
  <1>1. /\ phase[c] = "idle" /\ calls[c] \in 0..MaxCalls /\ calls[c] < MaxCalls
        /\ outcome' = [outcome EXCEPT ![<<c, n>>] = "waiting"]
    BY DEF QueueRequest, TypeOK, DriverTypeOK
  <1>2. /\ n \in 1..MaxCalls /\ n > calls[c]
        /\ \A i \in 1..(n - 1) : i \in 1..MaxCalls /\ (i < calls[c] \/ i = calls[c])
    BY <1>1, WireAssumption
  <1>3. outcome[<<c, n>>] = "none"
    BY <1>2 DEF CallsInOrder, Begun
  <1>4. \A i \in 1..(n - 1) : Ended(<<c, i>>)
    BY <1>1, <1>2 DEF CallsInOrder
  <1>5. Abstract!Call(c, n)
    BY <1>1, <1>3, <1>4 DEF Abstract!Call, Abstract!Ended, Ended
  <1> QED
    BY <1>2, <1>5 DEF Abstract!Next

(* The session processes a request its caller has made, once.              *)
LEMMA ServerMaps ==
  ASSUME TypeOK, LockStep, Accounts, ServerStep
  PROVE  Abstract!Next \/ Unseen
  <1>1. outcome' = outcome /\ Running
    BY DEF ServerStep, SessionThread, driverVars, callerVars
  <1>2. CASE SessionReadData
    <2>1. /\ sending.id \in Calls
          /\ Executes(sending.id) \/ executions' = executions
      BY <1>1, <1>2, ReadDataExecutes DEF Accounts
    <2>2. CASE Executes(sending.id)
      <3>1. Abstract!Execute(sending.id)
        BY <1>1, <2>2 DEF Executes, Begun, Abstract!Execute
      <3> QED
        BY <2>1, <3>1, AbstractCalls DEF Abstract!Next
    <2> QED
      BY <1>1, <2>1, <2>2 DEF Unseen
  <1>3. CASE ~SessionReadData
    BY <1>1, <1>3
    DEF Unseen, ServerStep, SessionThread, Accept, SessionReadSize, TakeReply, SessionSendSize,
        SessionSendData
  <1> QED
    BY <1>2, <1>3

(* What a caller has found on the stack, the server has processed.         *)
LEMMA AnswerMaps ==
  ASSUME TypeOK, Accounts, NEW c \in Callers, phase[c] \in {"found", "erase"}, Answer(c),
         executions' = executions
  PROVE  Abstract!Next
  <1>1. request[c].id \in Calls /\ outcome[request[c].id] = "waiting"
    BY CurrentWaits DEF Accounts
  <1>2. executions[request[c].id] = 1
    BY DEF Accounts, Done, FoundDone
  <1>3. Abstract!Return(request[c].id)
    BY <1>1, <1>2 DEF Answer, Abstract!Return
  <1> QED
    BY <1>1, <1>3, AbstractCalls DEF Abstract!Next

LEMMA CallerMaps ==
  ASSUME TypeOK, Accounts, NEW c \in Callers, CallerThread(c), executions' = executions
  PROVE  Abstract!Next \/ Unseen
  <1>1. CASE NotifyIo(c) \/ PollHit(c)
    BY <1>1 DEF NotifyIo, PollHit, Unseen
  <1>2. CASE TimeOut(c)
    <2>1. request[c].id \in Calls /\ outcome[request[c].id] = "waiting"
      BY <1>2, CurrentWaits DEF TimeOut, Accounts
    <2>2. Abstract!GiveUp(request[c].id)
      BY <1>2, <2>1 DEF TimeOut, Abstract!GiveUp
    <2> QED
      BY <2>1, <2>2, AbstractCalls DEF Abstract!Next
  <1>3. CASE RemoveFind(c) \/ RemoveErase(c)
    <2>1. phase[c] \in {"found", "erase"}
      BY <1>3 DEF RemoveFind, RemoveErase
    <2>2. ASSUME NEW v, Searched(c, v)
          PROVE  Answer(c) \/ outcome' = outcome
      BY <2>2 DEF Searched
    <2>3. Answer(c) \/ outcome' = outcome
      BY <1>3, <2>2, SearchResult DEF RemoveFind, RemoveErase
    <2> QED
      BY <2>1, <2>3, AnswerMaps DEF Unseen
  <1> QED
    BY <1>1, <1>2, <1>3 DEF CallerThread

LEMMA DriverMaps ==
  ASSUME TypeOK, Accounts, DriverStep
  PROVE  Abstract!Next \/ Unseen
  <1>1. executions' = executions
    BY DEF DriverStep, sessionVars
  <1>2. CASE IoThread \/ Notifier \/ (Running /\ SpuriousWakeup)
    <2>1. outcome' = outcome
      BY <1>2
      DEF IoThread, Connect, CheckQueue, Block, PopRequest, SendSize, SendData, ReadSize, ReadData,
          PushResponse, Notifier, NotifierService, SpuriousWakeup, callerVars
    <2> QED
      BY <1>1, <2>1 DEF Unseen
  <1>3. ASSUME NEW c \in Callers, BeginCall(c) PROVE Abstract!Next
    BY <1>1, <1>3, QueueRequestMaps DEF BeginCall, Accounts
  <1>4. ASSUME NEW c \in Callers, CallerThread(c) PROVE Abstract!Next \/ Unseen
    BY <1>1, <1>4, CallerMaps
  <1> QED
    BY <1>2, <1>3, <1>4 DEF DriverStep, DriverNext

(* The driver and the server implement RequestResponse: a call is          *)
(* processed once at most, and answered only when it was processed.        *)
THEOREM PromiseKept == Spec => Promise
  <1>1. TypeOK /\ LockStep /\ Accounts /\ [Next]_vars => [Abstract!Next]_Abstract!vars
    <2> SUFFICES ASSUME TypeOK, LockStep, Accounts, [Next]_vars
                 PROVE  Abstract!Next \/ Unseen
      BY DEF Unseen, Abstract!vars
    <2>1. CASE UNCHANGED vars
      BY <2>1 DEF Unseen, vars, driverVars, callerVars, sessionVars
    <2> QED
      BY <2>1, ServerMaps, DriverMaps DEF Next
  <1> QED
    BY <1>1, InitMaps, AlwaysAccounts, TypeCorrect, KeepStep, PTL
    DEF Spec, Promise, Abstract!Spec

-----------------------------------------------------------------------------
(***************************************************************************)
(* What a header announces.  HeaderDigits is defined by recursion: that    *)
(* there is such a function is shown from its restrictions to 0..n, by the *)
(* least n for which it fails.                                             *)
(***************************************************************************)

(* A set of naturals that is not empty has a least element.                *)
LEMMA LeastNatural ==
  ASSUME NEW T, T \subseteq Nat, T # {}
  PROVE  \E n \in T : \A k \in T : n <= k
  <1> DEFINE R == OpToRel(<, Nat)
  <1>1. IsWellFoundedOn(R, Nat)
    BY NatLessThanWellFounded
  <1>2. PICK n \in T : \A k \in T : ~(<<k, n>> \in R)
    <2> HIDE DEF R
    <2> QED
      BY <1>1, WFMin
  <1>3. ASSUME NEW k \in T
        PROVE  n <= k
    <2>1. ~(<<k, n>> \in R)
      BY <1>2
    <2>2. k \in Nat /\ n \in Nat
      OBVIOUS
    <2>3. ~(k < n)
      BY <2>1, <2>2 DEF OpToRel
    <2> QED
      BY <2>2, <2>3
  <1> QED
    BY <1>3

(* The equation of HeaderDigits, up to n.                                  *)
DigitsUpTo(g, n) ==
  /\ g \in [0..n -> Nat]
  /\ \A i \in 0..n : g[i] = IF i < SizeLimit THEN i ELSE g[i \div 10]

(* A number without its last digit.                                        *)
LEMMA Shorter ==
  ASSUME NEW n \in Nat
  PROVE  /\ n \div 10 \in Nat
         /\ n >= 1 => n \div 10 < n
         /\ n >= 10 => n \div 10 >= 1
  <1>1. n \div 10 \in Nat
    OBVIOUS
  <1>2. n >= 1 => n \div 10 < n
    OBVIOUS
  <1>3. n >= 10 => n \div 10 >= 1
    OBVIOUS
  <1> QED
    BY <1>1, <1>2, <1>3

LEMMA DigitsUnique ==
  ASSUME NEW n \in Nat, NEW m \in Nat, NEW g, NEW h,
         DigitsUpTo(g, n), DigitsUpTo(h, m), NEW i \in 0..n, i <= m
  PROVE  g[i] = h[i]
  <1> DEFINE T == {j \in 0..n : j <= m /\ g[j] # h[j]}
  <1> SUFFICES ASSUME T # {} PROVE FALSE
    OBVIOUS
  <1>1. PICK j \in T : \A k \in T : j <= k
    <2>1. T \subseteq Nat
      OBVIOUS
    <2> HIDE DEF T
    <2> QED
      BY <2>1, LeastNatural
  <1>2. j \in 0..n /\ j \in 0..m /\ g[j] # h[j]
    OBVIOUS
  <1>3. ~(j < SizeLimit)
    BY <1>2 DEF DigitsUpTo
  <1>4. g[j] = g[j \div 10] /\ h[j] = h[j \div 10]
    BY <1>2, <1>3 DEF DigitsUpTo
  <1>5. j \div 10 \in 0..n /\ j \div 10 <= m /\ j \div 10 < j
    BY <1>2, <1>3, WireAssumption, Shorter
  <1>6. j \div 10 \notin T
    BY <1>1, <1>5
  <1> QED
    BY <1>2, <1>4, <1>5, <1>6

LEMMA DigitsExist ==
  ASSUME NEW n \in Nat
  PROVE  \E g : DigitsUpTo(g, n)
  <1> DEFINE T == {j \in Nat : ~\E g : DigitsUpTo(g, j)}
  <1> SUFFICES ASSUME T # {} PROVE FALSE
    OBVIOUS
  <1>1. PICK j \in T : \A k \in T : j <= k
    BY LeastNatural
  <1>2. CASE j < SizeLimit
    <2>1. DigitsUpTo([i \in 0..j |-> i], j)
      BY <1>2, WireAssumption DEF DigitsUpTo
    <2> QED
      BY <2>1
  <1>3. CASE ~(j < SizeLimit)
    <2>1. j \in Nat /\ j - 1 \in Nat /\ j - 1 < j
      BY <1>3, WireAssumption
    <2>2. j - 1 \notin T
      BY <1>1, <2>1
    <2>3. PICK g : DigitsUpTo(g, j - 1)
      BY <2>1, <2>2
    <2> DEFINE h == [i \in 0..j |-> IF i = j THEN g[j \div 10] ELSE g[i]]
    <2>4. ASSUME NEW i \in 0..j
          PROVE  /\ i \in 0..(j - 1) \/ i = j
                 /\ i \div 10 \in 0..j
                 /\ i # 0 => i \div 10 \in 0..(j - 1) /\ i \div 10 # j
      BY <2>1, Shorter
    <2>5. j # 0 /\ g[j \div 10] \in Nat
      BY <2>1, <2>3, <2>4 DEF DigitsUpTo
    <2>6. h \in [0..j -> Nat]
      BY <2>3, <2>4, <2>5 DEF DigitsUpTo
    <2>7. ASSUME NEW i \in 0..j
          PROVE  h[i] = IF i < SizeLimit THEN i ELSE h[i \div 10]
      <3>1. CASE i < SizeLimit
        BY <1>3, <2>3, <2>4, <3>1 DEF DigitsUpTo
      <3>2. CASE ~(i < SizeLimit)
        <4>1. i # 0
          BY <3>2, WireAssumption
        <4>2. h[i \div 10] = g[i \div 10]
          BY <2>4, <4>1
        <4> QED
          BY <2>3, <2>4, <3>2, <4>2 DEF DigitsUpTo
      <3> QED
        BY <3>1, <3>2
    <2>8. DigitsUpTo(h, j)
      BY <2>6, <2>7 DEF DigitsUpTo
    <2> QED
      BY <2>8
  <1> QED
    BY <1>2, <1>3

LEMMA HeaderDigitsDef ==
  \A n \in Nat : HeaderDigits[n] = IF n < SizeLimit THEN n ELSE HeaderDigits[n \div 10]
  <1> DEFINE G(n) == CHOOSE g : DigitsUpTo(g, n)
             f == [n \in Nat |-> G(n)[n]]
  <1>1. \A n \in Nat : DigitsUpTo(G(n), n)
    BY DigitsExist
  <1>2. ASSUME NEW n \in Nat
        PROVE  f[n] = IF n < SizeLimit THEN n ELSE f[n \div 10]
    <2>1. G(n)[n] = IF n < SizeLimit THEN n ELSE G(n)[n \div 10]
      <3> HIDE DEF G
      <3> QED
        BY <1>1 DEF DigitsUpTo
    <2>2. n \div 10 \in Nat /\ n \div 10 \in 0..n /\ n \div 10 <= n \div 10
      BY Shorter
    <2>3. G(n)[n \div 10] = G(n \div 10)[n \div 10]
      <3> HIDE DEF G
      <3> QED
        BY <1>1, <2>2, DigitsUnique
    <2> HIDE DEF G
    <2> QED
      BY <2>1, <2>2, <2>3
  <1>3. f = [n \in Nat |-> IF n < SizeLimit THEN n ELSE f[n \div 10]]
    <2> HIDE DEF G
    <2>1. f = [n \in Nat |-> f[n]]
      OBVIOUS
    <2> HIDE DEF f
    <2> QED
      BY <1>2, <2>1
  <1>4. HeaderDigits = [n \in Nat |-> IF n < SizeLimit THEN n ELSE HeaderDigits[n \div 10]]
    <2> HIDE DEF f
    <2> QED
      BY <1>3 DEF HeaderDigits
  <1> QED
    BY <1>4

(* A header announces the size of a text that fits, and too small a one,   *)
(* but not nothing, of a text that does not.                               *)
LEMMA HeaderDigitsRange ==
  ASSUME NEW n \in Nat
  PROVE  /\ HeaderDigits[n] \in Nat
         /\ n < SizeLimit => HeaderDigits[n] = n
         /\ HeaderDigits[n] < SizeLimit
         /\ n >= 1 => HeaderDigits[n] >= 1
  <1> DEFINE Good(k) == /\ HeaderDigits[k] \in Nat
                        /\ HeaderDigits[k] < SizeLimit
                        /\ k >= 1 => HeaderDigits[k] >= 1
             T == {k \in Nat : ~Good(k)}
  <1>1. \A k \in Nat : Good(k)
    <2> SUFFICES ASSUME T # {} PROVE FALSE
      OBVIOUS
    <2>1. PICK k \in T : \A i \in T : k <= i
      BY LeastNatural
    <2>2. k \in Nat /\ ~Good(k)
      OBVIOUS
    <2>3. ~(k < SizeLimit)
      BY <2>2, HeaderDigitsDef
    <2>4. HeaderDigits[k] = HeaderDigits[k \div 10] /\ k >= 10
      BY <2>2, <2>3, HeaderDigitsDef, WireAssumption
    <2>5. k \div 10 \in Nat /\ k \div 10 < k /\ k \div 10 >= 1
      BY <2>2, <2>4, Shorter
    <2>6. k \div 10 \notin T
      BY <2>1, <2>5
    <2>7. Good(k \div 10)
      BY <2>5, <2>6
    <2> QED
      BY <2>2, <2>4, <2>5, <2>7
  <1> QED
    BY <1>1, HeaderDigitsDef

-----------------------------------------------------------------------------
(***************************************************************************)
(* What the process dies of, and which texts are processed.                *)
(*                                                                         *)
(* The session reads every request with the size its own header announced, *)
(* so that only a whole text, and one without "####", is executed; after   *)
(* that the text under way is whole, and only a header from freed memory   *)
(* can spoil the reply.  A response that is removed is still there unless  *)
(* another caller removes one at the same time.                            *)
(***************************************************************************)

(* There is one caller at most.                                            *)
OneCaller == \A c, d \in Callers : c = d

(* A text that is received whole and is taken for a message.               *)
Whole(m) == SizeOf[m.body] < SizeLimit /\ m.body \notin Marked

LEMMA HeaderSizeRange ==
  ASSUME NEW m \in Message
  PROVE  /\ SizeOf[m.body] \in Nat \ {0}
         /\ HeaderSize(m) \in Nat \ {0}
         /\ HeaderSize(m) < SizeLimit
         /\ SizeOf[m.body] < SizeLimit => HeaderSize(m) = SizeOf[m.body]
  <1>1. SizeOf[m.body] \in Nat \ {0}
    BY WireAssumption DEF Message
  <1> QED
    BY <1>1, HeaderDigitsRange DEF HeaderSize

(* What becomes of a text read with the size its own header announced ...  *)
LEMMA ReadAnnounced ==
  ASSUME NEW m \in Message, NEW r \in ReadOutcomes(m, HeaderSize(m))
  PROVE  /\ r = "message" => Whole(m)
         /\ r = "exception" => m.body \in Marked
         /\ r = "assert" => SizeOf[m.body] >= SizeLimit
  <1>1. /\ SizeOf[m.body] \in Nat /\ HeaderSize(m) \in Nat /\ SizeLimit \in Nat
        /\ HeaderSize(m) < SizeLimit
        /\ SizeOf[m.body] < SizeLimit => HeaderSize(m) = SizeOf[m.body]
    BY HeaderSizeRange, WireAssumption
  <1>2. ~(HeaderSize(m) > SizeOf[m.body])
    BY <1>1
  <1>3. CASE HeaderSize(m) < SizeOf[m.body]
    <2> DEFINE n == HeaderSize(m)
               size == SizeOf[m.body]
    <2>1. r = "assert" \/ (r = "exception" /\ m.body \in Marked)
      <3>1. n < size /\ n # size /\ n \in Nat /\ size \in Nat
        BY <1>1, <1>3
      <3>2. r \in ReadOutcomes(m, n)
        OBVIOUS
      <3> HIDE DEF n
      <3>3. ReadOutcomes(m, n) = {"assert"} \cup (IF m.body \in Marked THEN {"exception"} ELSE {})
        BY <3>1 DEF ReadOutcomes
      <3> QED
        BY <3>2, <3>3
    <2>2. SizeOf[m.body] >= SizeLimit
      BY <1>1, <1>3
    <2> QED
      BY <2>1, <2>2
  <1>4. CASE HeaderSize(m) = SizeOf[m.body]
    <2>1. ~(HeaderSize(m) < SizeOf[m.body])
      BY <1>1, <1>4
    <2>2. r = IF m.body \in Marked THEN "exception" ELSE "message"
      BY <1>4, <2>1 DEF ReadOutcomes
    <2> QED
      BY <1>1, <1>4, <2>2 DEF Whole
  <1> QED
    BY <1>1, <1>2, <1>3, <1>4

(* ... and of a whole text read with another size.                         *)
LEMMA ReadCut ==
  ASSUME NEW m \in Message, Whole(m), NEW n, "assert" \in ReadOutcomes(m, n)
  PROVE  n # HeaderSize(m)
  <1>1. n = HeaderSize(m) => SizeOf[m.body] >= SizeLimit
    BY ReadAnnounced
  <1> QED
    BY <1>1, HeaderSizeRange, WireAssumption DEF Whole

-----------------------------------------------------------------------------
(* The inductive invariant.                                                *)

(* The session has read the header of the request under way.               *)
AnnouncedRight == session = "readData" => announced = HeaderSize(sending)

(* What the session has handed on was whole.                               *)
DeliveredWhole == Delivered => Whole(sending)

HeadersRight == Running => AnnouncedRight /\ DeliveredWhole

(* A request that waits for the session is the one its caller made.        *)
KnownTexts ==
  \A c \in Callers : phase[c] # "idle" =>
    /\ \A i \in 1..Len(bufferQueue) :
         bufferQueue[i].id = CurrentCall(c) => bufferQueue[i] = request[c]
    /\ Undelivered /\ sending.id = CurrentCall(c) => sending = request[c]

(* A response to remove is in the queue, if nobody else removes one.       *)
RemovalSound ==
  \A c \in Callers : phase[c] = "erase" =>
    /\ removal[c].pos \in 1..removal[c].end
    /\ OneCaller => removal[c].end <= Len(responseQueue)

Causes == HeadersRight /\ KnownTexts /\ RemovalSound /\ OnlyWholeTextsExecuted /\ CrashCauses

-----------------------------------------------------------------------------
LEMMA HeadersUnseen ==
  ASSUME HeadersRight, Running, Delivered' => Delivered, UNCHANGED <<session, announced, sending>>
  PROVE  HeadersRight'
  BY DEF HeadersRight, AnnouncedRight, DeliveredWhole, Whole, HeaderSize

LEMMA TextsUnseen ==
  ASSUME KnownTexts, Undelivered' => Undelivered,
         UNCHANGED <<bufferQueue, sending, request, calls>>,
         \A c \in Callers : phase'[c] # "idle" => phase[c] # "idle"
  PROVE  KnownTexts'
  BY DEF KnownTexts, CurrentCall

LEMMA ExecutedUnseen ==
  ASSUME OnlyWholeTextsExecuted, UNCHANGED <<executions, request, calls>>,
         \A c \in Callers : phase'[c] # "idle" => phase[c] # "idle"
  PROVE  OnlyWholeTextsExecuted'
  BY DEF OnlyWholeTextsExecuted, CurrentCall

LEMMA RemovalUnseen ==
  ASSUME RemovalSound, UNCHANGED <<responseQueue, removal>>,
         \A c \in Callers : phase'[c] = "erase" => phase[c] = "erase"
  PROVE  RemovalSound'
  BY DEF RemovalSound

LEMMA InitCauses == Init => Causes
  <1> SUFFICES ASSUME Init PROVE Causes
    OBVIOUS
  <1> USE DEF Init, WireInit, DriverInit, SessionInit
  <1>1. HeadersRight
    BY DEF HeadersRight, AnnouncedRight, DeliveredWhole, Delivered
  <1>2. \A c \in Callers : phase[c] = "idle"
    OBVIOUS
  <1>3. KnownTexts /\ RemovalSound /\ OnlyWholeTextsExecuted
    BY <1>2 DEF KnownTexts, RemovalSound, OnlyWholeTextsExecuted
  <1>4. CrashCauses
    BY DEF CrashCauses
  <1> QED
    BY <1>1, <1>3, <1>4 DEF Causes

-----------------------------------------------------------------------------
(* The steps of the session.                                               *)

(* The header the session reads is the one of the request under way.       *)
LEMMA SessionReadsHeader ==
  ASSUME TypeOK, LockStep, Running, SessionReadSize
  PROVE  announced' = HeaderSize(sending)
  <1>1. session = "readSize" /\ toServer # <<>> /\ announced' = Head(toServer).size
    BY DEF SessionReadSize, SizeArrives
  <1>2. io \in IoStates
    BY DEF TypeOK, DriverTypeOK
  <1>3. LockStepByCase
    BY <1>2, LockStepCases
  <1>4. \/ toServer = <<SizeFrame(HeaderSize(sending))>>
        \/ toServer = <<SizeFrame(HeaderSize(sending)), DataFrame(sending)>>
    BY <1>1, <1>2, <1>3
    DEF LockStepByCase, IoStates, Quiet, RequestBegun, RequestUnderWay, ReplyPrepared, ReplyBegun,
        ReplyHalfRead, ReplyAbandoned
  <1>5. Head(toServer) = SizeFrame(HeaderSize(sending))
    BY <1>4, OneElement, TwoElements
  <1> QED
    BY <1>1, <1>5, FrameKinds

(* What the session makes of the request under way.                        *)
LEMMA SessionReadsRequest ==
  ASSUME TypeOK, LockStep, Running, HeadersRight, SessionReadData
  PROVE  \/ /\ Whole(sending) /\ crash' = crash /\ session' = "check"
            /\ executions' = [executions EXCEPT ![sending.id] = @ + 1]
         \/ /\ UNCHANGED <<session, executions>>
            /\ \/ crash' = "destructor" /\ sending.body \in Marked
               \/ crash' = "parse" /\ SizeOf[sending.body] >= SizeLimit
  <1>1. io = "readSize" /\ Head(toServer).msg = sending
    BY SessionReads
  <1>2. sending \in Message
    BY <1>1 DEF TypeOK, PointersSet
  <1>3. announced = HeaderSize(sending)
    BY DEF HeadersRight, AnnouncedRight, SessionReadData
  <1>4. PICK r \in ReadOutcomes(sending, HeaderSize(sending)) :
          \/ /\ r = "message"
             /\ executions' = [executions EXCEPT ![sending.id] = @ + 1]
             /\ session' = "check" /\ crash' = crash
          \/ r = "exception" /\ crash' = "destructor" /\ UNCHANGED <<session, executions>>
          \/ r = "assert" /\ crash' = "parse" /\ UNCHANGED <<session, executions>>
    BY <1>1, <1>3 DEF SessionReadData, Crash
  <1> QED
    BY <1>2, <1>4, ReadAnnounced

LEMMA ServerCauses ==
  TypeOK /\ LockStep /\ Fresh /\ Causes /\ ServerStep => Causes'
  <1> SUFFICES ASSUME TypeOK, LockStep, Fresh, Causes, ServerStep PROVE Causes'
    OBVIOUS
  <1> USE DEF Causes
  <1>1. Running
    BY DEF ServerStep, SessionThread
  <1>2. UNCHANGED <<io, sending, expected, bufferQueue, responseQueue, phase, request, calls, removal>>
    BY DEF ServerStep, driverVars, ioVars, callerVars
  <1>3. RemovalSound'
    BY <1>2, RemovalUnseen
  <1>4. CASE Accept \/ TakeReply \/ SessionSendSize \/ SessionSendData
    <2>1. UNCHANGED <<executions, toServer, crash>> /\ session' # "readData"
      BY <1>4 DEF Accept, TakeReply, SessionSendSize, SessionSendData, wireVars
    <2>2. (Undelivered' => Undelivered) /\ (Delivered' => Delivered)
      BY <1>2, <2>1 DEF Undelivered, Delivered
    <2>3. HeadersRight'
      BY <1>1, <1>2, <2>1, <2>2 DEF HeadersRight, AnnouncedRight, DeliveredWhole, Whole
    <2>4. KnownTexts' /\ OnlyWholeTextsExecuted'
      BY <1>2, <2>1, <2>2, TextsUnseen, ExecutedUnseen
    <2>5. CrashCauses'
      BY <1>1, <2>1 DEF CrashCauses, Running
    <2> QED
      BY <1>3, <2>3, <2>4, <2>5
  <1>5. CASE SessionReadSize
    <2>1. /\ UNCHANGED <<executions, crash>> /\ toServer' = Tail(toServer) /\ toServer # <<>>
      BY <1>5 DEF SessionReadSize, SizeArrives
    <2>2. Undelivered' => Undelivered
      BY <1>2, <2>1 DEF Undelivered
    <2>3. Delivered' => Delivered
      BY <1>1, <1>2, <1>5, <2>1, SessionReads DEF Delivered
    <2>4. announced' = HeaderSize(sending)
      BY <1>1, <1>5, SessionReadsHeader
    <2>5. HeadersRight'
      BY <1>1, <1>2, <2>3, <2>4 DEF HeadersRight, AnnouncedRight, DeliveredWhole, Whole, HeaderSize
    <2>6. KnownTexts' /\ OnlyWholeTextsExecuted'
      BY <1>2, <2>1, <2>2, TextsUnseen, ExecutedUnseen
    <2>7. CrashCauses'
      BY <1>1, <2>1 DEF CrashCauses, Running
    <2> QED
      BY <1>3, <2>5, <2>6, <2>7
  <1>6. CASE SessionReadData
    <2>1. /\ sending.id \in Calls /\ toServer' = <<>> /\ io = "readSize" /\ toServer # <<>>
      BY <1>1, <1>6, ReadDataExecutes, SessionReads, OneElement
    <2>2. \/ /\ Whole(sending) /\ crash' = crash /\ session' = "check"
             /\ executions' = [executions EXCEPT ![sending.id] = @ + 1]
          \/ /\ UNCHANGED <<session, executions>>
             /\ \/ crash' = "destructor" /\ sending.body \in Marked
                \/ crash' = "parse" /\ SizeOf[sending.body] >= SizeLimit
      BY <1>1, <1>6, SessionReadsRequest
    <2>3. ~Undelivered' /\ Undelivered
      BY <1>2, <2>1 DEF Undelivered
    <2>4. KnownTexts'
      BY <1>2, <2>3, TextsUnseen
    <2>5. CASE /\ Whole(sending) /\ crash' = crash /\ session' = "check"
               /\ executions' = [executions EXCEPT ![sending.id] = @ + 1]
      <3>1. HeadersRight'
        BY <1>2, <2>5 DEF HeadersRight, AnnouncedRight, DeliveredWhole, Whole
      <3>2. CrashCauses'
        BY <1>1, <2>5 DEF CrashCauses, Running
      <3>3. OnlyWholeTextsExecuted'
        <4> SUFFICES ASSUME NEW c \in Callers, phase[c] # "idle", executions'[CurrentCall(c)] > 0
                     PROVE  Whole(request[c])
          BY <1>2 DEF OnlyWholeTextsExecuted, Whole, CurrentCall
        <4>1. CASE CurrentCall(c) = sending.id
          BY <2>3, <2>5, <4>1 DEF KnownTexts
        <4>2. CASE CurrentCall(c) # sending.id
          <5>1. executions'[CurrentCall(c)] = executions[CurrentCall(c)]
            <6>1. CurrentCall(c) \in Calls
              BY DEF TypeOK, PointersSet, Message
            <6> QED
              BY <2>5, <4>2, <6>1 DEF TypeOK, SessionTypeOK
          <5> QED
            BY <5>1 DEF OnlyWholeTextsExecuted, Whole
        <4> QED
          BY <4>1, <4>2
      <3> QED
        BY <1>3, <2>4, <3>1, <3>2, <3>3
    <2>6. CASE /\ UNCHANGED <<session, executions>>
               /\ \/ crash' = "destructor" /\ sending.body \in Marked
                  \/ crash' = "parse" /\ SizeOf[sending.body] >= SizeLimit
      <3>1. HeadersRight'
        BY <2>6 DEF HeadersRight, Running
      <3>2. OnlyWholeTextsExecuted'
        BY <1>2, <2>6, ExecutedUnseen
      <3>3. session = "readData"
        BY <1>6 DEF SessionReadData
      <3>4. CrashCauses'
        BY <1>2, <2>6, <3>3 DEF CrashCauses
      <3> QED
        BY <1>3, <2>4, <3>1, <3>2, <3>4
    <2> QED
      BY <2>2, <2>5, <2>6
  <1> QED
    BY <1>4, <1>5, <1>6 DEF ServerStep, SessionThread

-----------------------------------------------------------------------------
(* The steps of the IO thread and of the notifier.                         *)

(* Only a pop gives the IO thread a request, and only the session makes    *)
(* it a delivered one.                                                     *)
LEMMA DriverHands ==
  ASSUME TypeOK, LockStep, DriverStep
  PROVE  /\ Running
         /\ Delivered' => Delivered
         /\ PopRequest \/ ((Undelivered' => Undelivered) /\ sending' = sending)
         /\ UNCHANGED <<session, announced, executions>>
  <1>1. UNCHANGED <<session, announced, executions>>
    BY DEF DriverStep, sessionVars
  <1>2. Running
    BY DEF DriverStep, DriverNext, IoThread, Notifier, CallerThread, BeginCall
  <1>3. CASE Connect \/ CheckQueue \/ Block \/ NotifierService \/ SpuriousWakeup
    <2>1. sending' = sending /\ io' \in {"check", "ended", "block", "pop", "waiting"}
      BY <1>3 DEF Connect, CheckQueue, Block, NotifierService, SpuriousWakeup, WakeIo
    <2> QED
      BY <1>1, <1>2, <2>1 DEF Undelivered, Delivered
  <1>4. CASE PopRequest
    BY <1>1, <1>2, <1>4 DEF PopRequest, Delivered
  <1>5. CASE SendSize
    BY <1>1, <1>2, <1>5 DEF SendSize, Undelivered, Delivered
  <1>6. CASE SendData
    <2>1. /\ sending' = sending /\ io = "sendData" /\ io' = "readSize"
          /\ toServer' = Append(toServer, DataFrame(sending))
      BY <1>6 DEF SendData
    <2>2. DataFrame(sending) \in Frame
      BY <2>1, DataFrameType DEF TypeOK, PointersSet
    <2>3. toServer' # <<>>
      BY <2>1, <2>2, AppendProperties DEF TypeOK, WireTypeOK
    <2> QED
      BY <1>1, <1>2, <2>1, <2>3 DEF Undelivered, Delivered
  <1>7. CASE ReadSize
    <2>1. /\ UNCHANGED <<sending, toServer>>
          /\ io = "readSize" /\ io' \in {"readSize", "readData", "ended"} /\ toClient # <<>>
      BY <1>7 DEF ReadSize, SizeArrives
    <2>2. toServer = <<>>
      BY <1>2, <2>1 DEF LockStep, RequestUnderWay, ReplyPrepared, ReplyBegun
    <2> QED
      BY <1>1, <1>2, <2>1, <2>2 DEF Undelivered, Delivered
  <1>8. CASE ReadData
    <2>1. sending' = sending /\ io = "readData" /\ io' \in {"readData", "push", "ended"}
      BY <1>8 DEF ReadData
    <2> QED
      BY <1>1, <1>2, <2>1 DEF Undelivered, Delivered
  <1>9. CASE PushResponse
    BY <1>1, <1>2, <1>9 DEF PushResponse, Undelivered, Delivered
  <1>10. ASSUME NEW c \in Callers, BeginCall(c) \/ CallerThread(c)
         PROVE  (Undelivered' => Undelivered) /\ (Delivered' => Delivered) /\ sending' = sending
    <2>1. UNCHANGED <<sending, toServer>> /\ io' \in {io, "check"}
      BY <1>10 DEF BeginCall, CallerThread, QueueRequest, NotifyIo, WakeIo, PollHit, TimeOut,
                   RemoveFind, RemoveErase, ioVars, wireVars
    <2> QED
      BY <2>1 DEF Undelivered, Delivered
  <1> QED
    BY <1>1, <1>2, <1>3, <1>4, <1>5, <1>6, <1>7, <1>8, <1>9, <1>10
    DEF DriverStep, DriverNext, IoThread, Notifier

LEMMA DriverHeaders ==
  ASSUME TypeOK, LockStep, HeadersRight, DriverStep
  PROVE  HeadersRight'
  <1>1. CASE PopRequest
    <2>1. io = "pop" /\ io' = "sendSize"
      BY <1>1 DEF PopRequest
    <2>2. session # "readData"
      BY <2>1, DriverHands DEF LockStep, Quiet
    <2> QED
      BY <2>1, <2>2, DriverHands DEF HeadersRight, AnnouncedRight, DeliveredWhole, Delivered
  <1>2. CASE ~PopRequest
    BY <1>2, DriverHands, HeadersUnseen
  <1> QED
    BY <1>1, <1>2

(* Every text stays the one its caller gave it.                            *)
LEMMA PopTexts ==
  ASSUME TypeOK, KnownTexts, PopRequest
  PROVE  KnownTexts'
  <1> DEFINE q == bufferQueue
             l == Len(q)
  <1>1. /\ q \in Seq(Message) /\ q # <<>>
        /\ sending' = Peek(q) /\ bufferQueue' = PopBack(q) /\ io' = "sendSize"
        /\ UNCHANGED <<phase, request, calls>>
    BY DEF PopRequest, TypeOK, DriverTypeOK, PointersSet, callerVars
  <1>2. /\ Peek(q) = q[l] /\ l \in 1..l
        /\ Len(PopBack(q)) = l - 1
        /\ \A i \in 1..(l - 1) : PopBack(q)[i] = q[i]
    <2> HIDE DEF q
    <2> QED
      BY <1>1, PopBackLemma
  <1>3. \A i \in 1..(l - 1) : i \in 1..l
    <2>1. l \in Nat
      BY <1>1, LenProperties
    <2> HIDE DEF l
    <2> QED
      BY <2>1
  <1> SUFFICES ASSUME NEW c \in Callers, phase[c] # "idle"
               PROVE  /\ \A i \in 1..(l - 1) :
                           q[i].id = CurrentCall(c) => q[i] = request[c]
                      /\ q[l].id = CurrentCall(c) => q[l] = request[c]
    BY <1>1, <1>2 DEF KnownTexts, CurrentCall
  <1>4. \A i \in 1..l : q[i].id = CurrentCall(c) => q[i] = request[c]
    BY DEF KnownTexts
  <1> QED
    BY <1>2, <1>3, <1>4

LEMMA QueueTexts ==
  ASSUME TypeOK, Accounts, KnownTexts, NEW c \in Callers, NEW b \in Bodies, QueueRequest(c, b)
  PROVE  KnownTexts'
  <1> DEFINE n == calls[c] + 1
             k == <<c, n>>
             m == [id |-> k, body |-> b]
             q == bufferQueue
             l == Len(q)
  <1>1. /\ phase[c] = "idle" /\ calls[c] \in 0..MaxCalls /\ n \in 1..MaxCalls /\ k \in Calls
        /\ m \in Message /\ m.id = k /\ q \in Seq(Message)
    <2>1. calls[c] \in 0..MaxCalls /\ calls[c] < MaxCalls /\ phase[c] = "idle" /\ MaxCalls \in Nat
      BY WireAssumption DEF QueueRequest, TypeOK, DriverTypeOK
    <2>2. n \in 1..MaxCalls
      BY <2>1
    <2>3. k \in Calls
      BY <2>2 DEF Calls
    <2> QED
      BY <2>1, <2>2, <2>3 DEF Message, TypeOK, DriverTypeOK
  <1>2. /\ bufferQueue' = PushBack(q, m)
        /\ calls'[c] = n /\ phase'[c] = "notify" /\ request'[c] = m
        /\ \A d \in Callers : d # c => /\ calls'[d] = calls[d] /\ phase'[d] = phase[d]
                                       /\ request'[d] = request[d]
        /\ UNCHANGED <<io, sending, toServer>>
    BY <1>1 DEF QueueRequest, ioVars, wireVars, TypeOK, DriverTypeOK
  <1>3. ~Begun(k)
    <2>1. n > calls[c]
      BY <1>1
    <2> QED
      BY <1>1, <2>1 DEF Accounts, CallsInOrder
  <1>4. /\ Len(bufferQueue') = l + 1
        /\ \A i \in 1..l : bufferQueue'[i] = q[i]
        /\ bufferQueue'[l + 1] = m
    <2>1. q \in Seq(Message) /\ m \in Message
      BY <1>1
    <2>2. /\ Len(PushBack(q, m)) = Len(q) + 1
          /\ \A i \in 1..Len(q) : PushBack(q, m)[i] = q[i]
          /\ PushBack(q, m)[Len(q) + 1] = m
      <3> HIDE DEF q, m
      <3> QED
        BY <2>1, PushBackLemma
    <2> QED
      BY <1>2, <2>2
  <1>5. \A i \in 1..(l + 1) : i \in 1..l \/ i = l + 1
    <2>1. l \in Nat
      BY <1>1, LenProperties
    <2> HIDE DEF l
    <2> QED
      BY <2>1
  <1>6. \A i \in 1..l : q[i].id # k
    BY <1>3 DEF Accounts, Fresh, QueuedFresh
  <1>7. Undelivered => sending.id # k
    BY <1>3 DEF Accounts, Fresh, SendingFresh
  <1>8. Undelivered' => Undelivered
    BY <1>2 DEF Undelivered
  <1> SUFFICES ASSUME NEW d \in Callers, phase'[d] # "idle"
               PROVE  /\ \A i \in 1..(l + 1) :
                           bufferQueue'[i].id = <<d, calls'[d]>> => bufferQueue'[i] = request'[d]
                      /\ Undelivered /\ sending.id = <<d, calls'[d]>> => sending = request'[d]
    BY <1>2, <1>4, <1>8 DEF KnownTexts, CurrentCall
  <1>9. CASE d = c
    BY <1>2, <1>4, <1>5, <1>6, <1>7, <1>9
  <1>10. CASE d # c
    <2>1. /\ \A i \in 1..l : q[i].id = <<d, calls[d]>> => q[i] = request[d]
          /\ Undelivered /\ sending.id = <<d, calls[d]>> => sending = request[d]
      BY <1>2, <1>10 DEF KnownTexts, CurrentCall
    <2>2. m.id # <<d, calls[d]>>
      BY <1>1, <1>10
    <2> QED
      BY <1>2, <1>4, <1>5, <1>10, <2>1, <2>2
  <1> QED
    BY <1>9, <1>10

LEMMA IoCauses ==
  ASSUME TypeOK, LockStep, Accounts, Causes, DriverStep,
         IoThread \/ Notifier \/ (Running /\ SpuriousWakeup)
  PROVE  Causes'
  <1> USE DEF Causes
  <1>1. UNCHANGED <<calls, phase, request, removal>>
    BY DEF IoThread, Notifier, SpuriousWakeup, Connect, CheckQueue, Block, PopRequest, SendSize,
           SendData, ReadSize, ReadData, PushResponse, NotifierService, callerVars
  <1>2. /\ Running
        /\ PopRequest \/ ((Undelivered' => Undelivered) /\ sending' = sending)
        /\ UNCHANGED <<session, announced, executions>>
    BY DriverHands
  <1>3. HeadersRight'
    BY DriverHeaders
  <1>4. KnownTexts'
    <2>1. CASE PopRequest
      BY <2>1, PopTexts
    <2>2. CASE ~PopRequest
      <3>1. bufferQueue' = bufferQueue
        BY <2>2 DEF IoThread, Notifier, SpuriousWakeup, Connect, CheckQueue, Block, SendSize,
                    SendData, ReadSize, ReadData, PushResponse, NotifierService
      <3> QED
        BY <1>1, <1>2, <2>2, <3>1, TextsUnseen
    <2> QED
      BY <2>1, <2>2
  <1>5. OnlyWholeTextsExecuted'
    BY <1>1, <1>2, ExecutedUnseen
  <1>6. RemovalSound'
    <2>1. CASE PushResponse
      <3> DEFINE q == responseQueue
                 S == Calls \cup {NullRef}
                 e == received.id
      <3>1. responseQueue' = PushBack(q, e) /\ e \in S /\ q \in Seq(S)
        BY <2>1 DEF PushResponse, TypeOK, PointersSet, Message, DriverTypeOK
      <3>2. Len(responseQueue') = Len(q) + 1 /\ Len(q) \in Nat
        <4> HIDE DEF q, S, e
        <4> QED
          BY <3>1, PushBackLemma, LenProperties
      <3>3. \A c \in Callers : removal[c].end \in Nat
        BY DEF TypeOK, DriverTypeOK
      <3>4. \A x \in Nat : x <= Len(q) => x <= Len(responseQueue')
        BY <3>2
      <3> QED
        BY <1>1, <3>3, <3>4 DEF RemovalSound
    <2>2. CASE ~PushResponse
      <3>1. responseQueue' = responseQueue
        BY <2>2 DEF IoThread, Notifier, SpuriousWakeup, Connect, CheckQueue, Block, PopRequest,
                    SendSize, SendData, ReadSize, ReadData, NotifierService
      <3> QED
        BY <1>1, <3>1, RemovalUnseen
    <2> QED
      BY <2>1, <2>2
  <1>7. CrashCauses'
    <2>1. CASE ReadSize
      <3> DEFINE n == Head(toClient).size
      <3>1. \/ crash' = crash
            \/ /\ n # NotANumber /\ n <= 0 /\ crash' = "size" /\ io' = io /\ io = "readSize"
        BY <2>1 DEF ReadSize, Crash
      <3>2. n \in Announcements
        BY <2>1, ArrivalType DEF ReadSize, TypeOK, WireTypeOK
      <3>3. n <= 0 => n \in DanglingSizes
        <4>1. ASSUME NEW b \in Bodies
              PROVE  HeaderDigits[SizeOf[b]] \in Nat /\ HeaderDigits[SizeOf[b]] >= 1
          <5>1. SizeOf[b] \in Nat /\ SizeOf[b] >= 1
            BY WireAssumption
          <5> QED
            BY <5>1, HeaderDigitsRange
        <4>2. ASSUME NEW b \in Bodies
              PROVE  ~(HeaderDigits[SizeOf[b]] <= 0)
          BY <4>1
        <4> HIDE DEF n
        <4> QED
          BY <3>2, <4>2 DEF Announcements
      <3> HIDE DEF n
      <3> QED
        BY <1>2, <3>1, <3>3 DEF CrashCauses, Running
    <2>2. CASE ReadData
      <3>1. /\ io = "readData" /\ toClient # <<>> /\ expected' = expected /\ sending' = sending
        BY <2>2 DEF ReadData, DataArrives
      <3>2. toClient = <<DataFrame(sending)>>
        BY <1>2, <3>1 DEF LockStep, ReplyHalfRead
      <3>3. Head(toClient).msg = sending /\ sending \in Message
        BY <3>1, <3>2, OneElement, FrameKinds DEF TypeOK, PointersSet
      <3>4. \/ crash' = crash
            \/ /\ crash' = "parse" /\ io' = io
               /\ "assert" \in ReadOutcomes(sending, expected)
        BY <2>2, <3>3 DEF ReadData, Crash
      <3>5. Whole(sending)
        BY <1>2, <3>1 DEF HeadersRight, DeliveredWhole, Delivered
      <3>6. "assert" \in ReadOutcomes(sending, expected) => expected # HeaderSize(sending)
        BY <3>3, <3>5, ReadCut
      <3> QED
        BY <1>2, <3>1, <3>4, <3>6 DEF CrashCauses, Running, HeaderSize
    <2>3. CASE ~ReadSize /\ ~ReadData
      <3>1. crash' = crash
        BY <2>3 DEF IoThread, Notifier, SpuriousWakeup, Connect, CheckQueue, Block, PopRequest,
                    SendSize, SendData, PushResponse, NotifierService, wireVars
      <3> QED
        BY <1>2, <3>1 DEF CrashCauses, Running
    <2> QED
      BY <2>1, <2>2, <2>3
  <1> QED
    BY <1>3, <1>4, <1>5, <1>6, <1>7

-----------------------------------------------------------------------------
(* The steps of a caller.                                                  *)

LEMMA BeginCauses ==
  ASSUME TypeOK, LockStep, Accounts, Causes, DriverStep,
         NEW c \in Callers, NEW b \in Bodies, QueueRequest(c, b)
  PROVE  Causes'
  <1> USE DEF Causes
  <1>1. /\ UNCHANGED <<responseQueue, removal, executions, crash>>
        /\ Running
    BY DriverHands DEF QueueRequest, wireVars
  <1>2. HeadersRight' /\ KnownTexts'
    BY DriverHeaders, QueueTexts
  <1>3. /\ phase[c] = "idle" /\ phase'[c] = "notify" /\ calls[c] \in 0..MaxCalls
        /\ calls'[c] = calls[c] + 1 /\ calls[c] < MaxCalls
        /\ \A d \in Callers : d # c => /\ calls'[d] = calls[d] /\ phase'[d] = phase[d]
                                       /\ request'[d] = request[d]
    BY DEF QueueRequest, TypeOK, DriverTypeOK
  <1>4. RemovalSound'
    BY <1>1, <1>3, RemovalUnseen
  <1>5. OnlyWholeTextsExecuted'
    <2>1. executions[<<c, calls'[c]>>] = 0
      <3>1. calls'[c] \in 1..MaxCalls /\ calls'[c] > calls[c]
        BY <1>3, WireAssumption
      <3>2. <<c, calls'[c]>> \in Calls /\ ~Begun(<<c, calls'[c]>>)
        BY <3>1 DEF Accounts, CallsInOrder, Calls
      <3> QED
        BY <3>2 DEF Accounts, Fresh, UnbegunFresh
    <2> SUFFICES ASSUME NEW d \in Callers, phase'[d] # "idle", executions[<<d, calls'[d]>>] > 0
                 PROVE  Whole(request'[d])
      BY <1>1 DEF OnlyWholeTextsExecuted, CurrentCall, Whole
    <2>2. d # c
      BY <2>1
    <2> QED
      BY <1>3, <2>2 DEF OnlyWholeTextsExecuted, CurrentCall, Whole
  <1>6. CrashCauses'
    BY <1>1 DEF CrashCauses, Running
  <1> QED
    BY <1>2, <1>4, <1>5, <1>6

(* What a removal of the response finds: one caller alone leaves no        *)
(* length below zero.                                                      *)
LEMMA EraseAlone ==
  ASSUME TypeOK, RemovalSound, OneCaller, NEW c \in Callers, phase[c] = "erase",
         NEW len \in LengthsAfterErase(responseQueue, removal[c].end)
  PROVE  len >= 0
  <1> DEFINE l == Len(responseQueue)
             end == removal[c].end
             pos == removal[c].pos
  <1>1. l \in Nat /\ end \in Nat /\ pos \in Nat
    BY LenProperties DEF TypeOK, DriverTypeOK
  <1>2. pos \in 1..end /\ end <= l
    BY DEF RemovalSound
  <1>3. len \in {end - 1, l - 1, l}
    BY DEF LengthsAfterErase
  <1> HIDE DEF l, end, pos
  <1> QED
    BY <1>1, <1>2, <1>3

(* A turn of remove() leaves the vector as it searches it, or kills the    *)
(* process.                                                                *)
LEMMA RemoveSearches ==
  ASSUME NEW c \in Callers, RemoveFind(c) \/ RemoveErase(c)
  PROVE  \/ Searched(c, responseQueue')
         \/ /\ crash' = "memory" /\ phase[c] = "erase"
            /\ \E len \in LengthsAfterErase(responseQueue, removal[c].end) : len < 0
            /\ UNCHANGED <<responseQueue, phase, removal, outcome>>
  <1>1. CASE RemoveFind(c)
    <2>1. responseQueue' = responseQueue /\ Searched(c, responseQueue)
      BY <1>1, SearchResult DEF RemoveFind
    <2> QED
      BY <2>1 DEF Searched
  <1>2. CASE RemoveErase(c)
    BY <1>2, SearchResult DEF RemoveErase, Crash
  <1> QED
    BY <1>1, <1>2

LEMMA RemoveSoundly ==
  ASSUME TypeOK, RemovalSound, NEW c \in Callers, Searched(c, responseQueue'),
         responseQueue' \in Seq(Calls \cup {NullRef}),
         \A d \in Callers : d # c => phase'[d] = phase[d]
  PROVE  RemovalSound'
  <1> DEFINE v == responseQueue'
             l == Len(v)
  <1>1. l \in Nat
    BY LenProperties
  <1>2. ASSUME NEW d \in Callers, d # c, removal'[d] = removal[d], phase'[d] = "erase"
        PROVE  removal'[d].pos \in 1..removal'[d].end /\ ~OneCaller
    BY <1>2 DEF RemovalSound, OneCaller
  <1> SUFFICES ASSUME NEW d \in Callers, phase'[d] = "erase"
               PROVE  /\ removal'[d].pos \in 1..removal'[d].end
                      /\ OneCaller => removal'[d].end <= l
    BY DEF RemovalSound, OneCaller
  <1> HIDE DEF v
  <1>3. CASE Answer(c) /\ UNCHANGED <<removal, crash>>
    <2>1. d # c
      BY <1>3 DEF Answer, TypeOK, DriverTypeOK
    <2> QED
      BY <1>2, <1>3, <2>1
  <1>4. CASE /\ \E e \in Callers \ {c} : phase[e] = "erase"
             /\ UNCHANGED <<phase, removal, outcome>>
    BY <1>4 DEF RemovalSound, OneCaller
  <1>5. ASSUME NEW i \in PositionsOf(v, request[c].id),
               removal' = [removal EXCEPT ![c] = [pos |-> i, end |-> l]]
        PROVE  /\ removal'[d].pos \in 1..removal'[d].end
               /\ OneCaller => removal'[d].end <= l
    <2>1. i \in 1..l
      BY DEF PositionsOf
    <2> HIDE DEF l
    <2>2. CASE d = c
      <3>1. removal'[d].pos = i /\ removal'[d].end = l
        BY <1>5, <2>2 DEF TypeOK, DriverTypeOK
      <3> QED
        BY <1>1, <2>1, <3>1
    <2>3. CASE d # c
      <3>1. removal'[d] = removal[d]
        BY <1>5, <2>3 DEF TypeOK, DriverTypeOK
      <3> QED
        BY <1>2, <2>3, <3>1
    <2> QED
      BY <2>2, <2>3
  <1> QED
    BY <1>3, <1>4, <1>5 DEF Searched, v

LEMMA CallerCauses ==
  ASSUME TypeOK, TypeOK', LockStep, Accounts, Causes, DriverStep,
         NEW c \in Callers, CallerThread(c)
  PROVE  Causes'
  <1> USE DEF Causes
  <1>1. /\ Running
        /\ UNCHANGED <<bufferQueue, request, calls, executions, sending>>
        /\ Undelivered' => Undelivered
    <2>1. UNCHANGED <<bufferQueue, request, calls, sending, toServer>> /\ io' \in {io, "check"}
      BY DEF CallerThread, NotifyIo, WakeIo, PollHit, TimeOut, RemoveFind, RemoveErase, ioVars,
             wireVars
    <2> QED
      BY <2>1, DriverHands DEF Undelivered
  <1>2. \A d \in Callers : /\ phase'[d] # "idle" => phase[d] # "idle"
                           /\ d # c => phase'[d] = phase[d]
    <2>1. CASE NotifyIo(c) \/ PollHit(c) \/ TimeOut(c)
      BY <2>1 DEF NotifyIo, PollHit, TimeOut, TypeOK, DriverTypeOK
    <2>2. CASE RemoveFind(c) \/ RemoveErase(c)
      <3>1. phase[c] \in {"found", "erase"} /\ InRemove(c)
        BY <2>2, RemoveTurn
      <3> QED
        BY <3>1 DEF InRemove, EndsCall, TypeOK, DriverTypeOK
    <2> QED
      BY <2>1, <2>2 DEF CallerThread
  <1>3. HeadersRight' /\ KnownTexts' /\ OnlyWholeTextsExecuted'
    BY <1>1, <1>2, DriverHeaders, TextsUnseen, ExecutedUnseen
  <1>4. CASE NotifyIo(c) \/ PollHit(c) \/ TimeOut(c)
    <2>1. UNCHANGED <<responseQueue, removal, crash>> /\ phase'[c] # "erase"
      BY <1>4 DEF NotifyIo, PollHit, TimeOut, wireVars, TypeOK, DriverTypeOK
    <2>2. RemovalSound' /\ CrashCauses'
      BY <1>1, <1>2, <2>1, RemovalUnseen DEF CrashCauses, Running
    <2> QED
      BY <1>3, <2>2
  <1>5. CASE RemoveFind(c) \/ RemoveErase(c)
    <2>1. CASE Searched(c, responseQueue')
      <3>1. RemovalSound'
        <4>1. responseQueue' \in Seq(Calls \cup {NullRef})
          BY DEF TypeOK, DriverTypeOK
        <4> QED
          BY <1>2, <2>1, <4>1, RemoveSoundly
      <3>2. crash' = crash \/ (crash' = "range" /\ \E d \in Callers : d # c)
        BY <2>1 DEF Searched
      <3>3. CrashCauses'
        BY <1>1, <3>2 DEF CrashCauses, Running
      <3> QED
        BY <1>3, <3>1, <3>3
    <2>2. CASE /\ crash' = "memory" /\ phase[c] = "erase"
               /\ \E len \in LengthsAfterErase(responseQueue, removal[c].end) : len < 0
               /\ UNCHANGED <<responseQueue, phase, removal, outcome>>
      <3>1. ~OneCaller
        <4>1. \A len \in LengthsAfterErase(responseQueue, removal[c].end) : len < 0 => ~(len >= 0)
          <5>1. Len(responseQueue) \in Nat /\ removal[c].end \in Nat
            BY LenProperties DEF TypeOK, DriverTypeOK
          <5> QED
            BY <5>1 DEF LengthsAfterErase
        <4> QED
          BY <2>2, <4>1, EraseAlone
      <3>2. CrashCauses'
        BY <2>2, <3>1 DEF CrashCauses, OneCaller
      <3>3. RemovalSound'
        BY <2>2, RemovalUnseen
      <3> QED
        BY <1>3, <3>2, <3>3
    <2> QED
      BY <1>5, <2>1, <2>2, RemoveSearches
  <1> QED
    BY <1>4, <1>5 DEF CallerThread

LEMMA DriverCauses ==
  TypeOK /\ LockStep /\ Accounts /\ Causes /\ DriverStep => Causes'
  <1> SUFFICES ASSUME TypeOK, LockStep, Accounts, Causes, DriverStep PROVE Causes'
    OBVIOUS
  <1>1. TypeOK'
    BY DriverStepType
  <1> QED
    BY <1>1, IoCauses, BeginCauses, CallerCauses DEF DriverStep, DriverNext, BeginCall

LEMMA AlwaysCauses == Spec => []Causes
  <1>1. Causes /\ UNCHANGED vars => Causes'
    <2> SUFFICES ASSUME Causes, UNCHANGED vars PROVE Causes'
      OBVIOUS
    <2>1. /\ UNCHANGED <<io, sending, expected, bufferQueue, responseQueue>>
          /\ UNCHANGED <<phase, request, calls, removal, session, announced, executions, toServer>>
          /\ crash' = crash
      BY DEF vars, driverVars, ioVars, callerVars, sessionVars, wireVars
    <2>2. KnownTexts' /\ OnlyWholeTextsExecuted' /\ RemovalSound'
      BY <2>1, TextsUnseen, ExecutedUnseen, RemovalUnseen DEF Causes, Undelivered
    <2>3. HeadersRight'
      BY <2>1 DEF Causes, HeadersRight, AnnouncedRight, DeliveredWhole, Whole, HeaderSize, Running,
                  Delivered
    <2>4. CrashCauses'
      BY <2>1 DEF Causes, CrashCauses, HeaderSize
    <2> QED
      BY <2>2, <2>3, <2>4 DEF Causes
  <1>2. TypeOK /\ LockStep /\ Accounts /\ Causes /\ [Next]_vars => Causes'
    BY <1>1, ServerCauses, DriverCauses DEF Next, Accounts
  <1> QED
    BY <1>2, InitCauses, TypeCorrect, KeepStep, AlwaysAccounts, PTL DEF Spec

(* The server never processes a call whose text it did not receive whole,  *)
(* or took for a header.                                                   *)
THEOREM ExecutedWhole == Spec => []OnlyWholeTextsExecuted
  <1>1. Causes => OnlyWholeTextsExecuted
    BY DEF Causes
  <1> QED
    BY <1>1, AlwaysCauses, PTL

(* The process dies only of the texts and headers CrashCauses names, or of *)
(* two callers.                                                            *)
THEOREM DiesOnlyByCause == Spec => []CrashCauses
  <1>1. Causes => CrashCauses
    BY DEF Causes
  <1> QED
    BY <1>1, AlwaysCauses, PTL

-----------------------------------------------------------------------------
(* What hands a call is in.                                                *)

InQueue(q, k) == \E i \in 1..Len(q) : q[i].id = k
InResponses(q, k) == \E i \in 1..Len(q) : q[i] = k

LEMMA PopHands ==
  ASSUME NEW q \in Seq(Message), q # <<>>, NEW k, InQueue(q, k)
  PROVE  InQueue(PopBack(q), k) \/ Peek(q).id = k
  <1> DEFINE l == Len(q)
  <1>1. /\ Peek(q) = q[l] /\ Len(PopBack(q)) = l - 1
        /\ \A i \in 1..(l - 1) : PopBack(q)[i] = q[i]
    BY PopBackLemma
  <1>2. PICK i \in 1..l : q[i].id = k
    BY DEF InQueue
  <1>3. i \in 1..(l - 1) \/ i = l
    <2>1. l \in Nat
      BY LenProperties
    <2> HIDE DEF l
    <2> QED
      BY <2>1
  <1> QED
    BY <1>1, <1>2, <1>3 DEF InQueue

LEMMA PushHands ==
  ASSUME NEW S, NEW q \in Seq(S), NEW e \in S
  PROVE  /\ InResponses(PushBack(q, e), e)
         /\ \A k : InResponses(q, k) => InResponses(PushBack(q, e), k)
         /\ InQueue(PushBack(q, e), e.id)
         /\ \A k : InQueue(q, k) => InQueue(PushBack(q, e), k)
  <1> DEFINE l == Len(q)
             p == PushBack(q, e)
  <1>1. Len(p) = l + 1 /\ (\A i \in 1..l : p[i] = q[i]) /\ p[l + 1] = e
    BY PushBackLemma
  <1>2. l + 1 \in 1..(l + 1) /\ \A i \in 1..l : i \in 1..(l + 1)
    <2>1. l \in Nat
      BY LenProperties
    <2> HIDE DEF l
    <2> QED
      BY <2>1
  <1> HIDE DEF l, p
  <1>3. InResponses(p, e) /\ InQueue(p, e.id)
    BY <1>1, <1>2 DEF InResponses, InQueue
  <1>4. \A k : (InResponses(q, k) => InResponses(p, k)) /\ (InQueue(q, k) => InQueue(p, k))
    BY <1>1, <1>2 DEF InResponses, InQueue, l
  <1> QED
    BY <1>3, <1>4 DEF p

(* A remove leaves the responses that the other callers wait for.          *)
RemovalSpares ==
  \A c, d \in Callers :
    (c # d /\ RemoveErase(d) /\ Running' /\ InResponses(responseQueue, CurrentCall(c)))
      => InResponses(responseQueue', CurrentCall(c))

(* While the process runs, a turn of remove() leaves no call that waits.   *)
LEMMA RemoveEnds ==
  ASSUME TypeOK, NEW c \in Callers, RemoveFind(c) \/ RemoveErase(c), Running'
  PROVE  ~Waits(c)'
  <1>1. Searched(c, responseQueue')
    BY RemoveSearches DEF Running
  <1>2. Answer(c) \/ phase' = [phase EXCEPT ![c] = "erase"]
    BY <1>1 DEF Searched, Running
  <1> QED
    BY <1>2 DEF Answer, Waits, TypeOK, DriverTypeOK

LEMMA CallerMovesItself ==
  ASSUME TypeOK, NEW d \in Callers, CallerThread(d), NEW c \in Callers, c # d
  PROVE  phase'[c] = phase[c] /\ removal'[c] = removal[c] /\ calls' = calls
  <1>1. CASE NotifyIo(d) \/ PollHit(d) \/ TimeOut(d)
    BY <1>1 DEF NotifyIo, PollHit, TimeOut, TypeOK, DriverTypeOK
  <1>2. CASE RemoveFind(d) \/ RemoveErase(d)
    <2>1. calls' = calls
      BY <1>2 DEF RemoveFind, RemoveErase
    <2>2. CASE Searched(d, responseQueue')
      BY <2>1, <2>2 DEF Searched, Answer, TypeOK, DriverTypeOK
    <2>3. CASE UNCHANGED <<phase, removal>>
      BY <2>1, <2>3
    <2> QED
      BY <1>2, <2>2, <2>3, RemoveSearches
  <1> QED
    BY <1>1, <1>2 DEF CallerThread

(* Then the request or the response of a call that waits is in the hands   *)
(* it should be in.                                                        *)
LEMMA KeepsHands ==
  ASSUME RemovalSpares, TypeOK, LockStep, NoAnswerLost, [Next]_vars
  PROVE  NoAnswerLost'
  <1> DEFINE Kept(c) == \/ InQueue(bufferQueue, CurrentCall(c))
                        \/ Carried(CurrentCall(c))
                        \/ InResponses(responseQueue, CurrentCall(c))
  <1>1. NoAnswerLost <=> (Running /\ io # "ended" => \A c \in Callers : Waits(c) => Kept(c))
    BY DEF NoAnswerLost, InQueue, InResponses
  <1>2. SUFFICES ASSUME Running', io' # "ended", NEW c \in Callers, Waits(c)'
                 PROVE  Kept(c)'
    BY DEF NoAnswerLost, InQueue, InResponses
  <1>3. ASSUME UNCHANGED <<io, sending, bufferQueue, responseQueue, calls, phase, crash>>
        PROVE  Kept(c)'
    BY <1>1, <1>2, <1>3 DEF Running, Waits, CurrentCall, Carried
  <1>4. CASE UNCHANGED vars
    BY <1>3, <1>4 DEF vars, driverVars, ioVars, callerVars, wireVars
  <1>5. CASE ServerStep
    BY <1>2, <1>1, <1>5 DEF ServerStep, SessionThread, driverVars, ioVars, callerVars, Running, Waits,
       CurrentCall, Carried
  <1>6. CASE DriverStep
    <2>1. Running
      BY <1>6, DriverHands
    <2>2. ASSUME UNCHANGED <<phase, calls>>, io # "ended"
          PROVE  Kept(c) /\ CurrentCall(c)' = CurrentCall(c)
      BY <1>1, <1>2, <2>1, <2>2 DEF Waits, CurrentCall
    <2>3. CASE Connect \/ CheckQueue \/ Block \/ NotifierService \/ SpuriousWakeup
      <3>1. UNCHANGED <<phase, calls, sending, bufferQueue, responseQueue>>
        BY <2>3 DEF Connect, CheckQueue, Block, NotifierService, SpuriousWakeup, callerVars
      <3>2. io \in {"connecting", "check", "block", "waiting"}
        BY <2>3 DEF Connect, CheckQueue, Block, NotifierService, SpuriousWakeup
      <3> QED
        BY <2>2, <3>1, <3>2 DEF Carried
    <2>4. CASE PopRequest
      <3>1. /\ io = "pop" /\ io' = "sendSize" /\ sending' = Peek(bufferQueue)
            /\ bufferQueue' = PopBack(bufferQueue) /\ UNCHANGED <<phase, calls, responseQueue>>
            /\ bufferQueue \in Seq(Message) /\ bufferQueue # <<>>
        BY <2>4 DEF PopRequest, callerVars, TypeOK, DriverTypeOK, PointersSet
      <3>2. Kept(c) /\ CurrentCall(c)' = CurrentCall(c) /\ ~Carried(CurrentCall(c))
        BY <2>2, <3>1 DEF Carried
      <3> QED
        BY <3>1, <3>2, PopHands DEF Carried
    <2>5. CASE SendSize \/ SendData \/ ReadSize \/ ReadData
      <3>1. /\ UNCHANGED <<phase, calls, sending, bufferQueue, responseQueue>>
            /\ io \in {"sendSize", "sendData", "readSize", "readData"}
            /\ io' \in {"sendData", "readSize", "readData", "push", "ended"}
        BY <2>5 DEF SendSize, SendData, ReadSize, ReadData, callerVars
      <3> QED
        BY <1>2, <2>2, <3>1 DEF Carried
    <2>6. CASE PushResponse
      <3> DEFINE S == Calls \cup {NullRef}
                 e == received.id
      <3>1. /\ io = "push" /\ responseQueue' = PushBack(responseQueue, e)
            /\ UNCHANGED <<phase, calls, sending, bufferQueue>>
        BY <2>6 DEF PushResponse, callerVars
      <3>2. received = sending
        BY <2>1, <3>1 DEF LockStep
      <3>3. e \in S /\ responseQueue \in Seq(S)
        BY <3>1 DEF TypeOK, PointersSet, Message, DriverTypeOK
      <3>4. /\ InResponses(responseQueue', e)
            /\ \A k : InResponses(responseQueue, k) => InResponses(responseQueue', k)
        <4> HIDE DEF S, e
        <4> QED
          BY <3>1, <3>3, PushHands
      <3> QED
        BY <2>2, <3>1, <3>2, <3>4 DEF Carried
    <2>7. ASSUME NEW d \in Callers, NEW b \in Bodies, QueueRequest(d, b)
          PROVE  Kept(c)'
      <3> DEFINE m == [id |-> <<d, calls[d] + 1>>, body |-> b]
      <3>1. /\ bufferQueue' = PushBack(bufferQueue, m)
            /\ calls' = [calls EXCEPT ![d] = @ + 1] /\ calls'[d] = calls[d] + 1
            /\ phase' = [phase EXCEPT ![d] = "notify"]
            /\ UNCHANGED <<io, sending, responseQueue>>
        BY <2>7 DEF QueueRequest, TypeOK, DriverTypeOK, ioVars
      <3>2. m \in Message /\ bufferQueue \in Seq(Message)
        <4>1. calls[d] \in 0..MaxCalls /\ calls[d] < MaxCalls /\ MaxCalls \in Nat
          BY <2>7, WireAssumption DEF QueueRequest, TypeOK, DriverTypeOK
        <4>2. calls[d] + 1 \in 1..MaxCalls
          BY <4>1
        <4> QED
          BY <4>2 DEF Message, Calls, TypeOK, DriverTypeOK
      <3>3. /\ InQueue(bufferQueue', m.id)
            /\ \A k : InQueue(bufferQueue, k) => InQueue(bufferQueue', k)
        <4> HIDE DEF m
        <4> QED
          BY <3>1, <3>2, PushHands
      <3>4. CASE d = c
        BY <3>1, <3>3, <3>4 DEF CurrentCall
      <3>5. CASE d # c
        <4>1. phase'[c] = phase[c] /\ calls'[c] = calls[c]
          BY <3>1, <3>5 DEF TypeOK, DriverTypeOK
        <4>2. Kept(c) /\ CurrentCall(c)' = CurrentCall(c)
          BY <1>1, <1>2, <2>1, <3>1, <4>1 DEF Waits, CurrentCall
        <4> QED
          BY <3>1, <3>3, <4>2 DEF Carried
      <3> QED
        BY <3>4, <3>5
    <2>8. ASSUME NEW d \in Callers, CallerThread(d)
          PROVE  Kept(c)'
      <3>1. CASE d = c
        <4>1. NotifyIo(c) \/ PollHit(c)
          <5>1. ~TimeOut(c)
            BY <1>2 DEF TimeOut, Waits, TypeOK, DriverTypeOK
          <5>2. ~(RemoveFind(c) \/ RemoveErase(c))
            BY <1>2, RemoveEnds
          <5> QED
            BY <2>8, <3>1, <5>1, <5>2 DEF CallerThread
        <4>2. /\ phase[c] \in {"notify", "poll"} /\ io' \in {io, "check"}
              /\ io' # io => io = "waiting"
              /\ UNCHANGED <<sending, bufferQueue, responseQueue, calls>>
          BY <4>1 DEF NotifyIo, WakeIo, PollHit, ioVars
        <4>3. Kept(c) /\ CurrentCall(c)' = CurrentCall(c)
          BY <1>1, <1>2, <2>1, <4>2 DEF Waits, CurrentCall
        <4> QED
          BY <4>2, <4>3 DEF Carried
      <3>2. CASE d # c
        <4>1. /\ io' \in {io, "check"} /\ (io' # io => io = "waiting")
              /\ UNCHANGED <<sending, bufferQueue, calls>>
              /\ responseQueue' = responseQueue \/ RemoveErase(d)
          BY <2>8 DEF CallerThread, NotifyIo, WakeIo, PollHit, TimeOut, RemoveFind, RemoveErase,
                      ioVars
        <4>2. phase'[c] = phase[c]
          BY <2>8, <3>2, CallerMovesItself
        <4>3. Kept(c) /\ CurrentCall(c)' = CurrentCall(c)
          BY <1>1, <1>2, <2>1, <4>1, <4>2 DEF Waits, CurrentCall
        <4>4. InResponses(responseQueue, CurrentCall(c))
                => InResponses(responseQueue', CurrentCall(c))
          BY <1>2, <3>2, <4>1 DEF RemovalSpares
        <4> QED
          BY <4>1, <4>3, <4>4 DEF Carried
      <3> QED
        BY <3>1, <3>2
    <2> QED
      BY <1>6, <2>3, <2>4, <2>5, <2>6, <2>7, <2>8
      DEF DriverStep, DriverNext, IoThread, Notifier, BeginCall
  <1> QED
    BY <1>4, <1>5, <1>6 DEF Next

(* A single caller's request or response is never lost: it is queued,      *)
(* carried by the IO thread or among the responses, as long as the process *)
(* and its IO thread run.                                                  *)
THEOREM OneCallersAnswerKept == OneCaller => (Spec => []NoAnswerLost)
  <1> SUFFICES ASSUME OneCaller PROVE Spec => []NoAnswerLost
    OBVIOUS
  <1>1. Init => NoAnswerLost
    BY DEF Init, DriverInit, NoAnswerLost, Waits
  <1>2. RemovalSpares
    BY DEF OneCaller, RemovalSpares
  <1>3. TypeOK /\ LockStep /\ NoAnswerLost /\ [Next]_vars => NoAnswerLost'
    BY <1>2, KeepsHands
  <1> QED
    BY <1>1, <1>3, TypeCorrect, KeepStep, PTL DEF Spec

-----------------------------------------------------------------------------
(* What a lock would give.                                                 *)

(* While a remove is under way, no response is pushed and no other remove  *)
(* begins: so it would be if remove() held the mutex of the vector.        *)
RemovalHoldsLock ==
  \A c \in Callers : phase[c] = "erase" =>
    ~PushResponse /\ \A d \in Callers \ {c} : ~RemoveFind(d)

(* So a remove finds the responses as it has read them, alone.             *)
RemovalsWhole ==
  \A c \in Callers : phase[c] = "erase" =>
    /\ removal[c].end = Len(responseQueue)
    /\ removal[c].pos \in 1..Len(responseQueue)
    /\ responseQueue[removal[c].pos] = CurrentCall(c)
    /\ \A d \in Callers \ {c} : phase[d] # "erase"

(* A position erased from a whole vector: the other elements stay.         *)
LEMMA WholeErase ==
  ASSUME NEW S, NEW v \in Seq(S), NEW pos \in 1..Len(v), NEW k, InResponses(v, k), v[pos] # k
  PROVE  InResponses(Erased(v, pos, Len(v), Len(v) - 1), k)
  <1> DEFINE l == Len(v)
             w == Erased(v, pos, l, l - 1)
  <1>1. l \in Nat
    BY LenProperties
  <1>2. PICK i \in 1..l : v[i] = k
    BY DEF InResponses
  <1> HIDE DEF l
  <1>3. Len(w) = l - 1 /\ \A j \in 1..(l - 1) : w[j] = IF j \in pos..(l - 1) THEN v[j + 1] ELSE v[j]
    <2>1. l - 1 \in Nat /\ pos \in 1..l
      BY <1>1, <1>2 DEF l
    <2>2. w = [j \in 1..(l - 1) |-> Moved(v, pos, l, j)]
      BY DEF Erased
    <2>3. Len(w) = l - 1
      BY <2>1, <2>2
    <2>4. ASSUME NEW j \in 1..(l - 1)
          PROVE  Moved(v, pos, l, j) = IF j \in pos..(l - 1) THEN v[j + 1] ELSE v[j]
      <3>1. j \in 1..Len(v) /\ j + 1 \in 1..Len(v) /\ j # l
        BY <1>1 DEF l
      <3> QED
        BY <3>1 DEF Moved, SlotAt
    <2> QED
      BY <2>2, <2>3, <2>4
  <1> HIDE DEF w
  <1>4. i # pos
    BY <1>2
  <1>5. pos \in 1..l
    BY DEF l
  <1>6. CASE i < pos
    <2>1. i \in 1..(l - 1) /\ i \notin pos..(l - 1)
      BY <1>1, <1>5, <1>6
    <2> QED
      BY <1>2, <1>3, <2>1 DEF InResponses, w, l
  <1>7. CASE i > pos
    <2>1. i - 1 \in 1..(l - 1) /\ i - 1 \in pos..(l - 1) /\ (i - 1) + 1 = i
      BY <1>1, <1>5, <1>7
    <2> QED
      BY <1>2, <1>3, <2>1 DEF InResponses, w, l
  <1> QED
    BY <1>1, <1>4, <1>5, <1>6, <1>7

(* Then it takes away its own response alone ...                           *)
LEMMA WholeSpares ==
  ASSUME TypeOK, RemovalsWhole
  PROVE  RemovalSpares
  <1> SUFFICES ASSUME NEW c \in Callers, NEW d \in Callers, c # d, RemoveErase(d), Running',
                      InResponses(responseQueue, CurrentCall(c))
               PROVE  InResponses(responseQueue', CurrentCall(c))
    BY DEF RemovalSpares
  <1> DEFINE v == responseQueue
             pos == removal[d].pos
  <1>1. /\ removal[d].end = Len(v) /\ pos \in 1..Len(v) /\ v[pos] = CurrentCall(d)
    BY DEF RemovalsWhole, RemoveErase
  <1>2. LengthsAfterErase(v, removal[d].end) = {Len(v) - 1}
    BY <1>1 DEF LengthsAfterErase
  <1>3. v' = Erased(v, pos, Len(v), Len(v) - 1)
    BY <1>1, <1>2 DEF RemoveErase, Crash, Running
  <1>4. v[pos] # CurrentCall(c)
    BY <1>1 DEF CurrentCall
  <1>5. v \in Seq(Calls \cup {NullRef})
    BY DEF TypeOK, DriverTypeOK
  <1> QED
    BY <1>1, <1>3, <1>4, <1>5, WholeErase

(* ... and finds them so to its end.                                       *)
LEMMA RemoveWhole ==
  ASSUME TypeOK, RemovalsWhole, NEW c \in Callers, RemoveFind(c) \/ RemoveErase(c)
  PROVE  \/ Answer(c) /\ UNCHANGED <<removal, crash>>
         \/ \E i \in PositionsOf(responseQueue', request[c].id) :
              /\ phase' = [phase EXCEPT ![c] = "erase"]
              /\ removal' = [removal EXCEPT ![c] = [pos |-> i, end |-> Len(responseQueue')]]
              /\ UNCHANGED crash
         \/ RemoveFind(c) /\ \E d \in Callers \ {c} : phase[d] = "erase"
  <1>1. CASE Searched(c, responseQueue')
    <2>1. \A d \in Callers \ {c} : RemoveErase(c) => phase[d] # "erase"
      BY DEF RemovalsWhole, RemoveErase
    <2> QED
      BY <1>1, <2>1 DEF Searched
  <1>2. CASE /\ phase[c] = "erase"
             /\ \E len \in LengthsAfterErase(responseQueue, removal[c].end) : len < 0
    <2> DEFINE l == Len(responseQueue)
    <2>1. removal[c].end = l /\ removal[c].pos \in 1..l
      BY <1>2 DEF RemovalsWhole
    <2>2. LengthsAfterErase(responseQueue, removal[c].end) = {l - 1}
      BY <2>1 DEF LengthsAfterErase
    <2>3. l \in Nat
      BY LenProperties DEF TypeOK, DriverTypeOK
    <2>4. l - 1 < 0
      BY <1>2, <2>2
    <2> HIDE DEF l
    <2> QED
      BY <2>1, <2>3, <2>4
  <1> QED
    BY <1>1, <1>2, RemoveSearches

LEMMA KeepsWhole ==
  ASSUME TypeOK, RemovalsWhole, [Next]_vars, [RemovalHoldsLock]_vars
  PROVE  RemovalsWhole'
  <1>1. CASE UNCHANGED vars
    BY <1>1 DEF vars, driverVars, callerVars, RemovalsWhole, CurrentCall
  <1>2. CASE Next /\ RemovalHoldsLock
    <2>1. \/ UNCHANGED <<phase, calls, removal>> /\ (PushResponse \/ UNCHANGED responseQueue)
          \/ \E d \in Callers : \E b \in Bodies : QueueRequest(d, b)
          \/ \E d \in Callers : CallerThread(d)
      BY <1>2 DEF Next, ServerStep, SessionThread, driverVars, DriverStep, DriverNext, IoThread,
         Notifier, BeginCall, callerVars, Connect, CheckQueue, Block, PopRequest, SendSize,
         SendData, ReadSize, ReadData, PushResponse, NotifierService, SpuriousWakeup
    <2>2. CASE UNCHANGED <<phase, calls, removal>> /\ (PushResponse \/ UNCHANGED responseQueue)
      BY <1>2, <2>2 DEF RemovalsWhole, RemovalHoldsLock, CurrentCall
    <2>3. ASSUME NEW d \in Callers, NEW b \in Bodies, QueueRequest(d, b)
          PROVE  RemovalsWhole'
      <3>1. /\ UNCHANGED <<removal, responseQueue>>
            /\ \A c \in Callers : phase'[c] = "erase" <=> phase[c] = "erase"
            /\ \A c \in Callers : phase[c] = "erase" => calls'[c] = calls[c]
        BY <2>3 DEF QueueRequest, TypeOK, DriverTypeOK
      <3> QED
        BY <3>1 DEF RemovalsWhole, CurrentCall
    <2>4. ASSUME NEW d \in Callers, CallerThread(d)
          PROVE  RemovalsWhole'
      <3>1. \A c \in Callers \ {d} :
              phase'[c] = phase[c] /\ removal'[c] = removal[c] /\ calls' = calls
        BY <2>4, CallerMovesItself
      <3>2. CASE NotifyIo(d) \/ PollHit(d) \/ TimeOut(d)
        <4>1. phase'[d] # "erase" /\ phase[d] # "erase" /\ UNCHANGED responseQueue
          BY <3>2 DEF NotifyIo, PollHit, TimeOut, TypeOK, DriverTypeOK
        <4> QED
          BY <3>1, <4>1 DEF RemovalsWhole, CurrentCall
      <3>3. CASE RemoveFind(d) \/ RemoveErase(d)
        <4>1. \A c \in Callers \ {d} : phase[c] # "erase"
          BY <1>2, <3>3 DEF RemovalHoldsLock, RemovalsWhole, RemoveErase
        <4>2. \A c \in Callers \ {d} : phase'[c] # "erase"
          BY <3>1, <4>1
        <4>3. CASE Answer(d)
          <5>1. phase'[d] # "erase"
            BY <4>3 DEF Answer, TypeOK, DriverTypeOK
          <5> QED
            BY <4>2, <5>1 DEF RemovalsWhole
        <4>4. ASSUME NEW i \in PositionsOf(responseQueue', request[d].id),
                     removal' = [removal EXCEPT ![d] = [pos |-> i, end |-> Len(responseQueue')]]
              PROVE  RemovalsWhole'
          <5>1. request[d].id = CurrentCall(d) /\ calls' = calls
            BY <3>3 DEF RemoveFind, RemoveErase, TypeOK, PointersSet
          <5>2. removal'[d] = [pos |-> i, end |-> Len(responseQueue')]
            BY <4>4 DEF TypeOK, DriverTypeOK
          <5>3. i \in 1..Len(responseQueue') /\ responseQueue'[i] = CurrentCall(d)'
            BY <5>1 DEF PositionsOf, CurrentCall
          <5> QED
            BY <4>2, <5>2, <5>3 DEF RemovalsWhole
        <4> QED
          BY <3>3, <4>1, <4>3, <4>4, RemoveWhole
      <3> QED
        BY <2>4, <3>2, <3>3 DEF CallerThread
    <2> QED
      BY <2>1, <2>2, <2>3, <2>4
  <1> QED
    BY <1>1, <1>2

(* With any number of callers, no answer is lost as long as nothing is     *)
(* pushed and no other remove begins during a remove: the missing lock is  *)
(* the only cause of the loss, and the lock that push_back, pop and peek   *)
(* hold would be enough (ConcurrentVector.h:164-178).                      *)
THEOREM LockKeepsAnswers ==
  Spec /\ [][RemovalHoldsLock]_vars => []NoAnswerLost
  <1>1. Init => NoAnswerLost /\ RemovalsWhole
    BY DEF Init, DriverInit, NoAnswerLost, Waits, RemovalsWhole
  <1>2. TypeOK /\ LockStep /\ NoAnswerLost /\ RemovalsWhole /\ [Next]_vars /\ [RemovalHoldsLock]_vars
          => NoAnswerLost' /\ RemovalsWhole'
    BY WholeSpares, KeepsHands, KeepsWhole
  <1> QED
    BY <1>1, <1>2, TypeCorrect, KeepStep, PTL DEF Spec

(* The process has not died of the vector: of a length below zero or of a  *)
(* position behind its end.                                                *)
NoRemovalError == crash \notin {"memory", "range"}

(* A remove that finds the responses whole does not kill the process, and  *)
(* nothing else dies so.                                                   *)
LEMMA WholeSafe ==
  ASSUME TypeOK, RemovalsWhole, NoRemovalError, [Next]_vars, [RemovalHoldsLock]_vars
  PROVE  NoRemovalError'
  <1>1. CASE UNCHANGED vars
    BY <1>1 DEF vars, wireVars, NoRemovalError
  <1>2. CASE ServerStep
    BY <1>2 DEF ServerStep, SessionThread, Accept, SessionReadSize, SessionReadData, TakeReply,
       SessionSendSize, SessionSendData, Crash, wireVars, NoRemovalError
  <1>3. CASE DriverStep /\ RemovalHoldsLock
    <2>1. ASSUME NEW d \in Callers, RemoveFind(d) \/ RemoveErase(d)
          PROVE  crash' = crash
      <3>1. \A c \in Callers \ {d} : RemoveFind(d) => phase[c] # "erase"
        BY <1>3 DEF RemovalHoldsLock
      <3> QED
        BY <2>1, <3>1, RemoveWhole
    <2>2. ASSUME NEW d \in Callers, BeginCall(d) \/ CallerThread(d)
          PROVE  crash' = crash
      BY <2>1, <2>2 DEF BeginCall, QueueRequest, CallerThread, NotifyIo, PollHit, TimeOut, wireVars
    <2>3. CASE IoThread \/ Notifier \/ (Running /\ SpuriousWakeup)
      BY <2>3 DEF IoThread, Notifier, SpuriousWakeup, NotifierService, Connect, CheckQueue, Block,
         PopRequest, SendSize, SendData, ReadSize, ReadData, PushResponse, Crash, wireVars,
         NoRemovalError
    <2> QED
      BY <1>3, <2>2, <2>3 DEF DriverStep, DriverNext, NoRemovalError
  <1> QED
    BY <1>1, <1>2, <1>3 DEF Next

(* With the lock the process does not die of the vector either, for any    *)
(* number of callers: what is left are the causes that one caller meets    *)
(* (ConcurrentVector.h:164-178).                                           *)
THEOREM LockKeepsMemory ==
  Spec /\ [][RemovalHoldsLock]_vars => []NoRemovalError
  <1>1. Init => RemovalsWhole /\ NoRemovalError
    BY DEF Init, DriverInit, WireInit, RemovalsWhole, NoRemovalError
  <1>2. TypeOK /\ RemovalsWhole /\ NoRemovalError /\ [Next]_vars /\ [RemovalHoldsLock]_vars
          => RemovalsWhole' /\ NoRemovalError'
    BY WholeSafe, KeepsWhole
  <1> QED
    BY <1>1, <1>2, TypeCorrect, PTL DEF Spec
=============================================================================
