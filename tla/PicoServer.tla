----------------------------- MODULE PicoServer -----------------------------
(***************************************************************************)
(* The server as its clients meet it: the accept loop of pico_server.h and *)
(* the session's reads as they are made, one read_some on a stream of      *)
(* characters.  PicoSystem joins one driver to the server and lets a read  *)
(* return what one write wrote; here several clients connect, a read       *)
(* returns what has arrived so far, and clients leave.                     *)
(*                                                                         *)
(* One thread runs io_service.run(): the handler of an accepted connection *)
(* runs the session on that thread and returns only when the session ends, *)
(* and a session ends only by an exception, after which its destructor's   *)
(* assert ends the process.                                                *)
(*                                                                         *)
(* A stream is cut into parts: a header is its "####" and its digits, a    *)
(* text is TextParts parts.  A size counts parts.  The part of a buffer    *)
(* that a read did not fill is recycled memory, an earlier text perhaps:   *)
(* it may make a number or a message of what was read.  Left to            *)
(* PicoSystem: the texts that hold "####" or are too long for a header,    *)
(* the header made from freed memory, and the driver's threads.            *)
(***************************************************************************)
EXTENDS Integers, Sequences

CONSTANTS
  Clients,        \* programs that connect
  MaxRequests,    \* bound: requests one client sends
  TextParts,      \* parts of a text
  GarbageSizes,   \* numbers that a misread buffer may announce
  Stray,          \* a message that is no request as its client wrote it
  None            \* no client

ASSUME ServerAssumption ==
  /\ MaxRequests \in Nat
  /\ TextParts \in Nat \ {0}
  /\ GarbageSizes \subseteq Int
  /\ None \notin Clients

VARIABLES
  client,     \* client[c]: what client c does next
  sent,       \* sent[c]: requests it has begun to write
  stream,     \* stream[c]: parts it wrote that were not read
  answers,    \* answers[c]: the replies written to it
  backlog,    \* clients connected and not accepted, in order
  server,     \* where the server's thread is
  current,    \* the client it serves
  asked,      \* parts the next read asks for
  replying,   \* the message it replies with
  cut,        \* some read returned less than it asked for
  crash       \* why the process died, "none" while it runs

clientVars == <<client, sent, stream>>
serverVars == <<server, current, asked, replying, cut, answers>>
vars == <<clientVars, serverVars, backlog, crash>>

Requests == Clients \X (1..MaxRequests)
Messages == Requests \cup {Stray}

HeaderParts == 2
Mark == [kind |-> "mark"]
Size == [kind |-> "size"]
Text(m, i) == [kind |-> "text", msg |-> m, part |-> i]

Header   == <<Mark, Size>>
TextOf(m) == [i \in 1..TextParts |-> Text(m, i)]

Part == {Mark, Size} \cup {Text(m, i) : m \in Requests, i \in 1..TextParts}

Init ==
  /\ client = [c \in Clients |-> "new"]
  /\ sent = [c \in Clients |-> 0]
  /\ stream = [c \in Clients |-> <<>>]
  /\ answers = [c \in Clients |-> <<>>]
  /\ backlog = <<>>
  /\ server = "accepting"
  /\ current = None
  /\ asked = HeaderParts
  /\ replying = None
  /\ cut = FALSE
  /\ crash = "none"

-----------------------------------------------------------------------------
(* A client: the loop of the driver.                                       *)

Connect(c) ==
  /\ client[c] = "new"
  /\ client' = [client EXCEPT ![c] = "sendSize"]
  /\ backlog' = Append(backlog, c)
  /\ UNCHANGED <<sent, stream, serverVars, crash>>

SendSize(c) ==
  /\ client[c] = "sendSize"
  /\ sent[c] < MaxRequests
  /\ sent' = [sent EXCEPT ![c] = @ + 1]
  /\ stream' = [stream EXCEPT ![c] = @ \o Header]
  /\ client' = [client EXCEPT ![c] = "sendText"]
  /\ UNCHANGED <<serverVars, backlog, crash>>

SendText(c) ==
  /\ client[c] = "sendText"
  /\ stream' = [stream EXCEPT ![c] = @ \o TextOf(<<c, sent[c]>>)]
  /\ client' = [client EXCEPT ![c] = "await"]
  /\ UNCHANGED <<sent, serverVars, backlog, crash>>

(* The driver reads one reply for each request it writes, whatever the     *)
(* reply says.                                                             *)
Receive(c) ==
  /\ client[c] = "await"
  /\ Len(answers[c]) >= sent[c]
  /\ client' = [client EXCEPT ![c] = "sendSize"]
  /\ UNCHANGED <<sent, stream, serverVars, backlog, crash>>

(* Its program ends: what it wrote may still arrive, or be lost with the   *)
(* connection.                                                             *)
Leave(c) ==
  /\ client[c] \notin {"new", "left"}
  /\ client' = [client EXCEPT ![c] = "left"]
  /\ \E arrives \in {stream[c], <<>>} : stream' = [stream EXCEPT ![c] = arrives]
  /\ UNCHANGED <<sent, serverVars, backlog, crash>>

ClientStep ==
  \E c \in Clients :
    Connect(c) \/ SendSize(c) \/ SendText(c) \/ Receive(c) \/ Leave(c)

-----------------------------------------------------------------------------
(* The server's thread.                                                    *)

Left(c) == client[c] = "left"

(* The handler of async_accept starts the session and does not return, so  *)
(* that async_accept is not called again.                                  *)
Accept ==
  /\ server = "accepting"
  /\ backlog # <<>>
  /\ current' = Head(backlog)
  /\ backlog' = Tail(backlog)
  /\ server' = "reading"
  /\ UNCHANGED <<clientVars, asked, replying, cut, answers, crash>>

(* The buffer of a read holds these parts and, behind them, the memory it  *)
(* was made of.  A complete header or text is understood.  Anything else   *)
(* is understood by chance: as a header if there is a mark, of the parts   *)
(* or of the memory, before the last character and all the rest is digits, *)
(* as far as the zero that may follow a size; as a message if, without a   *)
(* mark, an object is found at its start, whatever follows it.             *)
IsHeader(buffer) == asked = HeaderParts /\ buffer = Header
IsText(buffer) ==
  /\ asked = TextParts
  /\ buffer # <<>> /\ buffer[1].kind = "text" /\ buffer = TextOf(buffer[1].msg)

Marked(buffer) == \E i \in 1..Len(buffer) : buffer[i] = Mark /\ i < asked

(* The braces of a text are no digits.                                     *)
Brace(p) == p.kind = "text" /\ p.part \in {1, TextParts}
MayBeNumber(buffer) ==
  \A i \in 1..Len(buffer) :
    Brace(buffer[i]) => \E j \in 1..(i - 1) : buffer[j] = Size

MayBeSize(buffer) ==
  MayBeNumber(buffer) /\ (Marked(buffer) \/ Len(buffer) < asked)

(* Mutant of SizeAfter: the size does not count the last part.             *)
SizeAfterShort(buffer) ==
  IF IsHeader(buffer) THEN {TextParts - 1}
  ELSE IF MayBeSize(buffer) THEN GarbageSizes ELSE {}

SizeAfter(buffer) ==
  IF IsHeader(buffer) THEN {TextParts}
  ELSE IF MayBeSize(buffer) THEN GarbageSizes ELSE {}

(* What the buffer may be read as: the message of a whole text; of a part  *)
(* of a text, that message if what is missing does not matter, or another  *)
(* one made with the memory behind it.                                     *)
MessagesIn(buffer) ==
  IF IsText(buffer) THEN {buffer[1].msg}
  ELSE IF Marked(buffer) \/ (buffer # <<>> /\ buffer[1].kind # "text") THEN {}
  ELSE {Stray} \cup {m \in Requests : buffer # <<>> /\ buffer[1] = Text(m, 1)}

(* Or it is taken for neither.                                             *)
Garbled(buffer) == ~IsHeader(buffer) /\ ~IsText(buffer)

(* Mutant of SessionEnds: without the destructor's assert, the handler     *)
(* returns and another client is accepted.                                 *)
SessionEndsQuietly(why) ==
  /\ server' = "accepting"
  /\ asked' = HeaderParts
  /\ UNCHANGED crash

SessionEnds(why) ==
  /\ crash' = why
  /\ UNCHANGED <<server, asked>>

(* The assert of readOneBuffer.                                            *)
(* Mutant of ValidSize: a size of nothing passes.                          *)
ValidSizeOrZero(size) == size >= 0

ValidSize(size) == size > 0

(* readOneBuffer and readSync: read_some waits for something and returns   *)
(* what there is, up to the size asked for; an error or the end of the     *)
(* stream returns nothing.  Neither is looked at.                          *)
Read ==
  LET arrived == stream[current]
  IN /\ server = "reading"
     /\ arrived # <<>> \/ Left(current)
     /\ \E n \in 0..Len(arrived) :
          LET buffer == SubSeq(arrived, 1, n)
          IN /\ n <= asked
             /\ n = 0 <=> arrived = <<>>
             /\ stream' = [stream EXCEPT ![current] = SubSeq(@, n + 1, Len(@))]
             /\ cut' = (cut \/ n < asked)
             /\ \/ \E size \in SizeAfter(buffer) :
                     IF ValidSize(size)
                     THEN asked' = size /\ UNCHANGED <<server, replying, crash>>
                     ELSE SessionEnds("size") /\ UNCHANGED replying
                \/ /\ \E m \in MessagesIn(buffer) : replying' = m
                   /\ server' = "writeSize"
                   /\ UNCHANGED <<asked, crash>>
                \/ /\ Garbled(buffer)
                   /\ \E why \in {"parse", "destructor"} : SessionEnds(why)
                   /\ UNCHANGED replying
  /\ UNCHANGED <<client, sent, current, answers, backlog>>

(* A write to a client that has left is lost, or throws.                   *)
(* Mutant of WriteSize: the text does not follow the header.               *)
WriteSizeOnly ==
  /\ server = "writeSize"
  /\ server' = "reading"
  /\ asked' = HeaderParts
  /\ UNCHANGED <<clientVars, current, replying, cut, answers, backlog, crash>>

WriteSize ==
  /\ server = "writeSize"
  /\ \/ server' = "writeData" /\ UNCHANGED <<asked, crash>>
     \/ Left(current) /\ SessionEnds("destructor")
  /\ UNCHANGED <<clientVars, current, replying, cut, answers, backlog>>

(* Mutant of WriteData: the loop writes on.                                *)
WriteDataAgain ==
  /\ server = "writeData"
  /\ answers' = [answers EXCEPT ![current] = Append(@, replying)]
  /\ server' = "writeSize"
  /\ UNCHANGED <<clientVars, current, replying, asked, cut, backlog, crash>>

WriteData ==
  /\ server = "writeData"
  /\ IF Left(current)
     THEN UNCHANGED answers
     ELSE answers' = [answers EXCEPT ![current] = Append(@, replying)]
  /\ \/ /\ server' = "reading"
        /\ asked' = HeaderParts
        /\ UNCHANGED crash
     \/ Left(current) /\ SessionEnds("destructor")
  /\ UNCHANGED <<clientVars, current, replying, cut, backlog>>

ServerStep == crash = "none" /\ (Accept \/ Read \/ WriteSize \/ WriteData)

Next == (crash = "none" /\ ClientStep) \/ ServerStep

Spec == Init /\ [][Next]_vars
FairSpec == Spec /\ WF_vars(ServerStep)

-----------------------------------------------------------------------------
TypeOK ==
  /\ client \in [Clients -> {"new", "sendSize", "sendText", "await", "left"}]
  /\ sent \in [Clients -> 0..MaxRequests]
  /\ stream \in [Clients -> Seq(Part)]
  /\ answers \in [Clients -> Seq(Messages)]
  /\ backlog \in Seq(Clients)
  /\ server \in {"accepting", "reading", "writeSize", "writeData"}
  /\ current \in Clients \cup {None}
  /\ asked \in Nat \ {0}
  /\ replying \in Messages \cup {None}
  /\ cut \in BOOLEAN
  /\ crash \in {"none", "size", "parse", "destructor"}

(* As long as every read returned what it asked for, a client gets the     *)
(* replies to its own requests, each once and in the order it wrote them,  *)
(* through departures at any point and whoever else connects               *)
(* (pico_session.h: the loop of start, one read and one write for each     *)
(* message).  Nothing of the kind holds once a read was cut short: what is *)
(* left in the stream and in the memory makes messages of its own.         *)
AnswersMatch ==
  ~cut => \A c \in Clients :
    /\ sent[c] - 1 <= Len(answers[c]) /\ Len(answers[c]) <= sent[c]
    /\ \A i \in 1..Len(answers[c]) : answers[c][i] = <<c, i>>

(* The client that is served is served until the process dies: whoever     *)
(* connects next waits in the backlog for ever, even once the first has    *)
(* left (pico_server.h:47-71: the handler that would accept again is still *)
(* running the first session).                                             *)
ServedClientKept ==
  [][current # None => current' = current]_vars

(* What ends the process is a read cut short or the client's leaving:      *)
(* reads that return whole messages never make it fail an assert           *)
(* (pico_session.h:88,108,318).                                            *)
DiesOnlyByCutOrDeparture ==
  crash # "none" => cut \/ Left(current)

(* The served client's request is answered, unless a read was cut short    *)
(* (the server may then ask for more than the client has to send, and each *)
(* waits for the other), the client leaves or the process dies.            *)
RequestAnswered ==
  \A c \in Clients : \A i \in 1..MaxRequests :
    (current = c /\ client[c] = "await" /\ sent[c] = i)
      ~> (Len(answers[c]) >= i \/ cut \/ Left(c) \/ crash # "none")
=============================================================================
