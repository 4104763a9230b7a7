-------------------------- MODULE PicoServerProofs --------------------------
(***************************************************************************)
(* The server and its clients, for any set of clients, any number of       *)
(* requests and parts of a text, and whatever uninitialised memory holds.  *)
(***************************************************************************)
EXTENDS PicoServer, SequenceTheorems, TLAPS

-----------------------------------------------------------------------------
(* Parts and the sequences they form.                                      *)

LEMMA TextKind ==
  /\ Mark.kind # "text" /\ Size.kind # "text"
  /\ \A m, i : Text(m, i).kind = "text" /\ Text(m, i).msg = m /\ Text(m, i).part = i
  /\ \A p \in Part : p.kind = "text" => p.msg \in Requests
  BY DEF Mark, Size, Text, Part

LEMMA HeaderParting ==
  /\ Header \in Seq(Part) /\ Len(Header) = 2
  /\ Header[1] = Mark /\ Header[2] = Size
  /\ \A i \in 1..2 : Header[i].kind # "text"
  <1>1. /\ Len(Header) = 2 /\ Header[1] = Mark /\ Header[2] = Size
    BY DEF Header
  <1>2. Header \in Seq(Part)
    <2> DEFINE P == Part
    <2>1. Mark \in P /\ Size \in P
      BY DEF Part
    <2> HIDE DEF P
    <2>2. <<Mark, Size>> \in Seq(P)
      BY <2>1
    <2> QED
      BY <2>2 DEF P, Header
  <1>3. \A i \in 1..2 : i = 1 \/ i = 2
    OBVIOUS
  <1> QED
    BY <1>1, <1>2, <1>3, TextKind

LEMMA TextParting ==
  ASSUME NEW m \in Requests
  PROVE  /\ TextOf(m) \in Seq(Part) /\ Len(TextOf(m)) = TextParts
         /\ TextOf(m) # <<>>
         /\ \A i \in 1..TextParts : TextOf(m)[i] = Text(m, i)
  <1>1. TextOf(m) \in [1..TextParts -> Part]
    BY DEF TextOf, Part
  <1>2. TextParts \in Nat \ {0}
    BY ServerAssumption
  <1>3. TextOf(m) \in Seq(Part)
    BY <1>1, <1>2, SeqDef
  <1>4. Len(TextOf(m)) = TextParts
    BY <1>1, <1>2, <1>3, LenProperties
  <1>5. \A i \in 1..TextParts : TextOf(m)[i] = Text(m, i)
    BY DEF TextOf
  <1> QED
    BY <1>2, <1>3, <1>4, <1>5, EmptySeq

(* What a read takes from a stream and what it leaves.                     *)
LEMMA Taking ==
  ASSUME NEW S, NEW s \in Seq(S), NEW n \in 0..Len(s)
  PROVE  /\ SubSeq(s, 1, n) \in Seq(S)
         /\ Len(SubSeq(s, 1, n)) = n
         /\ \A i \in 1..n : SubSeq(s, 1, n)[i] = s[i]
         /\ SubSeq(s, n + 1, Len(s)) \in Seq(S)
         /\ Len(SubSeq(s, n + 1, Len(s))) = Len(s) - n
         /\ \A i \in 1..(Len(s) - n) : SubSeq(s, n + 1, Len(s))[i] = s[i + n]
  <1> DEFINE l == Len(s)
  <1>1. l \in Nat /\ \A i \in 1..l : s[i] \in S
    BY LenProperties, ElementOfSeq
  <1> HIDE DEF l
  <1>2. n \in 0..l
    BY DEF l
  <1>3. \A i \in 1..n : s[i] \in S
    BY <1>1, <1>2
  <1>4. \A i \in (n + 1)..l : s[i] \in S
    BY <1>1, <1>2
  <1>5. /\ SubSeq(s, 1, n) \in Seq(S)
        /\ Len(SubSeq(s, 1, n)) = IF 1 <= n THEN n - 1 + 1 ELSE 0
        /\ \A i \in 1..(n - 1 + 1) : SubSeq(s, 1, n)[i] = s[1 + i - 1]
    BY <1>2, <1>3, SubSeqProperties
  <1>6. /\ SubSeq(s, n + 1, l) \in Seq(S)
        /\ Len(SubSeq(s, n + 1, l)) = IF n + 1 <= l THEN l - (n + 1) + 1 ELSE 0
        /\ \A i \in 1..(l - (n + 1) + 1) : SubSeq(s, n + 1, l)[i] = s[n + 1 + i - 1]
    BY <1>1, <1>2, <1>4, SubSeqProperties
  <1>7. Len(SubSeq(s, 1, n)) = n /\ Len(SubSeq(s, n + 1, l)) = l - n
    BY <1>1, <1>2, <1>5, <1>6
  <1>8. ASSUME NEW i \in 1..n PROVE SubSeq(s, 1, n)[i] = s[i]
    <2>1. i \in 1..(n - 1 + 1) /\ 1 + i - 1 = i
      BY <1>1, <1>2
    <2>2. SubSeq(s, 1, n)[i] = s[1 + i - 1]
      BY <1>5, <2>1
    <2> QED
      BY <2>1, <2>2
  <1>9. ASSUME NEW i \in 1..(l - n) PROVE SubSeq(s, n + 1, l)[i] = s[i + n]
    <2>1. i \in 1..(l - (n + 1) + 1) /\ n + 1 + i - 1 = i + n
      BY <1>1, <1>2
    <2>2. SubSeq(s, n + 1, l)[i] = s[n + 1 + i - 1]
      BY <1>6, <2>1
    <2> QED
      BY <2>1, <2>2
  <1> QED
    BY <1>5, <1>6, <1>7, <1>8, <1>9 DEF l

-----------------------------------------------------------------------------
(* Type correctness, that the thread serves a client once it has one, and  *)
(* that a client that is to write a text has begun a request and a reply   *)
(* that is written answers one.                                            *)

Serving == server = "accepting" <=> current = None

Begun == \A c \in Clients : client[c] \in {"sendText", "await"} => sent[c] # 0

Answering == server \in {"writeSize", "writeData"} => replying \in Messages

Typed == TypeOK /\ Serving /\ Begun /\ Answering

LEMMA InitTyped == Init => Typed
  <1> SUFFICES ASSUME Init PROVE Typed
    OBVIOUS
  <1>1. <<>> \in Seq(Part) /\ <<>> \in Seq(Messages) /\ <<>> \in Seq(Clients)
    BY EmptySeq
  <1>2. stream \in [Clients -> Seq(Part)] /\ answers \in [Clients -> Seq(Messages)]
        /\ backlog \in Seq(Clients)
    BY <1>1 DEF Init
  <1>3. client \in [Clients -> {"new", "sendSize", "sendText", "await", "left"}] /\ Begun
    BY DEF Init, Begun
  <1>4. sent \in [Clients -> 0..MaxRequests]
    BY ServerAssumption DEF Init
  <1>5. /\ server \in {"accepting", "reading", "writeSize", "writeData"}
        /\ current \in Clients \cup {None}
        /\ replying \in Messages \cup {None}
        /\ crash \in {"none", "size", "parse", "destructor"}
        /\ Serving /\ Answering
    BY DEF Init, Serving, Answering
  <1>6. asked \in Nat \ {0}
    BY DEF Init, HeaderParts
  <1>7. cut \in BOOLEAN
    BY DEF Init
  <1> QED
    BY <1>2, <1>3, <1>4, <1>5, <1>6, <1>7 DEF Typed, TypeOK

LEMMA ClientTyped == Typed /\ ClientStep => Typed'
  <1> SUFFICES ASSUME Typed, NEW c \in Clients,
                      Connect(c) \/ SendSize(c) \/ SendText(c) \/ Receive(c) \/ Leave(c)
               PROVE  Typed'
    BY DEF ClientStep
  <1> USE DEF Typed, TypeOK
  <1>1. UNCHANGED <<answers, server, current, asked, replying, cut, crash>>
    BY DEF Connect, SendSize, SendText, Receive, Leave, serverVars
  <1>2. client' \in [Clients -> {"new", "sendSize", "sendText", "await", "left"}]
    BY DEF Connect, SendSize, SendText, Receive, Leave
  <1>3. sent' \in [Clients -> 0..MaxRequests]
    <2>1. CASE SendSize(c)
      <3>1. sent[c] + 1 \in 0..MaxRequests
        BY <2>1, ServerAssumption DEF SendSize
      <3> QED
        BY <2>1, <3>1 DEF SendSize
    <2> QED
      BY <2>1 DEF Connect, SendText, Receive, Leave
  <1>4. backlog' \in Seq(Clients)
    <2>1. Append(backlog, c) \in Seq(Clients)
      BY AppendProperties
    <2> QED
      BY <2>1 DEF Connect, SendSize, SendText, Receive, Leave
  <1>5. stream' \in [Clients -> Seq(Part)]
    <2>1. CASE SendSize(c)
      <3>1. stream[c] \o Header \in Seq(Part)
        BY HeaderParting, ConcatProperties
      <3> QED
        BY <2>1, <3>1 DEF SendSize
    <2>2. CASE SendText(c)
      <3>1. <<c, sent[c]>> \in Requests
        BY <2>2, ServerAssumption DEF SendText, Begun, Requests
      <3>2. stream[c] \o TextOf(<<c, sent[c]>>) \in Seq(Part)
        BY <3>1, TextParting, ConcatProperties
      <3> QED
        BY <2>2, <3>2 DEF SendText
    <2>3. CASE Leave(c)
      <3>1. <<>> \in Seq(Part)
        BY EmptySeq
      <3> QED
        BY <2>3, <3>1 DEF Leave
    <2>4. CASE Connect(c) \/ Receive(c)
      BY <2>4 DEF Connect, Receive
    <2> QED
      BY <2>1, <2>2, <2>3, <2>4
  <1>6. Begun'
    <2>1. ASSUME NEW d \in Clients, client'[d] \in {"sendText", "await"}
          PROVE  sent'[d] # 0
      <3>1. CASE d = c /\ SendSize(c)
        BY <3>1, ServerAssumption DEF SendSize
      <3>2. CASE d = c /\ ~SendSize(c)
        BY <2>1, <3>2 DEF Connect, SendText, Receive, Leave, Begun
      <3>3. CASE d # c
        BY <2>1, <3>3 DEF Connect, SendSize, SendText, Receive, Leave, Begun
      <3> QED
        BY <3>1, <3>2, <3>3
    <2> QED
      BY <2>1 DEF Begun
  <1> QED
    BY <1>1, <1>2, <1>3, <1>4, <1>5, <1>6 DEF Serving, Answering

(* A read, described by the part of the stream it takes and by what        *)
(* becomes of it.                                                          *)
Handled(buffer) ==
  \/ \E size \in SizeAfter(buffer) :
       /\ UNCHANGED replying
       /\ \/ size > 0 /\ asked' = size /\ UNCHANGED <<server, crash>>
          \/ ~(size > 0) /\ crash' = "size" /\ UNCHANGED <<server, asked>>
  \/ /\ \E m \in MessagesIn(buffer) : replying' = m
     /\ server' = "writeSize"
     /\ UNCHANGED <<asked, crash>>
  \/ /\ Garbled(buffer)
     /\ crash' \in {"parse", "destructor"}
     /\ UNCHANGED <<server, asked, replying>>

ReadOf(n) ==
  /\ n \in 0..Len(stream[current]) /\ n <= asked
  /\ n = 0 <=> stream[current] = <<>>
  /\ stream' = [stream EXCEPT ![current] = SubSeq(@, n + 1, Len(@))]
  /\ cut' = (cut \/ n < asked)
  /\ Handled(SubSeq(stream[current], 1, n))

LEMMA HandledServer ==
  ASSUME NEW buffer, Handled(buffer)
  PROVE  server' = server \/ server' = "writeSize"
  BY DEF Handled

LEMMA ReadTakes ==
  ASSUME Read
  PROVE  /\ server = "reading" /\ UNCHANGED <<client, sent, current, answers, backlog>>
         /\ stream[current] # <<>> \/ Left(current)
         /\ \E n : ReadOf(n)
  <1>1. PICK n \in 0..Len(stream[current]) :
          /\ n <= asked
          /\ n = 0 <=> stream[current] = <<>>
          /\ stream' = [stream EXCEPT ![current] = SubSeq(@, n + 1, Len(@))]
          /\ cut' = (cut \/ n < asked)
          /\ \/ \E size \in SizeAfter(SubSeq(stream[current], 1, n)) :
                  IF ValidSize(size)
                  THEN asked' = size /\ UNCHANGED <<server, replying, crash>>
                  ELSE SessionEnds("size") /\ UNCHANGED replying
             \/ /\ \E m \in MessagesIn(SubSeq(stream[current], 1, n)) : replying' = m
                /\ server' = "writeSize"
                /\ UNCHANGED <<asked, crash>>
             \/ /\ Garbled(SubSeq(stream[current], 1, n))
                /\ \E why \in {"parse", "destructor"} : SessionEnds(why)
                /\ UNCHANGED replying
    BY DEF Read
  <1>2. ReadOf(n)
    BY <1>1 DEF ReadOf, Handled, ValidSize, SessionEnds
  <1> QED
    BY <1>2 DEF Read

LEMMA ServerTyped == Typed /\ ServerStep => Typed'
  <1> SUFFICES ASSUME Typed, ServerStep PROVE Typed'
    OBVIOUS
  <1> USE DEF Typed, TypeOK
  <1>1. CASE Accept
    <2>1. Head(backlog) \in Clients /\ Tail(backlog) \in Seq(Clients)
      BY <1>1, HeadTailProperties DEF Accept
    <2> QED
      BY <1>1, <2>1, ServerAssumption DEF Accept, clientVars, Serving, Begun, Answering
  <1>2. CASE Read
    <2>1. /\ server = "reading" /\ UNCHANGED <<client, sent, current, answers, backlog>>
      BY <1>2, ReadTakes
    <2>2. current \in Clients
      BY <2>1 DEF Serving
    <2>3. PICK n : ReadOf(n)
      BY <1>2, ReadTakes
    <2> DEFINE buffer == SubSeq(stream[current], 1, n)
               rest == SubSeq(stream[current], n + 1, Len(stream[current]))
    <2>4. n \in 0..Len(stream[current]) /\ stream[current] \in Seq(Part)
      BY <2>2, <2>3 DEF ReadOf
    <2>5. buffer \in Seq(Part) /\ rest \in Seq(Part)
      BY <2>4, Taking
    <2>6. stream' \in [Clients -> Seq(Part)]
      <3>1. stream' = [stream EXCEPT ![current] = rest]
        BY <2>3 DEF ReadOf
      <3> HIDE DEF rest
      <3> QED
        BY <2>2, <2>5, <3>1
    <2>7. cut' \in BOOLEAN
      BY <2>3 DEF ReadOf
    <2>8. \A size \in SizeAfter(buffer) : size \in Int
      BY ServerAssumption DEF SizeAfter
    <2>9. \A m \in MessagesIn(buffer) : m \in Messages
      <3>1. IsText(buffer) => 1 \in 1..Len(buffer) /\ buffer[1].kind = "text"
        <4> HIDE DEF buffer
        <4> QED
          BY <2>5, EmptySeq DEF IsText
      <3> HIDE DEF buffer
      <3>2. IsText(buffer) => buffer[1].msg \in Requests
        BY <2>5, <3>1, TextKind, ElementOfSeq
      <3> QED
        BY <3>2 DEF MessagesIn, Messages
    <2>10. /\ asked' \in Nat \ {0} /\ server' \in {"reading", "writeSize"}
           /\ replying' \in Messages \cup {None} /\ Answering'
           /\ crash' \in {"none", "size", "parse", "destructor"}
      <3>1. Handled(buffer)
        BY <2>3 DEF ReadOf
      <3> HIDE DEF buffer
      <3> QED
        BY <2>1, <2>8, <2>9, <3>1 DEF Answering, Handled
    <2> QED
      BY <2>1, <2>2, <2>6, <2>7, <2>10 DEF Serving, Begun
  <1>3. CASE WriteSize
    BY <1>3 DEF WriteSize, clientVars, SessionEnds, Serving, Begun, Answering
  <1>4. CASE WriteData
    <2>1. current \in Clients
      BY <1>4 DEF WriteData, Serving
    <2>2. answers' \in [Clients -> Seq(Messages)]
      <3>1. replying \in Messages
        BY <1>4 DEF WriteData, Answering
      <3>2. Append(answers[current], replying) \in Seq(Messages)
        BY <2>1, <3>1, AppendProperties
      <3> QED
        BY <1>4, <2>1, <3>2 DEF WriteData
    <2> QED
      BY <1>4, <2>1, <2>2 DEF WriteData, clientVars, SessionEnds, Serving, Begun, Answering, HeaderParts
  <1> QED
    BY <1>1, <1>2, <1>3, <1>4 DEF ServerStep

LEMMA AlwaysTyped == Spec => []Typed
  <1>1. Typed /\ UNCHANGED vars => Typed'
    BY DEF vars, clientVars, serverVars, Typed, TypeOK, Serving, Begun, Answering
  <1>2. Typed /\ [Next]_vars => Typed'
    BY <1>1, ClientTyped, ServerTyped DEF Next
  <1> QED
    BY <1>2, InitTyped, PTL DEF Spec

(* Every variable has its type.                                            *)
THEOREM ServerTypeCorrect == Spec => []TypeOK
  <1>1. Typed => TypeOK
    BY DEF Typed
  <1> QED
    BY <1>1, AlwaysTyped, PTL

(* The client that is served is served until the process dies.             *)
THEOREM ClientIsKept == Spec => ServedClientKept
  <1>1. Typed /\ [Next]_vars => [current # None => current' = current]_vars
    <2> SUFFICES ASSUME Typed, Next, current # None PROVE current' = current
      OBVIOUS
    <2>1. ~Accept
      BY DEF Accept, Typed, Serving
    <2>2. CASE ClientStep
      BY <2>2 DEF ClientStep, Connect, SendSize, SendText, Receive, Leave, serverVars
    <2>3. CASE Read \/ WriteSize \/ WriteData
      BY <2>3 DEF Read, WriteSize, WriteData
    <2> QED
      BY <2>1, <2>2, <2>3 DEF Next, ServerStep
  <1> QED
    BY <1>1, AlwaysTyped, PTL DEF Spec, ServedClientKept

-----------------------------------------------------------------------------
(* Every reply answers the client's only request that has none.            *)

InOrder(c) == \A i \in 1..Len(answers[c]) : answers[c][i] = <<c, i>>

(* What a client has written and the server has not read ends with the     *)
(* text of its last request.                                               *)
TextsAtEnd(c) ==
  \A i \in 1..Len(stream[c]) :
    stream[c][i].kind = "text" =>
      stream[c][i] = Text(<<c, sent[c]>>, i + TextParts - Len(stream[c]))

NoText(c) == \A i \in 1..Len(stream[c]) : stream[c][i].kind # "text"

Counted(c) ==
  /\ Len(answers[c]) = sent[c] \/ Len(answers[c]) + 1 = sent[c]
  /\ stream[c] # <<>> => Len(answers[c]) + 1 = sent[c]
  /\ client[c] \in {"new", "sendSize"} => stream[c] = <<>> /\ Len(answers[c]) = sent[c]
  /\ client[c] = "sendText" => NoText(c) /\ Len(answers[c]) + 1 = sent[c]

Asked(c) == InOrder(c) /\ TextsAtEnd(c) /\ Counted(c)

(* The reply that is being written is the missing one.                     *)
Missing ==
  server \in {"writeSize", "writeData"} =>
    /\ client[current] \in {"await", "left"}
    /\ stream[current] = <<>>
    /\ replying = <<current, sent[current]>>
    /\ Len(answers[current]) + 1 = sent[current]

InOrderSoFar == Missing /\ \A c \in Clients : Asked(c)

(* No more is known once a read was cut short.                             *)
Matching == ~cut => InOrderSoFar

(* What a client's own state says of it depends on these only.             *)
LEMMA AskedUnseen ==
  ASSUME NEW c, Asked(c),
         client'[c] = client[c], sent'[c] = sent[c],
         stream'[c] = stream[c], answers'[c] = answers[c]
  PROVE  Asked(c)'
  BY DEF Asked, InOrder, TextsAtEnd, NoText, Counted

LEMMA MatchingImplies == Typed /\ Matching => AnswersMatch
  <1> SUFFICES ASSUME Typed, InOrderSoFar, NEW c \in Clients
               PROVE  /\ sent[c] - 1 <= Len(answers[c]) /\ Len(answers[c]) <= sent[c]
                      /\ \A i \in 1..Len(answers[c]) : answers[c][i] = <<c, i>>
    BY DEF AnswersMatch, Matching
  <1> DEFINE l == Len(answers[c])
             s == sent[c]
  <1>1. l \in Nat /\ s \in Nat
    BY ServerAssumption DEF Typed, TypeOK
  <1>2. l = s \/ l + 1 = s
    BY DEF InOrderSoFar, Asked, Counted
  <1> HIDE DEF l, s
  <1>3. s - 1 <= l /\ l <= s
    BY <1>1, <1>2
  <1> QED
    BY <1>3 DEF l, s, InOrderSoFar, Asked, InOrder

LEMMA InitMatching == Init => Matching
  <1> SUFFICES ASSUME Init PROVE Matching
    OBVIOUS
  <1>1. Missing
    BY DEF Init, Missing
  <1>2. ASSUME NEW c \in Clients PROVE Asked(c)
    <2>1. stream[c] = <<>> /\ answers[c] = <<>> /\ sent[c] = 0 /\ client[c] = "new"
      BY DEF Init
    <2>2. Len(stream[c]) = 0 /\ Len(answers[c]) = 0
      BY <2>1
    <2> QED
      BY <2>1, <2>2 DEF Asked, InOrder, TextsAtEnd, Counted
  <1> QED
    BY <1>1, <1>2 DEF Matching, InOrderSoFar

LEMMA ClientMatching == Typed /\ Typed' /\ InOrderSoFar /\ ClientStep => InOrderSoFar'
  <1> SUFFICES ASSUME Typed, Typed', InOrderSoFar, NEW c \in Clients,
                      Connect(c) \/ SendSize(c) \/ SendText(c) \/ Receive(c) \/ Leave(c)
               PROVE  InOrderSoFar'
    BY DEF ClientStep
  <1> USE DEF Typed, TypeOK
  <1>1. UNCHANGED <<answers, server, current, replying>>
    BY DEF Connect, SendSize, SendText, Receive, Leave, serverVars
  <1>2. ASSUME NEW d \in Clients, d # c PROVE Asked(d)'
    <2>1. client'[d] = client[d] /\ sent'[d] = sent[d] /\ stream'[d] = stream[d]
      BY <1>2 DEF Connect, SendSize, SendText, Receive, Leave
    <2> QED
      BY <1>1, <2>1, AskedUnseen DEF InOrderSoFar
  <1> DEFINE l == Len(answers[c])
             s == sent[c]
  <1>3. l \in Nat /\ s \in Nat /\ Asked(c)
    BY ServerAssumption DEF InOrderSoFar
  <1>4. InOrder(c)'
    BY <1>1, <1>3 DEF Asked, InOrder
  <1>5. Missing'
    <2> SUFFICES ASSUME server \in {"writeSize", "writeData"} PROVE Missing'
      BY <1>1 DEF Missing
    <2>1. current \in Clients
      BY DEF Serving
    <2>2. CASE current # c
      <3>1. client'[current] = client[current] /\ sent'[current] = sent[current]
            /\ stream'[current] = stream[current]
        BY <2>1, <2>2 DEF Connect, SendSize, SendText, Receive, Leave
      <3> QED
        BY <1>1, <3>1 DEF InOrderSoFar, Missing
    <2>3. CASE current = c
      <3>1. client[c] \in {"await", "left"} /\ stream[c] = <<>> /\ l + 1 = s
        BY <2>3 DEF InOrderSoFar, Missing
      <3>2. ~Connect(c) /\ ~SendSize(c) /\ ~SendText(c)
        BY <3>1 DEF Connect, SendSize, SendText
      <3>3. ~Receive(c)
        <4>1. Receive(c) => l >= s
          BY DEF Receive
        <4> HIDE DEF l, s
        <4> QED
          BY <1>3, <3>1, <4>1
      <3>4. Leave(c)
        BY <3>2, <3>3
      <3>5. client'[c] = "left" /\ stream'[c] = <<>> /\ sent' = sent
        BY <3>1, <3>4 DEF Leave
      <3> QED
        BY <1>1, <2>3, <3>5 DEF InOrderSoFar, Missing
    <2> QED
      BY <2>2, <2>3
  <1>6. TextsAtEnd(c)' /\ Counted(c)'
    <2>1. CASE Connect(c)
      <3>1. client'[c] = "sendSize" /\ UNCHANGED <<sent, stream>> /\ client[c] = "new"
        BY <2>1 DEF Connect
      <3> QED
        BY <1>1, <1>3, <3>1 DEF Asked, TextsAtEnd, Counted, NoText
    <2>2. CASE SendSize(c)
      <3>1. /\ client[c] = "sendSize" /\ client'[c] = "sendText" /\ sent'[c] = s + 1
            /\ stream'[c] = stream[c] \o Header
        BY <2>2 DEF SendSize
      <3>2. stream[c] = <<>> /\ l = s
        BY <1>3, <3>1 DEF Asked, Counted
      <3>3. stream'[c] = Header
        BY <3>1, <3>2, HeaderParting, ConcatEmptySeq
      <3>4. NoText(c)' /\ TextsAtEnd(c)'
        BY <3>3, HeaderParting DEF NoText, TextsAtEnd
      <3>5. Len(answers[c]) + 1 = sent'[c]
        BY <3>1, <3>2
      <3> QED
        BY <1>1, <3>1, <3>4, <3>5 DEF Counted
    <2>3. CASE SendText(c)
      <3> DEFINE m == <<c, s>>
                 a == Len(stream[c])
      <3>1. /\ client[c] = "sendText" /\ client'[c] = "await" /\ sent' = sent
            /\ stream'[c] = stream[c] \o TextOf(m)
        BY <2>3 DEF SendText
      <3>2. m \in Requests
        BY <3>1, ServerAssumption DEF Begun, Requests
      <3>3. NoText(c) /\ l + 1 = s
        BY <1>3, <3>1 DEF Asked, Counted
      <3>4. a \in Nat /\ TextParts \in Nat
        BY ServerAssumption
      <3>5. /\ TextOf(m) \in Seq(Part) /\ Len(TextOf(m)) = TextParts
            /\ \A i \in 1..TextParts : TextOf(m)[i] = Text(m, i)
        BY <3>2, TextParting
      <3>6. /\ Len(stream'[c]) = a + TextParts
            /\ \A i \in 1..(a + TextParts) :
                 stream'[c][i] = IF i <= a THEN stream[c][i] ELSE TextOf(m)[i - a]
        <4> DEFINE q == stream[c]
                   t == TextOf(m)
        <4>1. q \in Seq(Part) /\ t \in Seq(Part)
          BY <3>5
        <4>2. /\ Len(q \o t) = Len(q) + Len(t)
              /\ \A i \in 1..(Len(q) + Len(t)) : (q \o t)[i] = IF i <= Len(q) THEN q[i] ELSE t[i - Len(q)]
          <5> HIDE DEF q, t
          <5> QED
            BY <4>1, ConcatProperties
        <4> QED
          BY <3>1, <3>5, <4>2
      <3>7. ASSUME NEW i \in 1..Len(stream'[c]), stream'[c][i].kind = "text"
            PROVE  stream'[c][i] = Text(m, i + TextParts - Len(stream'[c]))
        <4>1. i \in 1..(a + TextParts)
          BY <3>6
        <4>2. CASE i <= a
          <5>1. stream'[c][i] = stream[c][i] /\ i \in 1..a
            BY <3>4, <3>6, <4>1, <4>2
          <5> QED
            BY <3>3, <3>7, <5>1 DEF NoText
        <4>3. CASE ~(i <= a)
          <5>1. i - a \in 1..TextParts /\ i + TextParts - (a + TextParts) = i - a
            BY <3>4, <4>1, <4>3
          <5>2. stream'[c][i] = Text(m, i - a)
            BY <3>5, <3>6, <4>1, <4>3, <5>1
          <5> QED
            BY <3>6, <5>1, <5>2
        <4> QED
          BY <4>2, <4>3
      <3>8. TextsAtEnd(c)'
        BY <3>1, <3>7 DEF TextsAtEnd
      <3> QED
        BY <1>1, <3>1, <3>3, <3>8 DEF Counted
    <2>4. CASE Receive(c)
      <3>0. l >= s /\ client'[c] = "sendSize" /\ UNCHANGED <<sent, stream>>
        BY <2>4 DEF Receive
      <3>1. l = s /\ client'[c] = "sendSize" /\ UNCHANGED <<sent, stream>>
        <4>1. l = s \/ l + 1 = s
          BY <1>3 DEF Asked, Counted
        <4> HIDE DEF l, s
        <4>2. l = s
          BY <1>3, <3>0, <4>1
        <4> QED
          BY <3>0, <4>2
      <3>2. stream[c] = <<>>
        <4>1. stream[c] # <<>> => l + 1 = s
          BY <1>3 DEF Asked, Counted
        <4> HIDE DEF l, s
        <4> QED
          BY <1>3, <3>1, <4>1
      <3> QED
        BY <1>1, <1>3, <3>1, <3>2 DEF Asked, TextsAtEnd, Counted
    <2>5. CASE Leave(c)
      <3>1. client'[c] = "left" /\ sent' = sent /\ stream'[c] \in {stream[c], <<>>}
        BY <2>5 DEF Leave
      <3>2. CASE stream'[c] = stream[c]
        BY <1>1, <1>3, <3>1, <3>2 DEF Asked, TextsAtEnd, Counted
      <3>3. CASE stream'[c] = <<>>
        <4>1. Len(stream'[c]) = 0
          BY <3>3
        <4> QED
          BY <1>1, <1>3, <3>1, <3>3, <4>1 DEF Asked, TextsAtEnd, Counted
      <3> QED
        BY <3>1, <3>2, <3>3
    <2> QED
      BY <2>1, <2>2, <2>3, <2>4, <2>5
  <1>7. Asked(c)'
    BY <1>4, <1>6 DEF Asked
  <1> QED
    BY <1>2, <1>5, <1>7 DEF InOrderSoFar

(* A read leaves of a stream what ends as the stream did.                  *)
LEMMA RestAsked ==
  ASSUME Typed, NEW c \in Clients, Asked(c), NEW n \in 0..Len(stream[c]),
         stream'[c] = SubSeq(stream[c], n + 1, Len(stream[c])),
         client'[c] = client[c], sent'[c] = sent[c], answers'[c] = answers[c]
  PROVE  Asked(c)'
  <1> DEFINE q == stream[c]
             r == stream'[c]
             l == Len(q)
  <1>1. q \in Seq(Part)
    BY DEF Typed, TypeOK
  <1>2. /\ Len(r) = l - n
        /\ \A i \in 1..(l - n) : r[i] = q[i + n]
    <2>1. r = SubSeq(q, n + 1, Len(q)) /\ n \in 0..Len(q)
      OBVIOUS
    <2> HIDE DEF q, r
    <2> QED
      BY <1>1, <2>1, Taking
  <1>3. l \in Nat /\ n \in 0..l
    BY <1>1, LenProperties
  <1>4. \A i \in 1..(l - n) : i + n \in 1..l /\ i + TextParts - (l - n) = (i + n) + TextParts - l
    <2> HIDE DEF l
    <2> QED
      BY <1>3, ServerAssumption
  <1>5. TextsAtEnd(c)'
    <2> SUFFICES ASSUME NEW i \in 1..(l - n), r[i].kind = "text"
                 PROVE  r[i] = Text(<<c, sent[c]>>, i + TextParts - (l - n))
      BY <1>2 DEF TextsAtEnd
    <2>1. q[i + n].kind = "text" /\ i + n \in 1..l
      BY <1>2, <1>4
    <2>2. q[i + n] = Text(<<c, sent[c]>>, (i + n) + TextParts - l)
      BY <2>1 DEF Asked, TextsAtEnd
    <2> QED
      BY <1>2, <1>4, <2>2
  <1>6. r # <<>> => q # <<>>
    <2>1. CASE q = <<>>
      <3>1. l = 0
        BY <2>1
      <3>2. n = 0
        <4> HIDE DEF l
        <4> QED
          BY <1>3, <3>1
      <3>3. r = SubSeq(<<>>, 1, 0)
        BY <2>1, <3>1, <3>2
      <3> QED
        BY <3>3
    <2> QED
      BY <2>1
  <1>7. NoText(c) => NoText(c)'
    BY <1>2, <1>4 DEF NoText
  <1>8. Counted(c)'
    BY <1>6, <1>7 DEF Asked, Counted
  <1> QED
    BY <1>5, <1>8 DEF Asked, InOrder

-----------------------------------------------------------------------------
(* As long as no read was cut, the server reads each header and each text  *)
(* whole: what it asks for next is at the front of the stream, or nothing  *)
(* is there yet.                                                           *)

LastText(c) == TextOf(<<c, sent[c]>>)

(* The client's next message starts with a header ...                      *)
Unread(c) ==
  \/ client[c] \in {"new", "sendSize", "await", "left"} /\ stream[c] = <<>>
  \/ client[c] \in {"sendText", "left"} /\ stream[c] = Header
  \/ client[c] \in {"await", "left"} /\ stream[c] = Header \o LastText(c)

(* ... or its header has been read.                                        *)
HalfRead(c) ==
  \/ client[c] \in {"sendText", "left"} /\ stream[c] = <<>>
  \/ client[c] \in {"await", "left"} /\ stream[c] = LastText(c)

Served(c) ==
  \/ server = "reading" /\ asked = HeaderParts /\ Unread(c)
  \/ server = "reading" /\ asked = TextParts /\ HalfRead(c)
  \/ server \in {"writeSize", "writeData"} /\ client[c] \in {"await", "left"} /\ stream[c] = <<>>

InStep(c) == IF c = current THEN Served(c) ELSE Unread(c)

Uncut ==
  /\ server = "accepting" => asked = HeaderParts
  /\ crash = "none" /\ ~cut => \A c \in Clients : InStep(c)
  /\ DiesOnlyByCutOrDeparture

LEMMA HeaderIsTaken ==
  /\ SubSeq(Header, 1, 2) = Header
  /\ SubSeq(Header, 3, Len(Header)) = <<>>
  /\ Header # <<>>
  <1>1. Header \in Seq(Part) /\ Len(Header) = 2
    BY HeaderParting
  <1>2. SubSeq(Header, 1, 2) = Header
    BY <1>1, SubSeqFull
  <1>3. SubSeq(Header, 3, Len(Header)) = <<>>
    BY <1>1, SubSeqEmpty
  <1>4. Header # <<>>
    BY <1>1, EmptySeq
  <1> QED
    BY <1>2, <1>3, <1>4

LEMMA TextFollows ==
  ASSUME NEW m \in Requests
  PROVE  /\ SubSeq(Header \o TextOf(m), 1, 2) = Header
         /\ SubSeq(Header \o TextOf(m), 3, Len(Header \o TextOf(m))) = TextOf(m)
  <1> DEFINE h == Header
             t == TextOf(m)
             q == h \o t
             l == TextParts
  <1>1. /\ h \in Seq(Part) /\ Len(h) = 2
        /\ t \in Seq(Part) /\ Len(t) = l /\ l \in Nat \ {0}
    BY HeaderParting, TextParting, ServerAssumption
  <1> HIDE DEF h, t, l
  <1>2. /\ q \in Seq(Part) /\ Len(q) = 2 + l
        /\ \A i \in 1..(2 + l) : q[i] = IF i <= 2 THEN h[i] ELSE t[i - 2]
    <2>1. /\ q \in Seq(Part) /\ Len(q) = Len(h) + Len(t)
          /\ \A i \in 1..(Len(h) + Len(t)) : q[i] = IF i <= Len(h) THEN h[i] ELSE t[i - Len(h)]
      BY <1>1, ConcatProperties
    <2> QED
      BY <1>1, <2>1
  <1> HIDE DEF q
  <1>3. 2 \in 0..Len(q)
    BY <1>1, <1>2
  <1>4. /\ SubSeq(q, 1, 2) \in Seq(Part) /\ Len(SubSeq(q, 1, 2)) = 2
        /\ \A i \in 1..2 : SubSeq(q, 1, 2)[i] = q[i]
        /\ SubSeq(q, 3, Len(q)) \in Seq(Part) /\ Len(SubSeq(q, 3, Len(q))) = Len(q) - 2
        /\ \A i \in 1..(Len(q) - 2) : SubSeq(q, 3, Len(q))[i] = q[i + 2]
    <2>1. 2 + 1 = 3
      OBVIOUS
    <2> QED
      BY <1>2, <1>3, <2>1, Taking
  <1>5. \A i \in 1..2 : i \in 1..(2 + l) /\ i <= 2
    BY <1>1
  <1>6. \A i \in 1..2 : SubSeq(q, 1, 2)[i] = h[i]
    BY <1>2, <1>4, <1>5
  <1>7. SubSeq(q, 1, 2) = h
    BY <1>1, <1>4, <1>6, SeqEqual
  <1>8. Len(q) - 2 = l /\ \A i \in 1..l : i + 2 \in 1..(2 + l) /\ ~(i + 2 <= 2) /\ (i + 2) - 2 = i
    BY <1>1, <1>2
  <1>9. \A i \in 1..l : SubSeq(q, 3, Len(q))[i] = t[i]
    BY <1>2, <1>4, <1>8
  <1>10. SubSeq(q, 3, Len(q)) = t
    BY <1>1, <1>4, <1>8, <1>9, SeqEqual
  <1> QED
    BY <1>7, <1>10 DEF q, h, t

LEMMA TextIsTaken ==
  ASSUME NEW m \in Requests
  PROVE  /\ SubSeq(TextOf(m), 1, TextParts) = TextOf(m)
         /\ SubSeq(TextOf(m), TextParts + 1, Len(TextOf(m))) = <<>>
  <1>1. TextOf(m) \in Seq(Part) /\ Len(TextOf(m)) = TextParts
    BY TextParting
  <1>2. TextParts \in Nat
    BY ServerAssumption
  <1> QED
    BY <1>1, <1>2, SubSeqFull, SubSeqEmpty

(* A whole header announces the size of the text and nothing else happens; *)
(* a whole text is a message.                                              *)
LEMMA HeaderHandled ==
  ASSUME asked = HeaderParts, Handled(Header)
  PROVE  asked' = TextParts /\ UNCHANGED <<server, crash>>
  <1>1. IsHeader(Header)
    BY DEF IsHeader
  <1>2. SizeAfter(Header) = {TextParts} /\ ~Garbled(Header)
    BY <1>1 DEF SizeAfter, Garbled
  <1>3. MessagesIn(Header) = {}
    <2>1. ~IsText(Header)
      BY HeaderParting, TextKind DEF IsText
    <2>2. Header # <<>> /\ Header[1].kind # "text"
      BY HeaderParting, TextKind, EmptySeq
    <2> QED
      BY <2>1, <2>2 DEF MessagesIn
  <1>4. TextParts > 0
    BY ServerAssumption
  <1> QED
    BY <1>2, <1>3, <1>4 DEF Handled

LEMMA TextHandled ==
  ASSUME NEW m \in Requests, asked = TextParts, Handled(TextOf(m))
  PROVE  server' = "writeSize" /\ replying' = m /\ crash' = crash
  <1> DEFINE t == TextOf(m)
  <1>1. /\ t # <<>> /\ Len(t) = TextParts /\ t[1] = Text(m, 1)
        /\ \A i \in 1..Len(t) : t[i].kind = "text"
    <2>1. 1 \in 1..TextParts
      BY ServerAssumption
    <2> QED
      BY <2>1, TextParting, TextKind
  <1>2. t[1].kind = "text" /\ t[1].msg = m
    BY <1>1, TextKind
  <1>3. IsText(t)
    BY <1>1, <1>2 DEF IsText
  <1>4. ~IsHeader(t)
    BY <1>2, HeaderParting, TextKind DEF IsHeader
  <1>5. ~MayBeSize(t)
    <2> HIDE DEF t
    <2>1. ~Marked(t)
      BY <1>1, TextKind DEF Marked
    <2>2. ~(Len(t) < asked)
      BY <1>1, ServerAssumption
    <2> QED
      BY <2>1, <2>2 DEF MayBeSize
  <1>6. SizeAfter(t) = {} /\ ~Garbled(t) /\ MessagesIn(t) = {m}
    <2> HIDE DEF t
    <2> QED
      BY <1>2, <1>3, <1>4, <1>5 DEF SizeAfter, Garbled, MessagesIn
  <1> QED
    BY <1>6 DEF Handled

LEMMA InStepUnseen ==
  ASSUME NEW c, InStep(c),
         client'[c] = client[c], sent'[c] = sent[c], stream'[c] = stream[c],
         UNCHANGED <<current, server, asked>>
  PROVE  InStep(c)'
  BY DEF InStep, Served, Unread, HalfRead, LastText, TextOf

LEMMA ClientUncut == Typed /\ Matching /\ Uncut /\ crash = "none" /\ ClientStep => Uncut'
  <1> SUFFICES ASSUME Typed, Matching, Uncut, crash = "none", NEW c \in Clients,
                      Connect(c) \/ SendSize(c) \/ SendText(c) \/ Receive(c) \/ Leave(c)
               PROVE  Uncut'
    BY DEF ClientStep
  <1>1. UNCHANGED <<answers, server, current, asked, cut, crash>>
    BY DEF Connect, SendSize, SendText, Receive, Leave, serverVars
  <1>2. DiesOnlyByCutOrDeparture'
    BY <1>1 DEF DiesOnlyByCutOrDeparture
  <1>3. ASSUME ~cut, NEW d \in Clients PROVE InStep(d)'
    <2>0. InOrderSoFar
      BY <1>3 DEF Matching
    <2>1. CASE d # c
      <3>1. client'[d] = client[d] /\ sent'[d] = sent[d] /\ stream'[d] = stream[d]
        BY <2>1 DEF Connect, SendSize, SendText, Receive, Leave, Typed, TypeOK
      <3>2. InStep(d)
        BY <1>3 DEF Uncut
      <3> QED
        BY <1>1, <3>1, <3>2, InStepUnseen
    <2>2. CASE d = c
      <3>3. InStep(c)
        BY <1>3 DEF Uncut
      <3>4. stream[c] = <<>> \/ Len(answers[c]) # sent[c]
        <4> DEFINE l == Len(answers[c])
                   s == sent[c]
        <4>1. l \in Nat /\ s \in Nat
          BY ServerAssumption DEF Typed, TypeOK
        <4>2. stream[c] = <<>> \/ l + 1 = s
          BY <2>0 DEF InOrderSoFar, Asked, Counted
        <4> HIDE DEF l, s
        <4>3. stream[c] = <<>> \/ l # s
          BY <4>1, <4>2
        <4> QED
          BY <4>3 DEF l, s
      <3>5. c = current /\ server \in {"writeSize", "writeData"} => Len(answers[c]) # sent[c]
        <4> DEFINE l == Len(answers[c])
                   s == sent[c]
        <4>1. l \in Nat /\ s \in Nat
          BY ServerAssumption DEF Typed, TypeOK
        <4>2. c = current /\ server \in {"writeSize", "writeData"} => l + 1 = s
          BY <2>0 DEF InOrderSoFar, Missing
        <4> HIDE DEF l, s
        <4>3. c = current /\ server \in {"writeSize", "writeData"} => l # s
          BY <4>1, <4>2
        <4> QED
          BY <4>3 DEF l, s
      <3>6. CASE Connect(c)
        <4>1. client[c] = "new" /\ client'[c] = "sendSize" /\ UNCHANGED <<sent, stream>>
          BY <3>6 DEF Connect, Typed, TypeOK
        <4> QED
          BY <1>1, <2>2, <3>3, <4>1 DEF InStep, Served, Unread, HalfRead
      <3>7. CASE SendSize(c)
        <4>1. client[c] = "sendSize" /\ client'[c] = "sendText" /\ stream'[c] = stream[c] \o Header
          BY <3>7 DEF SendSize, Typed, TypeOK
        <4>2. <<>> \o Header = Header
          BY HeaderParting, ConcatEmptySeq
        <4> QED
          BY <1>1, <2>2, <3>3, <4>1, <4>2 DEF InStep, Served, Unread, HalfRead
      <3>8. CASE SendText(c)
        <4>1. /\ client[c] = "sendText" /\ client'[c] = "await" /\ sent' = sent
              /\ stream'[c] = stream[c] \o LastText(c)
          BY <3>8 DEF SendText, LastText, Typed, TypeOK
        <4>2. <<c, sent[c]>> \in Requests
          BY <4>1, ServerAssumption DEF Typed, TypeOK, Begun, Requests
        <4>3. <<>> \o LastText(c) = LastText(c)
          BY <4>2, TextParting, ConcatEmptySeq DEF LastText
        <4>4. LastText(c)' = LastText(c)
          BY <4>1 DEF LastText, TextOf
        <4> QED
          BY <1>1, <2>2, <3>3, <4>1, <4>3, <4>4 DEF InStep, Served, Unread, HalfRead
      <3>9. CASE Receive(c)
        <4>1. /\ client[c] = "await" /\ client'[c] = "sendSize" /\ UNCHANGED <<sent, stream>>
              /\ Len(answers[c]) >= sent[c]
          BY <3>9 DEF Receive, Typed, TypeOK
        <4>0. Len(answers[c]) = sent[c]
          <5> DEFINE l == Len(answers[c])
                     s == sent[c]
          <5>1. l \in Nat /\ s \in Nat /\ l >= s
            BY <4>1, ServerAssumption DEF Typed, TypeOK
          <5>2. l = s \/ l + 1 = s
            BY <2>0 DEF InOrderSoFar, Asked, Counted
          <5> HIDE DEF l, s
          <5>3. l = s
            BY <5>1, <5>2
          <5> QED
            BY <5>3 DEF l, s
        <4>2. stream'[c] = <<>>
          BY <3>4, <4>0, <4>1
        <4>3. Unread(c)'
          BY <4>1, <4>2 DEF Unread
        <4>4. <<c, sent[c]>> \in Requests
          BY <4>1, ServerAssumption DEF Typed, TypeOK, Begun, Requests
        <4>5. LastText(c) # <<>>
          BY <4>4, TextParting DEF LastText
        <4>6. c = current => server = "reading" /\ asked = HeaderParts
          BY <3>3, <3>5, <4>0, <4>1, <4>2, <4>5 DEF InStep, Served, HalfRead
        <4> QED
          BY <1>1, <2>2, <4>3, <4>6 DEF InStep, Served, HeaderParts
      <3>10. CASE Leave(c)
        <4>1. /\ client[c] \notin {"new", "left"} /\ client'[c] = "left" /\ sent' = sent
              /\ stream'[c] \in {stream[c], <<>>}
          BY <3>10 DEF Leave, Typed, TypeOK
        <4>2. LastText(c)' = LastText(c)
          BY <4>1 DEF LastText, TextOf
        <4>3. Unread(c) => Unread(c)'
          BY <4>1, <4>2 DEF Unread
        <4>4. HalfRead(c) => HalfRead(c)'
          BY <4>1, <4>2 DEF HalfRead
        <4> QED
          BY <1>1, <2>2, <3>3, <4>1, <4>3, <4>4 DEF InStep, Served, HeaderParts
      <3> QED
        BY <3>6, <3>7, <3>8, <3>9, <3>10
    <2> QED
      BY <2>1, <2>2
  <1> QED
    BY <1>1, <1>2, <1>3 DEF Uncut

(* A read that returns what it asked for takes a header, or a text, which  *)
(* is that of the client's last request.                                   *)
TakesHeader(c) ==
  /\ asked' = TextParts /\ HalfRead(c)'
  /\ UNCHANGED <<server, crash>>

TakesText(c) ==
  /\ client[c] \in {"await", "left"} /\ stream[c] # <<>> /\ stream'[c] = <<>>
  /\ server' = "writeSize" /\ replying' = <<c, sent[c]>>
  /\ crash' = crash

LEMMA ReadWhole ==
  ASSUME Typed, Matching, Uncut, crash = "none", Read, ~cut'
  PROVE  ~cut /\ (TakesHeader(current) \/ TakesText(current))
  <1>1. /\ server = "reading" /\ UNCHANGED <<client, sent, current, answers, backlog>>
        /\ stream[current] # <<>> \/ Left(current)
    BY ReadTakes
  <1>2. current \in Clients
    BY <1>1 DEF Typed, TypeOK, Serving
  <1>3. PICK n : ReadOf(n)
    BY ReadTakes
  <1> DEFINE q == stream[current]
             c == current
  <1>4. /\ n \in 0..Len(q) /\ n <= asked
        /\ stream'[c] = SubSeq(q, n + 1, Len(q))
        /\ Handled(SubSeq(q, 1, n))
    BY <1>2, <1>3 DEF ReadOf, Typed, TypeOK
  <1>5. ~cut /\ ~(n < asked)
    BY <1>3 DEF ReadOf
  <1>6. n = asked /\ n # 0
    <2>1. n \in Int /\ asked \in Nat \ {0}
      BY <1>4 DEF Typed, TypeOK
    <2> QED
      BY <1>4, <1>5, <2>1
  <1>7. q # <<>>
    BY <1>3, <1>6 DEF ReadOf
  <1>8. Served(c)
    BY <1>2, <1>5 DEF Uncut, InStep
  <1>9. <<c, sent[c]>> \in Requests
    <2>1. Len(answers[c]) + 1 = sent[c]
      BY <1>2, <1>5, <1>7 DEF Matching, InOrderSoFar, Asked, Counted
    <2>2. Len(answers[c]) \in Nat /\ sent[c] \in 0..MaxRequests
      BY <1>2, LenProperties DEF Typed, TypeOK
    <2> DEFINE l == Len(answers[c])
    <2> HIDE DEF l
    <2>3. sent[c] \in 1..MaxRequests
      <3>1. l + 1 = sent[c] /\ l \in Nat
        BY <2>1, <2>2 DEF l
      <3> QED
        BY <2>2, <3>1, ServerAssumption
    <2> QED
      BY <1>2, <2>3 DEF Requests
  <1>10. LastText(c)' = LastText(c)
    BY <1>1 DEF LastText, TextOf
  <1>11. CASE asked = HeaderParts /\ client[c] \in {"sendText", "left"} /\ q = Header
    <2>1. n = 2 /\ n + 1 = 3
      BY <1>6, <1>11 DEF HeaderParts
    <2>2. Handled(Header) /\ stream'[c] = <<>>
      BY <1>4, <1>11, <2>1, HeaderIsTaken
    <2>3. asked' = TextParts /\ UNCHANGED <<server, crash>>
      BY <1>11, <2>2, HeaderHandled
    <2> QED
      BY <1>1, <1>5, <1>11, <2>2, <2>3 DEF TakesHeader, HalfRead
  <1>12. CASE asked = HeaderParts /\ client[c] \in {"await", "left"} /\ q = Header \o LastText(c)
    <2>1. n = 2 /\ n + 1 = 3
      BY <1>6, <1>12 DEF HeaderParts
    <2>2. Handled(Header) /\ stream'[c] = LastText(c)
      BY <1>4, <1>9, <1>12, <2>1, TextFollows DEF LastText
    <2>3. asked' = TextParts /\ UNCHANGED <<server, crash>>
      BY <1>12, <2>2, HeaderHandled
    <2> QED
      BY <1>1, <1>5, <1>10, <1>12, <2>2, <2>3 DEF TakesHeader, HalfRead
  <1>13. CASE asked = TextParts /\ client[c] \in {"await", "left"} /\ q = LastText(c)
    <2>1. Handled(LastText(c)) /\ stream'[c] = <<>>
      BY <1>4, <1>6, <1>9, <1>13, TextIsTaken DEF LastText
    <2>2. server' = "writeSize" /\ replying' = <<c, sent[c]>> /\ crash' = crash
      BY <1>9, <1>13, <2>1, TextHandled DEF LastText
    <2> QED
      BY <1>5, <1>7, <1>13, <2>1, <2>2 DEF TakesText
  <1> QED
    BY <1>1, <1>7, <1>8, <1>11, <1>12, <1>13 DEF Served, Unread, HalfRead

LEMMA ReadUncut == Typed /\ Matching /\ Uncut /\ crash = "none" /\ Read => Uncut'
  <1> SUFFICES ASSUME Typed, Matching, Uncut, crash = "none", Read PROVE Uncut'
    OBVIOUS
  <1>1. /\ server = "reading" /\ UNCHANGED <<client, sent, current, answers, backlog>>
    BY ReadTakes
  <1>2. current \in Clients
    BY <1>1 DEF Typed, TypeOK, Serving
  <1>3. PICK n : ReadOf(n)
    BY ReadTakes
  <1>4. /\ Handled(SubSeq(stream[current], 1, n))
        /\ \A d \in Clients : d # current => stream'[d] = stream[d]
    BY <1>2, <1>3 DEF ReadOf, Typed, TypeOK
  <1>5. server' # "accepting"
    BY <1>1, <1>4, HandledServer, Zenon DEF Handled
  <1>6. ASSUME ~cut', NEW d \in Clients PROVE InStep(d)'
    <2>1. ~cut /\ (TakesHeader(current) \/ TakesText(current))
      BY <1>6, ReadWhole
    <2>2. CASE d = current
      <3>1. TakesHeader(current) => Served(d)'
        BY <1>1, <2>2 DEF TakesHeader, Served
      <3>2. TakesText(current) => Served(d)'
        BY <1>1, <2>2 DEF TakesText, Served
      <3> QED
        BY <1>1, <2>1, <2>2, <3>1, <3>2 DEF InStep
    <2>3. CASE d # current
      <3>1. Unread(d)
        BY <1>6, <2>1, <2>3 DEF Uncut, InStep
      <3>2. Unread(d)'
        BY <1>1, <1>4, <2>3, <3>1 DEF Unread, LastText, TextOf
      <3> QED
        BY <1>1, <2>3, <3>2 DEF InStep
    <2> QED
      BY <2>2, <2>3
  <1>7. DiesOnlyByCutOrDeparture'
    <2>1. ~cut' => crash' = "none"
      BY ReadWhole DEF TakesHeader, TakesText
    <2> QED
      BY <2>1 DEF DiesOnlyByCutOrDeparture
  <1> QED
    BY <1>5, <1>6, <1>7 DEF Uncut

LEMMA ServerUncut == Typed /\ Matching /\ Uncut /\ ServerStep => Uncut'
  <1> SUFFICES ASSUME Typed, Matching, Uncut, ServerStep PROVE Uncut'
    OBVIOUS
  <1>a. crash = "none"
    BY DEF ServerStep
  <1>1. CASE Accept
    <2>1. /\ server = "accepting" /\ server' = "reading"
          /\ UNCHANGED <<client, sent, stream, asked, cut, crash>>
      BY <1>1 DEF Accept, clientVars
    <2>2. current = None /\ asked = HeaderParts
      BY <2>1 DEF Typed, Serving, Uncut
    <2>3. ASSUME ~cut, NEW d \in Clients
          PROVE  InStep(d)'
      <3>1. Unread(d)
        BY <1>a, <2>2, <2>3, ServerAssumption DEF Uncut, InStep
      <3>2. Unread(d)'
        BY <2>1, <3>1 DEF Unread, LastText, TextOf
      <3> QED
        BY <2>1, <2>2, <3>2 DEF InStep, Served, HeaderParts
    <2> QED
      BY <1>a, <2>1, <2>3 DEF Uncut, DiesOnlyByCutOrDeparture
  <1>2. CASE Read
    BY <1>a, <1>2, ReadUncut
  <1>3. CASE WriteSize \/ WriteData
    <2>1. /\ server \in {"writeSize", "writeData"}
          /\ UNCHANGED <<client, sent, stream, current, cut>>
          /\ \/ server' = "writeData" /\ UNCHANGED <<asked, crash>>
             \/ server' = "reading" /\ asked' = HeaderParts /\ crash' = crash
             \/ Left(current) /\ crash' = "destructor" /\ UNCHANGED <<server, asked>>
      BY <1>3 DEF WriteSize, WriteData, clientVars, SessionEnds
    <2>2. DiesOnlyByCutOrDeparture'
      BY <1>a, <2>1 DEF DiesOnlyByCutOrDeparture, Left
    <2>3. ASSUME ~cut, crash' = "none", NEW d \in Clients
          PROVE  InStep(d)'
      <3>1. InStep(d)
        BY <1>a, <2>3 DEF Uncut
      <3>2. Unread(d) => Unread(d)'
        BY <2>1 DEF Unread, LastText, TextOf
      <3>3. CASE d # current
        BY <2>1, <3>1, <3>2, <3>3 DEF InStep
      <3>4. CASE d = current
        <4>1. client[d] \in {"await", "left"} /\ stream[d] = <<>>
          BY <2>1, <3>1, <3>4 DEF InStep, Served
        <4>2. \/ server' = "writeData"
              \/ server' = "reading" /\ asked' = HeaderParts
          BY <2>1, <2>3
        <4>3. Served(d)'
          BY <2>1, <4>1, <4>2 DEF Served, Unread, HeaderParts
        <4> QED
          BY <2>1, <3>4, <4>3 DEF InStep
      <3> QED
        BY <3>3, <3>4
    <2> QED
      BY <1>a, <2>1, <2>2, <2>3 DEF Uncut
  <1> QED
    BY <1>1, <1>2, <1>3 DEF ServerStep

LEMMA ServerMatching ==
  Typed /\ Typed' /\ Matching /\ Uncut /\ ServerStep => Matching'
  <1> SUFFICES ASSUME Typed, Typed', Matching, Uncut, ServerStep, ~cut' PROVE InOrderSoFar'
    BY DEF Matching
  <1>a. crash = "none"
    BY DEF ServerStep
  <1>1. CASE Accept
    <2>1. UNCHANGED <<client, sent, stream, answers, cut>> /\ server' = "reading"
      BY <1>1 DEF Accept, clientVars
    <2> QED
      BY <2>1, AskedUnseen DEF Matching, InOrderSoFar, Missing
  <1>2. CASE Read
    <2>1. /\ server = "reading" /\ UNCHANGED <<client, sent, current, answers, backlog>>
      BY <1>2, ReadTakes
    <2>2. current \in Clients
      BY <2>1 DEF Typed, TypeOK, Serving
    <2>3. PICK n : ReadOf(n)
      BY <1>2, ReadTakes
    <2>4. /\ n \in 0..Len(stream[current])
          /\ stream'[current] = SubSeq(stream[current], n + 1, Len(stream[current]))
          /\ \A d \in Clients : d # current => stream'[d] = stream[d]
      BY <2>2, <2>3 DEF ReadOf, Typed, TypeOK
    <2>5. InOrderSoFar /\ (TakesHeader(current) \/ TakesText(current))
      BY <1>a, <1>2, ReadWhole DEF Matching
    <2>6. ASSUME NEW d \in Clients PROVE Asked(d)'
      <3>1. CASE d = current
        BY <2>1, <2>2, <2>4, <2>5, <3>1, RestAsked DEF InOrderSoFar
      <3>2. CASE d # current
        BY <2>1, <2>4, <2>5, <3>2, AskedUnseen DEF InOrderSoFar
      <3> QED
        BY <3>1, <3>2
    <2>7. CASE TakesText(current)
      <3>1. Len(answers[current]) + 1 = sent[current]
        BY <2>2, <2>5, <2>7 DEF TakesText, InOrderSoFar, Asked, Counted
      <3> QED
        BY <2>1, <2>6, <2>7, <3>1 DEF TakesText, InOrderSoFar, Missing
    <2>8. CASE TakesHeader(current)
      BY <2>1, <2>6, <2>8 DEF TakesHeader, InOrderSoFar, Missing
    <2> QED
      BY <2>5, <2>7, <2>8
  <1>3. CASE WriteSize
    <2>1. /\ UNCHANGED <<client, sent, stream, answers, current, replying, cut>>
          /\ server = "writeSize"
      BY <1>3 DEF WriteSize, clientVars
    <2> QED
      BY <2>1, AskedUnseen DEF Matching, InOrderSoFar, Missing
  <1>4. CASE WriteData
    <2>1. /\ UNCHANGED <<client, sent, stream, current, replying, cut>>
          /\ server = "writeData" /\ current \in Clients
          /\ server' \in {"writeData", "reading"}
          /\ \/ answers' = answers
             \/ server' = "reading" /\ answers' = [answers EXCEPT ![current] = Append(@, replying)]
      BY <1>4 DEF WriteData, clientVars, SessionEnds, Typed, TypeOK, Serving
    <2>a. InOrderSoFar
      BY <2>1 DEF Matching
    <2>2. CASE answers' = answers
      BY <2>1, <2>2, <2>a, AskedUnseen DEF InOrderSoFar, Missing
    <2>3. CASE server' = "reading" /\ answers' = [answers EXCEPT ![current] = Append(@, replying)]
      <3> DEFINE c == current
                 l == Len(answers[c])
      <3>1. /\ answers'[c] = Append(answers[c], replying)
            /\ \A d \in Clients : d # c => answers'[d] = answers[d]
        BY <2>1, <2>3 DEF Typed, TypeOK
      <3>2. ASSUME NEW d \in Clients, d # c PROVE Asked(d)'
        BY <2>1, <2>a, <3>1, <3>2, AskedUnseen DEF InOrderSoFar
      <3>3. /\ client[c] \in {"await", "left"} /\ stream[c] = <<>>
            /\ replying = <<c, sent[c]>> /\ l + 1 = sent[c]
        BY <2>1, <2>a DEF InOrderSoFar, Missing
      <3>4. l \in Nat /\ answers[c] \in Seq(Messages) /\ replying \in Messages
        BY <2>1 DEF Typed, TypeOK, Answering
      <3>5. /\ Len(answers'[c]) = l + 1
            /\ \A i \in 1..l : answers'[c][i] = answers[c][i]
            /\ answers'[c][l + 1] = replying
        BY <3>1, <3>4, AppendProperties
      <3>6. \A i \in 1..(l + 1) : i \in 1..l \/ i = l + 1
        <4> HIDE DEF l
        <4> QED
          BY <3>4
      <3>7. InOrder(c)'
        BY <2>1, <2>a, <3>3, <3>5, <3>6 DEF InOrderSoFar, Asked, InOrder
      <3>8. TextsAtEnd(c)'
        BY <2>1, <2>a DEF InOrderSoFar, Asked, TextsAtEnd
      <3>9. Counted(c)'
        BY <2>1, <3>3, <3>5 DEF Counted
      <3>10. Asked(c)'
        BY <3>7, <3>8, <3>9 DEF Asked
      <3> QED
        BY <2>1, <2>3, <3>2, <3>10 DEF InOrderSoFar, Missing
    <2> QED
      BY <2>1, <2>2, <2>3
  <1> QED
    BY <1>1, <1>2, <1>3, <1>4 DEF ServerStep

LEMMA AlwaysInStep == Spec => [](Matching /\ Uncut)
  <1> DEFINE Both == Matching /\ Uncut
  <1>1. Init => Both
    <2>1. Init => Uncut
      BY ServerAssumption DEF Init, Uncut, DiesOnlyByCutOrDeparture, InStep, Served, Unread, HeaderParts
    <2> QED
      BY <2>1, InitMatching
  <1>2. Typed /\ Typed' /\ Both /\ [Next]_vars => Both'
    <2> SUFFICES ASSUME Typed, Typed', Matching, Uncut, [Next]_vars PROVE Matching' /\ Uncut'
      OBVIOUS
    <2>1. CASE crash = "none" /\ ClientStep
      <3>1. cut' = cut
        BY <2>1 DEF ClientStep, Connect, SendSize, SendText, Receive, Leave, serverVars
      <3>2. Matching'
        BY <2>1, <3>1, ClientMatching DEF Matching
      <3> QED
        BY <2>1, <3>2, ClientUncut
    <2>2. CASE ServerStep
      BY <2>2, ServerMatching, ServerUncut
    <2>3. CASE UNCHANGED vars
      <3>1. UNCHANGED <<client, sent, stream, answers, server, current, asked, replying, cut, crash>>
        BY <2>3 DEF vars, clientVars, serverVars
      <3>2. Matching'
        BY <3>1, AskedUnseen DEF Matching, InOrderSoFar, Missing
      <3>3. Uncut'
        BY <3>1, InStepUnseen DEF Uncut, DiesOnlyByCutOrDeparture, Left
      <3> QED
        BY <3>2, <3>3
    <2> QED
      BY <2>1, <2>2, <2>3 DEF Next
  <1> HIDE DEF Both
  <1>3. Spec => []Both
    BY <1>1, <1>2, AlwaysTyped, PTL DEF Spec
  <1>4. Both => Matching /\ Uncut
    BY DEF Both
  <1> QED
    BY <1>3, <1>4, PTL

(* As long as every read returned what it asked for, a client gets the     *)
(* replies to its own requests, each once and in order.                    *)
THEOREM AnswersAlwaysMatch == Spec => []AnswersMatch
  BY MatchingImplies, AlwaysTyped, AlwaysInStep, PTL

(* What ends the process is a read cut short or the client's leaving.      *)
THEOREM DiesOnlySo == Spec => []DiesOnlyByCutOrDeparture
  <1>1. Uncut => DiesOnlyByCutOrDeparture
    BY DEF Uncut
  <1> QED
    BY <1>1, AlwaysInStep, PTL
=============================================================================
