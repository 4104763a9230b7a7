----------------------- MODULE RequestProcessorProofs -----------------------
(***************************************************************************)
(* For any keys, values, collections, ids and texts of other clients, with *)
(* and without the request processor: a reply is the one to the call that  *)
(* gets it and says what it should, and only certain operations end the    *)
(* process.                                                                *)
(***************************************************************************)
EXTENDS RequestProcessor, TLAPS

-----------------------------------------------------------------------------
(* Messages and their texts.                                               *)

(* What was written into a text is read from it again (pico_message.h).    *)
LEMMA RoundTrip ==
  ASSUME NEW V, NEW fields \in [Fields -> V]
  PROVE  ParsedFields(TextOf(fields)) = fields
  <1> DEFINE text == TextOf(fields)
  <1>1. DOMAIN text = Fields \cup {"hashCode"}
    BY DEF TextOf
  <1>2. ASSUME NEW f \in Fields
        PROVE  f \in DOMAIN text /\ text[f] = fields[f]
    BY <1>1 DEF TextOf, Fields
  <1> HIDE DEF text
  <1>3. ASSUME NEW f \in Fields
        PROVE  ParsedFields(text)[f] = fields[f]
    <2>1. f \in DOMAIN text /\ text[f] = fields[f]
      BY <1>2
    <2> QED
      BY <2>1 DEF ParsedFields
  <1>4. ParsedFields(text) = [f \in Fields |-> ParsedFields(text)[f]]
    BY DEF ParsedFields
  <1> QED
    BY <1>3, <1>4 DEF text

(* A text made from fields parses.                                         *)
LEMMA MadeTextParses ==
  ASSUME NEW fields \in [Fields -> FieldValues]
  PROVE  TextOf(fields) \in MessageTexts /\ Parses(TextOf(fields))
  <1>1. "" \in FieldValues
    BY DEF FieldValues
  <1>2. ASSUME NEW f \in Fields \cup {"hashCode"}
        PROVE  (IF f = "hashCode" THEN "" ELSE fields[f]) \in FieldValues
    BY <1>1
  <1>3. TextOf(fields) \in MessageTexts
    BY <1>2 DEF TextOf, MessageTexts
  <1> QED
    BY <1>3, MessageAssumption DEF Parses

(* No text of a message is the empty function, which stands for none.      *)
LEMMA MadeTextIsText ==
  ASSUME NEW fields
  PROVE  TextOf(fields) # NoText
  <1>1. "hashCode" \in DOMAIN TextOf(fields)
    BY DEF TextOf
  <1>2. "hashCode" \notin DOMAIN NoText
    BY DEF NoText
  <1> QED
    BY <1>1, <1>2

(* What is read from a text that parses is a message, never the null       *)
(* pointer.                                                                *)
LEMMA ParsedIsMessage ==
  ASSUME NEW text \in MessageTexts \cup (ForeignTexts \ {NotJson})
  PROVE  /\ ParsedFields(text) \in [Fields -> FieldValues]
         /\ Parsed(text) # NoMessage
  <1>1. ASSUME NEW f \in Fields
        PROVE  ParsedFields(text)[f] \in FieldValues
    <2>1. CASE f \in DOMAIN text
      <3>1. ParsedFields(text)[f] = text[f]
        BY <2>1 DEF ParsedFields
      <3>2. text[f] \in FieldValues
        <4>1. CASE text \in MessageTexts
          BY <2>1, <4>1 DEF MessageTexts
        <4>2. CASE text \in ForeignTexts \ {NotJson}
          <5>1. text[f] \in {text[g] : g \in DOMAIN text}
            BY <2>1
          <5>2. text[f] \in UNION {{t[g] : g \in DOMAIN t} :
                                    t \in ForeignTexts \ {NotJson}}
            BY <4>2, <5>1
          <5> QED
            BY <5>2 DEF FieldValues
        <4> QED
          BY <4>1, <4>2
      <3> QED
        BY <3>1, <3>2
    <2>2. CASE f \notin DOMAIN text
      <3>1. ParsedFields(text)[f] \in {"couldntparseit", "unknown"}
        BY <2>2 DEF ParsedFields
      <3> QED
        BY <3>1 DEF FieldValues
    <2> QED
      BY <2>1, <2>2
  <1>2. ParsedFields(text) = [f \in Fields |-> ParsedFields(text)[f]]
    BY DEF ParsedFields
  <1>3. ParsedFields(text) \in [Fields -> FieldValues]
    BY <1>1, <1>2
  <1>4. HashOf(ParsedFields(text)) \in [Hashed -> FieldValues]
    BY <1>3 DEF HashOf, Hashed
  <1>5. Parsed(text) \in [fields : [Fields -> FieldValues],
                          text : MessageTexts \cup ForeignTexts,
                          hash : [Hashed -> FieldValues]]
    BY <1>3, <1>4 DEF Parsed
  <1> QED
    BY <1>3, <1>5, MessageAssumption

(* Nor is a message made of fields.                                        *)
LEMMA MadeIsMessage ==
  ASSUME NEW fields \in [Fields -> FieldValues]
  PROVE  Made(fields) # NoMessage
  <1>1. HashOf(fields) \in [Hashed -> FieldValues]
    BY DEF HashOf, Hashed
  <1>2. Made(fields) \in [fields : [Fields -> FieldValues],
                          text : MessageTexts \cup ForeignTexts,
                          hash : [Hashed -> FieldValues]]
    BY <1>1, MadeTextParses DEF Made
  <1> QED
    BY <1>2, MessageAssumption

(* A message made from fields with this command and this id.               *)
Labelled(m, command, id) ==
  \E fields \in [Fields -> FieldValues] :
    m = Made(fields) /\ fields.command = command /\ fields.messageId = id

(* Eight values make the fields of a message.                              *)
LEMMA EightFields ==
  ASSUME NEW V, NEW key \in V, NEW value \in V, NEW oldvalue \in V, NEW db \in V,
         NEW user \in V, NEW collection \in V, NEW command \in V,
         NEW messageId \in V
  PROVE  [key |-> key, value |-> value, oldvalue |-> oldvalue, db |-> db,
          user |-> user, collection |-> collection, command |-> command,
          messageId |-> messageId] \in [Fields -> V]
  <1> DEFINE fields == [key |-> key, value |-> value, oldvalue |-> oldvalue,
                        db |-> db, user |-> user, collection |-> collection,
                        command |-> command, messageId |-> messageId]
  <1>1. \A f \in Fields : fields[f] \in V
    BY DEF Fields
  <1>2. fields = [f \in Fields |-> fields[f]]
    BY DEF Fields
  <1> HIDE DEF fields
  <1>3. fields \in [Fields -> V]
    BY <1>1, <1>2
  <1> QED
    BY <1>3 DEF fields

(* What the driver makes.                                                  *)
LEMMA OwnFields ==
  ASSUME NEW key \in FieldValues, NEW value \in FieldValues,
         NEW command \in FieldValues, NEW id \in Ids
  PROVE  Labelled(Own(key, value, command, id), command, id)
  <1> DEFINE fields == [key |-> key, value |-> value, oldvalue |-> "",
                        db |-> Database, user |-> User,
                        collection |-> Collection, command |-> command,
                        messageId |-> id]
  <1>1. {id, Database, User, Collection, ""} \subseteq FieldValues
    BY DEF FieldValues
  <1>2. fields \in [Fields -> FieldValues]
    BY <1>1, EightFields
  <1>3. Own(key, value, command, id) = Made(fields)
    BY DEF Own, Request
  <1>4. fields.command = command /\ fields.messageId = id
    OBVIOUS
  <1> HIDE DEF fields
  <1> QED
    BY <1>2, <1>3, <1>4 DEF Labelled

(* The message of an operation carries its command and its id.             *)
LEMMA RequestFields ==
  ASSUME NEW o \in Operation, NEW id \in Ids
  PROVE  Labelled(RequestOf(o, id), o.command, id)
  <1>1. o.command \in FieldValues
    BY DEF Operation, FieldValues
  <1>2. {Unimportant, ""} \subseteq FieldValues
    BY DEF FieldValues
  <1>3. CASE o.command \in {"insert", "update"}
    <2>1. o.key \in Keys /\ o.value \in Values
      BY <1>3 DEF Operation
    <2>2. o.key \in FieldValues /\ o.value \in FieldValues
      BY <2>1 DEF FieldValues
    <2>3. RequestOf(o, id) = Own(o.key, o.value, o.command, id)
      BY <1>3 DEF RequestOf
    <2> QED
      BY <1>1, <2>2, <2>3, OwnFields
  <1>4. CASE o.command \in {"delete", "get"}
    <2>1. o.key \in Keys
      BY <1>4 DEF Operation
    <2>2. o.key \in FieldValues
      BY <2>1 DEF FieldValues
    <2>3. \/ RequestOf(o, id) = Own(o.key, Unimportant, o.command, id)
          \/ RequestOf(o, id) = Own(o.key, "", o.command, id)
      BY <1>4 DEF RequestOf
    <2> QED
      BY <1>1, <1>2, <2>2, <2>3, OwnFields
  <1>5. CASE o.command \in {"createCollection", "deleteCollection"}
    <2>1. RequestOf(o, id) = Own(Unimportant, Unimportant, o.command, id)
      BY <1>5 DEF RequestOf
    <2> QED
      BY <1>1, <1>2, <2>1, OwnFields
  <1> QED
    BY <1>3, <1>4, <1>5 DEF Operation

(* A reply is a message with the key and the id it is given, and its text  *)
(* says so.                                                                *)
LEMMA ReplyRead ==
  ASSUME NEW key \in FieldValues, NEW value \in FieldValues,
         NEW id \in FieldValues
  PROVE  /\ Reply(key, value, id) # NoMessage
         /\ Parsed(Reply(key, value, id).text).fields.key = key
         /\ Parsed(Reply(key, value, id).text).fields.messageId = id
  <1> DEFINE fields == [key |-> key, value |-> value, oldvalue |-> "",
                        db |-> "unknown", user |-> "unknown",
                        collection |-> "unknown", command |-> "unknown",
                        messageId |-> id]
  <1>1. {"", "unknown"} \subseteq FieldValues
    BY DEF FieldValues
  <1>2. fields \in [Fields -> FieldValues]
    BY <1>1, EightFields
  <1>3. Reply(key, value, id) = Made(fields)
    BY DEF Reply
  <1>4. fields.key = key /\ fields.messageId = id
    OBVIOUS
  <1> HIDE DEF fields
  <1>5. Parsed(Made(fields).text).fields = fields
    BY <1>2, RoundTrip DEF Made, Parsed
  <1> QED
    BY <1>2, <1>3, <1>4, <1>5, MadeIsMessage

-----------------------------------------------------------------------------
(* The inductive invariant.                                                *)

(* The call in progress has its text on one of the two ways, or on none    *)
(* when the process has ended or another reply was taken; between calls    *)
(* nothing is on its way.                                                  *)
OwnCall ==
  /\ operation \in Operation
  /\ \E id \in Ids : request = RequestOf(operation, id)
  /\ toServer \in {NoText, request.text}

OthersCall ==
  \E text \in ForeignTexts :
    operation = Foreign(text) /\ request = NoMessage /\ toServer \in {NoText, text}

NoCall == Idle /\ toServer = NoText /\ toClient = NoText

(* A text that has not reached the server was not answered.                *)
OneText == toServer # NoText => toClient = NoText /\ answer = NoMessage

(* What a message has to be to be the reply to the driver's request.       *)
Follows(m) ==
  /\ m.fields.messageId = request.fields.messageId
  /\ ~processing => m.fields = request.fields /\ m.hash = request.hash

RightReply ==
  request # NoMessage =>
    /\ toClient # NoText => Follows(Parsed(toClient))
    /\ answer # NoMessage => Follows(answer)

CallInv ==
  /\ NoCall \/ OwnCall \/ OthersCall
  /\ OneText
  /\ RightReply

(* A call has its own message, with its command.                           *)
LEMMA OwnRequest ==
  ASSUME OwnCall
  PROVE  /\ request # NoMessage
         /\ \E fields \in [Fields -> FieldValues] :
              request = Made(fields) /\ fields.command = operation.command
  <1>1. PICK id \in Ids : request = RequestOf(operation, id)
    BY DEF OwnCall
  <1>2. Labelled(request, operation.command, id)
    BY <1>1, RequestFields DEF OwnCall
  <1>3. PICK fields \in [Fields -> FieldValues] :
          request = Made(fields) /\ fields.command = operation.command
    BY <1>2 DEF Labelled
  <1> QED
    BY <1>3, MadeIsMessage

(* Its text is read back as it was made.                                   *)
LEMMA OwnTextRead ==
  ASSUME OwnCall
  PROVE  /\ request.text \in MessageTexts
         /\ Parses(request.text)
         /\ request.text # NoText
         /\ Parsed(request.text).fields = request.fields
         /\ Parsed(request.text).hash = request.hash
         /\ request.fields \in [Fields -> FieldValues]
         /\ request.fields.command = operation.command
  <1>1. PICK fields \in [Fields -> FieldValues] :
          request = Made(fields) /\ fields.command = operation.command
    BY OwnRequest
  <1>2. /\ request.text = TextOf(fields)
        /\ request.fields = fields
        /\ request.hash = HashOf(fields)
    BY <1>1 DEF Made
  <1>3. ParsedFields(request.text) = fields
    BY <1>2, RoundTrip
  <1>4. /\ Parsed(request.text).fields = fields
        /\ Parsed(request.text).hash = HashOf(fields)
    BY <1>3 DEF Parsed
  <1> QED
    BY <1>1, <1>2, <1>4, MadeTextParses, MadeTextIsText

(* No operation is the absence of one, nor another client's call.          *)
LEMMA OperationsDiffer ==
  /\ \A o \in Operation : o # NoOperation /\ o.command # "foreign"
  /\ \A text : Foreign(text) # NoOperation /\ Foreign(text).command = "foreign"
  <1>1. NoOperation.command = "none"
    BY DEF NoOperation
  <1>2. \A o \in Operation : o.command \notin {"none", "foreign"}
    BY DEF Operation
  <1>3. \A text : Foreign(text).command = "foreign"
    BY DEF Foreign
  <1> QED
    BY <1>1, <1>2, <1>3

(* A call begins with its own message.                                     *)
LEMMA CallKeeps ==
  ASSUME CallInv, NEW o \in Operation, Call(o), unused \subseteq Ids
  PROVE  CallInv'
  <1>1. PICK id \in unused : request' = RequestOf(o, id) /\ toServer' = request'.text
    BY DEF Call
  <1>2. NoCall
    BY OperationsDiffer DEF CallInv, OwnCall, OthersCall, Call, Idle
  <1>3. operation' = o /\ answer' = NoMessage /\ toClient' = NoText
    BY <1>2 DEF Call, NoCall
  <1>4. OwnCall'
    BY <1>1, <1>3 DEF OwnCall
  <1>5. OneText' /\ RightReply'
    BY <1>3 DEF OneText, RightReply
  <1> QED
    BY <1>4, <1>5 DEF CallInv

(* Another client's call has no message of the driver's.                   *)
LEMMA ForeignCallKeeps ==
  ASSUME CallInv, NEW text \in ForeignTexts, ForeignCall(text)
  PROVE  CallInv'
  <1>1. NoCall
    BY OperationsDiffer DEF CallInv, OwnCall, OthersCall, ForeignCall, Idle
  <1>2. /\ operation' = Foreign(text) /\ request' = NoMessage
        /\ toServer' = text /\ answer' = NoMessage /\ toClient' = NoText
    BY <1>1 DEF ForeignCall, NoCall
  <1>3. OthersCall' /\ OneText' /\ RightReply'
    BY <1>2 DEF OthersCall, OneText, RightReply
  <1> QED
    BY <1>3 DEF CallInv

(* A reply that is taken is one the caller may take: it ends its call.     *)
LEMMA ReceiveKeeps ==
  ASSUME CallInv, Receive
  PROVE  CallInv'
  <1>1. /\ toServer = NoText /\ toServer' = NoText /\ toClient' = NoText
        /\ UNCHANGED <<processing, request>>
        /\ answer' = Parsed(toClient)
        /\ toClient # NoText
    BY DEF Receive, CallInv, OneText
  <1>2. request # NoMessage => Follows(answer)'
    BY <1>1 DEF CallInv, RightReply, Follows
  <1>3. operation' = NoOperation
    <2>1. CASE request = NoMessage
      BY <2>1 DEF Receive
    <2>2. CASE request # NoMessage
      <3>1. Follows(Parsed(toClient))
        BY <1>1, <2>2 DEF CallInv, RightReply
      <3> QED
        BY <1>1, <3>1 DEF Receive, Follows
    <2> QED
      BY <2>1, <2>2
  <1>4. NoCall' /\ OneText'
    BY <1>1, <1>3 DEF NoCall, Idle, OneText
  <1>5. RightReply'
    BY <1>1, <1>2 DEF RightReply
  <1> QED
    BY <1>4, <1>5 DEF CallInv

(* What the server replies to the driver's request with the processor.     *)
LEMMA ProcessedReply ==
  ASSUME NEW m, NEW success, m.fields.messageId \in FieldValues,
         Replies(m, success) # NoMessage
  PROVE  Parsed(Replies(m, success).text).fields.messageId
           = m.fields.messageId
  <1> DEFINE i == m.fields.messageId
             k == IF success THEN "" ELSE "FAILURE"
             Read(v, w) == Parsed(Reply(v, w, i).text).fields
  <1>1. "SUCCESS" \in FieldValues /\ "records" \in FieldValues
    BY DEF FieldValues
  <1>2. "collection" \in FieldValues /\ k \in FieldValues
    BY DEF FieldValues
  <1>3. \A v, w \in FieldValues : Read(v, w).messageId = i
    BY ReplyRead
  <1>4. CASE m.fields.command \in {"delete", "update"}
    <2>1. Replies(m, success) = Reply("SUCCESS", "records", i)
      BY <1>4 DEF Replies, RecordsReply
    <2>2. Read("SUCCESS", "records").messageId = i
      <3> HIDE DEF Read, i
      <3> QED
        BY <1>1, <1>3
    <2> QED
      BY <1>4, <2>1, <2>2
  <1>5. CASE m.fields.command \in {"deleteCollection", "createCollection"}
    <2>1. Replies(m, success) = Reply(k, "collection", i)
      BY <1>5 DEF Replies, CollectionReply
    <2>2. Read(k, "collection").messageId = i
      <3> HIDE DEF Read, i, k
      <3> QED
        BY <1>2, <1>3
    <2> HIDE DEF k
    <2> QED
      BY <2>1, <2>2
  <1>6. CASE m.fields.command \notin {"delete", "update", "deleteCollection",
                                      "createCollection"}
    BY <1>6 DEF Replies
  <1> QED
    BY <1>4, <1>5, <1>6

(* The server's step: the process ends, or it replies with the message or  *)
(* with what the processor makes of it.                                    *)
LEMMA ServeOutcomes ==
  ASSUME Serve
  PROVE  /\ toServer' = NoText
         /\ UNCHANGED <<processing, unused, operation, request, answer>>
         /\ \/ UNCHANGED toClient
            \/ /\ UNCHANGED process
               /\ \/ ~processing /\ toClient' = Parsed(toServer).text
                  \/ /\ processing
                     /\ \E success \in BOOLEAN :
                          /\ Replies(Parsed(toServer), success) # NoMessage
                          /\ toClient' = Replies(Parsed(toServer), success).text
  BY DEF Serve, Dies

(* What the server sends is the reply to what it was sent.                 *)
LEMMA ServeKeeps ==
  ASSUME CallInv, Serve
  PROVE  CallInv'
  <1>1. /\ toServer # NoText /\ toServer' = NoText /\ toClient = NoText
        /\ answer = NoMessage /\ answer' = NoMessage
        /\ UNCHANGED <<processing, operation, request>>
    BY ServeOutcomes DEF Serve, CallInv, OneText
  <1>2. OwnCall' \/ OthersCall'
    BY <1>1 DEF CallInv, NoCall, OwnCall, OthersCall
  <1>3. OneText'
    BY <1>1 DEF OneText
  <1>4. ASSUME request # NoMessage, toClient' # NoText
        PROVE  Follows(Parsed(toClient))'
    <2>1. OwnCall /\ toServer = request.text
      BY <1>1, <1>4 DEF CallInv, NoCall, OwnCall, OthersCall
    <2>2. /\ Parsed(toServer).fields = request.fields
          /\ Parsed(toServer).hash = request.hash
          /\ request.fields \in [Fields -> FieldValues]
      BY <2>1, OwnTextRead
    <2>3. request.fields.messageId \in FieldValues
      BY <2>2 DEF Fields
    <2>4. CASE ~processing
      <3>1. toClient' = toServer
        BY <1>1, <1>4, <2>4, ServeOutcomes DEF Parsed
      <3> QED
        BY <1>1, <2>2, <2>4, <3>1 DEF Follows
    <2>5. CASE processing
      <3>1. PICK success \in BOOLEAN :
              /\ Replies(Parsed(toServer), success) # NoMessage
              /\ toClient' = Replies(Parsed(toServer), success).text
        BY <1>1, <1>4, <2>5, ServeOutcomes
      <3> DEFINE m == Parsed(toServer)
      <3>2. m.fields = request.fields
        BY <2>2
      <3>3. m.fields.messageId \in FieldValues
        BY <2>3, <3>2
      <3> HIDE DEF m
      <3>4. Parsed(toClient').fields.messageId = m.fields.messageId
        BY <3>1, <3>3, ProcessedReply DEF m
      <3> QED
        BY <1>1, <2>5, <3>2, <3>4 DEF Follows
    <2> QED
      BY <2>4, <2>5
  <1>5. RightReply'
    BY <1>1, <1>4 DEF RightReply
  <1> QED
    BY <1>2, <1>3, <1>5 DEF CallInv

(* The invariant, with the ids that are left.                              *)
Inv == unused \subseteq Ids /\ CallInv

(* No call is in progress at first ...                                     *)
LEMMA InvInit == Init => Inv
  BY DEF Init, Inv, CallInv, NoCall, Idle, OneText, RightReply

(* ... and every step keeps the invariant.                                 *)
LEMMA InvInductive == Inv /\ [Next]_vars => Inv'
  <1> SUFFICES ASSUME Inv, [Next]_vars PROVE Inv'
    OBVIOUS
  <1>1. CASE UNCHANGED vars
    <2>1. CallInv'
      BY <1>1 DEF vars, Inv, CallInv, NoCall, Idle, OwnCall, OthersCall, OneText,
                  RightReply, Follows
    <2> QED
      BY <1>1, <2>1 DEF vars, Inv
  <1>2. CASE Next
    <2>1. unused' \subseteq Ids
      <3>1. unused' \subseteq unused
        BY <1>2 DEF Next, Call, ForeignCall, Serve, Receive
      <3> QED
        BY <3>1 DEF Inv
    <2>2. CallInv'
      BY <1>2, CallKeeps, ForeignCallKeeps, ServeKeeps, ReceiveKeeps DEF Next, Inv
    <2> QED
      BY <2>1, <2>2 DEF Inv
  <1> QED
    BY <1>1, <1>2

(* The inductive invariant always holds.                                   *)
THEOREM AlwaysInv == Spec => []Inv
  BY InvInit, InvInductive, PTL DEF Spec

(* The reply a caller gets has the id of its request, and all else of it   *)
(* as long as the session replies with the request itself, through both    *)
(* conversions (pico_message.h, pico_session.h:195).                       *)
THEOREM AnswersAreForCalls == Spec => []AnswerIsForCall
  <1>1. Inv => AnswerIsForCall
    BY DEF Inv, CallInv, RightReply, Follows, AnswerIsForCall
  <1> QED
    BY <1>1, AlwaysInv, PTL

-----------------------------------------------------------------------------
(* What ends the process.  A reply there is, if the command is implemented *)
(* or the session replies with the message.                                *)
LEMMA ThereIsAReply ==
  ASSUME NEW text \in MessageTexts \cup (ForeignTexts \ {NotJson}), NEW success,
         Parsed(text).fields.command \in Implemented
  PROVE  Replies(Parsed(text), success) # NoMessage
  <1> DEFINE id == Parsed(text).fields.messageId
  <1>1. id \in FieldValues
    <2>1. ParsedFields(text) \in [Fields -> FieldValues] /\ "messageId" \in Fields
      BY ParsedIsMessage DEF Fields
    <2>2. Parsed(text).fields = ParsedFields(text)
      BY DEF Parsed
    <2> QED
      BY <2>1, <2>2
  <1>2. {"", "FAILURE", "SUCCESS", "records", "collection"} \subseteq FieldValues
    BY DEF FieldValues
  <1>3. \E key, value \in FieldValues :
          Replies(Parsed(text), success) = Reply(key, value, id)
    BY <1>2 DEF Implemented, Replies, RecordsReply, CollectionReply
  <1> HIDE DEF id
  <1> QED
    BY <1>1, <1>3, ReplyRead

(* The step that ends the process.                                         *)
LEMMA ServeEnds ==
  ASSUME CallInv, Serve, process = "running", process' # "running"
  PROVE  EndedByOperation'
  <1>1. toServer # NoText /\ UNCHANGED <<operation, processing>>
    BY DEF Serve
  <1>2. \/ OwnCall /\ toServer = request.text
        \/ \E text \in ForeignTexts : operation = Foreign(text) /\ toServer = text
    BY <1>1 DEF CallInv, NoCall, OwnCall, OthersCall
  <1>3. CASE ~Parses(toServer)
    <2>1. ~OwnCall \/ toServer # request.text
      BY <1>3, OwnTextRead
    <2>2. operation.command = "foreign" /\ operation.text = toServer
      BY <1>2, <2>1 DEF Foreign
    <2> QED
      BY <1>1, <1>3, <2>2 DEF EndedByOperation
  <1>4. CASE Parses(toServer)
    <2>1. toServer \in MessageTexts \cup (ForeignTexts \ {NotJson})
      BY <1>2, <1>4, OwnTextRead DEF Parses
    <2>2. Command(operation) = Parsed(toServer).fields.command
      <3>1. CASE OwnCall /\ toServer = request.text
        BY <3>1, OwnTextRead, OperationsDiffer DEF OwnCall, Command
      <3>2. CASE \E text \in ForeignTexts :
                   operation = Foreign(text) /\ toServer = text
        BY <3>2 DEF Foreign, Command, Parsed
      <3> QED
        BY <1>2, <3>1, <3>2
    <2>3. ASSUME ~processing
          PROVE  FALSE
      <3>1. Parsed(toServer) # NoMessage
        BY <2>1, ParsedIsMessage
      <3> QED
        BY <1>4, <2>3, <3>1 DEF Serve
    <2>4. ASSUME Command(operation) \in Implemented
          PROVE  ~processing
      <3>1. \A success \in BOOLEAN : Replies(Parsed(toServer), success) # NoMessage
        BY <2>1, <2>2, <2>4, ThereIsAReply
      <3>2. Parsed(toServer).fields.command \in Known \ {"get"}
        BY <2>2, <2>4 DEF Implemented, Known
      <3> QED
        BY <1>4, <3>1, <3>2 DEF Serve
    <2> QED
      BY <1>1, <2>3, <2>4 DEF EndedByOperation, Command
  <1> QED
    BY <1>3, <1>4

(* Only a step of the server ends the process.                             *)
LEMMA EndedInductive ==
  Inv /\ EndedByOperation /\ [Next]_vars => EndedByOperation'
  <1> SUFFICES ASSUME Inv, EndedByOperation, [Next]_vars PROVE EndedByOperation'
    OBVIOUS
  <1>1. CASE UNCHANGED vars
    BY <1>1 DEF vars, EndedByOperation, Command
  <1>2. CASE Next
    <2>1. CASE process' = "running"
      BY <2>1 DEF EndedByOperation
    <2>2. CASE process' # "running"
      <3>1. Serve /\ process = "running"
        BY <1>2, <2>2 DEF Next, Call, ForeignCall, Receive
      <3> QED
        BY <2>2, <3>1, ServeEnds DEF Inv
    <2> QED
      BY <2>1, <2>2
  <1> QED
    BY <1>1, <1>2

(* The process ends by a text that does not parse or, with the request     *)
(* processor, by a command it does not implement; nothing else a caller    *)
(* asks for does (pico_session.h, request_processor.h:55-110, 253-281).    *)
THEOREM EndsByOperation == Spec => []EndedByOperation
  <1>1. Init => EndedByOperation
    BY DEF Init, EndedByOperation
  <1> QED
    BY <1>1, AlwaysInv, EndedInductive, PTL DEF Spec
=============================================================================
