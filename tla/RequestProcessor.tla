--------------------------- MODULE RequestProcessor ---------------------------
(***************************************************************************)
(* What an operation of the driver sends, what the server makes of it and  *)
(* what the caller gets back: the operations of pico/pico_client.h, the    *)
(* messages of pico/pico_message.h, pico/request_processor.h.  One call is *)
(* in progress at a time; threads, queues and time are those of            *)
(* PicoSystem.                                                             *)
(*                                                                         *)
(* The session replies with the request itself, its call of the request    *)
(* processor being commented out (pico_session.h:194): processing tells    *)
(* whether that call is made.  The storage calls of the request processor  *)
(* are commented out too, so that no operation changes anything stored.    *)
(***************************************************************************)
EXTENDS PicoMessage

CONSTANTS
  Keys, Values,     \* what callers ask for
  Collections,      \* collection names callers give
  Ids,              \* message ids, random numbers in the code
  ForeignTexts,     \* texts a client that is not the driver sends
  Database, User, Collection   \* the driver's own parameters

VARIABLES
  processing,   \* the session calls the request processor
  unused,       \* ids not given to a message yet
  operation,    \* the call in progress: its command and arguments
  request,      \* its message
  toServer,     \* the text on its way to the server
  toClient,     \* the text on its way back
  answer,       \* the message the driver received
  process       \* "running", or what ended it

vars == <<processing, unused, operation, request, toServer, toClient, answer,
          process>>

Unimportant == "unimportant"

Operation ==
     [command : {"insert", "update"}, key : Keys, value : Values]
  \cup [command : {"delete", "get"}, key : Keys]
  \cup [command : {"createCollection", "deleteCollection"}, name : Collections]

NoText == [f \in {} |-> ""]
NoOperation == [command |-> "none"]
Foreign(text) == [command |-> "foreign", text |-> text]

(* What the fields of messages hold; the null pointer is no message, and   *)
(* what the parser refuses is no text of a message.                        *)
FieldValues ==
  Keys \cup Values \cup Ids
    \cup {Database, User, Collection, Unimportant, "", "unknown",
          "couldntparseit", "SUCCESS", "FAILURE", "records", "collection",
          "insert", "update", "delete", "get", "createCollection",
          "deleteCollection"}
    \cup UNION {{text[f] : f \in DOMAIN text} : text \in ForeignTexts \ {NotJson}}

MessageTexts == [Fields \cup {"hashCode"} -> FieldValues]

ASSUME MessageAssumption ==
  /\ NotJson \notin MessageTexts
  /\ NoMessage \notin [fields : [Fields -> FieldValues],
                       text : MessageTexts \cup ForeignTexts,
                       hash : [Hashed -> FieldValues]]

Init ==
  /\ processing \in BOOLEAN
  /\ unused = Ids
  /\ operation = NoOperation
  /\ request = NoMessage
  /\ toServer = NoText
  /\ toClient = NoText
  /\ answer = NoMessage
  /\ process = "running"

-----------------------------------------------------------------------------
(* The driver.                                                             *)

Own(key, value, command, id) ==
  Request(key, value, command, Database, User, Collection, id)

(* update sends no old value, and the operations on collections leave the  *)
(* name they are given unused.                                             *)
RequestOf(o, id) ==
  CASE o.command \in {"insert", "update"} -> Own(o.key, o.value, o.command, id)
    [] o.command = "delete" -> Own(o.key, Unimportant, o.command, id)
    [] o.command = "get" -> Own(o.key, "", o.command, id)
    [] OTHER -> Own(Unimportant, Unimportant, o.command, id)

Idle == operation = NoOperation

Call(o) ==
  /\ Idle
  /\ \E id \in unused :
       /\ unused' = unused \ {id}
       /\ request' = RequestOf(o, id)
       /\ toServer' = request'.text
  /\ operation' = o
  /\ answer' = NoMessage
  /\ UNCHANGED <<processing, toClient, process>>

ForeignCall(text) ==
  /\ Idle
  /\ toServer' = text
  /\ operation' = Foreign(text)
  /\ request' = NoMessage
  /\ answer' = NoMessage
  /\ UNCHANGED <<processing, unused, toClient, process>>

(* getTheResponseOfRequest gives the caller the reply with its id; any     *)
(* other stays in the queue and the call goes on waiting.                  *)
Receive ==
  /\ toClient # NoText
  /\ answer' = Parsed(toClient)
  /\ toClient' = NoText
  /\ operation' = IF \/ request = NoMessage
                     \/ answer'.fields.messageId = request.fields.messageId
                  THEN NoOperation ELSE operation
  /\ UNCHANGED <<processing, unused, request, toServer, process>>

-----------------------------------------------------------------------------
(* The server.                                                             *)

Known == {"insert", "delete", "update", "find", "adduser", "deleteuser",
          "get", "deleteCollection", "createCollection"}

(* createCollection and deleteCollection: the "SUCCESS" of lines 131 and   *)
(* 158 goes to a second variable of that name, of an inner block, so that  *)
(* the reply to a success has an empty key.                                *)
CollectionReply(m, success) ==
  Reply(IF success THEN "" ELSE "FAILURE", "collection", m.fields.messageId)

RecordsReply(m) == Reply("SUCCESS", "records", m.fields.messageId)

(* processRequest: the replies it may return for a message.  NoMessage is  *)
(* the null pointer, which insert, find and the users' commands leave in   *)
(* retMsg.                                                                 *)
(* Mutant of Replies: update's goes to a second variable of that name.     *)
RepliesShadowed(m, success) ==
  CASE m.fields.command = "delete" -> RecordsReply(m)
    [] m.fields.command \in {"deleteCollection", "createCollection"} ->
         CollectionReply(m, success)
    [] OTHER -> NoMessage

Replies(m, success) ==
  CASE m.fields.command \in {"delete", "update"} -> RecordsReply(m)
    [] m.fields.command \in {"deleteCollection", "createCollection"} ->
         CollectionReply(m, success)
    [] OTHER -> NoMessage

(* A session that is given a text: the parse is asserted; so is, in the    *)
(* processor, that of the sentence for an unknown command; get reads a     *)
(* record nothing was written to; and a null reply is read.  Whether an    *)
(* operation on a collection succeeded is read from a variable that is not *)
(* set.                                                                    *)
Dies(why) == process' = why /\ UNCHANGED toClient

Serve ==
  /\ toServer # NoText
  /\ toServer' = NoText
  /\ IF ~Parses(toServer) THEN Dies("assert")
     ELSE \E success \in BOOLEAN :
          LET m == Parsed(toServer)
              command == m.fields.command
              reply == IF processing THEN Replies(m, success) ELSE m
          IN \/ /\ processing /\ command \notin Known
                /\ ~Parses(FromSentence)
                /\ Dies("assert")
             \/ /\ processing /\ command = "get"
                /\ Dies("memory")
             \/ /\ processing => command \in Known \ {"get"}
                /\ IF reply = NoMessage THEN Dies("memory")
                   ELSE toClient' = reply.text /\ UNCHANGED process
  /\ UNCHANGED <<processing, unused, operation, request, answer>>

Next ==
  /\ process = "running"
  /\ \/ \E o \in Operation : Call(o)
     \/ \E text \in ForeignTexts : ForeignCall(text)
     \/ Serve
     \/ Receive

Spec == Init /\ [][Next]_vars
FairSpec == Spec /\ WF_vars(process = "running" /\ (Serve \/ Receive))

-----------------------------------------------------------------------------
(* The reply a caller gets is the one to its message, and as long as the   *)
(* session replies with the message itself, nothing of it is lost in the   *)
(* two conversions (pico_message.h:83-109, 209-241; pico_session.h:195).   *)
AnswerIsForCall ==
  (answer # NoMessage /\ request # NoMessage) =>
     /\ answer.fields.messageId = request.fields.messageId
     /\ ~processing => answer.fields = request.fields /\ answer.hash = request.hash

(* The command the server finds in an operation's message.                 *)
Command(o) ==
  IF o.command = "foreign" THEN ParsedFields(o.text).command ELSE o.command

Implemented == {"delete", "update", "deleteCollection", "createCollection"}

(* What ends the process: a text that does not parse; with the request     *)
(* processor, a command it does not know and those it knows and does not   *)
(* implement (request_processor.h:55-110, 253-281).  The other operations, *)
(* and without the request processor every text that parses, are safe.     *)
EndedByOperation ==
  process # "running" =>
     \/ operation.command = "foreign" /\ ~Parses(operation.text)
     \/ processing /\ Command(operation) \notin Implemented

(* Every call returns, unless the process ends: the reply finds its call.  *)
CallsAnswered ==
  operation # NoOperation ~> (operation = NoOperation \/ process # "running")
=============================================================================
