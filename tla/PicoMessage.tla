----------------------------- MODULE PicoMessage -----------------------------
(***************************************************************************)
(* A message, pico/pico_message.h: its fields, the JSON text it is sent    *)
(* as, and how it is made from fields or from a text.                      *)
(*                                                                         *)
(* A text is the function from the field names it holds to their values,   *)
(* or NotJson.  A message is its fields and the text it was made from or   *)
(* made into, which is what is sent.                                       *)
(***************************************************************************)
EXTENDS Naturals, Sequences

CONSTANTS
  NotJson,    \* a text the parser refuses
  NoMessage   \* the null pointer

Fields == {"key", "value", "oldvalue", "db", "user", "collection", "command",
           "messageId"}
Hashed == Fields \ {"messageId"}

(* The field hashCode of the text is the one of a message whose hash is    *)
(* computed after the text was made: always empty.                         *)
TextOf(fields) ==
  [f \in Fields \cup {"hashCode"} |->
     IF f = "hashCode" THEN "" ELSE fields[f]]

(* hashCodeOfMessage: computed from these fields.                          *)
HashOf(fields) == [f \in Hashed |-> fields[f]]

Made(fields) ==
  [fields |-> fields, text |-> TextOf(fields), hash |-> HashOf(fields)]

(* A message made from a text: a field the text lacks gets a default.      *)
Parses(text) == text # NotJson

(* Mutant of ParsedFields: the id is not read from the text.               *)
ParsedFieldsNoId(text) ==
  [f \in Fields |->
     CASE f = "messageId" -> "couldntparseit"
       [] f \in DOMAIN text -> text[f]
       [] OTHER -> "unknown"]

ParsedFields(text) ==
  [f \in Fields |->
     CASE f \in DOMAIN text -> text[f]
       [] f = "messageId" /\ f \notin DOMAIN text -> "couldntparseit"
       [] OTHER -> "unknown"]

Parsed(text) ==
  [fields |-> ParsedFields(text), text |-> text,
   hash |-> HashOf(ParsedFields(text))]

(* A request: oldvalue is an empty string, the id a fresh one.             *)
Request(key, value, command, db, user, col, id) ==
  Made([key |-> key, value |-> value, oldvalue |-> "", db |-> db,
        user |-> user, collection |-> col, command |-> command,
        messageId |-> id])

(* A reply: what it has no argument for is unknown.                        *)
Reply(key, value, id) ==
  Made([key |-> key, value |-> value, oldvalue |-> "", db |-> "unknown",
        user |-> "unknown", collection |-> "unknown", command |-> "unknown",
        messageId |-> id])

(* build_message_from_string makes a reply of a text, which must parse: a  *)
(* sentence does not.                                                      *)
FromSentence == NotJson
=============================================================================
