------------------------------ MODULE PicoWire ------------------------------
(***************************************************************************)
(* What the driver (pico_client.h) and the session (pico_session.h) share: *)
(* the messages, the two directions of their socket, the header that       *)
(* announces the size of the next message, and what becomes of a message   *)
(* that is read with the size a header announced.                          *)
(*                                                                         *)
(* A message on the wire is two writes: a header of ten characters, "####" *)
(* and the size in decimal digits, then the JSON text.  The text itself is *)
(* abstracted to a body, of which the code only tells apart the size and   *)
(* whether it contains "####".                                             *)
(***************************************************************************)
EXTENDS Integers, Sequences

CONSTANTS
  Callers,        \* threads that call the driver's operations
  MaxCalls,       \* bound: operations one caller performs
  Bodies,         \* message texts
  SizeOf,         \* SizeOf[b]: length of text b
  Marked,         \* the texts that contain "####"
  SizeLimit,      \* first size that does not fit a header (10^6 in the code)
  DanglingSizes,  \* what a header built from freed memory may announce
  NotANumber,     \* an announcement that is not a decimal number
  NoMessage       \* a message pointer not set yet

ASSUME WireAssumption ==
  /\ MaxCalls \in Nat
  /\ SizeOf \in [Bodies -> Nat \ {0}]
  /\ Marked \subseteq Bodies
  /\ SizeLimit \in Nat /\ SizeLimit >= 10   \* a header has a digit at least
  /\ NotANumber \notin Int
  /\ DanglingSizes \subseteq Int \cup {NotANumber}

VARIABLES
  toServer,       \* frames written by the driver and not yet read
  toClient,       \* frames written by the session and not yet read
  connected,      \* the driver's connect has succeeded
  crash           \* why the process died, "none" while it runs

wireVars == <<toServer, toClient, connected, crash>>

-----------------------------------------------------------------------------
(* The message id is a random number of 32 digits: here the caller and the *)
(* rank of the call, which is unique too.                                  *)
Calls   == Callers \X (1..MaxCalls)
Message == [id : Calls, body : Bodies]

ASSUME NoMessageAssumption == NoMessage \notin Message

(* A header keeps ten characters: of the decimal digits of the size only   *)
(* those before the limit are sent, a longer number loses its last ones.   *)
HeaderDigits[n \in Nat] == IF n < SizeLimit THEN n ELSE HeaderDigits[n \div 10]

(* Mutant of HeaderSize: one less.                                         *)
HeaderSizeShort(m) == HeaderDigits[SizeOf[m.body]] - 1

HeaderSize(m) == HeaderDigits[SizeOf[m.body]]

SizeFrame(n) == [kind |-> "size", size |-> n]
DataFrame(m) == [kind |-> "data", msg |-> m]

Announcements == {HeaderDigits[SizeOf[b]] : b \in Bodies} \cup DanglingSizes

Frame == [kind : {"size"}, size : Announcements]
           \cup [kind : {"data"}, msg : Message]

(* The header at the front of a direction is read: its ten characters are  *)
(* all there, in one write.                                                *)
SizeArrives(wire) == wire # <<>> /\ Head(wire).kind = "size"
DataArrives(wire) == wire # <<>> /\ Head(wire).kind = "data"

(* Mutant of ReadOutcomes: a text cut short is handled as a message.       *)
ReadOutcomesLenient(m, n) ==
  IF m.body \in Marked THEN {"exception"} ELSE {"message"}

(* What a reader makes of message m read into a buffer of n characters.    *)
(* "message": it is parsed and handled.  "exception": "####" is found in   *)
(* it, it is taken for a header and its digits do not convert to a number. *)
(* "assert": the text is cut short and does not parse.  When n exceeds the *)
(* text the rest of the buffer is uninitialised memory behind it: the      *)
(* parser stops at the end of the text, unless that memory holds "####".   *)
ReadOutcomes(m, n) ==
  CASE n < SizeOf[m.body] ->
         {"assert"} \cup (IF m.body \in Marked THEN {"exception"} ELSE {})
    [] n = SizeOf[m.body] ->
         IF m.body \in Marked THEN {"exception"} ELSE {"message"}
    [] OTHER ->
         IF m.body \in Marked THEN {"exception"} ELSE {"message", "exception"}

(* The process runs as long as no assert has failed: the handler installed *)
(* for SIGABRT returns, but abort() then ends the process all the same.    *)
Running == crash = "none"
Crash(why) == crash' = why

WireInit ==
  /\ toServer = <<>>
  /\ toClient = <<>>
  /\ connected = FALSE
  /\ crash = "none"

WireTypeOK ==
  /\ toServer \in Seq(Frame)
  /\ toClient \in Seq(Frame)
  /\ connected \in BOOLEAN
  /\ crash \in {"none", "size", "parse", "destructor", "memory", "range"}
=============================================================================
