------------------------------ MODULE PicoRecord ------------------------------
(***************************************************************************)
(* The records of the storage engine, pico/pico_record_deprecated.h: an    *)
(* array of characters cut into fields, and beside it strings that keep    *)
(* what was once read from a field.  DBRecord.h has the same text, without *)
(* the fields type, messageId, sequence and append.                        *)
(*                                                                         *)
(* As in Store, what is modelled is the source with one "//" taken off     *)
(* each line.  A marker (BEGKEY, CONKEY, 999999) is one character here.    *)
(* The functions of the fields of text (key, value, messageId) are the     *)
(* same but for the field.  Left out: offset_of_record, which no function  *)
(* of the class sets, and the functions that only print or return data_.   *)
(***************************************************************************)
EXTENDS Integers, Sequences, FiniteSetsExt

CONSTANTS
  Objects,      \* objects of the class
  TextFields,   \* fields of text
  Size,         \* Size[f]: characters of field f
  KeyTail,      \* characters of a key that removeTheKeyPart leaves
  Nul,          \* the character 0
  BEGKEY, CONKEY, NINES,   \* the markers
  Texts,        \* strings given to the functions that set a field
  Numbers,      \* sequence numbers, as their digits
  MaxCalls,     \* bound: calls of functions
  Unknown,      \* what a field was given is not known
  None          \* no object

Fields == TextFields \cup {"type", "sequence", "append"}

(* The characters there are: the markers', the texts' and the digits'.     *)
Characters ==
  {Nul, BEGKEY, CONKEY, NINES}
    \cup UNION {{t[i] : i \in DOMAIN t} : t \in Texts \cup Numbers}

ASSUME RecordAssumption ==
  /\ "key" \in TextFields /\ "value" \in TextFields
  /\ TextFields \cap {"type", "sequence", "append"} = {}
  /\ Nul \notin {BEGKEY, CONKEY, NINES}
  /\ Texts \cup Numbers \subseteq Seq(Characters)
  /\ Size \in [Fields -> Nat \ {0}]
  /\ KeyTail \in 1..Size["key"]
  /\ \A f \in {"type", "append"} : Size[f] = 1
  /\ MaxCalls \in Nat

VARIABLES
  data,      \* data[r][f]: the characters of field f
  shown,     \* shown[r][f]: the string kept of it, empty if none
  failed,    \* the object on which an assert has ended the process
  calls,     \* calls so far
  given,     \* not in the code: the text a field was last given
  held       \* not in the code: all that a field has held

vars == <<data, shown, failed, calls, given, held>>

Filled(c, n) == [i \in 1..n |-> c]
Blank == [f \in Fields |-> Filled(Nul, Size[f])]
Nothing == [f \in Fields |-> <<>>]

Init ==
  /\ data = [r \in Objects |-> Blank]
  /\ shown = [r \in Objects |-> Nothing]
  /\ failed = None
  /\ calls = 0
  /\ given = [r \in Objects |-> Nothing]
  /\ held = [r \in Objects |-> [f \in Fields |-> {}]]

-----------------------------------------------------------------------------
(* A string of C ends at the first 0.                                      *)
UntilNul(t) ==
  LET ends == {i \in 1..Len(t) : t[i] = Nul}
  IN IF ends = {} THEN t ELSE SubSeq(t, 1, Min(ends) - 1)

(* What a field of n characters holds of a text: as many of its characters *)
(* as it has place for, then zeros.                                        *)
(* Mutant of Stored: the rest of the field keeps what it held.             *)
StoredOver(t, old) ==
  LET s == UntilNul(t)
  IN [i \in 1..Len(old) |-> IF i <= Len(s) THEN s[i] ELSE old[i]]

Stored(t, old) ==
  LET s == UntilNul(t)
  IN [i \in 1..Len(old) |-> IF i <= Len(s) THEN s[i] ELSE Nul]

Cut(t, n) == LET s == UntilNul(t) IN SubSeq(s, 1, Min({n, Len(s)}))

KeysEqual(r, s) == data[r]["key"] = data[s]["key"]
ValuesEqual(r, s) == data[r]["value"] = data[s]["value"]
RecordsEqual(r, s) == ValuesEqual(r, s) /\ KeysEqual(r, s)

RecordEmpty(r) == data[r] = Blank
StartsWith(r, m) == data[r]["type"] = <<m>>
IsAddOn(r) == data[r]["append"] = <<NINES>>

-----------------------------------------------------------------------------
(* Every step is a call on an object r: it changes the fields of r, which  *)
(* were given these texts, and what r keeps of them.                       *)
Call(r, fields, texts, kept) ==
  /\ failed = None /\ calls < MaxCalls
  /\ calls' = calls + 1
  /\ data' = [data EXCEPT ![r] = fields]
  /\ given' = [given EXCEPT ![r] = texts]
  /\ shown' = [shown EXCEPT ![r] = kept]
  /\ held' = [held EXCEPT ![r] = [f \in Fields |-> @[f] \cup {fields[f]}]]
  /\ UNCHANGED failed

(* Another object takes the place of r: a copy of s, or of an object just  *)
(* made.  The copy constructor copies no string.                           *)
Construct(r, s) ==
  /\ failed = None /\ calls < MaxCalls
  /\ calls' = calls + 1
  /\ data' = [data EXCEPT ![r] = IF s = None THEN Blank ELSE data[s]]
  /\ given' = [given EXCEPT ![r] = IF s = None THEN Nothing ELSE given[s]]
  /\ shown' = [shown EXCEPT ![r] = Nothing]
  /\ held' = [held EXCEPT ![r] = [f \in Fields |-> {data'[r][f]}]]
  /\ UNCHANGED failed

(* operator=: the object keeps the strings it has.                         *)
(* Mutant of CopyOver: the strings are copied too.                         *)
CopyOverAll(r, s) == r # s /\ Call(r, data[s], given[s], shown[s])

CopyOver(r, s) == r # s /\ Call(r, data[s], given[s], shown[r])

(* clear: the characters, not the strings.                                 *)
Clear(r) == Call(r, Blank, Nothing, shown[r])

(* setTheKeyString and its like: what they add to is their own parameter,  *)
(* which has the name of the string of the object.                         *)
StringSet(kept, f, t) == kept

(* setTheKeyInData, setTheValueInData, setTheMessageIdInData.              *)
SetText(r, f, t) ==
  Call(r, [data[r] EXCEPT ![f] = Stored(t, @)], [given[r] EXCEPT ![f] = t],
       StringSet(shown[r], f, t))

(* The digits are added to those the string has.                           *)
SetSequence(r, digits) ==
  LET field == Stored(digits, data[r]["sequence"])
  IN Call(r, [data[r] EXCEPT !["sequence"] = field],
          [given[r] EXCEPT !["sequence"] = digits],
          [shown[r] EXCEPT !["sequence"] = @ \o UntilNul(field)])

(* getKeyAsString and its like: a field is read once, with its zeros.      *)
KeptOrRead(kept, field) == IF kept = <<>> THEN field ELSE kept

ShowText(r, f) ==
  Call(r, data[r], given[r],
       [shown[r] EXCEPT ![f] = KeptOrRead(@, data[r][f])])

(* getKeyTypeAsString: the type is read up to the first 0; an assert fails *)
(* if there is none.                                                       *)
ShowType(r) ==
  LET type == IF shown[r]["type"] = <<>> THEN UntilNul(data[r]["type"])
              ELSE shown[r]["type"]
  IN \/ /\ type # <<>>
        /\ Call(r, data[r], given[r], [shown[r] EXCEPT !["type"] = type])
     \/ /\ failed = None /\ type = <<>>
        /\ failed' = r
        /\ UNCHANGED <<data, shown, calls, given, held>>

(* setTheRecordTypeInData: its loop ends where it begins.                  *)
SetRecordType(r) == Call(r, data[r], given[r], shown[r])

(* addKeyMarkerToRecord, addConMarkerToFirstRecord.                        *)
(* Mutant of AddMarker: setTheRecordTypeInData is called.                  *)
AddMarkerNowhere(r, m) ==
  Call(r, data[r], [given[r] EXCEPT !["type"] = <<m>>], shown[r])

AddMarker(r, m) ==
  Call(r, [data[r] EXCEPT !["type"] = <<m>>], [given[r] EXCEPT !["type"] = <<m>>],
       shown[r])

AddAppendMarker(r) ==
  Call(r, [data[r] EXCEPT !["append"] = <<NINES>>],
       [given[r] EXCEPT !["append"] = <<NINES>>], shown[r])

RemoveAppendMarker(r) ==
  Call(r, [data[r] EXCEPT !["append"] = <<Nul>>],
       [given[r] EXCEPT !["append"] = <<>>], shown[r])

(* removeTheKeyPart: the loop goes up to the size of the key, not to its   *)
(* end, and the last characters stay.                                      *)
RemoveKeyPart(r) ==
  LET removed == Size["key"] - KeyTail
  IN Call(r, [data[r] EXCEPT !["key"] =
                [i \in DOMAIN @ |-> IF i <= removed THEN Nul ELSE @[i]]],
          [given[r] EXCEPT !["key"] = Unknown], shown[r])

(* replicateTheFirstRecordKeyToOtherRecords.                               *)
Replicate(first, r) ==
  /\ first # r
  /\ Call(r, [data[r] EXCEPT !["type"] = <<CONKEY>>, !["key"] = data[first]["key"]],
          [given[r] EXCEPT !["type"] = <<CONKEY>>, !["key"] = given[first]["key"]],
          shown[r])

Next ==
  \E r \in Objects :
    \/ \E s \in Objects \cup {None} : Construct(r, s)
    \/ \E s \in Objects : CopyOver(r, s) \/ Replicate(s, r)
    \/ Clear(r) \/ RemoveKeyPart(r)
    \/ \E f \in TextFields : ShowText(r, f) \/ \E t \in Texts : SetText(r, f, t)
    \/ \E n \in Numbers : SetSequence(r, n)
    \/ ShowType(r) \/ SetRecordType(r)
    \/ \E m \in {BEGKEY, CONKEY} : AddMarker(r, m)
    \/ AddAppendMarker(r) \/ RemoveAppendMarker(r)

Spec == Init /\ [][Next]_vars

-----------------------------------------------------------------------------
Same(r, s, f) == Cut(given[r][f], Size[f]) = Cut(given[s][f], Size[f])
NothingGiven(r) == \A f \in Fields : Cut(given[r][f], Size[f]) = <<>>

(* What the functions that compare and classify records answer is what the *)
(* records were last given: two are equal just when their keys and values  *)
(* begin with the same characters, as many as the fields hold; one is      *)
(* empty when it was given nothing, and of a type when it was given that   *)
(* marker.  However often they were set, copied and cleared before,        *)
(* nothing of an older and longer text is left                             *)
(* (pico_record_deprecated.h:77-86, 128-154, 277-324, 361-383, 457-480).   *)
AsGiven ==
  \A r \in Objects :
    /\ \A m \in {BEGKEY, CONKEY} : StartsWith(r, m) <=> given[r]["type"] = <<m>>
    /\ IsAddOn(r) <=> given[r]["append"] # <<>>
    /\ given[r]["key"] # Unknown =>
         /\ RecordEmpty(r) <=> NothingGiven(r)
         /\ \A s \in Objects :
              given[s]["key"] # Unknown =>
                (RecordsEqual(r, s) <=> Same(r, s, "key") /\ Same(r, s, "value"))

(* A text an object shows may be out of date, since it is read once: but   *)
(* it is one the object has held since it was made, never one of the       *)
(* object it was assigned from (lines 101-127, 185-233).                   *)
ShownWasHeld ==
  \A r \in Objects, f \in TextFields :
    shown[r][f] # <<>> => shown[r][f] \in held[r][f]

(* The assert on the type fails only for a record that has no marker: none *)
(* was given to it, or it was cleared since (lines 163-184, 554-594).      *)
FailsOnlyUntyped ==
  failed # None => given[failed]["type"] = <<>>
=============================================================================
