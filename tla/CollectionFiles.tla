---------------------------- MODULE CollectionFiles ----------------------------
(***************************************************************************)
(* The files of the collections, pico/pico_collection.h, and the offset at *)
(* which the next record is written, pico/OffsetManager.h: one static      *)
(* variable, whatever the number of collections.  Store adds the indexes   *)
(* to them; it says how the source is read.                                *)
(*                                                                         *)
(* A record is the hash of its key, an offset counts records.              *)
(***************************************************************************)
EXTENDS Integers, Sequences, SequencesExt

CONSTANTS
  Collections,
  Keys,        \* hashes of keys
  NoKey,       \* hash of the key of a record of zeros
  Capacity,    \* bound: records the file of a collection may hold
  NoFile       \* the file does not exist

ASSUME FilesAssumption ==
  /\ Keys \subseteq Int /\ NoKey \in Int
  /\ Capacity \in [Collections -> Nat]

VARIABLES
  files,     \* files[c]: the records of the file, NoFile if there is none
  open,      \* collections there is an object of
  offset,    \* OffsetManager::offset
  writers    \* not in the code: collections that have moved the offset

fileVars == <<files, open, offset, writers>>

Records == Keys \cup {NoKey}

FilesInit ==
  /\ files = [c \in Collections |-> NoFile]
  /\ open = {}
  /\ offset = -1
  /\ writers = {}

-----------------------------------------------------------------------------
(* getInitialOffset: the size of the file.                                 *)
InitialOffset(records) == Len(records)

(* getEndOfFileOffset: that, until a first offset is stored, by whatever   *)
(* collection.                                                             *)
EndOfFile(records) == IF offset = -1 THEN InitialOffset(records) ELSE offset

(* A record written at an offset: what lies between the end of the file    *)
(* and it becomes zeros.                                                   *)
Written(records, pos, k) ==
  [i \in 1..(IF pos < Len(records) THEN Len(records) ELSE pos + 1) |->
     CASE i = pos + 1 -> k
       [] i # pos + 1 /\ i <= Len(records) -> records[i]
       [] OTHER -> NoKey]

(* Mutant of NextOffset: it stays where the record was written.            *)
NextOffsetStays(pos) == pos

NextOffset(pos) == pos + 1

(* The constructor of a collection makes its file.                         *)
OpenFile(c) ==
  /\ c \notin open
  /\ open' = open \cup {c}
  /\ files' = [files EXCEPT ![c] = IF @ = NoFile THEN <<>> ELSE @]
  /\ UNCHANGED <<offset, writers>>

WriteRecord(c, k) ==
  /\ c \in open
  /\ files[c] # NoFile
  /\ LET pos == EndOfFile(files[c])
     IN /\ pos < Capacity[c]
        /\ files' = [files EXCEPT ![c] = Written(@, pos, k)]
        /\ offset' = NextOffset(pos)
  /\ writers' = writers \cup {c}
  /\ UNCHANGED open

(* dropCollection: the offset stays.                                       *)
DropFile(c) ==
  /\ c \in open
  /\ files' = [files EXCEPT ![c] = NoFile]
  /\ UNCHANGED <<open, offset, writers>>

(* The process ends and is started again.                                  *)
ForgetFiles ==
  /\ open' = {}
  /\ offset' = -1
  /\ writers' = {}
  /\ UNCHANGED files

FilesNext ==
  \/ \E c \in Collections :
       OpenFile(c) \/ DropFile(c) \/ \E k \in Keys : WriteRecord(c, k)
  \/ ForgetFiles

FilesSpec == FilesInit /\ [][FilesNext]_fileVars

-----------------------------------------------------------------------------
(* No other collection has moved the offset since the process started.     *)
Alone(c) == writers \subseteq {c}

(* "this appends to the end of file" (pico_collection.h:430,433): what a   *)
(* file holds stays, and a record comes after it, unless another           *)
(* collection has moved the offset they share.                             *)
AppendsAtEnd ==
  [][\A c \in Collections :
       (files[c] # NoFile /\ files'[c] # NoFile /\ Alone(c)) =>
          /\ IsPrefix(files[c], files'[c])
          /\ Len(files'[c]) <= Len(files[c]) + 1]_fileVars
=============================================================================
