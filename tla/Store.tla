--------------------------------- MODULE Store ---------------------------------
(***************************************************************************)
(* Collections of records, each a file and an index of it:                 *)
(* pico/pico_collection.h, RecordInserter.h, OffsetManager.h.  The offset  *)
(* at which the next record is written is one static variable, whatever    *)
(* the number of collections.                                              *)
(*                                                                         *)
(* Of these files only OffsetManager.h is compiled today.  The others are  *)
(* in the source as comments: what is modelled is their text with one "//" *)
(* taken off each line, so that what is commented out twice (the addition  *)
(* of an appended record to the index, the work of the deletion thread) is *)
(* not there.  The operations are those of pico_collection; the replies    *)
(* made of their results are left to RequestProcessor.                     *)
(*                                                                         *)
(* A record is the hash of its key, an offset counts records.  -1, the key *)
(* of the root, is taken to be no hash.                                    *)
(***************************************************************************)
EXTENDS RecordIndex, CollectionFiles

CONSTANT Unset   \* bound: what memory that is not set may hold, a set of hashes

ASSUME StoreAssumption == RootKey \notin Records /\ Unset \subseteq Records

VARIABLE index   \* index[c]: the tree, NoTree while the collection is not open

storeVars == <<fileVars, index>>

NoTree == [n \in {} |-> Node(RootKey)]

StoreInit ==
  /\ FilesInit
  /\ index = [c \in Collections |-> NoTree]

IsOpen(c) == c \in open

-----------------------------------------------------------------------------
(* retrieve: beyond the end of the file nothing is read and the record is  *)
(* whatever the memory of that call held, memory[pos].                     *)
Retrieved(records, pos, memory) ==
  IF pos < Len(records) THEN records[pos + 1] ELSE memory[pos]

(* read_all_messages_records: up to the offset where the next is written.  *)
AllRecords(records, end, memory) ==
  [i \in 0..(end - 1) |-> Retrieved(records, i, memory)]

(* build_tree: the records read, in their order.                           *)
(* Mutant of Built: the first record is not read.                          *)
BuiltFromSecond(all, end) ==
  LET upTo[n \in 0..end] ==
        IF n <= 1 THEN EmptyTree ELSE Insert(all[n - 1], n - 1, upTo[n - 1])
  IN upTo[end]

(* Mutant of Built: the offset of a record is that of the next one.        *)
BuiltShifted(all, end) ==
  LET upTo[n \in 0..end] ==
        IF n = 0 THEN EmptyTree ELSE Insert(all[n - 1], n, upTo[n - 1])
  IN upTo[end]

Built(all, end) ==
  LET upTo[n \in 0..end] ==
        IF n = 0 THEN EmptyTree ELSE Insert(all[n - 1], n - 1, upTo[n - 1])
  IN upTo[end]

(* The constructor of pico_collection.                                     *)
Open(c) ==
  /\ OpenFile(c)
  /\ LET records == files'[c]
         end     == EndOfFile(records)
     IN \E memory \in [Len(records)..(end - 1) -> Unset] :
          index' = [index EXCEPT ![c] =
                      Built(AllRecords(records, end, memory), end)]

(* The process ends, by an assert or by its operator, and is started again.*)
ProcessEnds ==
  /\ ForgetFiles
  /\ index' = [c \in Collections |-> NoTree]

RecordExists(c, k) == Search(k, index[c]) # {}

(* insert of a record that RecordInserter has not found in the index: it   *)
(* is written and not added there.  The file is opened for reading and     *)
(* writing; an assert fails if it has been dropped.                        *)
InsertRecord(c, k) ==
  /\ IsOpen(c)
  /\ ~RecordExists(c, k)
  /\ \/ files[c] = NoFile /\ ProcessEnds
     \/ WriteRecord(c, k) /\ UNCHANGED index

(* retrieveOneMessage: the records are read and no message is made of them:*)
(* the message returned is a null pointer.                                 *)
(* getMessageByKey: an empty collection gives a sentence that does not     *)
(* parse, a record not found fails an assert, and the message of one found *)
(* is that null pointer: whatever the key, the process ends, or does       *)
(* nothing more until it is ended, when the handler of SIGSEGV returns.    *)
GetRecord(c) ==
  /\ IsOpen(c)
  /\ ProcessEnds

(* deleteRecord: the key leaves the index.  The task it gives the deletion *)
(* thread leaves the file as it is.                                        *)
DeleteRecord(c, k) ==
  /\ IsOpen(c)
  /\ index' = [index EXCEPT ![c] = Removed(k, @)]
  /\ UNCHANGED fileVars

(* dropCollection: the index stays too.                                    *)
DropCollection(c) == DropFile(c) /\ UNCHANGED index

StoreNext ==
  \/ \E c \in Collections :
       \/ Open(c)
       \/ GetRecord(c)
       \/ DropCollection(c)
       \/ \E k \in Keys : InsertRecord(c, k) \/ DeleteRecord(c, k)
  \/ ProcessEnds

StoreSpec == StoreInit /\ [][StoreNext]_storeVars

-----------------------------------------------------------------------------
(* The descent of search finds every key the tree holds, after any         *)
(* insertions and deletions, copies included (pico_index.h:51-79,178-254). *)
SearchFinds ==
  \A c \in Collections : IsOpen(c) =>
    \A k \in Records : (Search(k, index[c]) # {}) = (CopiesOf(k, index[c]) > 0)

(* The offset of an index entry is that of a record of its key, unless a   *)
(* deletion has moved the key to a node that keeps the deleted record's    *)
(* offset (pico_index.h:63-65).                                            *)
EntriesPointToKeys ==
  \A c \in Collections :
    (IsOpen(c) /\ files[c] # NoFile /\ Alone(c)) =>
       \A n \in DOMAIN index[c] :
         (index[c][n].key # RootKey /\ index[c][n].key = index[c][n].origin) =>
            /\ n < Len(files[c])
            /\ files[c][n + 1] = index[c][n].key

(* The index of a collection opened before any record is written is that   *)
(* of its file: an entry for each record of it and no other node but the   *)
(* root (pico_collection.h:53-81,314-343).  The constructor's assert on    *)
(* the size of the index is the second part.  It says nothing of what the  *)
(* file should hold: a deletion never takes a record out of it, so that    *)
(* the records "delete this record all over the file" (103-108) is about   *)
(* are in the index again.                                                 *)
OpenedIndexesFile ==
  [][\A c \in Collections :
       (~IsOpen(c) /\ IsOpen(c)' /\ offset = -1) =>
          /\ \A k \in Records :
               CopiesOf(k, index'[c]) =
                 Cardinality({i \in DOMAIN files'[c] : files'[c][i] = k})
          /\ TreeSize(index'[c]) = Len(files'[c]) + 1]_storeVars

-----------------------------------------------------------------------------
(* The index implements a bag of keys.                                     *)
KeysIn == [c \in Collections |->
             [k \in Records |-> CopiesOf(k, index[c])]]

Abstract == INSTANCE KeyBag WITH Collections <- Collections, Keys <- Records,
                                 keys <- KeysIn

(* A deletion takes one copy of its key out of the index, or nothing when  *)
(* there is none, and leaves every other key as it was.                    *)
IndexIsABag == Abstract!Spec
=============================================================================
