# PicoDB: specifications and proofs

PicoDB is the start of a networked key-value store in C++: one process that runs
a server, a driver connected to it through a TCP socket on the local machine,
and client programs that call the driver. At this commit the server echoes each
request as its reply: the call of the request processor is commented out
(`pico/pico_session.h:194`), the storage calls inside the request processor are,
and so are the storage files (`pico_collection.h`, `pico_index.h`, ... are
comments from the first line to the last; `collection_manager.h` is missing).
What the program does today is move requests and replies, which is the core of
these specifications; the request processor and the storage engine are specified
beside it, as they are written. Paths below are relative to `src/PicoDB/`.

## The system

`main` (`MutilThreadedServerClient.cpp`) starts three threads, and the driver a
fourth.

| part | state | operations | interacts by |
|---|---|---|---|
| Driver, `pico/pico_client.h` | request queue, response queue, socket, condition variable | callers: `insert`, `update`, `get`, `deleteRecord`, `createCollection`, `deleteCollection`, then `getTheResponseOfRequest`; IO thread: `start_connect`, `start`, `writeOneBuffer`, `readOneBuffer`, `queueTheResponse`; notifier thread: `notifierService` | the two queues between callers and IO thread, the socket with the session, `notify_all` on the condition variable |
| Session, `pico/pico_session.h` | reply queue, socket | `start`, `readOneBuffer`, `processDataFromOtherSide` (the reply is the request itself), `writeOneBuffer` | the socket |
| Acceptor, `pico/pico_server.h` | acceptor, one socket object | `acceptConnection`, `initClientHandler` | creates the session and runs it inside the accept handler |
| `pico/ConcurrentVector.h` | a vector and a mutex | `push_back`, `pop`, `peek` (with the mutex), `remove` (without) | shared by callers and IO thread |
| Messages, `pico/pico_message.h`, `pico/pico_record.h`, `pico/pico_utils.h` | a text and an id | building, parsing, the size header, recognising a header | |
| Client programs, `pico/PonocoClient.h` | | loops of driver operations, in one or more threads | calls the driver |
| Thread pool, `pico/ThreadPool.h`, `ThreadWorker.h` | task queue, workers | `submitTask`, `runIndefinitely`, `shutDown`, `shutDownAfterWorkers` | compiled, not called by `main` |
| Chat server, `../chat_server.h`, `chat_message.h` | the room's participants and recent messages; per session a queue of messages to write | `join`, `leave`, `deliver`, `start`, `handle_read_header`, `handle_read_body`, `handle_write`, `handle_accept` | callbacks of one `io_service`; compiled, not called by `main` |
| Asynchronous client, `pico/AsyncTcpClient.h` | socket, deadline, heartbeat timer, input buffer, `stopped_` | `start`, `stop`, `handle_connect`, `handle_read`, `handle_write`, `start_write`, `check_deadline` | callbacks of one `io_service`; included by `pico_client.h`, not used by it |
| Request processor, `pico/request_processor.h` | none that is kept | `processRequest` and one function per command | called by the session in a comment; makes replies with `pico_message` |
| Storage, `pico/pico_collection.h`, `pico_index.h`, `RecordInserter.h`, `DeleteTaskRunnable.h` (comments), `OffsetManager.h` | per collection a file and a search tree; one static offset for all | opening, `insert`, `ifRecordExists`, `getMessageByKey`, `deleteRecord`, `dropCollection` | collections share the offset |
| Records, `pico/pico_record_deprecated.h`, `DBRecord.h` (comments) | an array of characters cut into fields, strings kept of what was read | setters, getters, markers, copies, comparisons | |
| Others | | object pool, counters, logging | compiled or present, not called |

What is hard in it:

* threads share the queues; the tests of a queue, and `remove`, take no lock;
* a notification can come before the wait it is meant to end;
* neither side of the socket checks what kind of data it reads nor whose answer
  it is: both rely on the two loops alternating;
* queues are used newest first, and calls can time out and leave their request
  or their answer behind;
* sizes pass through a header of ten characters, made on one side from memory
  already freed;
* exceptions end a loop and leave the other threads running; asserts end the
  process;
* the pool's threads are started before the members they read are set, test
  their queue outside the lock they wait with, and share their tasks;
* the chat room delivers messages to sessions whose earlier writes are under way,
  and a session's reads and writes fail separately;
* the accept handler runs a session for as long as it lives, a read returns what
  has arrived, and a client may leave at any moment;
* variables of an inner block hide those of the same name that are returned;
* the index and the file of a collection are not changed together, the offset at
  which collections write is shared by all of them, and a record keeps strings of
  what its fields once held;
* the asynchronous client's deadline passes while the operation it was set for
  completes, and closing the socket is how one actor tells the others.

`PROJECT.json` lists these hazards with their lines and the properties that
watch them.

## Modules

| module | what it models |
|---|---|
| `PicoWire` | messages, the two directions of the socket, the header and its width (`HeaderDigits`, `HeaderSize`), what a reader makes of a text read with some size (`ReadOutcomes`), how the process ends (`crash`) |
| `ConcurrentVector` | the vector's operations on a sequence; `remove` in two parts, with all the results a race can give it |
| `PonocoDriver` | IO thread, notifier and callers |
| `PicoSession` | the server's thread |
| `PicoServer` | the accept loop, the session's reads on a stream of which any part has arrived, and several clients that connect, send and leave |
| `PicoMessage` | a message, its text, how it is made from fields and from a text |
| `RequestProcessor` | what each operation sends, what the server replies with and without the request processor, what the caller gets |
| `RecordIndex` | the search tree, each node with the sets of nodes on its two sides: insertion, search, deletion |
| `PointerIndex` | the same operations on pointers, as the code has them, for TLC alone |
| `CollectionFiles` | the files of the collections, the offset they share, which of them moved it |
| `Store` | collections: `CollectionFiles` with an index for each of them; uses `RecordIndex` |
| `KeyBag` | the abstract specification of an index: a bag of keys |
| `PicoRecord` | records: fields, markers, kept strings |
| `PicoSystem` | the composition: one process, one connection; the properties |
| `RequestResponse` | the abstract specification: what a caller may rely on |
| `MCPicoSystem`, `MCRequestProcessor`, `MCStore`, `MCPicoRecord` | values for TLC |
| `ThreadPool` | the workers and the pool's owner; uses `ConcurrentVector` |
| `ChatServer` | the room and its sessions, one action per handler |
| `AsyncTcpClient` | the client's actors, one action per handler, its network and its clock |
| `ConcurrentVectorProofs`, `PicoSystemProofs`, `PicoServerProofs`, `ThreadPoolProofs`, `ChatServerProofs`, `AsyncTcpClientProofs`, `RequestProcessorProofs`, `StorageProofs` | the theorems |

**Driver.** `io` is the place in the IO thread's loop: `connecting` (until
`start` is called), `check` and `block` (the test of the queue, and the moment
between it and the wait), `waiting`, `pop`, `sendSize` and `sendData` (the two
writes), `readSize` and `readData` (the two reads), `push` (the response) and
`ended` (after an exception or a failed connection; the socket stays open). A
caller's `phase` is `idle`, `notify` (request pushed, not yet notified), `poll`
(the loop of `getTheResponseOfRequest`), `found` (its response is on top) or
`erase` (`remove` has found its position). `TimeOut` needs `stalled`: both
readings of the clock are taken before the loop, so the time waited is the time
between them, and the timeout is reached only by a thread that was descheduled
that long between the two lines. `peek` gives up when the mutex is taken
(`QueueBusyFor`), so that a stalled caller can time out though its response is
on top.

**Session.** The accept handler starts it; it reads a header, a text, queues
the text as the reply, pops the newest reply, writes header and text. An
exception ends it, and its destructor's assert the process.

**ConcurrentVector.** `push_back`, `pop` and `peek` hold the mutex and are one
step. `remove` is a search (`RemoveFind`) and an erase (`RemoveErase`). When
the length has changed in between, the erase moves the elements up to the old
end and leaves an empty pointer there, and the decrement is applied to the old
length, to the new one, or is lost. The loop goes on behind what it has erased
(`SearchFrom`); while another `remove` moves elements it can miss one, or look
beyond the end, and `at(i)` throws in the caller's thread (`range`). A length below
zero stands for the memory error it is.

**Server.** `PicoSystem` has one connection whose reads return whole writes, with
everything the threads of the driver do; `PicoServer` has the rest of what the
server meets. A header is two parts (the mark `####` and the digits), a text is
`TextParts` parts, and `Read` takes from the served client's stream as many parts
as it pleases up to those asked for, whatever the boundaries of the writes. The
rest of the buffer is recycled memory, which may hold anything, the end of an older
text too; and the JSON parser ignores what follows an object. So a buffer that holds
neither a whole header nor a whole text may be any of several things: a header of some
size (`SizeAfter`), if it has a mark or is short and nothing in it can be no digit; a
message (`MessagesIn`), the client's own, if what is missing of it was still in memory
or does not matter, or `Stray`, any other; or it ends in an exception (`Garbled`). A
message taken from it is answered like any other. `Accept` has no counterpart that returns: the session ends only by an exception, in whose course
its destructor's assert ends the process. A client that has left gives the end
of the stream, after all or nothing of what it wrote; a write to it may throw.

**Messages and requests.** A text is a function from the names it holds to their
values. `processing` tells whether the session calls the request processor: with
`FALSE` the model is today's program, with `TRUE` the one in the comment.
`Call` sends the message of an operation, `ForeignCall` a text that only another
client sends, `Serve` is `processDataFromOtherSide` with `processRequest`, and
`Receive` the caller's end. `success` is the uninitialised `resultOfOperation`.
`createCollection` and `deleteCollection` leave the name they are given unused
(`pico/pico_client.h:423,446`), and the reply to their success has an empty key
(`pico/request_processor.h:131,158`, a finding): `RequestOf` and `CollectionReply` show
it, and since that is one assignment each no property repeats it.

**Storage.** What is modelled is the text of the commented files with one `//` taken off
each line; what is then still a comment is not there. So an insert writes
the file and not the index, a deletion changes the index and not the file (its
task is empty), and `getMessageByKey` never returns (`GetRecord`). A record is the
hash of its key; `retrieve` beyond the end of the file gives what the memory of that
call held, any of the keys in `Unset` and another at each call (`AllRecords`; `Built` makes
the tree of what was read). A tree node's `origin` is not in the code: it tells for which key its offset was
stored. `ProcessEnds` is also the restart: files stay, all else goes. What happens to
the files is in `CollectionFiles`; each action of `Store` is one of `CollectionFiles` with
what becomes of the index, or leaves the files as they are.

The code's functions on the tree descend from child to child. `RecordIndex` says the
same without recursion, so that it can be proved about: a node's pointer is the set of all
nodes it leads to, and a node is on the way of a descent (`OnWay`) if each node above it
sends the descent to its side. `PointerIndex` has the recursive functions on pointers, and
the run `Store` checks in every state it reaches that insertion, search and deletion do the
same in both (`PointersAgree`).

**Records.** Each function is one call on an object; `given` and `held` are not in
the code: they remember what a field was given and has held, for the
properties. A parameter that hides the member of the same name leaves the member
as it is (`StringSet`).

**Thread pool.** `worker[w]` is the place in `runIndefinitely`: `top` (the stop
flag), `drain` (the test of the queue), `pop`, `run`, `free` (between that test
and the wait), `waiting`, `ended`. The owner is `runThreadPool` or a program like
it: it creates the workers, submits tasks, and joins the pool with or without
`shutDown()`. The constructor of a worker starts the thread before it sets the
stop flag and the pointer to the queue: with `StartsEarly` the thread may read
a flag of any value, or the null pointer (`faulted`: the handler of SIGSEGV
returns to the instruction, for ever). The test of the queue is unlocked; it
reads one of two pointers another thread may be changing, so it sees the queue
before or after that change. A task may throw: `RunTask` has both ends.

**Chat server.** A message is its rank in the room's sequence of deliveries, so
what a session wrote is a sequence of numbers. An `async_write` under way is
`writing[s]`, an `async_read` `reading[s]`; either may end in an error at any time. A
message announced longer than `max_body_length` is a failed read. A session
that has left the room after a failed write still reads, and what it reads is
still delivered to the others, as in the code.

**Asynchronous client.** Each actor of the diagram in the file's header is a chain
of operations: `op[a]` is `pending`, then `ok` or `failed` until its handler has
run. Closing the socket and cancelling a timer make pending operations fail; they
do not take back a handler that is ready, which is where the races are: a connect
or a read that succeeded can be handled after the deadline has closed the
socket, and a deadline moved after its timer has expired. Of time only the side
of the deadline is kept. An operation begun on a closed socket fails at once, and
a read for which the buffer holds a message succeeds at once, as in the library.

**Abstractions.**

* A text is a model value with a size and the fact whether it contains `####`.
  A message id is the caller and the rank of its call; in the code it is a
  random number of 32 digits, taken as unique.
* In `PicoSystem` one read returns one write, as it does on a local socket in
  practice. In `PicoServer` it returns any part of what has arrived:
  `pico/pico_session.h:89` says "we read until the whole message is read", and
  the code reads once.
* The session's reply header is built from the characters of a destroyed
  string: it announces the right size or one of `DanglingSizes`.
* A buffer longer than its text ends in uninitialised memory. The JSON parser
  stops at the end of the text, unless that memory contains `####`. In `PicoSystem`
  a text cut by its header does not parse; that memory may complete it is in
  `PicoServer`.
* `raise(SIGABRT)` in the driver runs the installed handler, which returns, so
  the process goes on; a failed assert ends it, handler or not.
* The steps of one thread between two accesses to shared state are one action.
* Definitions called "Mutant of ..." model no code: each is a plausible mistake in the
  definition after it, kept to show that a property notices it.

**Bounds.** `Callers` and `MaxCalls` bound the calls. One request is between the
two sides at a time, so the frames in a direction are at most two and need no bound
(this is `LockStep`). `MaxTasks` and `MaxMessages` bound tasks and messages, `MaxLines` the messages
one read of the asynchronous client brings. `SizeLimit` is 10 instead of 10^6: what matters is the
side of the limit a size is on, and that a size beyond is announced smaller.
`PicoServer`: `MaxRequests`, `TextParts` (three, more than a header, so that a read
for a header may fall inside a text and a size for a text may take less or more
than what is there) and `GarbageSizes` (nothing, too few parts, enough). `RequestProcessor`:
the finite set of ids. `Store`: `Capacity`, the records of a file: four
in one collection, enough for a node with two subtrees whose least key is two
steps down or a copy of the node's own, one in the other, enough to move the
offset; `Unset`, what unset memory may hold: zeros or a key. `PicoRecord`: `MaxCalls`, five calls: set, read, assign, set again, read
again.

## Runs

| run | module | instance | shows |
|---|---|---|---|
| `OneCaller` | `MCPicoSystem` | 1 caller, 3 calls, timeouts, all kinds of texts, wrong headers, a server that may be absent; fair | types and set pointers, the two sides in step, at most one execution, no answer lost; every request queued is processed, also when its caller is gone and its notification was lost; every call returns as long as none timed out; no text is executed that was not received whole, and the process dies only of the causes `CrashCauses` names. Three calls: an older request below a newer one, an old answer above a new one |
| `TwoCallers` | `MCPicoSystem` | 2 callers, 2 calls each, timeouts | the promise of `RequestResponse`, what the race in `remove` leaves intact: only one's own executed call is answered |
| `TwoCallersLoseAnswer` | `MCPicoSystem` | 2 callers, 1 call each | violation: one caller's unlocked `remove` drops the other's answer, which the IO thread pushes meanwhile |
| `LateAnswerBlocks` | `MCPicoSystem` | 1 caller, 2 calls, timeouts, fair | violation: a late answer hides the next one for ever, and the timeout is never reached |
| `Server` | `PicoServer` | 2 clients, 2 requests each, texts of 3 parts, fair server | as long as every read returns what it asked for, every client gets the answers to its own requests in order; the first client is the only one ever served; the process dies only of a cut read or of the client's leaving; otherwise every request of the served client is answered. After a cut nothing is promised of the answers: a `Stray` message may be among them, and both sides may wait for the other |
| `Processing` | `MCRequestProcessor` | all operations with 2 keys, values and names, 2 ids, other clients' texts; fair | a reply reaches the call it belongs to, unchanged while the server echoes; with the request processor only `delete`, `update` and the two operations on collections survive; every call returns unless the process ends |
| `Store` | `MCStore` | 2 collections of 4 and 1 records, 3 keys, restarts | the search finds every key in the tree after any deletions; the tree's operations are those on the code's pointers; the index is a bag of keys (`KeyBag`); entries point to their records unless a deletion moved the key; a file changes only at its end while no other collection has moved the offset; the index a collection is opened with is that of its file, each record as often as it is there, those deleted from an earlier index too |
| `Records` | `MCPicoRecord` | 2 records, 4 texts, 5 calls | what comparisons and markers answer is what was last given; a kept string may be old but is the record's own; only an unmarked record fails the assert |
| `Pool` | `ThreadPool` | 2 workers, 3 tasks (as in `runThreadPool`), early starts, shut down or not, fair | no task is lost or run twice; a complete worker stays until `shutDown()`; a worker that has not gone to wait empties the queue, notified or not |
| `PoolStaysUp` | `ThreadPool` | 2 workers, 1 task, fair | violation: a worker busy when `shutDown()` notifies it goes to wait and is joined for ever |
| `Chat` | `ChatServer` | 2 sessions, 3 messages, 2 kept, fair | a session writes an interval of the room's messages without gap or repetition, up to the last while it is in the room; one write at a time; what is delivered is written unless a write fails. Three messages with two kept: one is dropped, a session may join before or after |
| `AsyncClient` | `AsyncTcpClient` | 2 endpoints, 2 messages per read, fair | no actor dies or is doubled, nothing is awaited without a deadline, every connect and read ends though the other side is silent, a stopped client leaves nothing to wait for. Two endpoints: one that fails and one after it; two messages: one in the buffer when the socket is closed |

The three violations are findings of `PROJECT.json`, which has three more without a run
of their own: the success that is not answered (`pico/request_processor.h:131`), the
deletion that leaves the file as it is (`pico/pico_collection.h:116`, against the comment
of `deleteRecord`), and the record written over after another collection has moved the
offset (`pico/OffsetManager.h:31`, against "this appends to the end of file"). Of the last
two the properties of `Store` say what does hold: the index is the file's, and a file
only grows as long as nobody else has moved the offset (`Alone`). Dropping `Alone(c)` from
`AppendsAtEnd` gives the counterexample.

What the properties of `Store` and `Records` do not say: an entry whose key a deletion has moved
keeps the deleted record's offset, so `EntriesPointToKeys` is about the others; `KeyBag` has
no step for an insertion, since none reaches the index; and `FailsOnlyUntyped` does not
count a type that was set by `setTheRecordTypeInData`, whose loop never runs.

`CHECK_DEADLOCK FALSE` is set where the process may end (`crash`), where the pool
may have been joined, where all chat sessions may have ended, where the
asynchronous client may have stopped, where the requests, ids or calls of the bound
are used up, and in `TwoCallers`, whose callers finish. In `LateAnswerBlocks` a
waiting IO thread can always be woken without cause, and in `Store` the process can
always end.

**Fairness.** Weak fairness of the server thread, the IO thread, the notifier
and each caller's thread: each runs in a loop without conditions of its own and
is scheduled by the operating system. No fairness for beginning a call, for a
spurious wakeup, nor between the outcomes of an action. In the pool, of the owner
and of each worker (a task comes to its end); in `PicoServer` of the server's thread
alone, so no client has to write, and in `RequestProcessor` of the reply's way; in the chat server, of the end of a
write under way: a connected client takes what is sent, or the write fails. In the
asynchronous client, of each handler, of the deadline actor's timer, and of time
while a connect or a read is pending; nothing is assumed of the network, nor that
a deadline passes which is moved again and again.

## Proofs

The theorems on the driver and the session hold for any set of callers (also
infinite), any number of calls, any texts, sizes and header width, with or
without timeouts and failing connections. Their assumptions are
`WireAssumption`, `NoMessageAssumption` and `DriverAssumption`: the types of
the constants, that the two empty pointers are no message and no id, and that
`SizeLimit` is at least 10, a header having room for one digit.

* `TypeCorrect`: `TypeOK` always holds. `TypeOK` is inductive: beside the
  types it has `PointersSet`, which says at which places of the loops `sending`,
  `received`, `replying` and a caller's `request` are set. The IO thread's `pop`
  comes after a test of the queue in another step; that it never finds the queue
  empty is part of this invariant. It rests on the lemmas of
  `ConcurrentVectorProofs` on what the vector's operations return.
* `KeepStep`: `LockStep` always holds. It is inductive together with `TypeOK`.
  It names, for each place of the IO thread, the frames in both directions, the
  place of the session and its queue; without the exact frames it would not be
  preserved, since nothing in the code checks them. The proof goes through the
  actions of the two sides; `LockStepCases` splits it by the place of the IO
  thread.
* `NeverWaits`: `SessionNeverWaits`, since the session looks at its queue only
  in `ReplyPrepared`.
* `ProcessedOnce`: `AtMostOnce` always holds. The invariant is `Accounts`, together
  with the two above. `Fresh` follows a request: while it is queued, or the IO
  thread has it and the session has not read it (`Undelivered`, which needs the exact
  frames of `LockStep`), it is in one place and was not executed. `Done`: what
  the IO thread brings back, and every id among the responses and every
  caller that has found its own, is of an executed call. `CallsInOrder`: a
  caller's calls are made one after the other. `ErasedKeeps` says that a
  disturbed `remove` leaves only elements that were there.
* `PromiseKept`: `Spec => Promise`, that is, `PicoSystem` implements
  `RequestResponse`. Pushing a request is `Call`, the session's reading it is
  `Execute`, both ends of `remove` are `Return` and a timeout is `GiveUp`; every
  other step changes neither `outcome` nor `executions`. `FoundDone` gives the
  guard of `Return`, `CallsInOrder` that of `Call`, `Fresh` that of `Execute`.
* `ExecutedWhole` (`OnlyWholeTextsExecuted`) and `DiesOnlyByCause` (`CrashCauses`). The
  inductive invariant is `Causes`. Beside the two it says that the session reads the
  request with the size of its own header, and that what it has handed on was whole
  (`HeadersRight`); that a request waiting for the session is the one its caller made
  (`KnownTexts`), which connects the text executed with the caller's; and that
  the position a `remove` has found is in the vector, and with one caller still in it
  when it erases (`RemovalSound`). What is needed of the recursive function
  `HeaderDigits` is proved for every size by a least counterexample (`LeastNatural`,
  from the well-foundedness of the natural numbers): a header announces a size below
  the limit, and a size that is below it unchanged.
* `OneCallersAnswerKept`: `OneCaller => (Spec => []NoAnswerLost)`. The code needs the
  hypothesis: for two callers the property is false, as the run
  `TwoCallersLoseAnswer` shows. `NoAnswerLost` is inductive together with `TypeOK` and
  `LockStep`: only the caller itself removes responses, so that between the two
  parts of its `remove` the queue can only grow (`KeepsHands`).
* `LockKeepsAnswers`: `Spec /\ [][RemovalHoldsLock]_vars => []NoAnswerLost`, for any number
  of callers. `RemovalHoldsLock` says of a step that nothing but a `remove` itself changes
  the responses while it is under way: nothing is pushed and no other `remove` begins,
  which is what the mutex of the other operations would give. So the missing lock is the only cause of the loss the run
  `TwoCallersLoseAnswer` shows. The invariant `RemovalsWhole` says that a `remove` finds the
  responses as it has read them, its own at the position it found; then it takes away that
  one alone (`WholeErase`). `LockKeepsMemory`: under the same condition the length never
  goes below zero and no search goes beyond the end. The condition is not true of the code; that it excludes neither the
  calls nor the removals of several callers was checked with TLC on the instance of
  `TwoCallers`, restricted to steps that satisfy it.
* `ServerTypeCorrect`, `ClientIsKept` (`ServedClientKept`), `AnswersAlwaysMatch`
  (`AnswersMatch`) and `DiesOnlySo` (`DiesOnlyByCutOrDeparture`), for any clients,
  requests, parts of a text and contents of memory, from `ServerAssumption`;
  `AnswersMatch` says something of a run up to its first cut read only.
  `Typed` adds to the types that the thread serves a client once it has left
  `accepting`. `Matching` counts, as long as no read was cut: while something of a
  client is unread it has one answer fewer than requests; what is unread ends with
  the text of its last request; and the reply under way is the missing one. `Uncut` says that as long as no read
  was cut and the client stays, what is asked for is what comes next in the
  stream, header or text.
* `PoolTypeCorrect` and `NoTaskLostOrRunTwice` (`TasksInOnePlace`), for any
  number of workers and tasks, from `PoolAssumption`. The inductive invariant
  adds `Unborn`: the workers that are still to be created have no thread, so none
  that runs a task is created over.
* `BuiltWorkersStay` (`WorkersStay`, an action property): a worker whose constructor
  has ended stays until the shut down. A thread that starts early reads a flag of any
  value; the invariant says that this is never the flag of a complete worker: those still
  to be created are not complete (`Unbuilt`), and the flag of one that is stays down
  until `shutDown()` (`Unflagged`).
* `StreamsFollow` (`StreamsFollowRoom`), `ParticipantsServed`
  (`ParticipantsAreServed`), `RecentStayLast` (`RecentAreLast`) and
  `ChatTypeCorrect`, for any set of sessions, any number of messages and
  any limit of recent ones, from `ChatAssumption`. The inductive invariant adds
  that there are no more recent messages than messages, that a
  session not started has nothing, and that a write under way has a message. The
  lemmas on `CountsFrom` say what appending, taking off the first and cutting to
  the limit do to consecutive messages.
* `ActorsStayAlive` (`ActorsLive`), `AlwaysUnderDeadline`
  (`NothingAwaitedForEver`) and `ClientTypeCorrect`, for any number of endpoints and
  messages, from `ClientAssumption`. The inductive invariant adds that nothing runs
  before `start`, that the connect actor has an endpoint, and that a read that
  succeeded has left a message in the buffer. All paths to `stop()` share the
  lemma `StopKeeps`.

* `AnswersAreForCalls` (`AnswerIsForCall`) and `EndsByOperation` (`EndedByOperation`), for any keys,
  values, names of collections, ids and texts of other clients, with and without the
  request processor, from `MessageAssumption`: what the parser refuses is no text of a
  message, and the null pointer is no message. The lemma `RoundTrip` is on the conversions:
  what was written into a text is read from it again. The inductive invariant is on the
  call in progress (`CallInv`): there is none, or it is the driver's own and its text has
  not reached the server or has (`OwnCall`), or another client's (`OthersCall`); and a
  text on its way back is, once parsed, already the right reply (`Follows`), which a
  property of the answer received does not say.
* `RecordsAreAsGiven` (`AsGiven`), `ShownTextWasHeld` (`ShownWasHeld`) and
  `FailsOnlyWithoutMarker` (`FailsOnlyUntyped`), for any objects, fields of text, sizes,
  texts and number of calls, from `RecordAssumption`: a field has room for a character,
  those of the markers for one, the markers are not the character 0, and texts are
  sequences of characters. `Image` says what a field of a given size holds of a
  text; `StoredIsImage`, `CutIs`, `ImageTells` and `MarkerImage` connect it with what a
  setter writes, a getter reads and a comparison looks at. The inductive invariant is
  that each field holds the image of what it was given and nothing of an older text
  (`Contents`; of the key only until its part is removed), and of the kept strings
  `ShownWasHeld` itself.
* `StoreAppends` (`AppendsAtEnd`, an action property) for any collections, keys and
  capacities. `FilesInv` says that the offset is unset exactly while no collection has
  written, and `OffsetIsEnd`: while no other has, it is the end of the collection's
  file. It is proved of the files alone (`FilesAppend`), and `StoreKeepsFiles` says that
  `Store` implements them.
* `KeysAreFound` (`SearchFinds`), `EntriesPoint` (`EntriesPointToKeys`), `OpenIndexesFile`
  (`OpenedIndexesFile`, an action property) and `IndexBag` (`IndexIsABag`: `Store`
  implements `KeyBag`), for trees of any size, from `FilesAssumption` and
  `StoreAssumption` (hashes are integers, and -1, the key of the root, is none). The
  inductive invariant is `StoreInv`: the files' own; the index of an open collection is
  a search tree; and as long as no other collection has moved the offset, each node was
  inserted for the record at its offset (`OriginsOK`). A search tree (`TreeOK`) is
  finite (`NodesOK`); what is below a node is below all nodes above it, on the same side
  (`Nested`); of two nodes one is below the other or a third has them on its two sides
  (`Joined`); and the keys are in order, copies of a key to its right (`Ordered`).
  `Joined` is what makes a search tree of an ordering: with it the topmost of several
  copies is on the way of the search (`SearchInFinds`), and the pointers to the left end
  at a least key, which has no left subtree, so that its deletion ends there
  (`LeastTaken`). `InsertOK` and `WithoutOK`, `RekeyedOK` say that an insertion and the two parts
  of a deletion leave a search tree, `RemovedTakesOne` counts the copies of each key after a
  deletion. The induction over the height that the recursive functions would need is
  replaced by least elements: of a set of nodes, the one with the fewest nodes above it
  or the fewest smaller keys (`LeastBy`, from the well-foundedness of the natural numbers). The recursive
  function in `Built` exists for every number of records (`BuiltExists`) and what it
  builds has a node for each record read (`BuiltIs`), both by a least counterexample.
  Of a file that is read to its end it has the file's records, whatever memory
  held. `OpenIndexesFile` counts: the nodes of a key and the records of it in the file are in
  bijection (`BuiltCounts`).

Model-checked only: `PointersAgree`, since `PointerIndex` is recursive, and liveness
(`RequestsAreProcessed`, `CallsReturn`, `RequestAnswered`, `CallsAnswered`,
`BusyWorkerEmptiesQueue`, `MessagesArrive`, `AwaitedEnds`, `StopCompletes`), which is out
of the prover's reach. All other properties of the passing runs are stated by a theorem.

## Not modelled

* `pico_record_old_version.h`, `pico_concurrent_list.h` and the other superseded
  classes: nothing uses them, and what replaced them is modelled.
* What is commented out twice in the storage files, and the replies that
  `RecordInserter` would make of its results.
* The object pool example: its threads never run, since `std::bind` copies an
  object whose copy constructor asserts `false` (`ObjectPool.h:144,182`).
* Logging, JSON's characters, random ids (taken as unique), memory that is never
  freed, a reallocation of the vector during a race.
* The text of a heartbeat, `"a"` where the header of `AsyncTcpClient.h` announces
  a newline: what a message says is left out there.
* Examples: `BoosFileExample.h`, `BoosFileExample2.h`, `Examples.h`, those in
  `MutilThreadedServerClient.cpp` that `main` does not call, and vendored code.

Three hazards of the list have no property: torn reads of a vector's size
(`pico/pico_client.h:621`), because the model reads the size of before or
after the other's change; the queue of a chat client that does not read,
because the code has no limit that could be exceeded; and the success that
`createCollection` and `deleteCollection` do not answer, which is a finding and which
a property could only repeat.

## What is left

* That the recursive functions of `PointerIndex` do for every tree what `RecordIndex` does:
  an induction over trees, which the installed provers cannot be given. TLC checks it for
  trees of up to four records.
* Liveness, by TLC only.
