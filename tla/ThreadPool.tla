----------------------------- MODULE ThreadPool -----------------------------
(***************************************************************************)
(* pico/ThreadPool.h and ThreadWorker.h: workers that share one queue of   *)
(* tasks, and the thread that owns the pool (runThreadPool), which creates *)
(* the workers, submits tasks, and may shut the pool down and join it.     *)
(*                                                                         *)
(* Each worker has a mutex and a condition variable of its own.  The test  *)
(* of the queue and the wait are two steps: the mutex is taken only in     *)
(* between, so a notification can fall between them and be lost.           *)
(***************************************************************************)
EXTENDS ConcurrentVector

CONSTANTS
  numOfThreadWorkers,
  MaxTasks,       \* bound: tasks the owner submits
  StartsEarly     \* a new thread may run before its constructor has ended

ASSUME PoolAssumption ==
  /\ numOfThreadWorkers \in Nat \ {0}
  /\ MaxTasks \in Nat
  /\ StartsEarly \in BOOLEAN
  /\ NullRef \notin Nat

Workers == 1..numOfThreadWorkers
Tasks   == 1..MaxTasks

VARIABLES
  taskQueue,      \* the shared vector
  worker,         \* worker[w]: where its thread is
  task,           \* task[w]: the task it popped
  stopFlag,       \* stopFlag[w]: stopFlag_
  built,          \* built[w]: its constructor has ended
  owner,          \* where the owner is
  target,         \* the worker the owner is dealing with
  submitted,      \* number of tasks submitted
  runs            \* runs[t]: how often task t was run

workerVars == <<worker, task, runs>>
ownerVars  == <<owner, target, submitted>>
vars == <<taskQueue, stopFlag, built, workerVars, ownerVars>>

WorkerStates == {"none", "top", "drain", "pop", "run", "free", "waiting",
                 "ended", "faulted"}
OwnerStates == {"create", "construct", "ready", "notify", "setStop",
                "notifyStop", "join", "done"}

Init ==
  /\ taskQueue = <<>>
  /\ worker = [w \in Workers |-> "none"]
  /\ task = [w \in Workers |-> NullRef]
  /\ stopFlag = [w \in Workers |-> FALSE]
  /\ built = [w \in Workers |-> FALSE]
  /\ owner = "create"
  /\ target = 1
  /\ submitted = 0
  /\ runs = [t \in Tasks |-> 0]

-----------------------------------------------------------------------------
(* The workers' threads: runIndefinitely.                                  *)

At(w, place) == worker[w] = place /\ (StartsEarly \/ built[w])
Goes(w, place) == worker' = [worker EXCEPT ![w] = place]

TestStopFlag(w) ==
  /\ At(w, "top")
  /\ Goes(w, IF stopFlag[w] THEN "ended" ELSE "drain")
  /\ UNCHANGED <<taskQueue, task, stopFlag, built, ownerVars, runs>>

(* Before the constructor has set it, the pointer to the queue is null.    *)
(* The handler of SIGSEGV returns to the instruction that failed.          *)
TestQueue(w) ==
  /\ At(w, "drain")
  /\ Goes(w, CASE ~built[w] -> "faulted"
               [] built[w] /\ taskQueue = <<>> -> "free"
               [] OTHER -> "pop")
  /\ UNCHANGED <<taskQueue, task, stopFlag, built, ownerVars, runs>>

(* Mutant of PopTask: what pop returns is run unchecked.                   *)
PopTaskUnchecked(w) ==
  /\ At(w, "pop")
  /\ Goes(w, "run")
  /\ task' = [task EXCEPT ![w] = Peek(taskQueue)]
  /\ taskQueue' = PopBack(taskQueue)
  /\ UNCHANGED <<stopFlag, built, ownerVars, runs>>

(* Another worker may have emptied the queue: then there is no task to run.*)
PopTask(w) ==
  /\ At(w, "pop")
  /\ IF taskQueue = <<>>
     THEN /\ Goes(w, "drain")
          /\ UNCHANGED <<taskQueue, task>>
     ELSE /\ Goes(w, "run")
          /\ task' = [task EXCEPT ![w] = Peek(taskQueue)]
          /\ taskQueue' = PopBack(taskQueue)
  /\ UNCHANGED <<stopFlag, built, ownerVars, runs>>

(* Mutant of RunTask: an if in place of the inner while.                   *)
RunOneTask(w) ==
  /\ At(w, "run")
  /\ runs' = [runs EXCEPT ![task[w]] = @ + 1]
  /\ task' = [task EXCEPT ![w] = NullRef]
  /\ \E next \in {"free", "top"} : Goes(w, next)
  /\ UNCHANGED <<taskQueue, stopFlag, built, ownerVars>>

(* A task that throws takes the worker to the test of its flag.            *)
RunTask(w) ==
  /\ At(w, "run")
  /\ runs' = [runs EXCEPT ![task[w]] = @ + 1]
  /\ task' = [task EXCEPT ![w] = NullRef]
  /\ \E next \in {"drain", "top"} : Goes(w, next)
  /\ UNCHANGED <<taskQueue, stopFlag, built, ownerVars>>

Wait(w) ==
  /\ At(w, "free")
  /\ Goes(w, "waiting")
  /\ UNCHANGED <<taskQueue, task, stopFlag, built, ownerVars, runs>>

(* A wait may also end without a notification.                             *)
WakeSpuriously(w) ==
  /\ At(w, "waiting")
  /\ Goes(w, "top")
  /\ UNCHANGED <<taskQueue, task, stopFlag, built, ownerVars, runs>>

WorkerSteps(w) ==
  \/ TestStopFlag(w) \/ TestQueue(w) \/ PopTask(w) \/ RunTask(w) \/ Wait(w)

-----------------------------------------------------------------------------
(* The owner.                                                              *)

NotifyAll(w) == IF worker[w] = "waiting" THEN Goes(w, "top") ELSE UNCHANGED worker

(* The thread is started in the initialiser list; stopFlag_ is whatever    *)
(* its memory holds.                                                       *)
NewWorker ==
  /\ owner = "create"
  /\ worker' = [worker EXCEPT ![target] = "top"]
  /\ \E garbage \in BOOLEAN : stopFlag' = [stopFlag EXCEPT ![target] = garbage]
  /\ owner' = "construct"
  /\ UNCHANGED <<taskQueue, task, built, target, submitted, runs>>

(* Mutant of FinishConstructor: the flag keeps its first value.            *)
FinishWithoutFlag ==
  /\ owner = "construct"
  /\ built' = [built EXCEPT ![target] = TRUE]
  /\ IF target = numOfThreadWorkers
     THEN owner' = "ready" /\ target' = 1
     ELSE owner' = "create" /\ target' = target + 1
  /\ UNCHANGED <<taskQueue, stopFlag, workerVars, submitted>>

FinishConstructor ==
  /\ owner = "construct"
  /\ built' = [built EXCEPT ![target] = TRUE]
  /\ stopFlag' = [stopFlag EXCEPT ![target] = FALSE]
  /\ IF target = numOfThreadWorkers
     THEN owner' = "ready" /\ target' = 1
     ELSE owner' = "create" /\ target' = target + 1
  /\ UNCHANGED <<taskQueue, workerVars, submitted>>

(* submitTask: the queue is common, the worker to notify is random.        *)
Submit(w) ==
  /\ owner = "ready"
  /\ submitted < MaxTasks
  /\ submitted' = submitted + 1
  /\ taskQueue' = PushBack(taskQueue, submitted + 1)
  /\ target' = w
  /\ owner' = "notify"
  /\ UNCHANGED <<workerVars, stopFlag, built>>

(* The two notifications in a row, the second under the worker's mutex,    *)
(* are one step: what the first does alone WakeSpuriously does too.        *)
Notify ==
  /\ owner = "notify"
  /\ NotifyAll(target)
  /\ owner' = "ready"
  /\ target' = 1
  /\ UNCHANGED <<taskQueue, task, runs, stopFlag, built, submitted>>

(* The owner shuts the pool down before it joins it, or, like              *)
(* runThreadPool, does not.                                                *)
Finish ==
  /\ owner = "ready"
  /\ owner' \in {"setStop", "join"}
  /\ UNCHANGED <<taskQueue, workerVars, stopFlag, built, target, submitted>>

(* shutDown(), for each worker: the flag, then the notification, without   *)
(* the worker's mutex.                                                     *)
SetStopFlag ==
  /\ owner = "setStop"
  /\ stopFlag' = [stopFlag EXCEPT ![target] = TRUE]
  /\ owner' = "notifyStop"
  /\ UNCHANGED <<taskQueue, workerVars, built, target, submitted>>

NotifyStop ==
  /\ owner = "notifyStop"
  /\ NotifyAll(target)
  /\ IF target = numOfThreadWorkers
     THEN owner' = "join" /\ target' = 1
     ELSE owner' = "setStop" /\ target' = target + 1
  /\ UNCHANGED <<taskQueue, task, runs, stopFlag, built, submitted>>

(* shutDownAfterWorkers() joins the threads in order.                      *)
Join ==
  /\ owner = "join"
  /\ worker[target] = "ended"
  /\ IF target = numOfThreadWorkers
     THEN owner' = "done" /\ UNCHANGED target
     ELSE target' = target + 1 /\ UNCHANGED owner
  /\ UNCHANGED <<taskQueue, workerVars, stopFlag, built, submitted>>

OwnerSteps ==
  \/ NewWorker \/ FinishConstructor \/ Notify \/ Finish
  \/ SetStopFlag \/ NotifyStop \/ Join

-----------------------------------------------------------------------------
Next ==
  \/ OwnerSteps
  \/ \E w \in Workers : Submit(w) \/ WorkerSteps(w) \/ WakeSpuriously(w)

Spec == Init /\ [][Next]_vars

(* Each thread runs; the owner comes to an end of its submissions, a task  *)
(* to its end.                                                             *)
Fairness == WF_vars(OwnerSteps) /\ \A w \in Workers : WF_vars(WorkerSteps(w))

FairSpec == Spec /\ Fairness
-----------------------------------------------------------------------------
(* Types, and the places of a worker that holds a task.                    *)
TypeOK ==
  /\ taskQueue \in Seq(Tasks)
  /\ worker \in [Workers -> WorkerStates]
  /\ task \in [Workers -> Tasks \cup {NullRef}]
  /\ \A w \in Workers : worker[w] = "run" <=> task[w] # NullRef
  /\ stopFlag \in [Workers -> BOOLEAN]
  /\ built \in [Workers -> BOOLEAN]
  /\ owner \in OwnerStates
  /\ target \in Workers
  /\ submitted \in 0..MaxTasks
  /\ runs \in [Tasks -> Nat]

(* A task submitted is in exactly one place: in the queue, with one        *)
(* worker, or run once; so no task is run twice and none disappears,       *)
(* whichever workers race for it, and also while the pool shuts down.      *)
QueueOrder   == \A i, j \in 1..Len(taskQueue) :
                  i # j => taskQueue[i] # taskQueue[j]
Queued(t)    == \E i \in 1..Len(taskQueue) : taskQueue[i] = t
HeldBy(w, t) == task[w] = t
Held(t)      == \E w \in Workers : HeldBy(w, t)

TaskInOnePlace(t) ==
  /\ t > submitted => ~Queued(t) /\ ~Held(t) /\ runs[t] = 0
  /\ t <= submitted => (Queued(t) \/ Held(t) \/ runs[t] = 1)
  /\ Queued(t) => ~Held(t) /\ runs[t] = 0
  /\ Held(t) => runs[t] = 0
  /\ runs[t] <= 1
  /\ \A v, w \in Workers : HeldBy(v, t) /\ HeldBy(w, t) => v = w

TasksInOnePlace == QueueOrder /\ \A t \in Tasks : TaskInOnePlace(t)

(* A worker whose constructor has ended stays until shutDown(): whatever   *)
(* its thread read before that, it neither ends nor dies.  (A thread that  *)
(* ran before is lost, and the pool goes on without it.)                   *)
Lost(w) == worker[w] \in {"ended", "faulted"}

WorkersStay ==
  [][\A w \in Workers :
       built[w] /\ ~Lost(w) /\ Lost(w)'
         => owner \in {"setStop", "notifyStop", "join", "done"}]_vars

(* A worker that has not gone to wait empties the queue, whatever the      *)
(* others do and whether or not a notification arrives, unless the pool is *)
(* shut down.                                                              *)
BusyWorkerEmptiesQueue ==
  (\E w \in Workers : built[w] /\ worker[w] \in {"drain", "pop", "run"})
    ~> (taskQueue = <<>> \/ \E w \in Workers : stopFlag[w])

(* shutDown() makes the workers end, and the owner's join returns: it      *)
(* notifies "the threads in case they are waiting for more jobs".          *)
ShutDownCompletes == owner = "setStop" ~> owner = "done"
=============================================================================
