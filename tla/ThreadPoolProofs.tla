-------------------------- MODULE ThreadPoolProofs --------------------------
(***************************************************************************)
(* For any number of workers and tasks, with or without an early start and *)
(* a shut down: no task is lost, none is run twice, and a worker stays     *)
(* until it is shut down.                                                  *)
(***************************************************************************)
EXTENDS ThreadPool, ConcurrentVectorProofs

(* The empty pointer is no task.                                           *)
LEMMA NullIsNoTask == NullRef \notin Tasks
  BY PoolAssumption DEF Tasks

(* In the initial state nothing is submitted.                              *)
LEMMA InitKeeps == Init => TypeOK /\ TasksInOnePlace
  <1> SUFFICES ASSUME Init PROVE TypeOK /\ TasksInOnePlace
    OBVIOUS
  <1>1. TypeOK
    BY PoolAssumption, NullIsNoTask
       DEF Init, TypeOK, Workers, WorkerStates, OwnerStates
  <1>2. taskQueue = <<>> /\ Len(<<>>) = 0 /\ \A i : i \notin 1..0
    BY DEF Init
  <1>3. QueueOrder /\ \A t \in Tasks : ~Queued(t)
    BY <1>2 DEF QueueOrder, Queued
  <1>4. ASSUME NEW t \in Tasks
        PROVE  ~Held(t) /\ runs[t] = 0 /\ t > submitted
    <2>1. ~Held(t)
      BY NullIsNoTask DEF Init, Held, HeldBy
    <2>2. runs[t] = 0
      BY DEF Init
    <2>3. t > submitted
      BY PoolAssumption DEF Init, Tasks
    <2> QED
      BY <2>1, <2>2, <2>3
  <1>5. ASSUME NEW t \in Tasks
        PROVE  TaskInOnePlace(t)
    <2>1. ~(t <= submitted) /\ 0 <= 1
      BY <1>4 DEF Tasks, Init
    <2> QED
      BY <1>3, <1>4, <2>1 DEF TaskInOnePlace, Held
  <1> QED
    BY <1>1, <1>3, <1>5 DEF TasksInOnePlace

(* What TypeOK says of the variables that are not queues or Booleans.      *)
PlacesOK ==
  /\ worker \in [Workers -> WorkerStates]
  /\ task \in [Workers -> Tasks \cup {NullRef}]
  /\ \A w \in Workers : worker[w] = "run" <=> task[w] # NullRef
  /\ owner \in OwnerStates
  /\ target \in Workers
  /\ submitted \in 0..MaxTasks
  /\ runs \in [Tasks -> Nat]

(* A step that leaves the tasks where they are.                            *)
LEMMA TasksStay ==
  ASSUME TasksInOnePlace, UNCHANGED <<taskQueue, task, submitted, runs>>
  PROVE  TasksInOnePlace'
  BY DEF TasksInOnePlace, QueueOrder, TaskInOnePlace, Queued, Held, HeldBy

(* The worker's steps that only change its place.                          *)
LEMMA MoveKeepsType ==
  ASSUME TypeOK, NEW w \in Workers, worker[w] # "run",
         NEW place \in WorkerStates \ {"run"}, Goes(w, place),
         UNCHANGED <<taskQueue, task, stopFlag, built, ownerVars, runs>>
  PROVE  TypeOK'
  <1>1. PlacesOK'
    BY DEF TypeOK, PlacesOK, Goes, ownerVars
  <1>2. taskQueue' \in Seq(Tasks) /\ stopFlag' \in [Workers -> BOOLEAN]
          /\ built' \in [Workers -> BOOLEAN]
    BY DEF TypeOK
  <1> QED
    BY <1>1, <1>2 DEF TypeOK, PlacesOK

(* The steps of a worker that touch no task.                              *)
LEMMA QuietSteps ==
  ASSUME TypeOK, TasksInOnePlace, NEW w \in Workers,
         TestStopFlag(w) \/ TestQueue(w) \/ Wait(w) \/ WakeSpuriously(w)
  PROVE  TypeOK' /\ TasksInOnePlace'
  <1>1. UNCHANGED <<taskQueue, task, stopFlag, built, ownerVars, runs>>
    BY DEF TestStopFlag, TestQueue, Wait, WakeSpuriously
  <1>2. TasksInOnePlace'
    BY <1>1, TasksStay DEF ownerVars
  <1>3. worker[w] # "run"
    BY DEF TestStopFlag, TestQueue, Wait, WakeSpuriously, At
  <1>4. PICK place \in WorkerStates \ {"run"} : Goes(w, place)
    BY DEF TestStopFlag, TestQueue, Wait, WakeSpuriously, WorkerStates
  <1> QED
    BY <1>1, <1>2, <1>3, <1>4, MoveKeepsType

(* The popped task moves from the queue to the worker.                     *)
LEMMA PopTaskKeeps ==
  ASSUME TypeOK, TasksInOnePlace, NEW w \in Workers, PopTask(w)
  PROVE  TypeOK' /\ TasksInOnePlace'
  <1> USE DEF PopTask
  <1>1. CASE taskQueue = <<>>
    <2>1. /\ UNCHANGED <<taskQueue, task, stopFlag, built, ownerVars, runs>>
          /\ Goes(w, "drain") /\ worker[w] # "run"
      BY <1>1 DEF At
    <2> QED
      BY <2>1, TasksStay, MoveKeepsType DEF ownerVars, WorkerStates
  <1>2. CASE taskQueue # <<>>
    <2> DEFINE e == Peek(taskQueue)
               n == Len(taskQueue)
    <2>1. /\ taskQueue \in Seq(Tasks)
          /\ worker' = [worker EXCEPT ![w] = "run"]
          /\ task' = [task EXCEPT ![w] = e]
          /\ taskQueue' = PopBack(taskQueue)
          /\ task[w] = NullRef
          /\ UNCHANGED <<stopFlag, built, owner, target, submitted, runs>>
      BY <1>2 DEF TypeOK, Goes, At, ownerVars
    <2>2. /\ e \in Tasks
          /\ e = taskQueue[n]
          /\ n \in 1..n
          /\ PopBack(taskQueue) \in Seq(Tasks)
          /\ Len(PopBack(taskQueue)) = n - 1
          /\ \A i \in 1..(n - 1) : PopBack(taskQueue)[i] = taskQueue[i]
          /\ n \in Nat
      BY <1>2, <2>1, PopBackLemma
    <2> HIDE DEF e, n
    <2>3. PlacesOK'
      BY <2>1, <2>2, NullIsNoTask DEF TypeOK, PlacesOK, WorkerStates
    <2>4. TypeOK'
      BY <2>1, <2>2, <2>3 DEF TypeOK, PlacesOK
    <2>5. Queued(e) /\ \A i \in 1..(n - 1) : taskQueue[i] # e
      BY <2>2 DEF TasksInOnePlace, QueueOrder, Queued, n
    <2>6. QueueOrder'
      BY <2>1, <2>2 DEF TasksInOnePlace, QueueOrder, n
    <2>7. \A t \in Tasks : Queued(t)' <=> Queued(t) /\ t # e
      BY <2>1, <2>2, <2>5 DEF Queued, n
    <2>8. \A t \in Tasks : \A v \in Workers :
            HeldBy(v, t)' <=> HeldBy(v, t) \/ (v = w /\ t = e)
      BY <2>1, <2>2, NullIsNoTask DEF HeldBy, TypeOK
    <2>9. ASSUME NEW t \in Tasks
          PROVE  TaskInOnePlace(t)'
      <3>1. TaskInOnePlace(t) /\ TaskInOnePlace(e)
        BY <2>2 DEF TasksInOnePlace
      <3>2. CASE t = e
        <4>1. ~Queued(t)' /\ Held(t)' /\ \A v \in Workers : HeldBy(v, t)' <=> v = w
          BY <2>5, <2>7, <2>8, <3>1, <3>2 DEF TaskInOnePlace, Held
        <4>2. runs[t] = 0 /\ ~(t > submitted)
          BY <2>5, <3>1, <3>2 DEF TaskInOnePlace
        <4> QED
          BY <2>1, <4>1, <4>2 DEF TaskInOnePlace
      <3>3. CASE t # e
        <4>1. /\ Queued(t)' <=> Queued(t)
              /\ Held(t)' <=> Held(t)
              /\ \A v \in Workers : HeldBy(v, t)' <=> HeldBy(v, t)
          BY <2>7, <2>8, <3>3 DEF Held
        <4> QED
          BY <2>1, <3>1, <4>1 DEF TaskInOnePlace
      <3> QED
        BY <3>2, <3>3
    <2> QED
      BY <2>4, <2>6, <2>9 DEF TasksInOnePlace
  <1> QED
    BY <1>1, <1>2

(* A task that is run is with no other worker and no longer in the queue.  *)
LEMMA RunTaskKeeps ==
  ASSUME TypeOK, TasksInOnePlace, NEW w \in Workers, RunTask(w)
  PROVE  TypeOK' /\ TasksInOnePlace'
  <1> DEFINE e == task[w]
  <1>1. /\ worker[w] = "run"
        /\ e \in Tasks
        /\ runs' = [runs EXCEPT ![e] = @ + 1]
        /\ task' = [task EXCEPT ![w] = NullRef]
        /\ UNCHANGED <<taskQueue, stopFlag, built, owner, target, submitted>>
    BY DEF RunTask, At, TypeOK, ownerVars
  <1>2. PICK next \in {"drain", "top"} : worker' = [worker EXCEPT ![w] = next]
    BY DEF RunTask, Goes
  <1>3. HeldBy(w, e) /\ Held(e)
    BY DEF HeldBy, Held
  <1> HIDE DEF e
  <1>4. PlacesOK'
    BY <1>1, <1>2 DEF TypeOK, PlacesOK, WorkerStates
  <1>5. TypeOK'
    BY <1>1, <1>4 DEF TypeOK, PlacesOK
  <1>6. QueueOrder' /\ \A t \in Tasks : Queued(t)' <=> Queued(t)
    BY <1>1 DEF TasksInOnePlace, QueueOrder, Queued
  <1>7. \A t \in Tasks : \A v \in Workers :
          HeldBy(v, t)' <=> HeldBy(v, t) /\ v # w
    BY <1>1, NullIsNoTask DEF HeldBy, TypeOK
  <1>8. ASSUME NEW t \in Tasks
        PROVE  TaskInOnePlace(t)'
    <2>1. TaskInOnePlace(t) /\ TaskInOnePlace(e)
      BY <1>1 DEF TasksInOnePlace
    <2>2. CASE t = e
      <3>1. \A v \in Workers : ~HeldBy(v, t)'
        BY <1>3, <1>7, <2>1, <2>2 DEF TaskInOnePlace
      <3>2. ~Held(t)'
        BY <3>1 DEF Held
      <3>3. ~Queued(t)' /\ ~(t > submitted)
        BY <1>3, <1>6, <2>1, <2>2 DEF TaskInOnePlace
      <3>4. runs'[t] = 1 /\ 1 <= 1
        BY <1>1, <1>3, <2>1, <2>2 DEF TaskInOnePlace, TypeOK
      <3> QED
        BY <1>1, <3>1, <3>2, <3>3, <3>4 DEF TaskInOnePlace
    <2>3. CASE t # e
      <3>1. \A v \in Workers : HeldBy(v, t)' <=> HeldBy(v, t)
        BY <1>7, <2>3 DEF HeldBy, e
      <3>2. Held(t)' <=> Held(t)
        BY <3>1 DEF Held
      <3>3. runs'[t] = runs[t]
        BY <1>1, <2>3 DEF TypeOK
      <3> QED
        BY <1>1, <1>6, <2>1, <3>1, <3>2, <3>3 DEF TaskInOnePlace
    <2> QED
      BY <2>2, <2>3
  <1> QED
    BY <1>5, <1>6, <1>8 DEF TasksInOnePlace

(* The next task gets the next number, which nothing holds yet.            *)
LEMMA SubmitKeeps ==
  ASSUME TypeOK, TasksInOnePlace, NEW w \in Workers, Submit(w)
  PROVE  TypeOK' /\ TasksInOnePlace'
  <1> DEFINE e == submitted + 1
             n == Len(taskQueue)
  <1>1. /\ e \in Tasks
        /\ taskQueue \in Seq(Tasks)
        /\ n \in Nat
        /\ taskQueue' = PushBack(taskQueue, e)
        /\ submitted' = e
        /\ submitted \in Nat
        /\ e \in 0..MaxTasks
        /\ target' = w
        /\ owner' = "notify"
        /\ UNCHANGED <<worker, task, runs, stopFlag, built>>
    BY PoolAssumption DEF Submit, TypeOK, Tasks, workerVars
  <1>2. /\ PushBack(taskQueue, e) \in Seq(Tasks)
        /\ Len(PushBack(taskQueue, e)) = n + 1
        /\ \A i \in 1..n : PushBack(taskQueue, e)[i] = taskQueue[i]
        /\ PushBack(taskQueue, e)[n + 1] = e
    <2>1. taskQueue \in Seq(Tasks) /\ e \in Tasks
      BY <1>1
    <2> HIDE DEF e
    <2> QED
      BY <2>1, PushBackLemma
  <1>3. \A t \in Tasks : t \in Nat /\ (t > submitted' <=> t > submitted /\ t # e)
    BY <1>1 DEF Tasks
  <1>4. e > submitted /\ ~(e <= submitted)
    BY <1>1
  <1> HIDE DEF e, n
  <1>5. PlacesOK'
    BY <1>1 DEF TypeOK, PlacesOK, OwnerStates
  <1>6. TypeOK'
    BY <1>1, <1>2, <1>5 DEF TypeOK, PlacesOK
  <1>7. ~Queued(e) /\ ~Held(e) /\ runs[e] = 0
    BY <1>1, <1>4 DEF TasksInOnePlace, TaskInOnePlace
  <1>8. \A i \in 1..(n + 1) : i \in 1..n \/ i = n + 1
    BY <1>1
  <1>9. n + 1 \in 1..(n + 1) /\ \A i \in 1..n : i \in 1..(n + 1)
    BY <1>1
  <1>10. QueueOrder'
    BY <1>1, <1>2, <1>7, <1>8 DEF TasksInOnePlace, QueueOrder, Queued, n
  <1>11. \A t \in Tasks : Queued(t)' <=> Queued(t) \/ t = e
    BY <1>1, <1>2, <1>8, <1>9 DEF Queued, n
  <1>12. \A t \in Tasks : /\ Held(t)' <=> Held(t)
                          /\ \A v \in Workers : HeldBy(v, t)' <=> HeldBy(v, t)
    BY <1>1 DEF Held, HeldBy
  <1>13. ASSUME NEW t \in Tasks
         PROVE  TaskInOnePlace(t)'
    <2>1. TaskInOnePlace(t)
      BY DEF TasksInOnePlace
    <2>2. CASE t = e
      <3>1. /\ Queued(t)' /\ ~Held(t)' /\ runs'[t] = 0 /\ ~(t > submitted')
            /\ \A v \in Workers : ~HeldBy(v, t)'
        BY <1>1, <1>3, <1>7, <1>11, <1>12, <2>2 DEF Held
      <3> QED
        BY <3>1 DEF TaskInOnePlace
    <2>3. CASE t # e
      <3>1. /\ Queued(t)' <=> Queued(t)
            /\ Held(t)' <=> Held(t)
            /\ \A v \in Workers : HeldBy(v, t)' <=> HeldBy(v, t)
            /\ runs'[t] = runs[t]
            /\ t > submitted' <=> t > submitted
        BY <1>1, <1>3, <1>11, <1>12, <2>3
      <3>2. t <= submitted' => t <= submitted
        BY <1>1, <1>3, <2>3 DEF e
      <3> QED
        BY <2>1, <3>1, <3>2 DEF TaskInOnePlace
    <2> QED
      BY <2>2, <2>3
  <1> QED
    BY <1>6, <1>10, <1>13 DEF TasksInOnePlace

(* The other steps of the owner touch no task.  A worker they wake, or     *)
(* start, holds none.                                                      *)
LEMMA NotifyAllKeeps ==
  ASSUME TypeOK, NEW w \in Workers, NotifyAll(w)
  PROVE  /\ worker' \in [Workers -> WorkerStates]
         /\ \A v \in Workers : worker'[v] = "run" <=> worker[v] = "run"
  BY DEF NotifyAll, Goes, TypeOK, WorkerStates

(* The owner's steps other than Submit keep the types and the tasks.       *)
LEMMA OwnerKeepsType ==
  ASSUME TypeOK, OwnerSteps,
         owner = "create" => worker[target] = "none"
  PROVE  TypeOK' /\ UNCHANGED <<taskQueue, task, submitted, runs>>
  <1>1. UNCHANGED <<taskQueue, task, submitted, runs>>
    BY DEF OwnerSteps, NewWorker, FinishConstructor, Notify, Finish, SetStopFlag,
           NotifyStop, Join, workerVars
  <1>2. target' \in Workers
    <2>1. /\ numOfThreadWorkers \in Nat \ {0}
          /\ target \in 1..numOfThreadWorkers
          /\ \/ target' = target
             \/ target' = 1
             \/ target # numOfThreadWorkers /\ target' = target + 1
      BY PoolAssumption
         DEF OwnerSteps, NewWorker, FinishConstructor, Notify, Finish, SetStopFlag,
             NotifyStop, Join, TypeOK, Workers
    <2> QED
      BY <2>1 DEF Workers
  <1>3. owner' \in OwnerStates
    BY DEF OwnerSteps, NewWorker, FinishConstructor, Notify, Finish, SetStopFlag,
           NotifyStop, Join, TypeOK, OwnerStates
  <1>4. stopFlag' \in [Workers -> BOOLEAN] /\ built' \in [Workers -> BOOLEAN]
    BY DEF OwnerSteps, NewWorker, FinishConstructor, Notify, Finish, SetStopFlag,
           NotifyStop, Join, TypeOK
  <1>5. /\ worker' \in [Workers -> WorkerStates]
        /\ \A v \in Workers : worker'[v] = "run" <=> worker[v] = "run"
    <2>1. CASE NewWorker
      BY <2>1 DEF NewWorker, TypeOK, WorkerStates
    <2>2. CASE Notify \/ NotifyStop
      BY <2>2, NotifyAllKeeps DEF Notify, NotifyStop, TypeOK
    <2>3. CASE FinishConstructor \/ Finish \/ SetStopFlag \/ Join
      BY <2>3 DEF FinishConstructor, Finish, SetStopFlag, Join, workerVars, TypeOK
    <2> QED
      BY <2>1, <2>2, <2>3 DEF OwnerSteps
  <1> QED
    BY <1>1, <1>2, <1>3, <1>4, <1>5 DEF TypeOK

-----------------------------------------------------------------------------
(* The inductive invariant.  The threads the owner has still to create are *)
(* not there yet: a worker that runs a task is never created over.         *)
Unborn ==
  \A w \in Workers :
    \/ owner = "create" /\ w >= target
    \/ owner = "construct" /\ w > target
    => worker[w] = "none"

Inv == TypeOK /\ TasksInOnePlace /\ Unborn

(* A worker's step changes only a worker that is there.                    *)
LEMMA WorkerKeepsUnborn ==
  ASSUME Inv, NEW w \in Workers, WorkerSteps(w) \/ WakeSpuriously(w)
  PROVE  Unborn'
  <1>1. worker[w] # "none" /\ UNCHANGED <<owner, target>>
    BY DEF WorkerSteps, TestStopFlag, TestQueue, PopTask, RunTask, Wait,
           WakeSpuriously, At, ownerVars
  <1>2. \A v \in Workers : v # w => worker'[v] = worker[v]
    BY DEF Inv, TypeOK, WorkerSteps, TestStopFlag, TestQueue, PopTask, RunTask, Wait,
           WakeSpuriously, Goes
  <1> QED
    BY <1>1, <1>2 DEF Inv, Unborn

(* The owner creates its workers in order.                                 *)
LEMMA OwnerKeepsUnborn ==
  ASSUME Inv, OwnerSteps
  PROVE  Unborn'
  <1>1. /\ target \in Int
        /\ \A w \in Workers : w \in Int
    BY PoolAssumption DEF Inv, TypeOK, Workers
  <1>2. CASE NewWorker
    <2>1. \A w \in Workers : w > target => worker'[w] = worker[w] /\ w >= target
      BY <1>1, <1>2 DEF NewWorker, Inv, TypeOK
    <2> QED
      BY <1>2, <2>1 DEF NewWorker, Inv, Unborn
  <1>3. CASE FinishConstructor
    <2>1. \A w \in Workers : w >= target + 1 => w > target
      BY <1>1
    <2> QED
      BY <1>3, <2>1 DEF FinishConstructor, workerVars, Inv, Unborn
  <1>4. CASE Notify \/ Finish \/ SetStopFlag \/ NotifyStop \/ Join
    BY <1>4 DEF Notify, Finish, SetStopFlag, NotifyStop, Join, Unborn
  <1> QED
    BY <1>2, <1>3, <1>4 DEF OwnerSteps

(* The invariant holds initially ...                                       *)
LEMMA InvInit == Init => Inv
  <1> SUFFICES ASSUME Init PROVE Inv
    OBVIOUS
  <1>1. Unborn
    BY DEF Init, Unborn
  <1> QED
    BY <1>1, InitKeeps DEF Inv

(* ... and every step keeps it.                                            *)
LEMMA InvInductive == Inv /\ [Next]_vars => Inv'
  <1> SUFFICES ASSUME Inv, [Next]_vars PROVE Inv'
    OBVIOUS
  <1>1. CASE OwnerSteps
    <2>1. owner = "create" => worker[target] = "none"
      BY PoolAssumption DEF Inv, Unborn, TypeOK, Workers
    <2>2. TypeOK' /\ TasksInOnePlace'
      BY <1>1, <2>1, OwnerKeepsType, TasksStay DEF Inv
    <2> QED
      BY <1>1, <2>2, OwnerKeepsUnborn DEF Inv
  <1>2. ASSUME NEW w \in Workers, WorkerSteps(w) \/ WakeSpuriously(w)
        PROVE  Inv'
    BY <1>2, WorkerKeepsUnborn, QuietSteps, PopTaskKeeps, RunTaskKeeps
       DEF Inv, WorkerSteps
  <1>3. ASSUME NEW w \in Workers, Submit(w)
        PROVE  Inv'
    <2>1. Unborn'
      BY <1>3 DEF Submit, Unborn
    <2> QED
      BY <1>3, <2>1, SubmitKeeps DEF Inv
  <1>4. CASE UNCHANGED vars
    <2> USE <1>4 DEF vars, workerVars, ownerVars
    <2>1. TypeOK'
      BY DEF Inv, TypeOK
    <2>2. TasksInOnePlace'
      BY TasksStay DEF Inv
    <2>3. Unborn'
      BY DEF Inv, Unborn
    <2> QED
      BY <2>1, <2>2, <2>3 DEF Inv
  <1> QED
    BY <1>1, <1>2, <1>3, <1>4 DEF Next

(* The inductive invariant always holds.                                   *)
THEOREM AlwaysInv == Spec => []Inv
  BY InvInit, InvInductive, PTL DEF Spec

(* The types of the pool's variables; a worker has a task exactly while it *)
(* runs it (ThreadWorker::runIndefinitely).                                *)
THEOREM PoolTypeCorrect == Spec => []TypeOK
  <1>1. Inv => TypeOK
    BY DEF Inv
  <1> QED
    BY <1>1, AlwaysInv, PTL

(* Every task submitted is in the queue, with one worker, or was run once, *)
(* whichever workers race for it (submitTask, runIndefinitely).            *)
THEOREM NoTaskLostOrRunTwice == Spec => []TasksInOnePlace
  <1>1. Inv => TasksInOnePlace
    BY DEF Inv
  <1> QED
    BY <1>1, AlwaysInv, PTL

-----------------------------------------------------------------------------
(* Why a built worker stays.  The workers still to be built are not built  *)
(* yet, so that the garbage of a new one's flag is not a built one's ...   *)
Stopping == {"setStop", "notifyStop", "join", "done"}

Unbuilt ==
  \A w \in Workers :
    owner \in {"create", "construct"} /\ w >= target => ~built[w]

(* ... and the flag of a built worker is clear until shutDown().           *)
Unflagged ==
  owner \notin Stopping => \A w \in Workers : built[w] => ~stopFlag[w]

StayInv == Unbuilt /\ Unflagged

(* The owner builds its workers in order and clears the flag of each.      *)
LEMMA OwnerKeepsStayInv ==
  ASSUME Inv, StayInv, OwnerSteps
  PROVE  StayInv'
  <1>1. /\ target \in Int
        /\ \A w \in Workers : w \in Int
        /\ \A w \in Workers : w >= target + 1 => w >= target /\ w # target
    BY PoolAssumption DEF Inv, TypeOK, Workers
  <1>2. target \in Workers /\ built \in [Workers -> BOOLEAN]
                           /\ stopFlag \in [Workers -> BOOLEAN]
    BY DEF Inv, TypeOK
  <1>3. CASE NewWorker
    <2>1. ~built[target]
      BY <1>1, <1>2, <1>3 DEF NewWorker, StayInv, Unbuilt
    <2>2. \A w \in Workers : w # target => stopFlag'[w] = stopFlag[w]
      BY <1>2, <1>3 DEF NewWorker
    <2>3. Unbuilt'
      BY <1>3 DEF NewWorker, StayInv, Unbuilt
    <2>4. Unflagged'
      BY <1>3, <2>1, <2>2 DEF NewWorker, StayInv, Unflagged, Stopping
    <2> QED
      BY <2>3, <2>4 DEF StayInv
  <1>4. CASE FinishConstructor
    <2>1. \A w \in Workers : w # target => /\ built'[w] = built[w]
                                           /\ stopFlag'[w] = stopFlag[w]
      BY <1>2, <1>4 DEF FinishConstructor
    <2>2. ~stopFlag'[target] /\ owner = "construct"
      BY <1>2, <1>4 DEF FinishConstructor
    <2>3. \/ owner' = "ready"
          \/ owner' = "create" /\ target' = target + 1
      BY <1>4 DEF FinishConstructor
    <2>4. Unbuilt'
      BY <1>1, <2>1, <2>2, <2>3 DEF StayInv, Unbuilt
    <2>5. Unflagged'
      BY <2>1, <2>2 DEF StayInv, Unflagged, Stopping
    <2> QED
      BY <2>4, <2>5 DEF StayInv
  <1>5. CASE Notify \/ Finish \/ SetStopFlag \/ NotifyStop \/ Join
    <2>1. /\ UNCHANGED built
          /\ owner' \notin {"create", "construct"}
          /\ owner' \in Stopping \/ (UNCHANGED stopFlag /\ owner \notin Stopping)
      BY <1>5 DEF Notify, Finish, SetStopFlag, NotifyStop, Join, Stopping
    <2> QED
      BY <2>1 DEF StayInv, Unbuilt, Unflagged
  <1> QED
    BY <1>3, <1>4, <1>5 DEF OwnerSteps

(* So does every other step: it changes neither flags nor constructors.    *)
LEMMA StayInvInductive == Inv /\ StayInv /\ [Next]_vars => StayInv'
  <1> SUFFICES ASSUME Inv, StayInv, [Next]_vars PROVE StayInv'
    OBVIOUS
  <1>1. CASE OwnerSteps
    BY <1>1, OwnerKeepsStayInv
  <1>2. ASSUME NEW w \in Workers, WorkerSteps(w) \/ WakeSpuriously(w)
        PROVE  StayInv'
    BY <1>2 DEF WorkerSteps, TestStopFlag, TestQueue, PopTask, RunTask, Wait,
                WakeSpuriously, ownerVars, StayInv, Unbuilt, Unflagged
  <1>3. ASSUME NEW w \in Workers, Submit(w)
        PROVE  StayInv'
    BY <1>3 DEF Submit, StayInv, Unbuilt, Unflagged, Stopping
  <1>4. CASE UNCHANGED vars
    BY <1>4 DEF vars, ownerVars, StayInv, Unbuilt, Unflagged
  <1> QED
    BY <1>1, <1>2, <1>3, <1>4 DEF Next

(* Both always hold.                                                       *)
THEOREM AlwaysStayInv == Spec => []StayInv
  <1>1. Init => StayInv
    BY DEF Init, StayInv, Unbuilt, Unflagged
  <1> QED
    BY <1>1, AlwaysInv, StayInvInductive, PTL DEF Spec

(* The step: a built worker ends only by a set flag and never finds the    *)
(* null pointer.                                                           *)
LEMMA LossNeedsStopping ==
  ASSUME Inv, StayInv, [Next]_vars,
         NEW w \in Workers, built[w], ~Lost(w), Lost(w)'
  PROVE  owner \in Stopping
  <1> USE DEF Lost
  <1>1. worker'[w] # worker[w] /\ worker'[w] \in {"ended", "faulted"}
    OBVIOUS
  <1>2. worker \in [Workers -> WorkerStates]
    BY DEF Inv, TypeOK
  <1>3. CASE OwnerSteps
    BY <1>1, <1>2, <1>3
       DEF OwnerSteps, NewWorker, FinishConstructor, Notify, Finish, SetStopFlag,
           NotifyStop, Join, workerVars, NotifyAll, Goes
  <1>4. ASSUME NEW v \in Workers, WorkerSteps(v) \/ WakeSpuriously(v)
        PROVE  owner \in Stopping
    <2>1. v = w
      BY <1>1, <1>2, <1>4
         DEF WorkerSteps, TestStopFlag, TestQueue, PopTask, RunTask, Wait,
             WakeSpuriously, Goes
    <2>2. CASE TestStopFlag(w)
      BY <1>1, <1>2, <2>2 DEF TestStopFlag, Goes, StayInv, Unflagged
    <2>3. ~TestQueue(w)
      BY <1>1, <1>2 DEF TestQueue, Goes
    <2>4. ~(PopTask(w) \/ RunTask(w) \/ Wait(w) \/ WakeSpuriously(w))
      BY <1>1, <1>2 DEF PopTask, RunTask, Wait, WakeSpuriously, Goes
    <2> QED
      BY <1>4, <2>1, <2>2, <2>3, <2>4 DEF WorkerSteps
  <1>5. ASSUME NEW v \in Workers, Submit(v)
        PROVE  owner \in Stopping
    BY <1>1, <1>5 DEF Submit, workerVars
  <1>6. CASE UNCHANGED vars
    BY <1>1, <1>6 DEF vars, workerVars
  <1> QED
    BY <1>3, <1>4, <1>5, <1>6 DEF Next

(* A worker whose constructor has ended neither ends nor dies before       *)
(* shutDown() or the join, however early its thread started and whatever   *)
(* was in the memory of its flag (ThreadWorker's constructor, shutDown).   *)
THEOREM BuiltWorkersStay == Spec => WorkersStay
  <1>1. Inv /\ StayInv /\ [Next]_vars =>
          [\A w \in Workers :
             built[w] /\ ~Lost(w) /\ Lost(w)'
               => owner \in {"setStop", "notifyStop", "join", "done"}]_vars
    BY LossNeedsStopping DEF Stopping
  <1> QED
    BY <1>1, AlwaysInv, AlwaysStayInv, PTL DEF Spec, WorkersStay
=============================================================================
