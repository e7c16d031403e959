----------------------- MODULE PieceScheduler_proofs -----------------------
(***************************************************************************)
(* Proofs about PieceScheduler, for every number of workers and pieces,    *)
(* every retry limit, every set of faults and both kinds of shutdown       *)
(* futures: the safety properties of the full-file download.               *)
(***************************************************************************)
EXTENDS PieceScheduler, FiniteSums

\* The positions at which a worker holds a task.
Busy == {"fetch", "stalled", "store", "write", "failed", "requeue"}

\* Which worker holds what: tasks, the queue's lock and the storage's.
WorkerInv ==
  \A w \in Workers :
    /\ Holding(w) <=> pc[w] \in Busy
    /\ pc[w] = "requeue" => task[w].retries # 0
    /\ queueLock = w <=> pc[w] \in {"check", "pop"}
    /\ storageLock = w <=> pc[w] = "write"

TypeInv == TypeOK /\ WorkerInv

-----------------------------------------------------------------------------
(* Types and possession *)

LEMMA FullQueueTasks == FullQueue \subseteq Tasks
  BY SchedulerAssumption DEF SchedulerAssumption, FullQueue, Tasks

LEMMA InitTypeInv == Init => TypeInv
<1> SUFFICES ASSUME Init PROVE TypeInv
  OBVIOUS
<1> USE SchedulerAssumption DEF SchedulerAssumption
<1>1. TypeOK
  BY FullQueueTasks DEF Init, TypeOK, Positions, Results, Ended
<1>2. WorkerInv
  BY DEF Init, WorkerInv, Holding, Busy
<1>3. QED
  BY <1>1, <1>2 DEF TypeInv

LEMMA MainTypeInv == TypeInv /\ (Main \/ Signal) => TypeInv'
<1> SUFFICES ASSUME TypeInv, Main \/ Signal PROVE TypeInv'
  OBVIOUS
<1>1. UNCHANGED <<queue, queueLock, storageLock, stored, pc, task, history,
                  future>>
  BY DEF Main, Signal, SeeShutdown, RepollShutdown, Join, JoinNone, history
<1>2. WorkerInv'
  BY <1>1 DEF TypeInv, WorkerInv, Holding
<1>3. /\ signal' \in BOOLEAN /\ interrupted' \in BOOLEAN /\ flag' \in BOOLEAN
      /\ joined' \subseteq Workers
  BY Zenon DEF TypeInv, TypeOK, Main, Signal, SeeShutdown, RepollShutdown,
               Join, JoinNone
<1>4. result' \in Results
  BY DEF TypeInv, TypeOK, Main, Signal, SeeShutdown, RepollShutdown, Join,
         JoinNone, Results
<1>5. QED
  BY <1>1, <1>2, <1>3, <1>4 DEF TypeInv, TypeOK, history

LEMMA QueueTypes ==
  ASSUME NEW t \in Tasks
  PROVE  /\ t.piece \in Missing
         /\ t.retries \in 0 .. RetryLimit
         /\ t # None
         /\ t.retries # 0 => [t EXCEPT !.retries = @ - 1] \in Tasks
  BY SchedulerAssumption, TaskAssumption
     DEF SchedulerAssumption, TaskAssumption, Tasks

\* What no worker touches.
LEMMA WorkerFrame ==
  ASSUME NEW w \in Workers, Worker(w)
  PROVE  UNCHANGED <<future, mainVars>>
  BY DEF Worker, Dequeue, LockQueue, CheckShutdown, PopTask, Fetch, FetchOk,
         FetchErr, FetchHangs, Finish, LockStorage, WriteOk, WriteErr,
         HandleFailure, Requeue, Panic, Abort

\* The data of the workers keeps its types.
LEMMA WorkerTypeOK ==
  ASSUME NEW w \in Workers, TypeInv, Worker(w)
  PROVE  TypeOK'
<1> USE SchedulerAssumption
    DEF SchedulerAssumption, TypeInv, TypeOK, Positions, Ended, Goto, Leave,
        Unlocked, history
<1>1. future' \in Futures /\ joined' \subseteq Workers /\ result' \in Results
  BY WorkerFrame DEF mainVars
<1>2. signal' \in BOOLEAN /\ interrupted' \in BOOLEAN /\ flag' \in BOOLEAN
  BY WorkerFrame, Zenon DEF mainVars
<1> DEFINE Data == /\ queue' \subseteq Tasks
                   /\ queueLock' \in Workers \union {None}
                   /\ storageLock' \in Workers \union {None}
                   /\ stored' \subseteq Missing
                   /\ pc' \in [Workers -> Positions]
                   /\ task' \in [Workers -> Tasks \union {None}]
                   /\ attempts' \in [Missing -> Nat]
                   /\ late' \in Nat
<1>3. CASE LockQueue(w) \/ CheckShutdown(w)
  <2>1. Data
    BY <1>3 DEF LockQueue, CheckShutdown
  <2>2. QED
    BY <1>1, <1>2, <2>1
<1>4. CASE PopTask(w)
  <2>1. Data
    BY <1>4, QueueTypes DEF PopTask
  <2>2. QED
    BY <1>1, <1>2, <2>1
<1>5. CASE Fetch(w)
  <2>1. Data
    BY <1>5 DEF Fetch, FetchOk, FetchErr, FetchHangs
  <2>2. QED
    BY <1>1, <1>2, <2>1
<1>6. CASE LockStorage(w) \/ WriteErr(w) \/ HandleFailure(w)
  <2>1. Data
    BY <1>6 DEF LockStorage, WriteErr, HandleFailure
  <2>2. QED
    BY <1>1, <1>2, <2>1
<1>7. CASE WriteOk(w)
  <2>1. task[w] \in Tasks
    BY <1>7 DEF WriteOk, WorkerInv, Holding, Busy
  <2>2. Data
    BY <1>7, <2>1, QueueTypes DEF WriteOk
  <2>3. QED
    BY <1>1, <1>2, <2>2
<1>8. CASE Requeue(w)
  <2>1. task[w] \in Tasks /\ task[w].retries # 0
    BY <1>8 DEF Requeue, WorkerInv, Holding, Busy
  <2>2. Data
    BY <1>8, <2>1, QueueTypes DEF Requeue
  <2>3. QED
    BY <1>1, <1>2, <2>2
<1>9. CASE Panic(w) \/ Abort(w)
  <2>1. Data
    BY <1>9 DEF Panic, Abort
  <2>2. QED
    BY <1>1, <1>2, <2>1
<1>10. QED
  BY <1>3, <1>4, <1>5, <1>6, <1>7, <1>8, <1>9 DEF Worker, Dequeue, Finish

LEMMA WorkerWorkerInv ==
  ASSUME NEW w \in Workers, TypeInv, Worker(w)
  PROVE  WorkerInv'
<1> USE SchedulerAssumption
    DEF SchedulerAssumption, TypeInv, TypeOK, WorkerInv, Holding, Busy, Goto,
        Leave, Unlocked, Ended
<1>1. CASE LockQueue(w)
  BY <1>1 DEF LockQueue
<1>2. CASE CheckShutdown(w)
  BY <1>2 DEF CheckShutdown
<1>3. CASE PopTask(w)
  <2>1. CASE Leave(w, "ok")
    BY <1>3, <2>1 DEF PopTask
  <2>2. ASSUME NEW t \in queue, task' = [task EXCEPT ![w] = t],
               Goto(w, "pop", "fetch")
        PROVE  WorkerInv'
    <3>1. t # None
      BY QueueTypes
    <3>2. queueLock' = None /\ storageLock' = storageLock /\ pc[w] = "pop"
      BY <1>3 DEF PopTask
    <3>3. QED
      BY <2>2, <3>1, <3>2
  <2>3. QED
    BY <1>3, <2>1, <2>2 DEF PopTask
<1>4. CASE Fetch(w)
  BY <1>4 DEF Fetch, FetchOk, FetchErr, FetchHangs
<1>5. CASE LockStorage(w)
  BY <1>5 DEF LockStorage
<1>6. CASE WriteOk(w) \/ WriteErr(w)
  BY <1>6 DEF WriteOk, WriteErr
<1>7. CASE HandleFailure(w)
  <2>1. task[w] \in Tasks
    BY <1>7 DEF HandleFailure
  <2>2. task[w].retries > 0 => task[w].retries # 0
    BY <2>1, QueueTypes
  <2>3. QED
    BY <1>7, <2>2 DEF HandleFailure
<1>8. CASE Requeue(w)
  BY <1>8 DEF Requeue
<1>9. CASE Panic(w) \/ Abort(w)
  BY <1>9 DEF Panic, Abort
<1>10. QED
  BY <1>1, <1>2, <1>3, <1>4, <1>5, <1>6, <1>7, <1>8, <1>9
     DEF Worker, Dequeue, Finish

LEMMA NextTypeInv == TypeInv /\ [Next]_vars => TypeInv'
<1>1. TypeInv /\ UNCHANGED vars => TypeInv'
  <2> SUFFICES ASSUME TypeInv, UNCHANGED vars PROVE TypeInv'
    OBVIOUS
  <2>1. TypeOK'
    BY Zenon DEF TypeInv, TypeOK, vars, mainVars, history
  <2>2. WorkerInv'
    BY DEF TypeInv, WorkerInv, Holding, vars
  <2>3. QED
    BY <2>1, <2>2 DEF TypeInv
<1>2. QED
  BY <1>1, MainTypeInv, WorkerTypeOK, WorkerWorkerInv DEF Next, TypeInv

\* Every variable of the download keeps its type: in particular no task is
\* requeued with fewer than no retries (HandleFailure's guard on retries_left).
THEOREM TypeCorrect == Spec => []TypeOK
<1>1. TypeInv => TypeOK
  BY DEF TypeInv
<1>2. QED
  BY <1>1, InitTypeInv, NextTypeInv, PTL DEF Spec

-----------------------------------------------------------------------------
(* Who owns a piece *)

\* OneOwner over workers and tasks instead of sets of pieces.
Apart ==
  /\ \A s, t \in queue : s.piece = t.piece => s = t
  /\ \A v, w \in Workers : (v # w /\ Holding(v) /\ Holding(w)) =>
                              task[v].piece # task[w].piece
  /\ \A t \in queue : t.piece \notin stored
  /\ \A w \in Workers : Holding(w) =>
       /\ task[w].piece \notin stored
       /\ \A t \in queue : t.piece # task[w].piece

LEMMA ApartIsOneOwner == Apart => OneOwner
  BY DEF Apart, OneOwner, Queued, Held

\* Where a worker does not touch the queue, the stored pieces or its task,
\* and where it drops its task.
LEMMA KeepOrDrop ==
  ASSUME NEW w \in Workers, TypeInv, Worker(w)
  PROVE  \/ UNCHANGED <<queue, stored, task, attempts>>
         \/ /\ task' = [task EXCEPT ![w] = None]
            /\ UNCHANGED <<queue, stored, attempts>>
         \/ PopTask(w) \/ WriteOk(w) \/ Requeue(w)
  BY DEF Worker, Dequeue, LockQueue, CheckShutdown, Fetch, FetchOk, FetchErr,
         FetchHangs, Finish, LockStorage, WriteErr, HandleFailure, Panic,
         Abort, Leave, history

\* What taking a task out of the queue does.
LEMMA PopEffect ==
  ASSUME NEW w \in Workers, TypeInv, PopTask(w)
  PROVE  \/ /\ UNCHANGED <<queue, stored, attempts>>
            /\ task' = [task EXCEPT ![w] = None]
         \/ \E t \in queue :
              /\ t # None /\ t.piece \in Missing /\ t.retries \in Nat
              /\ queue' = queue \ {t}
              /\ task' = [task EXCEPT ![w] = t]
              /\ attempts' = [attempts EXCEPT ![t.piece] = @ + 1]
              /\ stored' = stored
<1>1. \A t \in queue : t # None /\ t.piece \in Missing /\ t.retries \in Nat
  <2>1. \A t \in queue : t \in Tasks
    BY DEF TypeInv, TypeOK
  <2>2. \A n \in 0 .. RetryLimit : n \in Nat
    BY SchedulerAssumption DEF SchedulerAssumption
  <2>3. QED
    BY <2>1, <2>2, QueueTypes
<1>2. QED
  BY <1>1 DEF PopTask, Leave, history

\* What putting a task back does.
LEMMA RequeueEffect ==
  ASSUME NEW w \in Workers, TypeInv, Requeue(w)
  PROVE  \E t \in Tasks :
           /\ Holding(w)
           /\ t.piece = task[w].piece
           /\ t.retries + 1 = task[w].retries
           /\ queue' = queue \union {t}
           /\ task' = [task EXCEPT ![w] = None]
           /\ UNCHANGED <<stored, attempts>>
<1> DEFINE t == [task[w] EXCEPT !.retries = @ - 1]
<1>1. Holding(w) /\ task[w] \in Tasks /\ task[w].retries # 0
  BY DEF Requeue, Goto, TypeInv, TypeOK, WorkerInv, Holding, Busy
<1>2. t \in Tasks /\ t.piece = task[w].piece /\ t.retries + 1 = task[w].retries
  BY <1>1, SchedulerAssumption DEF SchedulerAssumption, Tasks
<1>3. QED
  BY <1>1, <1>2 DEF Requeue, history

LEMMA StoreEffect ==
  ASSUME NEW w \in Workers, TypeInv, WriteOk(w)
  PROVE  /\ Holding(w)
         /\ stored' = stored \union {task[w].piece}
         /\ task' = [task EXCEPT ![w] = None]
         /\ UNCHANGED <<queue, attempts>>
  BY DEF WriteOk, Goto, TypeInv, WorkerInv, Busy, history

LEMMA WorkerApart ==
  ASSUME NEW w \in Workers, TypeInv, Apart, Worker(w)
  PROVE  Apart'
<1> USE DEF TypeInv, TypeOK, Apart, Holding
<1>1. CASE UNCHANGED <<queue, stored, task>>
  BY <1>1
<1>2. CASE task' = [task EXCEPT ![w] = None] /\ UNCHANGED <<queue, stored>>
  BY <1>2
<1>3. CASE PopTask(w)
  <2>1. ASSUME NEW t \in queue, t # None, queue' = queue \ {t},
               task' = [task EXCEPT ![w] = t], stored' = stored
        PROVE  Apart'
    BY <2>1
  <2>2. QED
    BY <1>2, <1>3, <2>1, PopEffect
<1>4. CASE WriteOk(w)
  BY <1>4, StoreEffect
<1>5. CASE Requeue(w)
  BY <1>5, RequeueEffect
<1>6. QED
  BY <1>1, <1>2, <1>3, <1>4, <1>5, KeepOrDrop

LEMMA NextApart == TypeInv /\ Apart /\ [Next]_vars => Apart'
<1> SUFFICES ASSUME TypeInv, Apart, [Next]_vars PROVE Apart'
  OBVIOUS
<1>1. CASE Main \/ Signal \/ UNCHANGED vars
  <2>1. UNCHANGED <<queue, stored, task>>
    BY <1>1 DEF Main, Signal, SeeShutdown, RepollShutdown, Join, JoinNone, vars
  <2>2. QED
    BY <2>1 DEF Apart, Holding
<1>2. QED
  BY <1>1, WorkerApart DEF Next

LEMMA InitApart == Init => Apart
  BY DEF Init, Apart, Holding, FullQueue

LEMMA ApartInvariant == Spec => [](TypeInv /\ Apart)
<1>1. TypeInv /\ Apart /\ [Next]_vars => (TypeInv /\ Apart)'
  BY NextTypeInv, NextApart
<1>2. QED
  BY <1>1, InitTypeInv, InitApart, PTL DEF Spec

\* A missing piece waits once, is in one worker's hands, or is stored: two
\* workers never fetch or write the same piece (dequeue and requeue).
THEOREM PiecesHaveOneOwner == Spec => []OneOwner
  BY ApartInvariant, ApartIsOneOwner, PTL

-----------------------------------------------------------------------------
(* No piece is forgotten *)

Failed(w) == pc[w] \in {"err", "panicked", "aborted"}

Placed(p) == \/ p \in stored
             \/ \E t \in queue : t.piece = p
             \/ \E w \in Workers : Holding(w) /\ task[w].piece = p

AllPlaced == (\A w \in Workers : ~Failed(w)) => \A p \in Missing : Placed(p)

LEMMA AllPlacedIsNoPieceLost == TypeInv /\ AllPlaced => NoPieceLost
<1> SUFFICES ASSUME TypeInv, AllPlaced, \A w \in Workers : ~Failed(w)
             PROVE  Missing = stored \union Queued \union Held
  BY DEF NoPieceLost, Failed
<1>1. \A p \in Missing : p \in stored \union Queued \union Held
  BY DEF AllPlaced, Placed, Queued, Held
<1>2. \A t \in queue : t.piece \in Missing
  BY QueueTypes DEF TypeInv, TypeOK
<1>3. \A w \in Workers : Holding(w) => task[w].piece \in Missing
  BY QueueTypes DEF TypeInv, TypeOK, Holding
<1>4. stored \union Queued \union Held \subseteq Missing
  BY <1>2, <1>3 DEF Queued, Held, TypeInv, TypeOK
<1>5. QED
  BY <1>1, <1>4

\* A worker that fails stays so.
LEMMA FailedStays ==
  ASSUME NEW w \in Workers, TypeInv, Worker(w), NEW v \in Workers, Failed(v)
  PROVE  Failed(v)'
<1>1. \A x : Leave(w, x) /\ v # w => pc'[v] = pc[v]
  BY DEF Leave, TypeInv, TypeOK
<1>2. \A x, y : Goto(w, x, y) /\ v # w => pc'[v] = pc[v]
  BY DEF Goto, TypeInv, TypeOK
<1>3. CASE v # w
  BY <1>1, <1>2, <1>3
     DEF Worker, Dequeue, LockQueue, CheckShutdown, PopTask, Fetch, FetchOk,
         FetchErr, FetchHangs, Finish, LockStorage, WriteOk, WriteErr,
         HandleFailure, Requeue, Panic, Abort, Failed
<1>4. CASE v = w
  BY <1>4
     DEF Worker, Dequeue, LockQueue, CheckShutdown, PopTask, Fetch, FetchOk,
         FetchErr, FetchHangs, Finish, LockStorage, WriteOk, WriteErr,
         HandleFailure, Requeue, Panic, Abort, Failed, Goto
<1>5. QED
  BY <1>3, <1>4

\* Only a worker that fails drops a task it holds.
LEMMA DropFails ==
  ASSUME NEW w \in Workers, TypeInv, Worker(w), Holding(w),
         ~UNCHANGED task, ~WriteOk(w), ~Requeue(w), ~PopTask(w)
  PROVE  Failed(w)'
<1>1. pc[w] \in Busy
  BY DEF TypeInv, WorkerInv
<1>2. QED
  BY <1>1
     DEF Worker, Dequeue, LockQueue, CheckShutdown, Fetch, FetchOk,
         FetchErr, FetchHangs, Finish, LockStorage, WriteErr,
         HandleFailure, Panic, Abort, Failed, Goto, Leave, Busy, TypeInv,
         TypeOK

LEMMA WorkerAllPlaced ==
  ASSUME NEW w \in Workers, TypeInv, AllPlaced, Worker(w)
  PROVE  AllPlaced'
<1> SUFFICES ASSUME \A v \in Workers : ~Failed(v)', NEW p \in Missing
             PROVE  Placed(p)'
  BY DEF AllPlaced
<1>1. Placed(p)
  BY FailedStays DEF AllPlaced
<1> USE DEF TypeInv, TypeOK, Placed, Holding
<1>2. CASE UNCHANGED <<queue, stored, task>>
  BY <1>1, <1>2
<1>3. CASE WriteOk(w)
  BY <1>1, <1>3, StoreEffect
<1>4. CASE Requeue(w)
  BY <1>1, <1>4, RequeueEffect
<1>5. CASE PopTask(w)
  <2>1. ~Holding(w)
    BY <1>5 DEF PopTask, Goto, Leave, WorkerInv, Busy
  <2>2. CASE UNCHANGED <<queue, stored>> /\ task' = [task EXCEPT ![w] = None]
    BY <1>1, <2>1, <2>2
  <2>3. ASSUME NEW t \in queue, t # None, queue' = queue \ {t},
               task' = [task EXCEPT ![w] = t], stored' = stored
        PROVE  Placed(p)'
    <3>1. CASE p = t.piece
      BY <2>3, <3>1
    <3>2. CASE p # t.piece
      BY <1>1, <2>1, <2>3, <3>2
    <3>3. QED
      BY <3>1, <3>2
  <2>4. QED
    BY <1>5, <2>2, <2>3, PopEffect
<1>6. CASE /\ task' = [task EXCEPT ![w] = None] /\ UNCHANGED <<queue, stored>>
           /\ ~PopTask(w) /\ ~WriteOk(w) /\ ~Requeue(w)
  <2>1. ~Holding(w) \/ UNCHANGED task
    BY <1>6, DropFails
  <2>2. QED
    BY <1>1, <1>6, <2>1
<1>7. QED
  BY <1>2, <1>3, <1>4, <1>5, <1>6, KeepOrDrop

LEMMA NextAllPlaced == TypeInv /\ AllPlaced /\ [Next]_vars => AllPlaced'
<1> SUFFICES ASSUME TypeInv, AllPlaced, [Next]_vars PROVE AllPlaced'
  OBVIOUS
<1>1. CASE Main \/ Signal \/ UNCHANGED vars
  <2>1. UNCHANGED <<queue, stored, task, pc>>
    BY <1>1 DEF Main, Signal, SeeShutdown, RepollShutdown, Join, JoinNone, vars
  <2>2. QED
    BY <2>1 DEF AllPlaced, Placed, Failed, Holding
<1>2. QED
  BY <1>1, WorkerAllPlaced DEF Next

LEMMA InitAllPlaced == Init => AllPlaced
<1> SUFFICES ASSUME Init, NEW p \in Missing PROVE \E t \in queue : t.piece = p
  BY DEF AllPlaced, Placed
<1>1. [piece |-> p, retries |-> RetryLimit] \in queue
  BY DEF Init, FullQueue
<1>2. QED
  BY <1>1

LEMMA PlacedInvariant == Spec => [](TypeInv /\ AllPlaced)
<1>1. TypeInv /\ AllPlaced /\ [Next]_vars => (TypeInv /\ AllPlaced)'
  BY NextTypeInv, NextAllPlaced
<1>2. QED
  BY <1>1, InitTypeInv, InitAllPlaced, PTL DEF Spec

\* As long as no worker has failed, every missing piece waits, is in somebody's
\* hands or is stored, whatever order workers leave, fail and requeue in.
THEOREM NoPieceIsLost == Spec => []NoPieceLost
  BY PlacedInvariant, AllPlacedIsNoPieceLost, PTL

-----------------------------------------------------------------------------
(* Retries and shutdown *)

\* A task's retries are what its piece has left of its attempts.
RetryInv ==
  /\ \A t \in queue : attempts[t.piece] + t.retries <= RetryLimit
  /\ \A w \in Workers : Holding(w) =>
       attempts[task[w].piece] + task[w].retries <= RetryLimit + 1
  /\ BoundedAttempts

LEMMA TaskRetries ==
  ASSUME TypeInv
  PROVE  /\ \A t \in queue : t.piece \in Missing /\ t.retries \in Nat
         /\ \A w \in Workers : Holding(w) =>
              task[w].piece \in Missing /\ task[w].retries \in Nat
<1>1. \A n \in 0 .. RetryLimit : n \in Nat
  BY SchedulerAssumption DEF SchedulerAssumption
<1>2. QED
  BY <1>1, QueueTypes DEF TypeInv, TypeOK, Holding

LEMMA WorkerRetryInv ==
  ASSUME NEW w \in Workers, TypeInv, Apart, RetryInv, Worker(w)
  PROVE  RetryInv'
<1> USE SchedulerAssumption, TaskRetries
    DEF SchedulerAssumption, TypeInv, TypeOK, RetryInv, BoundedAttempts,
        Holding
<1>1. CASE UNCHANGED <<queue, stored, task, attempts>>
  BY <1>1
<1>2. CASE task' = [task EXCEPT ![w] = None] /\ UNCHANGED <<queue, attempts>>
  BY <1>2
<1>3. CASE WriteOk(w)
  BY <1>2, <1>3, StoreEffect
<1>4. CASE Requeue(w)
  <2>1. PICK t \in Tasks :
          /\ Holding(w)
          /\ t.piece = task[w].piece
          /\ t.retries + 1 = task[w].retries
          /\ queue' = queue \union {t}
          /\ task' = [task EXCEPT ![w] = None]
          /\ UNCHANGED <<stored, attempts>>
    BY <1>4, RequeueEffect
  <2>2. t.piece \in Missing /\ t.retries \in Nat
    <3>1. t.piece \in Missing /\ t.retries \in 0 .. RetryLimit
      BY QueueTypes
    <3>2. QED
      BY <3>1
  <2>3. attempts[t.piece] + t.retries <= RetryLimit
    BY <2>1, <2>2
  <2>4. QED
    BY <2>1, <2>3
<1>5. CASE PopTask(w)
  <2>1. ASSUME NEW t \in queue, t # None, t.piece \in Missing,
               queue' = queue \ {t}, task' = [task EXCEPT ![w] = t],
               attempts' = [attempts EXCEPT ![t.piece] = @ + 1]
        PROVE  RetryInv'
    <3>1. \A s \in queue' : s.piece # t.piece
      BY <2>1 DEF Apart
    <3>2. \A s \in queue' : attempts'[s.piece] + s.retries <= RetryLimit
      BY <2>1, <3>1
    <3>3. \A v \in Workers : (v # w /\ Holding(v)) => task[v].piece # t.piece
      BY DEF Apart
    <3>4. attempts'[t.piece] + t.retries <= RetryLimit + 1
      BY <2>1
    <3>5. \A v \in Workers : (v # w /\ Holding(v)) =>
            attempts'[task[v].piece] + task[v].retries <= RetryLimit + 1
      BY <2>1, <3>3
    <3>6. \A v \in Workers : Holding(v)' =>
            attempts'[task'[v].piece] + task'[v].retries <= RetryLimit + 1
      BY <2>1, <3>4, <3>5
    <3>7. BoundedAttempts'
      BY <2>1, <3>4
    <3>8. QED
      BY <3>2, <3>6, <3>7
  <2>2. QED
    BY <1>2, <1>5, <2>1, PopEffect
<1>6. QED
  BY <1>1, <1>2, <1>3, <1>4, <1>5, KeepOrDrop

LEMMA NextRetryInv ==
  TypeInv /\ Apart /\ RetryInv /\ [Next]_vars => RetryInv'
<1> SUFFICES ASSUME TypeInv, Apart, RetryInv, [Next]_vars PROVE RetryInv'
  OBVIOUS
<1>1. CASE Main \/ Signal \/ UNCHANGED vars
  <2>1. UNCHANGED <<queue, task, attempts>>
    BY <1>1 DEF Main, Signal, SeeShutdown, RepollShutdown, Join, JoinNone,
                vars, history
  <2>2. QED
    BY <2>1 DEF RetryInv, BoundedAttempts, Holding
<1>2. QED
  BY <1>1, WorkerRetryInv DEF Next

LEMMA InitRetryInv == Init => RetryInv
  BY SchedulerAssumption
     DEF SchedulerAssumption, Init, RetryInv, BoundedAttempts, Holding,
         FullQueue

\* A piece is begun at most once more than PIECE_REQUEUE_LIMIT.
THEOREM AttemptsAreBounded == Spec => []BoundedAttempts
<1>1. TypeInv /\ Apart /\ RetryInv /\ [Next]_vars => RetryInv'
  BY NextRetryInv
<1>2. RetryInv => BoundedAttempts
  BY DEF RetryInv
<1>3. QED
  BY <1>1, <1>2, InitRetryInv, ApartInvariant, PTL DEF Spec

\* The lock decides who may still begin a piece after the flag is set.
LateInv == /\ late \in {0, 1}
           /\ late = 1 => flag /\ \A w \in Workers : pc[w] # "pop"

LEMMA NextLateInv == TypeInv /\ LateInv /\ [Next]_vars => LateInv'
<1> SUFFICES ASSUME TypeInv, LateInv, [Next]_vars PROVE LateInv'
  OBVIOUS
<1> USE DEF LateInv
<1>1. CASE Main \/ Signal \/ UNCHANGED vars
  <2>1. late' = late /\ pc' = pc /\ (flag => flag')
    BY <1>1 DEF Main, Signal, SeeShutdown, RepollShutdown, Join, JoinNone,
                vars, history, mainVars
  <2>2. QED
    BY <2>1
<1>2. ASSUME NEW w \in Workers, PopTask(w) PROVE LateInv'
  <2>1. flag' = flag /\ late = 0
    BY <1>2 DEF PopTask, mainVars
  <2>2. \A v \in Workers : v # w => pc'[v] = pc[v] /\ pc[v] # "pop"
    BY <1>2 DEF PopTask, Goto, Leave, TypeInv, TypeOK, WorkerInv
  <2>3. pc'[w] # "pop"
    BY <1>2 DEF PopTask, Goto, Leave, TypeInv, TypeOK
  <2>4. late' = 0 \/ (late' = 1 /\ flag)
    BY <1>2, <2>1 DEF PopTask, history
  <2>5. QED
    BY <2>1, <2>2, <2>3, <2>4
<1>3. ASSUME NEW w \in Workers, Worker(w), ~PopTask(w) PROVE LateInv'
  <2>1. late' = late /\ (flag' <=> flag)
    BY <1>3, WorkerFrame
       DEF mainVars, Worker, Dequeue, LockQueue, CheckShutdown, Fetch,
           FetchOk, FetchErr, FetchHangs, Finish, LockStorage, WriteOk,
           WriteErr, HandleFailure, Requeue, Panic, Abort, history
  <2>2. CASE CheckShutdown(w)
    <3>1. flag => \A v \in Workers : pc'[v] = "pop" => pc[v] = "pop"
      BY <2>2 DEF CheckShutdown, Leave, TypeInv, TypeOK
    <3>2. QED
      BY <2>1, <3>1
  <2>3. CASE ~CheckShutdown(w)
    <3>1. \A v \in Workers : pc'[v] = "pop" => pc[v] = "pop"
      BY <1>3, <2>3
         DEF Worker, Dequeue, LockQueue, Fetch, FetchOk, FetchErr, FetchHangs,
             Finish, LockStorage, WriteOk, WriteErr, HandleFailure, Requeue,
             Panic, Abort, Goto, Leave, TypeInv, TypeOK
    <3>2. QED
      BY <2>1, <3>1
  <2>4. QED
    BY <2>2, <2>3
<1>4. QED
  BY <1>1, <1>2, <1>3 DEF Next

\* At most one piece is begun after shutdown was requested (dequeue_piece_task
\* reads the flag and pops under one lock).
THEOREM AtMostOneLateDequeue == Spec => []LateDequeues
<1>1. Init => LateInv
  BY DEF Init, LateInv
<1>2. LateInv => LateDequeues
  BY DEF LateInv, LateDequeues
<1>3. Spec => []TypeInv
  BY InitTypeInv, NextTypeInv, PTL DEF Spec
<1>4. QED
  BY <1>1, <1>2, <1>3, NextLateInv, PTL DEF Spec

-----------------------------------------------------------------------------
(* How the download ends *)

\* What the main task knows of the workers it has joined, and that somebody
\* is left to serve a queue that is not empty.
JoinInv ==
  /\ flag <=> interrupted
  /\ \A w \in joined : pc[w] \in Ended
  /\ (result \in {"none", "complete", "incomplete"} /\ ~interrupted) =>
       \A w \in joined : pc[w] = "ok"
  /\ result \in {"complete", "incomplete", "interrupted"} => joined = Workers
  /\ (~flag /\ queue # {}) => \E w \in Workers : pc[w] # "ok"
  /\ interrupted => result \notin {"complete", "incomplete"}
  /\ result # "incomplete"

\* A worker that has ended stays as it ended.
LEMMA EndedStays ==
  ASSUME NEW w \in Workers, TypeInv, Worker(w), NEW v \in Workers, pc[v] \in Ended
  PROVE  pc'[v] = pc[v]
<1>1. v # w
  BY DEF Worker, Dequeue, LockQueue, CheckShutdown, PopTask, Fetch, FetchOk,
         FetchErr, FetchHangs, Finish, LockStorage, WriteOk, WriteErr,
         HandleFailure, Requeue, Panic, Abort, Goto, Ended
<1>2. QED
  BY <1>1
     DEF Worker, Dequeue, LockQueue, CheckShutdown, PopTask, Fetch, FetchOk,
         FetchErr, FetchHangs, Finish, LockStorage, WriteOk, WriteErr,
         HandleFailure, Requeue, Panic, Abort, Goto, Leave, TypeInv, TypeOK

\* A worker ends well only when it finds the queue empty or the flag set.
LEMMA WorkerServes ==
  ASSUME NEW w \in Workers, TypeInv, Worker(w), ~flag, queue' # {}
  PROVE  pc'[w] # "ok"
<1> USE DEF TypeInv, TypeOK, Goto, Leave
<1>1. CASE LockQueue(w) \/ CheckShutdown(w)
  BY <1>1 DEF LockQueue, CheckShutdown
<1>2. CASE PopTask(w)
  BY <1>2 DEF PopTask
<1>3. CASE Fetch(w)
  BY <1>3 DEF Fetch, FetchOk, FetchErr, FetchHangs
<1>4. CASE Finish(w)
  BY <1>4 DEF Finish, LockStorage, WriteOk, WriteErr, HandleFailure, Requeue
<1>5. CASE Panic(w) \/ Abort(w)
  BY <1>5 DEF Panic, Abort
<1>6. QED
  BY <1>1, <1>2, <1>3, <1>4, <1>5 DEF Worker, Dequeue

\* join_next returns None to a download that is not interrupted only when
\* every piece is stored.
LEMMA JoinedHaveStored ==
  ASSUME TypeInv, AllPlaced, JoinInv, JoinNone, ~interrupted
  PROVE  stored = Missing
<1>1. \A w \in Workers : pc[w] = "ok"
  BY DEF JoinNone, JoinInv
<1>2. queue = {}
  BY <1>1, Zenon DEF JoinInv
<1>3. \A w \in Workers : ~Holding(w) /\ ~Failed(w)
  BY <1>1 DEF TypeInv, WorkerInv, Busy, Failed
<1>4. \A p \in Missing : p \in stored
  BY <1>2, <1>3 DEF AllPlaced, Placed
<1>5. QED
  BY <1>4 DEF TypeInv, TypeOK

LEMMA WorkerJoinInv ==
  ASSUME NEW w \in Workers, TypeInv, JoinInv, Worker(w)
  PROVE  JoinInv'
<1>1. UNCHANGED <<interrupted, flag, result, joined>>
  BY WorkerFrame DEF mainVars
<1>2. \A v \in joined : pc[v] \in Ended /\ pc'[v] = pc[v]
  BY EndedStays DEF JoinInv, TypeInv, TypeOK
<1>3. (~flag /\ queue' # {}) => \E v \in Workers : pc'[v] # "ok"
  BY WorkerServes
<1>4. QED
  BY <1>1, <1>2, <1>3 DEF JoinInv

LEMMA MainJoinInv ==
  ASSUME TypeInv, AllPlaced, JoinInv, Main \/ Signal
  PROVE  JoinInv'
<1>1. UNCHANGED <<queue, pc>>
  BY DEF Main, Signal, SeeShutdown, RepollShutdown, Join, JoinNone
<1>2. (~flag' /\ queue' # {}) => \E w \in Workers : pc'[w] # "ok"
  BY <1>1 DEF Main, Signal, SeeShutdown, RepollShutdown, Join, JoinNone,
              JoinInv
<1>3. CASE Signal
  BY <1>1, <1>3 DEF Signal, JoinInv
<1>4. CASE SeeShutdown
  BY <1>1, <1>2, <1>4 DEF SeeShutdown, JoinInv
<1>5. CASE RepollShutdown
  BY <1>1, <1>2, <1>5 DEF RepollShutdown, JoinInv
<1>6. ASSUME NEW w \in Workers, Join(w) PROVE JoinInv'
  BY <1>1, <1>2, <1>6 DEF Join, JoinInv, Ended
<1>7. CASE JoinNone
  <2>1. ~interrupted => result' = "complete"
    BY <1>7, JoinedHaveStored DEF JoinNone
  <2>2. interrupted => result' = "interrupted"
    BY <1>7 DEF JoinNone
  <2>3. QED
    BY <1>1, <1>2, <1>7, <2>1, <2>2 DEF JoinNone, JoinInv
<1>8. QED
  BY <1>3, <1>4, <1>5, <1>6, <1>7 DEF Main

LEMMA InitJoinInv == Init => JoinInv
<1> SUFFICES ASSUME Init PROVE JoinInv
  OBVIOUS
<1>1. Workers # {}
  BY WorkerCountAssumption, FS_EmptySet DEF WorkerCountAssumption
<1>2. QED
  BY <1>1 DEF Init, JoinInv

LEMMA JoinInvariant == Spec => [](TypeInv /\ AllPlaced /\ JoinInv)
<1>1. JoinInv /\ UNCHANGED vars => JoinInv'
  BY DEF JoinInv, vars, mainVars
<1>2. TypeInv /\ AllPlaced /\ JoinInv /\ [Next]_vars => JoinInv'
  BY <1>1, WorkerJoinInv, MainJoinInv DEF Next
<1>3. QED
  BY <1>2, InitJoinInv, PlacedInvariant, PTL DEF Spec

\* The error "Some pieces failed to download" is never reported: a download
\* whose workers have all ended well has stored every piece.
THEOREM DownloadIsNeverIncomplete == Spec => []NeverIncomplete
<1>1. JoinInv => NeverIncomplete
  BY DEF JoinInv, NeverIncomplete
<1>2. QED
  BY <1>1, JoinInvariant, PTL

\* An interrupted download never reports success, and reports the
\* interruption with every worker ended and both locks free.
THEOREM InterruptionIsQuiet == Spec => []InterruptedIsQuiet
<1>1. TypeInv /\ JoinInv => InterruptedIsQuiet
  <2> SUFFICES ASSUME TypeInv, JoinInv PROVE InterruptedIsQuiet
    OBVIOUS
  <2>1. interrupted => result \notin {"complete", "incomplete"}
    BY Zenon DEF JoinInv
  <2>2. ASSUME result = "interrupted"
        PROVE  /\ \A w \in Workers : pc[w] \in Ended
               /\ queueLock = None /\ storageLock = None
    <3>1. \A w \in Workers : pc[w] \in Ended
      BY <2>2 DEF JoinInv
    <3>2. QED
      BY <3>1 DEF TypeInv, TypeOK, WorkerInv, Ended
  <2>3. QED
    BY <2>1, <2>2 DEF InterruptedIsQuiet
<1>2. QED
  BY <1>1, JoinInvariant, PTL

-----------------------------------------------------------------------------
(* The download always goes on, and not for ever *)

\* A download that can do nothing is over.
THEOREM DownloadIsNeverStuck == Spec => []NeverStuck
<1>1. TypeInv /\ JoinInv => NeverStuck
  <2> SUFFICES ASSUME TypeInv, JoinInv, ~Over, ~CanJoin,
                      \A w \in Workers : ~CanGoOn(w) /\ ~Stalled(w)
               PROVE  FALSE
    BY DEF NeverStuck
  <2>1. queueLock = None
    <3>1. queueLock \in Workers \union {None}
      BY DEF TypeInv, TypeOK
    <3>2. \A w \in Workers : queueLock = w => pc[w] \in {"check", "pop"}
      BY DEF TypeInv, WorkerInv
    <3>3. QED
      BY <3>1, <3>2 DEF CanGoOn
  <2>2. storageLock = None
    <3>1. storageLock \in Workers \union {None}
      BY DEF TypeInv, TypeOK
    <3>2. \A w \in Workers : storageLock = w => pc[w] = "write"
      BY DEF TypeInv, WorkerInv
    <3>3. QED
      BY <3>1, <3>2 DEF CanGoOn
  <2>3. result \in Results
    BY DEF TypeInv, TypeOK
  <2>4. ASSUME NEW w \in Workers PROVE pc[w] \in Ended
    <3>1. pc[w] \in Positions
      BY DEF TypeInv, TypeOK
    <3>2. CASE pc[w] = "stalled"
      <4>1. result \in {"complete", "incomplete", "interrupted"}
        BY <2>3, <3>2 DEF CanGoOn, Stalled, Results
      <4>2. w \in joined
        BY <4>1 DEF JoinInv
      <4>3. QED
        BY <4>2 DEF JoinInv
    <3>3. QED
      BY <2>1, <2>2, <3>1, <3>2 DEF CanGoOn, Positions
  <2>5. result = "none"
    BY <2>4 DEF Over
  <2>6. joined = Workers \/ \E w \in Workers : w \notin joined
    BY DEF TypeInv, TypeOK
  <2>7. QED
    BY <2>4, <2>5, <2>6 DEF CanJoin
<1>2. QED
  BY <1>1, JoinInvariant, PTL

LEMMA FiniteTasks == IsFiniteSet(Tasks)
<1> DEFINE R == 0 .. RetryLimit
           make == [x \in Missing \X R |-> [piece |-> x[1], retries |-> x[2]]]
<1>1. IsFiniteSet(R)
  <2>1. 0 \in Int /\ RetryLimit \in Int
    BY SchedulerAssumption DEF SchedulerAssumption
  <2>2. QED
    BY <2>1, FS_Interval
<1>2. IsFiniteSet(Missing)
  BY WorkerCountAssumption DEF WorkerCountAssumption
<1>3. make \in Surjection(Missing \X R, Tasks)
  <2>3. make \in [Missing \X R -> Tasks]
    BY DEF Tasks
  <2> SUFFICES ASSUME NEW t \in Tasks
               PROVE  \E x \in Missing \X R : make[x] = t
    BY <2>3 DEF Surjection
  <2>1. t = [piece |-> t.piece, retries |-> t.retries]
        /\ <<t.piece, t.retries>> \in Missing \X R
    BY DEF Tasks
  <2>2. make[<<t.piece, t.retries>>] = t
    BY <2>1
  <2>4. QED
    BY <2>1, <2>2
<1> HIDE DEF R
<1>4. IsFiniteSet(Missing \X R)
  BY <1>1, <1>2, FS_Product
<1> HIDE DEF make
<1>5. QED
  BY <1>3, <1>4, FS_Surjection DEF ExistsSurjection

MeasureTypes == /\ Waiting \in [Tasks -> Nat]
                /\ Working \in [Workers -> Nat]

LEMMA Measured == TypeInv => MeasureTypes
<1> SUFFICES ASSUME TypeInv PROVE MeasureTypes
  OBVIOUS
<1>1. \A t \in Tasks : t.retries \in Nat
  BY SchedulerAssumption DEF SchedulerAssumption, Tasks
<1>2. \A w \in Workers : Holding(w) => task[w] \in Tasks
  BY DEF TypeInv, TypeOK, Holding
<1>3. \A p \in Positions : Rank[p] \in Nat
  BY DEF Rank
<1>4. \A w \in Workers : pc[w] \in Positions
  BY DEF TypeInv, TypeOK
<1>5. \A w \in Workers : Rank[pc[w]] \in Nat
  BY <1>3, <1>4
<1>6. Waiting \in [Tasks -> Nat]
  BY <1>1 DEF Waiting
<1>7. Working \in [Workers -> Nat]
  BY <1>1, <1>2, <1>5 DEF Working
<1>8. QED
  BY <1>6, <1>7 DEF MeasureTypes

LEMMA StillMeasured == TypeInv' => MeasureTypes'
  BY Measured, PTL

\* What a step of one worker does to the sums.
LEMMA WorkingChange ==
  ASSUME NEW w \in Workers, TypeInv, TypeInv',
         \A v \in Workers \ {w} : pc'[v] = pc[v] /\ task'[v] = task[v]
  PROVE  /\ SumFunction(Working)' = SumFunction(Working) + Working'[w] - Working[w]
         /\ SumFunction(Working) \in Nat
<1>1. /\ Working \in [Workers -> Nat] /\ Working' \in [Workers -> Nat]
      /\ IsFiniteSet(Workers)
  BY Measured, StillMeasured, WorkerCountAssumption
     DEF MeasureTypes, WorkerCountAssumption
<1>2. ASSUME NEW v \in Workers \ {w} PROVE Working'[v] = Working[v]
  BY DEF Working, Holding
<1>3. SumFunction(Working') = SumFunction(Working) + Working'[w] - Working[w]
  BY <1>1, <1>2, SumChange
<1>4. SumFunction(Working) \in Nat
  BY <1>1, SumType
<1>5. QED
  BY <1>3, <1>4

LEMMA WaitingChange ==
  ASSUME NEW t \in Tasks, TypeInv, TypeInv',
         \A s \in Tasks \ {t} : s \in queue' <=> s \in queue
  PROVE  /\ SumFunction(Waiting)' = SumFunction(Waiting) + Waiting'[t] - Waiting[t]
         /\ SumFunction(Waiting) \in Nat
<1>1. /\ Waiting \in [Tasks -> Nat] /\ Waiting' \in [Tasks -> Nat]
      /\ IsFiniteSet(Tasks)
  BY Measured, StillMeasured, FiniteTasks DEF MeasureTypes
<1>2. ASSUME NEW s \in Tasks \ {t} PROVE Waiting'[s] = Waiting[s]
  BY DEF Waiting
<1>3. SumFunction(Waiting') = SumFunction(Waiting) + Waiting'[t] - Waiting[t]
  BY <1>1, <1>2, SumChange
<1>4. SumFunction(Waiting) \in Nat
  BY <1>1, SumType
<1>5. QED
  BY <1>3, <1>4

LEMMA Ranks ==
  /\ \A p \in Ended : Rank[p] = 0
  /\ Rank["pop"] = 1 /\ Rank["stalled"] = 1 /\ Rank["check"] = 2
  /\ Rank["idle"] = 3 /\ Rank["write"] = 4 /\ Rank["requeue"] = 4
  /\ Rank["store"] = 5 /\ Rank["failed"] = 5 /\ Rank["fetch"] = 6
BY DEF Rank, Positions, Ended

\* A worker that neither takes nor requeues a task goes down.
LEMMA WorkerLowers ==
  ASSUME NEW w \in Workers, TypeInv, Worker(w), queue' = queue
  PROVE  Working'[w] < Working[w]
<1> DEFINE r == task[w].retries
<1>1. /\ Working[w] = Rank[pc[w]] + (IF Holding(w) THEN 6 * task[w].retries ELSE 0)
      /\ Working'[w] = Rank[pc'[w]] + (IF task'[w] # None THEN 6 * task'[w].retries ELSE 0)
  BY DEF Working, Holding
<1>2. Holding(w) => r \in Nat
  BY TaskRetries
<1>3. Holding(w) <=> pc[w] \in Busy
  BY DEF TypeInv, WorkerInv
<1>4. pc \in [Workers -> Positions] /\ task \in [Workers -> Tasks \union {None}]
  BY DEF TypeInv, TypeOK
<1>5. \A t \in Tasks : t # None
  BY QueueTypes
<1> HIDE DEF r
<1>6. ASSUME task'[w] = task[w], Rank[pc'[w]] < Rank[pc[w]],
             Rank[pc'[w]] \in Nat, Rank[pc[w]] \in Nat
      PROVE  Working'[w] < Working[w]
  BY <1>1, <1>2, <1>6 DEF r, Holding
<1>7. ASSUME task'[w] = None, Rank[pc'[w]] < Rank[pc[w]],
             Rank[pc'[w]] \in Nat, Rank[pc[w]] \in Nat
      PROVE  Working'[w] < Working[w]
  BY <1>1, <1>2, <1>7 DEF r
<1>8. ASSUME NEW how, Leave(w, how) PROVE pc'[w] = how /\ task'[w] = None
  BY <1>4, <1>8 DEF Leave
<1>9. ASSUME NEW from, NEW to, Goto(w, from, to) PROVE pc[w] = from /\ pc'[w] = to
  BY <1>4, <1>9 DEF Goto
<1>10. CASE LockQueue(w)
  <2>1. pc[w] = "idle" /\ pc'[w] = "check" /\ task' = task
    BY <1>9, <1>10 DEF LockQueue
  <2>2. QED
    BY <1>6, <2>1, Ranks
<1>11. CASE CheckShutdown(w)
  <2>1. /\ pc[w] = "check"
        /\ \/ pc'[w] = "ok" /\ task'[w] = None
           \/ pc'[w] = "pop" /\ task' = task
    BY <1>8, <1>9, <1>11 DEF CheckShutdown
  <2>2. QED
    BY <1>6, <1>7, <2>1, Ranks DEF Ended
<1>12. CASE PopTask(w)
  <2>1. ASSUME NEW t \in queue, queue' = queue \ {t} PROVE FALSE
    BY <2>1
  <2>2. pc[w] = "pop" /\ pc'[w] = "ok" /\ task'[w] = None
    BY <1>8, <1>12, <2>1 DEF PopTask
  <2>3. QED
    BY <1>7, <2>2, Ranks DEF Ended
<1>13. CASE Fetch(w)
  <2>1. pc[w] = "fetch" /\ pc'[w] \in {"store", "failed", "stalled"} /\ task' = task
    BY <1>9, <1>13 DEF Fetch, FetchOk, FetchErr, FetchHangs
  <2>2. QED
    BY <1>6, <2>1, Ranks
<1>14. CASE LockStorage(w)
  <2>1. pc[w] = "store" /\ pc'[w] = "write" /\ task' = task
    BY <1>9, <1>14 DEF LockStorage
  <2>2. QED
    BY <1>6, <2>1, Ranks
<1>15. CASE WriteOk(w)
  <2>1. pc[w] = "write" /\ pc'[w] = "idle" /\ task'[w] = None
    BY <1>4, <1>9, <1>15 DEF WriteOk
  <2>2. QED
    BY <1>7, <2>1, Ranks
<1>16. CASE WriteErr(w)
  <2>1. pc[w] = "write" /\ pc'[w] = "err" /\ task'[w] = None
    BY <1>8, <1>16 DEF WriteErr
  <2>2. QED
    BY <1>7, <2>1, Ranks DEF Ended
<1>17. CASE HandleFailure(w)
  <2>1. /\ pc[w] = "failed"
        /\ \/ pc'[w] = "err" /\ task'[w] = None
           \/ pc'[w] = "requeue" /\ task' = task
    BY <1>8, <1>9, <1>17 DEF HandleFailure
  <2>2. QED
    BY <1>6, <1>7, <2>1, Ranks DEF Ended
<1>18. CASE Requeue(w)
  <2>1. pc[w] = "requeue" /\ pc'[w] = "idle" /\ task'[w] = None
    BY <1>4, <1>9, <1>18 DEF Requeue
  <2>2. QED
    BY <1>7, <2>1, Ranks
<1>19. CASE Panic(w)
  <2>1. pc[w] \in {"fetch", "write"} /\ pc'[w] = "panicked" /\ task'[w] = None
    BY <1>8, <1>19 DEF Panic
  <2>2. QED
    BY <1>7, <2>1, Ranks DEF Ended
<1>20. CASE Abort(w)
  <2>1. /\ pc[w] \in {"idle", "fetch", "stalled", "store", "write", "requeue"}
        /\ pc'[w] = "aborted" /\ task'[w] = None
    BY <1>8, <1>20 DEF Abort
  <2>2. QED
    BY <1>7, <2>1, Ranks DEF Ended
<1>21. QED
  BY <1>10, <1>11, <1>12, <1>13, <1>14, <1>15, <1>16, <1>17, <1>18, <1>19, <1>20
     DEF Worker, Dequeue, Finish

\* A worker that takes or requeues one pays for it.
LEMMA WorkerAdvances ==
  ASSUME NEW w \in Workers, TypeInv, TypeInv', Worker(w)
  PROVE  SumFunction(Waiting)' + SumFunction(Working)'
           < SumFunction(Waiting) + SumFunction(Working)
<1>1. \A v \in Workers \ {w} : pc'[v] = pc[v] /\ task'[v] = task[v]
  BY DEF Worker, Dequeue, LockQueue, CheckShutdown, PopTask, Fetch, FetchOk,
         FetchErr, FetchHangs, Finish, LockStorage, WriteOk, WriteErr,
         HandleFailure, Requeue, Panic, Abort, Goto, Leave, TypeInv, TypeOK
<1>2. /\ SumFunction(Working)' = SumFunction(Working) + Working'[w] - Working[w]
      /\ SumFunction(Working) \in Nat
  BY <1>1, WorkingChange
<1>3. Working[w] \in Nat /\ Working'[w] \in Nat
  BY Measured, StillMeasured DEF MeasureTypes
<1>4. Working[w] = Rank[pc[w]] + (IF Holding(w) THEN 6 * task[w].retries ELSE 0)
  BY DEF Working
<1>5. Working'[w] = Rank[pc'[w]] + (IF task'[w] # None THEN 6 * task'[w].retries ELSE 0)
  BY DEF Working, Holding
<1>6. pc \in [Workers -> Positions] /\ task \in [Workers -> Tasks \union {None}]
  BY DEF TypeInv, TypeOK
<1>7. \A t \in Tasks : /\ t # None /\ t.retries \in Nat
                       /\ Waiting[t] = IF t \in queue THEN 6 * (t.retries + 1) ELSE 0
                       /\ Waiting'[t] = IF t \in queue' THEN 6 * (t.retries + 1) ELSE 0
  <2>1. \A n \in 0 .. RetryLimit : n \in Nat
    BY SchedulerAssumption DEF SchedulerAssumption
  <2>2. QED
    BY <2>1, QueueTypes DEF Waiting
<1>8. CASE queue' = queue
  <2>1. Working'[w] < Working[w]
    BY <1>8, WorkerLowers
  <2>2. SumFunction(Waiting)' = SumFunction(Waiting)
    <3>1. Waiting' = Waiting
      BY <1>8 DEF Waiting
    <3>2. QED
      BY <3>1
  <2>3. SumFunction(Waiting) \in Nat
    BY Measured, FiniteTasks, SumType DEF MeasureTypes
  <2>4. QED
    BY <1>2, <1>3, <2>1, <2>2, <2>3
<1>9. ASSUME NEW t \in queue, PopTask(w), queue' = queue \ {t},
             task' = [task EXCEPT ![w] = t], Goto(w, "pop", "fetch")
      PROVE  SumFunction(Waiting)' + SumFunction(Working)'
               < SumFunction(Waiting) + SumFunction(Working)
  <2>1. t \in Tasks
    BY DEF TypeInv, TypeOK
  <2>2. /\ SumFunction(Waiting)' = SumFunction(Waiting) + Waiting'[t] - Waiting[t]
        /\ SumFunction(Waiting) \in Nat
    BY <1>9, <2>1, WaitingChange
  <2>3. Waiting[t] = 6 * (t.retries + 1) /\ Waiting'[t] = 0 /\ t.retries \in Nat
    BY <1>7, <1>9, <2>1
  <2>4. pc[w] = "pop" /\ pc'[w] = "fetch" /\ task'[w] = t /\ t # None
    BY <1>6, <1>7, <1>9, <2>1 DEF Goto
  <2>5. ~Holding(w)
    BY <2>4 DEF TypeInv, WorkerInv, Busy
  <2>6. Working[w] = 1 /\ Working'[w] = 6 + 6 * t.retries
    BY <1>4, <1>5, <2>4, <2>5, Ranks
  <2>7. QED
    BY <1>2, <2>2, <2>3, <2>6
<1>10. ASSUME Requeue(w), queue' # queue
       PROVE  SumFunction(Waiting)' + SumFunction(Working)'
                < SumFunction(Waiting) + SumFunction(Working)
  <2>1. PICK t \in Tasks :
          /\ Holding(w)
          /\ t.piece = task[w].piece
          /\ t.retries + 1 = task[w].retries
          /\ queue' = queue \union {t}
          /\ task' = [task EXCEPT ![w] = None]
          /\ UNCHANGED <<stored, attempts>>
    BY <1>10, RequeueEffect
  <2>2. /\ SumFunction(Waiting)' = SumFunction(Waiting) + Waiting'[t] - Waiting[t]
        /\ SumFunction(Waiting) \in Nat
    BY <2>1, WaitingChange
  <2>3. Waiting[t] = 0 /\ Waiting'[t] = 6 * (t.retries + 1) /\ t.retries \in Nat
    BY <1>7, <1>10, <2>1
  <2>4. pc[w] = "requeue" /\ pc'[w] = "idle" /\ task'[w] = None
    BY <1>6, <1>10, <2>1 DEF Requeue, Goto
  <2>5. Working[w] = 4 + 6 * (t.retries + 1) /\ Working'[w] = 3
    BY <1>4, <1>5, <2>1, <2>4, Ranks
  <2>6. QED
    BY <1>2, <2>2, <2>3, <2>5
<1>11. CASE PopTask(w)
  BY <1>8, <1>9, <1>11 DEF PopTask
<1>12. CASE ~PopTask(w) /\ ~Requeue(w)
  <2>1. queue' = queue
    BY <1>12 DEF Worker, Dequeue, LockQueue, CheckShutdown, Fetch, FetchOk, FetchErr,
                 FetchHangs, Finish, LockStorage, WriteOk, WriteErr, HandleFailure,
                 Panic, Abort
  <2>2. QED
    BY <1>8, <2>1
<1>13. QED
  BY <1>8, <1>10, <1>11, <1>12

LEMMA MainAdvances ==
  ASSUME TypeInv, Main \/ Signal
  PROVE  Outside' < Outside
<1> USE DEF Outside
<1> DEFINE c == Cardinality(Workers \ joined)
<1>1. c \in Nat
  <2>1. IsFiniteSet(Workers \ joined)
    BY WorkerCountAssumption, FS_Difference DEF WorkerCountAssumption
  <2>2. QED
    BY <2>1, FS_CardinalityType
<1>2. /\ signal \in BOOLEAN /\ interrupted \in BOOLEAN
      /\ signal' \in BOOLEAN /\ interrupted' \in BOOLEAN
  BY Zenon DEF TypeInv, TypeOK, Main, Signal, SeeShutdown, RepollShutdown, Join, JoinNone
<1>3. CASE Signal \/ SeeShutdown \/ RepollShutdown \/ JoinNone
  <2>1. joined' = joined
    BY <1>3 DEF Signal, SeeShutdown, RepollShutdown, JoinNone
  <2>2. c' = c
    BY <2>1
  <2> HIDE DEF c
  <2>3. QED
    BY <1>1, <1>2, <1>3, <2>2 DEF Signal, SeeShutdown, RepollShutdown, JoinNone, Count, c
<1>4. ASSUME NEW w \in Workers, Join(w)
      PROVE  Outside' < Outside
  <2>1. Workers \ joined' = (Workers \ joined) \ {w} /\ w \in Workers \ joined
    BY <1>4 DEF Join
  <2>2. c' = c - 1
    <3>1. IsFiniteSet(Workers \ joined)
      BY WorkerCountAssumption, FS_Difference DEF WorkerCountAssumption
    <3>2. QED
      BY <2>1, <3>1, FS_RemoveElement
  <2> HIDE DEF c
  <2>3. /\ Count(~interrupted)' = Count(~interrupted)
        /\ Count(~signal)' = Count(~signal)
        /\ Count(result = "none") = 1
        /\ Count(result = "none")' \in {0, 1}
        /\ Count(~interrupted) \in {0, 1} /\ Count(~signal) \in {0, 1}
    BY <1>4 DEF Join, Count
  <2>4. QED
    BY <1>1, <2>2, <2>3 DEF c
<1>5. QED
  BY <1>3, <1>4 DEF Main

LEMMA LessOrSame ==
  ASSUME NEW a \in Nat, NEW b \in Nat, a < b \/ a = b
  PROVE  a <= b
OBVIOUS

LEMMA LessInAll ==
  ASSUME NEW a \in Nat, NEW b \in Nat, NEW c \in Nat, NEW d \in Nat,
         a <= c, b <= d, a < c \/ b < d
  PROVE  a + b < c + d
OBVIOUS

LEMMA InitStepsLeft == Init => StepsLeft <= MaxSteps
<1> SUFFICES ASSUME Init PROVE StepsLeft <= MaxSteps
  OBVIOUS
<1> DEFINE n == Cardinality(Missing)
           k == Cardinality(Workers)
           c == 6 * (RetryLimit + 1)
<1>1. TypeInv
  BY InitTypeInv
<1>2. n \in Nat /\ k \in Nat /\ c \in Nat
  BY WorkerCountAssumption, SchedulerAssumption, FS_CardinalityType
     DEF WorkerCountAssumption, SchedulerAssumption
<1>3. SumFunction(Waiting) <= c * n
  <2>1. FullQueue \in SUBSET Tasks
    BY FullQueueTasks
  <2>2. \A t \in Tasks : Waiting[t] <= IF t \in FullQueue THEN c ELSE 0
    BY <1>2 DEF Init, Waiting, FullQueue
  <2>3. Cardinality(FullQueue) = n
    <3> DEFINE make == [p \in Missing |-> [piece |-> p, retries |-> RetryLimit]]
    <3>1. make \in Bijection(Missing, FullQueue)
      BY DEF Bijection, Injection, Surjection, IsInjective, FullQueue
    <3>2. IsFiniteSet(Missing)
      BY WorkerCountAssumption DEF WorkerCountAssumption
    <3> HIDE DEF make
    <3>3. ExistsBijection(Missing, FullQueue)
      BY <3>1 DEF ExistsBijection
    <3>4. QED
      BY <3>2, <3>3, FS_Bijection
  <2> HIDE DEF c, n
  <2>4. Waiting \in [Tasks -> Nat]
    BY <1>1, Measured DEF MeasureTypes
  <2>5. QED
    BY <1>2, <2>1, <2>2, <2>3, <2>4, FiniteTasks, SumUpTo
<1>4. SumFunction(Working) <= 3 * k
  <2>1. \A w \in Workers : Working[w] <= IF w \in Workers THEN 3 ELSE 0
    BY Ranks DEF Init, Working, Holding
  <2>2. Working \in [Workers -> Nat] /\ IsFiniteSet(Workers)
    BY <1>1, Measured, WorkerCountAssumption DEF MeasureTypes, WorkerCountAssumption
  <2>3. 3 \in Nat /\ Workers \in SUBSET Workers
    OBVIOUS
  <2>4. QED
    BY <2>1, <2>2, <2>3, SumUpTo
<1>5. Outside = k + 3
  <2>1. Workers \ joined = Workers
    BY DEF Init
  <2>2. QED
    BY <1>2, <2>1 DEF Init, Outside, Count
<1>6. SumFunction(Waiting) \in Nat /\ SumFunction(Working) \in Nat
  BY <1>1, Measured, FiniteTasks, SumType, WorkerCountAssumption
     DEF MeasureTypes, WorkerCountAssumption
<1>7. MaxSteps = c * n + 4 * k + 3 /\ c * n \in Nat
  <2>1. MaxSteps = c * n + 4 * k + 3
    BY DEF MaxSteps
  <2> HIDE DEF c, n
  <2>2. QED
    BY <1>2, <2>1
<1> HIDE DEF c, n, k
<1>8. QED
  BY <1>2, <1>3, <1>4, <1>5, <1>6, <1>7 DEF StepsLeft, Inside

LEMMA StepsLeftType == TypeInv => StepsLeft \in Nat
<1> SUFFICES ASSUME TypeInv PROVE StepsLeft \in Nat
  OBVIOUS
<1>1. SumFunction(Waiting) \in Nat /\ SumFunction(Working) \in Nat
  BY Measured, FiniteTasks, SumType, WorkerCountAssumption
     DEF MeasureTypes, WorkerCountAssumption
<1>2. Cardinality(Workers \ joined) \in Nat
  BY WorkerCountAssumption, FS_Difference, FS_CardinalityType DEF WorkerCountAssumption
<1>3. QED
  BY <1>1, <1>2 DEF StepsLeft, Inside, Outside, Count

LEMMA StepsLeftTypeStill == TypeInv' => (StepsLeft \in Nat)'
BY StepsLeftType, PTL

LEMMA SmallerStill ==
  ASSUME NEW a \in Nat, NEW b \in Nat, NEW c \in 0 .. b, a < c
  PROVE  a \in 0 .. b
OBVIOUS

\* Every step brings the end nearer: a download of n pieces by k workers takes
\* at most MaxSteps, that is 6n(RetryLimit + 1) + 4k + 3, in whatever order they
\* come and whatever fails.
THEOREM StepsAreBounded == Spec => StepsRunOut /\ [](StepsLeft \in 0 .. MaxSteps)
<1>1. TypeInv /\ TypeInv' /\ [Next]_vars => [StepsLeft' < StepsLeft]_vars
  <2> SUFFICES ASSUME TypeInv, TypeInv', Next PROVE StepsLeft' < StepsLeft
    OBVIOUS
  <2>1. Inside \in Nat /\ Inside' \in Nat
    <3>1. SumFunction(Waiting) \in Nat /\ SumFunction(Working) \in Nat
      BY Measured, FiniteTasks, SumType, WorkerCountAssumption
         DEF MeasureTypes, WorkerCountAssumption
    <3>2. SumFunction(Waiting') \in Nat /\ SumFunction(Working') \in Nat
      BY StillMeasured, FiniteTasks, SumType, WorkerCountAssumption
         DEF MeasureTypes, WorkerCountAssumption
    <3>3. QED
      BY <3>1, <3>2 DEF Inside
  <2>2. Outside \in Nat /\ Outside' \in Nat
    <3>1. IsFiniteSet(Workers \ joined) /\ IsFiniteSet(Workers \ joined')
      BY WorkerCountAssumption, FS_Difference DEF WorkerCountAssumption
    <3>2. Cardinality(Workers \ joined) \in Nat /\ Cardinality(Workers \ joined') \in Nat
      BY <3>1, FS_CardinalityType
    <3>3. QED
      BY <3>2 DEF Count, Outside
  <2>3. StepsLeft = Inside + Outside /\ StepsLeft' = Inside' + Outside'
    BY DEF StepsLeft
  <2>4. CASE Main \/ Signal
    <3>1. Outside' < Outside
      BY <2>4, MainAdvances
    <3>2. Inside' = Inside
      <4>1. UNCHANGED <<queue, task, pc>>
        BY <2>4 DEF Main, Signal, SeeShutdown, RepollShutdown, Join, JoinNone
      <4>2. Waiting' = Waiting /\ Working' = Working
        BY <4>1 DEF Waiting, Working, Holding
      <4>3. QED
        BY <4>2 DEF Inside
    <3>3. Inside' <= Inside /\ Outside' <= Outside
      BY <2>1, <2>2, <3>1, <3>2, LessOrSame, Zenon
    <3>4. Inside' + Outside' < Inside + Outside
      BY <2>1, <2>2, <3>1, <3>3, LessInAll, Zenon
    <3>5. QED
      BY <2>3, <3>4, Zenon
  <2>5. ASSUME NEW w \in Workers, Worker(w) PROVE StepsLeft' < StepsLeft
    <3>1. Inside' < Inside
      BY <2>5, WorkerAdvances DEF Inside
    <3>2. Outside' = Outside
      BY <2>5, WorkerFrame DEF mainVars, Outside, Count
    <3>3. Inside' <= Inside /\ Outside' <= Outside
      BY <2>1, <2>2, <3>1, <3>2, LessOrSame, Zenon
    <3>4. Inside' + Outside' < Inside + Outside
      BY <2>1, <2>2, <3>1, <3>3, LessInAll, Zenon
    <3>5. QED
      BY <2>3, <3>4, Zenon
  <2>6. QED
    BY <2>4, <2>5 DEF Next
<1>2. Spec => []TypeInv
  BY InitTypeInv, NextTypeInv, PTL DEF Spec
<1>3. TypeInv => StepsLeft \in Nat
  BY StepsLeftType
<1>4. TypeInv' => StepsLeft' \in Nat
  BY StepsLeftTypeStill
<1>5. MaxSteps \in Nat
  <2> DEFINE a == 6 * (RetryLimit + 1)
             n == Cardinality(Missing)
             k == Cardinality(Workers)
  <2>1. a \in Nat /\ n \in Nat /\ k \in Nat /\ MaxSteps = a * n + 4 * k + 3
    BY WorkerCountAssumption, SchedulerAssumption, FS_CardinalityType
       DEF WorkerCountAssumption, SchedulerAssumption, MaxSteps
  <2> HIDE DEF a, n, k
  <2>2. QED
    BY <2>1
<1>6. /\ TypeInv /\ TypeInv' /\ [Next]_vars /\ StepsLeft \in 0 .. MaxSteps
      => (StepsLeft \in 0 .. MaxSteps)'
  <2> SUFFICES ASSUME TypeInv, TypeInv', [Next]_vars, StepsLeft \in 0 .. MaxSteps
               PROVE  StepsLeft' \in 0 .. MaxSteps
    OBVIOUS
  <2>1. StepsLeft' \in Nat
    BY <1>4
  <2>2. CASE Next /\ vars' # vars
    <3>1. StepsLeft' < StepsLeft
      BY <1>1, <2>2
    <3>2. QED
      BY <1>5, <2>1, <3>1, SmallerStill
  <2>3. CASE UNCHANGED vars
    <3>1. StepsLeft' = StepsLeft
      BY <2>3 DEF vars, mainVars, StepsLeft, Inside, Outside, Waiting, Working,
                  Holding, Count
    <3>2. QED
      BY <3>1
  <2>4. QED
    BY <2>2, <2>3
<1>7. Init => StepsLeft \in 0 .. MaxSteps
  <2> SUFFICES ASSUME Init PROVE StepsLeft \in 0 .. MaxSteps
    OBVIOUS
  <2>1. StepsLeft \in Nat
    BY <1>3, InitTypeInv
  <2>2. QED
    BY <1>5, <2>1, InitStepsLeft
<1>8. QED
  BY <1>1, <1>2, <1>6, <1>7, PTL DEF Spec, StepsRunOut
=============================================================================
