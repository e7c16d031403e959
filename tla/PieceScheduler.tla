--------------------------- MODULE PieceScheduler ---------------------------
(***************************************************************************)
(* The full-file download of src/download.rs once the storage is open: the *)
(* shared queue of missing pieces, the workers that serve it, the shutdown *)
(* flag, and the select loop of download_file_with_shutdown that joins the *)
(* workers and decides how the download ends.                              *)
(*                                                                         *)
(* One action of a worker is what it does between two points where another *)
(* task can interfere: an await, or the read of the shared flag, which the *)
(* main task sets without holding the queue's lock.  What fetching a piece *)
(* does with its peers is one step that succeeds, fails or, with a silent  *)
(* peer, never ends; writing it is one step under the storage's lock (the  *)
(* module ResumeStorage opens it up).  The order of the queue is data that *)
(* no property here tells apart: dequeuing takes any task.                 *)
(***************************************************************************)
EXTENDS Integers, FiniteSets, Functions

CONSTANTS
  Workers,       \* the spawned tasks: min(queue length, WORKER_COUNT)
  Missing,       \* the pieces the storage misses when the download starts
  RetryLimit,    \* PIECE_REQUEUE_LIMIT
  Futures,       \* what polling the finished shutdown future again does:
                 \* a subset of {"pends", "panics"}
  Faults,        \* what may go wrong, see the actions that name it
  None           \* no worker, no task

AllFaults == {"shutdown", "silent", "panic", "write"}

ASSUME SchedulerAssumption ==
  /\ RetryLimit \in Nat
  /\ Futures \subseteq {"pends", "panics"}
  /\ Faults \subseteq AllFaults
  /\ None \notin Workers

\* Workers are spawned only for a non-empty queue, never more than its length.
ASSUME WorkerCountAssumption ==
  /\ IsFiniteSet(Missing)
  /\ IsFiniteSet(Workers)
  /\ Cardinality(Workers) \in 1 .. Cardinality(Missing)

Tasks == [piece : Missing, retries : 0 .. RetryLimit]

ASSUME TaskAssumption == None \notin Tasks

VARIABLES
  future,        \* the kind of shutdown future the caller passed
  signal,        \* the shutdown future is ready (Ctrl-C was pressed)
  interrupted,   \* the select loop has seen it
  flag,          \* shutdown_requested
  result,        \* how the main task ended; "none" while it runs
  joined,        \* the workers join_next has returned
  queue,         \* piece_queue
  queueLock,     \* the worker inside the queue's critical section
  storageLock,   \* the worker that holds the storage
  stored,        \* the missing pieces the storage has completed
  pc,            \* where each worker is
  task,          \* the task each worker holds
  attempts,      \* history: how often each piece was begun
  late           \* history: tasks taken after shutdown was requested

mainVars == <<signal, interrupted, flag, result, joined>>
history == <<attempts, late>>
vars == <<future, mainVars, queue, queueLock, storageLock, stored, pc, task,
          history>>

FullQueue == {[piece |-> p, retries |-> RetryLimit] : p \in Missing}

Init == /\ future \in Futures
        /\ signal = FALSE
        /\ interrupted = FALSE
        /\ flag = FALSE
        /\ result = "none"
        /\ joined = {}
        /\ queue = FullQueue
        /\ queueLock = None
        /\ storageLock = None
        /\ stored = {}
        /\ pc = [w \in Workers |-> "idle"]
        /\ task = [w \in Workers |-> None]
        /\ attempts = [p \in Missing |-> 0]
        /\ late = 0

\* A worker goes from one position to another.
Goto(w, from, to) == /\ pc[w] = from
                     /\ pc' = [pc EXCEPT ![w] = to]

\* A worker's task ends: what it holds is dropped.
Leave(w, how) == /\ pc' = [pc EXCEPT ![w] = how]
                 /\ task' = [task EXCEPT ![w] = None]

Unlocked(lock, w) == IF lock = w THEN None ELSE lock

-----------------------------------------------------------------------------
(* dequeue_piece_task *)

LockQueue(w) == /\ queueLock = None
                /\ Goto(w, "idle", "check")
                /\ queueLock' = w
                /\ UNCHANGED <<future, mainVars, queue, storageLock, stored,
                               task, history>>

\* Mutant of CheckShutdown: the lock is given back before the pop.
CheckShutdownUnlocked(w) ==
  /\ pc[w] = "check"
  /\ \/ flag /\ Leave(w, "ok")
     \/ ~flag /\ Goto(w, "check", "pop") /\ UNCHANGED task
  /\ queueLock' = None
  /\ UNCHANGED <<future, mainVars, queue, storageLock, stored, history>>

\* The flag is read with the lock held.
CheckShutdown(w) ==
  /\ pc[w] = "check"
  /\ \/ /\ flag
        /\ Leave(w, "ok")
        /\ queueLock' = None
     \/ /\ ~flag
        /\ Goto(w, "check", "pop")
        /\ UNCHANGED <<queueLock, task>>
  /\ UNCHANGED <<future, mainVars, queue, storageLock, stored, history>>

\* Mutant of PopTask: the task is copied, not taken out of the queue.
PeekTask(w) ==
  /\ pc[w] = "pop"
  /\ queueLock' = None
  /\ \/ queue = {} /\ Leave(w, "ok") /\ UNCHANGED history
     \/ \E t \in queue :
          /\ task' = [task EXCEPT ![w] = t]
          /\ Goto(w, "pop", "fetch")
          /\ attempts' = [attempts EXCEPT ![t.piece] = @ + 1]
          /\ late' = IF flag THEN late + 1 ELSE late
  /\ UNCHANGED <<future, mainVars, queue, storageLock, stored>>

\* Mutant of PopTask: a worker that finds the queue empty looks again.
PopTaskPatiently(w) ==
  /\ pc[w] = "pop"
  /\ queueLock' = None
  /\ \/ queue = {} /\ Goto(w, "pop", "idle") /\ UNCHANGED <<queue, task, history>>
     \/ \E t \in queue :
          /\ queue' = queue \ {t}
          /\ task' = [task EXCEPT ![w] = t]
          /\ Goto(w, "pop", "fetch")
          /\ attempts' = [attempts EXCEPT ![t.piece] = @ + 1]
          /\ late' = IF flag THEN late + 1 ELSE late
  /\ UNCHANGED <<future, mainVars, storageLock, stored>>

\* pop_front; an empty queue ends the worker.
PopTask(w) ==
  /\ pc[w] = "pop"
  /\ queueLock' = None
  /\ \/ /\ queue = {}
        /\ Leave(w, "ok")
        /\ UNCHANGED <<queue, history>>
     \/ \E t \in queue :
          /\ queue' = queue \ {t}
          /\ task' = [task EXCEPT ![w] = t]
          /\ Goto(w, "pop", "fetch")
          /\ attempts' = [attempts EXCEPT ![t.piece] = @ + 1]
          /\ late' = IF flag THEN late + 1 ELSE late
  /\ UNCHANGED <<future, mainVars, storageLock, stored>>

-----------------------------------------------------------------------------
(* download_piece_with_retry_from_peers, as the worker sees it *)

FetchOk(w) == /\ Goto(w, "fetch", "store")
              /\ UNCHANGED <<future, mainVars, queue, queueLock, storageLock,
                             stored, task, history>>

FetchErr(w) == /\ Goto(w, "fetch", "failed")
               /\ UNCHANGED <<future, mainVars, queue, queueLock, storageLock,
                              stored, task, history>>

\* A peer accepts the connection and never answers: the handshake is read
\* without a timeout.
FetchHangs(w) == /\ "silent" \in Faults
                 /\ Goto(w, "fetch", "stalled")
                 /\ UNCHANGED <<future, mainVars, queue, queueLock,
                                storageLock, stored, task, history>>

-----------------------------------------------------------------------------
(* The worker stores the piece, requeues it or gives up *)

LockStorage(w) == /\ storageLock = None
                  /\ Goto(w, "store", "write")
                  /\ storageLock' = w
                  /\ UNCHANGED <<future, mainVars, queue, queueLock, stored,
                                 task, history>>

WriteOk(w) == /\ Goto(w, "write", "idle")
              /\ stored' = stored \union {task[w].piece}
              /\ storageLock' = None
              /\ task' = [task EXCEPT ![w] = None]
              /\ UNCHANGED <<future, mainVars, queue, queueLock, history>>

\* write_verified_piece returns an error, and so does the worker.
WriteErr(w) == /\ "write" \in Faults
               /\ pc[w] = "write"
               /\ Leave(w, "err")
               /\ storageLock' = None
               /\ UNCHANGED <<future, mainVars, queue, queueLock, stored,
                              history>>

\* Mutant of HandleFailure: shutdown drops the task but not the worker.
DropTaskOnShutdown(w) ==
  /\ pc[w] = "failed"
  /\ \/ task[w].retries = 0 /\ Leave(w, "err")
     \/ task[w].retries > 0 /\ flag /\ Leave(w, "idle")
     \/ task[w].retries > 0 /\ ~flag /\ Goto(w, "failed", "requeue") /\ UNCHANGED task
  /\ UNCHANGED <<future, mainVars, queue, queueLock, storageLock, stored,
                 history>>

\* Mutant of HandleFailure: the guard on retries_left is dropped.
RequeueUnguarded(w) ==
  /\ pc[w] = "failed"
  /\ \/ flag /\ Leave(w, "err")
     \/ ~flag /\ Goto(w, "failed", "requeue") /\ UNCHANGED task
  /\ UNCHANGED <<future, mainVars, queue, queueLock, storageLock, stored,
                 history>>

\* A failed task is given up when it has no retry left or shutdown has been
\* requested, and goes back to the queue otherwise.
HandleFailure(w) ==
  /\ pc[w] = "failed"
  /\ \/ /\ task[w].retries = 0 \/ flag
        /\ Leave(w, "err")
     \/ /\ task[w].retries > 0
        /\ ~flag
        /\ Goto(w, "failed", "requeue")
        /\ UNCHANGED task
  /\ UNCHANGED <<future, mainVars, queue, queueLock, storageLock, stored,
                 history>>

\* Mutant of Requeue: the task goes back with all its retries.
RequeueForEver(w) ==
  /\ queueLock = None
  /\ Goto(w, "requeue", "idle")
  /\ queue' = queue \union {task[w]}
  /\ task' = [task EXCEPT ![w] = None]
  /\ UNCHANGED <<future, mainVars, queueLock, storageLock, stored, history>>

\* Mutant of Requeue: the worker goes on without pushing its task.
ForgetTask(w) ==
  /\ Goto(w, "requeue", "idle")
  /\ task' = [task EXCEPT ![w] = None]
  /\ UNCHANGED <<future, mainVars, queue, queueLock, storageLock, stored,
                 history>>

\* requeue_piece_task: push and sort under the queue's lock.
Requeue(w) ==
  /\ queueLock = None
  /\ Goto(w, "requeue", "idle")
  /\ queue' = queue \union {[task[w] EXCEPT !.retries = @ - 1]}
  /\ task' = [task EXCEPT ![w] = None]
  /\ UNCHANGED <<future, mainVars, queueLock, storageLock, stored, history>>

\* Mutant of Panic: a panic leaves the storage locked.
PanicHoldingStorage(w) ==
  /\ "panic" \in Faults
  /\ pc[w] \in {"fetch", "write"}
  /\ Leave(w, "panicked")
  /\ UNCHANGED <<future, mainVars, queue, queueLock, storageLock, stored,
                 history>>

\* A panic inside a task (join_next returns it as an error).
Panic(w) == /\ "panic" \in Faults
            /\ pc[w] \in {"fetch", "write"}
            /\ Leave(w, "panicked")
            /\ storageLock' = Unlocked(storageLock, w)
            /\ UNCHANGED <<future, mainVars, queue, queueLock, stored,
                           history>>

-----------------------------------------------------------------------------
(* The select loop of download_file_with_shutdown *)

\* Ctrl-C.
Signal == /\ "shutdown" \in Faults
          /\ ~signal
          /\ signal' = TRUE
          /\ UNCHANGED <<future, interrupted, flag, result, joined, queue,
                         queueLock, storageLock, stored, pc, task, history>>

\* The shutdown branch of the select.
SeeShutdown == /\ result = "none"
               /\ signal
               /\ ~interrupted
               /\ interrupted' = TRUE
               /\ flag' = TRUE
               /\ UNCHANGED <<future, signal, result, joined, queue,
                              queueLock, storageLock, stored, pc, task,
                              history>>

\* The loop selects over the finished shutdown future again.  An async block
\* panics when it is polled after it has completed.
RepollShutdown == /\ result = "none"
                  /\ interrupted
                  /\ future = "panics"
                  /\ result' = "panic"
                  /\ UNCHANGED <<future, signal, interrupted, flag, joined,
                                 queue, queueLock, storageLock, stored, pc,
                                 task, history>>

Ended == {"ok", "err", "panicked", "aborted"}

\* Mutant of Join: a failure ends an interrupted download at once, as an
\* interruption.
JoinHasty(w) == /\ result = "none"
                /\ pc[w] \in Ended
                /\ w \notin joined
                /\ joined' = joined \union {w}
                /\ result' = CASE pc[w] = "ok" -> "none"
                               [] pc[w] # "ok" /\ interrupted -> "interrupted"
                               [] OTHER -> "error"
                /\ UNCHANGED <<future, signal, interrupted, flag, queue,
                               queueLock, storageLock, stored, pc, task,
                               history>>

\* Mutant of Join: a failure ends the download even when it is interrupted.
JoinAbrupt(w) == /\ result = "none"
                 /\ pc[w] \in Ended
                 /\ w \notin joined
                 /\ joined' = joined \union {w}
                 /\ result' = IF pc[w] = "ok" THEN "none" ELSE "error"
                 /\ UNCHANGED <<future, signal, interrupted, flag, queue,
                                queueLock, storageLock, stored, pc, task,
                                history>>

\* join_next returns a worker.  Its failure ends the download unless the
\* download is interrupted, which waits for the others.
Join(w) == /\ result = "none"
           /\ pc[w] \in Ended
           /\ w \notin joined
           /\ joined' = joined \union {w}
           /\ result' = IF pc[w] = "ok" \/ interrupted THEN "none" ELSE "error"
           /\ UNCHANGED <<future, signal, interrupted, flag, queue, queueLock,
                          storageLock, stored, pc, task, history>>

\* join_next returns None: the storage has no other owner left.  An
\* incomplete storage is an error, a complete one is finalized.
JoinNone == /\ result = "none"
            /\ joined = Workers
            /\ result' = CASE interrupted -> "interrupted"
                           [] ~interrupted /\ stored = Missing -> "complete"
                           [] OTHER -> "incomplete"
            /\ UNCHANGED <<future, signal, interrupted, flag, joined, queue,
                           queueLock, storageLock, stored, pc, task, history>>

\* The main task is gone and with it the JoinSet: every worker that is left
\* is aborted at the await where it is.
Abort(w) == /\ result \in {"error", "panic"}
            /\ pc[w] \in {"idle", "fetch", "stalled", "store", "write",
                          "requeue"}
            /\ Leave(w, "aborted")
            /\ storageLock' = Unlocked(storageLock, w)
            /\ UNCHANGED <<future, mainVars, queue, queueLock, stored,
                           history>>

-----------------------------------------------------------------------------
Dequeue(w) == LockQueue(w) \/ CheckShutdown(w) \/ PopTask(w)

Fetch(w) == FetchOk(w) \/ FetchErr(w) \/ FetchHangs(w)

Finish(w) == \/ LockStorage(w) \/ WriteOk(w) \/ WriteErr(w)
             \/ HandleFailure(w) \/ Requeue(w)

Worker(w) == Dequeue(w) \/ Fetch(w) \/ Finish(w) \/ Panic(w) \/ Abort(w)

Main == SeeShutdown \/ RepollShutdown \/ (\E w \in Workers : Join(w)) \/ JoinNone

Next == Main \/ Signal \/ \E w \in Workers : Worker(w)

(* Tasks that can run are polled, fetching a piece ends unless a peer is   *)
(* silent, and tokio's mutexes serve their waiters in order.               *)
Fairness == /\ WF_vars(SeeShutdown)
            /\ WF_vars(\E w \in Workers : Join(w))
            /\ WF_vars(JoinNone)
            /\ \A w \in Workers :
                 /\ SF_vars(LockQueue(w))
                 /\ WF_vars(CheckShutdown(w))
                 /\ WF_vars(PopTask(w))
                 /\ WF_vars(Fetch(w))
                 /\ SF_vars(LockStorage(w))
                 /\ WF_vars(WriteOk(w) \/ WriteErr(w))
                 /\ WF_vars(HandleFailure(w))
                 /\ SF_vars(Requeue(w))
                 /\ WF_vars(Abort(w))

Spec == Init /\ [][Next]_vars /\ Fairness
-----------------------------------------------------------------------------
(* Correctness *)

Positions == {"idle", "check", "pop", "fetch", "stalled", "store", "write",
              "failed", "requeue"} \union Ended

Results == {"none", "complete", "incomplete", "interrupted", "error", "panic"}

\* Every variable has the type of what it stands for.
TypeOK == /\ future \in Futures
          /\ signal \in BOOLEAN
          /\ interrupted \in BOOLEAN
          /\ flag \in BOOLEAN
          /\ result \in Results
          /\ joined \subseteq Workers
          /\ queue \subseteq Tasks
          /\ queueLock \in Workers \union {None}
          /\ storageLock \in Workers \union {None}
          /\ stored \subseteq Missing
          /\ pc \in [Workers -> Positions]
          /\ task \in [Workers -> Tasks \union {None}]
          /\ attempts \in [Missing -> Nat]
          /\ late \in Nat

Holding(w) == task[w] # None

Queued == {t.piece : t \in queue}

Held == {task[w].piece : w \in {v \in Workers : Holding(v)}}

\* A missing piece is in one place only: waiting once, in the hands of one
\* worker, or stored.  Two workers never fetch or write the same piece.
OneOwner ==
  /\ \A s, t \in queue : s.piece = t.piece => s = t
  /\ \A v, w \in Workers : (v # w /\ Holding(v) /\ Holding(w)) =>
                              task[v].piece # task[w].piece
  /\ Queued \intersect Held = {}
  /\ stored \intersect (Queued \union Held) = {}

\* No piece is forgotten: unless a worker has failed, each missing piece is
\* waiting, in somebody's hands or stored, although a worker leaves as soon
\* as it finds the queue empty while others may still requeue.
NoPieceLost == (\A w \in Workers : pc[w] \notin {"err", "panicked", "aborted"})
                 => Missing = stored \union Queued \union Held

\* "Some pieces failed to download" cannot happen: a download whose workers
\* all end well has every piece.
NeverIncomplete == result # "incomplete"

\* A piece is fetched at most once more than it may be requeued.
BoundedAttempts == \A p \in Missing : attempts[p] <= RetryLimit + 1

\* After shutdown is requested, at most one more piece is begun in all: the
\* one of a worker that had already read the flag inside the queue's lock.
LateDequeues == late <= 1

\* A shutdown seen before the last worker is joined is never reported as
\* success, and when it is reported no worker is left in the middle of a
\* write and no lock is held.
InterruptedIsQuiet ==
  /\ interrupted => result \notin {"complete", "incomplete"}
  /\ result = "interrupted" =>
       /\ \A w \in Workers : pc[w] \in Ended
       /\ queueLock = None /\ storageLock = None

Over == result # "none" /\ \A w \in Workers : pc[w] \in Ended

NoStall == \A w \in Workers : pc[w] # "stalled"

\* How many steps of its own a worker can take at a position before it looks
\* for a task again or ends.
Rank == [p \in Positions |-> CASE p \in Ended -> 0
                               [] p \in {"pop", "stalled"} -> 1
                               [] p = "check" -> 2
                               [] p = "idle" -> 3
                               [] p \in {"write", "requeue"} -> 4
                               [] p \in {"store", "failed"} -> 5
                               [] OTHER -> 6]

\* A task that waits costs its fetch, and one more for each retry it has left.
Waiting == [t \in Tasks |-> IF t \in queue THEN 6 * (t.retries + 1) ELSE 0]

Working == [w \in Workers |->
              Rank[pc[w]] + (IF Holding(w) THEN 6 * task[w].retries ELSE 0)]

Count(P) == IF P THEN 1 ELSE 0

\* The steps that the main task and the user can still take, and the workers.
Outside == Cardinality(Workers \ joined) + Count(result = "none")
             + Count(~interrupted) + Count(~signal)

Inside == SumFunction(Waiting) + SumFunction(Working)

StepsLeft == Inside + Outside

MaxSteps == 6 * (RetryLimit + 1) * Cardinality(Missing) + 4 * Cardinality(Workers) + 3

\* Every step of a worker, of the main task or of the user brings the end
\* nearer: no failure, requeue or wait can be repeated for ever, whatever the
\* order in which the tasks are run and the faults that happen.
StepsRunOut == [][StepsLeft' < StepsLeft]_vars

\* What a worker can do at its position, and the main task in its loop.
CanGoOn(w) == \/ pc[w] \in {"check", "pop", "fetch", "write", "failed"}
              \/ pc[w] \in {"idle", "requeue"} /\ queueLock = None
              \/ pc[w] = "store" /\ storageLock = None
              \/ pc[w] = "stalled" /\ result \in {"error", "panic"}

CanJoin == /\ result = "none"
           /\ joined = Workers \/ \E w \in Workers \ joined : pc[w] \in Ended

Stalled(w) == pc[w] = "stalled" /\ result = "none"

\* Until the download is over somebody can go on, be it only a worker that
\* waits for a silent peer: nobody waits for a lock whose holder has ended or
\* waits in turn, and no worker's end is missed.
NeverStuck == Over \/ CanJoin \/ \E w \in Workers : CanGoOn(w) \/ Stalled(w)

\* With peers that answer, fail or hang up, the download ends and leaves no
\* worker behind: nobody waits for somebody who waits.
Termination == []NoStall => <>Over

\* With a shutdown future that can be polled again, an interrupted download
\* waits for its workers and then reports the interruption.
InterruptionDrains == (future = "pends" /\ []NoStall) =>
                        (interrupted ~> result = "interrupted")

\* "Shutdown now stops dequeuing new work at the queue boundary instead of
\* aborting workers": no worker of an interrupted download is aborted.
ShutdownKeepsWorkers == interrupted => \A w \in Workers : pc[w] # "aborted"
=============================================================================
