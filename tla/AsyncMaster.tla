---------------------------- MODULE AsyncMaster ----------------------------
(***************************************************************************)
(* Who runs the calls of SharedExecutor: threads that own a Master and     *)
(* call it directly, or tasks of an event loop that await the methods of   *)
(* an AsyncMaster (src/pyxcp/master/async_master.py).                      *)
(*                                                                         *)
(* An AsyncMaster serialises its calls with an asyncio.Lock (first come,   *)
(* first served) and a pool of worker threads: one of its own with a       *)
(* single worker, or one that its creator supplies.  A task can be         *)
(* cancelled while it waits for the lock, for the worker or for the        *)
(* result; the worker goes on with what it has begun.  close() runs        *)
(* Master.close() like a call and shuts a pool of its own down.            *)
(***************************************************************************)
EXTENDS SharedExecutor, FiniteSets

CONSTANTS
  AsyncM,         \* the Master behind the AsyncMaster
  Closers,        \* the calls that are AsyncMaster.close()
  Workers,        \* number of threads of an executor that is supplied
  NoCall,         \* nobody holds the lock
  Programs        \* the assignments of calls to Masters to start from

ASSUME MastersAssumption == AsyncM \in Masters /\ Programs \subseteq [Calls -> Masters]
ASSUME CallsAssumption ==
  /\ IsFiniteSet(Calls) /\ Closers \subseteq Calls /\ NoCall \notin Calls
  /\ None \notin Handlers /\ Raised \notin Handlers /\ None # Raised
ASSUME NumbersAssumption == Workers \in Nat \ {0} /\ MaxFailures \in Nat

VARIABLES
  owns,           \* _owns_executor
  task,           \* task[c]: the task that awaits call c
  lock,           \* the holder of AsyncMaster._lock
  waiters,        \* the tasks that wait for it
  pool,           \* the calls that wait for a worker
  closed,         \* AsyncMaster._closed
  shut,           \* _executor_shutdown
  blocked,        \* the event loop is in executor.shutdown(wait=True)
  masterClosed    \* Master.close() has run

loopVars == <<owns, task, lock, waiters, pool, closed, shut, blocked, masterClosed>>
vars == <<sharedVars, loopVars>>

Async == {c \in Calls : master[c] = AsyncM}
Ended == {"done", "failed", "cancelled"}

TypeOK ==
  /\ SharedTypeOK
  /\ owns \in BOOLEAN
  /\ task \in [Calls -> {"none", "waiting", "submitted"} \cup Ended]
  /\ lock \in Calls \cup {NoCall}
  /\ waiters \in Seq(Calls) /\ pool \in Seq(Calls)
  /\ closed \in BOOLEAN /\ shut \in BOOLEAN /\ blocked \in BOOLEAN
  /\ masterClosed \in BOOLEAN

Init ==
  /\ master \in Programs
  /\ SharedInit
  /\ owns \in BOOLEAN
  /\ task = [c \in Calls |-> "none"]
  /\ lock = NoCall
  /\ waiters = <<>> /\ pool = <<>>
  /\ closed = FALSE /\ shut = FALSE /\ blocked = FALSE /\ masterClosed = FALSE

-----------------------------------------------------------------------------
(* A thread calls a method of its own Master: one call after the other.    *)
CallDirectly(c) ==
  /\ c \notin Async \cup Closers
  /\ \A d \in Calls : master[d] = master[c] => ~Inside(d)
  /\ Begin(c)
  /\ UNCHANGED loopVars

(* _shutdown_executor waits for the workers, and with it the event loop.   *)
ShutdownPool ==
  IF owns THEN blocked' = ~shut /\ shut' = TRUE ELSE UNCHANGED <<blocked, shut>>

(* A task awaits a method: it queues for the lock.  The second close()     *)
(* only shuts the pool down, and blocks the loop until it is idle.         *)
SetTask(c, s) == task' = [task EXCEPT ![c] = s]
Await(c) ==
  /\ c \in Async /\ task[c] = "none" /\ ~blocked
  /\ IF c \in Closers /\ closed
       THEN /\ SetTask(c, "done")
            /\ ShutdownPool
            /\ UNCHANGED <<waiters, closed>>
       ELSE /\ SetTask(c, "waiting")
            /\ waiters' = Append(waiters, c)
            /\ closed' = (closed \/ c \in Closers)
            /\ UNCHANGED <<blocked, shut>>
  /\ UNCHANGED <<sharedVars, owns, lock, pool, masterClosed>>

(* `finally: self._shutdown_executor()' of close().                        *)
ShutdownForgotten(c) == UNCHANGED <<blocked, shut>>   \* Mutant
CloserLeaves(c) ==
  IF c \in Closers THEN ShutdownPool ELSE UNCHANGED <<blocked, shut>>

(* The first in the queue takes the free lock and hands its call to the    *)
(* pool, which refuses it (RuntimeError) after shutdown.                   *)
LockIgnored == TRUE   \* Mutant
LockFree == lock = NoCall
Acquire(c) ==
  /\ task[c] = "waiting" /\ LockFree /\ ~blocked
  /\ waiters # <<>> /\ Head(waiters) = c
  /\ waiters' = Tail(waiters)
  /\ IF shut
       THEN /\ SetTask(c, "failed") /\ CloserLeaves(c)
            /\ UNCHANGED <<lock, pool>>
       ELSE /\ SetTask(c, "submitted")
            /\ lock' = c /\ pool' = Append(pool, c)
            /\ UNCHANGED <<shut, blocked>>
  /\ UNCHANGED <<sharedVars, owns, closed, masterClosed>>

(* A free worker takes the oldest call of the pool.                        *)
AnyWorker == TRUE   \* Mutant
Threads == IF owns THEN 1 ELSE Workers
FreeWorker == Cardinality({c \in Async : Inside(c)}) < Threads
WorkerBegins(c) ==
  /\ pool # <<>> /\ Head(pool) = c /\ FreeWorker
  /\ pool' = Tail(pool)
  /\ IF c \in Closers
       THEN /\ Goto(c, "end") /\ masterClosed' = TRUE
            /\ UNCHANGED <<master, handler, res, returned, executorVars, service,
                           failures, succeeded>>
       ELSE Begin(c) /\ UNCHANGED masterClosed
  /\ UNCHANGED <<owns, task, lock, waiters, closed, shut, blocked>>

(* The worker is done: the task resumes, gives up the lock and ends.       *)
UnlockForgotten == lock' = lock   \* Mutant
Unlock == lock' = NoCall
Resume(c) ==
  /\ task[c] = "submitted" /\ pc[c] = "end" /\ ~blocked
  /\ SetTask(c, "done")
  /\ Unlock
  /\ CloserLeaves(c)
  /\ UNCHANGED <<sharedVars, owns, waiters, pool, closed, masterClosed>>

(* A task is cancelled: its call is withdrawn unless a worker has begun.   *)
WithoutAt(s, i) == SubSeq(s, 1, i - 1) \o SubSeq(s, i + 1, Len(s))
Without(s, c) ==
  IF \E i \in 1 .. Len(s) : s[i] = c
    THEN WithoutAt(s, CHOOSE i \in 1 .. Len(s) : s[i] = c)
    ELSE s
Cancel(c) ==
  /\ task[c] \in {"waiting", "submitted"} /\ ~blocked
  /\ SetTask(c, "cancelled")
  /\ waiters' = Without(waiters, c)
  /\ pool' = Without(pool, c)
  /\ IF lock = c THEN Unlock ELSE UNCHANGED lock
  /\ CloserLeaves(c)
  /\ UNCHANGED <<sharedVars, owns, closed, masterClosed>>

(* shutdown(wait=True) returns when every worker has stopped.              *)
ShutdownReturns ==
  /\ blocked /\ pool = <<>> /\ \A c \in Async : ~Inside(c)
  /\ blocked' = FALSE
  /\ UNCHANGED <<sharedVars, owns, task, lock, waiters, pool, closed, shut, masterClosed>>

-----------------------------------------------------------------------------
(* What threads and the event loop go on with by themselves.               *)
Progress(c) ==
  \/ Run(c) /\ UNCHANGED loopVars
  \/ Acquire(c) \/ WorkerBegins(c) \/ Resume(c)

Next ==
  \/ \E c \in Calls : CallDirectly(c) \/ Await(c) \/ Cancel(c) \/ Progress(c)
  \/ ShutdownReturns

Spec == Init /\ [][Next]_vars

FairSpec ==
  Spec /\ (\A c \in Calls : WF_vars(Progress(c))) /\ WF_vars(ShutdownReturns)
-----------------------------------------------------------------------------
(* What the code relies on, written down nowhere: all calls of the process *)
(* are made on one Master, by one thread or through an AsyncMaster with    *)
(* one worker.                                                             *)
Discipline == Threads = 1 /\ \A c, d \in Calls : master[c] = master[d]

(* Never are two calls in the Executor at once, however tasks are          *)
(* cancelled; between calls its stack is empty.                            *)
Exclusive ==
  Discipline =>
    /\ \A c, d \in Calls : Inside(c) /\ Inside(d) => c = d
    /\ (\A c \in Calls : ~Inside(c)) => handlerStack = <<>> /\ errorCode = "none"

(* A call that returns returns the answer to its own command.              *)
SeparateCalls == \A c \in Calls : returned[c] \in {None, Raised, Main(c)}

(* The same under the discipline, where moreover the command has succeeded *)
(* exactly once: none is executed again after it has succeeded, or left    *)
(* out because another call has emptied the stack.                         *)
OwnResult ==
  Discipline =>
    /\ SeparateCalls
    /\ \A c \in Calls : succeeded[c] <= 1 /\ (returned[c] = Main(c) => succeeded[c] = 1)

(* close() comes after every call that was begun: once Master.close() has  *)
(* run no call is running and none will be.                                *)
NothingAfterClose ==
  owns /\ masterClosed =>
    \A c \in Async : ~Inside(c) /\ (c \in Closers \/ task[c] # "submitted" \/ pc[c] = "end")

(* After the first close() has returned without being cancelled the Master *)
(* is closed, if no second close() shut the pool down before it.           *)
CloseCloses ==
  \A c \in Closers :
    task[c] = "done" /\ (\A d \in Closers \ {c} : task[d] = "none") => masterClosed /\ (owns => shut)

(* Every awaited call ends, whatever is cancelled or closed meanwhile.     *)
CallsEnd == \A c \in Calls :
  task[c] = "waiting" ~> task[c] \in Ended
=============================================================================
