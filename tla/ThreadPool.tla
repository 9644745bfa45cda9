----------------------------- MODULE ThreadPool -----------------------------
(***************************************************************************)
(* The coroutine thread pool of src/test_threadpool/main.cpp.  Worker      *)
(* threads take coroutines from a queue under a mutex and resume them; a   *)
(* coroutine that awaits ScheduleOnPool puts itself into the queue.  The   *)
(* destructor sets mIsDone WITHOUT the mutex, notifies everybody, joins    *)
(* the workers and destroys what is still queued.                          *)
(*                                                                         *)
(* The steps are as small as the unprotected mIsDone requires: a worker    *)
(* that found the wait predicate false holds the mutex until it is in the  *)
(* condition variable's wait set, and in between mIsDone may be set and    *)
(* notify_all called.  The queue's order is left out.                      *)
(*                                                                         *)
(* A definition named X_Flaw, before a definition X, is X with a plausible *)
(* mistake in it: it shows that a property would notice the mistake.       *)
(***************************************************************************)
EXTENDS Integers, FiniteSets

CONSTANTS
  Workers,   \* the pool's threads
  Tasks,     \* the coroutines main starts
  MaxHops    \* how often a coroutine awaits the pool again (bound)

ASSUME WorkersAssumption == IsFiniteSet(Workers)
ASSUME TasksAssumption   == IsFiniteSet(Tasks)
ASSUME HopsAssumption    == MaxHops \in Nat

VARIABLES
  mIsDone,
  mTasks,      \* the coroutines queued
  mMutex,      \* the worker between the test of the predicate and the wait
  wpc,         \* where each worker is; "waiting" is mCv's wait set
  running,     \* the coroutines each worker has taken (at most one)
  hops,        \* how often a coroutine may still await the pool
  mpc,         \* where the thread that owns the pool is
  started, finished, destroyed   \* coroutines, by what became of them

vars == <<mIsDone, mTasks, mMutex, wpc, running, hops, mpc,
          started, finished, destroyed>>
fates == <<started, finished, destroyed>>

WorkerPcs == {"loop", "test", "block", "waiting", "resume", "notify", "finished"}
MainPcs   == {"idle", "notify", "notify_all", "join", "clear", "done"}

TypeOK ==
  /\ mIsDone \in BOOLEAN
  /\ mTasks \in SUBSET Tasks
  /\ mMutex \in {{}} \cup {{w} : w \in Workers}
  /\ wpc \in [Workers -> WorkerPcs]
  /\ running \in [Workers -> {{}} \cup {{t} : t \in Tasks}]
  /\ hops \in [Tasks -> 0..MaxHops]
  /\ mpc \in MainPcs
  /\ started \in SUBSET Tasks
  /\ finished \in SUBSET Tasks
  /\ destroyed \in SUBSET Tasks

Init ==
  /\ mIsDone = FALSE
  /\ mTasks = {}
  /\ mMutex = {}
  /\ wpc = [w \in Workers |-> "loop"]
  /\ running = [w \in Workers |-> {}]
  /\ hops = [t \in Tasks |-> MaxHops]
  /\ mpc = "idle"
  /\ started = {}
  /\ finished = {}
  /\ destroyed = {}

Waiting == {w \in Workers : wpc[w] = "waiting"}
Free    == mMutex = {}

\* mCv.notify_one(), the notifying worker (if any) moving to "loop".
NotifyOne(wpc1) ==
  IF Waiting = {} THEN wpc' = wpc1
                  ELSE \E w \in Waiting : wpc' = [wpc1 EXCEPT ![w] = "test"]

-----------------------------------------------------------------------------
(* The owner of the pool.                                                  *)

\* The push in Schedule forgets what is queued.
Start_Slot(t) ==
  /\ mpc = "idle"
  /\ Free
  /\ t \notin started
  /\ mTasks' = {t}
  /\ started' = started \cup {t}
  /\ mpc' = "notify"
  /\ UNCHANGED <<mIsDone, mMutex, wpc, running, hops, finished, destroyed>>

\* A coroutine is called; its co_await suspends it and Schedule queues it.
Start(t) ==
  /\ mpc = "idle"
  /\ Free
  /\ t \notin started
  /\ mTasks' = mTasks \cup {t}
  /\ started' = started \cup {t}
  /\ mpc' = "notify"
  /\ UNCHANGED <<mIsDone, mMutex, wpc, running, hops, finished, destroyed>>

\* Notifying only when nothing else was queued.
StartNotify_First ==
  /\ mpc = "notify"
  /\ IF Cardinality(mTasks) = 1 THEN NotifyOne(wpc) ELSE UNCHANGED wpc
  /\ mpc' = "idle"
  /\ UNCHANGED <<mIsDone, mTasks, mMutex, running, hops, fates>>

\* Schedule notifies one worker, after releasing the mutex.
StartNotify ==
  /\ mpc = "notify"
  /\ NotifyOne(wpc)
  /\ mpc' = "idle"
  /\ UNCHANGED <<mIsDone, mTasks, mMutex, running, hops, fates>>

\* ~ThreadPool: the flag, without the mutex, ...
SetDone ==
  /\ mpc = "idle"
  /\ mIsDone' = TRUE
  /\ mpc' = "notify_all"
  /\ UNCHANGED <<mTasks, mMutex, wpc, running, hops, fates>>

\* ... then notify_all, ...
NotifyAll ==
  /\ mpc = "notify_all"
  /\ wpc' = [w \in Workers |-> IF w \in Waiting THEN "test" ELSE wpc[w]]
  /\ mpc' = "join"
  /\ UNCHANGED <<mIsDone, mTasks, mMutex, running, hops, fates>>

\* ... then every thread is joined, ...
Join ==
  /\ mpc = "join"
  /\ \A w \in Workers : wpc[w] = "finished"
  /\ mpc' = "clear"
  /\ UNCHANGED <<mIsDone, mTasks, mMutex, wpc, running, hops, fates>>

\* ... and the coroutines still queued are destroyed.
Clear ==
  /\ mpc = "clear"
  /\ Free
  /\ destroyed' = destroyed \cup mTasks
  /\ mTasks' = {}
  /\ mpc' = "done"
  /\ UNCHANGED <<mIsDone, mMutex, wpc, running, hops, started, finished>>

Destructor == NotifyAll \/ Join \/ Clear

-----------------------------------------------------------------------------
(* A worker.                                                               *)

\* while( !mIsDone )
Loop(w) ==
  /\ wpc[w] = "loop"
  /\ wpc' = [wpc EXCEPT ![w] = IF mIsDone THEN "finished" ELSE "test"]
  /\ UNCHANGED <<mIsDone, mTasks, mMutex, running, hops, mpc, fates>>

\* With the mutex (again): a coroutine is taken.
Take(w) ==
  /\ wpc[w] = "test"
  /\ Free
  /\ \E t \in mTasks :
       /\ mTasks' = mTasks \ {t}
       /\ running' = [running EXCEPT ![w] = {t}]
  /\ wpc' = [wpc EXCEPT ![w] = "resume"]
  /\ UNCHANGED <<mIsDone, mMutex, hops, mpc, fates>>

\* With the mutex: done and nothing queued.
Quit(w) ==
  /\ wpc[w] = "test"
  /\ Free
  /\ mTasks = {}
  /\ mIsDone
  /\ wpc' = [wpc EXCEPT ![w] = "finished"]
  /\ UNCHANGED <<mIsDone, mTasks, mMutex, running, hops, mpc, fates>>

\* The predicate is tested, and found false, without the mutex.
PredicateFalse_NoLock(w) ==
  /\ wpc[w] = "test"
  /\ mTasks = {}
  /\ ~mIsDone
  /\ wpc' = [wpc EXCEPT ![w] = "block"]
  /\ UNCHANGED <<mIsDone, mTasks, mMutex, running, hops, mpc, fates>>

\* With the mutex: the predicate is false, the worker is going to wait.
PredicateFalse(w) ==
  /\ wpc[w] = "test"
  /\ Free
  /\ mTasks = {}
  /\ ~mIsDone
  /\ mMutex' = {w}
  /\ wpc' = [wpc EXCEPT ![w] = "block"]
  /\ UNCHANGED <<mIsDone, mTasks, running, hops, mpc, fates>>

\* The worker enters the wait set and releases the mutex, in one step.
Block(w) ==
  /\ wpc[w] = "block"
  /\ mMutex' = {}
  /\ wpc' = [wpc EXCEPT ![w] = "waiting"]
  /\ UNCHANGED <<mIsDone, mTasks, running, hops, mpc, fates>>

\* A condition variable may wake up for no reason.
SpuriousWakeup(w) ==
  /\ wpc[w] = "waiting"
  /\ wpc' = [wpc EXCEPT ![w] = "test"]
  /\ UNCHANGED <<mIsDone, mTasks, mMutex, running, hops, mpc, fates>>

\* The coroutine runs to its final suspend point; its frame stays.
Finish(w) ==
  /\ wpc[w] = "resume"
  /\ finished' = finished \cup running[w]
  /\ running' = [running EXCEPT ![w] = {}]
  /\ wpc' = [wpc EXCEPT ![w] = "loop"]
  /\ UNCHANGED <<mIsDone, mTasks, mMutex, hops, mpc, started, destroyed>>

\* The coroutine awaits the pool again: it is queued by the worker that
\* still runs it, and another worker may take it from there.
Hop(w) ==
  /\ wpc[w] = "resume"
  /\ Free
  /\ \E t \in running[w] :
       /\ hops[t] > 0
       /\ hops' = [hops EXCEPT ![t] = @ - 1]
       /\ mTasks' = mTasks \cup {t}
       /\ running' = [running EXCEPT ![w] = @ \ {t}]
  /\ wpc' = [wpc EXCEPT ![w] = "notify"]
  /\ UNCHANGED <<mIsDone, mMutex, mpc, fates>>

HopNotify(w) ==
  /\ wpc[w] = "notify"
  /\ NotifyOne([wpc EXCEPT ![w] = "loop"])
  /\ UNCHANGED <<mIsDone, mTasks, mMutex, running, hops, mpc, fates>>

WorkerStep(w) ==
  \/ Loop(w) \/ Take(w) \/ Quit(w) \/ PredicateFalse(w) \/ Block(w)
  \/ Finish(w) \/ Hop(w) \/ HopNotify(w)

Destroyed == mpc = "done" /\ UNCHANGED vars

Next ==
  \/ \E t \in Tasks : Start(t)
  \/ StartNotify
  \/ SetDone
  \/ Destructor
  \/ \E w \in Workers : WorkerStep(w) \/ SpuriousWakeup(w)
  \/ Destroyed

SafetySpec == Init /\ [][Next]_vars

\* Every thread is scheduled; whether the owner starts coroutines or
\* destroys the pool is its choice, but what it has begun it goes on with.
Spec ==
  /\ SafetySpec
  /\ \A w \in Workers : WF_vars(WorkerStep(w))
  /\ WF_vars(StartNotify \/ Destructor)

-----------------------------------------------------------------------------
(* A coroutine that was started is in exactly one place: the queue, one    *)
(* worker, its final suspend point, or destroyed.  None is lost, resumed   *)
(* by two threads or resumed after destroy().                              *)
TaskInOnePlace ==
  /\ started = mTasks \cup (UNION {running[w] : w \in Workers}) \cup finished \cup destroyed
  /\ mTasks \cap (finished \cup destroyed) = {}
  /\ finished \cap destroyed = {}
  /\ \A w \in Workers :
       /\ running[w] \cap (mTasks \cup finished \cup destroyed) = {}
       /\ \A v \in Workers \ {w} : running[w] \cap running[v] = {}

\* Workers on their way to the queue, and notifications on their way to one.
Coming == Cardinality({w \in Workers : wpc[w] \in {"loop", "test", "notify"}})
            + Cardinality({w \in Workers : wpc[w] = "notify"})
            + (IF mpc = "notify" THEN 1 ELSE 0)

\* As long as the pool is in use no worker sleeps while there is work for it:
\* for every queued coroutine a worker, or a notify_one, is on its way.
NoIdleWorker == ~mIsDone /\ Waiting # {} => Cardinality(mTasks) <= Coming

\* A queued coroutine is eventually resumed, or the pool is being destroyed.
TaskResumed == \A t \in Tasks : t \in mTasks ~> t \notin mTasks \/ mIsDone

\* "Сигнализируем потокам завершиться и пробуждаем их" (main.cpp:26): after
\* notify_all every worker ends, so that the join after it returns.
WorkersWokenAtEnd == mpc = "join" ~> mpc = "done"
=============================================================================
