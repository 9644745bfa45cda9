-------------------------- MODULE ThreadPoolProofs --------------------------
(***************************************************************************)
(* Theorems about ThreadPool, for every number of workers and coroutines.  *)
(***************************************************************************)
EXTENDS ThreadPool, FiniteSetTheorems, TLAPS

LEMMA InitTypeOK == Init => TypeOK
<1> SUFFICES ASSUME Init PROVE TypeOK
  OBVIOUS
<1> USE DEF Init
<1>1. /\ wpc \in [Workers -> WorkerPcs]
      /\ mpc \in MainPcs
  BY DEF WorkerPcs, MainPcs
<1>2. running \in [Workers -> {{}} \cup {{t} : t \in Tasks}]
  OBVIOUS
<1>3. hops \in [Tasks -> 0..MaxHops]
  BY HopsAssumption
<1> QED BY <1>1, <1>2, <1>3 DEF TypeOK

LEMMA OwnerTypeOK ==
  ASSUME TypeOK,
         (\E t \in Tasks : Start(t)) \/ StartNotify \/ SetDone \/ Destructor
  PROVE  TypeOK'
<1> USE DEF TypeOK, MainPcs, fates
<1>1. ASSUME NEW t \in Tasks, Start(t) PROVE TypeOK'
  BY <1>1 DEF Start
<1>2. CASE StartNotify
  BY <1>2 DEF StartNotify, NotifyOne, Waiting, WorkerPcs
<1>3. CASE SetDone
  BY <1>3 DEF SetDone
<1>4. CASE NotifyAll
  BY <1>4 DEF NotifyAll, WorkerPcs
<1>5. CASE Join
  BY <1>5 DEF Join
<1>6. CASE Clear
  BY <1>6 DEF Clear
<1> QED BY <1>1, <1>2, <1>3, <1>4, <1>5, <1>6 DEF Destructor

LEMMA WorkerTypeOK ==
  ASSUME TypeOK, NEW w \in Workers, WorkerStep(w) \/ SpuriousWakeup(w)
  PROVE  TypeOK'
<1> USE DEF TypeOK, WorkerPcs, fates
<1>1. CASE Loop(w)
  BY <1>1 DEF Loop
<1>2. CASE Take(w)
  BY <1>2 DEF Take
<1>3. CASE Quit(w)
  BY <1>3 DEF Quit
<1>4. CASE PredicateFalse(w)
  BY <1>4 DEF PredicateFalse
<1>5. CASE Block(w)
  BY <1>5 DEF Block
<1>6. CASE Finish(w)
  BY <1>6 DEF Finish
<1>7. CASE Hop(w)
  <2>1. PICK t \in running[w] :
          /\ hops[t] > 0
          /\ hops' = [hops EXCEPT ![t] = @ - 1]
          /\ mTasks' = mTasks \cup {t}
          /\ running' = [running EXCEPT ![w] = @ \ {t}]
    BY <1>7 DEF Hop
  <2>2. t \in Tasks
    BY <2>1
  <2>3. hops' \in [Tasks -> 0..MaxHops]
    BY <2>1, <2>2, HopsAssumption
  <2>4. running' \in [Workers -> {{}} \cup {{u} : u \in Tasks}]
    BY <2>1, <2>2
  <2> QED BY <1>7, <2>1, <2>2, <2>3, <2>4 DEF Hop
<1>8. CASE HopNotify(w)
  BY <1>8 DEF HopNotify, NotifyOne, Waiting
<1>9. CASE SpuriousWakeup(w)
  BY <1>9 DEF SpuriousWakeup
<1> QED BY <1>1, <1>2, <1>3, <1>4, <1>5, <1>6, <1>7, <1>8, <1>9 DEF WorkerStep

LEMMA NextTypeOK == TypeOK /\ [Next]_vars => TypeOK'
<1> SUFFICES ASSUME TypeOK, [Next]_vars PROVE TypeOK'
  OBVIOUS
<1>1. CASE (\E t \in Tasks : Start(t)) \/ StartNotify \/ SetDone \/ Destructor
  BY <1>1, OwnerTypeOK
<1>2. CASE \E w \in Workers : WorkerStep(w) \/ SpuriousWakeup(w)
  BY <1>2, WorkerTypeOK
<1>3. CASE UNCHANGED vars
  BY <1>3 DEF TypeOK, vars
<1> QED BY <1>1, <1>2, <1>3 DEF Next, Destroyed

\* ThreadPool's variables keep their types; in particular one worker at a
\* time is between the test of the wait predicate and the wait.
THEOREM PoolTypeCorrect == SafetySpec => []TypeOK
BY InitTypeOK, NextTypeOK, PTL DEF SafetySpec

-----------------------------------------------------------------------------
(* No coroutine is lost or resumed twice.                                  *)

\* Only a worker that is going to resume a coroutine holds one: h is a local
\* variable of the loop's body.  Without this, Take would drop what it holds.
HoldsOnlyToResume == \A w \in Workers : wpc[w] # "resume" => running[w] = {}

\* TaskInOnePlace, coroutine by coroutine.
PlaceInv ==
  /\ TypeOK
  /\ HoldsOnlyToResume
  /\ \A t \in Tasks :
       t \in started <=> \/ t \in mTasks
                         \/ \E w \in Workers : t \in running[w]
                         \/ t \in finished
                         \/ t \in destroyed
  /\ \A t \in Tasks : t \in mTasks => t \notin finished \cup destroyed
  /\ \A t \in Tasks : t \in finished => t \notin destroyed
  /\ \A w \in Workers : \A t \in running[w] :
       /\ t \notin mTasks \cup finished \cup destroyed
       /\ \A v \in Workers \ {w} : t \notin running[v]

LEMMA PlaceInvImplies == PlaceInv => TaskInOnePlace
<1> SUFFICES ASSUME PlaceInv PROVE TaskInOnePlace
  OBVIOUS
<1>1. \A w \in Workers : running[w] \subseteq Tasks
  BY DEF PlaceInv, TypeOK
<1>2. started = mTasks \cup (UNION {running[w] : w \in Workers}) \cup finished \cup destroyed
  <2> DEFINE taken == UNION {running[w] : w \in Workers}
  <2>1. ASSUME NEW t PROVE t \in taken <=> \E w \in Workers : t \in running[w]
    OBVIOUS
  <2> HIDE DEF taken
  <2>2. ASSUME NEW t, \E w \in Workers : t \in running[w] PROVE t \in Tasks
    BY <1>1, <2>2
  <2>3. /\ started \subseteq Tasks
        /\ mTasks \cup finished \cup destroyed \subseteq Tasks
    BY DEF PlaceInv, TypeOK
  <2>4. ASSUME NEW t
        PROVE  t \in started <=> t \in mTasks \cup taken \cup finished \cup destroyed
    <3>1. CASE t \in Tasks
      BY <2>1, <3>1 DEF PlaceInv
    <3>2. CASE t \notin Tasks
      BY <2>1, <2>2, <2>3, <3>2
    <3> QED BY <3>1, <3>2
  <2>5. started = mTasks \cup taken \cup finished \cup destroyed
    BY <2>4
  <2> QED BY <2>5 DEF taken
<1>3. /\ mTasks \cap (finished \cup destroyed) = {}
      /\ finished \cap destroyed = {}
  BY DEF PlaceInv, TypeOK
<1>4. ASSUME NEW w \in Workers
      PROVE  /\ running[w] \cap (mTasks \cup finished \cup destroyed) = {}
             /\ \A v \in Workers \ {w} : running[w] \cap running[v] = {}
  BY DEF PlaceInv
<1> QED BY <1>2, <1>3, <1>4 DEF TaskInOnePlace

LEMMA InitPlaceInv == Init => PlaceInv
BY InitTypeOK DEF Init, PlaceInv, HoldsOnlyToResume

LEMMA NextPlaceInv == PlaceInv /\ [Next]_vars => PlaceInv'
<1> SUFFICES ASSUME PlaceInv, [Next]_vars PROVE PlaceInv'
  OBVIOUS
<1> TypeOK /\ TypeOK'
  BY NextTypeOK DEF PlaceInv
<1> USE DEF PlaceInv, HoldsOnlyToResume, fates
<1>1. ASSUME NEW t \in Tasks, Start(t) PROVE PlaceInv'
  BY <1>1 DEF Start
<1>2. CASE StartNotify
  BY <1>2 DEF StartNotify, NotifyOne, Waiting, TypeOK
<1>3. CASE SetDone
  BY <1>3 DEF SetDone
<1>4. CASE NotifyAll
  BY <1>4 DEF NotifyAll, Waiting, TypeOK
<1>5. CASE Join
  BY <1>5 DEF Join
<1>6. CASE Clear
  BY <1>6 DEF Clear, TypeOK
<1>7. ASSUME NEW w \in Workers, WorkerStep(w) \/ SpuriousWakeup(w)
      PROVE  PlaceInv'
  <2>1. CASE Loop(w)
    BY <2>1 DEF Loop, TypeOK
  <2>2. CASE Take(w)
    <3>1. PICK t \in mTasks :
            /\ mTasks' = mTasks \ {t}
            /\ running' = [running EXCEPT ![w] = {t}]
      BY <2>2 DEF Take
    <3>2. running[w] = {}
      BY <2>2 DEF Take
    <3>3. \A v \in Workers : running'[v] = IF v = w THEN {t} ELSE running[v]
      BY <3>1 DEF TypeOK
    <3>4. /\ wpc' = [wpc EXCEPT ![w] = "resume"]
          /\ UNCHANGED <<started, finished, destroyed>>
      BY <2>2 DEF Take
    <3>5. t \in Tasks /\ \A v \in Workers : t \notin running[v]
      BY DEF TypeOK
    <3>6. HoldsOnlyToResume'
      BY <3>3, <3>4 DEF TypeOK
    <3>7. ASSUME NEW u \in Tasks
          PROVE  u \in started' <=> \/ u \in mTasks'
                                    \/ \E v \in Workers : u \in running'[v]
                                    \/ u \in finished'
                                    \/ u \in destroyed'
      <4>1. CASE u = t
        BY <3>1, <3>3, <3>4, <4>1
      <4>2. CASE u # t
        BY <3>1, <3>2, <3>3, <3>4, <4>2
      <4> QED BY <4>1, <4>2
    <3>8. ASSUME NEW v \in Workers, NEW u \in running'[v]
          PROVE  /\ u \notin mTasks' \cup finished' \cup destroyed'
                 /\ \A o \in Workers \ {v} : u \notin running'[o]
      BY <3>1, <3>3, <3>4, <3>5
    <3> QED BY <3>1, <3>4, <3>6, <3>7, <3>8
  <2>3. CASE Quit(w)
    BY <2>3 DEF Quit, TypeOK
  <2>4. CASE PredicateFalse(w)
    BY <2>4 DEF PredicateFalse, TypeOK
  <2>5. CASE Block(w)
    BY <2>5 DEF Block, TypeOK
  <2>6. CASE Finish(w)
    <3>1. \A v \in Workers : running'[v] = IF v = w THEN {} ELSE running[v]
      BY <2>6 DEF Finish, TypeOK
    <3> QED BY <2>6, <3>1 DEF Finish, TypeOK
  <2>7. CASE Hop(w)
    <3>1. PICK t \in running[w] :
            /\ mTasks' = mTasks \cup {t}
            /\ running' = [running EXCEPT ![w] = @ \ {t}]
      BY <2>7 DEF Hop
    <3>2. running[w] = {t} /\ t \in Tasks
      BY <3>1 DEF TypeOK
    <3>3. {t} \ {t} = {}
      OBVIOUS
    <3>4. running' = [running EXCEPT ![w] = {}]
      BY <3>1, <3>2, <3>3
    <3>5. \A v \in Workers : running'[v] = IF v = w THEN {} ELSE running[v]
      BY <3>4 DEF TypeOK
    <3> QED BY <2>7, <3>1, <3>2, <3>5 DEF Hop, TypeOK
  <2>8. CASE HopNotify(w)
    BY <2>8 DEF HopNotify, NotifyOne, Waiting, TypeOK
  <2>9. CASE SpuriousWakeup(w)
    BY <2>9 DEF SpuriousWakeup, TypeOK
  <2> QED BY <1>7, <2>1, <2>2, <2>3, <2>4, <2>5, <2>6, <2>7, <2>8, <2>9 DEF WorkerStep
<1>8. CASE UNCHANGED vars
  BY <1>8 DEF vars
<1> QED BY <1>1, <1>2, <1>3, <1>4, <1>5, <1>6, <1>7, <1>8 DEF Next, Destructor, Destroyed

\* A started coroutine is always in exactly one place: ThreadPool neither
\* loses one nor lets two workers resume it.
THEOREM CoroutineInOnePlace == SafetySpec => []TaskInOnePlace
<1>1. PlaceInv /\ [Next]_vars => PlaceInv'
  BY NextPlaceInv
<1> QED BY <1>1, InitPlaceInv, PlaceInvImplies, PTL DEF SafetySpec

-----------------------------------------------------------------------------
(* What the destructor leaves behind.                                      *)

\* After the joins no worker runs, and after the last one nobody queues.
Joined ==
  /\ mpc \in {"clear", "done"} => \A w \in Workers : wpc[w] = "finished"
  /\ mpc = "done" => mTasks = {}

LEMMA NextJoined == TypeOK /\ Joined /\ [Next]_vars => Joined'
<1> SUFFICES ASSUME TypeOK, Joined, [Next]_vars PROVE Joined'
  OBVIOUS
<1>1. CASE (\E t \in Tasks : Start(t)) \/ StartNotify \/ SetDone \/ NotifyAll
  BY <1>1 DEF Start, StartNotify, SetDone, NotifyAll, Joined
<1>2. CASE Join \/ Clear \/ UNCHANGED vars
  BY <1>2 DEF Join, Clear, vars, Joined
<1>3. ASSUME NEW w \in Workers, WorkerStep(w) \/ SpuriousWakeup(w)
      PROVE  Joined'
  <2>1. mpc' = mpc /\ wpc[w] # "finished"
    BY <1>3 DEF WorkerStep, Loop, Take, Quit, PredicateFalse, Block, Finish, Hop,
       HopNotify, SpuriousWakeup, fates
  <2> QED BY <2>1 DEF Joined
<1> QED BY <1>1, <1>2, <1>3 DEF Next, Destructor, Destroyed

\* When ~ThreadPool (main.cpp:24-45) is over, every coroutine that was started
\* has come to its end or was destroyed, not both; none is queued, and no
\* thread is left that could resume one.
THEOREM NothingLeftBehind ==
  SafetySpec => [](mpc = "done" =>
    /\ \A w \in Workers : wpc[w] = "finished" /\ running[w] = {}
    /\ mTasks = {}
    /\ started = finished \cup destroyed /\ finished \cap destroyed = {})
<1> DEFINE Left == mpc = "done" =>
             /\ \A w \in Workers : wpc[w] = "finished" /\ running[w] = {}
             /\ mTasks = {}
             /\ started = finished \cup destroyed /\ finished \cap destroyed = {}
<1>1. Init => Joined
  BY DEF Init, Joined
<1>2. PlaceInv /\ Joined => Left
  <2> SUFFICES ASSUME PlaceInv, Joined, mpc = "done" PROVE Left
    OBVIOUS
  <2>1. TaskInOnePlace
    BY PlaceInvImplies
  <2>2. mTasks = {} /\ \A w \in Workers : wpc[w] = "finished" /\ running[w] = {}
    BY DEF Joined, PlaceInv, HoldsOnlyToResume
  <2>3. UNION {running[w] : w \in Workers} = {}
    BY <2>2
  <2> QED BY <2>1, <2>2, <2>3 DEF TaskInOnePlace
<1>3. PlaceInv => TypeOK
  BY DEF PlaceInv
<1> QED BY <1>1, <1>2, <1>3, InitPlaceInv, NextPlaceInv, NextJoined, PTL DEF SafetySpec

-----------------------------------------------------------------------------
(* No worker sleeps while there is work.                                   *)

\* The two sets that Coming counts.
Awake    == {w \in Workers : wpc[w] \in {"loop", "test", "notify"}}
Notifier == {w \in Workers : wpc[w] = "notify"}

\* A worker between the predicate and the wait has the mutex, and nothing can
\* be queued until it waits.
BlockInv ==
  /\ \A w \in Workers : wpc[w] = "block" => mMutex = {w}
  /\ mMutex # {} => mTasks = {}

WakeupInv == TypeOK /\ BlockInv /\ NoIdleWorker

\* The sets are finite, and an element more or less is one more or less.
LEMMA PoolIsFinite ==
  ASSUME TypeOK
  PROVE  /\ IsFiniteSet(Awake) /\ Cardinality(Awake) \in Nat
         /\ IsFiniteSet(Notifier) /\ Cardinality(Notifier) \in Nat
         /\ IsFiniteSet(mTasks) /\ Cardinality(mTasks) \in Nat
<1>1. Awake \in SUBSET Workers /\ Notifier \in SUBSET Workers
  BY DEF Awake, Notifier
<1>2. mTasks \in SUBSET Tasks
  BY DEF TypeOK
<1>3. IsFiniteSet(Awake) /\ IsFiniteSet(Notifier)
  BY <1>1, WorkersAssumption, FS_Subset
<1>4. IsFiniteSet(mTasks)
  BY <1>2, TasksAssumption, FS_Subset
<1> QED BY <1>3, <1>4, FS_CardinalityType

\* When workers sleep, a notify_one makes one of them come.
LEMMA OneIsWoken ==
  ASSUME TypeOK, NEW wpc1 \in [Workers -> WorkerPcs], NotifyOne(wpc1),
         Waiting # {}, \A w \in Waiting : wpc1[w] = wpc[w]
  PROVE  LET awake1 == {w \in Workers : wpc1[w] \in {"loop", "test", "notify"}}
         IN  /\ Cardinality(Awake') = Cardinality(awake1) + 1
             /\ Notifier' = {w \in Workers : wpc1[w] = "notify"}
<1> DEFINE awake1 == {w \in Workers : wpc1[w] \in {"loop", "test", "notify"}}
<1>1. PICK v \in Waiting : wpc' = [wpc1 EXCEPT ![v] = "test"]
  BY DEF NotifyOne
<1>2. v \in Workers /\ wpc1[v] = "waiting"
  BY <1>1 DEF Waiting
<1>3. \A w \in Workers : wpc'[w] = IF w = v THEN "test" ELSE wpc1[w]
  BY <1>1
<1>4. Awake' = awake1 \cup {v} /\ v \notin awake1
  BY <1>2, <1>3 DEF Awake
<1>5. Notifier' = {w \in Workers : wpc1[w] = "notify"}
  BY <1>2, <1>3 DEF Notifier
<1>6. awake1 \in SUBSET Workers
  OBVIOUS
<1>7. IsFiniteSet(awake1)
  BY <1>6, WorkersAssumption, FS_Subset
<1>8. Cardinality(awake1 \cup {v}) = Cardinality(awake1) + 1
  BY <1>4, <1>7, FS_AddElement
<1> QED BY <1>4, <1>5, <1>8

LEMMA NextBlockInv ==
  ASSUME TypeOK, TypeOK', BlockInv, [Next]_vars
  PROVE  BlockInv'
<1> USE DEF BlockInv, TypeOK, fates
<1>1. ASSUME NEW t \in Tasks, Start(t) PROVE BlockInv'
  BY <1>1 DEF Start, Free
<1>2. CASE StartNotify
  BY <1>2 DEF StartNotify, NotifyOne, Waiting
<1>3. CASE SetDone
  BY <1>3 DEF SetDone
<1>4. CASE NotifyAll
  BY <1>4 DEF NotifyAll, Waiting
<1>5. CASE Join
  BY <1>5 DEF Join
<1>6. CASE Clear
  BY <1>6 DEF Clear
<1>7. ASSUME NEW w \in Workers, WorkerStep(w) \/ SpuriousWakeup(w)
      PROVE  BlockInv'
  <2>1. CASE Loop(w)
    BY <2>1 DEF Loop
  <2>2. CASE Take(w)
    BY <2>2 DEF Take, Free
  <2>3. CASE Quit(w)
    BY <2>3 DEF Quit
  <2>4. CASE PredicateFalse(w)
    BY <2>4 DEF PredicateFalse, Free
  <2>5. CASE Block(w)
    BY <2>5 DEF Block
  <2>6. CASE Finish(w)
    BY <2>6 DEF Finish
  <2>7. CASE Hop(w)
    BY <2>7 DEF Hop, Free
  <2>8. CASE HopNotify(w)
    BY <2>8 DEF HopNotify, NotifyOne, Waiting
  <2>9. CASE SpuriousWakeup(w)
    BY <2>9 DEF SpuriousWakeup
  <2> QED BY <1>7, <2>1, <2>2, <2>3, <2>4, <2>5, <2>6, <2>7, <2>8, <2>9 DEF WorkerStep
<1>8. CASE UNCHANGED vars
  BY <1>8 DEF vars
<1> QED BY <1>1, <1>2, <1>3, <1>4, <1>5, <1>6, <1>7, <1>8 DEF Next, Destructor, Destroyed

\* The owner queues one coroutine and then wakes one worker.
LEMMA OwnerNoIdleWorker ==
  ASSUME WakeupInv, TypeOK',
         (\E t \in Tasks : Start(t)) \/ StartNotify \/ SetDone \/ Destructor
  PROVE  NoIdleWorker'
<1> USE DEF WakeupInv
<1> /\ IsFiniteSet(mTasks) /\ Cardinality(mTasks) \in Nat
    /\ Cardinality(Awake) \in Nat /\ Cardinality(Notifier) \in Nat
  BY PoolIsFinite
<1>0. /\ Coming = Cardinality(Awake) + Cardinality(Notifier)
                    + (IF mpc = "notify" THEN 1 ELSE 0)
      /\ Coming' = Cardinality(Awake') + Cardinality(Notifier')
                     + (IF mpc' = "notify" THEN 1 ELSE 0)
  BY DEF Coming, Awake, Notifier
<1>1. ASSUME NEW t \in Tasks, Start(t) PROVE NoIdleWorker'
  <2>0. mTasks' = mTasks \cup {t}
    BY <1>1 DEF Start
  <2>1. /\ Cardinality(mTasks') <= Cardinality(mTasks) + 1
        /\ Cardinality(mTasks') \in Nat
    <3>1. /\ IsFiniteSet(mTasks \cup {t})
          /\ Cardinality(mTasks \cup {t}) =
               IF t \in mTasks THEN Cardinality(mTasks) ELSE Cardinality(mTasks) + 1
      BY FS_AddElement
    <3> QED BY <2>0, <3>1
  <2>2. Awake' = Awake /\ Notifier' = Notifier /\ Waiting' = Waiting
    BY <1>1 DEF Start, Awake, Notifier, Waiting
  <2>3. mpc = "idle" /\ mpc' = "notify" /\ mIsDone' = mIsDone
    BY <1>1 DEF Start
  <2> QED BY <1>0, <2>1, <2>2, <2>3 DEF NoIdleWorker
<1>2. CASE StartNotify
  <2> SUFFICES ASSUME ~mIsDone, Waiting # {} PROVE NoIdleWorker'
    BY <1>2 DEF StartNotify, NotifyOne, NoIdleWorker, Waiting
  <2>1. Cardinality(Awake') = Cardinality(Awake) + 1 /\ Notifier' = Notifier
    BY <1>2, OneIsWoken DEF StartNotify, TypeOK, Awake, Notifier
  <2>2. mpc = "notify" /\ mpc' = "idle" /\ mTasks' = mTasks
    BY <1>2 DEF StartNotify
  <2> QED BY <1>0, <2>1, <2>2 DEF NoIdleWorker
<1>3. CASE SetDone
  BY <1>3 DEF SetDone, NoIdleWorker
<1>4. CASE NotifyAll
  BY <1>4 DEF NotifyAll, NoIdleWorker, Waiting, TypeOK
<1>5. CASE Join
  <2>1. Awake' = Awake /\ Notifier' = Notifier /\ Waiting' = Waiting
    BY <1>5 DEF Join, Awake, Notifier, Waiting
  <2>2. /\ mpc # "notify" /\ mpc' # "notify"
        /\ mTasks' = mTasks /\ mIsDone' = mIsDone
    BY <1>5 DEF Join
  <2>3. Coming' = Coming
    BY <1>0, <2>1, <2>2
  <2> QED BY <2>1, <2>2, <2>3 DEF NoIdleWorker
<1>6. CASE Clear
  <2>0. mTasks' = {}
    BY <1>6 DEF Clear
  <2>1. Cardinality(mTasks') = 0
    BY <2>0, FS_EmptySet
  <2>2. Awake' = Awake /\ Notifier' = Notifier
    BY <1>6 DEF Clear, Awake, Notifier
  <2> QED BY <1>0, <2>1, <2>2 DEF NoIdleWorker
<1> QED BY <1>1, <1>2, <1>3, <1>4, <1>5, <1>6 DEF Destructor

\* A worker takes a coroutine for each step that makes it stop coming, and a
\* coroutine that is queued again comes with two: its worker and a notification.
LEMMA WorkerNoIdleWorker ==
  ASSUME WakeupInv, TypeOK', NEW w \in Workers, WorkerStep(w) \/ SpuriousWakeup(w)
  PROVE  NoIdleWorker'
<1> USE DEF WakeupInv
<1> /\ IsFiniteSet(mTasks) /\ Cardinality(mTasks) \in Nat
    /\ IsFiniteSet(Awake) /\ Cardinality(Awake) \in Nat
    /\ IsFiniteSet(Notifier) /\ Cardinality(Notifier) \in Nat
  BY PoolIsFinite
<1>0. /\ Coming = Cardinality(Awake) + Cardinality(Notifier)
                    + (IF mpc = "notify" THEN 1 ELSE 0)
      /\ Coming' = Cardinality(Awake') + Cardinality(Notifier')
                     + (IF mpc' = "notify" THEN 1 ELSE 0)
  BY DEF Coming, Awake, Notifier
<1>a. /\ IsFiniteSet(Awake') /\ Cardinality(Awake') \in Nat
      /\ IsFiniteSet(Notifier') /\ Cardinality(Notifier') \in Nat
  <2>1. Awake' \in SUBSET Workers /\ Notifier' \in SUBSET Workers
    BY DEF Awake, Notifier
  <2> QED BY <2>1, WorkersAssumption, FS_Subset, FS_CardinalityType
<1>1. CASE Loop(w)
  <2>1. CASE mIsDone
    BY <1>1, <2>1 DEF Loop, NoIdleWorker
  <2>2. CASE ~mIsDone
    <3>1. \A v \in Workers : wpc'[v] = IF v = w THEN "test" ELSE wpc[v]
      BY <1>1, <2>2 DEF Loop, TypeOK
    <3>2. Awake' = Awake /\ Notifier' = Notifier /\ Waiting' = Waiting
      BY <1>1, <3>1 DEF Loop, Awake, Notifier, Waiting
    <3> QED BY <1>0, <1>1, <3>2 DEF Loop, NoIdleWorker
  <2> QED BY <2>1, <2>2
<1>2. CASE Take(w)
  <2>1. PICK t \in mTasks : mTasks' = mTasks \ {t}
    BY <1>2 DEF Take
  <2>2. Cardinality(mTasks') = Cardinality(mTasks) - 1
    BY <2>1, FS_RemoveElement
  <2>3. \A v \in Workers : wpc'[v] = IF v = w THEN "resume" ELSE wpc[v]
    BY <1>2 DEF Take, TypeOK
  <2>4. /\ Awake' = Awake \ {w} /\ w \in Awake
        /\ Notifier' = Notifier /\ Waiting' = Waiting
    BY <1>2, <2>3 DEF Take, Awake, Notifier, Waiting
  <2>5. Cardinality(Awake') = Cardinality(Awake) - 1
    BY <2>4, FS_RemoveElement
  <2>6. mpc' = mpc /\ mIsDone' = mIsDone
    BY <1>2 DEF Take
  <2> QED BY <1>0, <2>2, <2>4, <2>5, <2>6 DEF NoIdleWorker
<1>3. CASE Quit(w)
  BY <1>3 DEF Quit, NoIdleWorker
<1>4. CASE PredicateFalse(w)
  <2>0. mTasks' = {}
    BY <1>4 DEF PredicateFalse
  <2>1. Cardinality(mTasks') = 0
    BY <2>0, FS_EmptySet
  <2> QED BY <1>0, <1>a, <2>1 DEF NoIdleWorker
<1>5. CASE Block(w)
  <2>1. mTasks' = {}
    BY <1>5 DEF Block, BlockInv
  <2>2. Cardinality(mTasks') = 0
    BY <2>1, FS_EmptySet
  <2> QED BY <1>0, <1>a, <2>2 DEF NoIdleWorker
<1>6. CASE Finish(w)
  <2>1. \A v \in Workers : wpc'[v] = IF v = w THEN "loop" ELSE wpc[v]
    BY <1>6 DEF Finish, TypeOK
  <2>2. /\ Awake' = Awake \cup {w} /\ w \notin Awake
        /\ Notifier' = Notifier /\ Waiting' = Waiting
    BY <1>6, <2>1 DEF Finish, Awake, Notifier, Waiting
  <2>3. Cardinality(Awake') = Cardinality(Awake) + 1
    BY <2>2, FS_AddElement
  <2>4. mTasks' = mTasks /\ mpc' = mpc /\ mIsDone' = mIsDone
    BY <1>6 DEF Finish
  <2> QED BY <1>0, <2>2, <2>3, <2>4 DEF NoIdleWorker
<1>7. CASE Hop(w)
  <2>1. PICK t \in running[w] : mTasks' = mTasks \cup {t}
    BY <1>7 DEF Hop
  <2>2. /\ Cardinality(mTasks') <= Cardinality(mTasks) + 1
        /\ Cardinality(mTasks') \in Nat
    BY <2>1, FS_AddElement, FS_CardinalityType
  <2>3. \A v \in Workers : wpc'[v] = IF v = w THEN "notify" ELSE wpc[v]
    BY <1>7 DEF Hop, TypeOK
  <2>4. /\ Awake' = Awake \cup {w} /\ w \notin Awake
        /\ Notifier' = Notifier \cup {w} /\ w \notin Notifier
        /\ Waiting' = Waiting
    BY <1>7, <2>3 DEF Hop, Awake, Notifier, Waiting
  <2>5. /\ Cardinality(Awake') = Cardinality(Awake) + 1
        /\ Cardinality(Notifier') = Cardinality(Notifier) + 1
    BY <2>4, FS_AddElement
  <2>6. mpc' = mpc /\ mIsDone' = mIsDone
    BY <1>7 DEF Hop
  <2> QED BY <1>0, <2>2, <2>4, <2>5, <2>6 DEF NoIdleWorker
<1>8. CASE HopNotify(w)
  <2> DEFINE wpc1 == [wpc EXCEPT ![w] = "loop"]
  <2>1. wpc1 \in [Workers -> WorkerPcs] /\ NotifyOne(wpc1) /\ wpc[w] = "notify"
    BY <1>8 DEF HopNotify, TypeOK, WorkerPcs
  <2>2. \A v \in Workers : wpc1[v] = IF v = w THEN "loop" ELSE wpc[v]
    BY DEF TypeOK
  <2> HIDE DEF wpc1
  <2>3. CASE Waiting = {}
    <3>1. Waiting' = {}
      BY <2>1, <2>2, <2>3 DEF NotifyOne, Waiting
    <3> QED BY <3>1 DEF NoIdleWorker
  <2>4. CASE Waiting # {}
    <3>1. \A v \in Waiting : wpc1[v] = wpc[v]
      BY <2>1, <2>2 DEF Waiting
    <3>2. /\ {v \in Workers : wpc1[v] \in {"loop", "test", "notify"}} = Awake
          /\ {v \in Workers : wpc1[v] = "notify"} = Notifier \ {w}
          /\ w \in Notifier
      BY <2>1, <2>2 DEF Awake, Notifier
    <3>3. Cardinality(Awake') = Cardinality(Awake) + 1 /\ Notifier' = Notifier \ {w}
      BY <2>1, <2>4, <3>1, <3>2, OneIsWoken
    <3>4. Cardinality(Notifier') = Cardinality(Notifier) - 1
      BY <3>2, <3>3, FS_RemoveElement
    <3>5. mTasks' = mTasks /\ mpc' = mpc /\ mIsDone' = mIsDone
      BY <1>8 DEF HopNotify
    <3> QED BY <1>0, <2>4, <3>3, <3>4, <3>5 DEF NoIdleWorker
  <2> QED BY <2>3, <2>4
<1>9. CASE SpuriousWakeup(w)
  <2>1. \A v \in Workers : wpc'[v] = IF v = w THEN "test" ELSE wpc[v]
    BY <1>9 DEF SpuriousWakeup, TypeOK
  <2>2. /\ Awake' = Awake \cup {w} /\ w \notin Awake
        /\ Notifier' = Notifier /\ Waiting # {}
    BY <1>9, <2>1 DEF SpuriousWakeup, Awake, Notifier, Waiting
  <2>3. Cardinality(Awake') = Cardinality(Awake) + 1
    BY <2>2, FS_AddElement
  <2>4. mTasks' = mTasks /\ mpc' = mpc /\ mIsDone' = mIsDone
    BY <1>9 DEF SpuriousWakeup, fates
  <2> QED BY <1>0, <2>2, <2>3, <2>4 DEF NoIdleWorker
<1> QED BY <1>1, <1>2, <1>3, <1>4, <1>5, <1>6, <1>7, <1>8, <1>9 DEF WorkerStep

\* While ThreadPool is in use and workers sleep, every queued coroutine has a
\* worker or a notification on its way: Schedule's unlocked notify_one loses
\* no wakeup.
THEOREM NoWorkerSleepsOnWork == SafetySpec => []NoIdleWorker
<1>1. Init => WakeupInv
  <2> SUFFICES ASSUME Init PROVE WakeupInv
    OBVIOUS
  <2>1. Waiting = {}
    BY DEF Init, Waiting
  <2> QED BY <2>1, InitTypeOK DEF Init, WakeupInv, BlockInv, NoIdleWorker
<1>2. WakeupInv /\ [Next]_vars => WakeupInv'
  <2> SUFFICES ASSUME WakeupInv, [Next]_vars PROVE WakeupInv'
    OBVIOUS
  <2>1. TypeOK' /\ BlockInv'
    BY NextTypeOK, NextBlockInv DEF WakeupInv
  <2>2. CASE (\E t \in Tasks : Start(t)) \/ StartNotify \/ SetDone \/ Destructor
    BY <2>1, <2>2, OwnerNoIdleWorker DEF WakeupInv
  <2>3. CASE \E w \in Workers : WorkerStep(w) \/ SpuriousWakeup(w)
    BY <2>1, <2>3, WorkerNoIdleWorker DEF WakeupInv
  <2>4. CASE UNCHANGED vars
    BY <2>1, <2>4 DEF vars, WakeupInv, NoIdleWorker, Waiting, Coming
  <2> QED BY <2>2, <2>3, <2>4 DEF Next, Destroyed
<1>3. WakeupInv => NoIdleWorker
  BY DEF WakeupInv
<1> QED BY <1>1, <1>2, <1>3, PTL DEF SafetySpec
=============================================================================
