-------------------------- MODULE SimpleEpollProofs --------------------------
(***************************************************************************)
(* Theorems about SimpleEpoll, for every set of threads and every number   *)
(* of connections.                                                         *)
(***************************************************************************)
EXTENDS SimpleEpoll, TLAPS

-----------------------------------------------------------------------------
(* The inductive invariant.                                                *)

Busy == {"add", "refuse", "read", "close"}

\* Inside a call for a client, client_fd is a descriptor.
TypeInv ==
  /\ TypeOK
  /\ \A t \in Threads : pc[t] \in Busy => client_fd[t] \in Fds

\* A thread goes to epoll_wait with nothing left of its batch.
BatchDone == \A t \in Threads : pc[t] = "wait" => events[t] = {}

\* The flag falls before anything is closed.
RunningFlag == running <=> spc = "serving"

\* A connection has one descriptor, and only once it was accepted.
OneNumber ==
  /\ \A f \in Fds : file[f] <= accepted
  /\ \A f, g \in Fds : file[f] = file[g] /\ file[f] # None => f = g

\* A descriptor that the epoll does not watch is one that a thread is about
\* to add, or to close.
Watched ==
  running =>
    \A f \in Fds : file[f] # None /\ file[f] \notin registered =>
      \E t \in Threads : client_fd[t] = f /\ pc[t] \in {"add", "refuse"}

-----------------------------------------------------------------------------
(* Types.                                                                  *)

LEMMA TypeInit == Init => TypeInv
<1>1. 0 \in 0..MaxData /\ 0 \in 0..MaxConns
  BY BoundsAssumption
<1> SUFFICES ASSUME Init PROVE TypeInv
  OBVIOUS
<1>2. /\ running \in BOOLEAN /\ refused \in BOOLEAN
      /\ spc \in {"serving", "close_server", "close_epoll", "join", "stopped"}
  BY DEF Init
<1>3. accepted \in 0..MaxConns /\ inbox \in [Conns -> 0..MaxData]
  BY <1>1 DEF Init
<1>4. /\ pc \in [Threads -> {"wait", "loop", "accept", "add", "refuse", "read",
                               "close", "exited"}]
      /\ events \in [Threads -> SUBSET (Fds \cup {Listener})]
      /\ client_fd \in [Threads -> Fds \cup {None}]
      /\ \A t \in Threads : pc[t] = "wait"
  BY DEF Init
<1>5. /\ file \in [Fds -> Conns \cup {None}]
      /\ meant \in [Threads -> Conns \cup {None}] /\ hit \in SUBSET Conns
      /\ registered \in SUBSET Conns
      /\ ready \in SUBSET (Conns \cup {Listener})
      /\ peer \in [Conns -> {"none", "open", "fin", "rst"}]
  BY DEF Init
<1> QED
  BY <1>2, <1>3, <1>4, <1>5 DEF TypeInv, TypeOK, Busy

LEMMA TypeWorker ==
  ASSUME TypeInv, NEW t \in Threads, WorkerStep(t)
  PROVE  TypeInv'
<1> USE DEF TypeInv, TypeOK, Busy, Goes, Returns, StopKept, NetworkKept, calls, Calls
<1>1. CASE EpollWait(t)
  BY <1>1 DEF EpollWait
<1>2. CASE Dispatch(t)
  BY <1>2 DEF Dispatch
<1>3. CASE BatchEnds(t)
  BY <1>3 DEF BatchEnds
<1>4. CASE Exit(t)
  BY <1>4 DEF Exit
<1>5. CASE Accept(t)
  <2>1. accepted + 1 \in Conns
    BY <1>5, BoundsAssumption DEF Accept, Backlog, Conns
  <2> QED
    BY <1>5, <2>1, BoundsAssumption DEF Accept, Conns
<1>6. CASE AcceptFails(t)
  BY <1>6 DEF AcceptFails
<1>7. CASE AcceptEnds(t)
  BY <1>7 DEF AcceptEnds
<1>8. CASE AddClient(t)
  BY <1>8 DEF AddClient
<1>9. CASE AddFails(t)
  BY <1>9 DEF AddFails
<1>10. CASE Read(t)
  <2>1. file[client_fd[t]] \in Conns /\ inbox[file[client_fd[t]]] - 1 \in 0..MaxData
    BY <1>10, BoundsAssumption DEF Read, Chunk
  <2> QED
    BY <1>10, <2>1 DEF Read
<1>11. CASE ReadEnds(t)
  BY <1>11 DEF ReadEnds
<1>12. CASE ReadFails(t)
  BY <1>12 DEF ReadFails
<1>13. CASE Close(t)
  BY <1>13 DEF Close
<1> QED
  BY <1>1, <1>2, <1>3, <1>4, <1>5, <1>6, <1>7, <1>8, <1>9, <1>10, <1>11,
     <1>12, <1>13 DEF WorkerStep

Others ==
  \/ StopBegins \/ StopCloses \/ StopJoins
  \/ \E c \in Conns : ClientConnects(c) \/ ClientSends(c) \/ ClientHangsUp(c)
  \/ UNCHANGED vars

LEMMA TypeOthers == ASSUME TypeInv, Others PROVE TypeInv'
<1> USE DEF TypeInv, TypeOK, Busy, StopKept, NetworkKept, WorkersKept, Edge, calls
<1>1. CASE StopBegins
  BY <1>1 DEF StopBegins
<1>2. CASE StopCloses
  BY <1>2 DEF StopCloses
<1>3. CASE StopJoins
  BY <1>3 DEF StopJoins
<1>4. CASE \E c \in Conns : ClientConnects(c)
  BY <1>4 DEF ClientConnects
<1>5. CASE \E c \in Conns : ClientSends(c)
  BY <1>5, BoundsAssumption DEF ClientSends
<1>6. CASE \E c \in Conns : ClientHangsUp(c)
  BY <1>6, BoundsAssumption DEF ClientHangsUp
<1>7. CASE UNCHANGED vars
  BY <1>7 DEF vars
<1> QED
  BY <1>1, <1>2, <1>3, <1>4, <1>5, <1>6, <1>7 DEF Others

LEMMA StepSplit == [Next]_vars => (\E t \in Threads : WorkerStep(t)) \/ Others
BY DEF Next, Others, Stopped

LEMMA TypeStep == TypeInv /\ [Next]_vars => TypeInv'
BY TypeWorker, TypeOthers, StepSplit

\* Every variable keeps its type, with any number of threads racing for the
\* same descriptors (worker_thread, accept_connections, handle_client).
THEOREM EpollTypeCorrect == SafetySpec => []TypeOK
<1>1. TypeInv => TypeOK
  BY DEF TypeInv
<1> QED
  BY <1>1, TypeInit, TypeStep, PTL DEF SafetySpec

-----------------------------------------------------------------------------
(* Descriptors and what is watched.                                        *)

Structure == TypeInv /\ RunningFlag /\ BatchDone /\ OneNumber /\ Watched

LEMMA StructureInit == Init => Structure
BY TypeInit DEF Init, Structure, RunningFlag, BatchDone, OneNumber, Watched, None, Fds, Conns

\* A step that takes nothing from file, registered and the threads at "add".
LEMMA WatchedKept ==
  ASSUME Structure, running' => running, file' = file, registered' = registered,
         \A u \in Threads : pc[u] \in {"add", "refuse"} =>
           pc'[u] \in {"add", "refuse"} /\ client_fd'[u] = client_fd[u]
  PROVE  Watched'
BY DEF Structure, Watched

LEMMA StructureWorker ==
  ASSUME Structure, NEW t \in Threads, WorkerStep(t)
  PROVE  (RunningFlag /\ BatchDone /\ OneNumber /\ Watched)'
<1> USE DEF Structure, TypeInv, TypeOK, Busy, Goes, Returns, StopKept, NetworkKept, calls
<1>0. RunningFlag'
  <2>1. UNCHANGED <<running, spc>>
    BY DEF WorkerStep, EpollWait, Dispatch, BatchEnds, Exit, Accept, AcceptFails,
           AcceptEnds, AddClient, AddFails, Read, ReadEnds, ReadFails, Close
  <2> QED
    BY <2>1 DEF RunningFlag
<1> SUFFICES (BatchDone /\ OneNumber /\ Watched)'
  BY <1>0
<1>1. CASE EpollWait(t)
  BY <1>1, WatchedKept DEF EpollWait, BatchDone, OneNumber
<1>2. CASE Dispatch(t)
  BY <1>2, WatchedKept DEF Dispatch, BatchDone, OneNumber
<1>3. CASE BatchEnds(t)
  BY <1>3, WatchedKept DEF BatchEnds, BatchDone, OneNumber
<1>4. CASE Exit(t)
  BY <1>4, WatchedKept DEF Exit, BatchDone, OneNumber
<1>5. CASE Accept(t)
  <2>1. PICK f \in Fds :
          /\ file[f] = None
          /\ file' = [file EXCEPT ![f] = accepted + 1]
          /\ client_fd' = [client_fd EXCEPT ![t] = f]
    BY <1>5 DEF Accept
  <2>2. accepted \in Nat /\ accepted' = accepted + 1 /\ pc[t] = "accept"
        /\ pc' = [pc EXCEPT ![t] = "add"]
    BY <1>5, BoundsAssumption DEF Accept
  <2>3. \A g \in Fds : file[g] \in Int /\ file[g] <= accepted
    BY BoundsAssumption DEF OneNumber, Conns, None
  <2>4. OneNumber'
    BY <2>1, <2>2, <2>3 DEF OneNumber, None
  <2>5. Watched'
    <3> SUFFICES ASSUME running', NEW g \in Fds, file'[g] # None,
                        file'[g] \notin registered'
                 PROVE  \E u \in Threads : client_fd'[u] = g /\ pc'[u] \in {"add", "refuse"}
      BY DEF Watched
    <3>1. CASE g = f
      BY <3>1, <2>1, <2>2
    <3>2. CASE g # f
      <4>1. file[g] # None /\ file[g] \notin registered /\ running
        BY <3>2, <2>1, <1>5 DEF Accept
      <4>2. PICK u \in Threads : client_fd[u] = g /\ pc[u] \in {"add", "refuse"}
        BY <4>1 DEF Watched
      <4> QED
        BY <4>2, <2>1, <2>2
    <3> QED
      BY <3>1, <3>2
  <2>6. BatchDone'
    BY <1>5 DEF Accept, BatchDone
  <2> QED
    BY <2>4, <2>5, <2>6
<1>6. CASE AcceptFails(t)
  BY <1>6, WatchedKept DEF AcceptFails, BatchDone, OneNumber
<1>7. CASE AcceptEnds(t)
  BY <1>7, WatchedKept DEF AcceptEnds, BatchDone, OneNumber
<1>8. CASE AddClient(t)
  <2>1. Watched'
    <3> SUFFICES ASSUME running', NEW g \in Fds, file'[g] # None,
                        file'[g] \notin registered'
                 PROVE  \E u \in Threads : client_fd'[u] = g /\ pc'[u] \in {"add", "refuse"}
      BY DEF Watched
    <3>1. file[g] # None /\ file[g] \notin registered /\ running /\ g # client_fd[t]
      BY <1>8 DEF AddClient
    <3>2. PICK u \in Threads : client_fd[u] = g /\ pc[u] \in {"add", "refuse"}
      BY <3>1 DEF Watched
    <3> QED
      BY <3>1, <3>2, <1>8 DEF AddClient
  <2> QED
    BY <1>8, <2>1 DEF AddClient, BatchDone, OneNumber
<1>9. CASE AddFails(t)
  BY <1>9, WatchedKept DEF AddFails, BatchDone, OneNumber
<1>10. CASE Read(t)
  BY <1>10, WatchedKept DEF Read, BatchDone, OneNumber
<1>11. CASE ReadEnds(t)
  BY <1>11, WatchedKept DEF ReadEnds, BatchDone, OneNumber
<1>12. CASE ReadFails(t)
  BY <1>12, WatchedKept DEF ReadFails, BatchDone, OneNumber
<1>13. CASE Close(t)
  <2>1. client_fd[t] \in Fds /\ file' = [file EXCEPT ![client_fd[t]] = None]
        /\ registered' = registered \ {file[client_fd[t]]} /\ accepted' = accepted
    BY <1>13 DEF Close
  <2>2. OneNumber'
    BY <2>1, BoundsAssumption DEF OneNumber, None, Conns
  <2>3. Watched'
    <3> SUFFICES ASSUME running', NEW g \in Fds, file'[g] # None,
                        file'[g] \notin registered'
                 PROVE  \E u \in Threads : client_fd'[u] = g /\ pc'[u] \in {"add", "refuse"}
      BY DEF Watched
    <3>1. g # client_fd[t] /\ file[g] # None /\ file[g] = file'[g]
      BY <2>1
    <3>2. file[g] # file[client_fd[t]]
      BY <3>1, <2>1 DEF OneNumber
    <3>3. file[g] \notin registered /\ running
      BY <3>1, <3>2, <2>1, <1>13 DEF Close
    <3>4. PICK u \in Threads : client_fd[u] = g /\ pc[u] \in {"add", "refuse"}
      BY <3>1, <3>3 DEF Watched
    <3> QED
      BY <3>1, <3>4, <1>13 DEF Close
  <2> QED
    BY <1>13, <2>2, <2>3 DEF Close, BatchDone
<1> QED
  BY <1>1, <1>2, <1>3, <1>4, <1>5, <1>6, <1>7, <1>8, <1>9, <1>10, <1>11,
     <1>12, <1>13 DEF WorkerStep

LEMMA StructureOthers ==
  ASSUME Structure, Others
  PROVE  (RunningFlag /\ BatchDone /\ OneNumber /\ Watched)'
<1> USE DEF Structure, RunningFlag, BatchDone, OneNumber, Watched, StopKept, WorkersKept, calls
<1>1. CASE StopBegins
  BY <1>1 DEF StopBegins
<1>2. CASE StopCloses
  BY <1>2 DEF StopCloses
<1>3. CASE StopJoins
  BY <1>3 DEF StopJoins
<1>4. CASE \E c \in Conns : ClientConnects(c) \/ ClientSends(c) \/ ClientHangsUp(c)
  BY <1>4 DEF ClientConnects, ClientSends, ClientHangsUp
<1>5. CASE UNCHANGED vars
  BY <1>5 DEF vars
<1> QED
  BY <1>1, <1>2, <1>3, <1>4, <1>5 DEF Others

LEMMA StructureStep == Structure /\ [Next]_vars => Structure'
<1> SUFFICES ASSUME Structure, [Next]_vars PROVE Structure'
  OBVIOUS
<1>1. TypeInv'
  BY TypeStep DEF Structure
<1> QED
  BY <1>1, StructureWorker, StructureOthers, StepSplit DEF Structure

-----------------------------------------------------------------------------
(* Nothing is stranded.                                                    *)

\* A step after which the same descriptors have something to report, and no
\* edge and no thread's attention is lost.
LEMMA AttentionKept ==
  ASSUME NothingStranded, running' => running, file' = file,
         ready \subseteq ready',
         \A c \in Conns : Pending(c)' => Pending(c) \/ c \in ready',
         file \in [Fds -> Conns \cup {None}],
         \A u \in Threads, f \in Fds : Attends(u, f) => Attends(u, f)'
  PROVE  NothingStranded'
<1> SUFFICES ASSUME running', NEW f \in Fds, file'[f] # None, Pending(file[f])'
             PROVE  file'[f] \in ready' \/ \E u \in Threads : Attends(u, f)'
  BY DEF NothingStranded, Pending, HungUp
<1>1. file[f] \in Conns /\ file'[f] = file[f] /\ Pending(file[f])'
  BY DEF Pending, HungUp
<1>2. CASE file[f] \in ready'
  BY <1>1, <1>2
<1>3. CASE Pending(file[f])
  <2>1. file[f] \in ready \/ \E u \in Threads : Attends(u, f)
    BY <1>1, <1>3 DEF NothingStranded
  <2> QED
    BY <1>1, <2>1
<1> QED
  BY <1>1, <1>2, <1>3

LEMMA StrandedWorker ==
  ASSUME Structure, NothingStranded, NEW t \in Threads, WorkerStep(t)
  PROVE  NothingStranded'
<1> USE DEF Structure, TypeInv, TypeOK, Busy, Goes, Returns, StopKept, NetworkKept, calls
<1>1. CASE EpollWait(t)
  <2> SUFFICES ASSUME running', NEW f \in Fds, file'[f] # None, Pending(file[f])'
               PROVE  \E u \in Threads : Attends(u, f)'
    BY DEF NothingStranded, Pending, HungUp
  <2>1. file[f] # None /\ Pending(file[f]) /\ running
    BY <1>1 DEF EpollWait, Pending, HungUp
  <2>2. CASE file[f] \in ready
    <3>1. f \in events'[t]
      BY <1>1, <2>1, <2>2 DEF EpollWait
    <3> QED
      BY <3>1 DEF Attends
  <2>3. CASE \E u \in Threads : Attends(u, f)
    <3>1. PICK u \in Threads : Attends(u, f)
      BY <2>3
    <3>2. u # t
      BY <1>1, <3>1 DEF EpollWait, Attends, BatchDone
    <3> QED
      BY <1>1, <3>1, <3>2 DEF EpollWait, Attends
  <2> QED
    BY <2>1, <2>2, <2>3 DEF NothingStranded
<1>2. CASE Dispatch(t)
  <2>1. \A u \in Threads, f \in Fds : Attends(u, f) => Attends(u, f)'
    BY <1>2 DEF Dispatch, Attends, Listener, Fds, Conns
  <2> QED
    BY <1>2, <2>1, AttentionKept DEF Dispatch, Pending, HungUp
<1>3. CASE BatchEnds(t)
  <2>1. CASE running
    <3>1. \A u \in Threads, f \in Fds : Attends(u, f) => Attends(u, f)'
      BY <1>3, <2>1 DEF BatchEnds, Attends
    <3> QED
      BY <1>3, <3>1, AttentionKept DEF BatchEnds, Pending, HungUp
  <2>2. CASE ~running
    BY <1>3, <2>2 DEF BatchEnds, NothingStranded
  <2> QED
    BY <2>1, <2>2
<1>4. CASE Exit(t)
  BY <1>4 DEF Exit, NothingStranded
<1>5. CASE Accept(t)
  <2>1. PICK g \in Fds :
          /\ file' = [file EXCEPT ![g] = accepted + 1]
          /\ client_fd' = [client_fd EXCEPT ![t] = g]
    BY <1>5 DEF Accept
  <2>2. Attends(t, g)'
    BY <1>5, <2>1 DEF Accept, Attends
  <2>3. \A u \in Threads, f \in Fds : Attends(u, f) => Attends(u, f)'
    BY <1>5, <2>1 DEF Accept, Attends
  <2> SUFFICES ASSUME running', NEW f \in Fds, f # g, file'[f] # None, Pending(file[f])'
               PROVE  file'[f] \in ready' \/ \E u \in Threads : Attends(u, f)'
    BY <2>2 DEF NothingStranded, Pending, HungUp
  <2>4. file'[f] = file[f] /\ Pending(file[f]) /\ running /\ ready' = ready
    BY <1>5, <2>1 DEF Accept, Pending, HungUp
  <2> QED
    BY <2>3, <2>4 DEF NothingStranded
<1>6. CASE AcceptFails(t)
  <2>1. \A u \in Threads, f \in Fds : Attends(u, f) => Attends(u, f)'
    BY <1>6 DEF AcceptFails, Attends
  <2> QED
    BY <1>6, <2>1, AttentionKept DEF AcceptFails, Pending, HungUp
<1>7. CASE AcceptEnds(t)
  <2>1. \A u \in Threads, f \in Fds : Attends(u, f) => Attends(u, f)'
    BY <1>7 DEF AcceptEnds, Attends
  <2> QED
    BY <1>7, <2>1, AttentionKept DEF AcceptEnds, Pending, HungUp
<1>8. CASE AddClient(t)
  <2> SUFFICES ASSUME running', NEW f \in Fds, file'[f] # None, Pending(file[f])'
               PROVE  file'[f] \in ready' \/ \E u \in Threads : Attends(u, f)'
    BY DEF NothingStranded, Pending, HungUp
  <2>1. file' = file /\ Pending(file[f]) /\ running /\ ready \subseteq ready'
    BY <1>8 DEF AddClient, Pending, HungUp
  <2>2. CASE f = client_fd[t]
    BY <1>8, <2>1, <2>2 DEF AddClient
  <2>3. CASE f # client_fd[t]
    <3>1. \A u \in Threads : Attends(u, f) => Attends(u, f)'
      BY <1>8, <2>3 DEF AddClient, Attends
    <3> QED
      BY <2>1, <3>1 DEF NothingStranded
  <2> QED
    BY <2>2, <2>3
<1>9. CASE AddFails(t)
  <2>1. \A u \in Threads, f \in Fds : Attends(u, f) => Attends(u, f)'
    BY <1>9 DEF AddFails, Attends
  <2> QED
    BY <1>9, <2>1, AttentionKept DEF AddFails, Pending, HungUp
<1>10. CASE Read(t)
  <2>1. \A u \in Threads, f \in Fds : Attends(u, f) => Attends(u, f)'
    BY <1>10 DEF Read, Attends
  <2>2. \A c \in Conns : Pending(c)' => Pending(c)
    BY <1>10, BoundsAssumption DEF Read, Chunk, Pending, HungUp
  <2> QED
    BY <1>10, <2>1, <2>2, AttentionKept DEF Read
<1>11. CASE ReadEnds(t)
  <2>1. CASE ~running
    BY <1>11, <2>1 DEF ReadEnds, NothingStranded
  <2>2. CASE running
    <3> SUFFICES ASSUME NEW f \in Fds, file'[f] # None, Pending(file[f])'
                 PROVE  file'[f] \in ready' \/ \E u \in Threads : Attends(u, f)'
      BY DEF NothingStranded, Pending, HungUp
    <3>1. Pending(file[f]) /\ file' = file /\ ready' = ready /\ f # client_fd[t]
      BY <1>11, <2>2 DEF ReadEnds, Pending, HungUp
    <3>2. \A u \in Threads : Attends(u, f) => Attends(u, f)'
      BY <1>11, <3>1 DEF ReadEnds, Attends
    <3> QED
      BY <2>2, <3>1, <3>2 DEF NothingStranded
  <2> QED
    BY <2>1, <2>2
<1>12. CASE ReadFails(t)
  <2>1. \A u \in Threads, f \in Fds : Attends(u, f) => Attends(u, f)'
    BY <1>12 DEF ReadFails, Attends
  <2> QED
    BY <1>12, <2>1, AttentionKept DEF ReadFails, Pending, HungUp
<1>13. CASE Close(t)
  <2> SUFFICES ASSUME running', NEW f \in Fds, file'[f] # None, Pending(file[f])'
               PROVE  file'[f] \in ready' \/ \E u \in Threads : Attends(u, f)'
    BY DEF NothingStranded, Pending, HungUp
  <2>1. /\ client_fd[t] \in Fds /\ f # client_fd[t] /\ file'[f] = file[f]
        /\ Pending(file[f]) /\ running /\ ready' = ready \ {file[client_fd[t]]}
    BY <1>13 DEF Close, Pending, HungUp
  <2>2. file[f] # file[client_fd[t]]
    BY <2>1 DEF OneNumber
  <2>3. \A u \in Threads : Attends(u, f) => Attends(u, f)'
    BY <1>13, <2>1 DEF Close, Attends
  <2> QED
    BY <2>1, <2>2, <2>3 DEF NothingStranded
<1> QED
  BY <1>1, <1>2, <1>3, <1>4, <1>5, <1>6, <1>7, <1>8, <1>9, <1>10, <1>11,
     <1>12, <1>13 DEF WorkerStep

LEMMA StrandedOthers ==
  ASSUME Structure, NothingStranded, Others
  PROVE  NothingStranded'
<1> USE DEF Structure, TypeInv, TypeOK, StopKept, NetworkKept, WorkersKept, calls
<1>1. CASE StopBegins
  BY <1>1 DEF StopBegins, NothingStranded
<1>2. CASE StopCloses
  BY <1>2 DEF StopCloses, NothingStranded, RunningFlag
<1>3. CASE StopJoins
  BY <1>3 DEF StopJoins, NothingStranded, RunningFlag
<1>4. ASSUME NEW c \in Conns, ClientConnects(c) \/ ClientSends(c) \/ ClientHangsUp(c)
      PROVE  NothingStranded'
  <2> SUFFICES ASSUME running', NEW f \in Fds, file'[f] # None, Pending(file[f])'
               PROVE  file'[f] \in ready' \/ \E u \in Threads : Attends(u, f)'
    BY DEF NothingStranded, Pending, HungUp
  <2>1. /\ file' = file /\ running /\ ready \subseteq ready'
        /\ \A u \in Threads : Attends(u, f)' <=> Attends(u, f)
    BY <1>4 DEF ClientConnects, ClientSends, ClientHangsUp, Edge, Attends
  <2>2. CASE Pending(file[f])
    BY <2>1, <2>2 DEF NothingStranded
  <2>3. CASE ~Pending(file[f])
    <3>1. file[f] = c /\ Edge(c)
      BY <1>4, <2>1, <2>3 DEF ClientConnects, ClientSends, ClientHangsUp, Pending, HungUp
    <3>2. CASE c \in registered
      BY <2>1, <3>1, <3>2 DEF Edge
    <3>3. CASE c \notin registered
      BY <2>1, <3>1, <3>3 DEF Watched, Attends
    <3> QED
      BY <3>2, <3>3
  <2> QED
    BY <2>2, <2>3
<1>5. CASE UNCHANGED vars
  BY <1>5 DEF vars, NothingStranded, Pending, HungUp, Attends
<1> QED
  BY <1>1, <1>2, <1>3, <1>4, <1>5 DEF Others

\* With an edge-triggered epoll shared by any number of threads, nothing that a
\* client has sent, and no end of a client, lies unnoticed (worker_thread,
\* handle_client), even after a descriptor was closed twice.
THEOREM EpollNothingStranded == SafetySpec => []NothingStranded
<1>1. Init => NothingStranded
  BY DEF Init, NothingStranded
<1>2. Structure /\ NothingStranded /\ [Next]_vars => (Structure /\ NothingStranded)'
  BY StructureStep, StrandedWorker, StrandedOthers, StepSplit
<1> QED
  BY <1>1, <1>2, StructureInit, PTL DEF SafetySpec

-----------------------------------------------------------------------------
(* The backlog.                                                            *)

Accepting == {"accept", "add", "refuse"}

LEMMA BacklogWorker ==
  ASSUME Structure, BacklogAttended, NEW t \in Threads, WorkerStep(t)
  PROVE  BacklogAttended'
<1> USE DEF Structure, TypeInv, TypeOK, Goes, Returns, StopKept, NetworkKept, calls
<1> SUFFICES ASSUME running', Backlog' # {}, ~refused'
             PROVE  \/ Listener \in ready'
                    \/ \E u \in Threads : Listener \in events'[u] \/ pc'[u] \in Accepting
  BY DEF BacklogAttended, Accepting
<1>1. running /\ ~refused /\ Backlog # {}
  <2>1. running' = running /\ peer' = peer /\ (refused => refused')
    BY DEF WorkerStep, EpollWait, Dispatch, BatchEnds, Exit, Accept, AcceptFails,
       AcceptEnds, AddClient, AddFails, Read, ReadEnds, ReadFails, Close
  <2>2. accepted' = accepted \/ accepted' = accepted + 1
    BY DEF WorkerStep, EpollWait, Dispatch, BatchEnds, Exit, Accept, AcceptFails,
       AcceptEnds, AddClient, AddFails, Read, ReadEnds, ReadFails, Close
  <2>3. Backlog' \subseteq Backlog
    BY <2>1, <2>2, BoundsAssumption DEF Backlog, Conns
  <2> QED
    BY <2>1, <2>3
<1>2. \/ Listener \in ready
      \/ \E u \in Threads : Listener \in events[u] \/ pc[u] \in Accepting
  BY <1>1 DEF BacklogAttended, Accepting
<1>3. \A u \in Threads \ {t} : events'[u] = events[u] /\ pc'[u] = pc[u]
  BY DEF WorkerStep, EpollWait, Dispatch, BatchEnds, Exit, Accept, AcceptFails,
     AcceptEnds, AddClient, AddFails, Read, ReadEnds, ReadFails, Close
<1>4. CASE EpollWait(t)
  <2>1. CASE Listener \in ready
    <3>1. Listener \in events'[t]
      BY <1>1, <1>4, <2>1 DEF EpollWait
    <3> QED
      BY <3>1
  <2>2. CASE Listener \notin ready
    <3>1. Listener \notin events[t] /\ pc[t] \notin Accepting
      BY <1>4 DEF EpollWait, BatchDone, Accepting
    <3>2. PICK u \in Threads \ {t} : Listener \in events[u] \/ pc[u] \in Accepting
      BY <1>2, <2>2, <3>1
    <3> QED
      BY <1>3, <3>2
  <2> QED
    BY <2>1, <2>2
<1>5. CASE Listener \in ready /\ ~EpollWait(t)
  <2>1. Listener \in ready'
    <3>1. CASE Close(t)
      <4>1. client_fd[t] \in Fds /\ ready' = ready \ {file[client_fd[t]]}
        BY <3>1 DEF Close, Busy
      <4>2. file[client_fd[t]] # Listener
        BY <4>1 DEF Listener, Conns, None
      <4> QED
        BY <1>5, <4>1, <4>2
    <3>2. CASE ~Close(t)
      <4>1. ready \subseteq ready'
        BY <1>5, <3>2 DEF WorkerStep, Dispatch, BatchEnds, Exit, Accept, AcceptFails,
           AcceptEnds, AddClient, AddFails, Read, ReadEnds, ReadFails
      <4> QED
        BY <1>5, <4>1
    <3> QED
      BY <3>1, <3>2
  <2> QED
    BY <2>1
<1>6. CASE \E u \in Threads \ {t} : Listener \in events[u] \/ pc[u] \in Accepting
  BY <1>3, <1>6
<1>7. CASE ~EpollWait(t) /\ (Listener \in events[t] \/ pc[t] \in Accepting)
  <2>1. ~Exit(t)
    BY <1>1 DEF Exit
  <2>2. CASE Dispatch(t)
    BY <2>2, <1>7 DEF Dispatch, Accepting
  <2>3. CASE BatchEnds(t)
    BY <2>3, <1>1, <1>7 DEF BatchEnds, Accepting
  <2>4. CASE Accept(t)
    BY <2>4 DEF Accept, Accepting
  <2>5. ~AcceptFails(t) /\ ~AcceptEnds(t)
    <3>1. ~AcceptFails(t)
      BY DEF AcceptFails
    <3>2. ~AcceptEnds(t)
      BY <1>1 DEF AcceptEnds
    <3> QED
      BY <3>1, <3>2
  <2>6. CASE AddClient(t)
    BY <2>6 DEF AddClient, Accepting
  <2>7. CASE AddFails(t)
    BY <2>7 DEF AddFails, Accepting
  <2>8. CASE Read(t)
    BY <2>8, <1>7 DEF Read, Accepting
  <2>9. CASE ReadEnds(t)
    BY <2>9, <1>7 DEF ReadEnds, Accepting
  <2>10. CASE ReadFails(t)
    BY <2>10, <1>7 DEF ReadFails, Accepting
  <2>11. CASE Close(t)
    BY <2>11, <1>7 DEF Close, Accepting
  <2> QED
    BY <1>7, <2>1, <2>2, <2>3, <2>4, <2>5, <2>6, <2>7, <2>8, <2>9, <2>10, <2>11
    DEF WorkerStep
<1> QED
  BY <1>2, <1>4, <1>5, <1>6, <1>7

LEMMA BacklogOthers ==
  ASSUME Structure, BacklogAttended, Others
  PROVE  BacklogAttended'
<1> USE DEF Structure, TypeInv, TypeOK, StopKept, NetworkKept, WorkersKept, calls
<1>1. CASE StopBegins
  BY <1>1 DEF StopBegins, BacklogAttended
<1>2. CASE StopCloses
  BY <1>2 DEF StopCloses, BacklogAttended, RunningFlag
<1>3. CASE StopJoins
  BY <1>3 DEF StopJoins, BacklogAttended, RunningFlag
<1>4. CASE \E c \in Conns : ClientConnects(c)
  BY <1>4 DEF ClientConnects, BacklogAttended
<1>5. ASSUME NEW c \in Conns, ClientSends(c) \/ ClientHangsUp(c)
      PROVE  BacklogAttended'
  <2>1. Backlog' = Backlog /\ ready \subseteq ready'
        /\ UNCHANGED <<running, refused, events, pc>>
    BY <1>5 DEF ClientSends, ClientHangsUp, Edge, Backlog
  <2> QED
    BY <2>1 DEF BacklogAttended
<1>6. CASE UNCHANGED vars
  BY <1>6 DEF vars, BacklogAttended, Backlog
<1> QED
  BY <1>1, <1>2, <1>3, <1>4, <1>5, <1>6 DEF Others

\* While accept4 succeeds, no client waits in the backlog with nobody to accept
\* it (accept_connections drains to EAGAIN).
THEOREM EpollBacklogAttended == SafetySpec => []BacklogAttended
<1>1. Init => BacklogAttended
  BY DEF Init, BacklogAttended, Backlog
<1>2. Structure /\ BacklogAttended /\ [Next]_vars => (Structure /\ BacklogAttended)'
  BY StructureStep, BacklogWorker, BacklogOthers, StepSplit
<1> QED
  BY <1>1, <1>2, StructureInit, PTL DEF SafetySpec

-----------------------------------------------------------------------------
(* What the server does to ConnectionLife.                                 *)

\* Clients are numbered as they connect, and accepted as they connect.
InOrder ==
  /\ \A c, d \in Conns : d < c /\ peer[c] # "none" => peer[d] # "none"
  /\ \A c \in Conns : c <= accepted => peer[c] # "none"
  /\ \A c \in registered : c <= accepted

\* The threads that have accepted a connection and not yet added it.
Adding == {t \in Threads : pc[t] \in {"add", "refuse"}}

\* Each of them means a connection of its own.
MeantOnce ==
  /\ \A t \in Adding : meant[t] \in Conns /\ meant[t] <= accepted
  /\ \A t, u \in Adding : meant[t] = meant[u] => t = u

\* A connection that is where its thread means it to be is new to the epoll,
\* and its ADD is refused only after a stop, unless a call of another thread
\* has hit it; and what a thread means to close for its end has ended.
MeantRight ==
  /\ \A t \in Threads : pc[t] = "add" /\ file[client_fd[t]] = meant[t] =>
       meant[t] \notin registered \/ meant[t] \in hit
  /\ \A t \in Threads : pc[t] = "refuse" /\ file[client_fd[t]] = meant[t] =>
       ~running \/ meant[t] \in hit
  /\ \A t \in Threads : pc[t] = "close" /\ meant[t] # None => HungUp(meant[t])

Meant == MeantOnce /\ MeantRight

LEMMA OrderInit == Init => InOrder /\ Meant
  BY BoundsAssumption DEF Init, InOrder, Meant, MeantOnce, MeantRight, Adding, Conns

LEMMA InOrderStep == Structure /\ InOrder /\ [Next]_vars => InOrder'
<1> SUFFICES ASSUME Structure, InOrder, [Next]_vars PROVE InOrder'
  OBVIOUS
<1> USE DEF Structure, TypeInv, TypeOK, StopKept, NetworkKept, WorkersKept, Goes, Returns
<1>1. ASSUME NEW t \in Threads, WorkerStep(t), ~Accept(t), ~AddClient(t)
      PROVE  InOrder'
  <2>1. peer' = peer /\ accepted' = accepted /\ registered' \subseteq registered
    BY <1>1 DEF WorkerStep, EpollWait, Dispatch, BatchEnds, Exit, AcceptFails,
       AcceptEnds, AddFails, Read, ReadEnds, ReadFails, Close
  <2> QED  BY <2>1 DEF InOrder
<1>2. ASSUME NEW t \in Threads, Accept(t)  PROVE InOrder'
  <2>1. peer' = peer /\ accepted' = accepted + 1 /\ registered' = registered
    BY <1>2 DEF Accept
  <2>2. PICK d \in Conns : peer[d] # "none" /\ d > accepted
    BY <1>2 DEF Accept, Backlog
  <2>3. \A c \in Conns : c <= accepted + 1 => c <= accepted \/ c = d \/ c < d
    BY <2>2, BoundsAssumption DEF Conns
  <2>4. \A c \in Conns : c <= accepted' => peer'[c] # "none"
    BY <2>1, <2>2, <2>3 DEF InOrder
  <2>5. \A c \in registered' : c <= accepted'
    BY <2>1, BoundsAssumption DEF InOrder, Conns
  <2> QED  BY <2>1, <2>4, <2>5 DEF InOrder
<1>3. ASSUME NEW t \in Threads, AddClient(t)  PROVE InOrder'
  <2>1. /\ peer' = peer /\ accepted' = accepted
        /\ registered' = registered \cup {file[client_fd[t]]}
        /\ client_fd[t] \in Fds
    BY <1>3 DEF AddClient, Busy
  <2>2. file[client_fd[t]] <= accepted
    BY <2>1 DEF OneNumber
  <2> QED  BY <2>1, <2>2 DEF InOrder
<1>4. ASSUME NEW c \in Conns, ClientConnects(c)  PROVE InOrder'
  <2>1. /\ accepted' = accepted /\ registered' = registered
        /\ peer[c] = "none" /\ \A d \in Conns : d < c => peer[d] # "none"
        /\ \A d \in Conns : peer'[d] = IF d = c THEN "open" ELSE peer[d]
    BY <1>4 DEF ClientConnects
  <2> QED  BY <2>1, BoundsAssumption DEF InOrder, Conns
<1>5. ASSUME NEW c \in Conns, ClientSends(c) \/ ClientHangsUp(c)  PROVE InOrder'
  <2>1. /\ accepted' = accepted /\ registered' = registered
        /\ \A d \in Conns : peer'[d] # "none" <=> peer[d] # "none"
    BY <1>5 DEF ClientSends, ClientHangsUp
  <2> QED  BY <2>1 DEF InOrder
<1>6. CASE StopBegins \/ StopCloses \/ StopJoins \/ UNCHANGED vars
  <2>1. accepted' = accepted /\ peer' = peer /\ registered' \subseteq registered
    BY <1>6 DEF StopBegins, StopCloses, StopJoins, vars
  <2> QED  BY <2>1 DEF InOrder
<1> QED  BY <1>1, <1>2, <1>3, <1>4, <1>5, <1>6, StepSplit DEF Others

\* A step that moves no thread to or from an ADD or a close, and registers
\* nothing.
LEMMA MeantKept ==
  ASSUME Structure, Meant, UNCHANGED <<client_fd, file, accepted, meant, hit>>,
         \A t \in Threads : pc'[t] \in {"add", "refuse", "close"} => pc'[t] = pc[t],
         running' => running, registered' \subseteq registered,
         \A c \in Conns : HungUp(c) => HungUp(c)'
  PROVE  Meant'
<1>1. Adding' \subseteq Adding
  BY DEF Adding
<1>2. MeantOnce'
  BY <1>1 DEF Meant, MeantOnce
<1>3. \A t \in Threads : meant[t] \in Conns \cup {None}
  BY DEF Structure, TypeInv, TypeOK
<1> QED
  BY <1>2, <1>3 DEF Meant, MeantRight

LEMMA MeantWorker ==
  ASSUME Structure, InOrder, Meant, NEW t \in Threads, WorkerStep(t)
  PROVE  Meant'
<1> USE DEF Structure, TypeInv, TypeOK, StopKept, NetworkKept, Goes, Returns, calls, Busy
<1>1. running' = running /\ (\A c \in Conns : HungUp(c) <=> HungUp(c)')
  BY DEF WorkerStep, EpollWait, Dispatch, BatchEnds, Exit, Accept, AcceptFails,
     AcceptEnds, AddClient, AddFails, Read, ReadEnds, ReadFails, Close, HungUp
<1>2. CASE EpollWait(t) \/ Dispatch(t) \/ BatchEnds(t) \/ Exit(t) \/ AcceptFails(t)
             \/ AcceptEnds(t) \/ Read(t) \/ ReadEnds(t)
  <2>1. /\ UNCHANGED <<file, accepted, registered, meant, hit>>
        /\ \A u \in Threads \ {t} : pc'[u] = pc[u] /\ client_fd'[u] = client_fd[u]
        /\ pc'[t] \notin {"add", "refuse", "close"}
    BY <1>2 DEF EpollWait, Dispatch, BatchEnds, Exit, AcceptFails, AcceptEnds, Read, ReadEnds
  <2>2. Adding' \subseteq Adding
    BY <2>1 DEF Adding
  <2>3. MeantOnce'
    BY <2>1, <2>2 DEF Meant, MeantOnce
  <2>4. MeantRight'
    BY <1>1, <2>1 DEF Meant, MeantRight
  <2> QED
    BY <2>3, <2>4 DEF Meant
<1>3. CASE Accept(t)
  <2>1. PICK f \in Fds :
          /\ file[f] = None /\ file' = [file EXCEPT ![f] = accepted + 1]
          /\ client_fd' = [client_fd EXCEPT ![t] = f]
    BY <1>3 DEF Accept
  <2>2. /\ pc' = [pc EXCEPT ![t] = "add"] /\ meant' = [meant EXCEPT ![t] = accepted + 1]
        /\ accepted' = accepted + 1 /\ UNCHANGED <<registered, hit>> /\ pc[t] = "accept"
    BY <1>3 DEF Accept
  <2>3. accepted \in Nat /\ accepted + 1 \in Conns /\ accepted + 1 \notin registered
    BY <1>3, BoundsAssumption DEF Accept, Backlog, InOrder, Conns
  <2>4. MeantOnce'
    <3>1. Adding' = Adding \cup {t} /\ t \notin Adding
      BY <2>2 DEF Adding
    <3>2. \A u \in Adding : u # t /\ meant'[u] = meant[u] /\ meant[u] \in Conns /\ meant[u] <= accepted
      BY <2>2, <3>1 DEF Meant, MeantOnce, Adding
    <3>3. meant'[t] = accepted + 1
      BY <2>2
    <3>4. \A u \in Adding : meant[u] # accepted + 1 /\ meant[u] <= accepted + 1
      BY <2>3, <3>2, BoundsAssumption DEF Conns
    <3>5. \A u, v \in Adding : meant'[u] = meant'[v] => u = v
      BY <3>2 DEF Meant, MeantOnce
    <3> QED
      BY <2>2, <2>3, <3>1, <3>2, <3>3, <3>4, <3>5 DEF MeantOnce
  <2>5. MeantRight'
    <3>1. \A u \in Threads \ {t} : /\ pc'[u] = pc[u] /\ client_fd'[u] = client_fd[u]
                                   /\ meant'[u] = meant[u]
      BY <2>1, <2>2
    <3>2. ASSUME NEW u \in Threads \ {t}, u \in Adding, file'[client_fd[u]] = meant[u]
          PROVE  file[client_fd[u]] = meant[u]
      <4>1. meant[u] # accepted + 1
        BY <3>2, <2>3, BoundsAssumption DEF Meant, MeantOnce, Conns
      <4>2. client_fd[u] \in Fds
        BY <3>2 DEF Adding
      <4> QED
        BY <2>1, <3>2, <4>1, <4>2
    <3>3. \A u \in Threads \ {t} : pc[u] \in {"add", "refuse"} => u \in Adding
      BY DEF Adding
    <3>4. pc'[t] = "add" /\ meant'[t] \notin registered'
      BY <2>2, <2>3
    <3> QED
      BY <1>1, <2>2, <3>1, <3>2, <3>3, <3>4 DEF Meant, MeantRight
  <2> QED
    BY <2>4, <2>5 DEF Meant
<1>4. CASE AddClient(t)
  <2>1. /\ pc[t] = "add" /\ pc' = [pc EXCEPT ![t] = "accept"]
        /\ registered' = registered \cup {file[client_fd[t]]}
        /\ hit' = hit \cup ({file[client_fd[t]]} \ {meant[t], None})
        /\ file[client_fd[t]] # None
        /\ UNCHANGED <<file, accepted>>
        /\ \A u \in Threads \ {t} : client_fd'[u] = client_fd[u] /\ meant'[u] = meant[u]
    BY <1>4 DEF AddClient, Calls
  <2>2. Adding' = Adding \ {t} /\ t \in Adding
    BY <2>1 DEF Adding
  <2>3. MeantOnce'
    <3>1. \A u \in Adding' : u \in Adding /\ meant'[u] = meant[u]
      BY <2>1, <2>2 DEF Adding
    <3> QED
      BY <2>1, <3>1 DEF Meant, MeantOnce
  <2>4. \A u \in Adding \ {t} : meant[u] # meant[t]
    BY <2>2 DEF Meant, MeantOnce
  <2>5. \A u \in Threads \ {t} : pc[u] \in {"add", "refuse"} => u \in Adding
    BY DEF Adding
  <2>6. MeantRight'
    BY <1>1, <2>1, <2>4, <2>5 DEF Meant, MeantRight
  <2> QED
    BY <2>3, <2>6 DEF Meant
<1>5. CASE AddFails(t)
  <2>1. /\ pc[t] = "add" /\ pc' = [pc EXCEPT ![t] = "refuse"]
        /\ file[client_fd[t]] \in registered \cup {None} \/ spc \in {"join", "stopped"}
        /\ UNCHANGED <<client_fd, file, accepted, registered, meant, hit>>
    BY <1>5 DEF AddFails
  <2>2. Adding' = Adding /\ t \in Adding
    BY <2>1 DEF Adding
  <2>3. MeantOnce'
    BY <2>1, <2>2 DEF Meant, MeantOnce
  <2>4. meant[t] # None
    BY <2>2, BoundsAssumption DEF Meant, MeantOnce, Conns, None
  <2>5. file[client_fd[t]] = meant[t] => ~running \/ meant[t] \in hit
    BY <2>1, <2>4 DEF Meant, MeantRight, RunningFlag
  <2>6. MeantRight'
    BY <1>1, <2>1, <2>5 DEF Meant, MeantRight
  <2> QED
    BY <2>3, <2>6 DEF Meant
<1>6. CASE ReadFails(t)
  <2>1. /\ pc[t] = "read" /\ pc' = [pc EXCEPT ![t] = "close"]
        /\ file[client_fd[t]] # None => HungUp(file[client_fd[t]])
        /\ meant' = [meant EXCEPT ![t] = file[client_fd[t]]]
        /\ UNCHANGED <<client_fd, file, accepted, registered, hit>>
    BY <1>6 DEF ReadFails
  <2>2. Adding' = Adding /\ t \notin Adding
    BY <2>1 DEF Adding
  <2>3. \A u \in Threads \ {t} : pc'[u] = pc[u] /\ meant'[u] = meant[u]
    BY <2>1
  <2>4. MeantOnce'
    BY <2>1, <2>2, <2>3 DEF Meant, MeantOnce, Adding
  <2>5. pc'[t] = "close" /\ meant'[t] = file[client_fd[t]] /\ meant'[t] \in Conns \cup {None}
    BY <2>1
  <2>6. MeantRight'
    BY <1>1, <2>1, <2>3, <2>5 DEF Meant, MeantRight
  <2> QED
    BY <2>4, <2>6 DEF Meant
<1>7. CASE Close(t)
  <2>1. /\ pc'[t] \in {"accept", "loop"} /\ client_fd[t] \in Fds
        /\ file' = [file EXCEPT ![client_fd[t]] = None]
        /\ registered' \subseteq registered /\ hit \subseteq hit' /\ accepted' = accepted
        /\ \A u \in Threads \ {t} : /\ pc'[u] = pc[u] /\ client_fd'[u] = client_fd[u]
                                    /\ meant'[u] = meant[u]
    BY <1>7 DEF Close, Calls
  <2>2. Adding' \subseteq Adding \ {t}
    BY <2>1 DEF Adding
  <2>3. MeantOnce'
    <3>1. \A u \in Adding' : u \in Adding /\ meant'[u] = meant[u]
      BY <2>1, <2>2 DEF Adding
    <3> QED
      BY <2>1, <3>1 DEF Meant, MeantOnce
  <2>4. ASSUME NEW u \in Threads \ {t}, u \in Adding, file'[client_fd[u]] = meant[u]
        PROVE  file[client_fd[u]] = meant[u]
    BY <2>1, <2>4, BoundsAssumption DEF Meant, MeantOnce, Adding, Conns, None
  <2>5. \A u \in Threads \ {t} : pc[u] \in {"add", "refuse"} => u \in Adding
    BY DEF Adding
  <2>6. MeantRight'
    BY <1>1, <2>1, <2>4, <2>5 DEF Meant, MeantRight
  <2> QED
    BY <2>3, <2>6 DEF Meant
<1> QED
  BY <1>2, <1>3, <1>4, <1>5, <1>6, <1>7 DEF WorkerStep

LEMMA MeantOthers ==
  ASSUME Structure, InOrder, Meant, Others
  PROVE  Meant'
<1> USE DEF StopKept, WorkersKept, NetworkKept, calls
<1>1. CASE StopBegins \/ StopCloses \/ StopJoins \/ UNCHANGED vars
  <2>1. /\ UNCHANGED <<pc, client_fd, file, accepted, meant, hit, peer>>
        /\ (running' => running) /\ registered' \subseteq registered
    BY <1>1 DEF StopBegins, StopCloses, StopJoins, vars
  <2> QED
    BY <2>1, MeantKept DEF HungUp
<1>2. ASSUME NEW c \in Conns, ClientConnects(c) \/ ClientSends(c) \/ ClientHangsUp(c)
      PROVE  Meant'
  <2>1. /\ UNCHANGED <<pc, client_fd, file, accepted, meant, hit, running, registered>>
        /\ \A d \in Conns : HungUp(d) => HungUp(d)'
    BY <1>2 DEF ClientConnects, ClientSends, ClientHangsUp, HungUp, Structure, TypeInv, TypeOK
  <2> QED
    BY <2>1, MeantKept
<1> QED
  BY <1>1, <1>2 DEF Others

\* What a step may do to the connections.
LifeStep ==
  \/ Life!Next
  \/ UNCHANGED <<stage, gone, running>>
  \/ \E c \in hit' : stage[c] = "open" /\ stage' = [stage EXCEPT ![c] = "closed"]

\* A step that neither opens nor closes a connection may only halt.
LEMMA LifeKept ==
  ASSUME UNCHANGED <<file, accepted, peer>>, {running, running'} \subseteq BOOLEAN,
         running' => running
  PROVE  LifeStep
<1>1. stage' = stage /\ gone' = gone
  BY DEF stage, gone, Open, Backlog, HungUp
<1> QED  BY <1>1 DEF LifeStep, Life!Next, Life!Halt

\* accept4 takes the connection that has waited longest.
LEMMA LifeAccept ==
  ASSUME Structure, InOrder, NEW t \in Threads, Accept(t)
  PROVE  LifeStep
<1>0. PICK c \in Conns : c = accepted + 1 /\ c \in Backlog
  <2>1. PICK d \in Conns : peer[d] # "none" /\ d > accepted
    BY DEF Accept, Backlog
  <2>2. accepted \in 0 .. MaxConns
    BY DEF Structure, TypeInv, TypeOK
  <2>3. accepted + 1 \in Conns /\ (accepted + 1 = d \/ accepted + 1 < d)
    BY <2>1, <2>2, BoundsAssumption DEF Conns
  <2>4. peer[accepted + 1] # "none"
    BY <2>1, <2>3 DEF InOrder
  <2> QED  BY <2>2, <2>3, <2>4 DEF Backlog
<1>1. PICK f \in Fds :
        /\ file[f] = None /\ file' = [file EXCEPT ![f] = c] /\ accepted' = c
        /\ running' = running /\ peer' = peer
  BY <1>0 DEF Accept, StopKept, NetworkKept
<1>3. /\ file \in [Fds -> Conns \cup {None}] /\ accepted \in Nat
      /\ \A g \in Fds : file[g] <= accepted
  BY BoundsAssumption DEF Structure, TypeInv, TypeOK, OneNumber
<1>4. \A g \in Fds : file'[g] = IF g = f THEN c ELSE file[g]
  BY <1>1, <1>3
<1>5. \A g \in Fds : file[g] # c
  <2>1. \A g \in Fds : file[g] \in Int
    BY <1>3, BoundsAssumption DEF Conns, None
  <2> QED  BY <1>0, <1>3, <2>1
<1>6. ~Open(c) /\ Open(c)'
  BY <1>4, <1>5 DEF Open
<1>7. \A d \in Conns : d # c => (Open(d)' <=> Open(d)) /\ (d \in Backlog' <=> d \in Backlog)
  <2> SUFFICES ASSUME NEW d \in Conns, d # c
               PROVE  (Open(d)' <=> Open(d)) /\ (d \in Backlog' <=> d \in Backlog)
    OBVIOUS
  <2>1. d # None /\ d \in Int
    BY BoundsAssumption DEF Conns, None
  <2>2. Open(d)' <=> Open(d)
    BY <1>1, <1>4, <2>1 DEF Open
  <2>3. d > accepted' <=> d > accepted
    BY <1>0, <1>1, <1>3, <2>1
  <2> QED  BY <1>1, <2>2, <2>3 DEF Backlog
<1>8. stage[c] = "backlog" /\ stage'[c] = "open"
  BY <1>0, <1>6 DEF stage
<1>9. \A d \in Conns : d # c => stage'[d] = stage[d]
  BY <1>1, <1>7 DEF stage
<1>10. DOMAIN stage = Conns /\ stage' = [d \in Conns |-> stage'[d]] /\ stage = [d \in Conns |-> stage[d]]
  BY DEF stage
<1>11. stage' = [stage EXCEPT ![c] = "open"]
  BY <1>8, <1>9, <1>10
<1>12. gone' = gone
  BY <1>1 DEF gone, HungUp
<1> QED  BY <1>1, <1>0, <1>8, <1>11, <1>12 DEF LifeStep, Life!Next, Life!Accept, Life!Moves

\* A thread closes a connection that has ended, or after a stop, or one that
\* was hit.
LEMMA LifeClose ==
  ASSUME NEW t \in Threads, Structure, InOrder, Meant, Close(t)
  PROVE  LifeStep
<1>0. PICK f \in Fds, c \in Conns \cup {None} : f = client_fd[t] /\ c = file[f]
  BY DEF Close, Structure, TypeInv, TypeOK, Busy
<1>1. /\ f \in Fds /\ pc[t] \in {"close", "refuse"}
      /\ file' = [file EXCEPT ![f] = None]
      /\ hit' = hit \cup ({c} \ {meant[t], None})
      /\ UNCHANGED <<running, accepted, peer>>
  BY <1>0 DEF Close, Calls, StopKept, NetworkKept
<1>2. /\ file \in [Fds -> Conns \cup {None}] /\ running \in BOOLEAN
      /\ \A g \in Fds : file[g] <= accepted
      /\ \A g, h \in Fds : file[g] = file[h] /\ file[g] # None => g = h
  BY DEF Structure, TypeInv, TypeOK, OneNumber
<1>3. CASE c = None
  <2>1. file' = file
    BY <1>0, <1>1, <1>2, <1>3
  <2> QED  BY <1>1, <1>2, <2>1, LifeKept
<1>4. CASE c # None
  <2>1. c \in Conns /\ c <= accepted
    BY <1>0, <1>1, <1>2, <1>4
  <2>2. \A g \in Fds : file'[g] = IF g = f THEN None ELSE file[g]
    BY <1>1, <1>2
  <2>3. None \notin Conns
    BY BoundsAssumption DEF Conns, None
  <2>4. Open(c) /\ ~Open(c)'
    BY <1>0, <1>1, <1>2, <1>4, <2>1, <2>2, <2>3 DEF Open
  <2>5. \A d \in Conns : d # c => (Open(d)' <=> Open(d))
    BY <1>0, <1>1, <2>2, <2>3 DEF Open
  <2>6. Backlog' = Backlog
    BY <1>1 DEF Backlog
  <2>7. c \notin Backlog
    BY <2>1, BoundsAssumption DEF Backlog, Conns, Structure, TypeInv, TypeOK
  <2>8. peer[c] # "none"
    BY <2>1 DEF InOrder
  <2>9. HungUp(c) \/ ~running \/ c \in hit'
    BY <1>0, <1>1, <1>4 DEF Meant, MeantRight
  <2>10. stage[c] = "open" /\ stage'[c] = "closed"
    BY <1>1, <2>1, <2>4, <2>6, <2>7, <2>8 DEF stage
  <2>11. \A d \in Conns : d # c => stage'[d] = stage[d]
    BY <1>1, <2>5, <2>6 DEF stage
  <2>12. DOMAIN stage = Conns /\ stage' = [d \in Conns |-> stage'[d]] /\ stage = [d \in Conns |-> stage[d]]
    BY DEF stage
  <2>13. gone' = gone /\ (HungUp(c) => gone[c])
    BY <1>1, <2>1 DEF gone, HungUp
  <2>14. CASE HungUp(c)
    <3>1. stage' = [stage EXCEPT ![c] = "closed"]
      BY <2>10, <2>11, <2>12
    <3> QED
      BY <1>1, <2>1, <2>10, <2>13, <2>14, <3>1 DEF LifeStep, Life!Next, Life!Close, Life!Moves
  <2>15. CASE ~running
    <3>1. stage' = [d \in Conns |-> IF d \in {c} THEN "closed" ELSE stage[d]]
      BY <2>10, <2>11, <2>12
    <3>2. Life!Abandon({c})
      BY <1>1, <2>1, <2>10, <2>13, <2>15, <3>1 DEF Life!Abandon
    <3>3. {c} \in SUBSET Conns
      BY <2>1
    <3> QED  BY <3>2, <3>3 DEF LifeStep, Life!Next
  <2>16. CASE c \in hit'
    BY <2>10, <2>11, <2>12, <2>16 DEF LifeStep
  <2> QED  BY <2>9, <2>14, <2>15, <2>16
<1> QED  BY <1>3, <1>4

LEMMA LifeClients ==
  ASSUME Structure, InOrder, NEW c \in Conns,
         ClientConnects(c) \/ ClientSends(c) \/ ClientHangsUp(c)
  PROVE  LifeStep
<1>1. /\ UNCHANGED <<running, file, accepted>> /\ running \in BOOLEAN
      /\ peer \in [Conns -> {"none", "open", "fin", "rst"}]
      /\ accepted \in 0 .. MaxConns
  BY DEF ClientConnects, ClientSends, ClientHangsUp, StopKept, WorkersKept,
     Structure, TypeInv, TypeOK
<1>2. /\ \A d \in Conns : Open(d)' <=> Open(d)
      /\ DOMAIN stage = Conns /\ stage' = [d \in Conns |-> stage'[d]] /\ stage = [d \in Conns |-> stage[d]]
      /\ DOMAIN gone = Conns /\ gone' = [d \in Conns |-> gone'[d]] /\ gone = [d \in Conns |-> gone[d]]
  BY <1>1 DEF Open, stage, gone
<1>3. CASE ClientConnects(c)
  <2>1. peer[c] = "none" /\ peer' = [peer EXCEPT ![c] = "open"]
    BY <1>3 DEF ClientConnects
  <2>2. c > accepted /\ \A f \in Fds : file[f] # c
    <3>1. c \in Int /\ c > accepted
      BY <1>1, <2>1, BoundsAssumption DEF InOrder, Conns
    <3>2. \A f \in Fds : file[f] \in Int /\ file[f] <= accepted
      BY BoundsAssumption DEF Structure, TypeInv, TypeOK, OneNumber, Conns, None
    <3> QED  BY <1>1, <3>1, <3>2
  <2>3. ~Open(c) /\ c \notin Backlog /\ c \in Backlog'
    BY <1>1, <2>1, <2>2 DEF Open, Backlog
  <2>4. \A d \in Conns : d # c => peer'[d] = peer[d] /\ (d \in Backlog' <=> d \in Backlog)
    BY <1>1, <2>1 DEF Backlog
  <2>5. stage[c] = "new" /\ stage'[c] = "backlog"
    BY <1>2, <2>1, <2>3 DEF stage
  <2>6. \A d \in Conns : d # c => stage'[d] = stage[d]
    BY <1>2, <2>4 DEF stage
  <2>7. stage' = [stage EXCEPT ![c] = "backlog"]
    BY <1>2, <2>5, <2>6
  <2>8. gone' = gone
    BY <1>1, <2>1 DEF gone, HungUp
  <2> QED  BY <1>1, <2>5, <2>7, <2>8 DEF LifeStep, Life!Next, Life!Arrive, Life!Moves
<1>4. CASE ClientSends(c)
  BY <1>1, <1>4, LifeKept DEF ClientSends
<1>5. CASE ClientHangsUp(c)
  <2>1. peer[c] = "open" /\ \E e \in {"fin", "rst"} : peer' = [peer EXCEPT ![c] = e]
    BY <1>5 DEF ClientHangsUp
  <2>2. Backlog' = Backlog /\ \A d \in Conns : peer'[d] = "none" <=> peer[d] = "none"
    BY <1>1, <2>1 DEF Backlog
  <2>3. stage' = stage
    BY <1>2, <2>2 DEF stage
  <2>4. stage[c] # "new"
    BY <2>1 DEF stage
  <2>5. ~gone[c] /\ gone'[c] /\ \A d \in Conns : d # c => gone'[d] = gone[d]
    BY <1>1, <2>1 DEF gone, HungUp
  <2>6. gone'[c] = TRUE
    BY <1>1, <2>1 DEF gone, HungUp
  <2>7. gone' = [gone EXCEPT ![c] = TRUE]
    BY <1>2, <2>5, <2>6
  <2> QED  BY <1>1, <2>3, <2>4, <2>5, <2>7 DEF LifeStep, Life!Next, Life!Leave
<1> QED  BY <1>3, <1>4, <1>5

LEMMA EachLifeStep ==
  ASSUME Structure, InOrder, Meant, [Next]_vars
  PROVE  LifeStep
<1>1. ASSUME NEW t \in Threads, WorkerStep(t), ~Accept(t), ~Close(t)  PROVE LifeStep
  <2>1. UNCHANGED <<file, accepted, peer, running>> /\ running \in BOOLEAN
    BY <1>1 DEF WorkerStep, EpollWait, Dispatch, BatchEnds, Exit, AcceptFails,
       AcceptEnds, AddClient, AddFails, Read, ReadEnds, ReadFails, StopKept,
       NetworkKept, Structure, TypeInv, TypeOK
  <2> QED  BY <2>1, LifeKept
<1>2. CASE StopBegins \/ StopCloses \/ StopJoins \/ UNCHANGED vars
  <2>1. running \in BOOLEAN
    BY DEF Structure, TypeInv, TypeOK
  <2>2. UNCHANGED <<file, accepted, peer>> /\ running' \in {running, FALSE}
    BY <1>2 DEF StopBegins, StopCloses, StopJoins, vars, WorkersKept, NetworkKept
  <2>3. running' \in BOOLEAN /\ (running' => running)
    <3>1. CASE running' = FALSE
      BY <3>1
    <3>2. CASE running' = running
      BY <2>1, <3>2
    <3> QED  BY <2>2, <3>1, <3>2
  <2> QED  BY <2>1, <2>2, <2>3, LifeKept
<1> QED
  BY <1>1, <1>2, LifeAccept, LifeClose, LifeClients, StepSplit DEF Others

\* Whatever the threads do, a running server closes the connection of a client
\* that is still there only if a close() or an ADD that was meant for another
\* connection of the same number has hit it (main.cpp:157-196).
THEOREM LifeButForStaleCalls == SafetySpec => LifeButForHits
<1>1. Init => Structure /\ InOrder /\ Meant
  BY StructureInit, OrderInit
<1>2. Structure /\ InOrder /\ Meant /\ [Next]_vars => (Structure /\ InOrder /\ Meant)'
  BY StructureStep, InOrderStep, MeantWorker, MeantOthers, StepSplit
<1> DEFINE Step ==
      \/ Life!Next
      \/ \E c \in hit' : stage[c] = "open" /\ stage' = [stage EXCEPT ![c] = "closed"]
<1>3. Structure /\ InOrder /\ Meant /\ [Next]_vars => [Step]_<<stage, gone, running>>
  BY EachLifeStep DEF LifeStep
<1> QED
  BY <1>1, <1>2, <1>3, PTL DEF SafetySpec, LifeButForHits
=============================================================================
