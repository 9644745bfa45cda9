-------------------------- MODULE MyncServerProofs --------------------------
(***************************************************************************)
(* Theorems about MyncServer, for every number of workers and connections. *)
(***************************************************************************)
EXTENDS MyncServer, FiniteSetTheorems, TLAPS

-----------------------------------------------------------------------------
(* Types.                                                                  *)

\* balance_socket compares with the next subepoll only while there is one:
\* the iterator of std::min_element never passes the last.
IteratorOK == mpc = "balance" => visit < NumWorkers

TypeInv == TypeOK /\ IteratorOK

LEMMA InitTypeInv == Init => TypeInv
<1> SUFFICES ASSUME Init PROVE TypeInv
  OBVIOUS
<1> USE NumWorkersAssumption, MaxDataAssumption DEF Init, Workers
<1>1. TypeOK
  <2>1. NoEvents \in Batches
    BY DEF Batches, NoEvents
  <2>2. 1 \in Workers
    OBVIOUS
  <2>3. /\ sock \in [Conns -> SockStates]
        /\ wpc \in [Workers -> WorkerPcs]
        /\ batch \in [Workers -> Batches]
        /\ mpc \in MainPcs
    BY <2>1 DEF SockStates, WorkerPcs, MainPcs
  <2>4. /\ inbox \in [Conns -> 0..MaxData]
        /\ size_clients \in [Workers -> Int]
        /\ target \in Workers
        /\ visit \in Workers
    BY <2>2
  <2> QED BY <2>3, <2>4 DEF TypeOK
<1>2. IteratorOK
  BY DEF IteratorOK
<1> QED BY <1>1, <1>2 DEF TypeInv

\* Handling an event of a batch leaves a batch.
LEMMA LessEvents ==
  ASSUME NEW b \in Batches, NEW S
  PROVE  /\ [b EXCEPT !.in = @ \ S] \in Batches
         /\ [b EXCEPT !.hup = @ \ S] \in Batches
         /\ [b EXCEPT !.wake = FALSE] \in Batches
BY DEF Batches

LEMMA EnvironmentTypeInv == TypeInv /\ Environment => TypeInv'
<1> SUFFICES ASSUME TypeInv, Environment PROVE TypeInv'
  OBVIOUS
<1> USE MaxDataAssumption
    DEF TypeInv, TypeOK, IteratorOK, SockStates, kernelVars, workerVars, mainVars
<1>1. ASSUME NEW c \in Conns, PeerConnect(c) PROVE TypeInv'
  BY <1>1 DEF PeerConnect
<1>2. ASSUME NEW c \in Conns, PeerSend(c) PROVE TypeInv'
  BY <1>2 DEF PeerSend
<1>3. ASSUME NEW c \in Conns, PeerHangup(c) PROVE TypeInv'
  BY <1>3 DEF PeerHangup
<1>4. CASE Tick
  BY <1>4 DEF Tick
<1>5. CASE StopSignal
  BY <1>5 DEF StopSignal
<1> QED BY <1>1, <1>2, <1>3, <1>4, <1>5 DEF Environment

LEMMA WorkerTypeInv ==
  ASSUME TypeInv, NEW w \in Workers, WorkerStep(w)
  PROVE  TypeInv'
<1> USE MaxDataAssumption
    DEF TypeInv, TypeOK, IteratorOK, SockStates, WorkerPcs, Batches, NoEvents,
        Ends, kernelVars, workerVars, mainVars, NextEvent, remove_client
<1>1. CASE WorkerCheck(w)
  BY <1>1 DEF WorkerCheck
<1>2. CASE WorkerWait(w)
  <2>1. PICK b \in [hup  : SUBSET Ready(w).hup,
                    in   : SUBSET Ready(w).in,
                    wake : {FALSE, wakeup[w]}] :
          /\ batch' = [batch EXCEPT ![w] = b]
          /\ wpc' = [wpc EXCEPT ![w] =
                       IF b = NoEvents THEN "head" ELSE "dispatch"]
    BY <1>2 DEF WorkerWait
  <2>2. b \in Batches
    BY DEF Ready
  <2>3. batch' \in [Workers -> Batches] /\ wpc' \in [Workers -> WorkerPcs]
    <3> HIDE DEF Batches, NoEvents
    <3> QED BY <2>1, <2>2
  <2>4. /\ UNCHANGED <<sock, hup, inbox, interest, wakeup, timer, clients,
                        size_clients, pending_new_socks, mainVars, g_should_stop, proc>>
    BY <1>2 DEF WorkerWait
  <2> HIDE DEF Batches
  <2> QED BY <2>3, <2>4
<1>3. ASSUME NEW c \in Conns, EventHup(w, c) PROVE TypeInv'
  <2>1. [batch[w] EXCEPT !.hup = @ \ {c}] \in Batches
    BY LessEvents
  <2> HIDE DEF Batches
  <2>2. batch' \in [Workers -> Batches] /\ wpc' \in [Workers -> WorkerPcs]
    BY <1>3, <2>1 DEF EventHup
  <2> QED BY <1>3, <2>2 DEF EventHup
<1>4. ASSUME NEW c \in Conns, EventData(w, c) PROVE TypeInv'
  <2>1. inbox' \in [Conns -> 0..MaxData]
    <3>1. CASE UNCHANGED inbox
      BY <3>1
    <3>2. ASSUME NEW left \in 0..(inbox[c] - 1),
                 inbox' = [inbox EXCEPT ![c] = left]
          PROVE  inbox' \in [Conns -> 0..MaxData]
      BY <3>2
    <3> QED BY <1>4, <3>1, <3>2 DEF EventData
  <2>2. /\ batch' \in [Workers -> Batches]
        /\ wpc' \in [Workers -> WorkerPcs]
    <3>1. [batch[w] EXCEPT !.in = @ \ {c}] \in Batches
      BY LessEvents
    <3> QED BY <1>4, <3>1 DEF EventData
  <2>3. /\ sock' \in [Conns -> SockStates]
        /\ interest' \in [Workers -> SUBSET Conns]
        /\ clients' \in [Workers -> SUBSET Conns]
        /\ size_clients' \in [Workers -> Int]
    <3>1. CASE UNCHANGED <<sock, interest, clients, size_clients>>
      BY <3>1
    <3>2. CASE remove_client(w, c)
      BY <3>2
    <3> QED BY <1>4, <3>1, <3>2 DEF EventData
  <2> QED BY <1>4, <2>1, <2>2, <2>3 DEF EventData
<1>5. CASE EventWakeup(w)
  <2>1. [batch[w] EXCEPT !.wake = FALSE] \in Batches
    BY LessEvents
  <2> HIDE DEF Batches
  <2>2. batch' \in [Workers -> Batches] /\ wpc' \in [Workers -> WorkerPcs]
    BY <1>5, <2>1 DEF EventWakeup
  <2>3. wakeup' \in [Workers -> BOOLEAN]
    BY <1>5 DEF EventWakeup
  <2> QED BY <1>5, <2>2, <2>3 DEF EventWakeup
<1>6. CASE Drain(w)
  BY <1>6 DEF Drain
<1>7. CASE FullstopClient(w)
  BY <1>7 DEF FullstopClient
<1>8. CASE FullstopClientsDone(w)
  BY <1>8 DEF FullstopClientsDone
<1>9. CASE FullstopQueue(w)
  BY <1>9 DEF FullstopQueue
<1>10. CASE FullstopFds(w)
  BY <1>10 DEF FullstopFds
<1>11. CASE DeleteEpoll(w)
  BY <1>11 DEF DeleteEpoll
<1>12. CASE MapRace(w)
  BY <1>12 DEF MapRace
<1> QED BY <1>1, <1>2, <1>3, <1>4, <1>5, <1>6, <1>7, <1>8, <1>9, <1>10,
           <1>11, <1>12 DEF WorkerStep

LEMMA MainTypeInv == TypeInv /\ MainStep => TypeInv'
<1> SUFFICES ASSUME TypeInv, MainStep PROVE TypeInv'
  OBVIOUS
<1> USE NumWorkersAssumption
    DEF TypeInv, TypeOK, IteratorOK, Workers, MainPcs, SockStates, Ends,
        kernelVars, workerVars, mainVars, AfterEvent, AfterCompare
<1>1. CASE MainCheck
  BY <1>1 DEF MainCheck
<1>2. CASE MainWait
  BY <1>2 DEF MainWait, MainReady
<1>3. CASE EventListen
  BY <1>3 DEF EventListen
<1>4. CASE AcceptOne
  BY <1>4 DEF AcceptOne, Backlog
<1>5. CASE AcceptFails
  BY <1>5 DEF AcceptFails
<1>6. CASE AcceptDone
  BY <1>6 DEF AcceptDone
<1>7. CASE BalanceCompare
  BY <1>7 DEF BalanceCompare
<1>8. CASE Push
  BY <1>8 DEF Push
<1>9. CASE Notify
  BY <1>9 DEF Notify
<1>10. CASE EventTimer
  <2>1. 1 \in Workers
    OBVIOUS
  <2> QED BY <1>10, <2>1 DEF EventTimer
<1>11. CASE StatsCount
  BY <1>11 DEF StatsCount
<1>12. CASE StatsPrint
  BY <1>12 DEF StatsPrint
<1>13. CASE UseFreed
  BY <1>13 DEF UseFreed
<1>14. CASE MainJoin
  BY <1>14 DEF MainJoin
<1> QED BY <1>1, <1>2, <1>3, <1>4, <1>5, <1>6, <1>7, <1>8, <1>9, <1>10,
           <1>11, <1>12, <1>13, <1>14 DEF MainStep

LEMMA StutterTypeInv == TypeInv /\ UNCHANGED vars => TypeInv'
BY DEF TypeInv, TypeOK, IteratorOK, vars

LEMMA TypeInvHolds == SafetySpec => []TypeInv
<1>1. TypeInv /\ [Next]_vars => TypeInv'
  BY EnvironmentTypeInv, WorkerTypeInv, MainTypeInv, StutterTypeInv
     DEF Next, WorkerRuns, MainRuns, ProcessEnded
<1> QED BY <1>1, InitTypeInv, PTL DEF SafetySpec

\* Every variable keeps its type whatever the threads, the peers and the
\* operator do; in particular no iterator over subepolls_ passes its end.
THEOREM TypeCorrect == SafetySpec => []TypeOK
<1>1. TypeInv => TypeOK
  BY DEF TypeInv
<1> QED BY <1>1, TypeInvHolds, PTL

-----------------------------------------------------------------------------
(* Who holds a socket, and which events are outstanding.                   *)

StoppingPcs == {"fullstop", "clear_queue", "close_fds", "delete", "gone"}

\* What the program counters say about the data.
Control ==
  /\ mpc \notin {"balance", "push"} => hand = {}
  /\ mpc \in {"balance", "push"} => \E c \in Conns : hand = {c}
  /\ mpc = "join" => g_should_stop
  /\ \A w \in Workers :
       /\ wpc[w] \in StoppingPcs => g_should_stop
       /\ wpc[w] \in StoppingPcs \ {"fullstop"} => clients[w] = {}
       /\ wpc[w] = "gone" => pending_new_socks[w] = {}

\* EventsAreLive holds from one event of a batch to the next because no
\* descriptor has two events in a batch.
OneEventEach == \A w \in Workers : batch[w].hup \cap batch[w].in = {}

OwnInv == Control /\ OwnedOnce /\ EventsAreLive /\ OneEventEach

LEMMA InitOwnInv == Init => OwnInv
<1> SUFFICES ASSUME Init PROVE OwnInv
  OBVIOUS
<1> USE DEF Init, NoEvents
<1>1. Control
  BY DEF Control, StoppingPcs
<1>2. OwnedOnce
  BY DEF OwnedOnce, OpenConns
<1>3. EventsAreLive /\ OneEventEach
  BY DEF EventsAreLive, OneEventEach
<1> QED BY <1>1, <1>2, <1>3 DEF OwnInv

LEMMA EnvironmentOwnInv == TypeInv /\ OwnInv /\ Environment => OwnInv'
<1> SUFFICES ASSUME TypeInv, OwnInv, Environment PROVE OwnInv'
  OBVIOUS
<1>1. /\ UNCHANGED <<interest, wpc, batch, clients, pending_new_socks, mpc, hand>>
      /\ g_should_stop => g_should_stop'
  BY DEF Environment, PeerConnect, PeerSend, PeerHangup, Tick, StopSignal,
         kernelVars, workerVars, mainVars
<1>2. OpenConns \subseteq OpenConns'
  BY DEF Environment, PeerConnect, PeerSend, PeerHangup, Tick, StopSignal,
         kernelVars, workerVars, mainVars, TypeInv, TypeOK, OpenConns
<1>3. Control'
  BY <1>1 DEF OwnInv, Control
<1>4. OwnedOnce'
  BY <1>1, <1>2 DEF OwnInv, OwnedOnce
<1>5. EventsAreLive' /\ OneEventEach'
  BY <1>1 DEF OwnInv, EventsAreLive, OneEventEach
<1> QED BY <1>3, <1>4, <1>5 DEF OwnInv

\* remove_client on a client of the worker disturbs no other holder.
LEMMA RemoveKeepsOwned ==
  ASSUME TypeInv, OwnInv, NEW w \in Workers, NEW c \in clients[w],
         remove_client(w, c), UNCHANGED <<hand, pending_new_socks>>
  PROVE  OwnedOnce'
<1> USE DEF TypeInv, TypeOK, OwnInv, OwnedOnce, OpenConns
<1>1. c \in Conns
  OBVIOUS
<1>2. \A v \in Workers : clients'[v] = IF v = w THEN clients[w] \ {c} ELSE clients[v]
  BY DEF remove_client
<1>3. OpenConns' = OpenConns \ {c}
  BY <1>1 DEF remove_client
<1>4. c \notin hand /\ \A v \in Workers : c \notin pending_new_socks[v]
  OBVIOUS
<1>5. \A v \in Workers \ {w} : c \notin clients[v]
  OBVIOUS
<1> QED BY <1>2, <1>3, <1>4, <1>5

LEMMA WorkerOwnInv ==
  ASSUME TypeInv, OwnInv, NEW w \in Workers, WorkerStep(w)
  PROVE  OwnInv'
<1> USE DEF kernelVars, workerVars, mainVars, OwnInv, NextEvent
<1>1. CASE WorkerCheck(w)
  <2>1. Control'
    BY <1>1 DEF WorkerCheck, Control, StoppingPcs, TypeInv, TypeOK
  <2>2. OwnedOnce'
    BY <1>1 DEF WorkerCheck, OwnedOnce, OpenConns
  <2>3. EventsAreLive' /\ OneEventEach'
    BY <1>1 DEF WorkerCheck, EventsAreLive, OneEventEach, TypeInv, TypeOK
  <2> QED BY <2>1, <2>2, <2>3
<1>2. CASE WorkerWait(w)
  <2>1. PICK b \in [hup  : SUBSET Ready(w).hup,
                    in   : SUBSET Ready(w).in,
                    wake : {FALSE, wakeup[w]}] :
          /\ batch' = [batch EXCEPT ![w] = b]
          /\ wpc' = [wpc EXCEPT ![w] =
                       IF b = NoEvents THEN "head" ELSE "dispatch"]
    BY <1>2 DEF WorkerWait
  <2>2. Control'
    BY <1>2, <2>1 DEF WorkerWait, Control, StoppingPcs, TypeInv, TypeOK
  <2>3. OwnedOnce'
    BY <1>2 DEF WorkerWait, OwnedOnce, OpenConns
  <2>4. b.hup \cup b.in \subseteq interest[w] /\ b.hup \cap b.in = {}
    BY DEF Ready
  <2>5. EventsAreLive' /\ OneEventEach'
    BY <1>2, <2>1, <2>4 DEF WorkerWait, EventsAreLive, OneEventEach, TypeInv, TypeOK
  <2> QED BY <2>2, <2>3, <2>5
<1>3. ASSUME NEW c \in Conns, EventHup(w, c) PROVE OwnInv'
  <2>1. c \in clients[w]
    BY <1>3 DEF EventHup, EventsAreLive
  <2>2. Control'
    BY <1>3 DEF EventHup, remove_client, Control, StoppingPcs, TypeInv, TypeOK
  <2>3. OwnedOnce'
    BY <1>3, <2>1, RemoveKeepsOwned DEF EventHup
  <2>4. EventsAreLive' /\ OneEventEach'
    BY <1>3 DEF EventHup, remove_client, EventsAreLive, OneEventEach,
                TypeInv, TypeOK, Batches
  <2> QED BY <2>2, <2>3, <2>4
<1>4. ASSUME NEW c \in Conns, EventData(w, c) PROVE OwnInv'
  <2>1. c \in clients[w]
    BY <1>4 DEF EventData, EventsAreLive
  <2>2. CASE UNCHANGED <<sock, interest, clients, size_clients>>
    <3>1. Control'
      BY <1>4, <2>2 DEF EventData, Control, StoppingPcs, TypeInv, TypeOK
    <3>2. OwnedOnce'
      BY <1>4, <2>2 DEF EventData, OwnedOnce, OpenConns
    <3>3. EventsAreLive' /\ OneEventEach'
      BY <1>4, <2>2 DEF EventData, EventsAreLive, OneEventEach,
                        TypeInv, TypeOK, Batches
    <3> QED BY <3>1, <3>2, <3>3
  <2>3. CASE remove_client(w, c)
    <3>1. Control'
      BY <1>4, <2>3 DEF EventData, remove_client, Control, StoppingPcs, TypeInv, TypeOK
    <3>2. OwnedOnce'
      BY <1>4, <2>1, <2>3, RemoveKeepsOwned DEF EventData
    <3>3. EventsAreLive' /\ OneEventEach'
      BY <1>4, <2>3 DEF EventData, remove_client, EventsAreLive, OneEventEach,
                        TypeInv, TypeOK, Batches
    <3> QED BY <3>1, <3>2, <3>3
  <2> QED BY <1>4, <2>2, <2>3 DEF EventData
<1>5. CASE EventWakeup(w)
  <2>1. Control'
    BY <1>5 DEF EventWakeup, Control, StoppingPcs, TypeInv, TypeOK
  <2>2. OwnedOnce'
    BY <1>5 DEF EventWakeup, OwnedOnce, OpenConns
  <2>3. EventsAreLive' /\ OneEventEach'
    BY <1>5 DEF EventWakeup, EventsAreLive, OneEventEach, TypeInv, TypeOK, Batches
  <2> QED BY <2>1, <2>2, <2>3
<1>6. CASE Drain(w)
  <2>1. Control'
    BY <1>6 DEF Drain, Control, StoppingPcs, TypeInv, TypeOK
  <2>2. OwnedOnce'
    BY <1>6 DEF Drain, OwnedOnce, OpenConns, TypeInv, TypeOK
  <2>3. EventsAreLive' /\ OneEventEach'
    BY <1>6 DEF Drain, EventsAreLive, OneEventEach, TypeInv, TypeOK
  <2> QED BY <2>1, <2>2, <2>3
<1>7. CASE FullstopClient(w)
  <2>1. PICK c \in clients[w] : remove_client(w, c)
    BY <1>7 DEF FullstopClient
  <2>2. Control'
    BY <1>7, <2>1 DEF FullstopClient, remove_client, Control, StoppingPcs, TypeInv, TypeOK
  <2>3. OwnedOnce'
    BY <1>7, <2>1, RemoveKeepsOwned DEF FullstopClient
  <2>4. EventsAreLive' /\ OneEventEach'
    BY <1>7, <2>1 DEF FullstopClient, remove_client, EventsAreLive, OneEventEach,
                      TypeInv, TypeOK, NoEvents
  <2> QED BY <2>2, <2>3, <2>4
<1>8. CASE FullstopClientsDone(w)
  <2>1. Control'
    BY <1>8 DEF FullstopClientsDone, Control, StoppingPcs, TypeInv, TypeOK
  <2>2. OwnedOnce'
    BY <1>8 DEF FullstopClientsDone, OwnedOnce, OpenConns
  <2>3. EventsAreLive' /\ OneEventEach'
    BY <1>8 DEF FullstopClientsDone, EventsAreLive, OneEventEach, TypeInv, TypeOK
  <2> QED BY <2>1, <2>2, <2>3
<1>9. CASE FullstopQueue(w)
  <2>1. Control'
    BY <1>9 DEF FullstopQueue, Control, StoppingPcs, TypeInv, TypeOK
  <2>2. OwnedOnce'
    BY <1>9 DEF FullstopQueue, OwnedOnce, OpenConns, TypeInv, TypeOK
  <2>3. EventsAreLive' /\ OneEventEach'
    BY <1>9 DEF FullstopQueue, EventsAreLive, OneEventEach, TypeInv, TypeOK
  <2> QED BY <2>1, <2>2, <2>3
<1>10. CASE FullstopFds(w)
  <2>1. Control'
    BY <1>10 DEF FullstopFds, Control, StoppingPcs, TypeInv, TypeOK
  <2>2. OwnedOnce'
    BY <1>10 DEF FullstopFds, OwnedOnce, OpenConns
  <2>3. EventsAreLive' /\ OneEventEach'
    BY <1>10 DEF FullstopFds, EventsAreLive, OneEventEach, TypeInv, TypeOK, NoEvents
  <2> QED BY <2>1, <2>2, <2>3
<1>11. CASE DeleteEpoll(w)
  <2>1. Control'
    BY <1>11 DEF DeleteEpoll, Control, StoppingPcs, TypeInv, TypeOK
  <2>2. OwnedOnce'
    BY <1>11 DEF DeleteEpoll, OwnedOnce, OpenConns, TypeInv, TypeOK
  <2>3. EventsAreLive' /\ OneEventEach'
    BY <1>11 DEF DeleteEpoll, EventsAreLive, OneEventEach, TypeInv, TypeOK
  <2> QED BY <2>1, <2>2, <2>3
<1>12. CASE MapRace(w)
  BY <1>12 DEF MapRace, Control, StoppingPcs, OwnedOnce, OpenConns,
               EventsAreLive, OneEventEach
<1> QED BY <1>1, <1>2, <1>3, <1>4, <1>5, <1>6, <1>7, <1>8, <1>9, <1>10,
           <1>11, <1>12 DEF WorkerStep

LEMMA MainOwnInv == TypeInv /\ OwnInv /\ MainStep => OwnInv'
<1> SUFFICES ASSUME TypeInv, OwnInv, MainStep PROVE OwnInv'
  OBVIOUS
<1> USE DEF kernelVars, workerVars, mainVars, OwnInv, AfterEvent, AfterCompare
<1>1. CASE AcceptOne
  <2>1. PICK c \in Backlog : sock' = [sock EXCEPT ![c] = "est"] /\ hand' = {c}
    BY <1>1 DEF AcceptOne
  <2>2. c \in Conns /\ c \notin OpenConns /\ OpenConns' = OpenConns \cup {c}
    BY <2>1 DEF Backlog, OpenConns, TypeInv, TypeOK
  <2>3. Control'
    BY <1>1, <2>1, <2>2 DEF AcceptOne, Control, StoppingPcs
  <2>4. OwnedOnce'
    BY <1>1, <2>1, <2>2 DEF AcceptOne, OwnedOnce, TypeInv, TypeOK
  <2>5. EventsAreLive' /\ OneEventEach'
    BY <1>1 DEF AcceptOne, EventsAreLive, OneEventEach
  <2> QED BY <2>3, <2>4, <2>5
<1>2. CASE Push
  <2>1. Control'
    BY <1>2 DEF Push, Control, StoppingPcs, TypeInv, TypeOK
  <2>2. target \in Workers
    BY DEF TypeInv, TypeOK
  <2>3. \A w \in Workers :
          pending_new_socks'[w] = IF w = target THEN pending_new_socks[w] \cup hand
                                                ELSE pending_new_socks[w]
    BY <1>2, <2>2 DEF Push, TypeInv, TypeOK
  <2>4. hand' = {} /\ clients' = clients /\ OpenConns' = OpenConns
    BY <1>2 DEF Push, OpenConns
  <2>5. OwnedOnce'
    BY <2>3, <2>4 DEF OwnedOnce
  <2>6. EventsAreLive' /\ OneEventEach'
    BY <1>2 DEF Push, EventsAreLive, OneEventEach
  <2> QED BY <2>1, <2>5, <2>6
<1>3. CASE MainJoin
  <2>1. hand = {} /\ \A w \in Workers : clients[w] = {} /\ pending_new_socks[w] = {}
    BY <1>3 DEF MainJoin, Control, StoppingPcs
  <2>2. Control'
    BY <1>3 DEF MainJoin, Control, StoppingPcs
  <2>3. OwnedOnce'
    BY <1>3, <2>1 DEF MainJoin, OwnedOnce
  <2>4. EventsAreLive' /\ OneEventEach'
    BY <1>3 DEF MainJoin, EventsAreLive, OneEventEach
  <2> QED BY <2>2, <2>3, <2>4
<1>4. ASSUME UNCHANGED <<sock, interest, workerVars, hand, g_should_stop>>,
             mpc' \in {"balance", "push"} <=> mpc \in {"balance", "push"},
             mpc' = "join" => g_should_stop
      PROVE  OwnInv'
  <2>1. Control'
    BY <1>4 DEF Control, StoppingPcs
  <2>2. OwnedOnce'
    BY <1>4 DEF OwnedOnce, OpenConns
  <2>3. EventsAreLive' /\ OneEventEach'
    BY <1>4 DEF EventsAreLive, OneEventEach
  <2> QED BY <2>1, <2>2, <2>3
<1>5. CASE MainCheck \/ MainWait
  BY <1>4, <1>5 DEF MainCheck, MainWait, Control
<1>6. CASE EventListen \/ EventTimer
  BY <1>4, <1>6 DEF EventListen, EventTimer, Control
<1>7. CASE AcceptFails \/ AcceptDone
  BY <1>4, <1>7 DEF AcceptFails, AcceptDone, Control
<1>8. CASE BalanceCompare \/ Notify
  BY <1>4, <1>8 DEF BalanceCompare, Notify, Control
<1>9. CASE StatsCount \/ StatsPrint
  BY <1>4, <1>9 DEF StatsCount, StatsPrint, Control
<1>10. CASE UseFreed
  BY <1>4, <1>10 DEF UseFreed, Control
<1> QED BY <1>1, <1>2, <1>3, <1>5, <1>6, <1>7, <1>8, <1>9, <1>10 DEF MainStep

LEMMA StutterOwnInv == OwnInv /\ UNCHANGED vars => OwnInv'
BY DEF OwnInv, Control, OwnedOnce, OpenConns, EventsAreLive, OneEventEach, vars

LEMMA OwnInvHolds == SafetySpec => []OwnInv
<1>1. TypeInv /\ OwnInv /\ [Next]_vars => OwnInv'
  BY EnvironmentOwnInv, WorkerOwnInv, MainOwnInv, StutterOwnInv
     DEF Next, WorkerRuns, MainRuns, ProcessEnded
<1> QED BY <1>1, InitOwnInv, TypeInvHolds, PTL DEF SafetySpec

\* No two of main, the queues and the clients maps ever hold the same socket,
\* and what they hold is open: with this no thread reads or closes a
\* descriptor that another one is responsible for.
THEOREM SocketsOwnedOnce == SafetySpec => []OwnedOnce
<1>1. OwnInv => OwnedOnce
  BY DEF OwnInv
<1> QED BY <1>1, OwnInvHolds, PTL

\* The events of one epoll_wait stay meaningful while exec handles them one
\* after the other, closing some of the descriptors on the way.
THEOREM BatchStaysLive == SafetySpec => []EventsAreLive
<1>1. OwnInv => EventsAreLive
  BY DEF OwnInv
<1> QED BY <1>1, OwnInvHolds, PTL

-----------------------------------------------------------------------------
(* Nothing is lost on the way to a worker.                                 *)

\* A step that closes no more than it releases keeps NoOrphan.
LEMMA NoOrphanStep ==
  ASSUME TypeInv, OwnInv, NoOrphan, [Next]_vars
  PROVE  NoOrphan'
<1> SUFFICES ASSUME ~g_should_stop' PROVE NoOrphan'
  BY DEF NoOrphan
<1> USE DEF kernelVars, workerVars, mainVars, NextEvent, NoOrphan, OpenConns
<1>1. CASE Environment
  <2>1. ~g_should_stop /\ UNCHANGED <<clients, pending_new_socks, hand>>
    BY <1>1 DEF Environment, PeerConnect, PeerSend, PeerHangup, Tick, StopSignal
  <2>2. \A c \in Conns : sock'[c] = "est" => sock[c] = "est"
    BY <1>1 DEF Environment, PeerConnect, PeerSend, PeerHangup, Tick, StopSignal,
                TypeInv, TypeOK
  <2> QED BY <2>1, <2>2
<1>2. ASSUME NEW w \in Workers, WorkerStep(w) PROVE NoOrphan'
  <2>s. ~g_should_stop
    BY <1>2 DEF WorkerStep, WorkerCheck, WorkerWait, EventHup, EventData,
                EventWakeup, Drain, FullstopClient, FullstopClientsDone,
                FullstopQueue, FullstopFds, DeleteEpoll, MapRace
  <2>n. wpc[w] \notin StoppingPcs
    BY <2>s DEF OwnInv, Control
  <2>1. ASSUME NEW c \in Conns, remove_client(w, c),
               UNCHANGED <<hand, pending_new_socks, g_should_stop>>
        PROVE  NoOrphan'
    <3>1. \A d \in Conns : sock'[d] = "est" => sock[d] = "est" /\ d # c
      BY <2>1 DEF remove_client, TypeInv, TypeOK
    <3>2. \A v \in Workers : clients[v] \ {c} \subseteq clients'[v]
      BY <2>1 DEF remove_client, TypeInv, TypeOK
    <3> QED BY <2>1, <2>s, <3>1, <3>2
  <2>2. CASE UNCHANGED <<sock, hand, clients, pending_new_socks>>
    BY <2>2, <2>s
  <2>3. CASE Drain(w)
    <3>1. \A v \in Workers : clients'[v] \cup pending_new_socks'[v]
                               = clients[v] \cup pending_new_socks[v]
      BY <2>3 DEF Drain, TypeInv, TypeOK
    <3> QED BY <2>3, <2>s, <3>1 DEF Drain
  <2>4. CASE WorkerCheck(w) \/ WorkerWait(w) \/ EventWakeup(w) \/ MapRace(w)
    BY <2>4, <2>2 DEF WorkerCheck, WorkerWait, EventWakeup, MapRace
  <2>5. ASSUME NEW c \in Conns, EventHup(w, c) \/ EventData(w, c) PROVE NoOrphan'
    BY <2>5, <2>1, <2>2 DEF EventHup, EventData
  <2>6. CASE \/ FullstopClient(w) \/ FullstopClientsDone(w) \/ FullstopQueue(w)
             \/ FullstopFds(w) \/ DeleteEpoll(w)
    BY <2>6, <2>n DEF FullstopClient, FullstopClientsDone, FullstopQueue,
                      FullstopFds, DeleteEpoll, StoppingPcs
  <2> QED BY <1>2, <2>3, <2>4, <2>5, <2>6 DEF WorkerStep
<1>3. CASE MainStep
  <2>s. ~g_should_stop
    BY <1>3 DEF MainStep, MainCheck, MainWait, EventListen, AcceptOne, AcceptFails,
                AcceptDone, BalanceCompare, Push, Notify, EventTimer, StatsCount,
                StatsPrint, UseFreed, MainJoin
  <2>1. CASE UNCHANGED <<sock, hand, clients, pending_new_socks>>
    BY <2>1, <2>s
  <2>2. CASE AcceptOne
    <3>1. hand = {}
      BY <2>2 DEF AcceptOne, OwnInv, Control
    <3> QED BY <2>2, <2>s, <3>1 DEF AcceptOne, Backlog, TypeInv, TypeOK
  <2>3. CASE Push
    <3>1. /\ hand \cup pending_new_socks[target] \subseteq pending_new_socks'[target]
          /\ \A v \in Workers : pending_new_socks[v] \subseteq pending_new_socks'[v]
          /\ target \in Workers
      BY <2>3 DEF Push, TypeInv, TypeOK
    <3> QED BY <2>3, <2>s, <3>1 DEF Push
  <2>4. CASE MainJoin
    BY <2>4, <2>s DEF MainJoin, OwnInv, Control
  <2> QED BY <1>3, <2>1, <2>2, <2>3, <2>4 DEF MainStep, MainCheck, MainWait,
             EventListen, AcceptFails, AcceptDone, BalanceCompare, Notify,
             EventTimer, StatsCount, StatsPrint, UseFreed
<1>4. CASE UNCHANGED vars
  BY <1>4 DEF vars
<1> QED BY <1>1, <1>2, <1>3, <1>4 DEF Next, WorkerRuns, MainRuns, ProcessEnded

\* While the server is not being stopped, an accepted socket is always in
\* somebody's hands: the two-sided hand-off of push_external_socket and exec
\* forgets none, whatever the order of the threads.
THEOREM NoSocketForgotten == SafetySpec => []NoOrphan
<1>1. Init => NoOrphan
  BY DEF Init, NoOrphan, OpenConns
<1>2. TypeInv /\ OwnInv /\ NoOrphan /\ [Next]_vars => NoOrphan'
  BY NoOrphanStep
<1> QED BY <1>1, <1>2, TypeInvHolds, OwnInvHolds, PTL DEF SafetySpec

LEMMA NoLostWakeupStep ==
  ASSUME TypeInv, NoLostWakeup, [Next]_vars
  PROVE  NoLostWakeup'
<1> USE DEF kernelVars, workerVars, mainVars, NextEvent, NoLostWakeup, TypeInv, TypeOK
<1>1. CASE Environment
  BY <1>1 DEF Environment, PeerConnect, PeerSend, PeerHangup, Tick, StopSignal
<1>2. ASSUME NEW w \in Workers, WorkerStep(w) PROVE NoLostWakeup'
  <2>1. CASE Drain(w)
    BY <2>1 DEF Drain
  <2>2. CASE WorkerCheck(w) \/ EventWakeup(w)
    BY <2>2 DEF WorkerCheck, EventWakeup
  <2>3. CASE WorkerWait(w)
    BY <2>3 DEF WorkerWait
  <2>4. ASSUME NEW c \in Conns, EventHup(w, c) \/ EventData(w, c)
        PROVE  NoLostWakeup'
    <3>1. /\ UNCHANGED <<wakeup, pending_new_socks, mpc, target>>
          /\ \A v \in Workers : wpc'[v] # wpc[v] => wpc[v] = "dispatch"
      BY <2>4 DEF EventHup, EventData
    <3> QED BY <3>1
  <2>5. CASE FullstopClient(w) \/ MapRace(w)
    BY <2>5 DEF FullstopClient, MapRace
  <2>6. CASE FullstopClientsDone(w) \/ FullstopQueue(w) \/ FullstopFds(w) \/ DeleteEpoll(w)
    BY <2>6 DEF FullstopClientsDone, FullstopQueue, FullstopFds, DeleteEpoll
  <2> QED BY <1>2, <2>1, <2>2, <2>3, <2>4, <2>5, <2>6 DEF WorkerStep
<1>3. CASE MainStep
  <2>1. CASE Push
    BY <2>1 DEF Push
  <2>2. CASE Notify
    BY <2>2 DEF Notify
  <2>3. ASSUME UNCHANGED <<wakeup, wpc, pending_new_socks>>, mpc # "notify" \/ UNCHANGED <<mpc, target>>
        PROVE  NoLostWakeup'
    BY <2>3
  <2> QED BY <1>3, <2>1, <2>2, <2>3 DEF MainStep, MainCheck, MainWait, EventListen,
             AcceptOne, AcceptFails, AcceptDone, BalanceCompare, EventTimer,
             StatsCount, StatsPrint, UseFreed, MainJoin
<1>4. CASE UNCHANGED vars
  BY <1>4 DEF vars
<1> QED BY <1>1, <1>2, <1>3, <1>4 DEF Next, WorkerRuns, MainRuns, ProcessEnded

\* Because exec reads the eventfd before it drains the queue and main writes
\* it after it has pushed, no push goes unnoticed.
THEOREM NoWakeupLost == SafetySpec => []NoLostWakeup
<1>1. Init => NoLostWakeup
  BY DEF Init, NoLostWakeup
<1>2. TypeInv /\ NoLostWakeup /\ [Next]_vars => NoLostWakeup'
  BY NoLostWakeupStep
<1> QED BY <1>1, <1>2, TypeInvHolds, PTL DEF SafetySpec

-----------------------------------------------------------------------------
(* size_clients is exact although two threads change it.                   *)

Load(w) == clients[w] \cup pending_new_socks[w]

LEMMA LoadFinite ==
  ASSUME TypeInv, NEW w \in Workers
  PROVE  IsFiniteSet(Load(w)) /\ Cardinality(Load(w)) \in Nat
<1>1. Load(w) \subseteq Conns
  BY DEF Load, TypeInv, TypeOK
<1> QED BY <1>1, ConnsAssumption, FS_Subset, FS_CardinalityType

\* A worker whose load and counter a step leaves alone stays exact.
LEMMA SameLoadExact ==
  ASSUME SizeClientsExact,
         \A w \in Workers :
           wpc'[w] \notin {"close_fds", "delete", "gone"} =>
             /\ wpc[w] \notin {"close_fds", "delete", "gone"}
             /\ size_clients'[w] = size_clients[w]
             /\ Load(w)' = Load(w)
  PROVE  SizeClientsExact'
BY DEF SizeClientsExact, Load

\* remove_client decrements exactly when it takes a client away.
LEMMA RemoveKeepsExact ==
  ASSUME TypeInv, OwnInv, SizeClientsExact, NEW w \in Workers,
         NEW c \in clients[w], remove_client(w, c), UNCHANGED pending_new_socks,
         wpc[w] \notin {"close_fds", "delete", "gone"},
         \A v \in Workers \ {w} : wpc'[v] = wpc[v]
  PROVE  SizeClientsExact'
<1>1. \A v \in Workers \ {w} : Load(v)' = Load(v) /\ size_clients'[v] = size_clients[v]
  BY DEF remove_client, Load, TypeInv, TypeOK
<1>2. c \in Load(w) /\ c \notin pending_new_socks[w]
  BY DEF Load, OwnInv, OwnedOnce
<1>3. Load(w)' = Load(w) \ {c}
  BY <1>2 DEF remove_client, Load, TypeInv, TypeOK
<1>4. Cardinality(Load(w)') = Cardinality(Load(w)) - 1
  BY <1>2, <1>3, LoadFinite, FS_RemoveElement
<1>5. size_clients'[w] = size_clients[w] - 1
  BY DEF remove_client, TypeInv, TypeOK
<1> QED BY <1>1, <1>4, <1>5 DEF SizeClientsExact, Load

LEMMA SizeClientsExactStep ==
  ASSUME TypeInv, OwnInv, SizeClientsExact, [Next]_vars
  PROVE  SizeClientsExact'
<1> USE DEF kernelVars, workerVars, mainVars, NextEvent
<1>0. ASSUME UNCHANGED <<clients, pending_new_socks, size_clients>>,
             \A w \in Workers : wpc[w] \in {"close_fds", "delete", "gone"}
                                  => wpc'[w] \in {"close_fds", "delete", "gone"}
      PROVE  SizeClientsExact'
  BY <1>0, SameLoadExact DEF Load
<1>1. CASE Environment
  BY <1>0, <1>1 DEF Environment, PeerConnect, PeerSend, PeerHangup, Tick, StopSignal
<1>2. ASSUME NEW w \in Workers, WorkerStep(w) PROVE SizeClientsExact'
  <2>1. CASE WorkerCheck(w) \/ WorkerWait(w) \/ EventWakeup(w) \/ MapRace(w)
    BY <2>1, <1>0 DEF WorkerCheck, WorkerWait, EventWakeup, MapRace, TypeInv, TypeOK
  <2>2. ASSUME NEW c \in Conns, EventHup(w, c) PROVE SizeClientsExact'
    <3>1. c \in clients[w]
      BY <2>2 DEF EventHup, OwnInv, EventsAreLive
    <3>2. \A v \in Workers \ {w} : wpc'[v] = wpc[v]
      BY <2>2 DEF EventHup, TypeInv, TypeOK
    <3> QED BY <2>2, <3>1, <3>2, RemoveKeepsExact DEF EventHup
  <2>3. ASSUME NEW c \in Conns, EventData(w, c) PROVE SizeClientsExact'
    <3>1. c \in clients[w]
      BY <2>3 DEF EventData, OwnInv, EventsAreLive
    <3>2. /\ wpc[w] = "dispatch" /\ UNCHANGED pending_new_socks
          /\ \A v \in Workers \ {w} : wpc'[v] = wpc[v]
      BY <2>3 DEF EventData, TypeInv, TypeOK
    <3>3. CASE remove_client(w, c)
      BY <3>1, <3>2, <3>3, RemoveKeepsExact
    <3>4. CASE UNCHANGED <<clients, size_clients>>
      BY <3>2, <3>4, <1>0
    <3> QED BY <2>3, <3>3, <3>4 DEF EventData
  <2>4. CASE Drain(w)
    <3>1. \A v \in Workers : Load(v)' = Load(v)
      BY <2>4 DEF Drain, Load, TypeInv, TypeOK
    <3>2. UNCHANGED size_clients /\ \A v \in Workers : wpc[v] = wpc'[v] \/ wpc[v] = "drain"
      BY <2>4 DEF Drain, TypeInv, TypeOK
    <3> QED BY <3>1, <3>2, SameLoadExact
  <2>5. CASE FullstopClient(w)
    BY <2>5, RemoveKeepsExact DEF FullstopClient
  <2>6. CASE FullstopClientsDone(w)
    BY <2>6, <1>0 DEF FullstopClientsDone, TypeInv, TypeOK
  <2>7. CASE FullstopQueue(w) \/ FullstopFds(w) \/ DeleteEpoll(w)
    <3>1. \A v \in Workers \ {w} : /\ Load(v)' = Load(v)
                                   /\ size_clients'[v] = size_clients[v]
                                   /\ wpc'[v] = wpc[v]
      BY <2>7 DEF FullstopQueue, FullstopFds, DeleteEpoll, Load, TypeInv, TypeOK
    <3>2. wpc'[w] \in {"close_fds", "delete", "gone"}
      BY <2>7 DEF FullstopQueue, FullstopFds, DeleteEpoll, TypeInv, TypeOK
    <3> QED BY <3>1, <3>2, SameLoadExact
  <2> QED BY <1>2, <2>1, <2>2, <2>3, <2>4, <2>5, <2>6, <2>7 DEF WorkerStep
<1>3. CASE Push
  <2>0. PICK t \in Workers : t = target
    BY DEF TypeInv, TypeOK
  <2>1. /\ UNCHANGED wpc
        /\ size_clients'[t] = size_clients[t] + 1
        /\ Load(t)' = Load(t) \cup hand
        /\ \A v \in Workers \ {t} : /\ Load(v)' = Load(v)
                                    /\ size_clients'[v] = size_clients[v]
    BY <1>3, <2>0 DEF Push, Load, TypeInv, TypeOK
  <2>2. PICK c \in Conns : hand = {c}
    BY <1>3 DEF Push, OwnInv, Control
  <2>3. c \notin Load(t)
    BY <2>2 DEF Load, OwnInv, OwnedOnce
  <2>4. Cardinality(Load(t)') = Cardinality(Load(t)) + 1
    BY <2>1, <2>2, <2>3, LoadFinite, FS_AddElement
  <2>5. \A v \in Workers \ {t} : wpc'[v] = wpc[v] /\ Load(v)' = Load(v) /\ size_clients'[v] = size_clients[v]
    BY <2>1
  <2>6. wpc'[t] = wpc[t] /\ size_clients'[t] = size_clients[t] + 1
    BY <2>1
  <2>7. ASSUME NEW v \in Workers, wpc'[v] \notin {"close_fds", "delete", "gone"}
        PROVE  size_clients'[v] = Cardinality(Load(v)')
    <3>1. CASE v = t
      <4>1. size_clients[t] = Cardinality(Load(t))
        BY <2>6, <2>7, <3>1 DEF SizeClientsExact, Load
      <4> QED BY <2>4, <2>6, <3>1, <4>1
    <3>2. CASE v # t
      BY <2>5, <2>7, <3>2 DEF SizeClientsExact, Load
    <3> QED BY <3>1, <3>2
  <2> QED BY <2>7 DEF SizeClientsExact, Load
<1>4. CASE MainStep /\ ~Push
  BY <1>4, <1>0 DEF MainStep, MainCheck, MainWait, EventListen, AcceptOne,
     AcceptFails, AcceptDone, BalanceCompare, Notify, EventTimer, StatsCount,
     StatsPrint, UseFreed, MainJoin
<1>5. CASE UNCHANGED vars
  BY <1>5, <1>0 DEF vars
<1> QED BY <1>1, <1>2, <1>3, <1>4, <1>5 DEF Next, WorkerRuns, MainRuns, ProcessEnded

\* The counter balance_socket reads is the number of sockets a worker has
\* been given and has not closed: the increment in push_external_socket and
\* the decrement in remove_client, in different threads, account for each
\* socket once.
THEOREM CountersExact == SafetySpec => []SizeClientsExact
<1>1. Init => SizeClientsExact
  BY FS_EmptySet DEF Init, SizeClientsExact
<1>2. TypeInv /\ OwnInv /\ SizeClientsExact /\ [Next]_vars => SizeClientsExact'
  BY SizeClientsExactStep
<1> QED BY <1>1, <1>2, TypeInvHolds, OwnInvHolds, PTL DEF SafetySpec

-----------------------------------------------------------------------------
(* balance_socket balances.                                                *)

\* No stop and no departure yet.
Filling == ~g_should_stop /\ \A c \in Conns : sock[c] # "closed"

\* std::min_element, half-way and at its end.
LeastSoFar ==
  /\ mpc = "balance" => \A v \in 1..visit : size_clients[target] <= size_clients[v]
  /\ mpc = "push" => \A v \in Workers : size_clients[target] <= size_clients[v]

BalanceInv ==
  Filling => /\ \A v, w \in Workers : size_clients[v] <= size_clients[w] + 1
             /\ LeastSoFar

LEMMA BalanceStep ==
  ASSUME TypeInv, OwnInv, BalanceInv, [Next]_vars
  PROVE  BalanceInv'
<1> SUFFICES ASSUME Filling'
             PROVE  /\ \A v, w \in Workers : size_clients'[v] <= size_clients'[w] + 1
                    /\ LeastSoFar'
  BY DEF BalanceInv
<1> USE DEF kernelVars, workerVars, mainVars, NextEvent
<1>0. ASSUME Filling, UNCHANGED size_clients,
             UNCHANGED <<mpc, target, visit>> \/ mpc' \notin {"balance", "push"}
      PROVE  /\ \A v, w \in Workers : size_clients'[v] <= size_clients'[w] + 1
             /\ LeastSoFar'
  BY <1>0 DEF BalanceInv, LeastSoFar
<1>1. CASE Environment
  <2>1. Filling
    BY <1>1 DEF Filling, Environment, PeerConnect, PeerSend, PeerHangup, Tick,
                StopSignal, TypeInv, TypeOK
  <2> QED BY <1>0, <1>1, <2>1 DEF Environment, PeerConnect, PeerSend, PeerHangup,
             Tick, StopSignal
<1>2. ASSUME NEW w \in Workers, WorkerStep(w)
      PROVE  Filling /\ UNCHANGED size_clients /\ UNCHANGED <<mpc, target, visit>>
  <2>1. \A c \in Conns : ~remove_client(w, c)
    BY DEF Filling, remove_client, TypeInv, TypeOK
  <2>2. UNCHANGED g_should_stop
    BY <1>2 DEF WorkerStep, WorkerCheck, WorkerWait, EventHup, EventData,
                EventWakeup, Drain, FullstopClient, FullstopClientsDone,
                FullstopQueue, FullstopFds, DeleteEpoll, MapRace
  <2>3. wpc[w] \notin StoppingPcs
    BY <2>2 DEF Filling, OwnInv, Control
  <2>4. \/ WorkerCheck(w) \/ WorkerWait(w) \/ EventWakeup(w) \/ Drain(w) \/ MapRace(w)
        \/ \E c \in Conns : EventData(w, c)
    BY <1>2, <2>1, <2>3 DEF WorkerStep, EventHup, FullstopClient,
       FullstopClientsDone, FullstopQueue, FullstopFds, DeleteEpoll, StoppingPcs
  <2>5. UNCHANGED <<sock, size_clients, mpc, target, visit>>
    BY <2>1, <2>4 DEF WorkerCheck, WorkerWait, EventWakeup, Drain, MapRace, EventData
  <2> QED BY <2>2, <2>5 DEF Filling
<1>3. CASE MainStep
  <2>1. Filling
    BY <1>3 DEF Filling, MainStep, MainCheck, MainWait, EventListen, AcceptOne,
       AcceptFails, AcceptDone, BalanceCompare, Push, Notify, EventTimer,
       StatsCount, StatsPrint, UseFreed, MainJoin, Backlog, OwnInv, Control,
       TypeInv, TypeOK
  <2>2. CASE AcceptOne
    <3>1. UNCHANGED size_clients /\ target' = 1 /\ visit' = 1
          /\ mpc' = AfterCompare(1)
      BY <2>2 DEF AcceptOne
    <3>2. \A v \in 1..1 : size_clients[1] <= size_clients[v]
      BY NumWorkersAssumption DEF Workers, TypeInv, TypeOK
    <3> QED BY <2>1, <3>1, <3>2, NumWorkersAssumption
            DEF BalanceInv, LeastSoFar, AfterCompare, Workers
  <2>3. CASE BalanceCompare
    <3> DEFINE next == visit + 1
    <3>1. next \in Workers /\ visit \in Workers /\ target \in Workers /\ next' \in Int
      BY <2>3, NumWorkersAssumption
         DEF BalanceCompare, TypeInv, TypeOK, IteratorOK, Workers
    <3>2. wpc[next] # "gone" /\ wpc[target] # "gone"
      BY <2>1, <3>1 DEF Filling, OwnInv, Control, StoppingPcs
    <3>3. \A v \in Workers : size_clients[v] \in Int
      BY DEF TypeInv, TypeOK
    <3>4. \A v \in 1..visit : size_clients[target] <= size_clients[v]
      BY <2>1, <2>3 DEF BalanceInv, LeastSoFar, BalanceCompare
    <3>5. \A v \in 1..next : v \in 1..visit \/ v = next
      BY <3>1 DEF Workers
    <3>6. 1..visit \subseteq Workers
      BY <3>1, NumWorkersAssumption DEF Workers
    <3>7. \A v \in 1..next : size_clients[target'] <= size_clients[v]
      BY <2>3, <3>1, <3>2, <3>3, <3>4, <3>5, <3>6 DEF BalanceCompare
    <3> QED BY <2>1, <2>3, <3>1, <3>7 DEF BalanceCompare, BalanceInv, LeastSoFar,
               AfterCompare, Workers
  <2>4. CASE Push
    <3>1. /\ target \in Workers /\ mpc = "push" /\ mpc' = "notify"
          /\ size_clients' = [size_clients EXCEPT ![target] = @ + 1]
      BY <2>4 DEF Push, TypeInv, TypeOK
    <3>2. \A v \in Workers : size_clients[v] \in Int
      BY DEF TypeInv, TypeOK
    <3>3. \A v \in Workers : size_clients[target] <= size_clients[v]
      BY <2>1, <3>1 DEF BalanceInv, LeastSoFar
    <3>4. \A v \in Workers : size_clients'[v] =
            IF v = target THEN size_clients[v] + 1 ELSE size_clients[v]
      BY <3>1 DEF TypeInv, TypeOK
    <3>5. \A v, w \in Workers : size_clients'[v] <= size_clients'[w] + 1
      BY <2>1, <3>1, <3>2, <3>3, <3>4 DEF BalanceInv
    <3> QED BY <3>1, <3>5 DEF LeastSoFar
  <2>5. CASE MainStep /\ ~AcceptOne /\ ~BalanceCompare /\ ~Push
    <3>1. UNCHANGED size_clients
      BY <2>5 DEF MainStep, MainCheck, MainWait, EventListen, AcceptFails,
         AcceptDone, Notify, EventTimer, StatsCount, StatsPrint, UseFreed, MainJoin
    <3>2. UNCHANGED <<mpc, target, visit>> \/ mpc' \notin {"balance", "push"}
      BY <2>5 DEF MainStep, MainCheck, MainWait, EventListen, AcceptFails,
         AcceptDone, Notify, EventTimer, StatsCount, StatsPrint, UseFreed,
         MainJoin, AfterEvent
    <3> QED BY <1>0, <2>1, <3>1, <3>2
  <2> QED BY <1>3, <2>2, <2>3, <2>4, <2>5
<1>4. CASE UNCHANGED vars
  BY <1>4, <1>0 DEF vars, Filling
<1> QED BY <1>0, <1>1, <1>2, <1>3, <1>4 DEF Next, WorkerRuns, MainRuns, ProcessEnded

\* While connections only come in, the loads of any two workers differ by at
\* most one: counting at the push, not at the drain, is what makes the least
\* loaded worker of std::min_element the right one.
THEOREM LoadIsBalanced == SafetySpec => []BalancedLoad
<1>1. Init => BalanceInv
  BY DEF Init, BalanceInv, LeastSoFar
<1>2. TypeInv /\ OwnInv /\ BalanceInv /\ [Next]_vars => BalanceInv'
  BY BalanceStep
<1>3. BalanceInv => BalancedLoad
  BY DEF BalanceInv, BalancedLoad, Filling
<1> QED BY <1>1, <1>2, <1>3, TypeInvHolds, OwnInvHolds, PTL DEF SafetySpec

-----------------------------------------------------------------------------
(* Every behaviour of MyncServer is, through the mapping at its end, a     *)
(* behaviour of ConnectionHandoff: the initial states map to initial       *)
(* states, and a step of any thread to a step of the hand-off or to none.  *)
(* (The fairness of ConnectionHandoff is left to TLC.)                     *)


\* What stageOf and ownerOf say, place by place.
PlaceOK ==
  \A c \in Conns :
    /\ sock[c] # "est" => stageOf(c) = sock[c] /\ ownerOf(c) = 0
    /\ c \in hand => stageOf(c) = "accepted" /\ ownerOf(c) = 0
    /\ \A w \in Workers :
         /\ c \in pending_new_socks[w] => stageOf(c) = "queued" /\ ownerOf(c) = w
         /\ c \in clients[w] => stageOf(c) = "served" /\ ownerOf(c) = w
    /\ /\ sock[c] = "est"
       /\ c \notin hand
       /\ \A w \in Workers : c \notin Load(w)
       => stageOf(c) = "lost" /\ ownerOf(c) = 0

\* The holder of a socket determines the image of the socket.
LEMMA PlaceLemma == OwnInv => PlaceOK
<1> SUFFICES ASSUME OwnInv, NEW c \in Conns
             PROVE  /\ sock[c] # "est" => stageOf(c) = sock[c] /\ ownerOf(c) = 0
                    /\ c \in hand => stageOf(c) = "accepted" /\ ownerOf(c) = 0
                    /\ \A w \in Workers :
                         /\ c \in pending_new_socks[w] =>
                              stageOf(c) = "queued" /\ ownerOf(c) = w
                         /\ c \in clients[w] =>
                              stageOf(c) = "served" /\ ownerOf(c) = w
                    /\ /\ sock[c] = "est"
                       /\ c \notin hand
                       /\ \A w \in Workers : c \notin Load(w)
                       => stageOf(c) = "lost" /\ ownerOf(c) = 0
  BY DEF PlaceOK
<1> USE DEF OwnInv, OwnedOnce, OpenConns
<1>1. (\A w \in Workers : c \notin Load(w)) => ownerOf(c) = 0
  BY DEF ownerOf, Load
<1>2. ASSUME NEW w \in Workers, c \in Load(w)
      PROVE  ownerOf(c) = w /\ sock[c] = "est" /\ c \notin hand
             /\ \A v \in Workers : c \in Load(v) => v = w
  <2>1. \A v \in Workers : c \in Load(v) => v = w
    BY <1>2 DEF Load
  <2>2. sock[c] = "est" /\ c \notin hand
    BY <1>2 DEF Load
  <2>3. ownerOf(c) = w
    BY <1>2, <2>1 DEF ownerOf, Load
  <2> QED BY <2>1, <2>2, <2>3
<1>3. c \in hand => sock[c] = "est" /\ \A w \in Workers : c \notin Load(w)
  BY DEF Load
<1>4. sock[c] # "est" => stageOf(c) = sock[c] /\ ownerOf(c) = 0
  BY <1>1, <1>2 DEF stageOf
<1>5. c \in hand => stageOf(c) = "accepted" /\ ownerOf(c) = 0
  BY <1>1, <1>3 DEF stageOf
<1>6. ASSUME NEW w \in Workers, c \in pending_new_socks[w]
      PROVE  stageOf(c) = "queued" /\ ownerOf(c) = w
  BY <1>2, <1>6 DEF stageOf, Load
<1>7. ASSUME NEW w \in Workers, c \in clients[w]
      PROVE  stageOf(c) = "served" /\ ownerOf(c) = w
  <2>1. \A v \in Workers : c \notin pending_new_socks[v]
    BY <1>7
  <2> QED BY <1>2, <1>7, <2>1 DEF stageOf, Load
<1>8. sock[c] = "est" /\ c \notin hand /\ (\A w \in Workers : c \notin Load(w))
        => stageOf(c) = "lost" /\ ownerOf(c) = 0
  BY <1>1 DEF stageOf, Load
<1> QED BY <1>4, <1>5, <1>6, <1>7, <1>8

\* Why a worker may close the connection of an event: the peer of a hang-up
\* has gone, and a readable socket is found empty only after a reset.
ReasonToClose ==
  \A w \in Workers :
    /\ \A c \in batch[w].hup : hup[c]
    /\ \A c \in batch[w].in : inbox[c] > 0 \/ hup[c]

\* It stays so until the event is handled: only the worker itself reads the
\* socket, and only a reset takes data away.
LEMMA ReasonToCloseStep ==
  ASSUME TypeInv, OwnInv, ReasonToClose, [Next]_vars
  PROVE  ReasonToClose'
<1> USE DEF kernelVars, workerVars, mainVars
<1>e. \A w \in Workers : batch[w].hup \in SUBSET Conns /\ batch[w].in \in SUBSET Conns
  BY DEF TypeInv, TypeOK, Batches
<1>s. ASSUME UNCHANGED <<batch, hup, inbox>>
      PROVE  ReasonToClose'
  BY <1>s DEF ReasonToClose
<1>l. ASSUME NEW w \in Workers, NEW b, batch' = [batch EXCEPT ![w] = b],
             b.hup \subseteq batch[w].hup, b.in \subseteq batch[w].in,
             UNCHANGED <<hup, inbox>>
      PROVE  ReasonToClose'
  <2>1. \A v \in Workers : batch'[v] = IF v = w THEN b ELSE batch[v]
    BY <1>l DEF TypeInv, TypeOK
  <2> QED BY <1>l, <2>1 DEF ReasonToClose
<1>1. CASE Environment
  <2>1. ASSUME NEW c \in Conns, PeerSend(c) PROVE ReasonToClose'
    <3>1. \A d \in Conns : inbox'[d] >= inbox[d]
      BY <2>1, MaxDataAssumption DEF PeerSend, TypeInv, TypeOK
    <3>2. \A d \in Conns : inbox[d] > 0 => inbox'[d] > 0
      BY <3>1, <2>1, MaxDataAssumption DEF PeerSend, TypeInv, TypeOK
    <3> QED BY <1>e, <2>1, <3>2 DEF PeerSend, ReasonToClose
  <2>2. ASSUME NEW c \in Conns, PeerHangup(c) PROVE ReasonToClose'
    <3>1. \A d \in Conns \ {c} : inbox'[d] = inbox[d] /\ hup'[d] = hup[d]
      BY <2>2 DEF PeerHangup, TypeInv, TypeOK
    <3>2. hup'[c]
      BY <2>2 DEF PeerHangup, TypeInv, TypeOK
    <3> QED BY <1>e, <2>2, <3>1, <3>2 DEF PeerHangup, ReasonToClose
  <2> QED BY <1>1, <1>s, <2>1, <2>2 DEF Environment, PeerConnect, Tick, StopSignal
<1>2. ASSUME NEW w \in Workers, WorkerStep(w) PROVE ReasonToClose'
  <2>1. CASE WorkerWait(w)
    <3>1. PICK b \in [hup  : SUBSET Ready(w).hup,
                      in   : SUBSET Ready(w).in,
                      wake : {FALSE, wakeup[w]}] : batch' = [batch EXCEPT ![w] = b]
      BY <2>1 DEF WorkerWait
    <3>2. \A v \in Workers : batch'[v] = IF v = w THEN b ELSE batch[v]
      BY <3>1 DEF TypeInv, TypeOK
    <3>3. (\A c \in b.hup : hup[c]) /\ (\A c \in b.in : inbox[c] > 0)
      BY DEF Ready
    <3> QED BY <2>1, <3>2, <3>3 DEF WorkerWait, ReasonToClose
  <2>2. ASSUME NEW c \in Conns, EventHup(w, c) PROVE ReasonToClose'
    <3>1. batch' = [batch EXCEPT ![w] = [batch[w] EXCEPT !.hup = @ \ {c}]]
      BY <2>2 DEF EventHup, NextEvent
    <3>2. /\ [batch[w] EXCEPT !.hup = @ \ {c}].hup \subseteq batch[w].hup
          /\ [batch[w] EXCEPT !.hup = @ \ {c}].in \subseteq batch[w].in
      BY DEF TypeInv, TypeOK, Batches
    <3> QED BY <1>l, <2>2, <3>1, <3>2 DEF EventHup
  <2>3. ASSUME NEW c \in Conns, EventData(w, c) PROVE ReasonToClose'
    <3> DEFINE b == [batch[w] EXCEPT !.in = @ \ {c}]
    <3>1. \A v \in Workers : batch'[v] = IF v = w THEN b ELSE batch[v]
      BY <2>3 DEF EventData, NextEvent, TypeInv, TypeOK
    <3>2. b.hup = batch[w].hup /\ b.in = batch[w].in \ {c}
      BY DEF TypeInv, TypeOK, Batches
    <3>3. \A d \in Conns \ {c} : inbox'[d] = inbox[d]
      BY <2>3 DEF EventData, TypeInv, TypeOK
    <3>4. c \in batch[w].in /\ \A v \in Workers \ {w} : c \notin batch[v].in
      BY <2>3 DEF EventData, OwnInv, OwnedOnce, EventsAreLive
    <3>5. UNCHANGED hup
      BY <2>3 DEF EventData
    <3> QED BY <1>e, <3>1, <3>2, <3>3, <3>4, <3>5 DEF ReasonToClose
  <2>4. CASE EventWakeup(w)
    <3>1. batch' = [batch EXCEPT ![w] = [batch[w] EXCEPT !.wake = FALSE]]
      BY <2>4 DEF EventWakeup
    <3>2. /\ [batch[w] EXCEPT !.wake = FALSE].hup = batch[w].hup
          /\ [batch[w] EXCEPT !.wake = FALSE].in = batch[w].in
      BY DEF TypeInv, TypeOK, Batches
    <3> QED BY <1>l, <2>4, <3>1, <3>2 DEF EventWakeup
  <2> QED BY <1>2, <1>s, <2>1, <2>2, <2>3, <2>4 DEF WorkerStep, WorkerCheck,
             Drain, FullstopClient, FullstopClientsDone, FullstopQueue,
             FullstopFds, DeleteEpoll, MapRace
<1>3. CASE MainStep
  BY <1>3, <1>s DEF MainStep, MainCheck, MainWait, EventListen, AcceptOne,
     AcceptFails, AcceptDone, BalanceCompare, Push, Notify, EventTimer,
     StatsCount, StatsPrint, UseFreed, MainJoin
<1>4. CASE UNCHANGED vars
  BY <1>4, <1>s DEF vars
<1> QED BY <1>1, <1>2, <1>3, <1>4 DEF Next, WorkerRuns, MainRuns, ProcessEnded

LEMMA ReasonToCloseHolds == SafetySpec => []ReasonToClose
<1>1. Init => ReasonToClose
  BY DEF Init, ReasonToClose, NoEvents
<1>2. TypeInv /\ OwnInv /\ ReasonToClose /\ [Next]_vars => ReasonToClose'
  BY ReasonToCloseStep
<1> QED BY <1>1, <1>2, TypeInvHolds, OwnInvHolds, PTL DEF SafetySpec

LEMMA InitHandoff == Init => Handoff!Init
<1> SUFFICES ASSUME Init PROVE Handoff!Init
  OBVIOUS
<1>1. \A c \in Conns : stageOf(c) = "new" /\ ownerOf(c) = 0
  BY InitOwnInv, PlaceLemma DEF Init, PlaceOK
<1> QED BY <1>1 DEF Init, Handoff!Init, Handoff!Nobody

halting == g_should_stop \/ proc # "running"

\* The places of one step, seen from the hand-off.
LEMMA HandoffStep ==
  ASSUME TypeInv, OwnInv, TypeInv', OwnInv', ReasonToClose, [Next]_vars
  PROVE  [Handoff!Next]_(Handoff!vars)
<1>p. PlaceOK /\ PlaceOK'
  BY PlaceLemma, PTL
<1> DEFINE stage == [c \in Conns |-> stageOf(c)]
           owner == [c \in Conns |-> ownerOf(c)]
<1> USE DEF kernelVars, workerVars, mainVars, NextEvent
<1>s. ASSUME stage' = stage, owner' = owner, hup' = hup, halting => halting'
      PROVE  [Handoff!Next]_(Handoff!vars)
  <2>1. CASE halting' = halting
    BY <1>s, <2>1 DEF Handoff!vars, halting
  <2>2. CASE ~halting /\ halting'
    BY <1>s, <2>2 DEF Handoff!Next, Handoff!Halt, halting
  <2> QED BY <1>s, <2>1, <2>2 DEF halting
<1>u. ASSUME UNCHANGED <<sock, hand, clients, pending_new_socks>>
      PROVE  stage' = stage /\ owner' = owner
  BY <1>u DEF stageOf, ownerOf
<1>1. CASE Environment /\ proc = "running"
  <2>1. ASSUME NEW c \in Conns, PeerConnect(c)
        PROVE  Handoff!Arrive(c)
    <3>1. stageOf(c) = "new" /\ stageOf(c)' = "backlog" /\ ownerOf(c)' = ownerOf(c)
      BY <1>p, <2>1 DEF PeerConnect, PlaceOK, TypeInv, TypeOK
    <3>2. \A d \in Conns \ {c} : stageOf(d)' = stageOf(d) /\ ownerOf(d)' = ownerOf(d)
      BY <2>1 DEF PeerConnect, stageOf, ownerOf, TypeInv, TypeOK
    <3> QED BY <2>1, <3>1, <3>2 DEF Handoff!Arrive, PeerConnect
  <2>2. ASSUME NEW c \in Conns, PeerHangup(c)
        PROVE  Handoff!Leave(c)
    <3>1. stage' = stage /\ owner' = owner
      BY <1>u, <2>2 DEF PeerHangup
    <3>2. stageOf(c) \notin {"new", "closed"}
      BY <2>2 DEF PeerHangup, stageOf
    <3>3. hup' = [hup EXCEPT ![c] = TRUE] /\ ~hup[c] /\ halting' = halting
      BY <2>2 DEF PeerHangup, halting
    <3> QED BY <3>1, <3>2, <3>3 DEF Handoff!Leave, halting
  <2>3. ASSUME ~\E c \in Conns : PeerConnect(c) \/ PeerHangup(c)
        PROVE  [Handoff!Next]_(Handoff!vars)
    <3>1. UNCHANGED <<sock, hup, hand, clients, pending_new_socks>>
          /\ (halting => halting')
      BY <1>1, <2>3 DEF Environment, PeerSend, Tick, StopSignal, halting
    <3> QED BY <1>s, <1>u, <3>1
  <2> QED BY <2>1, <2>2, <2>3 DEF Handoff!Next
<1>2. ASSUME NEW w \in Workers, WorkerStep(w), proc = "running"
      PROVE  [Handoff!Next]_(Handoff!vars)
  <2>h. halting => halting'
    BY <1>2 DEF WorkerStep, WorkerCheck, WorkerWait, EventHup, EventData,
                EventWakeup, Drain, FullstopClient, FullstopClientsDone,
                FullstopQueue, FullstopFds, DeleteEpoll, MapRace, halting
  <2>1. ASSUME NEW c \in clients[w], remove_client(w, c), hup[c] \/ halting,
               UNCHANGED <<hup, hand, pending_new_socks, g_should_stop, proc>>
        PROVE  Handoff!Close(c) /\ c \in Conns
    <3>1. c \in Conns
      BY DEF TypeInv, TypeOK
    <3>2. stageOf(c) = "served" /\ stageOf(c)' = "closed" /\ ownerOf(c)' = 0
      BY <1>p, <2>1, <3>1 DEF PlaceOK, remove_client, TypeInv, TypeOK
    <3>3. \A d \in Conns \ {c} :
            /\ sock'[d] = sock[d]
            /\ \A v \in Workers : d \in clients'[v] <=> d \in clients[v]
      BY <2>1 DEF remove_client, TypeInv, TypeOK
    <3>4. \A d \in Conns \ {c} : stageOf(d)' = stageOf(d) /\ ownerOf(d)' = ownerOf(d)
      BY <1>p, <2>1, <3>3 DEF PlaceOK, Load
    <3> QED BY <2>1, <3>1, <3>2, <3>4 DEF Handoff!Close, Handoff!Nobody, halting
  <2>2. ASSUME UNCHANGED <<sock, hup, hand, clients, pending_new_socks>>
        PROVE  [Handoff!Next]_(Handoff!vars)
    BY <1>s, <1>u, <2>2, <2>h
  <2>3. CASE Drain(w)
    <3>1. CASE pending_new_socks[w] = {}
      <4>1. UNCHANGED <<sock, hup, hand, clients, pending_new_socks>>
        BY <2>3, <3>1 DEF Drain, TypeInv, TypeOK
      <4> QED BY <2>2, <4>1
    <3>2. CASE pending_new_socks[w] # {}
      <4>1. \A d \in pending_new_socks[w] :
              /\ d \in Conns
              /\ stageOf(d) = "queued" /\ ownerOf(d) = w
              /\ stageOf(d)' = "served" /\ ownerOf(d)' = w
        BY <1>p, <2>3 DEF PlaceOK, Drain, TypeInv, TypeOK
      <4>2. \A d \in Conns \ pending_new_socks[w] : \A v \in Workers :
              /\ d \in clients'[v] <=> d \in clients[v]
              /\ d \in pending_new_socks'[v] <=> d \in pending_new_socks[v]
        BY <2>3 DEF Drain, TypeInv, TypeOK
      <4>3. \A d \in Conns \ pending_new_socks[w] :
              stageOf(d)' = stageOf(d) /\ ownerOf(d)' = ownerOf(d)
        BY <1>p, <2>3, <4>2 DEF PlaceOK, Load, Drain
      <4>4. \A d \in Conns : stageOf(d) = "queued" /\ ownerOf(d) = w
                               => d \in pending_new_socks[w]
        BY <1>p, NumWorkersAssumption DEF PlaceOK, Load, Workers, TypeInv, TypeOK, SockStates
      <4>5. Handoff!Serve(w)
        BY <2>3, <3>2, <4>1, <4>3, <4>4 DEF Handoff!Serve, Drain
      <4> QED BY <4>5 DEF Handoff!Next, Handoff!Workers, Workers
    <3> QED BY <3>1, <3>2
  <2>4. ASSUME FullstopQueue(w) \/ DeleteEpoll(w)
        PROVE  [Handoff!Next]_(Handoff!vars)
    <3> DEFINE S == pending_new_socks[w]
               fate == IF FullstopQueue(w) THEN "closed" ELSE "lost"
    <3>1. halting /\ halting'
      BY <2>4, <2>h DEF FullstopQueue, DeleteEpoll, OwnInv, Control, StoppingPcs, halting
    <3>2. \A d \in S : /\ d \in Conns
                       /\ stageOf(d) = "queued"
                       /\ d \notin hand
                       /\ \A v \in Workers : d \notin clients[v]
                       /\ \A v \in Workers \ {w} : d \notin pending_new_socks[v]
      BY <1>p DEF PlaceOK, TypeInv, TypeOK, OwnInv, OwnedOnce
    <3>3. /\ UNCHANGED <<hand, clients>>
          /\ pending_new_socks'[w] = {}
          /\ \A v \in Workers \ {w} : pending_new_socks'[v] = pending_new_socks[v]
          /\ \A d \in Conns \ S : sock'[d] = sock[d]
          /\ hup' = hup
      BY <2>4 DEF FullstopQueue, DeleteEpoll, TypeInv, TypeOK
    <3>4. \A d \in Conns \ S : stageOf(d)' = stageOf(d) /\ ownerOf(d)' = ownerOf(d)
      BY <1>p, <3>3 DEF PlaceOK, Load
    <3>5. CASE FullstopQueue(w)
      <4>1. \A d \in S : stageOf(d)' = "closed" /\ ownerOf(d)' = 0
        BY <1>p, <3>2, <3>5 DEF PlaceOK, FullstopQueue
      <4>2. Handoff!Drop("closed")
        BY <3>1, <3>2, <3>3, <3>4, <4>1 DEF Handoff!Drop, Handoff!Nobody, halting
      <4> QED BY <4>2 DEF Handoff!Next
    <3>6. CASE DeleteEpoll(w)
      <4>1. \A d \in S : sock'[d] = "est"
        BY <3>6 DEF DeleteEpoll, OwnInv, OwnedOnce, OpenConns
      <4>2. \A d \in S : stageOf(d)' = "lost" /\ ownerOf(d)' = 0
        BY <1>p, <3>2, <3>3, <4>1 DEF PlaceOK, Load
      <4>3. Handoff!Drop("lost")
        BY <3>1, <3>2, <3>3, <3>4, <4>2 DEF Handoff!Drop, Handoff!Nobody, halting
      <4> QED BY <4>3 DEF Handoff!Next
    <3> QED BY <2>4, <3>5, <3>6
  <2>5. ASSUME NEW c \in Conns, EventHup(w, c) \/ EventData(w, c)
        PROVE  [Handoff!Next]_(Handoff!vars)
    <3>1. c \in clients[w]
      BY <2>5 DEF EventHup, EventData, OwnInv, EventsAreLive
    <3>2. UNCHANGED <<hup, hand, pending_new_socks, g_should_stop, proc>>
      BY <2>5 DEF EventHup, EventData
    <3>3. (remove_client(w, c) /\ hup[c]) \/ UNCHANGED <<sock, clients>>
      BY <2>5 DEF EventHup, EventData, ReasonToClose
    <3> QED BY <2>1, <2>2, <3>1, <3>2, <3>3 DEF Handoff!Next
  <2>6. CASE FullstopClient(w)
    <3>1. halting
      BY <2>6 DEF FullstopClient, OwnInv, Control, StoppingPcs, halting
    <3> QED BY <2>1, <2>6, <3>1 DEF FullstopClient, Handoff!Next
  <2> QED BY <1>2, <2>2, <2>3, <2>4, <2>5, <2>6 DEF WorkerStep, WorkerCheck,
             WorkerWait, EventWakeup, FullstopClientsDone, FullstopFds, MapRace
<1>3. CASE MainStep /\ proc = "running"
  <2>h. halting => halting'
    BY <1>3 DEF MainStep, MainCheck, MainWait, EventListen, AcceptOne, AcceptFails,
                AcceptDone, BalanceCompare, Push, Notify, EventTimer, StatsCount,
                StatsPrint, UseFreed, MainJoin, halting
  <2>1. CASE AcceptOne
    <3>1. PICK c \in Backlog : sock' = [sock EXCEPT ![c] = "est"] /\ hand' = {c}
      BY <2>1 DEF AcceptOne
    <3>2. c \in Conns /\ sock[c] = "backlog" /\ hand = {}
      BY <2>1, <3>1 DEF AcceptOne, Backlog, OwnInv, Control
    <3>3. stageOf(c) = "backlog" /\ stageOf(c)' = "accepted"
          /\ ownerOf(c) = 0 /\ ownerOf(c)' = 0
      BY <1>p, <3>1, <3>2 DEF PlaceOK
    <3>4. \A d \in Conns \ {c} : sock'[d] = sock[d] /\ d \notin hand /\ d \notin hand'
      BY <3>1, <3>2 DEF TypeInv, TypeOK
    <3>5. \A d \in Conns \ {c} : stageOf(d)' = stageOf(d) /\ ownerOf(d)' = ownerOf(d)
      BY <1>p, <2>1, <3>4 DEF PlaceOK, Load, AcceptOne
    <3>6. Handoff!Accept(c)
      BY <2>1, <3>2, <3>3, <3>5 DEF Handoff!Accept, AcceptOne
    <3> QED BY <3>2, <3>6 DEF Handoff!Next
  <2>2. CASE Push
    <3>1. PICK c \in Conns : hand = {c}
      BY <2>2 DEF Push, OwnInv, Control
    <3>2. PICK t \in Workers : t = target
      BY DEF TypeInv, TypeOK
    <3>3. \A v \in Workers : pending_new_socks'[v] =
            IF v = t THEN pending_new_socks[v] \cup {c} ELSE pending_new_socks[v]
      BY <2>2, <3>1, <3>2 DEF Push, TypeInv, TypeOK
    <3>4. stageOf(c) = "accepted" /\ stageOf(c)' = "queued" /\ ownerOf(c)' = t
      BY <1>p, <3>1, <3>3 DEF PlaceOK
    <3>5. \A d \in Conns \ {c} : stageOf(d)' = stageOf(d) /\ ownerOf(d)' = ownerOf(d)
      BY <1>p, <2>2, <3>1, <3>3 DEF PlaceOK, Load, Push
    <3>6. Handoff!Assign(c, t)
      BY <2>2, <3>4, <3>5 DEF Handoff!Assign, Push
    <3> QED BY <3>6 DEF Handoff!Next, Handoff!Workers, Workers
  <2>3. CASE MainJoin
    <3> DEFINE S == {c \in Conns : sock[c] \in {"backlog", "est"}}
    <3>1. hand = {} /\ \A w \in Workers : clients[w] = {} /\ pending_new_socks[w] = {}
      BY <2>3 DEF MainJoin, OwnInv, Control, StoppingPcs
    <3>2. \A d \in S : stageOf(d) \in {"backlog", "lost"}
      BY <1>p, <3>1 DEF PlaceOK, Load
    <3>3. \A d \in S : stageOf(d)' = "closed" /\ ownerOf(d)' = 0
      BY <1>p, <2>3 DEF PlaceOK, MainJoin
    <3>4. \A d \in Conns \ S : stageOf(d)' = stageOf(d) /\ ownerOf(d)' = ownerOf(d)
      BY <1>p, <2>3 DEF PlaceOK, MainJoin, TypeInv, TypeOK, SockStates
    <3>5. halting /\ halting'
      BY <2>3, <2>h DEF MainJoin, OwnInv, Control, halting
    <3>6. Handoff!Drop("closed")
      BY <2>3, <3>2, <3>3, <3>4, <3>5 DEF MainJoin, Handoff!Drop, Handoff!Nobody, halting
    <3> QED BY <3>6 DEF Handoff!Next
  <2>4. CASE MainStep /\ ~AcceptOne /\ ~Push /\ ~MainJoin
    <3>1. UNCHANGED <<sock, hup, hand, clients, pending_new_socks>>
      BY <2>4 DEF MainStep, MainCheck, MainWait, EventListen, AcceptFails,
         AcceptDone, BalanceCompare, Notify, EventTimer, StatsCount, StatsPrint, UseFreed
    <3> QED BY <1>s, <1>u, <2>h, <3>1
  <2> QED BY <1>3, <2>1, <2>2, <2>3, <2>4
<1>4. CASE UNCHANGED vars
  BY <1>4, <1>s, <1>u DEF vars, halting
<1> QED BY <1>1, <1>2, <1>3, <1>4 DEF Next, WorkerRuns, MainRuns, ProcessEnded

\* The server's threads never take a connection through anything but the
\* stages of the hand-off: accepted once, given to one worker for good, taken
\* up by that worker, and closed by it after the peer has gone; only a server
\* that is stopping closes a connection of a live peer, or drops one unserved.
\* (push_external_socket, exec, remove_client and fullstop.)
THEOREM HandoffImplemented == SafetySpec => Handoff!SafetySpec
<1>1. Init => Handoff!Init
  BY InitHandoff
<1>2. TypeInv /\ OwnInv /\ TypeInv' /\ OwnInv' /\ ReasonToClose /\ [Next]_vars
        => [Handoff!Next]_(Handoff!vars)
  BY HandoffStep
<1> QED BY <1>1, <1>2, TypeInvHolds, OwnInvHolds, ReasonToCloseHolds, PTL DEF SafetySpec, Handoff!SafetySpec

-----------------------------------------------------------------------------
(* Seen from a peer.                                                       *)

\* Every step of the hand-off is a step of ConnectionLife, or none.
LEMMA LifeOfHandoff == [Handoff!Next]_(Handoff!vars) => [Life!Next]_(Life!vars)
<1> SUFFICES ASSUME [Handoff!Next]_(Handoff!vars)
             PROVE  [Life!Next]_(Life!vars)
  OBVIOUS
<1> DEFINE stage == [c \in Conns |-> stageOf(c)]
           life  == [c \in Conns |-> lifeOf(stageOf(c))]
<1> USE DEF halting
<1>0. /\ \A c \in Conns : life[c] = lifeOf(stage[c]) /\ life'[c] = lifeOf(stage'[c])
      /\ life = [c \in Conns |-> life[c]] /\ life' = [c \in Conns |-> life'[c]]
      /\ DOMAIN stage = Conns /\ DOMAIN life = Conns
  OBVIOUS
<1>1. ASSUME life' = life, hup' = hup, halting' = halting
      PROVE  [Life!Next]_(Life!vars)
  BY <1>1 DEF Life!vars
<1>2. CASE UNCHANGED Handoff!vars
  <2>1. stage' = stage /\ hup' = hup /\ halting' = halting
    BY <1>2 DEF Handoff!vars
  <2> HIDE DEF stage, life, halting
  <2>2. life' = life
    BY <1>0, <2>1
  <2> QED  BY <1>1, <2>1, <2>2
<1>3. ASSUME NEW c \in Conns, NEW from, NEW to,
             stage[c] = from, stage' = [stage EXCEPT ![c] = to]
      PROVE  /\ life[c] = lifeOf(from) /\ life' = [life EXCEPT ![c] = lifeOf(to)]
             /\ lifeOf(from) = lifeOf(to) => life' = life
  <2> HIDE DEF stage, life, halting
  <2>1. \A d \in Conns : stage'[d] = IF d = c THEN to ELSE stage[d]
    BY <1>0, <1>3
  <2>2. life[c] = lifeOf(from)
    BY <1>0, <1>3
  <2>3. \A d \in Conns : life'[d] = IF d = c THEN lifeOf(to) ELSE life[d]
    BY <1>0, <2>1
  <2> QED  BY <1>0, <2>2, <2>3
<1>4. ASSUME NEW c \in Conns, Handoff!Arrive(c)  PROVE [Life!Next]_(Life!vars)
  <2>1. /\ stage[c] = "new" /\ stage' = [stage EXCEPT ![c] = "backlog"]
        /\ hup' = hup /\ halting' = halting
    BY <1>4 DEF Handoff!Arrive
  <2>2. life[c] = lifeOf("new") /\ life' = [life EXCEPT ![c] = lifeOf("backlog")]
    BY <1>3, <2>1
  <2>3. life[c] = "new" /\ life' = [life EXCEPT ![c] = "backlog"]
    BY <2>2 DEF lifeOf
  <2>4. Life!Arrive(c)
    BY <2>1, <2>3 DEF Life!Arrive, Life!Moves
  <2> QED  BY <2>4 DEF Life!Next
<1>5. ASSUME NEW c \in Conns, Handoff!Accept(c)  PROVE [Life!Next]_(Life!vars)
  <2>1. /\ stage[c] = "backlog" /\ stage' = [stage EXCEPT ![c] = "accepted"]
        /\ hup' = hup /\ halting' = halting
    BY <1>5 DEF Handoff!Accept
  <2>2. life[c] = lifeOf("backlog") /\ life' = [life EXCEPT ![c] = lifeOf("accepted")]
    BY <1>3, <2>1
  <2>3. life[c] = "backlog" /\ life' = [life EXCEPT ![c] = "open"]
    BY <2>2 DEF lifeOf
  <2>4. Life!Accept(c)
    BY <2>1, <2>3 DEF Life!Accept, Life!Moves
  <2> QED  BY <2>4 DEF Life!Next
<1>6. ASSUME NEW c \in Conns, Handoff!Leave(c)  PROVE [Life!Next]_(Life!vars)
  <2>1. /\ stage[c] \notin {"new", "closed"} /\ ~hup[c]
        /\ hup' = [hup EXCEPT ![c] = TRUE] /\ stage' = stage /\ halting' = halting
    BY <1>6 DEF Handoff!Leave
  <2>2. life[c] # "new"
    BY <1>0, <2>1 DEF lifeOf
  <2>3. life' = life
    <3> HIDE DEF stage, life, halting
    <3> QED  BY <1>0, <2>1
  <2>4. Life!Leave(c)
    BY <2>1, <2>2, <2>3 DEF Life!Leave
  <2> QED  BY <2>4 DEF Life!Next
<1>7. ASSUME NEW c \in Conns, NEW w, Handoff!Assign(c, w)  PROVE [Life!Next]_(Life!vars)
  <2>1. /\ stage[c] = "accepted" /\ stage' = [stage EXCEPT ![c] = "queued"]
        /\ hup' = hup /\ halting' = halting
    BY <1>7 DEF Handoff!Assign
  <2>2. lifeOf("accepted") = lifeOf("queued")
    BY DEF lifeOf
  <2>3. life' = life
    BY <1>3, <2>1, <2>2
  <2> QED  BY <1>1, <2>1, <2>3
<1>8. ASSUME NEW w, Handoff!Serve(w)  PROVE [Life!Next]_(Life!vars)
  <2>1. /\ \A c \in Conns : stage'[c] = stage[c] \/ (stage[c] = "queued" /\ stage'[c] = "served")
        /\ hup' = hup /\ halting' = halting
    BY <1>8 DEF Handoff!Serve
  <2>2. lifeOf("queued") = lifeOf("served")
    BY DEF lifeOf
  <2>3. life' = life
    <3> HIDE DEF stage, life, halting
    <3>1. \A c \in Conns : life'[c] = life[c]
      BY <1>0, <2>1, <2>2
    <3> QED  BY <1>0, <3>1
  <2> QED  BY <1>1, <2>1, <2>3
<1>9. ASSUME NEW c \in Conns, Handoff!Close(c)  PROVE [Life!Next]_(Life!vars)
  <2>1. /\ stage[c] = "served" /\ stage' = [stage EXCEPT ![c] = "closed"]
        /\ hup' = hup /\ halting' = halting /\ (hup[c] \/ halting)
    BY <1>9 DEF Handoff!Close
  <2>2. life[c] = lifeOf("served") /\ life' = [life EXCEPT ![c] = lifeOf("closed")]
    BY <1>3, <2>1
  <2>3. life[c] = "open" /\ life' = [life EXCEPT ![c] = "closed"]
    BY <2>2 DEF lifeOf
  <2>4. CASE hup[c]
    <3>1. Life!Close(c)
      BY <2>1, <2>3, <2>4 DEF Life!Close, Life!Moves
    <3> QED  BY <3>1 DEF Life!Next
  <2>5. CASE halting
    <3>1. life' = [d \in Conns |-> IF d \in {c} THEN "closed" ELSE life[d]]
      <4> HIDE DEF stage, life, halting
      <4> QED  BY <1>0, <2>3
    <3>2. Life!Abandon({c})
      BY <2>1, <2>3, <2>5, <3>1 DEF Life!Abandon
    <3> QED  BY <3>2 DEF Life!Next
  <2> QED  BY <2>1, <2>4, <2>5
<1>10. CASE Handoff!Halt
  <2>1. stage' = stage /\ hup' = hup /\ ~halting /\ halting' = TRUE
    BY <1>10 DEF Handoff!Halt
  <2>2. life' = life
    <3> HIDE DEF stage, life, halting
    <3> QED  BY <1>0, <2>1
  <2>3. Life!Halt
    BY <2>1, <2>2 DEF Life!Halt
  <2> QED  BY <2>3 DEF Life!Next
<1>11. ASSUME NEW fate \in {"closed", "lost"}, Handoff!Drop(fate)
       PROVE  [Life!Next]_(Life!vars)
  <2>1. PICK S \in SUBSET {c \in Conns : stage[c] \in {"backlog", "queued", "lost"}} :
          stage' = [c \in Conns |-> IF c \in S THEN fate ELSE stage[c]]
    BY <1>11 DEF Handoff!Drop
  <2>2. halting /\ hup' = hup /\ halting' = halting
    BY <1>11 DEF Handoff!Drop
  <2>3. lifeOf(fate) = "closed" /\ lifeOf("lost") = "closed"
    BY DEF lifeOf
  <2> DEFINE T == {c \in S : stage[c] # "lost"}
  <2>4. \A c \in T : life[c] \in {"backlog", "open"}
    BY <1>0, <2>1 DEF lifeOf
  <2>5. life' = [c \in Conns |-> IF c \in T THEN "closed" ELSE life[c]]
    <3> HIDE DEF stage, life, halting
    <3>1. \A c \in Conns : life'[c] = IF c \in T THEN "closed" ELSE life[c]
      BY <1>0, <2>1, <2>3
    <3> HIDE DEF T
    <3> QED  BY <1>0, <3>1
  <2>6. T \in SUBSET Conns
    BY <2>1
  <2> HIDE DEF T
  <2>7. Life!Abandon(T)
    BY <2>2, <2>4, <2>5 DEF Life!Abandon
  <2> QED  BY <2>6, <2>7 DEF Life!Next
<1> QED
  BY <1>2, <1>4, <1>5, <1>6, <1>7, <1>8, <1>9, <1>10, <1>11 DEF Handoff!Next

LEMMA LifeInit == Handoff!Init => Life!Init
<1> SUFFICES ASSUME Handoff!Init PROVE Life!Init
  OBVIOUS
<1>1. \A c \in Conns : stageOf(c) = "new"
  BY DEF Handoff!Init
<1>2. \A c \in Conns : lifeOf(stageOf(c)) = "new"
  BY <1>1 DEF lifeOf
<1> QED  BY <1>2 DEF Handoff!Init, Life!Init

\* Whatever the threads do between accept4 and remove_client, a peer sees a
\* server that closes its connection once, and only after it has gone or when
\* the server stops.
THEOREM ServerImplementsLife == SafetySpec => Life!SafetySpec
<1>1. Handoff!Init => Life!Init
  BY LifeInit
<1>2. [Handoff!Next]_(Handoff!vars) => [Life!Next]_(Life!vars)
  BY LifeOfHandoff
<1> QED  BY <1>1, <1>2, HandoffImplemented, PTL DEF Handoff!SafetySpec, Life!SafetySpec
=============================================================================
