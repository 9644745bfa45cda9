----------------------------- MODULE MyncServer -----------------------------
(***************************************************************************)
(* The listening side of mync (src/mync/epollserver.{h,cpp}): one main     *)
(* thread with a MainEpoll that accepts connections and hands each of them *)
(* to one of NumWorkers threads, every one of which runs Epoll::exec on an *)
(* Epoll of its own and deletes that Epoll when exec returns.              *)
(*                                                                         *)
(* The hand-off is a queue under a mutex plus an eventfd.  Everything else *)
(* the threads share is unprotected: size_clients is an atomic that main   *)
(* reads and both sides change, main iterates over the clients map of a    *)
(* worker to print statistics, and main keeps the pointers to the Epolls   *)
(* the workers delete.                                                     *)
(*                                                                         *)
(* A step is what a thread does between two accesses to shared state; a    *)
(* critical section of mtx_pending_new_socks_ is one step.  The module is  *)
(* about a server whose stdin epoll cannot watch (add_fd on it fails and   *)
(* is ignored, epollserver.cpp:175); a connection is a model value, its    *)
(* bytes are chunks, and the Stats object of a connection is left out.     *)
(*                                                                         *)
(* A definition named X_Flaw, before a definition X, is X with a plausible *)
(* mistake in it: it shows that a property would notice the mistake.       *)
(***************************************************************************)
EXTENDS Integers, FiniteSets

CONSTANTS
  Conns,          \* the connections peers may open
  NumWorkers,     \* COUNT_HANDLER_THREADS
  MaxEvents,      \* MAX_EVENTS, the events one epoll_wait returns
  MaxData,        \* chunks the receive buffer of a socket holds
  AcceptMayFail,  \* accept4() may fail (descriptor limits, memory)
  TimerWorks,     \* create_timer() succeeded for the main Epoll
  AddFdMayFail    \* epoll_ctl(ADD) may fail (watch limit of the user)

ASSUME ConnsAssumption      == IsFiniteSet(Conns)
ASSUME NumWorkersAssumption == NumWorkers \in Nat \ {0}
ASSUME MaxEventsAssumption  == MaxEvents \in Nat \ {0}
ASSUME MaxDataAssumption    == MaxData \in Nat
ASSUME FlagsAssumption ==
  {AcceptMayFail, TimerWorks, AddFdMayFail} \subseteq BOOLEAN

Workers == 1..NumWorkers

VARIABLES
  \* the kernel's side
  sock,              \* state of each connection's server socket
  hup,               \* the peer has closed its end
  inbox,             \* chunks received and not yet read
  interest,          \* connections registered in each worker's epfd
  wakeup,            \* the worker's eventfd counter is not zero
  timer,             \* main's timerfd has expired and is not yet read
  \* the workers
  wpc,               \* where each worker's thread is
  batch,             \* events of the last epoll_wait not yet handled
  clients,           \* the keys of Epoll::clients
  size_clients,      \* Epoll::size_clients
  pending_new_socks, \* Epoll::pending_new_socks_
  \* the main thread
  mpc,               \* where the main thread is
  mbatch,            \* events of its last epoll_wait not yet handled
  hand,              \* the socket accepted and not yet pushed
  target,            \* min_subepoll, or the least so far
  visit,             \* iterator of the loop over subepolls_
  \* the process
  g_should_stop,
  proc               \* "running", or how the process ended

kernelVars == <<sock, hup, inbox, interest, wakeup, timer>>
workerVars == <<wpc, batch, clients, size_clients, pending_new_socks>>
mainVars   == <<mpc, mbatch, hand, target, visit>>
vars == <<sock, hup, inbox, interest, wakeup, timer, wpc, batch, clients,
          size_clients, pending_new_socks, mpc, mbatch, hand, target, visit,
          g_should_stop, proc>>

SockStates == {"new", "backlog", "est", "closed"}
WorkerPcs  == {"head", "wait", "dispatch", "drain", "fullstop",
               "clear_queue", "close_fds", "delete", "gone"}
MainPcs    == {"head", "wait", "dispatch", "accept", "balance", "push",
               "notify", "count", "print", "join"}
Ends       == {"terminated", "use_after_free", "map_race", "exited"}
Batches    == [hup : SUBSET Conns, in : SUBSET Conns, wake : BOOLEAN]
NoEvents   == [hup |-> {}, in |-> {}, wake |-> FALSE]

TypeOK ==
  /\ sock \in [Conns -> SockStates]
  /\ hup \in [Conns -> BOOLEAN]
  /\ inbox \in [Conns -> 0..MaxData]
  /\ interest \in [Workers -> SUBSET Conns]
  /\ wakeup \in [Workers -> BOOLEAN]
  /\ timer \in BOOLEAN
  /\ wpc \in [Workers -> WorkerPcs]
  /\ batch \in [Workers -> Batches]
  /\ clients \in [Workers -> SUBSET Conns]
  /\ size_clients \in [Workers -> Int]
  /\ pending_new_socks \in [Workers -> SUBSET Conns]
  /\ mpc \in MainPcs
  /\ mbatch \in SUBSET {"listen", "timer"}
  /\ hand \in SUBSET Conns
  /\ target \in Workers
  /\ visit \in Workers
  /\ g_should_stop \in BOOLEAN
  /\ proc \in {"running"} \cup Ends

\* The state after MainEpoll's constructor: the workers are in exec, no
\* connection has been made.
Init ==
  /\ sock = [c \in Conns |-> "new"]
  /\ hup = [c \in Conns |-> FALSE]
  /\ inbox = [c \in Conns |-> 0]
  /\ interest = [w \in Workers |-> {}]
  /\ wakeup = [w \in Workers |-> FALSE]
  /\ timer = FALSE
  /\ wpc = [w \in Workers |-> "head"]
  /\ batch = [w \in Workers |-> NoEvents]
  /\ clients = [w \in Workers |-> {}]
  /\ size_clients = [w \in Workers |-> 0]
  /\ pending_new_socks = [w \in Workers |-> {}]
  /\ mpc = "head"
  /\ mbatch = {}
  /\ hand = {}
  /\ target = 1
  /\ visit = 1
  /\ g_should_stop = FALSE
  /\ proc = "running"

-----------------------------------------------------------------------------
(* Peers, the clock and the operator of the server.                        *)

\* A peer's SYN is answered by the kernel: the socket waits in the backlog.
PeerConnect(c) ==
  /\ sock[c] = "new"
  /\ sock' = [sock EXCEPT ![c] = "backlog"]
  /\ UNCHANGED <<hup, inbox, interest, wakeup, timer, workerVars, mainVars,
                 g_should_stop, proc>>

PeerSend(c) ==
  /\ sock[c] \in {"backlog", "est"}
  /\ ~hup[c]
  /\ inbox[c] < MaxData
  /\ inbox' = [inbox EXCEPT ![c] = @ + 1]
  /\ UNCHANGED <<sock, hup, interest, wakeup, timer, workerVars, mainVars,
                 g_should_stop, proc>>

\* FIN after what was sent, or RST, which also discards what is unread.
PeerHangup(c) ==
  /\ sock[c] \in {"backlog", "est"}
  /\ ~hup[c]
  /\ hup' = [hup EXCEPT ![c] = TRUE]
  /\ inbox' \in {inbox, [inbox EXCEPT ![c] = 0]}
  /\ UNCHANGED <<sock, interest, wakeup, timer, workerVars, mainVars,
                 g_should_stop, proc>>

Tick ==
  /\ TimerWorks
  /\ ~timer
  /\ timer' = TRUE
  /\ UNCHANGED <<sock, hup, inbox, interest, wakeup, workerVars, mainVars,
                 g_should_stop, proc>>

\* SIGINT or SIGTERM: stop_signal_handler.
StopSignal ==
  /\ ~g_should_stop
  /\ g_should_stop' = TRUE
  /\ UNCHANGED <<kernelVars, workerVars, mainVars, proc>>

Environment ==
  \/ \E c \in Conns : PeerConnect(c) \/ PeerSend(c) \/ PeerHangup(c)
  \/ Tick
  \/ StopSignal

-----------------------------------------------------------------------------
(* A worker: Epoll::exec on its own Epoll.                                 *)

Capped(n) == IF n < MaxEvents THEN n ELSE MaxEvents

EventCount(b) ==
  Cardinality(b.hup) + Cardinality(b.in) + (IF b.wake THEN 1 ELSE 0)

\* A client registered with EPOLLRDHUP only.
Ready_NoEpollIn(w) ==
  [hup |-> {c \in interest[w] : hup[c]}, in |-> {}, wake |-> wakeup[w]]

\* What is ready in w's epfd.  A socket whose peer is gone is reported with
\* EPOLLRDHUP, which exec tests first, whether or not it has unread data.
Ready(w) ==
  [hup  |-> {c \in interest[w] : hup[c]},
   in   |-> {c \in interest[w] : ~hup[c] /\ inbox[c] > 0},
   wake |-> wakeup[w]]

\* A worker that does not look at the flag.
WorkerCheck_NoStop(w) ==
  /\ wpc[w] = "head"
  /\ wpc' = [wpc EXCEPT ![w] = "wait"]
  /\ UNCHANGED <<kernelVars, batch, clients, size_clients, pending_new_socks,
                 mainVars, g_should_stop, proc>>

\* The loop head of exec: stop, or call epoll_wait.
WorkerCheck(w) ==
  /\ wpc[w] = "head"
  /\ wpc' = [wpc EXCEPT ![w] = IF g_should_stop THEN "fullstop" ELSE "wait"]
  /\ UNCHANGED <<kernelVars, batch, clients, size_clients, pending_new_socks,
                 mainVars, g_should_stop, proc>>

\* epoll_wait returns as many ready events as fit; none only after 100 ms
\* without any (or EINTR).
WorkerWait(w) ==
  /\ wpc[w] = "wait"
  /\ \E b \in [hup  : SUBSET Ready(w).hup,
               in   : SUBSET Ready(w).in,
               wake : {FALSE, wakeup[w]}] :
       /\ EventCount(b) = Capped(EventCount(Ready(w)))
       /\ batch' = [batch EXCEPT ![w] = b]
       /\ wpc' = [wpc EXCEPT ![w] = IF b = NoEvents THEN "head" ELSE "dispatch"]
  /\ UNCHANGED <<kernelVars, clients, size_clients, pending_new_socks,
                 mainVars, g_should_stop, proc>>

\* The events left after one is handled, and where the loop over them goes.
NextEvent(w, rest) ==
  /\ batch' = [batch EXCEPT ![w] = rest]
  /\ wpc' = [wpc EXCEPT ![w] = IF rest = NoEvents THEN "head" ELSE "dispatch"]

\* size_clients is not decremented.
remove_client_Uncounted(w, c) ==
  /\ interest' = [interest EXCEPT ![w] = @ \ {c}]
  /\ clients' = [clients EXCEPT ![w] = @ \ {c}]
  /\ sock' = [sock EXCEPT ![c] = "closed"]
  /\ UNCHANGED size_clients

\* The socket is not closed.
remove_client_NoClose(w, c) ==
  /\ interest' = [interest EXCEPT ![w] = @ \ {c}]
  /\ clients' = [clients EXCEPT ![w] = @ \ {c}]
  /\ size_clients' = [size_clients EXCEPT ![w] = @ - 1]
  /\ UNCHANGED sock

\* Epoll::remove_client.  It decrements and closes whether or not fd is a
\* key of clients.
remove_client(w, c) ==
  /\ interest' = [interest EXCEPT ![w] = @ \ {c}]
  /\ clients' = [clients EXCEPT ![w] = @ \ {c}]
  /\ size_clients' = [size_clients EXCEPT ![w] = @ - 1]
  /\ sock' = [sock EXCEPT ![c] = "closed"]

\* Without the continue: the EPOLLIN of the same event is handled next.
EventHup_FallsThrough(w, c) ==
  /\ wpc[w] = "dispatch"
  /\ c \in batch[w].hup
  /\ NextEvent(w, [batch[w] EXCEPT !.hup = @ \ {c}, !.in = @ \cup {c}])
  /\ remove_client(w, c)
  /\ UNCHANGED <<hup, inbox, wakeup, timer, pending_new_socks, mainVars,
                 g_should_stop, proc>>

\* EPOLLHUP, EPOLLRDHUP or EPOLLERR on a connection.
EventHup(w, c) ==
  /\ wpc[w] = "dispatch"
  /\ c \in batch[w].hup
  /\ NextEvent(w, [batch[w] EXCEPT !.hup = @ \ {c}])
  /\ remove_client(w, c)
  /\ UNCHANGED <<hup, inbox, wakeup, timer, pending_new_socks, mainVars,
                 g_should_stop, proc>>

\* EPOLLIN on a connection: handle_client_data reads some of what is there;
\* end of file and every error remove the client.
EventData(w, c) ==
  /\ wpc[w] = "dispatch"
  /\ c \in batch[w].in
  /\ NextEvent(w, [batch[w] EXCEPT !.in = @ \ {c}])
  /\ \/ /\ c \in clients[w]
        /\ inbox[c] > 0
        /\ \E left \in 0..(inbox[c] - 1) : inbox' = [inbox EXCEPT ![c] = left]
        /\ UNCHANGED <<sock, interest, clients, size_clients>>
     \/ /\ c \in clients[w]
        /\ inbox[c] = 0
        /\ remove_client(w, c)
        /\ UNCHANGED inbox
     \/ /\ c \notin clients[w]
        /\ UNCHANGED <<sock, inbox, interest, clients, size_clients>>
  /\ UNCHANGED <<hup, wakeup, timer, pending_new_socks, mainVars,
                 g_should_stop, proc>>

\* EPOLLIN on the eventfd: its counter is read (and so reset) first, ...
EventWakeup(w) ==
  /\ wpc[w] = "dispatch"
  /\ batch[w].wake
  /\ wakeup' = [wakeup EXCEPT ![w] = FALSE]
  /\ batch' = [batch EXCEPT ![w].wake = FALSE]
  /\ wpc' = [wpc EXCEPT ![w] = "drain"]
  /\ UNCHANGED <<sock, hup, inbox, interest, timer, clients, size_clients,
                 pending_new_socks, mainVars, g_should_stop, proc>>

\* An if instead of the while: one socket per wakeup.
Drain_One(w) ==
  /\ wpc[w] = "drain"
  /\ \/ pending_new_socks[w] = {} /\ UNCHANGED <<interest, clients,
                                                 pending_new_socks>>
     \/ \E c \in pending_new_socks[w] :
          /\ interest' = [interest EXCEPT ![w] = @ \cup {c}]
          /\ clients' = [clients EXCEPT ![w] = @ \cup {c}]
          /\ pending_new_socks' = [pending_new_socks EXCEPT ![w] = @ \ {c}]
  /\ wpc' = [wpc EXCEPT ![w] = IF batch[w] = NoEvents THEN "head" ELSE "dispatch"]
  /\ UNCHANGED <<sock, hup, inbox, wakeup, timer, batch, size_clients,
                 mainVars, g_should_stop, proc>>

\* The queue is walked through and not popped.
Drain_NoPop(w) ==
  /\ wpc[w] = "drain"
  /\ interest' = [interest EXCEPT ![w] = @ \cup pending_new_socks[w]]
  /\ clients' = [clients EXCEPT ![w] = @ \cup pending_new_socks[w]]
  /\ wpc' = [wpc EXCEPT ![w] = IF batch[w] = NoEvents THEN "head" ELSE "dispatch"]
  /\ UNCHANGED <<sock, hup, inbox, wakeup, timer, batch, size_clients,
                 pending_new_socks, mainVars, g_should_stop, proc>>

\* Registered in epoll, but not put into clients.
Drain_NoEmplace(w) ==
  /\ wpc[w] = "drain"
  /\ interest' = [interest EXCEPT ![w] = @ \cup pending_new_socks[w]]
  /\ pending_new_socks' = [pending_new_socks EXCEPT ![w] = {}]
  /\ wpc' = [wpc EXCEPT ![w] = IF batch[w] = NoEvents THEN "head" ELSE "dispatch"]
  /\ UNCHANGED <<sock, hup, inbox, wakeup, timer, batch, clients, size_clients,
                 mainVars, g_should_stop, proc>>

\* ... then the whole queue is moved, under the mutex, into clients.  The
\* result of add_fd is ignored, and size_clients is not touched: push counted.
Drain(w) ==
  /\ wpc[w] = "drain"
  /\ \E added \in IF AddFdMayFail THEN SUBSET pending_new_socks[w]
                                  ELSE {pending_new_socks[w]} :
       interest' = [interest EXCEPT ![w] = @ \cup added]
  /\ clients' = [clients EXCEPT ![w] = @ \cup pending_new_socks[w]]
  /\ pending_new_socks' = [pending_new_socks EXCEPT ![w] = {}]
  /\ wpc' = [wpc EXCEPT ![w] = IF batch[w] = NoEvents THEN "head" ELSE "dispatch"]
  /\ UNCHANGED <<sock, hup, inbox, wakeup, timer, batch, size_clients,
                 mainVars, g_should_stop, proc>>

-----------------------------------------------------------------------------
(* The end of a worker: ~Epoll calls fullstop and the memory is released.  *)

\* Step 2 of fullstop removes the clients one after the other.
FullstopClient(w) ==
  /\ wpc[w] = "fullstop"
  /\ \E c \in clients[w] : remove_client(w, c)
  /\ UNCHANGED <<hup, inbox, wakeup, timer, wpc, batch, pending_new_socks,
                 mainVars, g_should_stop, proc>>

FullstopClientsDone(w) ==
  /\ wpc[w] = "fullstop"
  /\ clients[w] = {}
  /\ wpc' = [wpc EXCEPT ![w] = "clear_queue"]
  /\ UNCHANGED <<kernelVars, batch, clients, size_clients, pending_new_socks,
                 mainVars, g_should_stop, proc>>

\* Step 4, under the mutex: what is queued is closed.
FullstopQueue(w) ==
  /\ wpc[w] = "clear_queue"
  /\ sock' = [c \in Conns |->
                IF c \in pending_new_socks[w] THEN "closed" ELSE sock[c]]
  /\ pending_new_socks' = [pending_new_socks EXCEPT ![w] = {}]
  /\ wpc' = [wpc EXCEPT ![w] = "close_fds"]
  /\ UNCHANGED <<hup, inbox, interest, wakeup, timer, batch, clients,
                 size_clients, mainVars, g_should_stop, proc>>

\* epfd, timerfd and wakeup_fd are closed and size_clients is reset.
FullstopFds(w) ==
  /\ wpc[w] = "close_fds"
  /\ interest' = [interest EXCEPT ![w] = {}]
  /\ wakeup' = [wakeup EXCEPT ![w] = FALSE]
  /\ size_clients' = [size_clients EXCEPT ![w] = 0]
  /\ wpc' = [wpc EXCEPT ![w] = "delete"]
  /\ UNCHANGED <<sock, hup, inbox, timer, batch, clients, pending_new_socks,
                 mainVars, g_should_stop, proc>>

\* The members are destroyed, the memory is freed and the thread ends; main
\* keeps its pointer.  A socket pushed since FullstopQueue is in no queue any
\* more, and still open.
DeleteEpoll(w) ==
  /\ wpc[w] = "delete"
  /\ wpc' = [wpc EXCEPT ![w] = "gone"]
  /\ pending_new_socks' = [pending_new_socks EXCEPT ![w] = {}]
  /\ UNCHANGED <<kernelVars, batch, clients, size_clients, mainVars,
                 g_should_stop, proc>>

\* The worker's next step inserts into or erases from its clients.
ChangesClients(w) ==
  \/ wpc[w] = "dispatch" /\ batch[w].hup # {}
  \/ wpc[w] = "dispatch" /\ \E c \in batch[w].in \cap clients[w] : inbox[c] = 0
  \/ wpc[w] = "drain" /\ pending_new_socks[w] # {}
  \/ wpc[w] = "fullstop" /\ clients[w] # {}

\* It does so while print_clients_stats, in main, iterates over the same
\* std::unordered_map: a data race.  The process survives it (the worker's
\* ordinary action) or not (this one).
MapRace(w) ==
  /\ mpc = "print"
  /\ visit = w
  /\ ChangesClients(w)
  /\ proc' = "map_race"
  /\ UNCHANGED <<kernelVars, workerVars, mainVars, g_should_stop>>

WorkerStep(w) ==
  \/ WorkerCheck(w)
  \/ WorkerWait(w)
  \/ \E c \in Conns : EventHup(w, c) \/ EventData(w, c)
  \/ EventWakeup(w)
  \/ Drain(w)
  \/ FullstopClient(w)
  \/ FullstopClientsDone(w)
  \/ FullstopQueue(w)
  \/ FullstopFds(w)
  \/ DeleteEpoll(w)
  \/ MapRace(w)

-----------------------------------------------------------------------------
(* The main thread: Epoll::exec on the MainEpoll, whose own clients map    *)
(* stays empty because balance_socket always takes the connection.         *)

Backlog == {c \in Conns : sock[c] = "backlog"}

MainReady == (IF Backlog # {} THEN {"listen"} ELSE {})
               \cup (IF timer THEN {"timer"} ELSE {})

MainCheck ==
  /\ mpc = "head"
  /\ mpc' = IF g_should_stop THEN "join" ELSE "wait"
  /\ UNCHANGED <<kernelVars, workerVars, mbatch, hand, target, visit,
                 g_should_stop, proc>>

MainWait ==
  /\ mpc = "wait"
  /\ \E b \in SUBSET MainReady :
       /\ Cardinality(b) = Capped(Cardinality(MainReady))
       /\ mbatch' = b
       /\ mpc' = IF b = {} THEN "head" ELSE "dispatch"
  /\ UNCHANGED <<kernelVars, workerVars, hand, target, visit, g_should_stop,
                 proc>>

\* Where exec's loop over the events goes when the events rest are left.
AfterEvent(rest) == IF rest = {} THEN "head" ELSE "dispatch"

\* EPOLLIN on the listening socket: accept_connections begins.
EventListen ==
  /\ mpc = "dispatch"
  /\ "listen" \in mbatch
  /\ mbatch' = mbatch \ {"listen"}
  /\ mpc' = "accept"
  /\ UNCHANGED <<kernelVars, workerVars, hand, target, visit, g_should_stop,
                 proc>>

OpenConns == {c \in Conns : sock[c] = "est"}

\* Where balance_socket goes once it has compared the subepolls up to w.
AfterCompare(w) == IF w = NumWorkers THEN "push" ELSE "balance"

\* accept4 returns a connection; std::min_element starts at subepolls_[0].
AcceptOne ==
  /\ mpc = "accept"
  /\ \E c \in Backlog :
       /\ sock' = [sock EXCEPT ![c] = "est"]
       /\ hand' = {c}
  /\ target' = 1
  /\ visit' = 1
  /\ mpc' = AfterCompare(1)
  /\ UNCHANGED <<hup, inbox, interest, wakeup, timer, workerVars, mbatch,
                 g_should_stop, proc>>

\* accept4 fails with anything but EAGAIN, such as EMFILE, which needs no
\* waiting connection: the exception leaves exec, and main does not catch it.
AcceptFails ==
  /\ mpc = "accept"
  /\ AcceptMayFail
  /\ proc' = "terminated"
  /\ UNCHANGED <<kernelVars, workerVars, mainVars, g_should_stop>>

\* accept4 fails with EAGAIN: back to exec's loop over the events.
AcceptDone ==
  /\ mpc = "accept"
  /\ Backlog = {}
  /\ mpc' = AfterEvent(mbatch)
  /\ UNCHANGED <<kernelVars, workerVars, mbatch, hand, target, visit,
                 g_should_stop, proc>>

\* Balancing on what the workers serve instead of on what they were given.
BalanceCompare_Served ==
  /\ mpc = "balance"
  /\ LET w == visit + 1 IN
     /\ visit' = w
     /\ mpc' = AfterCompare(w)
     /\ target' = IF Cardinality(clients[w]) < Cardinality(clients[target])
                    THEN w ELSE target
  /\ UNCHANGED <<kernelVars, workerVars, mbatch, hand, g_should_stop, proc>>

\* One comparison of std::min_element: the next subepoll replaces the least
\* so far only when it is smaller.  A count read from a deleted Epoll is
\* whatever the freed memory holds.
BalanceCompare ==
  /\ mpc = "balance"
  /\ LET w == visit + 1 IN
     /\ visit' = w
     /\ mpc' = AfterCompare(w)
     /\ \/ /\ size_clients[w] < size_clients[target]
           /\ target' = w
        \/ /\ size_clients[w] >= size_clients[target]
           /\ target' = target
        \/ /\ wpc[w] = "gone" \/ wpc[target] = "gone"
           /\ target' \in {target, w}
  /\ UNCHANGED <<kernelVars, workerVars, mbatch, hand, g_should_stop, proc>>

\* A slot for one socket instead of a queue.
Push_Slot ==
  /\ mpc = "push"
  /\ wpc[target] # "gone"
  /\ pending_new_socks' = [pending_new_socks EXCEPT ![target] = hand]
  /\ size_clients' = [size_clients EXCEPT ![target] = @ + 1]
  /\ hand' = {}
  /\ mpc' = "notify"
  /\ UNCHANGED <<kernelVars, wpc, batch, clients, mbatch, target, visit,
                 g_should_stop, proc>>

\* push_external_socket, the part under the mutex.
Push ==
  /\ mpc = "push"
  /\ wpc[target] # "gone"
  /\ pending_new_socks' = [pending_new_socks EXCEPT ![target] = @ \cup hand]
  /\ size_clients' = [size_clients EXCEPT ![target] = @ + 1]
  /\ hand' = {}
  /\ mpc' = "notify"
  /\ UNCHANGED <<kernelVars, wpc, batch, clients, mbatch, target, visit,
                 g_should_stop, proc>>

\* The worker is left to its 100 ms timeout.
Notify_NoWrite ==
  /\ mpc = "notify"
  /\ wpc[target] # "gone"
  /\ mpc' = "accept"
  /\ UNCHANGED <<kernelVars, workerVars, mbatch, hand, target, visit,
                 g_should_stop, proc>>

\* push_external_socket, the write to the eventfd.  It fails, unnoticed,
\* once fullstop has closed wakeup_fd.
Notify ==
  /\ mpc = "notify"
  /\ wpc[target] # "gone"
  /\ wakeup' = [wakeup EXCEPT ![target] = @ \/ wpc[target] # "delete"]
  /\ mpc' = "accept"
  /\ UNCHANGED <<sock, hup, inbox, interest, timer, workerVars, mbatch, hand,
                 target, visit, g_should_stop, proc>>

\* EPOLLIN on main's timerfd: handle_timer reads it and show_shared_stats
\* begins its first loop.
EventTimer ==
  /\ mpc = "dispatch"
  /\ "timer" \in mbatch
  /\ mbatch' = mbatch \ {"timer"}
  /\ timer' = FALSE
  /\ visit' = 1
  /\ mpc' = "count"
  /\ UNCHANGED <<sock, hup, inbox, interest, wakeup, workerVars, hand, target,
                 g_should_stop, proc>>

\* The first loop of show_shared_stats reads each worker's count_clients();
\* after the last the second loop enters the clients map of the first.
StatsCount ==
  /\ mpc = "count"
  /\ visit' = IF visit < NumWorkers THEN visit + 1 ELSE 1
  /\ mpc' = IF visit < NumWorkers THEN "count" ELSE "print"
  /\ UNCHANGED <<kernelVars, workerVars, mbatch, hand, target, g_should_stop,
                 proc>>

\* The second loop leaves one worker's map (print_clients_stats returns) and
\* enters the next one's, until all are printed.
StatsPrint ==
  /\ mpc = "print"
  /\ visit' = IF visit < NumWorkers THEN visit + 1 ELSE 1
  /\ mpc' = IF visit < NumWorkers THEN "print" ELSE AfterEvent(mbatch)
  /\ UNCHANGED <<kernelVars, workerVars, mbatch, hand, target, g_should_stop,
                 proc>>

\* Main uses, through subepolls_, an Epoll that its worker has deleted.  A
\* read may be survived (the ordinary action); locking a destroyed mutex and
\* pushing into a destroyed queue is not modelled further.
UseFreed ==
  /\ \/ mpc = "balance" /\ "gone" \in {wpc[visit + 1], wpc[target]}
     \/ mpc \in {"push", "notify"} /\ wpc[target] = "gone"
     \/ mpc \in {"count", "print"} /\ wpc[visit] = "gone"
  /\ proc' = "use_after_free"
  /\ UNCHANGED <<kernelVars, workerVars, mainVars, g_should_stop>>

\* ~MainEpoll joins every worker, main returns, and the end of the process
\* closes what is still open.
MainJoin ==
  /\ mpc = "join"
  /\ \A w \in Workers : wpc[w] = "gone"
  /\ sock' = [c \in Conns |-> IF sock[c] = "new" THEN "new" ELSE "closed"]
  /\ proc' = "exited"
  /\ UNCHANGED <<hup, inbox, interest, wakeup, timer, workerVars, mainVars,
                 g_should_stop>>

MainStep ==
  \/ MainCheck
  \/ MainWait
  \/ EventListen
  \/ AcceptOne
  \/ AcceptFails
  \/ AcceptDone
  \/ BalanceCompare
  \/ Push
  \/ Notify
  \/ EventTimer
  \/ StatsCount
  \/ StatsPrint
  \/ UseFreed
  \/ MainJoin

-----------------------------------------------------------------------------
(* The process.  Once it has ended nothing happens any more.               *)

ProcessEnded == proc # "running" /\ UNCHANGED vars

WorkerRuns(w) == proc = "running" /\ WorkerStep(w)
MainRuns      == proc = "running" /\ MainStep

Next ==
  \/ proc = "running" /\ Environment
  \/ \E w \in Workers : WorkerRuns(w)
  \/ MainRuns
  \/ ProcessEnded

SafetySpec == Init /\ [][Next]_vars

\* The operating system schedules every thread, and epoll_wait returns after
\* at most 100 ms; nothing is assumed of the peers, the clock or the signal.
Fairness ==
  /\ \A w \in Workers : WF_vars(WorkerRuns(w))
  /\ WF_vars(MainRuns)

Spec == SafetySpec /\ Fairness

-----------------------------------------------------------------------------
(* Safety.                                                                 *)

\* An accepted socket is in at most one place: main's hand, one worker's
\* queue or one worker's clients map; and a socket in any of them is open.
\* (accept_connections, push_external_socket, exec's drain, remove_client
\* and fullstop: nobody closes or serves another thread's descriptor.)
OwnedOnce ==
  /\ hand \subseteq OpenConns
  /\ \A w \in Workers :
       /\ clients[w] \cup pending_new_socks[w] \subseteq OpenConns
       /\ hand \cap (clients[w] \cup pending_new_socks[w]) = {}
       /\ clients[w] \cap pending_new_socks[w] = {}
       /\ \A v \in Workers \ {w} :
            (clients[w] \cup pending_new_socks[w])
              \cap (clients[v] \cup pending_new_socks[v]) = {}

\* Until a stop is asked for, every open socket is held by somebody: the
\* hand-off through push_external_socket and the drain loses none.
NoOrphan ==
  ~g_should_stop =>
    \A c \in OpenConns :
      \/ c \in hand
      \/ \E w \in Workers : c \in clients[w] \cup pending_new_socks[w]

\* An event exec has yet to handle belongs to a descriptor that is still
\* open and still this worker's client, although the events before it in the
\* same batch may have closed others.
EventsAreLive ==
  \A w \in Workers :
    /\ interest[w] \subseteq clients[w]
    /\ batch[w].hup \cup batch[w].in \subseteq interest[w]
    /\ wpc[w] \notin {"dispatch", "drain"} => batch[w] = NoEvents

\* size_clients, which both the main thread and the worker change, is the
\* number of sockets the worker has or has been given ("добавляем тут, чтобы
\* балансировка проходила корректно", epollserver.cpp:410), until fullstop
\* drops the queue without counting it.
SizeClientsExact ==
  \A w \in Workers :
    wpc[w] \notin {"close_fds", "delete", "gone"} =>
      size_clients[w] = Cardinality(clients[w] \cup pending_new_socks[w])

\* A queue with a socket in it is never left to the 100 ms timeout: the
\* eventfd is set, about to be set by main, or the worker is about to drain.
NoLostWakeup ==
  \A w \in Workers :
    /\ pending_new_socks[w] # {}
    /\ wpc[w] \in {"head", "wait", "dispatch"}
    => wakeup[w] \/ (mpc = "notify" /\ target = w)

\* As long as no client has left and no stop was asked for, balance_socket
\* keeps the loads of any two workers within one.
BalancedLoad ==
  (~g_should_stop /\ \A c \in Conns : sock[c] # "closed") =>
    \A v, w \in Workers : size_clients[v] <= size_clients[w] + 1

-----------------------------------------------------------------------------
(* Liveness.                                                               *)

Ended == g_should_stop \/ proc # "running"

\* A peer that connects is eventually in the clients map of some worker.
ConnectionServed ==
  \A c \in Conns :
    sock[c] = "backlog" ~> (\E w \in Workers : c \in clients[w]) \/ Ended

\* A socket whose peer has gone is eventually closed, wherever it was when
\* the peer left: in the backlog, in main's hand, in a queue or in a map.
HangupReaped ==
  \A c \in Conns :
    hup[c] /\ sock[c] \in {"backlog", "est"} ~> sock[c] = "closed" \/ Ended

\* What a peer sends is eventually read, unless the peer hangs up first: exec
\* tests EPOLLHUP before EPOLLIN (epollserver.cpp:106), so that data which are
\* unread when the hang-up is seen are dropped with the socket.
DataRead ==
  \A c \in Conns : inbox[c] > 0 ~> inbox[c] = 0 \/ hup[c] \/ Ended

\* A stop signal ends the process, one way or another: no thread stays in
\* its loop, and main's pthread_join does not wait for ever.
StopTerminates == g_should_stop ~> proc # "running"

-----------------------------------------------------------------------------
(* The refinement mapping to ConnectionHandoff.                            *)

stageOf(c) ==
  CASE sock[c] # "est"                               -> sock[c]
    [] c \in hand                                    -> "accepted"
    [] \E w \in Workers : c \in pending_new_socks[w] -> "queued"
    [] \E w \in Workers : c \in clients[w]           -> "served"
    [] OTHER                                         -> "lost"

ownerOf(c) ==
  IF \E w \in Workers : c \in clients[w] \cup pending_new_socks[w]
    THEN CHOOSE w \in Workers : c \in clients[w] \cup pending_new_socks[w]
    ELSE 0

Handoff == INSTANCE ConnectionHandoff
  WITH stage   <- [c \in Conns |-> stageOf(c)],
       owner   <- [c \in Conns |-> ownerOf(c)],
       gone    <- hup,
       halting <- g_should_stop \/ proc # "running"

\* The threads, the queue and the eventfd together implement the hand-off.
ImplementsHandoff == Handoff!Spec

\* Seen from a peer: ConnectionLife, which knows of no threads.
lifeOf(stage) ==
  CASE stage \in {"accepted", "queued", "served"} -> "open"
    [] stage = "lost"                             -> "closed"
    [] OTHER                                      -> stage

Life == INSTANCE ConnectionLife
  WITH stage   <- [c \in Conns |-> lifeOf(stageOf(c))],
       gone    <- hup,
       halting <- g_should_stop \/ proc # "running"
=============================================================================
