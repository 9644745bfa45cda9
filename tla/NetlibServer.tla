---------------------------- MODULE NetlibServer ----------------------------
(***************************************************************************)
(* SinglethreadServer of netlib (src/netlib/server.cpp) with its           *)
(* ServerLightEpoll (src/netlib/epoll.cpp:165-299): one application thread *)
(* calls start() and stop() in any order; every successful start() makes a *)
(* handler thread that accepts in a loop.                                  *)
(*                                                                         *)
(* Accepted clients are put into clients and never into the epoll set      *)
(* (epoll.cpp:291), so the listening socket is the only descriptor with    *)
(* events, and the branches of on_epoll_event for clients are never taken. *)
(* The listening socket reports a hang-up only after shutdown(), which     *)
(* nobody calls.  Numbers are given as the kernel gives them, the lowest   *)
(* free one first, because socket_ outlives the descriptor it names.       *)
(***************************************************************************)
EXTENDS Integers, FiniteSets

CONSTANTS
  Conns,     \* connections that peers may open
  MaxFd,     \* descriptor numbers are 1 .. MaxFd
  MaxStarts, \* handler threads, a bound on calls of start()
  Free, Listen   \* what a number may stand for beside a connection

ASSUME ServerAssumption ==
  /\ MaxFd \in Nat \ {0} /\ MaxStarts \in Nat \ {0}
  /\ Free # Listen /\ {Free, Listen} \cap Conns = {}

Fds      == 1 .. MaxFd
Handlers == 1 .. MaxStarts

VARIABLES
  state_, socket_, need_stop_, handleth_, clients,
  apc,    \* the application: idle, start (after create_listen_socket), or
          \* join, close and remove, the parts of stop()
  sock,   \* start(): the result of create_listen_socket()
  hpc,    \* handler threads: none, poll, wait (in epoll_wait), accept, inside
          \* (in accept4), add, done
  hfd,    \* the number a thread in accept4 has got for its connection, and
          \* then the one that clients does not have yet
  file,   \* number -> what it stands for
  watched,        \* numbers in the epoll set
  backlog, peer,  \* connections before accept4; what peers have done
  proc

facade == <<state_, apc, sock>>
epoll  == <<socket_, need_stop_, handleth_, watched>>
vars   == <<facade, epoll, clients, hpc, hfd, file, backlog, peer, proc>>

Init ==
  /\ state_ = "STOPPED" /\ apc = "idle" /\ sock = -1
  /\ socket_ = -1 /\ need_stop_ = FALSE /\ handleth_ = 0 /\ watched = {}
  /\ clients = {}
  /\ hpc = [h \in Handlers |-> "none"] /\ hfd = [h \in Handlers |-> 0]
  /\ file = [f \in Fds |-> Free]
  /\ backlog = {} /\ peer = [c \in Conns |-> "new"] /\ proc = "running"

\* Threads in accept4.  They hold the listening socket, whoever closes its
\* number meanwhile, and each has a number that nobody else gets.
Inside == {h \in Handlers : hpc[h] = "inside"}

Bound     == \E f \in Fds : file[f] = Listen
Listening == Bound \/ Inside # {}

\* The number the kernel gives next.
Unused    == {f \in Fds : file[f] = Free} \ {hfd[h] : h \in Inside}
Lowest(f) == f \in Unused /\ \A g \in Unused : f <= g

\* close(f).  The listening socket goes with its last holder, and takes its
\* backlog and its events with it.
Close(f) ==
  /\ file' = [file EXCEPT ![f] = Free]
  /\ IF file[f] = Listen /\ Inside = {}
       THEN watched' = watched \ {f} /\ backlog' = {}
       ELSE UNCHANGED <<watched, backlog>>

-----------------------------------------------------------------------------
(* The peers.                                                              *)

PeerConnects(c) ==
  /\ proc = "running" /\ peer[c] = "new" /\ Listening
  /\ peer' = [peer EXCEPT ![c] = "up"] /\ backlog' = backlog \cup {c}
  /\ UNCHANGED <<facade, epoll, clients, hpc, hfd, file, proc>>

-----------------------------------------------------------------------------
(* start(), called by the application.                                     *)

Unstarted == {h \in Handlers : hpc[h] = "none"}

\* create_listen_socket() fails, as it does when the port has a listener.
StartFails ==
  /\ proc = "running" /\ apc = "idle"
  /\ state_' = "ERROR"
  /\ UNCHANGED <<apc, sock, epoll, clients, hpc, hfd, file, backlog, peer, proc>>

\* It makes the socket; or listen() fails, the socket is closed, and the
\* `return false` is the number 0.
StartListens ==
  /\ proc = "running" /\ apc = "idle" /\ ~Listening /\ Unstarted # {}
  /\ \/ \E f \in Fds : Lowest(f) /\ sock' = f /\ file' = [file EXCEPT ![f] = Listen]
     \/ sock' = 0 /\ UNCHANGED file
  /\ state_' = "WAITING" /\ apc' = "start"
  /\ UNCHANGED <<epoll, clients, hpc, hfd, backlog, peer, proc>>

\* ServerLightEpoll::start_handle throws "wrong use", or add_fd fails: the
\* new socket is nobody's, and state_ is WAITING.
StartRefused ==
  /\ proc = "running" /\ apc = "start"
  /\ socket_ > 0 \/ sock > 0
  /\ apc' = "idle" /\ sock' = -1
  /\ UNCHANGED <<state_, epoll, clients, hpc, hfd, file, backlog, peer, proc>>

\* start_handle: the socket is watched and a new thread runs exec().
StartHandle ==
  /\ proc = "running" /\ apc = "start" /\ socket_ <= 0
  /\ socket_' = sock
  /\ watched' = watched \cup ({sock} \ {0})
  /\ \E h \in Unstarted :
       /\ \A g \in Unstarted : h <= g
       /\ handleth_' = h /\ hpc' = [hpc EXCEPT ![h] = "poll"]
  /\ apc' = "idle" /\ sock' = -1
  /\ UNCHANGED <<state_, need_stop_, clients, hfd, file, backlog, peer, proc>>

-----------------------------------------------------------------------------
(* stop(), called by the application.                                      *)

StopBegins ==
  /\ proc = "running" /\ apc = "idle"
  /\ state_' = "STOPPED" /\ need_stop_' = TRUE /\ apc' = "join"
  /\ UNCHANGED <<sock, socket_, handleth_, watched, clients, hpc, hfd, file,
                 backlog, peer, proc>>

StopJoins ==
  /\ proc = "running" /\ apc = "join"
  /\ handleth_ # 0 => hpc[handleth_] = "done"
  /\ handleth_' = 0 /\ apc' = "close"
  /\ UNCHANGED <<state_, sock, socket_, need_stop_, watched, clients, hpc, hfd,
                 file, backlog, peer, proc>>

\* close(socket_): socket_ keeps its value, also for the next stop().
StopCloses ==
  /\ proc = "running" /\ apc = "close"
  /\ IF socket_ > 0 THEN Close(socket_) ELSE UNCHANGED <<file, watched, backlog>>
  /\ apc' = "remove"
  /\ UNCHANGED <<state_, sock, socket_, need_stop_, handleth_, clients, hpc, hfd,
                 peer, proc>>

StopRemoves_Keep ==
  /\ proc = "running" /\ apc = "remove"
  /\ \/ clients = {} /\ apc' = "idle" /\ UNCHANGED clients
     \/ \E f \in clients : clients' = clients \ {f} /\ UNCHANGED apc
  /\ UNCHANGED <<state_, sock, epoll, hpc, hfd, file, backlog, peer, proc>>

StopRemoves_One ==
  /\ proc = "running" /\ apc = "remove" /\ apc' = "idle"
  /\ IF clients = {} THEN UNCHANGED <<clients, file, watched, backlog>>
     ELSE \E f \in clients : clients' = clients \ {f} /\ Close(f)
  /\ UNCHANGED <<state_, sock, socket_, need_stop_, handleth_, hpc, hfd, peer, proc>>

\* remove_client for the clients, one after the other.
StopRemoves ==
  /\ proc = "running" /\ apc = "remove"
  /\ \/ clients = {} /\ apc' = "idle" /\ UNCHANGED <<clients, file, watched, backlog>>
     \/ \E f \in clients :
          clients' = clients \ {f} /\ Close(f) /\ UNCHANGED apc
  /\ UNCHANGED <<state_, sock, socket_, need_stop_, handleth_, hpc, hfd, peer, proc>>

-----------------------------------------------------------------------------
(* The handler threads.                                                    *)

Goes(h, from, to) ==
  /\ proc = "running" /\ hpc[h] = from /\ hpc' = [hpc EXCEPT ![h] = to]

\* exec(): need_stop_ is looked at before every epoll_wait, and not behind it.
HandlerEnds(h) ==
  /\ Goes(h, "poll", "done") /\ need_stop_
  /\ UNCHANGED <<facade, epoll, clients, hfd, file, backlog, peer, proc>>

LoopGoesOn(h) ==
  /\ Goes(h, "poll", "wait") /\ ~need_stop_
  /\ UNCHANGED <<facade, epoll, clients, hfd, file, backlog, peer, proc>>

\* An event of the listening socket, or none for 100 ms.
Readable == backlog # {} /\ socket_ > 0 /\ socket_ \in watched

Event(h) ==
  /\ Goes(h, "wait", "accept") /\ Readable
  /\ UNCHANGED <<facade, epoll, clients, hfd, file, backlog, peer, proc>>

NoEvent(h) ==
  /\ Goes(h, "wait", "poll") /\ ~Readable
  /\ UNCHANGED <<facade, epoll, clients, hfd, file, backlog, peer, proc>>

\* handle_accept() calls accept4: the new number comes first.
CallAccept(h) ==
  /\ Goes(h, "accept", "inside") /\ file[socket_] = Listen
  /\ \E f \in Fds : Lowest(f) /\ hfd' = [hfd EXCEPT ![h] = f]
  /\ UNCHANGED <<facade, epoll, clients, file, backlog, peer, proc>>

\* h leaves accept4, with the connections of left still in the backlog.
Leaves(h, left) ==
  IF Bound \/ Inside # {h} THEN backlog' = left /\ UNCHANGED watched
                          ELSE backlog' = {} /\ watched' = {}

\* It returns a connection, also of a socket that stop() has closed.
Accept(h) ==
  /\ Goes(h, "inside", "add")
  /\ \E c \in backlog :
       file' = [file EXCEPT ![hfd[h]] = c] /\ Leaves(h, backlog \ {c})
  /\ UNCHANGED <<facade, socket_, need_stop_, handleth_, clients, hfd, peer, proc>>

AcceptAgain_Blocks(h) ==
  /\ Goes(h, "inside", "poll") /\ backlog = {} /\ ~need_stop_
  /\ hfd' = [hfd EXCEPT ![h] = 0] /\ Leaves(h, {})
  /\ UNCHANGED <<facade, socket_, need_stop_, handleth_, clients, file, peer, proc>>

AcceptAgain_Ends(h) ==
  /\ Goes(h, "inside", "done") /\ backlog = {}
  /\ hfd' = [hfd EXCEPT ![h] = 0] /\ Leaves(h, {})
  /\ UNCHANGED <<facade, socket_, need_stop_, handleth_, clients, file, peer, proc>>

\* Nobody waits: the socket is a blocking one, accept4 gives EAGAIN after the
\* second of SO_RCVTIMEO.
AcceptAgain(h) ==
  /\ Goes(h, "inside", "poll") /\ backlog = {}
  /\ hfd' = [hfd EXCEPT ![h] = 0] /\ Leaves(h, {})
  /\ UNCHANGED <<facade, socket_, need_stop_, handleth_, clients, file, peer, proc>>

\* accept4 fails: no number is left, or socket_ is no listening socket any
\* more.  The exception leaves the thread and ends the process.
AcceptFails(h) ==
  /\ proc = "running" /\ hpc[h] = "accept"
  /\ file[socket_] # Listen \/ Unused = {}
  /\ proc' = "ended"
  /\ UNCHANGED <<facade, epoll, clients, hpc, hfd, file, backlog, peer>>

\* clients.emplace
AddClient(h) ==
  /\ Goes(h, "add", "accept")
  /\ clients' = clients \cup {hfd[h]} /\ hfd' = [hfd EXCEPT ![h] = 0]
  /\ UNCHANGED <<facade, epoll, file, backlog, peer, proc>>

\* Two threads change the map at the same time, which may end the process.
MapRace ==
  /\ proc = "running"
  /\ \E h \in Handlers :
       /\ hpc[h] = "add"
       /\ \/ apc = "remove" /\ clients # {}
          \/ \E g \in Handlers \ {h} : hpc[g] = "add"
  /\ proc' = "ended"
  /\ UNCHANGED <<facade, epoll, clients, hpc, hfd, file, backlog, peer>>

-----------------------------------------------------------------------------
Handler(h) == \/ HandlerEnds(h) \/ LoopGoesOn(h) \/ Event(h) \/ NoEvent(h)
              \/ CallAccept(h) \/ Accept(h) \/ AcceptAgain(h) \/ AcceptFails(h)
              \/ AddClient(h)

Stop == StopJoins \/ StopCloses \/ StopRemoves

Application == StartFails \/ StartListens \/ StartRefused \/ StartHandle
               \/ StopBegins \/ Stop

Next == \/ \E c \in Conns : PeerConnects(c)
        \/ Application \/ MapRace
        \/ \E h \in Handlers : Handler(h)

\* Threads run; the application need not call anything, but a call goes on.
Spec == /\ Init /\ [][Next]_vars
        /\ WF_vars(Stop) /\ WF_vars(StartRefused \/ StartHandle)
        /\ \A h \in Handlers : WF_vars(Handler(h))

-----------------------------------------------------------------------------
(* Properties.                                                             *)

Running == proc = "running"

\* The numbers of open connections are those in clients and those accept4
\* has just returned: neither a stop() at any moment nor a second one, which
\* closes a stale socket_, loses a client's descriptor or closes it twice.
DescriptorsOwned ==
  Running =>
    \A f \in Fds : file[f] \in Conns
      <=> f \in clients \/ \E h \in Handlers : hpc[h] = "add" /\ hfd[h] = f

\* After stop(), and once a thread start() has lost track of is gone, no
\* connection is open and countClients() is 0: the handler thread accepts
\* nothing behind the back of stop().
StopReleases ==
  Running /\ apc = "idle" /\ state_ = "STOPPED"
    /\ (\A h \in Handlers : hpc[h] \in {"none", "done"})
  => clients = {} /\ \A f \in Fds : file[f] \notin Conns

\* A connection is accepted while the server listens with a live thread.
\* The condition says how often that fails: not after a first stop(), which
\* leaves need_stop_ set, and not for a socket start() has lost.
BacklogAccepted ==
  \A c \in Conns :
    c \in backlog /\ ~need_stop_ /\ watched # {}
      ~> c \notin backlog \/ need_stop_ \/ ~Running

\* stop() returns: the handler thread looks at need_stop_ at least once a
\* second, whatever it does.
StopReturns == apc \in {"join", "close", "remove"} ~> apc = "idle" \/ ~Running
=============================================================================
