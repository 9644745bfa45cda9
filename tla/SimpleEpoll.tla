----------------------------- MODULE SimpleEpoll -----------------------------
(***************************************************************************)
(* EpollServer (src/simpleepoll/main.cpp): several worker threads wait on  *)
(* one edge-triggered epoll without EPOLLONESHOT, in which the listening   *)
(* socket and every client are.  A step is what a thread does between two  *)
(* system calls; running is read in the step it guards.                    *)
(*                                                                         *)
(* The kernel's side: the descriptor table, of which accept4 takes the     *)
(* least free entry; the backlog; the epoll with its ready list, to which  *)
(* an edge adds and from which epoll_wait takes; the data and the end of   *)
(* each connection.  An event carries a descriptor and not a connection:   *)
(* the number may have a new owner when the event is handled.              *)
(*                                                                         *)
(* X_Flaw, before a definition X, is X with a plausible mistake in it.     *)
(***************************************************************************)
EXTENDS Integers

CONSTANTS
  Threads,      \* worker threads
  MaxConns,     \* connections (bound)
  MaxData       \* unread chunks on a connection, a chunk being one recv (bound)

ASSUME BoundsAssumption ==
  MaxConns \in Nat /\ MaxData \in Nat

VARIABLES
  running, spc,            \* the flag; the thread that calls stop()
  pc, events, client_fd,   \* a worker: its place, what epoll_wait returned and
                           \* is not handled yet, the descriptor it is busy with
  file,                    \* the connection behind each descriptor
  accepted,                \* connections taken from the backlog, in order
  registered, ready,       \* what epoll watches; its ready list
  inbox, peer,             \* unread chunks, and the other end
  refused,                 \* history: accept4 has failed with a client waiting
  meant,                   \* history: the connection that the worker's close()
                           \* or ADD is meant for
  hit                      \* history: connections that a close() or an ADD meant
                           \* for another one has hit

vars == <<running, spc, pc, events, client_fd, file, accepted, registered,
          ready, inbox, peer, refused, meant, hit>>
calls == <<meant, hit>>

Conns    == 1..MaxConns
Fds      == Conns       \* at least as many as are ever open
None     == 0
Listener == -1         \* server_fd, as a descriptor and in the ready list

TypeOK ==
  /\ running \in BOOLEAN
  /\ spc \in {"serving", "close_server", "close_epoll", "join", "stopped"}
  /\ pc \in [Threads -> {"wait", "loop", "accept", "add", "refuse", "read",
                          "close", "exited"}]
  /\ events \in [Threads -> SUBSET (Fds \cup {Listener})]
  /\ client_fd \in [Threads -> Fds \cup {None}]
  /\ file \in [Fds -> Conns \cup {None}]
  /\ accepted \in 0..MaxConns
  /\ registered \in SUBSET Conns
  /\ ready \in SUBSET (Conns \cup {Listener})
  /\ inbox \in [Conns -> 0..MaxData]
  /\ peer \in [Conns -> {"none", "open", "fin", "rst"}]
  /\ refused \in BOOLEAN
  /\ meant \in [Threads -> Conns \cup {None}]
  /\ hit \in SUBSET Conns

Init ==
  /\ running = TRUE /\ spc = "serving"
  /\ pc = [t \in Threads |-> "wait"]
  /\ events = [t \in Threads |-> {}]
  /\ client_fd = [t \in Threads |-> None]
  /\ file = [f \in Fds |-> None] /\ accepted = 0
  /\ registered = {} /\ ready = {}
  /\ inbox = [c \in Conns |-> 0] /\ peer = [c \in Conns |-> "none"]
  /\ refused = FALSE
  /\ meant = [t \in Threads |-> None] /\ hit = {}

Backlog   == {c \in Conns : peer[c] # "none" /\ c > accepted}
Open(c)   == \E f \in Fds : file[f] = c
HungUp(c) == peer[c] \in {"fin", "rst"}
Pending(c) == inbox[c] > 0 \/ HungUp(c)

-----------------------------------------------------------------------------
(* The worker's loop.                                                      *)

Goes(t, to) == pc' = [pc EXCEPT ![t] = to]
NetworkKept == UNCHANGED <<inbox, peer>>
StopKept    == UNCHANGED <<running, spc>>

\* epoll_wait empties the ready list (64 events are more than there are) and
\* leaves out what has nothing to report any more.  Without an event it waits
\* on, 100 ms at a time.
EpollWait(t) ==
  /\ pc[t] = "wait" /\ running
  /\ ready # {}
  /\ ready' = {}
  /\ events' = [events EXCEPT ![t] =
       {f \in Fds : file[f] \in ready /\ Pending(file[f])} \cup
       {f \in {Listener} : f \in ready /\ Backlog # {}}]
  /\ Goes(t, IF events'[t] = {} THEN "wait" ELSE "loop")
  /\ StopKept /\ NetworkKept
  /\ UNCHANGED <<client_fd, file, accepted, registered, refused, calls>>

\* An event is handled while the server is running.
Dispatch(t) ==
  /\ pc[t] = "loop" /\ running
  /\ \E f \in events[t] :
       /\ events' = [events EXCEPT ![t] = @ \ {f}]
       /\ client_fd' = [client_fd EXCEPT ![t] = IF f = Listener THEN None ELSE f]
       /\ Goes(t, IF f = Listener THEN "accept" ELSE "read")
  /\ StopKept /\ NetworkKept
  /\ UNCHANGED <<file, accepted, registered, ready, refused, calls>>

BatchEnds(t) ==
  /\ pc[t] = "loop"
  /\ events[t] = {} \/ ~running
  /\ events' = [events EXCEPT ![t] = {}]
  /\ Goes(t, "wait")
  /\ StopKept /\ NetworkKept
  /\ UNCHANGED <<client_fd, file, accepted, registered, ready, refused, calls>>

Exit(t) ==
  /\ pc[t] = "wait" /\ ~running
  /\ Goes(t, "exited")
  /\ StopKept /\ NetworkKept
  /\ UNCHANGED <<events, client_fd, file, accepted, registered, ready, refused, calls>>

\* Back to the batch from accept_connections or handle_client.
Returns(t) ==
  /\ Goes(t, "loop")
  /\ client_fd' = [client_fd EXCEPT ![t] = None]

-----------------------------------------------------------------------------
(* accept_connections: until there is nothing more to accept.              *)

Accept(t) ==
  /\ pc[t] = "accept" /\ running
  /\ Backlog # {}
  /\ \E f \in Fds :
       /\ file[f] = None
       /\ \A g \in Fds : g < f => file[g] # None
       /\ file' = [file EXCEPT ![f] = accepted + 1]
       /\ client_fd' = [client_fd EXCEPT ![t] = f]
  /\ accepted' = accepted + 1
  /\ meant' = [meant EXCEPT ![t] = accepted + 1]
  /\ Goes(t, "add")
  /\ StopKept /\ NetworkKept
  /\ UNCHANGED <<events, registered, ready, refused, hit>>

\* EMFILE, ECONNABORTED...: any error ends the loop as EAGAIN does.
AcceptFails(t) ==
  /\ pc[t] = "accept" /\ running
  /\ Backlog # {}
  /\ refused' = TRUE
  /\ Returns(t)
  /\ StopKept /\ NetworkKept
  /\ UNCHANGED <<events, file, accepted, registered, ready, calls>>

\* EAGAIN; after a stop the loop ends, or accept4 fails on a closed socket.
AcceptEnds(t) ==
  /\ pc[t] = "accept"
  /\ Backlog = {} \/ ~running
  /\ Returns(t)
  /\ StopKept /\ NetworkKept
  /\ UNCHANGED <<events, file, accepted, registered, ready, refused, calls>>

\* A call on client_fd, which hits whatever connection is behind it now.
Calls(t) ==
  /\ hit' = hit \cup ({file[client_fd[t]]} \ {meant[t], None})
  /\ meant' = [meant EXCEPT ![t] = None]

\* One connection for one event, as with a level-triggered epoll.
AddClient_Once(t) ==
  /\ pc[t] = "add"
  /\ spc \notin {"join", "stopped"}
  /\ file[client_fd[t]] \notin registered \cup {None}
  /\ registered' = registered \cup {file[client_fd[t]]}
  /\ ready' = IF Pending(file[client_fd[t]])
                THEN ready \cup {file[client_fd[t]]} ELSE ready
  /\ Calls(t)
  /\ Returns(t)
  /\ StopKept /\ NetworkKept
  /\ UNCHANGED <<events, file, accepted, refused>>

\* EPOLL_CTL_ADD reports what is there already as an edge.
AddClient(t) ==
  /\ pc[t] = "add"
  /\ spc \notin {"join", "stopped"}
  /\ file[client_fd[t]] \notin registered \cup {None}
  /\ registered' = registered \cup {file[client_fd[t]]}
  /\ ready' = IF Pending(file[client_fd[t]])
                THEN ready \cup {file[client_fd[t]]} ELSE ready
  /\ Calls(t)
  /\ client_fd' = [client_fd EXCEPT ![t] = None]
  /\ Goes(t, "accept")
  /\ StopKept /\ NetworkKept
  /\ UNCHANGED <<events, file, accepted, refused>>

\* EEXIST: the number was closed and given to a connection that another
\* thread has added.  EBADF: it was closed, or stop() has closed the epoll.
AddFails(t) ==
  /\ pc[t] = "add"
  /\ file[client_fd[t]] \in registered \cup {None} \/ spc \in {"join", "stopped"}
  /\ Goes(t, "refuse")
  /\ StopKept /\ NetworkKept
  /\ UNCHANGED <<events, client_fd, file, accepted, registered, ready, refused, calls>>

-----------------------------------------------------------------------------
(* handle_client: until there is nothing more to read.                     *)

Chunk(t) == file[client_fd[t]] # None /\ inbox[file[client_fd[t]]] > 0

\* One recv for one event.
Read_Once(t) ==
  /\ pc[t] = "read" /\ running
  /\ Chunk(t)
  /\ inbox' = [inbox EXCEPT ![file[client_fd[t]]] = @ - 1]
  /\ Returns(t)
  /\ StopKept
  /\ UNCHANGED <<events, file, accepted, registered, ready, peer, refused, calls>>

\* The drain does not look at running.
Read_Deaf(t) ==
  /\ pc[t] = "read"
  /\ Chunk(t)
  /\ inbox' = [inbox EXCEPT ![file[client_fd[t]]] = @ - 1]
  /\ StopKept
  /\ UNCHANGED <<pc, events, client_fd, file, accepted, registered, ready,
                 peer, refused, calls>>

Read(t) ==
  /\ pc[t] = "read" /\ running
  /\ Chunk(t)
  /\ inbox' = [inbox EXCEPT ![file[client_fd[t]]] = @ - 1]
  /\ StopKept
  /\ UNCHANGED <<pc, events, client_fd, file, accepted, registered, ready,
                 peer, refused, calls>>

\* EAGAIN, or a stop.
ReadEnds(t) ==
  /\ pc[t] = "read"
  /\ \/ ~running
     \/ file[client_fd[t]] # None /\ ~Pending(file[client_fd[t]])
  /\ Returns(t)
  /\ StopKept /\ NetworkKept
  /\ UNCHANGED <<events, file, accepted, registered, ready, refused, calls>>

\* EAGAIN is taken for an error.
ReadFails_Again(t) ==
  /\ pc[t] = "read" /\ running
  /\ ~Chunk(t)
  /\ meant' = [meant EXCEPT ![t] = file[client_fd[t]]]
  /\ Goes(t, "close")
  /\ StopKept /\ NetworkKept
  /\ UNCHANGED <<events, client_fd, file, accepted, registered, ready, refused, hit>>

\* The end of the stream, a reset, or EBADF.
ReadFails(t) ==
  /\ pc[t] = "read" /\ running
  /\ ~Chunk(t)
  /\ file[client_fd[t]] # None => HungUp(file[client_fd[t]])
  /\ meant' = [meant EXCEPT ![t] = file[client_fd[t]]]
  /\ Goes(t, "close")
  /\ StopKept /\ NetworkKept
  /\ UNCHANGED <<events, client_fd, file, accepted, registered, ready, refused, hit>>

\* The end is noted and the descriptor kept.
Close_Keep(t) ==
  /\ pc[t] \in {"close", "refuse"}
  /\ IF pc[t] = "close" THEN Returns(t)
     ELSE Goes(t, "accept") /\ client_fd' = [client_fd EXCEPT ![t] = None]
  /\ meant' = [meant EXCEPT ![t] = None]
  /\ StopKept /\ NetworkKept
  /\ UNCHANGED <<events, file, accepted, registered, ready, refused, hit>>

\* close(client_fd), whatever is behind it now; a closed connection leaves
\* the epoll.  After a refused ADD accept_connections goes on.
Close(t) ==
  /\ pc[t] \in {"close", "refuse"}
  /\ file' = [file EXCEPT ![client_fd[t]] = None]
  /\ registered' = registered \ {file[client_fd[t]]}
  /\ ready' = ready \ {file[client_fd[t]]}
  /\ Calls(t)
  /\ client_fd' = [client_fd EXCEPT ![t] = None]
  /\ Goes(t, IF pc[t] = "close" THEN "loop" ELSE "accept")
  /\ StopKept /\ NetworkKept
  /\ UNCHANGED <<events, accepted, refused>>

WorkerStep(t) ==
  \/ EpollWait(t) \/ Dispatch(t) \/ BatchEnds(t) \/ Exit(t)
  \/ Accept(t) \/ AcceptFails(t) \/ AcceptEnds(t) \/ AddClient(t) \/ AddFails(t)
  \/ Read(t) \/ ReadEnds(t) \/ ReadFails(t) \/ Close(t)

-----------------------------------------------------------------------------
(* stop(), called once: running.exchange, two closes, the joins.           *)

WorkersKept == UNCHANGED <<pc, events, client_fd, file, accepted, refused, calls>>

StopBegins ==
  /\ spc = "serving"
  /\ running' = FALSE /\ spc' = "close_server"
  /\ WorkersKept /\ NetworkKept /\ UNCHANGED <<registered, ready>>

StopCloses ==
  /\ \/ spc = "close_server" /\ spc' = "close_epoll" /\ ready' = ready \ {Listener}
        /\ UNCHANGED registered
     \/ spc = "close_epoll" /\ spc' = "join" /\ registered' = {} /\ ready' = {}
  /\ UNCHANGED running
  /\ WorkersKept /\ NetworkKept

StopJoins ==
  /\ spc = "join"
  /\ \A t \in Threads : pc[t] = "exited"
  /\ spc' = "stopped"
  /\ UNCHANGED running
  /\ WorkersKept /\ NetworkKept /\ UNCHANGED <<registered, ready>>

-----------------------------------------------------------------------------
(* The clients.  Every change is an edge.                                  *)

ClientConnects(c) ==
  /\ spc \in {"serving", "close_server"}
  /\ peer[c] = "none"
  /\ \A d \in Conns : d < c => peer[d] # "none"
  /\ peer' = [peer EXCEPT ![c] = "open"]
  /\ ready' = ready \cup {Listener}
  /\ StopKept /\ WorkersKept /\ UNCHANGED <<registered, inbox>>

Edge(c) == ready' = IF c \in registered THEN ready \cup {c} ELSE ready

\* Into the backlog or to a connection still open here.
Reachable(c) == c \in Backlog \/ Open(c)

ClientSends(c) ==
  /\ Reachable(c) /\ peer[c] = "open"
  /\ inbox[c] < MaxData
  /\ inbox' = [inbox EXCEPT ![c] = @ + 1]
  /\ Edge(c)
  /\ StopKept /\ WorkersKept /\ UNCHANGED <<registered, peer>>

\* An orderly end, or a reset, with which unread data is gone.
ClientHangsUp(c) ==
  /\ Reachable(c) /\ peer[c] = "open"
  /\ \/ peer' = [peer EXCEPT ![c] = "fin"] /\ UNCHANGED inbox
     \/ peer' = [peer EXCEPT ![c] = "rst"] /\ inbox' = [inbox EXCEPT ![c] = 0]
  /\ Edge(c)
  /\ StopKept /\ WorkersKept /\ UNCHANGED registered

Stopped == spc = "stopped" /\ UNCHANGED vars

Next ==
  \/ \E t \in Threads : WorkerStep(t)
  \/ StopBegins \/ StopCloses \/ StopJoins
  \/ \E c \in Conns : ClientConnects(c) \/ ClientSends(c) \/ ClientHangsUp(c)
  \/ Stopped

SafetySpec == Init /\ [][Next]_vars

\* Threads are scheduled, and stop() finishes; the clients need do nothing.
Spec ==
  /\ SafetySpec
  /\ \A t \in Threads : WF_vars(WorkerStep(t))
  /\ WF_vars(StopCloses \/ StopJoins)

-----------------------------------------------------------------------------
(* What the connections are to ConnectionLife.  The server does not        *)
(* implement it: two threads can close one number, the second time under   *)
(* the connection that has it by then (main.cpp:184-188).                  *)

stage ==
  [c \in Conns |->
     IF Open(c) THEN "open"
     ELSE IF c \in Backlog THEN "backlog"
     ELSE IF peer[c] = "none" THEN "new"
     ELSE "closed"]

gone == [c \in Conns |-> HungUp(c)]

Life == INSTANCE ConnectionLife WITH halting <- ~running

-----------------------------------------------------------------------------
(* An edge is reported once, to one thread: what it does not read nobody   *)
(* will, until the next edge.                                              *)

\* The thread t will still look at what is behind the descriptor f.
Attends(t, f) ==
  \/ f \in events[t]
  \/ client_fd[t] = f /\ pc[t] \in {"add", "refuse", "read", "close"}

\* Data, or the end of a client, never lie unread with nobody to notice: the
\* connection is on the ready list, or a thread has it in hand or in its
\* batch.  So the drain to EAGAIN (main.cpp:173-190) is far enough, whichever
\* thread gets which edge and whoever closed the number before.
NothingStranded ==
  running =>
    \A f \in Fds : file[f] # None /\ Pending(file[f]) =>
      file[f] \in ready \/ \E t \in Threads : Attends(t, f)

\* Nor does a connection in the backlog (main.cpp:146-155), unless accept4 has
\* failed: then it waits for the next client.
BacklogAttended ==
  running /\ Backlog # {} =>
    \/ refused \/ Listener \in ready
    \/ \E t \in Threads : Listener \in events[t] \/ pc[t] \in {"accept", "add", "refuse"}

\* That is the only way in which a running server breaks what ConnectionLife
\* promises (main.cpp:184-188): it closes a client that is still there only if a
\* close() or an ADD of a thread that meant an earlier connection of the same
\* number has hit it, and not because of an error of its own, an edge reported
\* to two threads, or another connection's end.
LifeButForHits ==
  [][\/ Life!Next
     \/ \E c \in hit' : stage[c] = "open" /\ stage' = [stage EXCEPT ![c] = "closed"]
    ]_<<stage, gone, running>>

\* A client that has hung up is closed in the end, unless another one that
\* never pauses keeps a worker in its drain (main.cpp:173-180).
HangupReaped ==
  (\A t \in Threads : []<>(pc[t] # "read")) =>
    \A c \in Conns :
      c <= accepted /\ HungUp(c) ~> ~Open(c) \/ ~running

\* stop() returns: every worker gets out of its loops, though closing the
\* epoll wakes nobody (main.cpp:94).
StopReturns == ~running ~> spc = "stopped"
=============================================================================
