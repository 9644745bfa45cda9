---------------------------- MODULE NetlibClient ----------------------------
(***************************************************************************)
(* The client of src/netlib: SinglethreadClient (client.cpp) on top of     *)
(* ClientLightEpoll and IEpoll (epoll.cpp).  The application thread calls  *)
(* connect and disconnect; every start_handle starts a handler thread that *)
(* runs exec.  They share socket_, need_stop_ and state_ without a lock: a *)
(* step is what a thread does between two accesses that another thread can *)
(* notice.  What is sent and queued is left out.                           *)
(*                                                                         *)
(* The kernel's side: the descriptor table, of which socket() takes the    *)
(* least free entry; what epoll was told to watch; and what the peer of    *)
(* each connection has sent and whether it has hung up.  The socket is a   *)
(* blocking one.                                                           *)
(*                                                                         *)
(* X_Flaw, before a definition X, is X with a plausible mistake in it.     *)
(***************************************************************************)
EXTENDS Integers, FiniteSets

CONSTANTS
  MaxConnects,   \* connections (bound)
  MaxData,       \* unread chunks on a connection (bound)
  Polls          \* does the application look at the state before connect()?

ASSUME BoundsAssumption ==
  MaxConnects \in Nat /\ MaxData \in Nat /\ Polls \in BOOLEAN

VARIABLES
  state_, socket_, need_stop_, handleth_,
  apc, sock,         \* the application thread; connect()'s local variable
  connects,          \* connections so far
  hpc, hconn,        \* each handler thread; the connection it is busy with
  hbatch,            \* the events of its last epoll_wait not yet handled
  file,              \* the connection behind each descriptor
  registered,        \* connections given to epoll_ctl
  inbox, peer,       \* unread chunks, and the other end, of each connection
  proc,              \* the process
  paired,            \* history: no connect() was called while the handler
                     \* thread of an earlier one had not been joined
  stray              \* history: connections open when their add_fd failed

vars == <<state_, socket_, need_stop_, handleth_, apc, sock, connects,
          hpc, hconn, hbatch, file, registered, inbox, peer, proc,
          paired, stray>>
handlers == <<hpc, hconn, hbatch>>
history  == <<paired, stray>>
network  == <<inbox, peer>>

Conns    == 1..MaxConnects
Handlers == Conns         \* the thread started for each connection
Fds      == Conns         \* at least as many as are ever open
NoSocket == -1
None     == 0             \* no connection, no thread
Events   == [conn : Conns, hup : BOOLEAN]
MaxEvents == 4            \* of one epoll_wait

TypeOK ==
  /\ state_ \in {"DISCONNECTED", "WAITING", "ERROR"}
  /\ socket_ \in Fds \cup {NoSocket}
  /\ need_stop_ \in BOOLEAN
  /\ handleth_ \in Handlers \cup {None}
  /\ apc \in {"idle", "start", "store", "stop", "close", "unset"}
  /\ sock \in Fds \cup {NoSocket}
  /\ connects \in 0..MaxConnects
  /\ hpc \in [Handlers -> {"none", "loop", "wait", "read", "recv", "eof",
                            "eof_unset", "hup", "hup_unset", "notify", "exited"}]
  /\ hconn \in [Handlers -> Conns \cup {None}]
  /\ hbatch \in [Handlers -> SUBSET Events]
  /\ file \in [Fds -> Conns \cup {None}]
  /\ registered \in SUBSET Conns
  /\ inbox \in [Conns -> 0..MaxData]
  /\ peer \in [Conns -> {"none", "open", "fin", "rst"}]
  /\ proc \in {"running", "terminated"}
  /\ paired \in BOOLEAN
  /\ stray \in SUBSET Conns

Init ==
  /\ state_ = "DISCONNECTED" /\ socket_ = NoSocket
  /\ need_stop_ = FALSE /\ handleth_ = None
  /\ apc = "idle" /\ sock = NoSocket /\ connects = 0
  /\ hpc = [h \in Handlers |-> "none"] /\ hconn = [h \in Handlers |-> None]
  /\ hbatch = [h \in Handlers |-> {}]
  /\ file = [f \in Fds |-> None] /\ registered = {}
  /\ inbox = [c \in Conns |-> 0] /\ peer = [c \in Conns |-> "none"]
  /\ proc = "running" /\ paired = TRUE /\ stray = {}

\* The connection behind socket_ at this moment.
Behind == IF socket_ = NoSocket THEN None ELSE file[socket_]

\* close(socket_); closing what is not open is EBADF, which nobody looks at.
CloseSocket == file' = [f \in Fds |-> IF f = socket_ THEN None ELSE file[f]]

\* A connection lives, in the epoll too, as long as a descriptor, or a thread
\* inside recv, refers to it.
Open(c) ==
  \/ \E f \in Fds : file[f] = c
  \/ \E h \in Handlers : hpc[h] = "recv" /\ hconn[h] = c

HungUp(c) == peer[c] \in {"fin", "rst"}
Ready(c)  == c \in registered /\ Open(c) /\ (inbox[c] > 0 \/ HungUp(c))

-----------------------------------------------------------------------------
(* connect().                                                              *)

\* A polling application calls it when there is no connection.
MayConnect == apc = "idle" /\ (Polls => state_ # "WAITING")

ConnectFails ==
  /\ MayConnect
  /\ state_' = "ERROR"
  /\ paired' = (paired /\ handleth_ = None)
  /\ UNCHANGED <<socket_, need_stop_, handleth_, apc, sock, connects, handlers,
                 file, registered, network, proc, stray>>

\* The state before start_handle: HANDSHAKE, at once overwritten by WAITING.
Connect ==
  /\ MayConnect
  /\ connects < MaxConnects
  /\ connects' = connects + 1
  /\ \E f \in Fds :
       /\ file[f] = None
       /\ \A g \in Fds : g < f => file[g] # None
       /\ sock' = f
       /\ file' = [file EXCEPT ![f] = connects + 1]
  /\ peer' = [peer EXCEPT ![connects + 1] = "open"]
  /\ state_' = "WAITING"
  /\ paired' = (paired /\ handleth_ = None)
  /\ apc' = "start"
  /\ UNCHANGED <<socket_, need_stop_, handleth_, handlers, registered, inbox, proc,
                 stray>>

\* start_handle with a socket in use throws; main catches it and exits.
StartHandleThrows ==
  /\ apc = "start"
  /\ socket_ # NoSocket
  /\ proc' = "terminated"
  /\ UNCHANGED <<state_, socket_, need_stop_, handleth_, apc, sock, connects,
                 handlers, file, registered, network, history>>

\* start_handle returns without a trace; sock stays open and is forgotten, if
\* it still is open: a forgotten handler may have closed its number.
AddFdFails ==
  /\ apc = "start"
  /\ socket_ = NoSocket
  /\ stray' = stray \cup ({file[sock]} \ {None})
  /\ apc' = "idle"
  /\ sock' = NoSocket
  /\ UNCHANGED <<state_, socket_, need_stop_, handleth_, connects,
                 handlers, file, registered, network, proc, paired>>

AddFd ==
  /\ apc = "start"
  /\ socket_ = NoSocket
  /\ file[sock] # None
  /\ registered' = registered \cup {file[sock]}
  /\ apc' = "store"
  /\ UNCHANGED <<state_, socket_, need_stop_, handleth_, sock, connects,
                 handlers, file, network, proc, history>>

\* A new thread; the one handleth_ pointed to, if any, goes on.
Spawn ==
  /\ apc = "store"
  /\ socket_' = sock
  /\ sock' = NoSocket
  /\ handleth_' = connects
  /\ hpc' = [hpc EXCEPT ![connects] = "loop"]
  /\ apc' = "idle"
  /\ UNCHANGED <<state_, need_stop_, connects, hconn, hbatch, file, registered,
                 network, proc, history>>

-----------------------------------------------------------------------------
(* disconnect(), which may be called at any time.                          *)

\* need_stop_ is never reset.
Disconnect ==
  /\ apc = "idle"
  /\ state_' = "DISCONNECTED"
  /\ need_stop_' = TRUE
  /\ apc' = "stop"
  /\ UNCHANGED <<socket_, handleth_, sock, connects, handlers, file, registered,
                 network, proc, history>>

\* The thread is forgotten instead of joined.
Join_Detach ==
  /\ apc = "stop"
  /\ handleth_' = None
  /\ apc' = "close"
  /\ UNCHANGED <<state_, socket_, need_stop_, sock, connects, handlers, file,
                 registered, network, proc, history>>

\* Only the thread that handleth_ points to is joined.
Join ==
  /\ apc = "stop"
  /\ handleth_ # None => hpc[handleth_] = "exited"
  /\ handleth_' = None
  /\ apc' = "close"
  /\ UNCHANGED <<state_, socket_, need_stop_, sock, connects, handlers, file,
                 registered, network, proc, history>>

\* As the handler does after a hang-up, which is not here to close it.
StopClose_Leak ==
  /\ apc = "close"
  /\ apc' = "unset"
  /\ UNCHANGED <<state_, socket_, need_stop_, handleth_, sock, connects, handlers,
                 file, registered, network, proc, history>>

StopClose ==
  /\ apc = "close"
  /\ CloseSocket
  /\ apc' = "unset"
  /\ UNCHANGED <<state_, socket_, need_stop_, handleth_, sock, connects, handlers,
                 registered, network, proc, history>>

StopUnset ==
  /\ apc = "unset"
  /\ socket_' = NoSocket
  /\ apc' = "idle"
  /\ UNCHANGED <<state_, need_stop_, handleth_, sock, connects, handlers, file,
                 registered, network, proc, history>>

AppProceeds ==
  StartHandleThrows \/ AddFdFails \/ AddFd \/ Spawn \/ Join \/ StopClose \/ StopUnset

-----------------------------------------------------------------------------
(* A handler thread: exec, on_epoll_event, handle_socket_data.             *)

\* A handler's step from one place to another, with what it leaves alone.
Go(h, from, to) == hpc[h] = from /\ hpc' = [hpc EXCEPT ![h] = to]
AppKept ==
  UNCHANGED <<need_stop_, handleth_, apc, sock, connects, registered, peer, history>>

\* The loop goes on after a stop.
Leave_Never(h) ==
  /\ hbatch[h] = {}
  /\ Go(h, "loop", "wait")
  /\ AppKept /\ UNCHANGED <<state_, socket_, hconn, hbatch, file, inbox, proc>>

\* The loop's condition, when the events of the last epoll_wait are handled.
Leave(h) ==
  /\ hbatch[h] = {} /\ need_stop_
  /\ Go(h, "loop", "exited")
  /\ AppKept /\ UNCHANGED <<state_, socket_, hconn, hbatch, file, inbox, proc>>

LoopGoesOn(h) ==
  /\ hbatch[h] = {} /\ ~need_stop_
  /\ Go(h, "loop", "wait")
  /\ AppKept /\ UNCHANGED <<state_, socket_, hconn, hbatch, file, inbox, proc>>

\* epoll_wait returns what is ready, and nothing after 100 ms without any.
Wait(h) ==
  /\ Go(h, "wait", "loop")
  /\ \E C \in SUBSET {c \in Conns : Ready(c)} :
       /\ Cardinality(C) <= MaxEvents
       /\ C = {} => \A c \in Conns : ~Ready(c)
       /\ hbatch' = [hbatch EXCEPT ![h] = {[conn |-> c, hup |-> HungUp(c)] : c \in C}]
  /\ AppKept /\ UNCHANGED <<state_, socket_, hconn, file, inbox, proc>>

\* A hang-up is left to the end of the data.
Event_DataFirst(h) ==
  \E e \in hbatch[h] :
    /\ Go(h, "loop", IF need_stop_ THEN "loop" ELSE "read")
    /\ hbatch' = [hbatch EXCEPT ![h] = @ \ {e}]
    /\ hconn' = [hconn EXCEPT ![h] = IF need_stop_ THEN None ELSE e.conn]
    /\ AppKept /\ UNCHANGED <<state_, socket_, file, inbox, proc>>

\* The callback tests need_stop_ again and drops the event if it is set.
\* EPOLLIN is not looked for: what is no hang-up must be data.
Event(h) ==
  \E e \in hbatch[h] :
    /\ Go(h, "loop", IF need_stop_ THEN "loop" ELSE IF e.hup THEN "hup" ELSE "read")
    /\ hbatch' = [hbatch EXCEPT ![h] = @ \ {e}]
    /\ hconn' = [hconn EXCEPT ![h] = IF need_stop_ THEN None ELSE e.conn]
    /\ AppKept /\ UNCHANGED <<state_, socket_, file, inbox, proc>>

\* close(socket_), after a hang-up or at the end of the stream.
Close(h) ==
  /\ Go(h, "hup", "hup_unset") \/ Go(h, "eof", "eof_unset")
  /\ CloseSocket
  /\ hconn' = [hconn EXCEPT ![h] = None]
  /\ AppKept /\ UNCHANGED <<state_, socket_, hbatch, inbox, proc>>

\* The facade is never told.
Unset_Silent(h) ==
  /\ Go(h, "hup_unset", "loop") \/ Go(h, "eof_unset", "loop")
  /\ socket_' = NoSocket
  /\ AppKept /\ UNCHANGED <<state_, hconn, hbatch, file, inbox, proc>>

\* socket_ = -1; only after a hang-up the facade is told.
Unset(h) ==
  /\ Go(h, "hup_unset", "notify") \/ Go(h, "eof_unset", "loop")
  /\ socket_' = NoSocket
  /\ AppKept /\ UNCHANGED <<state_, hconn, hbatch, file, inbox, proc>>

\* onEvent(Disconnected): need_reconnect_ is never set.
Notify(h) ==
  /\ Go(h, "notify", "loop")
  /\ state_' = "DISCONNECTED"
  /\ AppKept /\ UNCHANGED <<socket_, hconn, hbatch, file, inbox, proc>>

\* recv is called with whatever socket_ is now.
Recv(h) ==
  /\ Behind # None
  /\ Go(h, "read", "recv")
  /\ hconn' = [hconn EXCEPT ![h] = Behind]
  /\ AppKept /\ UNCHANGED <<state_, socket_, hbatch, file, inbox, proc>>

\* recv returns: all the data, or the end; otherwise it blocks.
Received(h) ==
  /\ hpc[h] = "recv"
  /\ \/ inbox[hconn[h]] > 0 /\ Go(h, "recv", "loop")
     \/ inbox[hconn[h]] = 0 /\ peer[hconn[h]] = "fin" /\ Go(h, "recv", "eof")
  /\ inbox' = [inbox EXCEPT ![hconn[h]] = 0]
  /\ hconn' = [hconn EXCEPT ![h] = None]
  /\ AppKept /\ UNCHANGED <<state_, socket_, hbatch, file, proc>>

\* recv fails: nothing catches the exception in a thread, std::terminate.
RecvThrows(h) ==
  /\ \/ hpc[h] = "read" /\ Behind = None
     \/ hpc[h] = "recv" /\ inbox[hconn[h]] = 0 /\ peer[hconn[h]] = "rst"
  /\ proc' = "terminated"
  /\ AppKept /\ UNCHANGED <<state_, socket_, handlers, file, inbox>>

HandlerStep(h) ==
  \/ Leave(h) \/ LoopGoesOn(h) \/ Wait(h) \/ Event(h)
  \/ Close(h) \/ Unset(h) \/ Notify(h) \/ Recv(h) \/ Received(h) \/ RecvThrows(h)

-----------------------------------------------------------------------------
(* The peers of open connections.                                          *)

PeerSends(c) ==
  /\ Open(c)
  /\ peer[c] = "open"
  /\ inbox[c] < MaxData
  /\ inbox' = [inbox EXCEPT ![c] = @ + 1]
  /\ UNCHANGED <<state_, socket_, need_stop_, handleth_, apc, sock, connects,
                 handlers, file, registered, peer, proc, history>>

\* An orderly end, or a reset.
PeerHangsUp(c) ==
  /\ Open(c)
  /\ peer[c] = "open"
  /\ \E how \in {"fin", "rst"} : peer' = [peer EXCEPT ![c] = how]
  /\ UNCHANGED <<state_, socket_, need_stop_, handleth_, apc, sock, connects,
                 handlers, file, registered, inbox, proc, history>>

Running ==
  /\ proc = "running"
  /\ \/ ConnectFails \/ Connect \/ Disconnect \/ AppProceeds
     \/ \E h \in Handlers : HandlerStep(h)
     \/ \E c \in Conns : PeerSends(c) \/ PeerHangsUp(c)

Terminated == proc = "terminated" /\ UNCHANGED vars

Next == Running \/ Terminated

SafetySpec == Init /\ [][Next]_vars

\* Threads are scheduled: the application finishes what it has begun, every
\* handler runs.  Peers need not do anything.
Spec ==
  /\ SafetySpec
  /\ WF_vars(proc = "running" /\ AppProceeds)
  /\ \A h \in Handlers : WF_vars(proc = "running" /\ HandlerStep(h))

-----------------------------------------------------------------------------
(* The properties with paired are about an application that calls          *)
(* disconnect() after a connect() that started a handler and before the    *)
(* next one, as the test does; HandlersEnd holds for every application.    *)

\* Every open descriptor is in socket_, in connect()'s hands, or left behind by
\* a failed add_fd, and socket_ is open but between close() and the assignment
\* after it: nothing else leaks, nothing is closed twice, and no close() hits
\* a descriptor left behind.
DescriptorsMatch ==
  paired =>
    /\ \A f \in Fds : file[f] # None /\ file[f] \notin stray =>
         f = socket_ \/ (apc \in {"start", "store"} /\ f = sock)
    /\ \A c \in stray : \E f \in Fds : f # socket_ /\ file[f] = c
    /\ Behind \notin stray
    /\ Behind = None /\ socket_ # NoSocket =>
         apc = "unset" \/ \E h \in Handlers : hpc[h] = "hup_unset"

\* What getClientState says to an application between two calls: WAITING
\* while there is a socket, otherwise DISCONNECTED or ERROR.  It is wrong only
\* while the news of a hang-up is under way, and after a failed add_fd, of
\* which the application is not told.
StateMatchesSocket ==
  paired /\ apc = "idle" =>
    IF state_ = "WAITING"
      THEN socket_ = NoSocket <=>
             connects \in stray \/ \E h \in Handlers : hpc[h] = "notify"
      ELSE socket_ = NoSocket

\* A handler in recv on the blocking socket has data to return with: recv
\* does not fail, and disconnect() need not wait for the peer.
RecvHasData ==
  paired => \A h \in Handlers : hpc[h] = "recv" => inbox[hconn[h]] > 0

\* A handler reads, and closes, only the connection its event was for.
ActsOnItsSocket ==
  paired => \A h \in Handlers : hpc[h] \in {"read", "hup"} => Behind = hconn[h]

\* When disconnect() has returned, no handler touches the client any more.
DisconnectIsFinal ==
  [][paired /\ need_stop_ /\ handleth_ = None /\ apc = "idle" /\ apc' = "idle"
       => UNCHANGED <<hpc, socket_, file>>]_vars

\* The application learns of a hang-up, if it has not called disconnect()
\* yet: later handlers leave their loop at once.
HangupNoticed ==
  \A c \in Conns :
    apc = "idle" /\ ~need_stop_ /\ Behind = c /\ HungUp(c)
      ~> state_ = "DISCONNECTED" \/ need_stop_ \/ ~paired

\* After disconnect() every handler ends, the forgotten ones too, unless it
\* is blocked in recv.
HandlersEnd ==
  \A h \in Handlers :
    need_stop_ /\ hpc[h] # "none"
      ~> hpc[h] \in {"exited", "recv"} \/ proc = "terminated"
=============================================================================
