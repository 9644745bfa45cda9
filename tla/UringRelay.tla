----------------------------- MODULE UringRelay -----------------------------
(***************************************************************************)
(* UringBidirectionalRelay of mync (src/mync/io_uring.h): one thread that  *)
(* submits reads and accepts to an io_uring and handles their completions. *)
(*                                                                         *)
(* A request is known by the number it reads from, because the number says *)
(* what it is: Stdin, Sock (an accept in listen mode, a read of the        *)
(* connection in client mode), Timer, or the number of a client.  The      *)
(* kernel holds a request in flying until it puts the result into cqe;     *)
(* the relay takes the results in any order, one handler a step.  A        *)
(* handler has nobody to race with: it and the submit at its end are one   *)
(* step.  At most three entries are prepared between two submits, so the   *)
(* submission ring of 64 always has room.                                  *)
(***************************************************************************)
EXTENDS Integers, FiniteSets

CONSTANTS
  Conns,     \* connections peers may open to the listening socket
  MaxFd,     \* the largest descriptor number
  MaxData,   \* chunks a peer may have sent and not been read yet
  MaxLines,  \* lines typed and not read yet
  None       \* no connection, no number

ASSUME RelayAssumption ==
  /\ Conns # {} /\ None \notin Conns /\ None \notin Int
  /\ MaxFd \in Nat /\ MaxFd >= 3
  /\ MaxData \in Nat /\ MaxLines \in Nat

Stdin == 0
Sock  == 1
Timer == 2
ClientFds == 3 .. MaxFd
Fds       == 0 .. MaxFd

VARIABLES
  is_listen, stdin_closed, socket_closed, timer_ok, clients,
  exec,     \* "run", then "left" (destroyed) or "thrown"
  flying,   \* number -> requests the kernel holds for it
  cqe,      \* number -> result that waits in the completion ring
  accepted, \* the new number in the result of an accept
  conn,     \* number -> connection behind it
  backlog, peer, inbox,
  lines, tty

uring   == <<flying, cqe, accepted>>
flags   == <<is_listen, stdin_closed, socket_closed, timer_ok>>
network == <<backlog, peer, inbox>>
vars == <<flags, clients, exec, uring, conn, network, lines, tty>>

-----------------------------------------------------------------------------
\* setup_uring() in listen_mode_iouring and client_mode_iouring: stdin, then
\* an accept and the timer, or a read of the connection.  create_timer() may
\* have failed.  In client mode connect() has succeeded.
Init ==
  /\ is_listen \in BOOLEAN
  /\ timer_ok \in (IF is_listen THEN BOOLEAN ELSE {FALSE})
  /\ stdin_closed = FALSE /\ socket_closed = FALSE
  /\ clients = {} /\ exec = "run"
  /\ flying = [f \in Fds |-> IF f \in {Stdin, Sock} \/ (f = Timer /\ timer_ok)
                               THEN 1 ELSE 0]
  /\ cqe = [f \in Fds |-> "none"] /\ accepted = None
  /\ \E server \in Conns :
       /\ conn = [f \in Fds |-> IF f = Sock /\ ~is_listen THEN server ELSE None]
       /\ peer = [c \in Conns |-> IF ~is_listen /\ c = server THEN "open" ELSE "new"]
  /\ backlog = {} /\ inbox = [c \in Conns |-> 0]
  /\ lines = 0 /\ tty = "open"

-----------------------------------------------------------------------------
(* The peers and the user.                                                 *)

PeerStep(c) ==
  /\ \/ /\ peer[c] = "new" /\ is_listen
        /\ peer' = [peer EXCEPT ![c] = "open"]
        /\ backlog' = backlog \cup {c} /\ UNCHANGED inbox
     \/ /\ peer[c] = "open" /\ inbox[c] < MaxData
        /\ inbox' = [inbox EXCEPT ![c] = @ + 1] /\ UNCHANGED <<peer, backlog>>
     \/ /\ peer[c] = "open"
        /\ peer' = [peer EXCEPT ![c] = "closed"] /\ UNCHANGED <<inbox, backlog>>
     \/ /\ peer[c] = "open"
        /\ peer' = [peer EXCEPT ![c] = "reset"]
        /\ inbox' = [inbox EXCEPT ![c] = 0] /\ UNCHANGED backlog
  /\ UNCHANGED <<flags, clients, exec, uring, conn, lines, tty>>

UserStep ==
  /\ tty = "open"
  /\ \/ lines < MaxLines /\ lines' = lines + 1 /\ UNCHANGED tty
     \/ tty' \in {"eof", "error"} /\ UNCHANGED lines
  /\ UNCHANGED <<flags, clients, exec, uring, conn, network>>

-----------------------------------------------------------------------------
(* The kernel: a request that is held gets its result.                     *)

Complete(f, res) ==
  /\ exec = "run"
  /\ flying[f] > 0 /\ cqe[f] = "none"
  /\ flying' = [flying EXCEPT ![f] = @ - 1]
  /\ cqe' = [cqe EXCEPT ![f] = res]

StdinReady ==
  /\ \/ lines > 0 /\ Complete(Stdin, "data")
     \/ lines = 0 /\ tty # "open" /\ Complete(Stdin, tty)
  /\ lines' = 0
  /\ UNCHANGED <<flags, clients, exec, accepted, conn, network, tty>>

\* recv on a connection: data first, then the end or the error.
SocketReady(f) ==
  /\ conn[f] # None
  /\ LET c == conn[f] IN
     /\ \/ inbox[c] > 0 /\ Complete(f, "data")
        \/ inbox[c] = 0 /\ peer[c] = "closed" /\ Complete(f, "eof")
        \/ peer[c] = "reset" /\ Complete(f, "error")
     /\ inbox' = [inbox EXCEPT ![c] = 0]
  /\ UNCHANGED <<flags, clients, exec, accepted, conn, backlog, peer, lines, tty>>

\* accept: a number that is not in use stands for the connection at once.
AcceptReady ==
  /\ is_listen
  /\ Complete(Sock, "conn")
  /\ \E c \in backlog, f \in {g \in ClientFds : conn[g] = None} :
       /\ conn' = [conn EXCEPT ![f] = c] /\ accepted' = f
       /\ backlog' = backlog \ {c}
  /\ UNCHANGED <<flags, clients, exec, peer, inbox, lines, tty>>

\* accept fails: EAGAIN of the non-blocking socket, EMFILE, ECONNABORTED.
AcceptError ==
  /\ is_listen /\ Complete(Sock, "error")
  /\ UNCHANGED <<flags, clients, exec, accepted, conn, network, lines, tty>>

\* The timer: it has expired, or the read of the non-blocking descriptor has
\* come back with EAGAIN, which the handler tells apart only for its output.
TimerReady ==
  /\ Complete(Timer, "data")
  /\ UNCHANGED <<flags, clients, exec, accepted, conn, network, lines, tty>>

-----------------------------------------------------------------------------
(* The relay.                                                              *)

\* exec(): the loop runs while neither flag is set; a completion is taken.
Takes(f) ==
  /\ exec = "run" /\ ~stdin_closed /\ ~socket_closed
  /\ cqe[f] # "none"
  /\ cqe' = [cqe EXCEPT ![f] = "none"]

\* submit_*_read, submit_accept and io_uring_submit.
Submit(fs) == flying' = [f \in Fds |-> flying[f] + (IF f \in fs THEN 1 ELSE 0)]

\* remove_client for every number of ended: close and erase.
RemoveClients(ended) ==
  /\ conn' = [f \in Fds |-> IF f \in ended \cap clients THEN None ELSE conn[f]]
  /\ clients' = clients \ ended

HandleStdin_Drop ==
  /\ Takes(Stdin)
  /\ stdin_closed' = (cqe[Stdin] # "data")
  /\ Submit(IF stdin_closed' THEN {} ELSE {Stdin})
  /\ RemoveClients({f \in clients : peer[conn[f]] = "reset"})
  /\ UNCHANGED <<is_listen, socket_closed, timer_ok, exec, accepted, network,
                 lines, tty>>

HandleStdin_Deaf ==
  /\ Takes(Stdin) /\ Submit({Stdin})
  /\ UNCHANGED <<flags, clients, exec, accepted, conn, network, lines, tty>>

\* handle_stdin_read: a line goes to all clients or to the server.  A client
\* whose send fails is kept: its own read will find out.  A send to the server
\* that fails or is short closes; so do the end of the input and an error.
HandleStdin ==
  /\ Takes(Stdin)
  /\ \/ cqe[Stdin] = "data" /\ UNCHANGED <<stdin_closed, socket_closed>>
     \/ /\ cqe[Stdin] = "data" /\ ~is_listen
        /\ socket_closed' = TRUE /\ UNCHANGED stdin_closed
     \/ /\ cqe[Stdin] \in {"eof", "error"}
        /\ stdin_closed' = TRUE /\ UNCHANGED socket_closed
  /\ Submit(IF stdin_closed' THEN {} ELSE {Stdin})
  /\ UNCHANGED <<is_listen, timer_ok, clients, exec, accepted, conn, network,
                 lines, tty>>

\* handle_socket_read: what the server sent is printed.
HandleSocket ==
  /\ ~is_listen /\ Takes(Sock)
  /\ socket_closed' = (cqe[Sock] # "data")
  /\ Submit(IF socket_closed' THEN {} ELSE {Sock})
  /\ UNCHANGED <<is_listen, stdin_closed, timer_ok, clients, exec, accepted, conn,
                 network, lines, tty>>

HandleAccept_Once ==
  /\ is_listen /\ Takes(Sock)
  /\ clients' = clients \cup ({accepted} \ {None})
  /\ Submit(({accepted} \ {None}) \cup (IF accepted = None THEN {} ELSE {Sock}))
  /\ accepted' = None
  /\ UNCHANGED <<flags, exec, conn, network, lines, tty>>

\* handle_accept: a new client and its first read; the accept again, also
\* after an error.
HandleAccept ==
  /\ is_listen /\ Takes(Sock)
  /\ clients' = clients \cup ({accepted} \ {None})
  /\ Submit({Sock, accepted} \ {None})
  /\ accepted' = None
  /\ UNCHANGED <<flags, exec, conn, network, lines, tty>>

\* handle_timer_read: statistics, and the timer again.
HandleTimer ==
  /\ Takes(Timer) /\ Submit({Timer})
  /\ UNCHANGED <<flags, clients, exec, accepted, conn, network, lines, tty>>

HandleClient_Forget(f) ==
  /\ Takes(f)
  /\ IF cqe[f] = "data"
       THEN Submit({f} \cap clients) /\ UNCHANGED <<clients, conn>>
       ELSE Submit({}) /\ clients' = clients \ {f} /\ UNCHANGED conn
  /\ UNCHANGED <<flags, exec, accepted, network, lines, tty>>

HandleClient_Quiet(f) ==
  /\ Takes(f) /\ Submit({})
  /\ RemoveClients(IF cqe[f] = "data" THEN {} ELSE {f})
  /\ UNCHANGED <<flags, exec, accepted, network, lines, tty>>

\* handle_client_read: data is printed and the read submitted again; the end
\* or an error removes the client.  A number that is no client is ignored.
HandleClient(f) ==
  /\ Takes(f)
  /\ Submit(IF cqe[f] = "data" THEN {f} \cap clients ELSE {})
  /\ RemoveClients(IF cqe[f] = "data" THEN {} ELSE {f})
  /\ UNCHANGED <<flags, exec, accepted, network, lines, tty>>

\* The end of exec and ~UringBidirectionalRelay: the clients are closed, the
\* ring is torn down with what it still holds.
Leave ==
  /\ exec = "run" /\ (stdin_closed \/ socket_closed)
  /\ exec' = "left"
  /\ RemoveClients(clients)
  /\ flying' = [f \in Fds |-> 0] /\ cqe' = [f \in Fds |-> "none"]
  /\ UNCHANGED <<flags, accepted, network, lines, tty>>

\* io_uring_wait_cqe returns -EINTR and errno, which liburing does not set,
\* is something else: exec throws.  (When it is EINTR the loop goes on.)
Interrupted ==
  /\ exec = "run" /\ ~stdin_closed /\ ~socket_closed
  /\ exec' = "thrown"
  /\ UNCHANGED <<flags, clients, uring, conn, network, lines, tty>>

Relay == \/ HandleStdin \/ HandleSocket \/ HandleAccept \/ HandleTimer
         \/ \E f \in ClientFds : HandleClient(f)
         \/ Leave \/ Interrupted

Kernel == \/ StdinReady \/ AcceptReady \/ AcceptError \/ TimerReady
          \/ \E f \in ClientFds : SocketReady(f)
          \/ ~is_listen /\ SocketReady(Sock)

Next == (\E c \in Conns : PeerStep(c)) \/ UserStep \/ Kernel \/ Relay

\* The completion ring is a queue, so no result waits for ever; the kernel
\* completes what can be completed.  No fairness for the peers, the user, a
\* signal, or the errors of accept.
Spec ==
  /\ Init /\ [][Next]_vars
  /\ WF_vars(StdinReady) /\ WF_vars(SocketReady(Sock))
  /\ WF_vars(HandleStdin) /\ WF_vars(HandleSocket) /\ WF_vars(HandleAccept)
  /\ WF_vars(Leave)
  /\ \A f \in ClientFds : WF_vars(SocketReady(f)) /\ WF_vars(HandleClient(f))

-----------------------------------------------------------------------------
(* Properties.                                                             *)

Results == {"none", "data", "conn", "eof", "error"}

\* Every variable keeps its type.
TypeOK ==
  /\ {is_listen, stdin_closed, socket_closed, timer_ok} \subseteq BOOLEAN
  /\ clients \subseteq ClientFds
  /\ exec \in {"run", "left", "thrown"}
  /\ flying \in [Fds -> Nat] /\ cqe \in [Fds -> Results]
  /\ accepted \in ClientFds \cup {None}
  /\ conn \in [Fds -> Conns \cup {None}]
  /\ backlog \subseteq Conns
  /\ peer \in [Conns -> {"new", "open", "closed", "reset"}]
  /\ inbox \in [Conns -> 0 .. MaxData]
  /\ lines \in 0 .. MaxLines /\ tty \in {"open", "eof", "error"}

\* Requests alive for a number: with the kernel, or as a result not taken.
Alive(f) == flying[f] + (IF cqe[f] = "none" THEN 0 ELSE 1)

\* A client has exactly one read alive, and a number that is no client has
\* none: remove_client never closes a number the kernel still reads from, so
\* no result of an old connection reaches a new one with its number, and two
\* reads never split the bytes of one client.
OneReadPerClient ==
  \A f \in ClientFds : Alive(f) = IF f \in clients THEN 1 ELSE 0

\* While the loop waits it has a read of stdin, an accept (or the read of
\* the connection) and the timer alive: nothing it answers is left unarmed.
AlwaysArmed ==
  exec = "run" /\ ~stdin_closed /\ ~socket_closed =>
    \A f \in {Stdin, Sock} \cup (IF timer_ok THEN {Timer} ELSE {}) : Alive(f) = 1

\* A number is in use exactly as long as it is a client or the result of an
\* accept that was not taken: no handler loses a descriptor, and none is
\* closed under a client or given twice.
DescriptorsOwned ==
  /\ accepted \notin clients
  /\ \A f \in ClientFds : conn[f] # None <=> f \in clients \/ f = accepted

\* The refinement mapping to ConnectionLife: a connection that was accepted is
\* open while a number stands for it.  The one of client mode is not accepted
\* and takes no part.
stage ==
  [c \in Conns |->
     IF \E f \in ClientFds : conn[f] = c THEN "open"
     ELSE IF c \in backlog THEN "backlog"
     ELSE IF peer[c] = "new" \/ ~is_listen THEN "new"
     ELSE "closed"]

gone == [c \in Conns |-> is_listen /\ peer[c] \in {"closed", "reset"}]

halting == stdin_closed \/ socket_closed \/ exec # "run"

Life == INSTANCE ConnectionLife

\* handle_client_read closes the client that ended and no other, although the
\* end is a completion that waits in the ring while numbers are closed and
\* given again; and a client whose peer has gone is closed, as long as exec
\* runs.
ImplementsLife == Life!Spec

\* The end of the input, and in client mode the end of the connection, end
\* the relay.
EndReached ==
  /\ tty # "open" ~> exec # "run"
  /\ ~is_listen /\ (\E c \in Conns : peer[c] \in {"closed", "reset"}) ~> exec # "run"
=============================================================================
