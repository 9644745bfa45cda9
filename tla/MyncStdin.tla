------------------------------- MODULE MyncStdin -------------------------------
(***************************************************************************)
(* What mync does with its standard input (src/mync/main.cpp, utils.cpp    *)
(* and Epoll of epollserver.cpp), in the two modes main() chooses from:    *)
(*   client: one Epoll sends stdin to a socket and prints what it receives *)
(*   listen: the Epolls of the main thread and of every worker all watch   *)
(*           the same stdin (setup_epoll, line 175)                        *)
(* The clients of the listening mode are the subject of MyncServer; here   *)
(* only the one that gets the number 0 matters, after that was closed.     *)
(*                                                                         *)
(* Stdin is a terminal or a pipe, which epoll can watch (a file it cannot, *)
(* which MyncServer is about).  Its data and that of the socket are        *)
(* chunks, what one read() returns.  The end of a terminal's input (^D) is *)
(* taken by the one read() that gets it, the end of a pipe stays.          *)
(***************************************************************************)
EXTENDS Integers

CONSTANTS
  NumWorkers,  \* COUNT_HANDLER_THREADS
  MaxChunks    \* chunks that are typed; chunks the socket holds

ASSUME NumWorkersAssumption == NumWorkers \in Nat \ {0}
ASSUME MaxChunksAssumption  == MaxChunks \in Nat

Main    == 0
Workers == 1 .. NumWorkers
Threads == {Main} \cup Workers

VARIABLES
  mode, kind,   \* "client" or "listen"; stdin is a "tty" or a "pipe"
  typed, unread, ended, \* chunks put into stdin, and not yet read; ^D was
                        \* typed and not read, or the pipe has no writer
  zero, holder, \* the number 0 names "stdin", "none", or the "client" of holder
  sent, received, peer, \* the socket: chunks sent, chunks not yet read;
                        \* what the peer's end is: "open" or "closed"
  pc, batch,    \* threads, and the events of their last epoll_wait
  stdin_closed, socket_closed, g_should_stop,
  proc          \* "starting", "running", "exited", "threw"

input  == <<typed, unread, ended>>
number == <<zero, holder>>
socket == <<sent, received, peer>>
flags  == <<stdin_closed, socket_closed, g_should_stop>>
vars   == <<mode, kind, input, number, socket, pc, batch, flags, proc>>

Init ==
  /\ mode \in {"client", "listen"} /\ kind \in {"tty", "pipe"}
  /\ typed = 0 /\ unread = 0 /\ ended = FALSE
  /\ zero = "stdin" /\ holder = 1
  /\ sent = 0 /\ received = 0 /\ peer = "open"
  /\ pc = [t \in Threads |-> "none"] /\ batch = [t \in Threads |-> {}]
  /\ stdin_closed = [t \in Threads |-> FALSE] /\ socket_closed = FALSE
  /\ g_should_stop = FALSE /\ proc = "starting"

Running == proc = "running"

-----------------------------------------------------------------------------
(* The user, the writer of the pipe, the peer, and signals.                *)

\* Bounds: nothing is typed behind a ^D that was not read yet, and, in client
\* mode, none at all after it.
Type ==
  /\ typed < MaxChunks /\ ~ended /\ (mode = "client" => ~stdin_closed[Main])
  /\ typed' = typed + 1 /\ unread' = unread + 1
  /\ UNCHANGED <<mode, kind, ended, number, socket, pc, batch, flags, proc>>

EndInput ==
  /\ ~ended /\ ended' = TRUE
  /\ UNCHANGED <<mode, kind, typed, unread, number, socket, pc, batch, flags, proc>>

PeerSends ==
  /\ Running /\ mode = "client" /\ peer = "open" /\ received < MaxChunks
  /\ received' = received + 1
  /\ UNCHANGED <<mode, kind, input, number, sent, peer, pc, batch, flags, proc>>

PeerCloses ==
  /\ Running /\ mode = "client" /\ peer = "open" /\ peer' = "closed"
  /\ UNCHANGED <<mode, kind, input, number, sent, received, pc, batch, flags, proc>>

\* SIGINT or SIGTERM.  SA_RESTART: a thread in read() stays there.
StopSignal ==
  /\ Running /\ g_should_stop' = TRUE
  /\ UNCHANGED <<mode, kind, input, number, socket, pc, batch, stdin_closed,
                 socket_closed, proc>>

-----------------------------------------------------------------------------
(* main() and Epoll::exec().                                               *)

Exits ==
  /\ proc = "starting" /\ proc' = "exited"
  /\ UNCHANGED <<mode, kind, input, number, socket, pc, batch, flags>>

\* -h, or arguments that are too few, too many or no port.
BadArguments == Exits

\* The name is unknown, the port is in use, nobody listens.
CreateSocketFails == Exits

\* The Epolls are set up and their threads are in exec().
Start ==
  /\ proc = "starting" /\ proc' = "running"
  /\ pc' = [t \in Threads |-> IF t = Main \/ mode = "listen" THEN "poll" ELSE "none"]
  /\ UNCHANGED <<mode, kind, input, number, socket, batch, flags>>

\* What epoll_wait reports, a hang-up with or without data being a hang-up.
\* After close(0) the number, if a worker has a new client under it, has
\* that one's events.
StdinEvents(t) ==
  CASE zero = "stdin" /\ kind = "pipe" /\ ended -> {{"stdinHup"}}
    [] zero = "stdin" /\ ~(kind = "pipe" /\ ended) ->
         {IF unread > 0 \/ ended THEN {"stdinIn"} ELSE {}}
    [] zero = "client" /\ holder = t -> {{}, {"stdinIn"}, {"stdinHup"}}
    [] OTHER -> {{}}

SocketEvents ==
  IF mode = "listen" THEN {}
  ELSE IF peer = "closed" THEN {"sockHup"}
  ELSE IF received > 0 THEN {"sockIn"} ELSE {}

LoopEnds(t) == stdin_closed[t] \/ (t = Main /\ socket_closed) \/ g_should_stop

LoopGoesOn(t) ==
  /\ Running /\ pc[t] = "poll" /\ ~LoopEnds(t)
  /\ pc' = [pc EXCEPT ![t] = "wait"]
  /\ UNCHANGED <<mode, kind, input, number, socket, batch, flags, proc>>

\* epoll_wait() returns what there is, or nothing after 100 ms; no flag is
\* looked at again before the next round.
Wait(t) ==
  /\ Running /\ pc[t] = "wait"
  /\ \E evs \in StdinEvents(t) :
       batch' = [batch EXCEPT ![t] = evs \cup SocketEvents]
  /\ pc' = [pc EXCEPT ![t] = "dispatch"]
  /\ UNCHANGED <<mode, kind, input, number, socket, flags, proc>>

\* The next event of the batch, and the end of the batch.
Takes(t, e) ==
  /\ Running /\ pc[t] = "dispatch" /\ e \in batch[t]
  /\ batch' = [batch EXCEPT ![t] = @ \ {e}]

BatchDone(t) ==
  /\ Running /\ pc[t] = "dispatch" /\ batch[t] = {}
  /\ pc' = [pc EXCEPT ![t] = "poll"]
  /\ UNCHANGED <<mode, kind, input, number, socket, batch, flags, proc>>

\* The hang-up of a pipe: 0 is not sockfd, so remove_client(0) closes what
\* the number names by now.
StdinHup(t) ==
  /\ Takes(t, "stdinHup") /\ zero' = "none"
  /\ UNCHANGED <<mode, kind, input, holder, socket, pc, flags, proc>>

SocketHup_Removes(t) ==
  /\ Takes(t, "sockHup")
  /\ UNCHANGED <<mode, kind, input, number, socket, pc, flags, proc>>

SocketHup(t) ==
  /\ Takes(t, "sockHup") /\ socket_closed' = TRUE
  /\ UNCHANGED <<mode, kind, input, number, socket, pc, stdin_closed,
                 g_should_stop, proc>>

\* recv() and the write to stdout, either of which may fail.  (recv() returns
\* 0 only after a hang-up, which is looked at first.)
SocketData(t) ==
  /\ Takes(t, "sockIn")
  /\ \/ received' = received - 1 /\ UNCHANGED proc
     \/ proc' = "threw" /\ UNCHANGED received
  /\ UNCHANGED <<mode, kind, input, number, sent, peer, pc, flags>>

\* A chunk is read.  The client sends all of it or throws; main has no
\* clients to send it to; a worker sends it to sockfd, which is -1.
Chunk_Short(t) ==
  /\ unread > 0 /\ unread' = unread - 1
  /\ IF mode = "client" THEN sent' \in {sent, sent + 1} /\ UNCHANGED proc
     ELSE proc' = (IF t = Main THEN proc ELSE "threw") /\ UNCHANGED sent
  /\ UNCHANGED <<ended, stdin_closed>>

Chunk(t) ==
  /\ unread > 0 /\ unread' = unread - 1
  /\ \/ t = Main /\ sent' = (IF mode = "client" THEN sent + 1 ELSE sent)
          /\ UNCHANGED proc
     \/ (mode = "client" \/ t # Main) /\ proc' = "threw" /\ UNCHANGED sent
  /\ UNCHANGED <<ended, stdin_closed>>

\* read() returns 0: shutdown(sockfd, SHUT_WR).
EndOfInput(t) ==
  /\ unread = 0 /\ ended /\ ended' = (kind = "pipe")
  /\ stdin_closed' = [stdin_closed EXCEPT ![t] = TRUE]
  /\ UNCHANGED <<unread, sent, proc>>

ReadReturns(t) == Chunk(t) \/ EndOfInput(t)

\* handle_stdin() for an event of stdin, which another thread may have read
\* empty since.
Stdin(t) ==
  /\ Takes(t, "stdinIn") /\ zero = "stdin"
  /\ \/ ReadReturns(t) /\ UNCHANGED pc
     \/ /\ unread = 0 /\ ~ended /\ pc' = [pc EXCEPT ![t] = "blocked"]
        /\ UNCHANGED <<unread, ended, sent, stdin_closed, proc>>
  /\ UNCHANGED <<mode, kind, typed, number, received, peer, socket_closed,
                 g_should_stop>>

BlockedReadReturns(t) ==
  /\ Running /\ pc[t] = "blocked" /\ ReadReturns(t)
  /\ pc' = [pc EXCEPT ![t] = "dispatch"]
  /\ UNCHANGED <<mode, kind, typed, number, received, peer, batch,
                 socket_closed, g_should_stop>>

\* handle_stdin() after close(0): read() fails, or has a client's data,
\* which main sends to nobody and a worker to -1, or the client's end.
StdinIsNot(t) ==
  /\ Takes(t, "stdinIn") /\ zero # "stdin"
  /\ \/ proc' = "threw" /\ UNCHANGED stdin_closed
     \/ zero = "client" /\ t = Main /\ UNCHANGED <<proc, stdin_closed>>
     \/ zero = "client" /\ UNCHANGED proc
          /\ stdin_closed' = [stdin_closed EXCEPT ![t] = TRUE]
  /\ UNCHANGED <<mode, kind, input, number, socket, pc, socket_closed, g_should_stop>>

\* accept4() in the main thread gives the number 0, and a worker gets it.
AcceptZero ==
  /\ Running /\ mode = "listen" /\ zero = "none"
  /\ pc[Main] \in {"wait", "dispatch"}
  /\ zero' = "client" /\ holder' \in {w \in Workers : pc[w] # "gone"}
  /\ UNCHANGED <<mode, kind, input, socket, pc, batch, flags, proc>>

\* exec() returns: a worker deletes its Epoll, main joins the workers.
LeaveExec(t) ==
  /\ Running /\ pc[t] = "poll" /\ LoopEnds(t)
  /\ pc' = [pc EXCEPT ![t] = IF t = Main THEN "join" ELSE "fullstop"]
  /\ UNCHANGED <<mode, kind, input, number, socket, batch, flags, proc>>

Fullstop_Quiet(w) ==
  /\ Running /\ pc[w] = "fullstop" /\ pc' = [pc EXCEPT ![w] = "gone"]
  /\ zero' = IF zero = "client" /\ holder = w THEN "none" ELSE zero
  /\ UNCHANGED <<mode, kind, input, holder, socket, batch, flags, proc>>

\* ~Epoll(), fullstop(): the flag of all threads is set.
Fullstop(w) ==
  /\ Running /\ pc[w] = "fullstop" /\ pc' = [pc EXCEPT ![w] = "gone"]
  /\ g_should_stop' = TRUE
  /\ zero' = IF zero = "client" /\ holder = w THEN "none" ELSE zero
  /\ UNCHANGED <<mode, kind, input, holder, socket, batch, stdin_closed,
                 socket_closed, proc>>

\* ~MainEpoll() has joined, ~Epoll() closes the socket and main() returns.
Join ==
  /\ Running /\ pc[Main] = "join"
  /\ \A w \in Workers : pc[w] \in {"none", "gone"}
  /\ g_should_stop' = TRUE /\ proc' = "exited"
  /\ UNCHANGED <<mode, kind, input, number, socket, pc, batch, stdin_closed,
                 socket_closed>>

-----------------------------------------------------------------------------
Thread(t) ==
  \/ LoopGoesOn(t) \/ Wait(t) \/ BatchDone(t)
  \/ StdinHup(t) \/ SocketHup(t) \/ SocketData(t)
  \/ Stdin(t) \/ BlockedReadReturns(t) \/ StdinIsNot(t) \/ LeaveExec(t)

Environment == Type \/ EndInput \/ PeerSends \/ PeerCloses \/ StopSignal

Next ==
  \/ Environment \/ BadArguments \/ CreateSocketFails \/ Start
  \/ AcceptZero \/ Join
  \/ \E t \in Threads : Thread(t)
  \/ \E w \in Workers : Fullstop(w)

\* Threads run; the peer takes what is sent to it; nobody need type, send,
\* connect, close or signal.
Spec ==
  /\ Init /\ [][Next]_vars
  /\ WF_vars(Start) /\ WF_vars(Join)
  /\ \A t \in Threads : WF_vars(Thread(t))
  /\ \A w \in Workers : WF_vars(Fullstop(w))

-----------------------------------------------------------------------------
(* Properties.                                                             *)

\* A client ends its output (shutdown in handle_stdin, or the end of the
\* process after it) only when everything typed before ^D has been sent: a
\* send that is not complete is an error and never a gap in the stream.
AllTypedSent ==
  mode = "client" /\ kind = "tty" /\ stdin_closed[Main] => sent = typed

\* A client ends when the peer has closed, whatever it is doing with stdin,
\* and when ^D is typed.
ClientEnds ==
  Running /\ mode = "client" /\ (peer = "closed" \/ (kind = "tty" /\ ended))
    ~> ~Running

\* A signal, or a worker that finds the end of stdin, ends the process, in
\* both modes and whatever the threads are doing, unless one of them has
\* lost the race for stdin and stays in read() for good.
StopsTogether ==
  \/ (g_should_stop \/ \E w \in Workers : stdin_closed[w]) ~> ~Running
  \/ <>[](\E t \in Threads : pc[t] = "blocked")

\* What is written to stdin is read before stdin is closed, as print_usage()
\* says: "read stdin and sock send".
StdinReadBeforeClose == mode = "client" /\ zero # "stdin" => unread = 0
=============================================================================
