# TLA+ models of clientservercpp

The repository holds several small C++ network programs: `src/mync`, a netcat
that listens with one accepting thread and several epoll worker threads (or
connects, as a client); `src/netlib`, a client/server library on epoll with the
drivers `src/clientapp`, `src/serverapp` and `src/usingnetlib-tests`; and
experiments: `src/test_threadpool` (a coroutine thread pool), `src/simpleepoll`
(an epoll server on shared edge-triggered events), `src/testcontainer`
(benchmarks of lookup containers and id generators), `src/test_write`.  There is
no specification in the repository; what the code is meant to do is in its
comments, in the usage text of `mync` and in a UML diagram.

The modules here model these programs from the source.  TLC checks them on small
instances, TLAPS proves the main invariants for every instance.

Run in this directory:

    tlc -workers 2 -config MyncServerSafety.cfg MCMyncServer.tla
    tlapm MyncServerProofs.tla

`PROJECT.json` lists every run, every property with a mutant that breaks it, and
the source lines each definition stands for.

## 1. Inventory

| Component | State | Operations | Hard behaviour |
|---|---|---|---|
| mync server, `src/mync/epollserver.{h,cpp}` | per worker: epfd, eventfd, `clients`, `size_clients`, `pending_new_socks_`; main: listening socket, timerfd, `subepolls_`; global `g_should_stop` | `exec`, `accept_connections`, `balance_socket`, `push_external_socket`, drain, `handle_client_data`, `remove_client`, `handle_timer`, `show_shared_stats`, `fullstop`, thread end, join | hand-off between threads, statistics read without a lock, Epolls deleted by their threads, stop at any moment |
| mync stdin (listen mode) | descriptor 0, registered in every Epoll | `handle_stdin` | several threads read one stdin; worker Epolls have no socket to send to; a hang-up on stdin runs `remove_client(0)` |
| mync client mode | socket, stdin, two end flags | `exec`, `handle_stdin`, `handle_socket_data` | order of the two ends; blocking send |
| mync `Stats` | byte counters, times | `addBytes`, `updateBps`, `checkFourGigabytes` | written by a worker, read by main |
| id generators, `src/mync/snowflakeidgen.h`, `src/testcontainer/main.cpp` | last timestamp, sequence | `next_id` | clock set back, sequence overflow, one mutex |
| `simple_flat_map` | table | `insert`, `find` | full table |
| `mync/io_uring.h` (not compiled) | submission queue, clients | read, write, accept, timer completions | one outstanding read per client, missing submission entries |
| netlib clients (`ClientLightEpoll`, `ClientMultithEpoll`, `IClient`) | `socket_`, `need_stop_`, `handleth_`, send queue, `state_` | connect, disconnect, send, queue | application and handler thread share everything without locks; reconnect |
| netlib servers (`ServerLightEpoll`, `ServerMultithEpoll`, `ServerSubEpoll`) | `clients`, `subepolls_`, `pending_new_socks_` | start, accept, data, stop | unfinished hand-off |
| `MessageParser` | receive buffer, parsed offset | `readMessage`, `tryParseMessage`, send functions | framing over short reads, time-outs |
| `PacketQueue` (unused) | queue, sequence number | `write_data`, `try_get_pkt` | number taken outside the lock |
| thread pool, `src/test_threadpool/main.cpp` | task queue, mutex, condition variable, `mIsDone` | `Schedule`, `Worker`, destructor, coroutine steps | lost wakeups, end with tasks queued |
| simpleepoll | one epoll shared by all threads | accept, read, close, stop | two threads on one client, close races |
| testcontainer registries, `DoubleBufferMap` | tables, two buffers | lookup, update | pointer into a buffer that is rewritten |

What makes each correct, in a sentence: *mync server*: every accepted connection
has one owner at any time, is eventually served and reaped, its worker's counter
is right, and a stop ends the process in order.  *Thread pool*: every coroutine
is resumed exactly once per await and the pool can be destroyed at any moment.
*Id generator*: ids only increase.  *Netlib clients*: the state the application
sees follows the socket's; connect and disconnect can be repeated.  *Netlib
servers*: an accepted client is watched and counted.  *MessageParser*: the
messages read are the messages sent, none waits in the buffer.  *simpleepoll*:
a descriptor is closed once, by one thread, and no event of an old descriptor
reaches a new one.

How they interact: inside `mync` the main thread calls into the worker Epolls
(`push_external_socket`, `count_clients`, `print_clients_stats`), and the workers
answer through the shared maps and counters only.  In netlib the facade calls
its epoll object and is called back through `onEvent` by the handler thread.
The other programs stand alone.

The hazards, line by line, with the properties that cover them, are in
`PROJECT.json`.

## 2. Modules

| Module | Models |
|---|---|
| `MyncServer` | the listening side of mync: main thread, workers, kernel side, peers |
| `ConnectionHandoff` | what that server promises about one connection (abstract) |
| `ConnectionLife` | what a peer may expect of a server, threads apart (abstract) |
| `MCMyncServer` | its instances for TLC |
| `MyncServerProofs` | theorems about `MyncServer`, and both refinements |
| `ThreadPool`, `MCThreadPool`, `ThreadPoolProofs` | the coroutine pool |
| `Snowflake` | both id generators |
| `NetlibClient`, `NetlibClientProofs` | the netlib client: application thread, handler threads, kernel side, peers |
| `SimpleEpoll`, `SimpleEpollProofs` | the simpleepoll server: worker threads, `stop()`, epoll and descriptor table, clients |
| `MessageParser`, `MessageParserProofs` | netlib's framing: the send functions, the stream, `readMessage` |
| `UringRelay`, `UringRelayProofs` | mync's relay on io_uring, in both modes: handlers, kernel side, peers |
| `NetlibServer`, `NetlibServerProofs` | the netlib server: `start()` and `stop()`, handler threads, descriptor table |
| `MyncStdin` | mync's standard input: client mode, and descriptor 0 in every Epoll of listen mode |
| `MyncPartsProofs` | theorems about `Snowflake` and `MyncStdin`, which share no state and no names (hence `GeneratorSpec`) |

In every module a definition named `X_Flaw` that stands before a definition `X`
is `X` with a plausible mistake.  Putting it in place of `X` makes TLC find one
property violated; nothing else uses it.

### MyncServer

A step is what a thread does between two accesses to state that another thread
sees.  `wpc` and `mpc` say where the threads are in the code:

| `wpc` | code | `mpc` | code |
|---|---|---|---|
| head | loop head of `exec`, flag test | head, wait, dispatch | the same, main's `exec` |
| wait | `epoll_wait` | accept | `accept_connections`, before `accept4` |
| dispatch | the loop over the events | balance | `std::min_element`, between comparisons |
| drain | eventfd read, queue not yet emptied | push, notify | `push_external_socket`, lock and write |
| fullstop, clear_queue, close_fds | `fullstop` steps 2, 4, 5 | count, print | the loops of `show_shared_stats` |
| delete, gone | `delete data->subepoll`; thread over | join | `~MainEpoll` |

The kernel's side is `sock` (new, in the backlog, open, closed), `hup`, `inbox`
(chunks received, not read), `interest` (what an epfd watches), `wakeup`
(eventfd) and `timer`.  `batch` and `mbatch` are the events returned by
`epoll_wait` that are not handled yet; epoll returns any of the ready ones, at
most `MaxEvents`.  A hang-up may discard the inbox (RST) or not (FIN).

Data races are choices.  `MapRace` is the outcome in which iterating over a map
that another thread changes does not survive; `UseFreed` the one in which using a
deleted `Epoll` does not.  The other outcome is the ordinary step.  A count read
from freed memory is arbitrary (`BalanceCompare`).  `proc` says how the process
ended; after that nothing happens.

Left out: stdin, which is in `MyncStdin` (here the server is started with a stdin
epoll cannot watch, such as a file or /dev/null, whose `add_fd` fails and is
ignored), the contents of `Stats`, output, failing `pthread_create`,
`epoll_create1` or `eventfd`.

### ConnectionHandoff

One connection's way: new, backlog, accepted, queued at an owner, served by that
owner, closed.  `Leave` is the peer's end of it, at any time; `Close` needs it.
Only a halting server may close a connection of a live peer, drop or lose one.
Its fairness says that accepted connections move on by themselves and that one
whose peer has gone is closed.  The mapping is `stageOf`/`ownerOf` at the end of
`MyncServer`; `gone` is `hup`.

### ConnectionLife

The same seen from a peer, for any server: new, backlog, open, closed; `Close`
after the peer has gone, `Abandon` by a halting server.  There is nothing in it
about numbers, and that is the point: the servers know a client by its
descriptor number, and a close that was meant for the number's last connection
is a step `ConnectionLife` does not have.  `UringRelay` implements it, `MyncServer`
does by way of `ConnectionHandoff` (`lifeOf`).  `SimpleEpoll` implements it but for
calls that hit a connection they were not meant for (section 5).

### ThreadPool

The mutex is a variable only where it is held over several steps: between the
test of the wait predicate and the wait (`PredicateFalse`, `Block`).  `mIsDone`
is set and `notify_all` called without it, as in the destructor.  A notification
goes to any waiting worker; spurious wakeups are allowed.  `Hop` is a coroutine
that awaits the pool again; the demo's coroutine awaits once (`MaxHops = 0`).
Coroutines are started by the pool's owner, before the destructor, which is what
`main` does.  The order of the queue is left out: no property needs it.

### Snowflake

`next_id` is modelled step by step under its mutex: clock read, decision, wait,
return.  The clock advances and may be set back.  `WaitForLater` selects the
comparison that ends the wait: `timestamp <= last_ts` goes on waiting in
`SnowflakeGenerator`, `timestamp == last_timestamp_` in `SnowflakeIDGenerator`.
An id is the 64-bit word with its fields side by side, truncated at its width.

### NetlibClient

| `apc` | code | `hpc` | code |
|---|---|---|---|
| start | `start_handle`, before the test of `socket_` | loop, wait | `exec`: loop head with its flag test, inside `epoll_wait` |
| store | after `add_fd` | hup, hup_unset, notify | hang-up: `close`, `socket_ = -1`, `onEvent` |
| stop | `stop`, in `join` | read, recv | before and inside `recv` |
| close, unset | `close(socket_)`, `socket_ = -1` | eof, eof_unset | end of stream: `close`, `socket_ = -1` |

`hbatch` is what `epoll_wait` has returned, up to 4 events, and is not handled yet.
`need_stop_` is read twice, at the loop head and again for every event, in
`on_epoll_event` (epoll.cpp:120): a thread that was in `epoll_wait` when it was set
drops what it has got.

A connection is known by its number, its handler thread too.  `file` is the
process's descriptor table; a closed number is used again, so `close(socket_)`
may hit another connection.  A closed file stays alive inside a blocked `recv`,
as it does in Linux.  The exception of `start_handle` ends the process, as in the
only program that calls it; that of `handle_socket_data` leaves a thread and
always does.

`paired` is a history variable: no `connect` has been called while the handler
thread of an earlier one was not joined; the test calls `disconnect` between any
two.  The code does not cope with anything else: a hang-up leaves the handler
thread in `exec`, and a later `connect` adds a second one that races with it for
every event.  The properties that need this say so; `HandlersEnd` holds without it.
`stray` is a history variable too: the connections whose `add_fd` failed
(epoll.cpp:81).  Nobody closes their descriptors and `state_` stays WAITING, so
`DescriptorsMatch` and `StateMatchesSocket` name them as the only exception.
`need_stop_` is never reset, so that after the first `disconnect` every further
handler ends at once and no hang-up is noticed; `HangupNoticed` excludes it by its
condition.

Left out: `send` and the send queue, other users of descriptor numbers in the
process, `ClientMultithEpoll` (the same code; its facade `MultithreadClient` is
abstract and cannot be created).

### SimpleEpoll

`pc` is a worker's place: wait (`epoll_wait`), loop (between two events of its
batch), accept, add, refuse (`accept_connections`: `accept4`, `EPOLL_CTL_ADD`, the
close after a failed one), read and close (`handle_client`), exited.  `spc` is the
thread in `stop()`.

The kernel's side is in the model because the program depends on its details:
`file` is the descriptor table, of which `accept4` takes the least free entry;
`ready` is epoll's ready list, to which every change of a watched socket adds an
edge and which `epoll_wait` empties (64 events are more than there can be).  An
event carries a number and not a connection.  Since nothing is `EPOLLONESHOT`, a
second edge may give a client to a second thread while the first still reads it;
both may close it, and the number may have a new owner by then.  Closing the
epoll or the listening socket wakes nobody; the workers notice `running` after at
most 100 ms.

History variables: `refused`, `accept4` has failed with a client waiting (EMFILE,
ECONNABORTED), by which that edge is spent and the client waits for the next one;
`meant`, the connection that a worker's `close` or `EPOLL_CTL_ADD` is meant for;
`hit`, the connections that such a call has hit although it was meant for another.
The second client has the first one's number, so `hit` is not empty in the run.
A reset throws unread data away, an orderly end does not.

Left out: the contents of the data and the output.

### MessageParser

One end sends, the other reads; both use the same class.  A byte is its position
in the stream, so the stream is its length, `written`, and for each call in `sent`
where it began to write and how much of its parts it wrote: the struct (`first`),
the second header of a data packet (`second`) and the payload (`rest`).  A failed
`send` cuts its part off; nobody looks at what `sendAll` returns, so that the call
goes on with its next part and later calls write behind it (`SendBreaks`, bounded
by `MaxBreaks`).  `received` and `parsed_bytes_` are positions
too: the buffer is never compacted.  A byte that is not the first of a header is
content, in which the parser may see any type or none (`Found`).  `Receive` is
one turn of the loop in `readMessage`: `recv` of up to `RECV` bytes and one
`tryParseMessage`.  A result remembers which call wrote its struct, 0 if none did,
and where in the stream it was taken from, which tells what its payload is.

Two things the code does that a caller may not expect are in the model as they
are.  `sendDataPkt` sends the header and `sendPacketPayload` sends it again, so
the payload that comes out of `readMessage` begins with a header, and the rest of
the stream is read out of step (`InStep` marks where that begins, and where a call
was cut off).  `StructsInOrder` is therefore about structs only; that the payload
of the first data packet is never the one sent is `PayloadDamaged`, which is
proved.  `readMessage` calls `recv` before it looks into the buffer, so a message
that came together with the one before it waits for further bytes, and is lost at
the end of the stream.

Left out: the contents of the fields, `recv` errors other than EAGAIN (they end
`readMessage` as the end of the stream does).

### UringRelay

The relay is one thread, so a handler and the `submit` at its end are one step
(`HandleStdin`, `HandleSocket`, `HandleAccept`, `HandleTimer`, `HandleClient`);
what interleaves with it is the kernel, the peers and the user.  A request is
known by the number it reads from, as in the code, where `user_data` is that
number: `flying` counts the requests the kernel holds for a number, `cqe` is the
result that waits for it.  `accepted` is the new descriptor in the result of an
accept: it is open before `handle_accept` knows it.  The loop takes the waiting
results in any order.  `stage`, `gone` and `halting` are the mapping to
`ConnectionLife`, in which the connection of client mode takes no part.  `Leave`
is the end of `exec` and the destructor, `Interrupted` an `io_uring_wait_cqe` that
a signal ends: the code looks at `errno` where liburing returns the error, and
throws.

In client mode a `send` that fails or is short sets `socket_closed`, as the end of
the socket does (io_uring.h:315).

Left out: the bytes, the statistics, a full submission ring (64 entries; at most
three are prepared between two submits).  The code is not compiled at present:
its include in main.cpp is commented out.

### NetlibServer

The application is one thread (`apc`: idle, start, join, close, remove, the parts
of `start()` and `stop()`), every successful `start()` makes a handler thread
(`hpc`: poll, wait, accept, inside, add, done).  A thread `inside` `accept4` keeps
the listening socket alive when `stop()` closes its number, and has a number
reserved for the client that nobody else gets meanwhile.  Descriptor numbers are
given as the kernel does, the lowest free one first, because `socket_` keeps its
value after `close(socket_)` and a second `stop()` closes whatever the number
names then. `need_stop_` is never reset: after a `stop()` every later handler
thread ends before its first wait.  `MapRace` is, as in `MyncServer`, the outcome
in which two threads in one `unordered_map` do not survive.

An accepted client goes into `clients` and never into the epoll set
(epoll.cpp:291); its data and its hang-up are not seen until `stop()`, and the
branches for client events are dead.  They are not in the model.

### MyncStdin

Main is thread 0, the workers come after it; in client mode there is only main.
`pc` is poll (the loop head), wait (in `epoll_wait`), dispatch (the loop over the
events, `batch` what is left of them), blocked (in `read(0)`), then join, fullstop
or gone.  Every Epoll watches the same stdin, so the event of one chunk reaches
several threads, and all but the first stay in `read()` until the next chunk.
`zero` is what number 0 names: stdin, after `remove_client(0)` nothing, and after
the next `accept4` a client, which the worker that got it then takes for stdin.

Stdin is a terminal, whose ^D one `read()` takes, or a pipe, whose end stays and is
a hang-up.  Both bounds on the user are in `Type`: nothing is typed behind an
unread ^D, and in client mode nothing after it.  The peer takes what is sent to
it; a blocking send that fails throws.

Left out: the clients other than the one with the number 0, the timer and the
thread that sends to itself (`CLIENT_SELF_SEND_1gbps` is 0).

## 3. Runs

| Run | Instance | Shows |
|---|---|---|
| mync_safety | 3 connections, 2 workers, 2 events per wait, timer, stop, failing `accept4` and `epoll_ctl` | ownership, no socket lost, live event batches, counters, no lost wakeup, balanced loads |
| mync_liveness | 2 connections with data, 2 workers, fair | served, reaped, read unless dropped at a hang-up; a stop ends the process; `ConnectionHandoff` is implemented, so no connection of a live peer is closed before a stop |
| pool | 3 workers, 3 coroutines, one further await each, fair | no coroutine lost or run twice, no idle worker while there is work, every queued coroutine is resumed |
| pool_lost_wakeup | 1 worker, 1 coroutine | disagreement, section 5 |
| snowflake | 3 threads, 2 ids per millisecond, 4 milliseconds, 2 set-backs, fair | ids increase; the wait for the next millisecond ends |
| netlib_client | 2 connections with 2 chunks each, `connect` and `disconnect` at any time, fair threads | with paired calls descriptors (but that of a failed `add_fd`), state and handler agree, hang-ups are told; handlers end |
| simple_epoll | 2 threads, 2 clients with one chunk unread at most, two descriptors, failing `accept4`, `stop()`, fair threads | no edge is lost, a client that is still there is closed only by a call meant for an earlier owner of its number, hang-ups are reaped, `stop()` returns |
| message_parser | 3 calls, one of them cut off, structs of 2, 3 and 2 bytes, a payload of 2, up to 4 bytes per `recv`, time-outs, fair reader | the structs come out as sent, up to the header of the first data packet; a message is returned when it is complete |
| uring_relay | 2 connections, 2 client numbers, one chunk and one line at a time, both modes, fair kernel and relay | one read per client, nothing left unarmed, no number lost or reused too early; `ConnectionLife` is implemented, so that a hang-up closes its own connection, in the end, and no other; the end of the input ends the relay |
| netlib_server | 3 connections, 4 numbers, 3 handler threads, `start` and `stop` at any time, fair threads | no client's descriptor leaks or is closed twice, `stop` leaves none and returns, the backlog is accepted |
| mync_stdin | main and 2 workers, 2 chunks, both modes, terminal and pipe, fair threads | a client sends all that was typed and ends with its peer; a stop reaches every thread that is not blocked in `read` |
| mync_stdin_pipe | client mode or 1 worker, 1 chunk | disagreement, section 5 |

The type invariants, and `RecvHasData` and `DisconnectIsFinal` of `NetlibClient`,
are proved (section 4) and not repeated in the runs.  `Polls` is FALSE in the run
of `NetlibClient`, which lets the application call `connect` at any time and not
only after it has seen an end. `WaitForLater` is TRUE in the run of `Snowflake`,
which is mync's generator.

The bounds.  Two workers suffice for every interplay of main with "this" worker
and "another" one.  Three connections let one be in main's hand, one in a queue
and one in a map at the same time.  `MaxEvents` is 4, as in the code, where all
ready events have to fit, and 2 where the batches are to be incomplete while
they still hold more than one event; one chunk of data is what tells "read" from
"not read".  Two sequence numbers per millisecond reach overflow, wait and the
normal case.  For the netlib client two
connections are what a forgotten handler needs to meet a new socket.  In
SimpleEpoll the second client gets the number of the first while two threads still
have it; data on it is unlimited in number, one chunk at a time.  For the parser
the sizes let one `recv` end inside a struct, between two messages, inside a
payload and beyond a whole message, and a payload has the length of the header that
takes its place.  In the
relay two numbers let one be reused while the other is in flight, in either order.
In `NetlibServer` four numbers for the listening socket, three connections and the
numbers reserved in `accept4` bring the table to its limit (EMFILE) and would let a
stale `socket_` name a client; three handler threads are two that `start()` has
lost and the one it knows.  In
`MyncStdin` three threads race for two chunks: one that wins, one that blocks, and
one that goes on with its clients.  What holds
for these and is proved holds for all sizes (section 4).

Fairness.  Every thread is weakly fair as a whole (`WorkerRuns`, `MainRuns`,
`WorkerStep`): the operating system schedules it, `epoll_wait` returns after
100 ms at the latest, and no step inside a thread has fairness of its own.
Peers, timer and signal have none.  In mync_liveness `MaxEvents` covers all
events, which stands for the kernel's rotation of its ready list; without it a
socket could be passed over for ever.  The finite number of connections means
that `accept_connections` always reaches EAGAIN; a server flooded with
connections may not get to its stop flag, which no run shows.  In `Snowflake` time
passes (`Tick`) and a thread inside `next_id` runs; the set-backs are finitely
many.  In `NetlibClient` the application finishes the call it is in
(`AppProceeds`) and every handler runs; peers and new calls have no fairness.  In
`SimpleEpoll` every worker runs and `stop()` finishes; a client that never pauses
keeps a worker in its drain for ever (main.cpp:173), with the other events of its
batch unserved, so `HangupReaped` has the condition that drains end.  In
`MessageParser` the application reads in a loop and what was written arrives; that
it sends is not assumed.  In `UringRelay` the kernel completes what can be completed
and the completion ring is a queue; the errors of accept have no fairness.  In
`NetlibServer` a call that has begun goes on and handlers run; `SO_RCVTIMEO` ends a
blocking `accept4` (`AcceptAgain`).  In `MyncStdin` every thread runs, and a
thread inside `read(0)` goes on only when there is something to read: nobody need
type.  A lock is only taken by a fair thread when it is free often enough: the
sections under `mMutex` end by themselves.

## 4. Proofs

For all values of the constants that satisfy the named assumptions:

| Theorem | Statement | Argument |
|---|---|---|
| `TypeCorrect` | `[]TypeOK` | `TypeInv` adds that `min_element`'s iterator stays before the end |
| `SocketsOwnedOnce`, `BatchStaysLive` | `[]OwnedOnce`, `[]EventsAreLive` | `OwnInv`: the program counters fix what may be held or outstanding (`Control`), ownership, live events, and at most one kind of event per socket; a batch event could otherwise outlive its client |
| `NoSocketForgotten` | `[]NoOrphan` | from `OwnInv`, as no step before a stop drops a socket |
| `NoWakeupLost` | `[]NoLostWakeup` | inductive with `OwnInv`: the eventfd is reset only on the way to the drain |
| `CountersExact` | `[]SizeClientsExact` | cardinalities of disjoint, finite sets, from `OwnInv` |
| `LoadIsBalanced` | `[]BalancedLoad` | `BalanceInv`: while main compares, `target` is least among the visited, and counts only grow by its own pushes |
| `HandoffImplemented` | `SafetySpec => Handoff!SafetySpec` | every step maps to an abstract step or to a stutter, from `OwnInv`; `ReasonToClose`: a hang-up in a batch, or in a worker's hand, is that of a peer that has gone |
| `ServerImplementsLife` | `SafetySpec => Life!SafetySpec` | every step of `ConnectionHandoff` is one of `ConnectionLife` or a stutter (`LifeOfHandoff`), and the theorem above |
| `TypedIsSent` | `MyncStdin`'s `[]AllTypedSent` | `StdinInv`: in client mode one thread (`Alone`) accounts for every chunk: typed is read plus what stdin holds, read is sent unless the process has ended (`Accounted`) |
| `PoolTypeCorrect`, `CoroutineInOnePlace` | `[]TypeOK`, `[]TaskInOnePlace` | `PlaceInv`: only a worker about to resume holds a coroutine |
| `NoWorkerSleepsOnWork` | `[]NoIdleWorker` | by counting: a step that makes a worker or a notification less takes a coroutine with it or wakes a worker; `BlockInv` covers the worker that is about to wait, which has the mutex, so that nothing is queued behind its back |
| `NothingLeftBehind` | `mpc = "done"` implies that every started coroutine has finished or was destroyed, none is queued, and all threads have ended | `Joined`: after the joins no worker runs; and `PlaceInv` |
| `GeneratorTypeCorrect`, `GeneratorIdsIncrease` | `[]TypeOK`, `WaitForLater` implies `[]IdsIncrease` | `IdsInv`: every issued id is `Past`; `IdOrder`: ids order as their timestamps, then sequence numbers, because no field overflows |
| `SteadyIdsIncrease` | while the clock has not been set back, `IdsIncrease`, whatever `WaitForLater` is | `SteadyInv`: then the last timestamp is not later than the clock, and "another millisecond" is a later one |
| `ClientTypeCorrect` | `[]TypeOK` | inductive, given that a connection under way has a descriptor |
| `ClientDescriptorsMatch`, `ClientStateMatchesSocket`, `ClientActsOnItsSocket`, `ClientDisconnectIsFinal` | `[]DescriptorsMatch`, `[]StateMatchesSocket`, `[](ActsOnItsSocket /\ RecvHasData)`, `DisconnectIsFinal` | `PairedInv`: while `paired`, the only handler is the one `handleth_` points to (`Control`), so whatever it or the application knows of `socket_` (`HandlerSees`, `AppSees`) stays true |
| `EpollTypeCorrect` | `[]TypeOK` | `TypeInv` adds that a thread in `accept4`'s or `recv`'s aftermath has a descriptor |
| `EpollNothingStranded`, `EpollBacklogAttended` | `[]NothingStranded`, `[]BacklogAttended` | `Structure`: a connection is behind one descriptor (`OneNumber`), an open one is registered or a thread is about to add or refuse it (`Watched`), a thread waits only after its batch (`BatchDone`), and nothing is closed before `running` falls (`RunningFlag`); so every edge arrives, and a thread leaves a descriptor only when nothing is pending behind it |
| `LifeButForStaleCalls` | `SafetySpec => LifeButForHits`, for any `Threads`: `ConnectionLife`'s safety part, step by step, until a call hits a connection it was not meant for | `InOrder`: connections are accepted as they come; `MeantOnce`, `MeantRight`: a call's connection is fixed when the thread last looked at the number (an accepted one belongs to one thread, an end that was read has been seen), so that a close that goes where it was meant is one `ConnectionLife` allows |
| `ParserTypeCorrect`, `ParserStructsInOrder`, `ParserPayloadDamaged` | `[]TypeOK`, `[]StructsInOrder`, `[]PayloadDamaged` | `Layout`: the calls write one behind the other; `Front`: in step, the parser stands where the next call began, and there is no other struct at that place (`FoundInStep`); so a data packet's payload is taken from where its second header went |
| `MessageNotHeldBack` | `[][ReturnedWithLastByte]_vars` | in step, with the earlier messages returned, the `recv` that brings a message's last byte ends `readMessage` with that message; by `Front` and `FoundInStep` |
| `RelayInvariant` with `RelayTypeCorrect`, `RelayOneReadPerClient`, `RelayAlwaysArmed`, `RelayDescriptorsOwned` | `[]TypeOK` and the three invariants | they are inductive together with `AcceptedWaits` (an accept's result waits exactly while its number is open and no client's): a handler takes the one result of its number and submits once, so the number of requests stays one |
| `RelayImplementsLife` | `Spec => Life!SafetySpec` | `Behind`: no two numbers stand for one connection (`OneNumber`), and an end or error that waits in the completion ring is about the connection that has the number now, whose peer has gone (`EndIsItsOwn`): with one read per client no result outlives its connection |
| `ServerInvariant` with `ServerDescriptorsOwned`, `ServerStopReleases` | `[]DescriptorsOwned`, `[]StopReleases` | `HeldOnce`: a number has one owner; `NotAClient`: `socket_`, stale or not, never names a client, because nobody accepts while its number is free; `ReservedOnce`: a number reserved in `accept4` is free and nobody else's; `NobodyAccepts`: after `close(socket_)` a thread left in `handle_accept` gets at most one more client, and its next `accept4` ends the process before it can leave |
| `ServerClosesByStopOnly` | `[][ClosedByStopOnly]_vars`: only the loop of `stop()` over `clients` closes a connection | from `NotAClient`: the stale `socket_` that a second `stop()` closes is free or a listening socket |

Assumptions: finite sets of connections, workers and coroutines; at least one
worker; the clock of an id generator between its epoch and the end of its
timestamps (`ClockAssumption`, 69 years in the code); a worker id that fits its
bits.  The field widths are constants: the proof does not use 13 and 10.
For the relay and the netlib server, that there are numbers for what the model
opens and that `None`, `Free` and `Listen` are no connections.

Only model-checked: all liveness and the fairness halves of `ConnectionHandoff` and
`ConnectionLife` (`SafetySpec` is the half without; TLAPS does not reason about
ENABLED), and everything about how the programs fail (section 5).  Every invariant
of the runs is proved.

## 5. Where code and comments disagree

Two runs end in a counterexample to what the repository says:

| Run | Comment | What happens |
|---|---|---|
| pool_lost_wakeup | test_threadpool main.cpp:26, the threads are woken | a worker between predicate and wait misses the notification; `join` hangs |
| mync_stdin_pipe | main.cpp:24, "read stdin and sock send" | the hang-up of a pipe is tested before its data (epollserver.cpp:106): what is left in the pipe is dropped, descriptor 0 closed, and the client stays in its loop |

Other behaviour that the models contain as the code has it, without a run of its
own:

- mync drops a client's unread data when its hang-up comes with them
  (epollserver.cpp:106; main.cpp:23 wants received data on stdout).  `DataRead`
  has the condition.
- netlib's `connect` after a hang-up, without `disconnect`, leaves the old handler
  thread in `exec`; it gets an event of the next connection and may call
  `recv(-1)`, whose exception ends the process (epoll.cpp:138).
- `SnowflakeIDGenerator` of testcontainer waits while the time is equal
  (main.cpp:326): a clock set back ends the wait on an earlier millisecond, and an
  id may come twice.  `GeneratorIdsIncrease` is therefore about the other one, and
  `SteadyIdsIncrease` says that a clock set back is all it takes.
- simpleepoll: two threads may see the end of one client (main.cpp:182); the
  second `close` hits the client that has got the number since.  `LifeButForHits`
  says that this, and an ADD of the same kind, is the only way in which the server
  departs from `ConnectionLife`.
- netlib's `sendDataPkt` sends the header, and `sendPacketPayload` sends it again
  (serialization.h:204, 101), though data comes after the header (line 31): what
  `parseDataPacket` copies as data (line 263) begins with the second header
  (`ParserPayloadDamaged`).  `restore_seq_num` is always sent as 0 (line 175).
- netlib's client, when `add_fd` fails (epoll.cpp:81), returns with the socket open
  and known to nobody; the application reads WAITING, and no `disconnect` closes it.
- netlib's server cannot be started again: `stop()` leaves `need_stop_` set and
  `socket_` a number, so `start_handle` throws "wrong use".
- netlib's `create_listen_socket` returns `false`, the number 0, when `listen()`
  fails; `start()` takes it for a socket.

Behaviour of the mync server at its end that the models contain and no run
singles out: main may iterate over a worker's `clients` while that worker's
`fullstop` erases from them (`MapRace`; epollserver.cpp:44-45 takes it that nobody
does); main may push a socket into a queue that `fullstop` has emptied, which
nobody closes (epollserver.cpp:61 wants it closed); and a worker deletes its
`Epoll` while main may still use it (`UseFreed`).  `StopTerminates` therefore says
that the process ends, not how.

## 6. Plan

Written so far, in this order: `MyncServer` with `ConnectionHandoff`, `ThreadPool`,
`Snowflake`, `NetlibClient`, `SimpleEpoll`, `MessageParser`, `UringRelay`,
`NetlibServer` and `MyncStdin`, each with its proofs; then `ConnectionLife`, which
two servers implement and the third does but for stale calls.

What would come next, most important first:

1. `send` and the send queue of `NetlibClient`.
2. A FIFO of messages that `MessageParser` implements while it is in step.
3. `SimpleFlatMap` as operators checked against a function; `PacketQueue` and
   `DoubleBufferMap`.

### Not modelled

- `Stats` of mync and netlib: counters for output.  Their races change printed
  numbers and nothing else reads them.
- `simple_flat_map`, `PacketQueue`, `DoubleBufferMap` and the registries of
  testcontainer: containers that no program uses or that are only benchmarked.
  `PacketQueue` (its number is taken outside the lock) and `DoubleBufferMap` (a
  pointer into a buffer that is rewritten) would be worth a model as soon as
  several threads use them, which none does.
- `ClientMultithEpoll`, `ServerMultithEpoll`, `ServerSubEpoll`: `MultithreadClient`
  and `MultithreadServer` leave `onEvent` pure and cannot be created, and
  `subepolls_` is never filled, so the first accept would use the end of an empty
  vector.  There is no behaviour to model.
- The remaining netlib facades: forwarding calls.
- clientapp, serverapp, usingnetlib-tests, test_write, build files, scripts:
  drivers and measurements; the drivers give the call sequences of the netlib
  models.
- Socket set-up beyond its success or failure, output, formatting.
