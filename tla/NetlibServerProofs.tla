------------------------- MODULE NetlibServerProofs -------------------------
(***************************************************************************)
(* Theorems about NetlibServer, for every number of connections, descriptor *)
(* numbers and calls of start().                                           *)
(***************************************************************************)
EXTENDS NetlibServer, TLAPS

HandlerPcs == {"none", "poll", "wait", "accept", "inside", "add", "done"}

\* Every variable keeps its type; start() has made a socket or has a 0 for one,
\* and accept4 has returned a number.
TypeOK ==
  /\ state_ \in {"STOPPED", "WAITING", "ERROR"}
  /\ apc \in {"idle", "start", "join", "close", "remove"}
  /\ sock \in -1 .. MaxFd /\ (apc = "start" => sock >= 0)
  /\ socket_ \in -1 .. MaxFd
  /\ need_stop_ \in BOOLEAN /\ handleth_ \in 0 .. MaxStarts
  /\ hpc \in [Handlers -> HandlerPcs]
  /\ hfd \in [Handlers -> 0 .. MaxFd]
  /\ \A h \in Handlers : hpc[h] \in {"inside", "add"} => hfd[h] \in Fds
  /\ file \in [Fds -> Conns \cup {Free, Listen}]
  /\ clients \in SUBSET Fds /\ watched \in SUBSET Fds
  /\ backlog \in SUBSET Conns /\ peer \in [Conns -> {"new", "up"}]
  /\ proc \in {"running", "ended"}

\* h has the number f from accept4 and has not put it into clients.
Holds(h, f) == hpc[h] = "add" /\ hfd[h] = f

\* DescriptorsOwned without its condition: no step of a running process is
\* taken after the end.
Owned ==
  \A f \in Fds : file[f] \in Conns
    <=> f \in clients \/ \E h \in Handlers : Holds(h, f)

\* A number has one owner, or a close by one would leave it with another.
HeldOnce ==
  \A h \in Handlers : \A f \in Fds :
    Holds(h, f) => f \notin clients /\ \A g \in Handlers \ {h} : ~Holds(g, f)

\* A number that a thread in accept4 has got is free, and nobody else's.
ReservedOnce ==
  \A h \in Inside :
    /\ file[hfd[h]] = Free /\ hfd[h] # socket_
    /\ \A g \in Inside \ {h} : hfd[g] # hfd[h]

\* What the application has in its hand is a listening socket, and socket_,
\* stale or not, never names a client: while its number is free nobody accepts.
NotAClient ==
  /\ apc = "start" => state_ = "WAITING" /\ (sock > 0 => file[sock] = Listen)
  /\ socket_ > 0 => file[socket_] \notin Conns

\* What stop() leaves behind.
Stopped == state_ = "STOPPED" /\ apc \in {"idle", "remove"}

\* After close(socket_) a thread in handle_accept gets at most the connection it
\* is in accept4 for; the next call fails: what it has put into clients behind
\* the back of stop() is there only together with the thread.
NobodyAccepts ==
  /\ \A h \in Handlers : hpc[h] \in {"accept", "inside", "add"} => socket_ > 0
  /\ Stopped /\ socket_ > 0 => file[socket_] # Listen
  /\ Stopped /\ apc = "idle" /\ clients # {} => \E h \in Handlers : hpc[h] = "accept"

Inv == TypeOK /\ Owned /\ HeldOnce /\ ReservedOnce /\ NotAClient /\ NobodyAccepts
-----------------------------------------------------------------------------
(* Types.                                                                  *)

LEMMA InitTypeOK == Init => TypeOK
<1> SUFFICES ASSUME Init PROVE TypeOK
  OBVIOUS
<1> USE DEF Init, HandlerPcs
<1>1. /\ -1 \in -1 .. MaxFd /\ 0 \in 0 .. MaxFd /\ 0 \in 0 .. MaxStarts
  BY ServerAssumption
<1>2. /\ hfd \in [Handlers -> 0 .. MaxFd]
      /\ hpc \in [Handlers -> HandlerPcs]
  BY <1>1
<1>3. file \in [Fds -> Conns \cup {Free, Listen}] /\ peer \in [Conns -> {"new", "up"}]
  OBVIOUS
<1> QED BY <1>1, <1>2, <1>3 DEF TypeOK

LEMMA FreeIsNoConn == Free \notin Conns /\ Listen \notin Conns /\ Free # Listen
BY ServerAssumption

\* The application and the peers.
LEMMA ApplicationTypeOK ==
  ASSUME TypeOK, Application \/ MapRace \/ \E c \in Conns : PeerConnects(c)
  PROVE  TypeOK'
<1> USE ServerAssumption DEF TypeOK, HandlerPcs, Fds, Handlers, facade, epoll, Close
<1>1. ASSUME NEW c \in Conns, PeerConnects(c) PROVE TypeOK'
  BY <1>1 DEF PeerConnects
<1>2. CASE StartFails
  BY <1>2 DEF StartFails
<1>3. CASE StartListens
  <2>1. CASE sock' = 0 /\ UNCHANGED file
    BY <1>3, <2>1 DEF StartListens
  <2>2. ASSUME NEW f \in Fds, sock' = f, file' = [file EXCEPT ![f] = Listen]
        PROVE  TypeOK'
    BY <1>3, <2>2 DEF StartListens
  <2> QED BY <1>3, <2>1, <2>2 DEF StartListens
<1>4. CASE StartRefused
  BY <1>4 DEF StartRefused
<1>5. CASE StartHandle
  <2>1. sock \in 0 .. MaxFd
    BY <1>5 DEF StartHandle
  <2>2. watched' \in SUBSET Fds /\ socket_' \in -1 .. MaxFd
    BY <1>5, <2>1 DEF StartHandle
  <2>3. /\ hpc' \in [Handlers -> HandlerPcs]
        /\ handleth_' \in 0 .. MaxStarts
    BY <1>5 DEF StartHandle, Unstarted
  <2> QED BY <1>5, <2>2, <2>3 DEF StartHandle
<1>6. CASE StopBegins
  BY <1>6 DEF StopBegins
<1>7. CASE StopJoins
  BY <1>7 DEF StopJoins
<1>8. CASE StopCloses
  BY <1>8 DEF StopCloses
<1>9. CASE StopRemoves
  <2>1. CASE clients = {} /\ UNCHANGED <<clients, file, watched, backlog>>
    BY <1>9, <2>1 DEF StopRemoves
  <2>2. ASSUME NEW f \in clients, clients' = clients \ {f}, Close(f)
        PROVE  TypeOK'
    <3>1. watched' \in SUBSET Fds /\ backlog' \in SUBSET Conns
      BY <2>2
    <3>2. file' \in [Fds -> Conns \cup {Free, Listen}] /\ clients' \in SUBSET Fds
      BY <2>2
    <3> QED BY <1>9, <3>1, <3>2 DEF StopRemoves
  <2> QED BY <1>9, <2>1, <2>2 DEF StopRemoves
<1>10. CASE MapRace
  BY <1>10 DEF MapRace
<1> QED BY <1>1, <1>2, <1>3, <1>4, <1>5, <1>6, <1>7, <1>8, <1>9, <1>10 DEF Application, Stop

LEMMA HandlerTypeOK ==
  ASSUME TypeOK, NEW h \in Handlers, Handler(h)
  PROVE  TypeOK'
<1> USE ServerAssumption DEF TypeOK, HandlerPcs, Fds, Handlers, facade, epoll, Goes
<1>1. CASE HandlerEnds(h)
  BY <1>1 DEF HandlerEnds
<1>2. CASE Event(h)
  BY <1>2 DEF Event
<1>3. CASE Accept(h)
  <2>1. PICK c \in backlog :
          file' = [file EXCEPT ![hfd[h]] = c] /\ Leaves(h, backlog \ {c})
    BY <1>3 DEF Accept
  <2>2. watched' \in SUBSET Fds /\ backlog' \in SUBSET Conns
    BY <2>1 DEF Leaves
  <2> QED BY <1>3, <2>1, <2>2 DEF Accept
<1>4. CASE AcceptAgain(h)
  <2>1. watched' \in SUBSET Fds /\ backlog' \in SUBSET Conns
    BY <1>4 DEF AcceptAgain, Leaves
  <2> QED BY <1>4, <2>1 DEF AcceptAgain
<1>5. CASE AcceptFails(h)
  BY <1>5 DEF AcceptFails
<1>6. CASE AddClient(h)
  <2>1. clients' \in SUBSET Fds
    BY <1>6 DEF AddClient
  <2>2. hfd' \in [Handlers -> 0 .. MaxFd]
    BY <1>6 DEF AddClient
  <2>3. \A g \in Handlers : hpc'[g] = "add" => hfd'[g] \in Fds
    BY <1>6 DEF AddClient
  <2> QED BY <1>6, <2>1, <2>2, <2>3 DEF AddClient
<1>7. CASE LoopGoesOn(h) \/ NoEvent(h)
  BY <1>7 DEF LoopGoesOn, NoEvent
<1>8. CASE CallAccept(h)
  <2>1. PICK f \in Fds : hfd' = [hfd EXCEPT ![h] = f]
    BY <1>8 DEF CallAccept
  <2> QED BY <1>8, <2>1 DEF CallAccept
<1> QED BY <1>1, <1>2, <1>3, <1>4, <1>5, <1>6, <1>7, <1>8 DEF Handler

LEMMA NextTypeOK == TypeOK /\ [Next]_vars => TypeOK'
<1> SUFFICES ASSUME TypeOK, [Next]_vars PROVE TypeOK'
  OBVIOUS
<1>1. CASE Application \/ MapRace \/ \E c \in Conns : PeerConnects(c)
  BY <1>1, ApplicationTypeOK
<1>2. CASE \E h \in Handlers : Handler(h)
  BY <1>2, HandlerTypeOK
<1>3. CASE UNCHANGED vars
  BY <1>3 DEF vars, facade, epoll, TypeOK
<1> QED BY <1>1, <1>2, <1>3 DEF Next

\* The descriptors, number by number: the application opens and closes.
LEMMA ApplicationKeepsInv ==
  ASSUME Inv, TypeOK', Application \/ MapRace \/ \E c \in Conns : PeerConnects(c)
  PROVE  Inv'
<1> USE FreeIsNoConn DEF Inv, Owned, HeldOnce, ReservedOnce, Inside, NotAClient,
                        NobodyAccepts, Stopped, Holds, facade, epoll
<1>1. ASSUME NEW c \in Conns, PeerConnects(c) PROVE Inv'
  BY <1>1 DEF PeerConnects
<1>2. CASE StartFails
  BY <1>2 DEF StartFails
<1>3. CASE StartListens
  <2>1. CASE sock' = 0 /\ UNCHANGED file
    BY <1>3, <2>1 DEF StartListens
  <2>2. ASSUME NEW f \in Fds, Lowest(f), sock' = f,
               file' = [file EXCEPT ![f] = Listen]
        PROVE  Inv'
    <3>1. \A g \in Fds : file'[g] = IF g = f THEN Listen ELSE file[g]
      BY <2>2 DEF TypeOK
    <3>2. file[f] = Free /\ \A g \in Inside : hfd[g] # f
      BY <2>2 DEF Lowest, Unused
    <3>3. Owned' /\ HeldOnce' /\ ReservedOnce'
      BY <1>3, <3>1, <3>2 DEF StartListens, TypeOK
    <3>4. socket_ > 0 => socket_ \in Fds
      BY ServerAssumption DEF TypeOK, Fds
    <3>5. NotAClient'
      BY <1>3, <2>2, <3>1, <3>4 DEF StartListens
    <3>6. NobodyAccepts'
      BY <1>3 DEF StartListens
    <3> QED BY <3>3, <3>5, <3>6
  <2> QED BY <1>3, <2>1, <2>2 DEF StartListens
<1>4. CASE StartRefused
  BY <1>4 DEF StartRefused
<1>5. CASE StartHandle
  <2>1. PICK h \in Unstarted : hpc' = [hpc EXCEPT ![h] = "poll"]
    BY <1>5 DEF StartHandle
  <2>2. /\ h \in Handlers /\ hpc[h] = "none"
        /\ \A g \in Handlers : hpc'[g] = IF g = h THEN "poll" ELSE hpc[g]
    BY <2>1 DEF Unstarted, TypeOK
  <2>3. Owned' /\ HeldOnce' /\ ReservedOnce'
    BY <1>5, <2>2, ServerAssumption DEF StartHandle, TypeOK
  <2>4. NotAClient'
    BY <1>5 DEF StartHandle
  <2>5. ~Stopped' /\ \A g \in Handlers : hpc'[g] \notin {"accept", "inside", "add"}
    BY <1>5, <2>2 DEF StartHandle, TypeOK
  <2>6. NobodyAccepts'
    BY <2>5
  <2> QED BY <2>3, <2>4, <2>6
<1>6. CASE StopBegins
  BY <1>6 DEF StopBegins
<1>7. CASE StopJoins
  BY <1>7 DEF StopJoins
<1>8. CASE StopCloses
  <2>1. CASE socket_ > 0
    <3>1. socket_ \in Fds
      BY <2>1, ServerAssumption DEF TypeOK, Fds
    <3>2. \A g \in Fds : file'[g] = IF g = socket_ THEN Free ELSE file[g]
      BY <1>8, <2>1, <3>1 DEF StopCloses, Close, TypeOK
    <3>3. Owned' /\ HeldOnce' /\ ReservedOnce'
      BY <1>8, <2>1, <3>1, <3>2 DEF StopCloses, TypeOK
    <3>4. NotAClient' /\ NobodyAccepts'
      BY <1>8, <2>1, <3>1, <3>2 DEF StopCloses
    <3> QED BY <3>3, <3>4
  <2>2. CASE ~(socket_ > 0)
    BY <1>8, <2>2 DEF StopCloses
  <2> QED BY <2>1, <2>2
<1>9. CASE StopRemoves
  <2>1. CASE clients = {} /\ apc' = "idle" /\ UNCHANGED <<clients, file, watched, backlog>>
    BY <1>9, <2>1 DEF StopRemoves
  <2>2. ASSUME NEW f \in clients, clients' = clients \ {f}, Close(f), UNCHANGED apc
        PROVE  Inv'
    <3>1. f \in Fds
      BY <2>2 DEF TypeOK
    <3>2. \A g \in Fds : file'[g] = IF g = f THEN Free ELSE file[g]
      BY <2>2, <3>1 DEF Close, TypeOK
    <3>3. Owned' /\ HeldOnce' /\ ReservedOnce'
      BY <1>9, <2>2, <3>1, <3>2 DEF StopRemoves, TypeOK
    <3>4. socket_ > 0 => socket_ \in Fds
      BY ServerAssumption DEF TypeOK, Fds
    <3>5. NotAClient' /\ NobodyAccepts'
      BY <1>9, <2>2, <3>1, <3>2, <3>4 DEF StopRemoves
    <3> QED BY <3>3, <3>5
  <2> QED BY <1>9, <2>1, <2>2 DEF StopRemoves
<1>10. CASE MapRace
  BY <1>10 DEF MapRace
<1> QED BY <1>1, <1>2, <1>3, <1>4, <1>5, <1>6, <1>7, <1>8, <1>9, <1>10 DEF Application, Stop

\* A handler: a connection's number goes from accept4 through hfd to clients.
LEMMA HandlerKeepsInv ==
  ASSUME Inv, TypeOK', NEW h \in Handlers, Handler(h)
  PROVE  Inv'
<1> USE FreeIsNoConn DEF Inv, Owned, HeldOnce, ReservedOnce, Inside, NotAClient,
                        NobodyAccepts, Stopped, Holds, facade, epoll, Goes
<1>1. CASE HandlerEnds(h)
  BY <1>1 DEF HandlerEnds, TypeOK
<1>2. CASE Event(h)
  BY <1>2 DEF Event, Readable, TypeOK
<1>3. CASE Accept(h)
  <2> DEFINE f == hfd[h]
  <2>1. PICK c \in backlog : file' = [file EXCEPT ![f] = c]
    BY <1>3 DEF Accept
  <2>2. /\ h \in Inside /\ f \in Fds /\ file[f] = Free
        /\ c \in Conns /\ c # Listen /\ c # Free
    BY <1>3 DEF Accept, TypeOK
  <2>3. socket_ > 0 /\ f # socket_
    BY <2>2
  <2>4. \A g \in Fds : file'[g] = IF g = f THEN c ELSE file[g]
    BY <2>1 DEF TypeOK
  <2>5. \A g \in Handlers : hpc'[g] = IF g = h THEN "add" ELSE hpc[g]
    BY <1>3 DEF Accept, TypeOK
  <2>6. f \notin clients /\ \A g \in Handlers : ~Holds(g, f)
    BY <2>2
  <2>7. UNCHANGED <<clients, socket_, state_, apc, sock, hfd>>
    BY <1>3 DEF Accept
  <2> HIDE DEF f
  <2>8. \A g \in Handlers, e \in Fds :
          Holds(g, e)' <=> Holds(g, e) \/ (g = h /\ e = f)
    BY <2>2, <2>5, <2>7 DEF f
  <2>9. Owned'
    BY <2>2, <2>4, <2>6, <2>7, <2>8
  <2>10. HeldOnce'
    BY <2>6, <2>7, <2>8
  <2>11. ReservedOnce'
    <3> SUFFICES ASSUME NEW g \in Inside'
                 PROVE  /\ file'[hfd[g]] = Free /\ hfd[g] # socket_
                        /\ \A e \in Inside' \ {g} : hfd[e] # hfd[g]
      BY <2>7
    <3>1. g \in Inside /\ g # h /\ \A e \in Inside' : e \in Inside
      BY <2>5
    <3>2. hfd[g] \in Fds /\ hfd[g] # f
      BY <2>2, <3>1 DEF TypeOK, f
    <3> QED BY <2>4, <3>1, <3>2
  <2>12. NotAClient'
    <3>1. ASSUME apc = "start", sock > 0 PROVE sock \in Fds /\ sock # f
      BY <2>2, <3>1, ServerAssumption DEF TypeOK, Fds
    <3>2. socket_ \in Fds
      BY <2>3, ServerAssumption DEF TypeOK, Fds
    <3> QED BY <2>3, <2>4, <2>7, <3>1, <3>2
  <2>13. NobodyAccepts'
    <3>1. socket_ \in Fds
      BY <2>3, ServerAssumption DEF TypeOK, Fds
    <3>2. hpc[h] = "inside"
      BY <2>2
    <3> QED BY <2>3, <2>4, <2>5, <2>7, <3>1, <3>2
  <2> QED BY <2>9, <2>10, <2>11, <2>12, <2>13
<1>4. CASE AcceptAgain(h)
  <2>1. \A g \in Handlers : /\ hpc'[g] = IF g = h THEN "poll" ELSE hpc[g]
                            /\ hfd'[g] = IF g = h THEN 0 ELSE hfd[g]
    BY <1>4 DEF AcceptAgain, TypeOK
  <2>2. hpc[h] = "inside" /\ UNCHANGED <<clients, socket_, state_, apc, sock, file>>
    BY <1>4 DEF AcceptAgain
  <2>3. \A g \in Handlers, e \in Fds : Holds(g, e)' <=> Holds(g, e)
    BY <2>1, <2>2
  <2>4. Owned' /\ HeldOnce'
    BY <2>2, <2>3
  <2>5. ReservedOnce' /\ NotAClient' /\ NobodyAccepts'
    BY <2>1, <2>2
  <2> QED BY <2>4, <2>5
<1>5. CASE AcceptFails(h)
  BY <1>5 DEF AcceptFails
<1>6. CASE AddClient(h)
  <2>1. hfd[h] \in Fds /\ Holds(h, hfd[h])
    BY <1>6 DEF AddClient, TypeOK
  <2>2. \A g \in Handlers : /\ hpc'[g] = IF g = h THEN "accept" ELSE hpc[g]
                            /\ hfd'[g] = IF g = h THEN 0 ELSE hfd[g]
    BY <1>6 DEF AddClient, TypeOK
  <2>3. clients' = clients \cup {hfd[h]}
    BY <1>6 DEF AddClient
  <2>4. UNCHANGED <<file, socket_, state_, apc, sock>>
    BY <1>6 DEF AddClient
  <2>5. Owned'
    <3> SUFFICES ASSUME NEW f \in Fds
                 PROVE  file[f] \in Conns
                          <=> f \in clients' \/ \E g \in Handlers : Holds(g, f)'
      BY <2>4
    <3>1. file[f] \in Conns <=> f \in clients \/ \E g \in Handlers : Holds(g, f)
      OBVIOUS
    <3>2. \A g \in Handlers : Holds(g, f)' <=> g # h /\ Holds(g, f)
      BY <2>2
    <3>3. CASE f = hfd[h]
      BY <2>1, <2>3, <3>1, <3>3
    <3>4. CASE f # hfd[h]
      <4>1. ~Holds(h, f)
        BY <3>4
      <4>2. f \in clients' <=> f \in clients
        BY <2>3, <3>4
      <4> QED BY <3>1, <3>2, <4>1, <4>2
    <3> QED BY <3>3, <3>4
  <2>6. HeldOnce'
    BY <2>1, <2>2, <2>3
  <2>7. NotAClient' /\ NobodyAccepts'
    BY <2>1, <2>2, <2>4
  <2>8. ReservedOnce'
    BY <2>1, <2>2, <2>4
  <2> QED BY <2>5, <2>6, <2>7, <2>8
<1>7. CASE LoopGoesOn(h) \/ NoEvent(h)
  BY <1>7 DEF LoopGoesOn, NoEvent, TypeOK
<1>8. CASE CallAccept(h)
  <2>1. PICK f \in Fds : Lowest(f) /\ hfd' = [hfd EXCEPT ![h] = f]
    BY <1>8 DEF CallAccept
  <2>2. \A g \in Handlers : /\ hpc'[g] = IF g = h THEN "inside" ELSE hpc[g]
                            /\ hfd'[g] = IF g = h THEN f ELSE hfd[g]
    BY <1>8, <2>1 DEF CallAccept, TypeOK
  <2>3. /\ hpc[h] = "accept" /\ file[socket_] = Listen
        /\ UNCHANGED <<clients, socket_, state_, apc, sock, file>>
    BY <1>8 DEF CallAccept
  <2>4. file[f] = Free /\ f # socket_ /\ \A g \in Inside : hfd[g] # f
    BY <2>1, <2>3 DEF Lowest, Unused
  <2>5. \A g \in Handlers, e \in Fds : Holds(g, e)' <=> Holds(g, e)
    BY <2>2, <2>3
  <2>6. Owned' /\ HeldOnce'
    BY <2>3, <2>5
  <2>7. ReservedOnce'
    BY <2>2, <2>3, <2>4
  <2>8. NotAClient' /\ NobodyAccepts'
    BY <2>2, <2>3
  <2> QED BY <2>6, <2>7, <2>8
<1> QED BY <1>1, <1>2, <1>3, <1>4, <1>5, <1>6, <1>7, <1>8 DEF Handler

-----------------------------------------------------------------------------
(* The theorems.                                                           *)

\* The inductive invariant: who has which descriptor, what socket_ may name,
\* and that nobody accepts once stop() has closed the listening socket.
THEOREM ServerInvariant == Spec => []Inv
<1>1. Init => Inv
  BY InitTypeOK, FreeIsNoConn
  DEF Init, Inv, Owned, HeldOnce, ReservedOnce, Inside, NotAClient, NobodyAccepts,
      Stopped, Holds
<1>2. Inv /\ [Next]_vars => Inv'
  <2> SUFFICES ASSUME Inv, [Next]_vars PROVE Inv'
    OBVIOUS
  <2>1. TypeOK'
    BY NextTypeOK DEF Inv
  <2>2. CASE Application \/ MapRace \/ \E c \in Conns : PeerConnects(c)
    BY <2>1, <2>2, ApplicationKeepsInv
  <2>3. CASE \E h \in Handlers : Handler(h)
    BY <2>1, <2>3, HandlerKeepsInv
  <2>4. CASE UNCHANGED vars
    BY <2>1, <2>4 DEF vars, facade, epoll, Inv, Owned, HeldOnce, ReservedOnce, Inside,
                      NotAClient, NobodyAccepts, Stopped, Holds
  <2> QED BY <2>2, <2>3, <2>4 DEF Next
<1> QED BY <1>1, <1>2, PTL DEF Spec

\* An open connection's number is in clients or in the hand of the thread that
\* accepted it: start() and stop() in any order lose none and close none twice.
THEOREM ServerDescriptorsOwned == Spec => []DescriptorsOwned
<1>1. Inv => DescriptorsOwned
  BY DEF Inv, Owned, DescriptorsOwned, Holds
<1> QED BY <1>1, ServerInvariant, PTL

\* stop() leaves no connection open and none in clients, also when start() has
\* lost track of a thread, as soon as that is gone.
THEOREM ServerStopReleases == Spec => []StopReleases
<1>1. Inv => StopReleases
  <2> SUFFICES ASSUME Inv, apc = "idle", state_ = "STOPPED",
                      \A h \in Handlers : hpc[h] \in {"none", "done"}
               PROVE  clients = {} /\ \A f \in Fds : file[f] \notin Conns
    BY DEF StopReleases
  <2>1. clients = {}
    BY DEF Inv, NobodyAccepts, Stopped
  <2> QED BY <2>1 DEF Inv, Owned, Holds
<1> QED BY <1>1, ServerInvariant, PTL

\* A connection is closed by the loop of stop() over clients, and by nothing
\* else: not by close(socket_), though socket_ keeps its value after a stop()
\* and a second one closes whatever has the number by then (epoll.cpp:188-203).
ClosedByStopOnly ==
  \A f \in Fds :
    file[f] \in Conns /\ file'[f] # file[f]
      => apc = "remove" /\ f \in clients /\ file'[f] = Free

THEOREM ServerClosesByStopOnly == Spec => [][ClosedByStopOnly]_vars
<1>1. Inv /\ [Next]_vars => [ClosedByStopOnly]_vars
  <2> SUFFICES ASSUME Inv, Next, NEW f \in Fds, file[f] \in Conns, file'[f] # file[f]
               PROVE  apc = "remove" /\ f \in clients /\ file'[f] = Free
    BY DEF ClosedByStopOnly
  <2> USE FreeIsNoConn DEF Inv, TypeOK
  <2>1. CASE StartListens
    BY <2>1 DEF StartListens, Lowest, Unused
  <2>2. CASE StopCloses
    <3>1. socket_ \in Fds /\ file' = [file EXCEPT ![socket_] = Free]
      BY <2>2 DEF StopCloses, Close, Fds
    <3>2. file[socket_] \notin Conns
      BY <3>1 DEF NotAClient, Fds
    <3> QED BY <3>1, <3>2
  <2>3. CASE StopRemoves
    BY <2>3 DEF StopRemoves, Close
  <2>4. ASSUME NEW h \in Handlers, Handler(h)  PROVE Accept(h)
    BY <2>4 DEF Handler, HandlerEnds, LoopGoesOn, Event, NoEvent, CallAccept,
                AcceptAgain, AcceptFails, AddClient
  <2>5. ASSUME NEW h \in Handlers, Accept(h)  PROVE FALSE
    <3>1. h \in Inside /\ file[hfd[h]] = Free /\ hfd[h] \in Fds
      BY <2>5 DEF Accept, Goes, Inside, ReservedOnce
    <3> QED BY <2>5, <3>1 DEF Accept
  <2>6. CASE StartFails \/ StartRefused \/ StartHandle \/ StopBegins \/ StopJoins
             \/ MapRace \/ \E c \in Conns : PeerConnects(c)
    BY <2>6 DEF StartFails, StartRefused, StartHandle, StopBegins, StopJoins,
                MapRace, PeerConnects
  <2> QED
    BY <2>1, <2>2, <2>3, <2>4, <2>5, <2>6 DEF Next, Application, Stop
<1> QED BY <1>1, ServerInvariant, PTL DEF Spec
=============================================================================
