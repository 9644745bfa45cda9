-------------------------- MODULE NetlibClientProofs --------------------------
(***************************************************************************)
(* Theorems about NetlibClient, for every number of connections.           *)
(***************************************************************************)
EXTENDS NetlibClient, TLAPS

-----------------------------------------------------------------------------
(* Types.  While connect() is under way its connection has a number and a  *)
(* descriptor; no connection is known before it exists.                    *)

TypeInv ==
  /\ TypeOK
  /\ apc \in {"start", "store"} => connects \in Conns /\ sock \in Fds
  /\ \A f \in Fds : file[f] <= connects
  /\ \A c \in stray \cup registered : c <= connects

LEMMA BehindType == TypeOK => Behind \in Conns \cup {None}
BY DEF TypeOK, Behind, Fds, Conns, NoSocket

LEMMA TypeInit == Init => TypeInv
<1>1. 0 \in 0..MaxData /\ 0 \in 0..MaxConnects
  BY BoundsAssumption
<1>2. Init => TypeOK
  BY <1>1 DEF Init, TypeOK
<1>3. Init => \A f \in Fds : file[f] <= connects
  BY DEF Init, None
<1> QED
  BY <1>2, <1>3 DEF Init, TypeInv

LEMMA TypeApp ==
  ASSUME TypeInv, ConnectFails \/ Connect \/ Disconnect \/ AppProceeds
  PROVE  TypeInv'
<1> USE DEF TypeInv, TypeOK
<1>1. CASE ConnectFails
  BY <1>1 DEF ConnectFails, MayConnect, handlers, network, history
<1>2. CASE Connect
  <2>1. connects' = connects + 1 /\ connects + 1 \in Conns /\ connects \in Int
    BY <1>2, BoundsAssumption DEF Connect, Conns
  <2>2. PICK f \in Fds : sock' = f /\ file' = [file EXCEPT ![f] = connects + 1]
    BY <1>2 DEF Connect
  <2>3. \A g \in Fds : file[g] \in Int /\ file'[g] <= connects'
    BY <2>1, <2>2, BoundsAssumption DEF Conns, None
  <2>4. \A c \in stray \cup registered : c \in Int /\ c <= connects'
    BY <2>1, BoundsAssumption DEF Conns
  <2>5. connects' \in 0..MaxConnects
    BY <2>1, BoundsAssumption DEF Conns
  <2>6. TypeOK'
    BY <1>2, <2>1, <2>2, <2>5 DEF Connect, handlers
  <2> QED
    BY <1>2, <2>1, <2>2, <2>3, <2>4, <2>6 DEF Connect
<1>3. CASE Disconnect
  BY <1>3 DEF Disconnect, handlers, network, history
<1>4. CASE StartHandleThrows
  BY <1>4 DEF StartHandleThrows, handlers, network, history
<1>5. CASE AddFdFails
  BY <1>5 DEF AddFdFails, handlers, network, history
<1>6. CASE AddFd
  BY <1>6 DEF AddFd, handlers, network, history
<1>7. CASE Spawn
  BY <1>7 DEF Spawn, Handlers, network, history
<1>8. CASE Join
  BY <1>8 DEF Join, handlers, network, history
<1>9. CASE StopClose
  BY <1>9 DEF StopClose, CloseSocket, handlers, network, history, None
<1>10. CASE StopUnset
  BY <1>10 DEF StopUnset, handlers, network, history
<1> QED
  BY <1>1, <1>2, <1>3, <1>4, <1>5, <1>6, <1>7, <1>8, <1>9, <1>10 DEF AppProceeds

LEMMA TypeHandler ==
  ASSUME TypeInv, NEW h \in Handlers, HandlerStep(h)
  PROVE  TypeInv'
<1> USE DEF TypeInv, TypeOK, Go, AppKept, history
<1>1. CASE Leave(h)
  BY <1>1 DEF Leave
<1>11. CASE LoopGoesOn(h)
  BY <1>11 DEF LoopGoesOn
<1>12. CASE Wait(h)
  <2>1. /\ hpc' = [hpc EXCEPT ![h] = "loop"]
        /\ UNCHANGED <<state_, socket_, need_stop_, handleth_, apc, sock, connects, hconn,
                       file, registered, inbox, peer, proc, paired, stray>>
    BY <1>12 DEF Wait
  <2>2. PICK C \in SUBSET {c \in Conns : Ready(c)} :
          hbatch' = [hbatch EXCEPT ![h] = {[conn |-> c, hup |-> HungUp(c)] : c \in C}]
    BY <1>12 DEF Wait
  <2>3. \A c \in Conns : HungUp(c) \in BOOLEAN
    BY DEF HungUp
  <2>4. {[conn |-> c, hup |-> HungUp(c)] : c \in C} \in SUBSET Events
    BY <2>3 DEF Events
  <2>5. hbatch' \in [Handlers -> SUBSET Events]
    BY <2>2, <2>4
  <2>6. (\A f \in Fds : file[f] <= connects)' /\ (\A c \in stray \cup registered : c <= connects)'
    BY <2>1
  <2>7. hpc' \in [Handlers -> {"none", "loop", "wait", "read", "recv", "eof",
                            "eof_unset", "hup", "hup_unset", "notify", "exited"}]
    BY <2>1
  <2>8. TypeOK'
    BY <2>1, <2>5, <2>7
  <2> QED
    BY <2>1, <2>6, <2>8
<1>2. CASE Event(h)
  <2>1. PICK e \in hbatch[h] :
          /\ hbatch' = [hbatch EXCEPT ![h] = @ \ {e}]
          /\ hconn' = [hconn EXCEPT ![h] = IF need_stop_ THEN None ELSE e.conn]
          /\ hpc' = [hpc EXCEPT ![h] =
                       IF need_stop_ THEN "loop" ELSE IF e.hup THEN "hup" ELSE "read"]
    BY <1>2 DEF Event
  <2>2. e.conn \in Conns /\ hbatch[h] \ {e} \in SUBSET Events
    BY DEF Events
  <2> QED
    BY <1>2, <2>1, <2>2 DEF Event
<1>3. CASE Close(h)
  BY <1>3, BoundsAssumption DEF Close, CloseSocket, None
<1>4. CASE Unset(h)
  BY <1>4 DEF Unset
<1>5. CASE Notify(h)
  BY <1>5 DEF Notify
<1>6. CASE Recv(h)
  BY <1>6, BehindType DEF Recv
<1>7. CASE Received(h)
  <2>1. 0 \in 0..MaxData
    BY BoundsAssumption
  <2>2. inbox' \in [Conns -> 0..MaxData]
    BY <1>7, <2>1 DEF Received
  <2>3. /\ hpc' \in [Handlers -> {"none", "loop", "wait", "read", "recv", "eof",
                                "eof_unset", "hup", "hup_unset", "notify", "exited"}]
        /\ hconn' \in [Handlers -> Conns \cup {None}]
    BY <1>7 DEF Received
  <2> QED
    BY <1>7, <2>2, <2>3 DEF Received
<1>8. CASE RecvThrows(h)
  BY <1>8 DEF RecvThrows, handlers
<1> QED
  BY <1>1, <1>2, <1>3, <1>4, <1>5, <1>6, <1>7, <1>8, <1>11, <1>12 DEF HandlerStep

LEMMA TypePeer ==
  ASSUME TypeInv, NEW c \in Conns, PeerSends(c) \/ PeerHangsUp(c)
  PROVE  TypeInv'
BY BoundsAssumption DEF TypeInv, TypeOK, PeerSends, PeerHangsUp, handlers, history

LEMMA TypeNext == TypeInv /\ [Next]_vars => TypeInv'
<1> SUFFICES ASSUME TypeInv, [Next]_vars PROVE TypeInv'
  OBVIOUS
<1>1. CASE UNCHANGED vars
  BY <1>1 DEF TypeInv, TypeOK, vars
<1> QED
  BY <1>1, TypeApp, TypeHandler, TypePeer DEF Next, Running, Terminated

\* Every variable has its type; a started connection has its descriptor.
THEOREM ClientTypeCorrect == SafetySpec => []TypeOK
<1>1. TypeInv => TypeOK
  BY DEF TypeInv
<1> QED
  BY <1>1, TypeInit, TypeNext, PTL DEF SafetySpec

LEMMA TypesAlways == SafetySpec => []TypeInv
BY TypeInit, TypeNext, PTL DEF SafetySpec

-----------------------------------------------------------------------------
(* The client of an application that disconnects before it connects again. *)

\* One handler at most, and none while connect() or the end of disconnect()
\* is under way.
Control ==
  /\ \A h \in Handlers : hpc[h] \notin {"none", "exited"} => h = handleth_
  /\ apc \in {"start", "store", "close", "unset"} => handleth_ = None

\* What the application thread knows of the socket and of its connection.
AppSees ==
  /\ apc \in {"start", "store"} =>
       /\ socket_ = NoSocket /\ state_ = "WAITING"
       /\ file[sock] = connects /\ connects \notin stray
  /\ apc = "start" => connects \notin registered
  /\ apc \in {"stop", "close", "unset"} => state_ = "DISCONNECTED"
  /\ apc = "unset" => Behind = None
  /\ apc = "idle" /\ handleth_ = None => socket_ = NoSocket
  /\ registered \cap stray = {}

\* What the handler knows of it.
HandlerSees ==
  \A h \in Handlers :
    /\ hpc[h] \in {"read", "hup", "recv"} => Behind = hconn[h] /\ hconn[h] # None
    /\ hpc[h] \in {"read", "recv"} => inbox[hconn[h]] > 0
    /\ hpc[h] = "hup_unset" => socket_ # NoSocket /\ Behind = None
    /\ hpc[h] = "notify" => socket_ = NoSocket
    /\ hpc[h] \notin {"eof", "eof_unset"}
    /\ hbatch[h] # {} => hpc[h] = "loop"
    /\ \A e \in hbatch[h] :
         /\ Behind = e.conn /\ e.conn # None
         /\ ~e.hup => inbox[e.conn] > 0
    /\ \A d, e \in hbatch[h] : d = e

PairedInv ==
  paired => Control /\ AppSees /\ HandlerSees /\ DescriptorsMatch /\ StateMatchesSocket

LEMMA PairedInit == Init => PairedInv
BY DEF Init, PairedInv, Control, AppSees, HandlerSees, DescriptorsMatch,
       StateMatchesSocket, Behind

\* Without a joinable thread no handler runs.
LEMMA NoHandler ==
  ASSUME TypeInv, Control, handleth_ = None
  PROVE  \A h \in Handlers : hpc[h] \in {"none", "exited"}
BY BoundsAssumption DEF TypeInv, TypeOK, Control, Handlers, Conns, None

\* A handler that runs is the joinable one, and the application thread is
\* not at work on the socket.
LEMMA OneHandler ==
  ASSUME TypeInv, Control, NEW h \in Handlers, hpc[h] \notin {"none", "exited"}
  PROVE  /\ h = handleth_
         /\ apc \in {"idle", "stop"}
         /\ \A g \in Handlers \ {h} : hpc[g] \in {"none", "exited"}
<1>1. h = handleth_
  BY DEF Control
<1>2. handleth_ # None
  BY <1>1, BoundsAssumption DEF Handlers, Conns, None
<1>3. apc \in {"idle", "stop"}
  BY <1>2 DEF Control, TypeInv, TypeOK
<1>4. ASSUME NEW g \in Handlers \ {h} PROVE hpc[g] \in {"none", "exited"}
  BY <1>1 DEF Control, TypeInv, TypeOK
<1> QED
  BY <1>1, <1>3, <1>4

LEMMA PairedApp ==
  ASSUME TypeInv, PairedInv, ConnectFails \/ Connect \/ Disconnect \/ AppProceeds
  PROVE  PairedInv'
<1> SUFFICES ASSUME paired'
             PROVE  (Control /\ AppSees /\ HandlerSees
                       /\ DescriptorsMatch /\ StateMatchesSocket)'
  BY DEF PairedInv
<1> USE DEF TypeInv, TypeOK
<1>a. paired
  BY DEF ConnectFails, Connect, Disconnect, AppProceeds, StartHandleThrows, AddFdFails,
         AddFd, Spawn, Join, StopClose, StopUnset, history
<1>0. paired /\ Control /\ AppSees /\ HandlerSees /\ DescriptorsMatch /\ StateMatchesSocket
  BY <1>a DEF PairedInv
<1>1. CASE ConnectFails
  <2>1. handleth_ = None /\ socket_ = NoSocket /\ apc = "idle"
    BY <1>0, <1>1 DEF ConnectFails, MayConnect, AppSees
  <2>2. /\ state_' = "ERROR"
        /\ UNCHANGED <<socket_, handleth_, apc, sock, connects, hpc, hconn, hbatch, file,
                       registered, inbox, stray>>
    BY <1>1 DEF ConnectFails, handlers, network
  <2>3. Control' /\ HandlerSees'
    BY <1>0, <2>2 DEF Control, HandlerSees, Behind
  <2>4. AppSees' /\ DescriptorsMatch' /\ StateMatchesSocket'
    BY <1>0, <2>1, <2>2 DEF AppSees, DescriptorsMatch, StateMatchesSocket, Behind
  <2> QED
    BY <2>3, <2>4
<1>2. CASE Connect
  <2>1. /\ handleth_ = None /\ socket_ = NoSocket /\ apc = "idle"
        /\ \A h \in Handlers : hpc[h] \in {"none", "exited"}
    BY <1>0, <1>2, NoHandler DEF Connect, MayConnect, AppSees
  <2>2. PICK f \in Fds :
          file[f] = None /\ sock' = f /\ file' = [file EXCEPT ![f] = connects + 1]
    BY <1>2 DEF Connect
  <2>3. /\ UNCHANGED <<socket_, handleth_, hpc, hconn, hbatch, inbox, registered, stray>>
        /\ state_' = "WAITING" /\ apc' = "start" /\ connects' = connects + 1
    BY <1>2 DEF Connect, handlers
  <2>4. connects' \notin stray \cup registered
    BY <2>3
  <2>5. \A g \in Fds : file[g] = None \/ file[g] \in stray
    BY <1>0, <2>1, BoundsAssumption DEF DescriptorsMatch, Fds, Conns, NoSocket
  <2>6. None \notin stray
    BY BoundsAssumption DEF Conns, None
  <2>7. HandlerSees'
    BY <1>0, <2>1, <2>3 DEF HandlerSees
  <2>8. Control' /\ StateMatchesSocket'
    BY <2>1, <2>3 DEF Control, StateMatchesSocket
  <2>9. AppSees'
    BY <1>0, <2>1, <2>2, <2>3, <2>4 DEF AppSees
  <2>10. DescriptorsMatch'
    <3>1. \A c \in stray : \E g \in Fds : g # socket_' /\ file'[g] = c
      BY <1>0, <2>2, <2>3, <2>6 DEF DescriptorsMatch
    <3>2. Behind' = None
      BY <2>1, <2>3 DEF Behind
    <3> QED
      BY <2>1, <2>2, <2>3, <2>5, <2>6, <3>1, <3>2 DEF DescriptorsMatch
  <2> QED
    BY <2>7, <2>8, <2>9, <2>10
<1>3. CASE Disconnect
  <2>1. /\ state_' = "DISCONNECTED" /\ apc = "idle" /\ apc' = "stop"
        /\ UNCHANGED <<socket_, handleth_, sock, connects, hpc, hconn, hbatch, file,
                       registered, inbox, paired, stray>>
    BY <1>3 DEF Disconnect, handlers, network, history
  <2>2. Control' /\ AppSees' /\ StateMatchesSocket'
    BY <1>0, <2>1 DEF Control, AppSees, StateMatchesSocket
  <2>3. HandlerSees' /\ DescriptorsMatch'
    BY <1>0, <2>1 DEF HandlerSees, DescriptorsMatch, Behind
  <2> QED
    BY <2>2, <2>3
<1>4. CASE StartHandleThrows
  BY <1>0, <1>4 DEF StartHandleThrows, AppSees
<1>5. CASE AddFdFails
  <2>1. /\ apc = "start" /\ apc' = "idle" /\ stray' = stray \cup ({file[sock]} \ {None})
        /\ UNCHANGED <<state_, socket_, handleth_, connects, hpc, hconn, hbatch, file,
                       registered, inbox, paired>>
    BY <1>5 DEF AddFdFails, handlers, network
  <2>2. /\ socket_ = NoSocket /\ state_ = "WAITING" /\ handleth_ = None
        /\ file[sock] = connects /\ connects \notin registered
        /\ connects \in Conns /\ sock \in Fds
    BY <1>0, <2>1 DEF AppSees, Control
  <2>3. connects # None /\ sock # NoSocket
    BY <2>2, BoundsAssumption DEF Conns, Fds, None, NoSocket
  <2>4. stray' = stray \cup {connects}
    BY <2>1, <2>2, <2>3
  <2>5. Control' /\ HandlerSees'
    BY <1>0, <2>1, <2>2 DEF Control, HandlerSees, Behind
  <2>6. AppSees' /\ StateMatchesSocket'
    BY <1>0, <2>1, <2>2, <2>4 DEF AppSees, StateMatchesSocket
  <2>7. Behind' = None /\ None \notin stray'
    <3>1. Behind' = None
      BY <2>1, <2>2 DEF Behind
    <3>2. None \notin stray'
      BY <2>2, <2>3, <2>4, BoundsAssumption DEF Conns, None
    <3> QED
      BY <3>1, <3>2
  <2>8. DescriptorsMatch'
    BY <1>0, <2>1, <2>2, <2>3, <2>4, <2>7 DEF DescriptorsMatch
  <2> QED
    BY <2>5, <2>6, <2>8
<1>6. CASE AddFd
  <2>1. /\ apc = "start" /\ apc' = "store" /\ registered' = registered \cup {file[sock]}
        /\ UNCHANGED <<state_, socket_, handleth_, sock, connects, hpc, hconn, hbatch,
                       file, inbox, paired, stray>>
    BY <1>6 DEF AddFd, handlers, network, history
  <2>2. Control' /\ AppSees' /\ StateMatchesSocket'
    BY <1>0, <2>1 DEF Control, AppSees, StateMatchesSocket
  <2>3. HandlerSees' /\ DescriptorsMatch'
    BY <1>0, <2>1 DEF HandlerSees, DescriptorsMatch, Behind
  <2> QED
    BY <2>2, <2>3
<1>7. CASE Spawn
  <2>1. /\ handleth_ = None
        /\ \A h \in Handlers : hpc[h] \in {"none", "exited"}
    BY <1>0, <1>7, NoHandler DEF Spawn, Control
  <2>2. /\ socket_' = sock /\ handleth_' = connects /\ apc' = "idle"
        /\ hpc' = [hpc EXCEPT ![connects] = "loop"]
        /\ UNCHANGED <<state_, file, hbatch, hconn, inbox, registered, stray, connects>>
    BY <1>7 DEF Spawn, network, history
  <2>3. /\ apc = "store" /\ socket_ = NoSocket /\ sock \in Fds /\ connects \in Conns
        /\ file[sock] = connects /\ state_ = "WAITING" /\ connects \notin stray
    BY <1>0, <1>7 DEF Spawn, AppSees
  <2>4. sock # NoSocket /\ connects # None
    BY <2>3, BoundsAssumption DEF Fds, Conns, NoSocket, None
  <2>5. \A h \in Handlers : hbatch[h] = {}
    BY <1>0, <2>1 DEF HandlerSees
  <2>6. Control' /\ HandlerSees'
    BY <2>1, <2>2, <2>5 DEF Control, HandlerSees
  <2>7. AppSees' /\ StateMatchesSocket'
    BY <1>0, <2>1, <2>2, <2>3, <2>4 DEF AppSees, StateMatchesSocket
  <2>8. DescriptorsMatch'
    <3>1. \A f \in Fds : file[f] # None /\ file[f] \notin stray => f = sock
      BY <1>0, <2>3, BoundsAssumption DEF DescriptorsMatch, Fds, Conns, NoSocket
    <3>2. \A c \in stray : \E f \in Fds : f # sock /\ file[f] = c
      BY <1>0, <2>3 DEF DescriptorsMatch
    <3>3. Behind' = connects
      BY <2>2, <2>3, <2>4 DEF Behind
    <3> QED
      BY <2>2, <2>3, <2>4, <3>1, <3>2, <3>3 DEF DescriptorsMatch
  <2> QED
    BY <2>6, <2>7, <2>8
<1>8. CASE Join
  <2>1. \A h \in Handlers : hpc[h] \in {"none", "exited"}
    BY <1>0, <1>8, NoHandler DEF Join, Control
  <2>2. /\ apc = "stop" /\ apc' = "close" /\ handleth_' = None
        /\ UNCHANGED <<state_, socket_, sock, connects, hpc, hconn, hbatch, file,
                       registered, inbox, paired, stray>>
    BY <1>8 DEF Join, handlers, network, history
  <2>3. Control' /\ AppSees' /\ StateMatchesSocket'
    BY <1>0, <2>1, <2>2 DEF Control, AppSees, StateMatchesSocket
  <2>4. HandlerSees' /\ DescriptorsMatch'
    BY <1>0, <2>1, <2>2 DEF HandlerSees, DescriptorsMatch, Behind
  <2> QED
    BY <2>3, <2>4
<1>9. CASE StopClose
  <2>1. /\ handleth_ = None
        /\ \A h \in Handlers : hpc[h] \in {"none", "exited"}
    BY <1>0, <1>9, NoHandler DEF StopClose, Control
  <2>2. /\ apc = "close" /\ apc' = "unset"
        /\ file' = [f \in Fds |-> IF f = socket_ THEN None ELSE file[f]]
        /\ UNCHANGED <<state_, socket_, handleth_, sock, connects, hpc, hconn, hbatch,
                       registered, inbox, paired, stray>>
    BY <1>9 DEF StopClose, CloseSocket, handlers, network, history
  <2>3. Behind' = None /\ None \notin stray
    BY <2>2, BoundsAssumption DEF Behind, Conns, None
  <2>4. Control' /\ StateMatchesSocket'
    BY <2>1, <2>2 DEF Control, StateMatchesSocket
  <2>5. HandlerSees' /\ AppSees'
    BY <1>0, <2>1, <2>2, <2>3 DEF HandlerSees, AppSees
  <2>6. DescriptorsMatch'
    BY <1>0, <2>2, <2>3 DEF DescriptorsMatch
  <2> QED
    BY <2>4, <2>5, <2>6
<1>10. CASE StopUnset
  <2>1. /\ handleth_ = None
        /\ \A h \in Handlers : hpc[h] \in {"none", "exited"}
    BY <1>0, <1>10, NoHandler DEF StopUnset, Control
  <2>2. /\ apc = "unset" /\ apc' = "idle" /\ socket_' = NoSocket
        /\ UNCHANGED <<state_, handleth_, sock, connects, hpc, hconn, hbatch, file,
                       registered, inbox, paired, stray>>
    BY <1>10 DEF StopUnset, handlers, network, history
  <2>3. state_ = "DISCONNECTED" /\ Behind = None
    BY <1>0, <2>2 DEF AppSees
  <2>4. NoSocket \notin Fds /\ None \notin stray
    BY BoundsAssumption DEF Fds, Conns, None, NoSocket
  <2>5. \A f \in Fds : file[f] = None \/ file[f] \in stray
    BY <1>0, <2>2, <2>3, <2>4 DEF DescriptorsMatch, Behind
  <2>6. Behind' = None
    BY <2>2 DEF Behind
  <2>7. Control' /\ AppSees' /\ HandlerSees' /\ StateMatchesSocket'
    BY <1>0, <2>1, <2>2, <2>3 DEF Control, AppSees, HandlerSees, StateMatchesSocket
  <2>8. DescriptorsMatch'
    <3>1. \A c \in stray : \E f \in Fds : f # NoSocket /\ file[f] = c
      BY <1>0, <2>4 DEF DescriptorsMatch
    <3> QED
      BY <2>2, <2>4, <2>5, <2>6, <3>1 DEF DescriptorsMatch
  <2> QED
    BY <2>7, <2>8
<1> QED
  BY <1>1, <1>2, <1>3, <1>4, <1>5, <1>6, <1>7, <1>8, <1>9, <1>10 DEF AppProceeds

\* A step of the handler to another place, without touching the socket.
LEMMA HandlerMoves ==
  ASSUME TypeInv, Control, AppSees, DescriptorsMatch, StateMatchesSocket, paired,
         NEW h \in Handlers, h = handleth_, NEW p,
         hpc[h] \notin {"hup_unset", "notify"}, p \notin {"hup_unset", "notify"},
         hpc' = [hpc EXCEPT ![h] = p],
         UNCHANGED <<state_, socket_, handleth_, apc, sock, connects, file, registered,
                     paired, stray>>
  PROVE  /\ Control' /\ AppSees' /\ DescriptorsMatch' /\ StateMatchesSocket'
         /\ Behind' = Behind
<1> USE DEF TypeInv, TypeOK
<1>1. Behind' = Behind
  BY DEF Behind
<1>2. /\ (\E g \in Handlers : hpc'[g] = "hup_unset") <=> (\E g \in Handlers : hpc[g] = "hup_unset")
      /\ (\E g \in Handlers : hpc'[g] = "notify") <=> (\E g \in Handlers : hpc[g] = "notify")
  OBVIOUS
<1>3. Control' /\ AppSees'
  BY <1>1 DEF Control, AppSees
<1>4. DescriptorsMatch'
  BY <1>1, <1>2 DEF DescriptorsMatch
<1>5. StateMatchesSocket'
  BY <1>2 DEF StateMatchesSocket
<1> QED
  BY <1>1, <1>3, <1>4, <1>5

LEMMA PairedHandler ==
  ASSUME TypeInv, PairedInv, NEW h \in Handlers, HandlerStep(h)
  PROVE  PairedInv'
<1> SUFFICES ASSUME paired
             PROVE  (Control /\ AppSees /\ HandlerSees
                       /\ DescriptorsMatch /\ StateMatchesSocket)'
  BY DEF PairedInv, HandlerStep, Leave, LoopGoesOn, Wait, Event, Close, Unset, Notify,
         Recv, Received, RecvThrows, AppKept, history
<1> USE DEF TypeInv, TypeOK, Go, AppKept, history
<1>0. Control /\ AppSees /\ HandlerSees /\ DescriptorsMatch /\ StateMatchesSocket
  BY DEF PairedInv
<1>1. /\ h = handleth_ /\ apc \in {"idle", "stop"} /\ handleth_ # None
      /\ \A g \in Handlers \ {h} : hpc[g] \in {"none", "exited"}
  <2>1. hpc[h] \notin {"none", "exited"}
    BY DEF HandlerStep, Leave, LoopGoesOn, Wait, Event, Close, Unset, Notify, Recv,
           Received, RecvThrows
  <2> QED
    BY <1>0, <2>1, OneHandler, BoundsAssumption DEF Handlers, Conns, None
<1>2. \A f \in Fds : file[f] # None /\ file[f] \notin stray => f = socket_
  BY <1>0, <1>1 DEF DescriptorsMatch
<1>3. UNCHANGED <<handleth_, apc, sock, connects, registered, paired, stray>>
  BY DEF HandlerStep, Leave, LoopGoesOn, Wait, Event, Close, Unset, Notify, Recv,
         Received, RecvThrows
<1>4. \A g \in Handlers \ {h} : hbatch[g] = {}
  BY <1>0, <1>1 DEF HandlerSees
<1>5. None \notin stray /\ NoSocket \notin Fds /\ None \notin Conns
  BY BoundsAssumption DEF Fds, Conns, None, NoSocket
<1>6. CASE Leave(h) \/ LoopGoesOn(h)
  <2>1. PICK p \in {"wait", "exited"} : hpc' = [hpc EXCEPT ![h] = p]
    BY <1>6 DEF Leave, LoopGoesOn
  <2>2. /\ hpc[h] = "loop" /\ hbatch[h] = {}
        /\ UNCHANGED <<state_, socket_, hconn, hbatch, file, inbox>>
    BY <1>6 DEF Leave, LoopGoesOn
  <2>3. /\ Control' /\ AppSees' /\ DescriptorsMatch' /\ StateMatchesSocket'
        /\ Behind' = Behind
    BY <1>0, <1>1, <1>3, <2>1, <2>2, HandlerMoves
  <2>4. HandlerSees'
    BY <1>1, <1>4, <2>1, <2>2 DEF HandlerSees
  <2> QED
    BY <2>3, <2>4
<1>7. CASE Wait(h)
  <2>1. PICK C \in SUBSET {c \in Conns : Ready(c)} :
          hbatch' = [hbatch EXCEPT ![h] = {[conn |-> c, hup |-> HungUp(c)] : c \in C}]
    BY <1>7 DEF Wait
  <2>2. /\ hpc[h] = "wait" /\ hpc' = [hpc EXCEPT ![h] = "loop"]
        /\ UNCHANGED <<state_, socket_, hconn, file, inbox>>
    BY <1>7 DEF Wait
  <2>3. /\ Control' /\ AppSees' /\ DescriptorsMatch' /\ StateMatchesSocket'
        /\ Behind' = Behind
    BY <1>0, <1>1, <1>3, <2>2, HandlerMoves
  <2>4. ASSUME NEW c \in C PROVE c = Behind /\ c # None /\ (~HungUp(c) => inbox[c] > 0)
    <3>1. c \in Conns /\ Ready(c)
      BY <2>1
    <3>2. ~\E g \in Handlers : hpc[g] = "recv"
      BY <1>1, <2>2
    <3>3. PICK f \in Fds : file[f] = c
      BY <3>1, <3>2 DEF Ready, Open
    <3>4. c \notin stray
      BY <1>0, <3>1 DEF Ready, AppSees
    <3>5. f = socket_
      BY <1>2, <1>5, <3>1, <3>3, <3>4
    <3> QED
      BY <1>5, <3>1, <3>3, <3>5 DEF Behind, Ready
  <2>5. \A e \in hbatch'[h] :
          e.conn = Behind /\ e.conn # None /\ (~e.hup => inbox[e.conn] > 0)
    BY <2>1, <2>4
  <2>6. \A d, e \in hbatch'[h] : d = e
    BY <2>1, <2>4
  <2>7. HandlerSees'
    BY <1>1, <1>4, <2>1, <2>2, <2>3, <2>5, <2>6 DEF HandlerSees
  <2> QED
    BY <2>3, <2>7
<1>8. CASE Event(h)
  <2>1. PICK e \in hbatch[h] :
          /\ hpc' = [hpc EXCEPT ![h] =
                       IF need_stop_ THEN "loop" ELSE IF e.hup THEN "hup" ELSE "read"]
          /\ hbatch' = [hbatch EXCEPT ![h] = @ \ {e}]
          /\ hconn' = [hconn EXCEPT ![h] = IF need_stop_ THEN None ELSE e.conn]
    BY <1>8 DEF Event
  <2>2. hpc[h] = "loop" /\ UNCHANGED <<state_, socket_, file, inbox>>
    BY <1>8 DEF Event
  <2>3. hbatch'[h] = {} /\ Behind = e.conn /\ e.conn # None /\ (~e.hup => inbox[e.conn] > 0)
    BY <1>0, <2>1 DEF HandlerSees
  <2>4. PICK p \in {"loop", "hup", "read"} :
          /\ hpc' = [hpc EXCEPT ![h] = p]
          /\ p \in {"hup", "read"} => hconn'[h] = Behind
          /\ p = "read" => ~e.hup
    BY <2>1, <2>3
  <2>5. /\ Control' /\ AppSees' /\ DescriptorsMatch' /\ StateMatchesSocket'
        /\ Behind' = Behind
    BY <1>0, <1>1, <1>3, <2>2, <2>4, HandlerMoves
  <2>6. \A g \in Handlers \ {h} : hpc'[g] \in {"none", "exited"} /\ hbatch'[g] = {}
    BY <1>1, <1>4, <2>1, <2>4
  <2>7. HandlerSees'
    BY <2>2, <2>3, <2>4, <2>5, <2>6 DEF HandlerSees
  <2> QED
    BY <2>5, <2>7
<1>9. CASE Close(h)
  <2>1. /\ hpc[h] = "hup" /\ hpc' = [hpc EXCEPT ![h] = "hup_unset"]
        /\ file' = [f \in Fds |-> IF f = socket_ THEN None ELSE file[f]]
        /\ UNCHANGED <<state_, socket_, hbatch>>
    BY <1>0, <1>9 DEF Close, CloseSocket, HandlerSees
  <2>2. Behind # None /\ hbatch[h] = {}
    BY <1>0, <2>1 DEF HandlerSees
  <2>3. socket_ # NoSocket /\ socket_ \in Fds
    BY <2>2 DEF Behind
  <2>4. Behind' = None
    BY <2>1, <2>3 DEF Behind
  <2>5. HandlerSees'
    BY <1>1, <1>4, <2>1, <2>2, <2>3, <2>4 DEF HandlerSees
  <2>6. Control' /\ AppSees'
    BY <1>0, <1>1, <1>3, <2>1 DEF Control, AppSees
  <2>7. StateMatchesSocket'
    BY <1>0, <1>1, <1>3, <2>1, <2>3 DEF StateMatchesSocket
  <2>8. DescriptorsMatch'
    <3>1. \E g \in Handlers : hpc'[g] = "hup_unset"
      BY <2>1
    <3> QED
      BY <1>0, <1>2, <1>3, <1>5, <2>1, <2>4, <3>1 DEF DescriptorsMatch
  <2> QED
    BY <2>5, <2>6, <2>7, <2>8
<1>10. CASE Unset(h)
  <2>1. /\ hpc[h] = "hup_unset" /\ hpc' = [hpc EXCEPT ![h] = "notify"]
        /\ socket_' = NoSocket /\ UNCHANGED <<state_, file, hbatch>>
    BY <1>0, <1>10 DEF Unset, HandlerSees
  <2>2. socket_ # NoSocket /\ Behind = None /\ hbatch[h] = {}
    BY <1>0, <2>1 DEF HandlerSees
  <2>3. \A f \in Fds : file[f] = None \/ file[f] \in stray
    BY <1>2, <2>2 DEF Behind
  <2>4. Behind' = None
    BY <2>1 DEF Behind
  <2>5. HandlerSees'
    BY <1>1, <1>4, <2>1, <2>2 DEF HandlerSees
  <2>6. Control' /\ AppSees'
    BY <1>0, <1>1, <1>3, <2>1 DEF Control, AppSees
  <2>7. \E g \in Handlers : hpc'[g] = "notify"
    BY <2>1
  <2>8. StateMatchesSocket'
    BY <2>1, <2>7 DEF StateMatchesSocket
  <2>9. DescriptorsMatch'
    <3>1. \A c \in stray : \E f \in Fds : f # NoSocket /\ file[f] = c
      BY <1>0, <1>5 DEF DescriptorsMatch
    <3> QED
      BY <1>3, <1>5, <2>1, <2>3, <2>4, <3>1 DEF DescriptorsMatch
  <2> QED
    BY <2>5, <2>6, <2>8, <2>9
<1>11. CASE Notify(h)
  <2>1. /\ hpc[h] = "notify" /\ hpc' = [hpc EXCEPT ![h] = "loop"]
        /\ state_' = "DISCONNECTED" /\ UNCHANGED <<socket_, file, hbatch>>
    BY <1>11 DEF Notify
  <2>2. socket_ = NoSocket /\ hbatch[h] = {} /\ Behind' = Behind
    BY <1>0, <2>1 DEF HandlerSees, Behind
  <2>3. HandlerSees'
    BY <1>1, <1>4, <2>1, <2>2 DEF HandlerSees
  <2>4. Control' /\ AppSees'
    BY <1>0, <1>1, <1>3, <2>1 DEF Control, AppSees
  <2>5. StateMatchesSocket'
    BY <2>1, <2>2 DEF StateMatchesSocket
  <2>6. DescriptorsMatch'
    BY <1>0, <1>3, <2>1, <2>2 DEF DescriptorsMatch
  <2> QED
    BY <2>3, <2>4, <2>5, <2>6
<1>12. CASE Recv(h)
  <2>1. /\ hpc[h] = "read" /\ hpc' = [hpc EXCEPT ![h] = "recv"]
        /\ hconn' = [hconn EXCEPT ![h] = Behind]
        /\ UNCHANGED <<state_, socket_, hbatch, file, inbox>>
    BY <1>12 DEF Recv
  <2>2. Behind = hconn[h] /\ hconn[h] # None /\ inbox[hconn[h]] > 0 /\ hbatch[h] = {}
    BY <1>0, <2>1 DEF HandlerSees
  <2>3. /\ Control' /\ AppSees' /\ DescriptorsMatch' /\ StateMatchesSocket'
        /\ Behind' = Behind
    BY <1>0, <1>1, <1>3, <2>1, HandlerMoves
  <2>4. HandlerSees'
    BY <1>1, <1>4, <2>1, <2>2, <2>3 DEF HandlerSees
  <2> QED
    BY <2>3, <2>4
<1>13. CASE Received(h)
  <2>1. hpc[h] = "recv" /\ inbox[hconn[h]] > 0 /\ hbatch[h] = {}
    BY <1>0, <1>13 DEF Received, HandlerSees
  <2>2. Behind \in Conns /\ hconn[h] = Behind
    BY <1>0, <2>1, BehindType DEF HandlerSees
  <2>3. inbox[hconn[h]] # 0
    BY <2>1, <2>2, BoundsAssumption
  <2>4. /\ hpc' = [hpc EXCEPT ![h] = "loop"]
        /\ UNCHANGED <<state_, socket_, hbatch, file>>
    BY <1>13, <2>3 DEF Received
  <2>5. /\ Control' /\ AppSees' /\ DescriptorsMatch' /\ StateMatchesSocket'
        /\ Behind' = Behind
    BY <1>0, <1>1, <1>3, <2>1, <2>4, HandlerMoves
  <2>6. HandlerSees'
    BY <1>1, <1>4, <2>1, <2>4 DEF HandlerSees
  <2> QED
    BY <2>5, <2>6
<1>14. CASE RecvThrows(h)
  <2>1. UNCHANGED <<state_, socket_, handleth_, apc, sock, connects, hpc, hconn, hbatch,
                    file, registered, inbox, paired, stray>>
    BY <1>14 DEF RecvThrows, handlers
  <2>2. Control' /\ AppSees' /\ StateMatchesSocket'
    BY <1>0, <2>1 DEF Control, AppSees, StateMatchesSocket, Behind
  <2>3. HandlerSees' /\ DescriptorsMatch'
    BY <1>0, <2>1 DEF HandlerSees, DescriptorsMatch, Behind
  <2> QED
    BY <2>2, <2>3
<1> QED
  BY <1>6, <1>7, <1>8, <1>9, <1>10, <1>11, <1>12, <1>13, <1>14 DEF HandlerStep

LEMMA PairedPeer ==
  ASSUME TypeInv, PairedInv, NEW c \in Conns, PeerSends(c) \/ PeerHangsUp(c)
  PROVE  PairedInv'
<1> USE DEF TypeInv, TypeOK
<1>1. UNCHANGED <<state_, socket_, handleth_, apc, sock, connects, hpc, hconn, hbatch,
                  file, registered, paired, stray>>
  BY DEF PeerSends, PeerHangsUp, handlers, history
<1>2. \A k \in Conns : inbox[k] > 0 => inbox'[k] > 0
  BY BoundsAssumption DEF PeerSends, PeerHangsUp
<1>3. Behind' = Behind
  BY <1>1 DEF Behind
<1>4. HandlerSees => HandlerSees'
  <2>1. \A h \in Handlers : \A e \in hbatch[h] : e.conn \in Conns
    BY DEF Events
  <2>2. \A h \in Handlers : hconn[h] # None => hconn[h] \in Conns
    OBVIOUS
  <2> QED
    BY <1>1, <1>2, <1>3, <2>1, <2>2 DEF HandlerSees
<1>5. Control /\ AppSees /\ StateMatchesSocket
        => (Control /\ AppSees /\ StateMatchesSocket)'
  BY <1>1, <1>3 DEF Control, AppSees, StateMatchesSocket
<1>6. DescriptorsMatch => DescriptorsMatch'
  BY <1>1, <1>3 DEF DescriptorsMatch
<1> QED
  BY <1>1, <1>4, <1>5, <1>6 DEF PairedInv

LEMMA PairedNext == TypeInv /\ PairedInv /\ [Next]_vars => PairedInv'
<1> SUFFICES ASSUME TypeInv, PairedInv, [Next]_vars PROVE PairedInv'
  OBVIOUS
<1>1. CASE UNCHANGED vars
  BY <1>1 DEF vars, PairedInv, Control, AppSees, HandlerSees, DescriptorsMatch,
              StateMatchesSocket, Behind
<1> QED
  BY <1>1, PairedApp, PairedHandler, PairedPeer DEF Next, Running, Terminated

LEMMA PairedAlways == SafetySpec => [](TypeInv /\ PairedInv)
<1>1. Init => TypeInv /\ PairedInv
  BY TypeInit, PairedInit
<1>2. TypeInv /\ PairedInv /\ [Next]_vars => (TypeInv /\ PairedInv)'
  BY TypeNext, PairedNext
<1> QED
  BY <1>1, <1>2, PTL DEF SafetySpec

\* No descriptor leaks or is closed twice, and getClientState agrees with
\* the socket, if every connection is ended by disconnect().
THEOREM ClientDescriptorsMatch == SafetySpec => []DescriptorsMatch
<1>1. PairedInv => DescriptorsMatch
  BY DEF PairedInv, DescriptorsMatch
<1> QED
  BY <1>1, PairedAlways, PTL

THEOREM ClientStateMatchesSocket == SafetySpec => []StateMatchesSocket
<1>1. PairedInv => StateMatchesSocket
  BY DEF PairedInv, StateMatchesSocket
<1> QED
  BY <1>1, PairedAlways, PTL

\* The handler then reads and closes the connection it was woken for, and
\* finds data to read: it neither blocks in recv nor throws.
THEOREM ClientActsOnItsSocket == SafetySpec => [](ActsOnItsSocket /\ RecvHasData)
<1>1. PairedInv => ActsOnItsSocket /\ RecvHasData
  BY DEF PairedInv, HandlerSees, ActsOnItsSocket, RecvHasData
<1> QED
  BY <1>1, PairedAlways, PTL

\* Once disconnect() has returned, no handler does anything any more.
THEOREM ClientDisconnectIsFinal == SafetySpec => DisconnectIsFinal
<1> DEFINE Final ==
      paired /\ need_stop_ /\ handleth_ = None /\ apc = "idle" /\ apc' = "idle"
        => UNCHANGED <<hpc, socket_, file>>
<1>1. TypeInv /\ PairedInv /\ [Next]_vars => [Final]_vars
  <2> SUFFICES ASSUME TypeInv, PairedInv, Next,
                      paired, handleth_ = None, apc = "idle", apc' = "idle"
               PROVE  UNCHANGED <<hpc, socket_, file>>
    BY DEF vars
  <2>1. \A h \in Handlers : ~HandlerStep(h)
    BY NoHandler DEF PairedInv, HandlerStep, Leave, LoopGoesOn, Wait, Event, Close,
       Unset, Notify, Recv, Received, RecvThrows, Go
  <2>2. CASE ConnectFails \/ Connect \/ Disconnect
    BY <2>2 DEF ConnectFails, Connect, Disconnect, handlers
  <2>3. CASE AppProceeds
    BY <2>3 DEF AppProceeds, StartHandleThrows, AddFdFails, AddFd, Spawn, Join,
                StopClose, StopUnset
  <2>4. ASSUME NEW c \in Conns, PeerSends(c) \/ PeerHangsUp(c)
        PROVE  UNCHANGED <<hpc, socket_, file>>
    BY <2>4 DEF PeerSends, PeerHangsUp, handlers
  <2>5. CASE Terminated
    BY <2>5 DEF Terminated, vars
  <2> QED
    BY <2>1, <2>2, <2>3, <2>4, <2>5 DEF Next, Running
<1> QED
  BY <1>1, PairedAlways, PTL DEF SafetySpec, DisconnectIsFinal
=============================================================================
