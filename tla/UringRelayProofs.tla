-------------------------- MODULE UringRelayProofs --------------------------
(***************************************************************************)
(* Theorems about UringRelay, for every number of connections, descriptors *)
(* and lines.  The argument is by counting: every step either moves a      *)
(* request of one number between kernel and completion ring, or takes one  *)
(* result and submits requests for a set of numbers.                       *)
(***************************************************************************)
EXTENDS UringRelay, TLAPS

\* A number in the result of an accept belongs to listen mode and to a
\* result that still waits.
AcceptedWaits ==
  /\ accepted # None => is_listen
  /\ exec = "run" => (accepted # None <=> cqe[Sock] = "conn")

\* The strengthening: the three invariants need each other and the two facts
\* about the accept.
Inv == /\ TypeOK /\ OneReadPerClient /\ AlwaysArmed /\ DescriptorsOwned
       /\ AcceptedWaits

\* The numbers that are armed while the loop waits.
Armed == {Stdin, Sock} \cup (IF timer_ok THEN {Timer} ELSE {})

LEMMA Numbers ==
  /\ ClientFds \subseteq Fds /\ {Stdin, Sock, Timer} \subseteq Fds
  /\ {Stdin, Sock, Timer} \cap ClientFds = {}
  /\ Stdin # Sock /\ Stdin # Timer /\ Sock # Timer
  /\ None \notin Fds
  BY RelayAssumption DEF ClientFds, Fds, Stdin, Sock, Timer

-----------------------------------------------------------------------------
(* Counting requests.                                                      *)

\* A completion moves a request from the kernel to the ring.
LEMMA CompleteKeeps ==
  ASSUME TypeOK, NEW f \in Fds, NEW res \in Results \ {"none"}, Complete(f, res)
  PROVE  /\ flying' \in [Fds -> Nat] /\ cqe' \in [Fds -> Results]
         /\ \A g \in Fds : Alive(g)' = Alive(g)
         /\ \A g \in Fds : g # f => cqe'[g] = cqe[g]
         /\ cqe[f] = "none" /\ cqe'[f] = res
<1>1. /\ flying \in [Fds -> Nat] /\ cqe \in [Fds -> Results]
      /\ flying[f] > 0 /\ cqe[f] = "none"
      /\ flying' = [flying EXCEPT ![f] = @ - 1] /\ cqe' = [cqe EXCEPT ![f] = res]
  BY DEF TypeOK, Complete
<1>2. flying[f] - 1 \in Nat /\ \A g \in Fds : flying[g] \in Nat
  BY <1>1
<1>3. flying' \in [Fds -> Nat] /\ cqe' \in [Fds -> Results]
  BY <1>1, <1>2
<1>4. /\ flying'[f] = flying[f] - 1 /\ cqe'[f] = res
      /\ \A g \in Fds : g # f => flying'[g] = flying[g] /\ cqe'[g] = cqe[g]
  BY <1>1
<1>5. \A g \in Fds : Alive(g)' = Alive(g)
  <2>1. Alive(f)' = Alive(f)
    BY <1>1, <1>2, <1>4 DEF Alive
  <2>2. ASSUME NEW g \in Fds, g # f  PROVE Alive(g)' = Alive(g)
    BY <1>4, <2>2 DEF Alive
  <2> QED  BY <2>1, <2>2
<1> QED  BY <1>1, <1>3, <1>4, <1>5

\* A handler takes one result of f and submits requests for fs.
LEMMA HandlerCounts ==
  ASSUME TypeOK, NEW f \in Fds, NEW fs \in SUBSET Fds, Takes(f), Submit(fs)
  PROVE  /\ flying' \in [Fds -> Nat] /\ cqe' \in [Fds -> Results]
         /\ \A g \in Fds : g # f /\ g \notin fs => Alive(g)' = Alive(g)
         /\ \A g \in Fds : g # f /\ g \in fs => Alive(g)' = Alive(g) + 1
         /\ f \in fs => Alive(f)' = Alive(f)
         /\ f \notin fs => Alive(f)' = Alive(f) - 1
         /\ \A g \in Fds : g # f => cqe'[g] = cqe[g]
         /\ cqe[f] # "none" /\ cqe'[f] = "none"
<1>1. /\ flying \in [Fds -> Nat] /\ cqe \in [Fds -> Results] /\ cqe[f] # "none"
      /\ flying' = [g \in Fds |-> flying[g] + (IF g \in fs THEN 1 ELSE 0)]
      /\ cqe' = [cqe EXCEPT ![f] = "none"]
  BY DEF TypeOK, Takes, Submit
<1>2. \A g \in Fds : flying[g] \in Nat
  BY <1>1
<1>3. \A g \in Fds : flying'[g] = flying[g] + (IF g \in fs THEN 1 ELSE 0)
  BY <1>1
<1>4. cqe'[f] = "none" /\ \A g \in Fds : g # f => cqe'[g] = cqe[g]
  BY <1>1
<1>5. cqe' \in [Fds -> Results]
  BY <1>1 DEF Results
<1>6. flying' \in [Fds -> Nat]
  <2>1. \A g \in Fds : flying[g] + (IF g \in fs THEN 1 ELSE 0) \in Nat
    BY <1>2
  <2> QED  BY <1>1, <2>1
<1>7. /\ f \in fs => Alive(f)' = Alive(f)
      /\ f \notin fs => Alive(f)' = Alive(f) - 1
  BY <1>1, <1>2, <1>3, <1>4 DEF Alive
<1>8. ASSUME NEW g \in Fds, g # f
      PROVE  /\ g \notin fs => Alive(g)' = Alive(g)
             /\ g \in fs => Alive(g)' = Alive(g) + 1
  BY <1>2, <1>3, <1>4, <1>8 DEF Alive
<1> QED  BY <1>1, <1>4, <1>5, <1>6, <1>7, <1>8

-----------------------------------------------------------------------------
(* The invariant holds at the start and is kept.                           *)

LEMMA InitInv == Init => Inv
<1> SUFFICES ASSUME Init PROVE Inv
  OBVIOUS
<1>1. \A f \in Fds : flying[f] = IF f \in Armed THEN 1 ELSE 0
  BY Numbers DEF Init, Armed
<1>2. \A f \in Fds : cqe[f] = "none"
  BY DEF Init
<1>3. \A f \in Fds : Alive(f) = IF f \in Armed THEN 1 ELSE 0
  BY <1>1, <1>2 DEF Alive
<1>4. OneReadPerClient
  BY <1>3, Numbers DEF Init, OneReadPerClient, Armed
<1>5. AlwaysArmed
  BY <1>3, Numbers DEF Armed, AlwaysArmed
<1>6. DescriptorsOwned
  BY Numbers DEF Init, DescriptorsOwned
<1>7. AcceptedWaits
  BY Numbers DEF Init, AcceptedWaits
<1>8. TypeOK
  <2>1. flying \in [Fds -> Nat] /\ cqe \in [Fds -> Results]
    BY DEF Init, Results
  <2>2. conn \in [Fds -> Conns \cup {None}] /\ peer \in [Conns -> {"new", "open", "closed", "reset"}]
    BY DEF Init
  <2>3. /\ inbox \in [Conns -> 0 .. MaxData] /\ lines \in 0 .. MaxLines
        /\ backlog \subseteq Conns
    BY RelayAssumption DEF Init
  <2> QED  BY <2>1, <2>2, <2>3 DEF Init, TypeOK
<1> QED  BY <1>4, <1>5, <1>6, <1>7, <1>8 DEF Inv

\* Where no count changes, and the clients and the flags are kept, neither
\* the reads nor what is armed changes.
LEMMA CountsKept ==
  ASSUME Inv, \A g \in Fds : Alive(g)' = Alive(g),
         UNCHANGED <<flags, clients, exec>>
  PROVE  OneReadPerClient' /\ AlwaysArmed'
<1>1. OneReadPerClient'
  BY Numbers DEF Inv, OneReadPerClient
<1>2. AlwaysArmed'
  BY Numbers DEF Inv, AlwaysArmed, flags
<1> QED  BY <1>1, <1>2

LEMMA PeerStepInv == ASSUME Inv, NEW c \in Conns, PeerStep(c) PROVE Inv'
<1>1. UNCHANGED <<flags, clients, exec, uring, conn, lines, tty>>
  BY DEF PeerStep
<1>2. TypeOK'
  <2>1. backlog' \subseteq Conns /\ peer' \in [Conns -> {"new", "open", "closed", "reset"}]
    BY DEF Inv, TypeOK, PeerStep
  <2>2. inbox' \in [Conns -> 0 .. MaxData]
    BY RelayAssumption DEF Inv, TypeOK, PeerStep
  <2> QED  BY <1>1, <2>1, <2>2 DEF Inv, TypeOK, flags, uring
<1>3. \A g \in Fds : Alive(g)' = Alive(g)
  BY <1>1 DEF Alive, uring
<1>4. DescriptorsOwned' /\ AcceptedWaits'
  BY <1>1 DEF Inv, DescriptorsOwned, AcceptedWaits, uring, flags
<1> QED  BY <1>1, <1>2, <1>3, <1>4, CountsKept DEF Inv

LEMMA UserStepInv == Inv /\ UserStep => Inv'
<1> SUFFICES ASSUME Inv, UserStep PROVE Inv'
  OBVIOUS
<1>1. UNCHANGED <<flags, clients, exec, uring, conn, network>>
  BY DEF UserStep
<1>2. lines' \in 0 .. MaxLines /\ tty' \in {"open", "eof", "error"}
  BY RelayAssumption DEF Inv, TypeOK, UserStep
<1>3. TypeOK'
  BY <1>1, <1>2 DEF Inv, TypeOK, flags, uring, network
<1>4. \A g \in Fds : Alive(g)' = Alive(g)
  BY <1>1 DEF Alive, uring
<1>5. DescriptorsOwned' /\ AcceptedWaits'
  BY <1>1 DEF Inv, DescriptorsOwned, AcceptedWaits, uring, flags
<1> QED  BY <1>1, <1>3, <1>4, <1>5, CountsKept DEF Inv

\* A completion that brings no connection.
LEMMA ResultInv ==
  ASSUME Inv, NEW f \in Fds, NEW res \in {"data", "eof", "error"}, Complete(f, res),
         inbox' \in [Conns -> 0 .. MaxData], lines' \in 0 .. MaxLines,
         UNCHANGED <<flags, clients, exec, accepted, conn, backlog, peer, tty>>
  PROVE  Inv'
<1>1. res \in Results \ {"none"} /\ TypeOK
  BY DEF Results, Inv
<1>2. /\ flying' \in [Fds -> Nat] /\ cqe' \in [Fds -> Results]
      /\ \A g \in Fds : Alive(g)' = Alive(g)
      /\ \A g \in Fds : g # f => cqe'[g] = cqe[g]
      /\ cqe[f] = "none" /\ cqe'[f] = res
  BY <1>1, CompleteKeeps
<1>3. TypeOK'
  BY <1>2 DEF Inv, TypeOK, flags
<1>4. DescriptorsOwned'
  BY DEF Inv, DescriptorsOwned
<1>5. AcceptedWaits'
  <2>1. cqe'[Sock] = "conn" <=> cqe[Sock] = "conn"
    BY <1>2, Numbers
  <2> QED  BY <2>1 DEF Inv, AcceptedWaits, flags
<1> QED  BY <1>2, <1>3, <1>4, <1>5, CountsKept DEF Inv

LEMMA KernelInv == Inv /\ Kernel => Inv'
<1> SUFFICES ASSUME Inv, Kernel PROVE Inv'
  OBVIOUS
<1> USE Numbers
<1>1. CASE StdinReady
  <2>1. \E res \in {"data", "eof", "error"} : Complete(Stdin, res)
    BY <1>1 DEF StdinReady, Inv, TypeOK
  <2>2. lines' \in 0 .. MaxLines /\ inbox' \in [Conns -> 0 .. MaxData]
    BY <1>1, RelayAssumption DEF StdinReady, Inv, TypeOK, network
  <2> QED
    BY <1>1, <2>1, <2>2, ResultInv DEF StdinReady, network
<1>2. ASSUME NEW f \in Fds, SocketReady(f) PROVE Inv'
  <2>1. \E res \in {"data", "eof", "error"} : Complete(f, res)
    BY <1>2 DEF SocketReady
  <2>2. inbox' \in [Conns -> 0 .. MaxData] /\ lines' \in 0 .. MaxLines
    BY <1>2, RelayAssumption DEF SocketReady, Inv, TypeOK
  <2> QED  BY <1>2, <2>1, <2>2, ResultInv DEF SocketReady
<1>3. CASE AcceptError
  <2>1. lines' \in 0 .. MaxLines /\ inbox' \in [Conns -> 0 .. MaxData]
    BY <1>3 DEF AcceptError, Inv, TypeOK, network
  <2> QED  BY <1>3, <2>1, ResultInv DEF AcceptError, network
<1>4. CASE TimerReady
  <2>1. lines' \in 0 .. MaxLines /\ inbox' \in [Conns -> 0 .. MaxData]
    BY <1>4 DEF TimerReady, Inv, TypeOK, network
  <2> QED  BY <1>4, <2>1, ResultInv DEF TimerReady, network
<1>5. CASE AcceptReady
  <2>1. Complete(Sock, "conn") /\ "conn" \in Results \ {"none"} /\ TypeOK
    BY <1>5 DEF AcceptReady, Results, Inv
  <2>2. PICK c \in backlog, f \in {g \in ClientFds : conn[g] = None} :
          /\ conn' = [conn EXCEPT ![f] = c] /\ accepted' = f
          /\ backlog' = backlog \ {c}
    BY <1>5 DEF AcceptReady
  <2>3. /\ UNCHANGED <<flags, clients, exec, peer, inbox, lines, tty>>
        /\ is_listen /\ exec = "run"
    BY <1>5 DEF AcceptReady, Complete
  <2>4. /\ flying' \in [Fds -> Nat] /\ cqe' \in [Fds -> Results]
        /\ \A g \in Fds : Alive(g)' = Alive(g)
        /\ cqe[Sock] = "none" /\ cqe'[Sock] = "conn"
    BY <2>1, CompleteKeeps
  <2>5. /\ f \in ClientFds /\ f \in Fds /\ conn[f] = None /\ c \in Conns /\ c # None
        /\ accepted = None /\ f \notin clients
        /\ conn \in [Fds -> Conns \cup {None}]
    BY <2>1, <2>2, <2>3, <2>4, RelayAssumption
    DEF Inv, TypeOK, AcceptedWaits, DescriptorsOwned
  <2>6. TypeOK'
    BY <2>2, <2>3, <2>4, <2>5 DEF Inv, TypeOK, flags
  <2>7. DescriptorsOwned'
    BY <2>2, <2>3, <2>5 DEF Inv, DescriptorsOwned
  <2>8. AcceptedWaits'
    BY <2>2, <2>3, <2>4 DEF AcceptedWaits, flags
  <2> QED  BY <2>3, <2>4, <2>6, <2>7, <2>8, CountsKept DEF Inv
<1> QED  BY <1>1, <1>2, <1>3, <1>4, <1>5 DEF Kernel

\* A handler that answers for one of the armed numbers and keeps the clients.
LEMMA ArmedHandler ==
  ASSUME Inv, NEW f \in {Stdin, Sock, Timer}, NEW fs \in SUBSET {f},
         Takes(f), Submit(fs),
         fs = {} => stdin_closed' \/ socket_closed',
         {stdin_closed', socket_closed'} \subseteq BOOLEAN,
         cqe[f] = "conn" => f # Sock,
         UNCHANGED <<is_listen, timer_ok, clients, exec, accepted, conn, network,
                     lines, tty>>
  PROVE  Inv'
<1> USE Numbers
<1>1. f \in Fds /\ fs \in SUBSET Fds /\ f \notin ClientFds /\ TypeOK
  BY DEF Inv
<1>2. /\ flying' \in [Fds -> Nat] /\ cqe' \in [Fds -> Results]
      /\ \A g \in Fds : g # f /\ g \notin fs => Alive(g)' = Alive(g)
      /\ f \in fs => Alive(f)' = Alive(f)
      /\ \A g \in Fds : g # f => cqe'[g] = cqe[g]
      /\ cqe[f] # "none" /\ cqe'[f] = "none"
  BY <1>1, HandlerCounts
<1>3. TypeOK'
  BY <1>2 DEF Inv, TypeOK, network
<1>4. OneReadPerClient'
  BY <1>1, <1>2 DEF Inv, OneReadPerClient
<1>5. AlwaysArmed'
  <2>1. CASE fs = {}
    BY <2>1 DEF AlwaysArmed
  <2>2. CASE f \in fs
    <3>1. \A g \in Fds : Alive(g)' = Alive(g)
      BY <1>2, <2>2
    <3>2. ~stdin_closed /\ ~socket_closed
      BY DEF Takes
    <3> QED  BY <3>1, <3>2 DEF Inv, AlwaysArmed
  <2> QED  BY <2>1, <2>2
<1>6. DescriptorsOwned'
  BY DEF Inv, DescriptorsOwned
<1>7. AcceptedWaits'
  <2>1. cqe'[Sock] = "conn" <=> cqe[Sock] = "conn"
    BY <1>2
  <2> QED  BY <2>1 DEF Inv, AcceptedWaits
<1> QED  BY <1>3, <1>4, <1>5, <1>6, <1>7 DEF Inv

\* The number in the result of an accept becomes a client with its first read.
LEMMA HandleAcceptInv == Inv /\ HandleAccept => Inv'
<1> SUFFICES ASSUME Inv, HandleAccept PROVE Inv'
  OBVIOUS
<1> USE Numbers
<1> DEFINE new == {accepted} \ {None}
<1>1. /\ is_listen /\ Takes(Sock) /\ Submit({Sock, accepted} \ {None})
      /\ clients' = clients \cup new /\ accepted' = None
      /\ UNCHANGED <<flags, exec, conn, network, lines, tty>>
      /\ exec = "run" /\ TypeOK
  BY DEF HandleAccept, Takes, Inv
<1>2. accepted \in ClientFds \cup {None} /\ accepted \notin clients
  BY <1>1 DEF Inv, TypeOK, DescriptorsOwned
<1>3. /\ {Sock, accepted} \ {None} \in SUBSET Fds
      /\ \A g \in Fds : g \in {Sock, accepted} \ {None} <=> g = Sock \/ g \in new
      /\ Sock \notin new /\ new \subseteq ClientFds
  BY <1>2
<1>4. /\ flying' \in [Fds -> Nat] /\ cqe' \in [Fds -> Results]
      /\ \A g \in Fds : g # Sock /\ g \notin new => Alive(g)' = Alive(g)
      /\ \A g \in Fds : g # Sock /\ g \in new => Alive(g)' = Alive(g) + 1
      /\ Alive(Sock)' = Alive(Sock)
      /\ cqe'[Sock] = "none"
  BY <1>1, <1>3, HandlerCounts
<1>5. TypeOK'
  BY <1>1, <1>3, <1>4 DEF TypeOK, flags, network
<1>6. OneReadPerClient'
  <2> SUFFICES ASSUME NEW g \in ClientFds
               PROVE  Alive(g)' = IF g \in clients' THEN 1 ELSE 0
    BY DEF OneReadPerClient
  <2>1. Alive(g) = IF g \in clients THEN 1 ELSE 0
    BY DEF Inv, OneReadPerClient
  <2>2. CASE g \in new
    BY <1>1, <1>2, <1>4, <2>1, <2>2
  <2>3. CASE g \notin new
    BY <1>1, <1>4, <2>1, <2>3
  <2> QED  BY <2>2, <2>3
<1>7. AlwaysArmed'
  BY <1>1, <1>3, <1>4 DEF Inv, AlwaysArmed, flags
<1>8. DescriptorsOwned'
  <2>1. accepted' \notin clients'
    BY <1>1, <1>3 DEF TypeOK
  <2> QED  BY <1>1, <2>1 DEF Inv, DescriptorsOwned
<1>9. AcceptedWaits'
  BY <1>1, <1>4 DEF AcceptedWaits
<1> QED  BY <1>5, <1>6, <1>7, <1>8, <1>9 DEF Inv

\* remove_client closes what it erases.
LEMMA RemoveKeeps ==
  ASSUME Inv, NEW ended \in SUBSET ClientFds, RemoveClients(ended), accepted' = accepted
  PROVE  /\ conn' \in [Fds -> Conns \cup {None}] /\ clients' \subseteq ClientFds
         /\ DescriptorsOwned'
<1>1. /\ conn \in [Fds -> Conns \cup {None}] /\ clients \subseteq ClientFds
      /\ conn' = [f \in Fds |-> IF f \in ended \cap clients THEN None ELSE conn[f]]
      /\ clients' = clients \ ended
  BY DEF Inv, TypeOK, RemoveClients
<1>2. conn' \in [Fds -> Conns \cup {None}]
  BY <1>1
<1>3. accepted' \notin clients'
  BY <1>1 DEF Inv, DescriptorsOwned
<1>4. ASSUME NEW f \in ClientFds
      PROVE  conn'[f] # None <=> f \in clients' \/ f = accepted'
  <2>1. conn[f] # None <=> f \in clients \/ f = accepted
    BY DEF Inv, DescriptorsOwned
  <2>2. conn'[f] = IF f \in ended \cap clients THEN None ELSE conn[f]
    BY <1>1, Numbers
  <2> QED  BY <1>1, <2>1, <2>2 DEF Inv, DescriptorsOwned
<1> QED  BY <1>1, <1>2, <1>3, <1>4 DEF DescriptorsOwned

LEMMA HandleClientInv ==
  ASSUME Inv, NEW f \in ClientFds, HandleClient(f)  PROVE Inv'
<1> USE Numbers
<1> DEFINE again == IF cqe[f] = "data" THEN {f} \cap clients ELSE {}
           ended == IF cqe[f] = "data" THEN {} ELSE {f}
<1>1. /\ Takes(f) /\ Submit(again) /\ RemoveClients(ended)
      /\ UNCHANGED <<flags, exec, accepted, network, lines, tty>>
      /\ again \in SUBSET Fds /\ ended \in SUBSET ClientFds /\ f \in Fds /\ TypeOK
  BY DEF HandleClient, Inv
<1>2. /\ flying' \in [Fds -> Nat] /\ cqe' \in [Fds -> Results]
      /\ \A g \in Fds : g # f /\ g \notin again => Alive(g)' = Alive(g)
      /\ f \in again => Alive(f)' = Alive(f)
      /\ f \notin again => Alive(f)' = Alive(f) - 1
      /\ \A g \in Fds : g # f => cqe'[g] = cqe[g]
      /\ cqe[f] # "none"
  BY <1>1, HandlerCounts
<1>3. /\ conn' \in [Fds -> Conns \cup {None}] /\ clients' \subseteq ClientFds
      /\ DescriptorsOwned'
  BY <1>1, RemoveKeeps
<1>4. \A g \in Fds : g # f => Alive(g)' = Alive(g)
  BY <1>2
<1>5. f \in clients
  <2>1. Alive(f) # 0
    BY <1>1, <1>2 DEF Alive, TypeOK
  <2> QED  BY <2>1 DEF Inv, OneReadPerClient
<1>6. clients' = clients \ ended
  BY <1>1 DEF RemoveClients
<1>7. OneReadPerClient'
  <2>1. Alive(f)' = IF f \in clients' THEN 1 ELSE 0
    <3>1. Alive(f) = 1
      BY <1>5 DEF Inv, OneReadPerClient
    <3>2. CASE cqe[f] = "data"
      BY <1>2, <1>5, <1>6, <3>1, <3>2
    <3>3. CASE cqe[f] # "data"
      BY <1>2, <1>5, <1>6, <3>1, <3>3
    <3> QED  BY <3>2, <3>3
  <2>2. \A g \in ClientFds : g # f => Alive(g)' = IF g \in clients' THEN 1 ELSE 0
    BY <1>4, <1>6 DEF Inv, OneReadPerClient
  <2> QED  BY <2>1, <2>2 DEF OneReadPerClient
<1>8. AlwaysArmed'
  BY <1>1, <1>4 DEF Inv, AlwaysArmed, flags
<1>9. AcceptedWaits'
  BY <1>1, <1>2 DEF Inv, AcceptedWaits, flags
<1>10. TypeOK'
  BY <1>1, <1>2, <1>3 DEF TypeOK, flags, network
<1> QED  BY <1>3, <1>7, <1>8, <1>9, <1>10 DEF Inv

LEMMA LeaveInv == Inv /\ Leave => Inv'
<1> SUFFICES ASSUME Inv, Leave PROVE Inv'
  OBVIOUS
<1>1. /\ RemoveClients(clients) /\ clients \subseteq ClientFds
      /\ flying' = [f \in Fds |-> 0] /\ cqe' = [f \in Fds |-> "none"]
      /\ exec' = "left" /\ UNCHANGED <<flags, accepted, network, lines, tty>>
  BY DEF Leave, Inv, TypeOK
<1>2. conn' \in [Fds -> Conns \cup {None}] /\ clients' = {} /\ DescriptorsOwned'
  BY <1>1, RemoveKeeps DEF RemoveClients
<1>3. flying' \in [Fds -> Nat] /\ cqe' \in [Fds -> Results]
  BY <1>1 DEF Results
<1>4. TypeOK'
  BY <1>1, <1>2, <1>3 DEF Inv, TypeOK, flags, network
<1>5. OneReadPerClient'
  BY <1>1, <1>2, Numbers DEF OneReadPerClient, Alive
<1>6. AlwaysArmed' /\ AcceptedWaits'
  BY <1>1 DEF Inv, AlwaysArmed, AcceptedWaits, flags
<1> QED  BY <1>2, <1>4, <1>5, <1>6 DEF Inv

LEMMA HandleStdinInv == Inv /\ HandleStdin => Inv'
<1> SUFFICES ASSUME Inv, HandleStdin PROVE Inv'
  OBVIOUS
<1> DEFINE fs == IF stdin_closed' THEN {} ELSE {Stdin}
<1>1. /\ Takes(Stdin) /\ Submit(fs)
      /\ UNCHANGED <<is_listen, timer_ok, clients, exec, accepted, conn, network,
                     lines, tty>>
  BY DEF HandleStdin
<1>2. {stdin_closed', socket_closed'} \subseteq BOOLEAN
  BY DEF HandleStdin, Inv, TypeOK
<1>3. fs \in SUBSET {Stdin} /\ (fs = {} => stdin_closed' \/ socket_closed')
  OBVIOUS
<1>4. cqe[Stdin] = "conn" => Stdin # Sock
  BY Numbers
<1> HIDE DEF fs
<1> QED  BY <1>1, <1>2, <1>3, <1>4, ArmedHandler

LEMMA HandleSocketInv == Inv /\ HandleSocket => Inv'
<1> SUFFICES ASSUME Inv, HandleSocket PROVE Inv'
  OBVIOUS
<1> DEFINE fs == IF socket_closed' THEN {} ELSE {Sock}
<1>1. /\ Takes(Sock) /\ Submit(fs) /\ ~is_listen
      /\ UNCHANGED <<is_listen, stdin_closed, timer_ok, clients, exec, accepted,
                     conn, network, lines, tty>>
  BY DEF HandleSocket
<1>2. {stdin_closed', socket_closed'} \subseteq BOOLEAN
  BY DEF HandleSocket, Inv, TypeOK
<1>3. fs \in SUBSET {Sock} /\ (fs = {} => stdin_closed' \/ socket_closed')
  OBVIOUS
<1>4. cqe[Sock] # "conn"
  BY <1>1 DEF Inv, AcceptedWaits, Takes
<1> HIDE DEF fs
<1> QED  BY <1>1, <1>2, <1>3, <1>4, ArmedHandler

LEMMA HandleTimerInv == Inv /\ HandleTimer => Inv'
<1> SUFFICES ASSUME Inv, HandleTimer PROVE Inv'
  OBVIOUS
<1>1. /\ Takes(Timer) /\ Submit({Timer}) /\ Timer # Sock
      /\ UNCHANGED <<flags, clients, exec, accepted, conn, network, lines, tty>>
  BY Numbers DEF HandleTimer
<1>2. {stdin_closed', socket_closed'} \subseteq BOOLEAN
  BY <1>1 DEF Inv, TypeOK, flags
<1> QED  BY <1>1, <1>2, ArmedHandler DEF flags

LEMMA StepInv == Inv /\ [Next]_vars => Inv'
<1> SUFFICES ASSUME Inv, [Next]_vars PROVE Inv'
  OBVIOUS
<1>1. CASE UNCHANGED vars
  <2>1. \A g \in Fds : Alive(g)' = Alive(g)
    BY <1>1 DEF vars, uring, Alive
  <2>2. TypeOK'
    BY <1>1 DEF Inv, TypeOK, vars, flags, uring, network
  <2>3. DescriptorsOwned' /\ AcceptedWaits'
    BY <1>1 DEF Inv, DescriptorsOwned, AcceptedWaits, vars, flags, uring
  <2> QED  BY <1>1, <2>1, <2>2, <2>3, CountsKept DEF Inv, vars
<1>2. CASE Interrupted
  <2>1. \A g \in Fds : Alive(g)' = Alive(g)
    BY <1>2 DEF Interrupted, uring, Alive
  <2>2. TypeOK'
    BY <1>2 DEF Interrupted, Inv, TypeOK, flags, uring, network
  <2>3. OneReadPerClient'
    BY <1>2, <2>1, Numbers DEF Interrupted, Inv, OneReadPerClient
  <2> QED
    BY <1>2, <2>2, <2>3
    DEF Interrupted, Inv, AlwaysArmed, DescriptorsOwned, AcceptedWaits, flags, uring
<1>3. CASE \E c \in Conns : PeerStep(c)
  BY <1>3, PeerStepInv
<1>4. CASE \E f \in ClientFds : HandleClient(f)
  BY <1>4, HandleClientInv
<1>5. CASE UserStep \/ Kernel
  BY <1>5, UserStepInv, KernelInv
<1>6. CASE HandleStdin \/ HandleSocket \/ HandleAccept \/ HandleTimer \/ Leave
  BY <1>6, HandleStdinInv, HandleSocketInv, HandleAcceptInv, HandleTimerInv, LeaveInv
<1> QED
  BY <1>1, <1>2, <1>3, <1>4, <1>5, <1>6 DEF Next, Relay

-----------------------------------------------------------------------------
(* The theorems.                                                           *)

THEOREM RelayInvariant == Spec => []Inv
<1>1. Init => Inv
  BY InitInv
<1>2. Inv /\ [Next]_vars => Inv'
  BY StepInv
<1> QED  BY <1>1, <1>2, PTL DEF Spec

\* Every variable keeps its type: no count of requests falls below zero, so
\* no handler frees a request the kernel does not have any more.
THEOREM RelayTypeCorrect == Spec => []TypeOK
<1>1. Inv => TypeOK
  BY DEF Inv
<1> QED  BY <1>1, RelayInvariant, PTL

\* handle_client_read, handle_accept and remove_client (io_uring.h:365-475)
\* keep exactly one read alive for every client, and none for other numbers.
THEOREM RelayOneReadPerClient == Spec => []OneReadPerClient
<1>1. Inv => OneReadPerClient
  BY DEF Inv
<1> QED  BY <1>1, RelayInvariant, PTL

\* Every handler submits its request again (io_uring.h:338-430): what exec
\* waits for is always armed, so io_uring_wait_cqe never waits for nothing.
THEOREM RelayAlwaysArmed == Spec => []AlwaysArmed
<1>1. Inv => AlwaysArmed
  BY DEF Inv
<1> QED  BY <1>1, RelayInvariant, PTL

\* No descriptor of a connection is lost or closed twice (io_uring.h:365-489).
THEOREM RelayDescriptorsOwned == Spec => []DescriptorsOwned
<1>1. Inv => DescriptorsOwned
  BY DEF Inv
<1> QED  BY <1>1, RelayInvariant, PTL

-----------------------------------------------------------------------------
(* Connections.  A completion that says a client has ended waits in the    *)
(* ring while other clients are closed and their numbers given again: it   *)
(* must still be about the connection that has the number when it is taken.*)

\* No two numbers stand for one connection.
OneNumber ==
  \A f, g \in ClientFds : conn[f] = conn[g] /\ conn[f] # None => f = g

\* A connection is known to the relay only after its peer has opened it, and
\* only in listen mode.
Opened ==
  /\ \A c \in backlog : peer[c] # "new"
  /\ \A f \in ClientFds : conn[f] # None => peer[conn[f]] # "new" /\ conn[f] \notin backlog
  /\ ~is_listen => backlog = {} /\ \A f \in ClientFds : conn[f] = None

\* The result of a client's read is data, or its own peer has gone.
EndIsItsOwn ==
  \A f \in ClientFds :
    cqe[f] \notin {"none", "data"} =>
      f \in clients /\ conn[f] # None /\ peer[conn[f]] \in {"closed", "reset"}

Behind == OneNumber /\ Opened /\ EndIsItsOwn

LEMMA BehindInit == Init => Behind
  BY Numbers DEF Init, Behind, OneNumber, Opened, EndIsItsOwn

LEMMA BehindPeers ==
  ASSUME Inv, Behind, NEW c \in Conns, PeerStep(c)
  PROVE  Behind'
<1>1. UNCHANGED <<is_listen, clients, cqe, conn>>
  BY DEF PeerStep, flags, uring
<1>2. \A d \in Conns : /\ peer[d] # "new" => peer'[d] # "new"
                       /\ peer[d] \in {"closed", "reset"} => peer'[d] \in {"closed", "reset"}
  BY DEF PeerStep, Inv, TypeOK
<1>3. /\ conn \in [Fds -> Conns \cup {None}] /\ backlog \subseteq Conns
      /\ \A f \in ClientFds : conn[f] # None => conn[f] \in Conns
  BY Numbers DEF Inv, TypeOK
<1>4. backlog' = backlog \/ (backlog' = backlog \cup {c} /\ is_listen
                              /\ peer[c] = "new" /\ peer'[c] = "open")
  BY DEF PeerStep, Inv, TypeOK
<1>5. Opened'
  BY <1>1, <1>2, <1>3, <1>4 DEF Behind, Opened
<1>6. OneNumber' /\ EndIsItsOwn'
  BY <1>1, <1>2, <1>3 DEF Behind, OneNumber, EndIsItsOwn
<1> QED  BY <1>5, <1>6 DEF Behind

\* A step that neither opens nor closes, and puts no end into the ring.
LEMMA BehindKept ==
  ASSUME Behind, UNCHANGED <<is_listen, conn, backlog, peer>>,
         clients \subseteq clients',
         \A f \in ClientFds : cqe'[f] \in {cqe[f], "none", "data"}
  PROVE  Behind'
<1>1. OneNumber' /\ Opened'
  BY DEF Behind, OneNumber, Opened
<1>2. EndIsItsOwn'
  <2> SUFFICES ASSUME NEW f \in ClientFds, cqe'[f] \notin {"none", "data"}
               PROVE  /\ f \in clients' /\ conn'[f] # None
                      /\ peer'[conn'[f]] \in {"closed", "reset"}
    BY DEF EndIsItsOwn
  <2> QED  BY DEF Behind, EndIsItsOwn
<1> QED  BY <1>1, <1>2 DEF Behind

\* The kernel reports the end of a connection only when its peer has gone.
LEMMA BehindKernel ==
  ASSUME Inv, Behind, Kernel
  PROVE  Behind'
<1> USE Numbers
<1>1. CASE StdinReady \/ AcceptError \/ TimerReady \/ (~is_listen /\ SocketReady(Sock))
  <2>1. \E f \in {Stdin, Sock, Timer}, res \in Results \ {"none"} : Complete(f, res)
    BY <1>1 DEF StdinReady, AcceptError, TimerReady, SocketReady, Results, Inv, TypeOK
  <2>2. \A f \in ClientFds : cqe'[f] = cqe[f]
    BY <2>1, CompleteKeeps DEF Inv
  <2>3. UNCHANGED <<is_listen, clients, conn, backlog, peer>>
    BY <1>1 DEF StdinReady, AcceptError, TimerReady, SocketReady, flags, network
  <2> QED  BY <2>2, <2>3, BehindKept
<1>2. ASSUME NEW f \in ClientFds, SocketReady(f)  PROVE Behind'
  <2>1. UNCHANGED <<is_listen, clients, conn, backlog, peer>>
    BY <1>2 DEF SocketReady, flags
  <2>2. PICK res \in {"data", "eof", "error"} :
          /\ Complete(f, res) /\ conn[f] # None
          /\ res # "data" => peer[conn[f]] \in {"closed", "reset"}
    BY <1>2 DEF SocketReady
  <2>3. /\ \A g \in Fds : g # f => cqe'[g] = cqe[g]
        /\ cqe'[f] = res /\ flying[f] > 0 /\ flying[f] \in Nat
    <3>1. res \in Results \ {"none"} /\ f \in Fds
      BY DEF Results
    <3> QED  BY <2>2, <3>1, CompleteKeeps DEF Inv, TypeOK, Complete
  <2>4. f \in clients
    <3>1. Alive(f) # 0
      BY <2>3 DEF Alive
    <3> QED  BY <3>1 DEF Inv, OneReadPerClient
  <2>5. EndIsItsOwn'
    <3> SUFFICES ASSUME NEW g \in ClientFds, cqe'[g] \notin {"none", "data"}
                 PROVE  /\ g \in clients' /\ conn'[g] # None
                        /\ peer'[conn'[g]] \in {"closed", "reset"}
      BY DEF EndIsItsOwn
    <3>1. CASE g = f
      BY <2>1, <2>2, <2>3, <2>4, <3>1
    <3>2. CASE g # f
      BY <2>1, <2>3, <3>2 DEF Behind, EndIsItsOwn
    <3> QED  BY <3>1, <3>2
  <2> QED  BY <2>1, <2>5 DEF Behind, OneNumber, Opened
<1>3. CASE AcceptReady
  <2>1. PICK c \in backlog, f \in {g \in ClientFds : conn[g] = None} :
          conn' = [conn EXCEPT ![f] = c] /\ backlog' = backlog \ {c}
    BY <1>3 DEF AcceptReady
  <2>2. UNCHANGED <<is_listen, clients, peer>> /\ is_listen
    BY <1>3 DEF AcceptReady, flags
  <2>3. c \in Conns /\ c # None /\ conn \in [Fds -> Conns \cup {None}] /\ f \in Fds
    BY <2>1, RelayAssumption DEF Inv, TypeOK
  <2>4. conn'[f] = c /\ \A g \in Fds : g # f => conn'[g] = conn[g]
    BY <2>1, <2>3
  <2>5. \A g \in ClientFds : conn[g] # c
    BY <2>1, <2>3 DEF Behind, Opened
  <2>6. OneNumber'
    BY <2>1, <2>4, <2>5 DEF Behind, OneNumber
  <2>7. Opened'
    <3>1. peer[c] # "new"
      BY <2>1 DEF Behind, Opened
    <3>2. ASSUME NEW g \in ClientFds, conn'[g] # None
          PROVE  peer'[conn'[g]] # "new" /\ conn'[g] \notin backlog'
      BY <2>1, <2>2, <2>4, <3>1, <3>2 DEF Behind, Opened
    <3> QED  BY <2>1, <2>2, <3>2 DEF Behind, Opened
  <2>8. EndIsItsOwn'
    <3>1. \A g \in ClientFds : cqe'[g] = cqe[g]
      <4>1. Complete(Sock, "conn") /\ "conn" \in Results \ {"none"}
        BY <1>3 DEF AcceptReady, Results
      <4> QED  BY <4>1, CompleteKeeps DEF Inv
    <3>2. ASSUME NEW g \in ClientFds, cqe'[g] \notin {"none", "data"}
          PROVE  /\ g \in clients' /\ conn'[g] # None
                 /\ peer'[conn'[g]] \in {"closed", "reset"}
      BY <2>1, <2>2, <2>4, <3>1, <3>2 DEF Behind, EndIsItsOwn
    <3> QED  BY <3>2 DEF EndIsItsOwn
  <2> QED  BY <2>6, <2>7, <2>8 DEF Behind
<1> QED  BY <1>1, <1>2, <1>3 DEF Kernel

\* Closing numbers, and taking their results, leaves the rest as it was.
LEMMA BehindClosed ==
  ASSUME Inv, Behind, NEW ended \in SUBSET ClientFds, RemoveClients(ended),
         UNCHANGED <<is_listen, backlog, peer>>,
         \A f \in ClientFds : cqe'[f] \in {cqe[f], "none"},
         \A f \in ended : cqe'[f] = "none"
  PROVE  Behind'
<1>1. /\ clients' = clients \ ended
      /\ \A f \in ClientFds : conn'[f] = IF f \in ended \cap clients THEN None ELSE conn[f]
  BY Numbers DEF RemoveClients
<1>2. OneNumber' /\ Opened'
  BY <1>1 DEF Behind, OneNumber, Opened
<1>3. EndIsItsOwn'
  <2> SUFFICES ASSUME NEW f \in ClientFds, cqe'[f] \notin {"none", "data"}
               PROVE  /\ f \in clients' /\ conn'[f] # None
                      /\ peer'[conn'[f]] \in {"closed", "reset"}
    BY DEF EndIsItsOwn
  <2>1. f \notin ended /\ cqe[f] \notin {"none", "data"}
    OBVIOUS
  <2> QED  BY <1>1, <2>1 DEF Behind, EndIsItsOwn
<1> QED  BY <1>2, <1>3 DEF Behind

LEMMA BehindRelay ==
  ASSUME Inv, Behind, Relay
  PROVE  Behind'
<1> USE Numbers
<1>1. ASSUME NEW f \in Fds, Takes(f)
      PROVE  \A g \in ClientFds : cqe'[g] = IF g = f THEN "none" ELSE cqe[g]
  BY <1>1 DEF Takes, Inv, TypeOK
<1>2. CASE HandleStdin \/ HandleSocket \/ HandleTimer \/ HandleAccept
  <2>1. PICK f \in Fds : Takes(f)
    BY <1>2 DEF HandleStdin, HandleSocket, HandleTimer, HandleAccept
  <2>2. \A g \in ClientFds : cqe'[g] \in {cqe[g], "none", "data"}
    BY <1>1, <2>1
  <2>3. UNCHANGED <<is_listen, conn, backlog, peer>> /\ clients \subseteq clients'
    BY <1>2 DEF HandleStdin, HandleSocket, HandleTimer, HandleAccept, flags, network
  <2> QED  BY <2>2, <2>3, BehindKept
<1>3. ASSUME NEW f \in ClientFds, HandleClient(f)  PROVE Behind'
  <2> DEFINE ended == IF cqe[f] = "data" THEN {} ELSE {f}
  <2>1. /\ Takes(f) /\ RemoveClients(ended) /\ UNCHANGED <<is_listen, backlog, peer>>
        /\ f \in Fds
    BY <1>3 DEF HandleClient, flags, network
  <2>2. \A g \in ClientFds : cqe'[g] = IF g = f THEN "none" ELSE cqe[g]
    BY <1>1, <2>1
  <2>3. ended \in SUBSET ClientFds /\ \A g \in ended : g = f
    OBVIOUS
  <2> HIDE DEF ended
  <2> QED  BY <2>1, <2>2, <2>3, BehindClosed
<1>4. CASE Leave
  <2>1. /\ RemoveClients(clients) /\ UNCHANGED <<is_listen, backlog, peer>>
        /\ clients \in SUBSET ClientFds /\ \A g \in ClientFds : cqe'[g] = "none"
    BY <1>4 DEF Leave, flags, network, Inv, TypeOK
  <2> QED  BY <2>1, BehindClosed
<1>5. CASE Interrupted
  BY <1>5, BehindKept DEF Interrupted, flags, uring, network
<1> QED  BY <1>2, <1>3, <1>4, <1>5 DEF Relay

LEMMA BehindStep == Inv /\ Behind /\ [Next]_vars => Behind'
<1>1. Behind /\ UNCHANGED vars => Behind'
  BY BehindKept DEF vars, flags, uring, network
<1>2. Inv /\ Behind /\ UserStep => Behind'
  BY BehindKept DEF UserStep, flags, uring, network
<1> QED  BY <1>1, <1>2, BehindPeers, BehindKernel, BehindRelay DEF Next

-----------------------------------------------------------------------------
(* The refinement, step by step.                                           *)

LEMMA LifeInit == Init => Life!Init
<1> SUFFICES ASSUME Init PROVE Life!Init
  OBVIOUS
<1>1. \A f \in ClientFds : conn[f] = None
  BY Numbers DEF Init
<1>2. stage = [c \in Conns |-> "new"]
  <2>1. \A c \in Conns : ~(\E f \in ClientFds : conn[f] = c)
    BY <1>1, RelayAssumption
  <2>2. \A c \in Conns : peer[c] = "new" \/ ~is_listen
    BY DEF Init
  <2> QED  BY <2>1, <2>2 DEF stage, Init
<1>3. gone = [c \in Conns |-> FALSE]
  <2>1. \A c \in Conns : ~(is_listen /\ peer[c] \in {"closed", "reset"})
    BY DEF Init
  <2> QED  BY <2>1 DEF gone
<1>4. halting = FALSE
  BY DEF Init, halting
<1> QED  BY <1>2, <1>3, <1>4 DEF Life!Init

\* Where a connection is, at both ends of a step.
LEMMA StageIs ==
  \A c \in Conns :
    /\ (\E f \in ClientFds : conn[f] = c) => stage[c] = "open"
    /\ (\A f \in ClientFds : conn[f] # c) =>
         /\ c \in backlog => stage[c] = "backlog"
         /\ c \notin backlog =>
              stage[c] = IF peer[c] = "new" \/ ~is_listen THEN "new" ELSE "closed"
  BY DEF stage

\* Peers open connections and go.
LEMMA LifePeers ==
  ASSUME Inv, Behind, NEW c \in Conns, PeerStep(c)
  PROVE  [Life!Next]_(Life!vars)
<1>1. UNCHANGED <<is_listen, conn, halting>>
  BY DEF PeerStep, flags, halting
<1>2. CASE peer[c] = "new" /\ is_listen /\ peer'[c] = "open"
  <2>1. peer' = [peer EXCEPT ![c] = "open"] /\ backlog' = backlog \cup {c}
    BY <1>2 DEF PeerStep, Inv, TypeOK
  <2>2. /\ \A d \in Conns : d # c => peer'[d] = peer[d]
        /\ \A f \in ClientFds : conn[f] # c
        /\ c \notin backlog
    BY <1>2, <2>1, RelayAssumption DEF Behind, Opened, Inv, TypeOK
  <2>3. stage[c] = "new"
    BY <1>2, <2>2, StageIs
  <2>4. stage' = [stage EXCEPT ![c] = "backlog"]
    BY <1>1, <2>1, <2>2 DEF stage
  <2>5. gone' = gone
    BY <1>1, <1>2, <2>2 DEF gone
  <2> QED  BY <1>1, <2>3, <2>4, <2>5 DEF Life!Next, Life!Arrive, Life!Moves
<1>3. CASE peer' = peer
  BY <1>1, <1>3 DEF PeerStep, stage, gone, Life!vars, Inv, TypeOK
<1>4. CASE peer[c] = "open" /\ peer'[c] \in {"closed", "reset"}
  <2>1. /\ \A d \in Conns : d # c => peer'[d] = peer[d]
        /\ backlog' = backlog
    BY <1>4 DEF PeerStep, Inv, TypeOK
  <2>2. stage' = stage
    BY <1>1, <1>4, <2>1 DEF stage
  <2>3. CASE is_listen
    <3>1. gone' = [gone EXCEPT ![c] = TRUE] /\ ~gone[c]
      BY <1>1, <1>4, <2>1, <2>3 DEF gone
    <3>2. stage[c] # "new"
      BY <1>4, <2>3 DEF stage
    <3> QED  BY <1>1, <2>2, <3>1, <3>2 DEF Life!Next, Life!Leave
  <2>4. CASE ~is_listen
    <3>1. gone' = gone
      BY <1>1, <2>4 DEF gone
    <3> QED  BY <1>1, <2>2, <3>1 DEF Life!vars
  <2> QED  BY <2>3, <2>4 DEF Inv, TypeOK
<1> QED  BY <1>2, <1>3, <1>4 DEF PeerStep, Inv, TypeOK

\* A step that neither opens nor closes a connection may only halt.
LEMMA LifeKept ==
  ASSUME UNCHANGED <<is_listen, conn, backlog, peer>>, halting => halting'
  PROVE  [Life!Next]_(Life!vars)
<1>1. stage' = stage /\ gone' = gone
  BY DEF stage, gone
<1>2. halting \in BOOLEAN /\ halting' \in BOOLEAN
  BY DEF halting
<1> QED  BY <1>1, <1>2 DEF Life!vars, Life!Next, Life!Halt

\* accept gives one connection of the backlog a number.
LEMMA LifeAccept ==
  ASSUME Inv, Behind, AcceptReady
  PROVE  [Life!Next]_(Life!vars)
<1>0. DOMAIN stage = Conns /\ stage' = [d \in Conns |-> stage'[d]]
  BY DEF stage
<1>1. PICK c \in backlog, f \in {g \in ClientFds : conn[g] = None} :
        conn' = [conn EXCEPT ![f] = c] /\ backlog' = backlog \ {c}
  BY DEF AcceptReady
<1>2. UNCHANGED <<is_listen, peer, stdin_closed, socket_closed, exec>>
  BY DEF AcceptReady, flags
<1>3. c \in Conns /\ c # None /\ conn \in [Fds -> Conns \cup {None}] /\ f \in Fds
  BY <1>1, RelayAssumption, Numbers DEF Inv, TypeOK
<1>4. conn'[f] = c /\ \A g \in Fds : g # f => conn'[g] = conn[g]
  BY <1>1, <1>3
<1>5. \A g \in ClientFds : conn[g] # c
  BY <1>1, <1>3 DEF Behind, Opened
<1>6. stage[c] = "backlog"
  BY <1>1, <1>3, <1>5, StageIs
<1>7. stage'[c] = "open"
  BY <1>1, <1>3, <1>4 DEF stage
<1>8. ASSUME NEW d \in Conns, d # c  PROVE stage'[d] = stage[d]
  <2>1. (\E g \in ClientFds : conn'[g] = d) <=> (\E g \in ClientFds : conn[g] = d)
    BY <1>1, <1>3, <1>4, <1>8, Numbers, RelayAssumption
  <2>2. d \in backlog' <=> d \in backlog
    BY <1>1, <1>8
  <2> QED  BY <1>2, <2>1, <2>2 DEF stage
<1>9. stage' = [stage EXCEPT ![c] = "open"]
  BY <1>0, <1>3, <1>7, <1>8
<1>10. gone' = gone /\ halting' = halting
  BY <1>2 DEF gone, halting
<1> QED  BY <1>3, <1>6, <1>9, <1>10 DEF Life!Next, Life!Accept, Life!Moves

\* What remove_client does to one connection.
LEMMA StageClosed ==
  ASSUME Inv, Behind, NEW ended \in SUBSET clients, RemoveClients(ended),
         UNCHANGED <<is_listen, backlog, peer>>, NEW c \in Conns
  PROVE  /\ (\A f \in ended : conn[f] # c) => stage'[c] = stage[c]
         /\ (\E f \in ended : conn[f] = c) => stage[c] = "open" /\ stage'[c] = "closed"
<1>1. /\ clients \subseteq ClientFds
      /\ \A f \in ClientFds : conn'[f] = IF f \in ended THEN None ELSE conn[f]
      /\ c # None
  BY Numbers, RelayAssumption DEF RemoveClients, Inv, TypeOK
<1>2. ASSUME \A f \in ended : conn[f] # c  PROVE stage'[c] = stage[c]
  <2>1. (\E f \in ClientFds : conn'[f] = c) <=> (\E f \in ClientFds : conn[f] = c)
    BY <1>1, <1>2
  <2> QED  BY <2>1 DEF stage
<1>3. ASSUME NEW f \in ended, conn[f] = c
      PROVE  stage[c] = "open" /\ stage'[c] = "closed"
  <2>1. stage[c] = "open"
    BY <1>1, <1>3 DEF stage
  <2>2. \A g \in ClientFds : conn'[g] # c
    BY <1>1, <1>3 DEF Behind, OneNumber
  <2>3. peer[c] # "new" /\ c \notin backlog /\ is_listen
    BY <1>1, <1>3 DEF Behind, Opened, Inv, TypeOK
  <2> QED  BY <2>1, <2>2, <2>3 DEF stage
<1> QED  BY <1>2, <1>3

\* handle_client_read closes the one connection whose peer has gone.
LEMMA LifeClient ==
  ASSUME Inv, Behind, NEW f \in ClientFds, HandleClient(f)
  PROVE  [Life!Next]_(Life!vars)
<1>1. /\ Takes(f) /\ cqe[f] # "none"
      /\ UNCHANGED <<is_listen, backlog, peer, stdin_closed, socket_closed, exec>>
  BY DEF HandleClient, Takes, flags, network
<1>2. gone' = gone /\ halting' = halting
  BY <1>1 DEF gone, halting
<1>3. CASE cqe[f] = "data"
  <2>1. conn' = [g \in Fds |-> conn[g]] /\ conn \in [Fds -> Conns \cup {None}]
    BY <1>3 DEF HandleClient, RemoveClients, Inv, TypeOK
  <2>2. conn' = conn
    BY <2>1
  <2> QED  BY <1>1, <1>2, <2>2, LifeKept
<1>4. CASE cqe[f] # "data"
  <2>1. f \in clients /\ conn[f] # None /\ peer[conn[f]] \in {"closed", "reset"}
    BY <1>1, <1>4 DEF Behind, EndIsItsOwn
  <2>2. conn[f] \in Conns /\ is_listen
    BY <2>1, Numbers DEF Inv, TypeOK, Behind, Opened
  <2>3. RemoveClients({f}) /\ {f} \in SUBSET clients
    BY <1>4, <2>1 DEF HandleClient
  <2>4. /\ stage[conn[f]] = "open" /\ stage'[conn[f]] = "closed"
        /\ \A d \in Conns : d # conn[f] => stage'[d] = stage[d]
    BY <1>1, <2>2, <2>3, StageClosed
  <2>5. stage' = [stage EXCEPT ![conn[f]] = "closed"]
    BY <2>2, <2>4 DEF stage
  <2>6. gone[conn[f]]
    BY <2>1, <2>2 DEF gone
  <2> QED  BY <1>2, <2>2, <2>4, <2>5, <2>6 DEF Life!Next, Life!Close, Life!Moves
<1> QED  BY <1>3, <1>4

\* The destructor closes all clients at once, when the relay has ended.
LEMMA LifeLeave ==
  ASSUME Inv, Behind, Leave
  PROVE  [Life!Next]_(Life!vars)
<1>1. /\ RemoveClients(clients) /\ clients \in SUBSET clients
      /\ UNCHANGED <<is_listen, backlog, peer, stdin_closed, socket_closed>>
      /\ halting /\ halting'
  BY DEF Leave, flags, network, halting
<1>2. gone' = gone /\ halting' = halting
  BY <1>1 DEF gone, halting
<1> DEFINE S == {c \in Conns : \E f \in clients : conn[f] = c}
<1>3. \A c \in S : stage[c] \in {"backlog", "open"}
  BY <1>1, StageClosed
<1>4. \A c \in Conns : stage'[c] = IF c \in S THEN "closed" ELSE stage[c]
  BY <1>1, StageClosed
<1>5. stage' = [c \in Conns |-> IF c \in S THEN "closed" ELSE stage[c]]
  BY <1>4 DEF stage
<1>6. S \in SUBSET Conns
  OBVIOUS
<1> HIDE DEF S
<1> QED  BY <1>1, <1>2, <1>3, <1>5, <1>6 DEF Life!Next, Life!Abandon

LEMMA LifeStep == Inv /\ Behind /\ [Next]_vars => [Life!Next]_(Life!vars)
<1> SUFFICES ASSUME Inv, Behind, [Next]_vars PROVE [Life!Next]_(Life!vars)
  OBVIOUS
<1>1. CASE UNCHANGED vars \/ UserStep \/ Interrupted
  BY <1>1, LifeKept DEF vars, UserStep, Interrupted, flags, network, halting
<1>2. CASE StdinReady \/ AcceptError \/ TimerReady \/ \E f \in Fds : SocketReady(f)
  BY <1>2, LifeKept DEF StdinReady, AcceptError, TimerReady, SocketReady, flags, network, halting
<1>3. CASE HandleStdin \/ HandleSocket \/ HandleAccept \/ HandleTimer
  <2>1. UNCHANGED <<is_listen, conn, backlog, peer>> /\ ~halting
    BY <1>3 DEF HandleStdin, HandleSocket, HandleAccept, HandleTimer, Takes, flags, network, halting
  <2> QED  BY <2>1, LifeKept
<1>4. CASE AcceptReady
  BY <1>4, LifeAccept
<1>5. CASE \E c \in Conns : PeerStep(c)
  BY <1>5, LifePeers
<1>6. CASE \E f \in ClientFds : HandleClient(f)
  BY <1>6, LifeClient
<1>7. CASE Leave
  BY <1>7, LifeLeave
<1> QED
  BY <1>1, <1>2, <1>3, <1>4, <1>5, <1>6, <1>7, Numbers DEF Next, Kernel, Relay

\* The relay keeps the promises of ConnectionLife: handle_client_read
\* (io_uring.h:403-430) closes a connection only after its own peer has gone,
\* although the number in a completion may have changed its connection.
THEOREM RelayImplementsLife == Spec => Life!SafetySpec
<1>1. Init => Life!Init /\ Inv /\ Behind
  BY LifeInit, InitInv, BehindInit
<1>2. Inv /\ Behind /\ [Next]_vars => [Life!Next]_(Life!vars) /\ (Inv /\ Behind)'
  BY LifeStep, StepInv, BehindStep
<1> QED  BY <1>1, <1>2, PTL DEF Spec, Life!SafetySpec
=============================================================================
