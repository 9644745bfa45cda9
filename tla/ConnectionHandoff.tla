-------------------------- MODULE ConnectionHandoff --------------------------
(***************************************************************************)
(* What the multi-threaded server of mync promises about one connection,   *)
(* whatever its threads do: it is accepted, given to one worker for good,  *)
(* taken up by that worker and closed by it, once its peer has gone.       *)
(* While the server is not being stopped no connection is closed on a peer *)
(* that is still there, none is forgotten on the way, and none waits for   *)
(* ever, to be served or, after its peer has gone, to be closed.  Only a   *)
(* halting server may close a connection earlier, or lose one.             *)
(***************************************************************************)
EXTENDS Integers

CONSTANTS
  Conns,        \* the connections
  NumWorkers    \* the workers are 1..NumWorkers

Workers == 1..NumWorkers
Nobody  == 0

VARIABLES
  stage,    \* how far each connection has come
  owner,    \* the worker a connection was given to
  gone,     \* the connection's peer has closed its end
  halting   \* the server is stopping, or has ended

vars == <<stage, owner, gone, halting>>

Stages == {"new", "backlog", "accepted", "queued", "served", "closed", "lost"}

Init ==
  /\ stage = [c \in Conns |-> "new"]
  /\ owner = [c \in Conns |-> Nobody]
  /\ gone = [c \in Conns |-> FALSE]
  /\ halting = FALSE

Arrive(c) ==
  /\ stage[c] = "new"
  /\ stage' = [stage EXCEPT ![c] = "backlog"]
  /\ UNCHANGED <<owner, gone, halting>>

Accept(c) ==
  /\ stage[c] = "backlog"
  /\ stage' = [stage EXCEPT ![c] = "accepted"]
  /\ UNCHANGED <<owner, gone, halting>>

Assign(c, w) ==
  /\ stage[c] = "accepted"
  /\ stage' = [stage EXCEPT ![c] = "queued"]
  /\ owner' = [owner EXCEPT ![c] = w]
  /\ UNCHANGED <<gone, halting>>

\* A worker takes up everything it has been given.
Serve(w) ==
  LET given == {c \in Conns : stage[c] = "queued" /\ owner[c] = w} IN
  /\ given # {}
  /\ stage' = [c \in Conns |-> IF c \in given THEN "served" ELSE stage[c]]
  /\ UNCHANGED <<owner, gone, halting>>

\* A peer leaves, wherever its connection is.
Leave(c) ==
  /\ stage[c] \notin {"new", "closed"}
  /\ ~gone[c]
  /\ gone' = [gone EXCEPT ![c] = TRUE]
  /\ UNCHANGED <<stage, owner, halting>>

\* The owner closes a connection it serves: its peer is gone, or the server
\* is stopping.
Close(c) ==
  /\ stage[c] = "served"
  /\ gone[c] \/ halting
  /\ stage' = [stage EXCEPT ![c] = "closed"]
  /\ owner' = [owner EXCEPT ![c] = Nobody]
  /\ UNCHANGED <<gone, halting>>

Halt ==
  /\ ~halting
  /\ halting' = TRUE
  /\ UNCHANGED <<stage, owner, gone>>

\* A halting server drops connections that are not served yet: it closes
\* them, or loses track of them.
Drop(fate) ==
  /\ halting
  /\ \E S \in SUBSET {c \in Conns : stage[c] \in {"backlog", "queued", "lost"}} :
       /\ stage' = [c \in Conns |-> IF c \in S THEN fate ELSE stage[c]]
       /\ owner' = [c \in Conns |-> IF c \in S THEN Nobody ELSE owner[c]]
  /\ UNCHANGED <<gone, halting>>

Next ==
  \/ \E c \in Conns : Arrive(c) \/ Accept(c) \/ Leave(c) \/ Close(c)
  \/ \E c \in Conns, w \in Workers : Assign(c, w)
  \/ \E w \in Workers : Serve(w)
  \/ Halt
  \/ \E fate \in {"closed", "lost"} : Drop(fate)

\* While the server is not halting, every connection moves on by itself
\* until its owner serves it, and is closed once its peer has gone.
Fairness ==
  \A c \in Conns :
    /\ WF_vars(~halting /\ Accept(c))
    /\ WF_vars(~halting /\ \E w \in Workers : Assign(c, w))
    /\ WF_vars(~halting /\ \E w \in Workers : owner[c] = w /\ Serve(w))
    /\ WF_vars(~halting /\ Close(c))

SafetySpec == Init /\ [][Next]_vars

Spec == SafetySpec /\ Fairness
=============================================================================
