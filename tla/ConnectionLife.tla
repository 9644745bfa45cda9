--------------------------- MODULE ConnectionLife ---------------------------
(***************************************************************************)
(* What a peer may expect of a server: its connection waits in the         *)
(* backlog, is accepted once, and is closed once, after the peer has gone  *)
(* and for no other reason: not because another connection has ended, nor  *)
(* because another had its descriptor number before.  Only a server that   *)
(* is being stopped closes connections of peers that are still there.      *)
(*                                                                         *)
(* MyncServer and UringRelay implement it, SimpleEpoll does but for calls  *)
(* that hit a connection they were not meant for.                          *)
(***************************************************************************)
CONSTANT Conns

VARIABLES
  stage,    \* how far each connection has come
  gone,     \* the connection's peer has closed its end
  halting   \* the server is stopping, or has ended

vars == <<stage, gone, halting>>

Init ==
  /\ stage = [c \in Conns |-> "new"]
  /\ gone = [c \in Conns |-> FALSE]
  /\ halting = FALSE

Moves(c, from, to) ==
  /\ stage[c] = from
  /\ stage' = [stage EXCEPT ![c] = to]
  /\ UNCHANGED <<gone, halting>>

Arrive(c) == Moves(c, "new", "backlog")

Accept(c) == Moves(c, "backlog", "open")

Close(c) == gone[c] /\ Moves(c, "open", "closed")

\* A peer leaves, wherever its connection is.
Leave(c) ==
  /\ stage[c] # "new" /\ ~gone[c]
  /\ gone' = [gone EXCEPT ![c] = TRUE]
  /\ UNCHANGED <<stage, halting>>

Halt ==
  /\ ~halting /\ halting' = TRUE
  /\ UNCHANGED <<stage, gone>>

\* A halting server closes what it has, all at once or one by one.
Abandon(S) ==
  /\ halting
  /\ \A c \in S : stage[c] \in {"backlog", "open"}
  /\ stage' = [c \in Conns |-> IF c \in S THEN "closed" ELSE stage[c]]
  /\ UNCHANGED <<gone, halting>>

Next ==
  \/ \E c \in Conns : Arrive(c) \/ Accept(c) \/ Leave(c) \/ Close(c)
  \/ Halt
  \/ \E S \in SUBSET Conns : Abandon(S)

SafetySpec == Init /\ [][Next]_vars

\* A connection whose peer has gone does not stay open, unless the server
\* halts.
Spec == SafetySpec /\ \A c \in Conns : WF_vars(~halting /\ Close(c))
=============================================================================
