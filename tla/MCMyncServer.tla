---------------------------- MODULE MCMyncServer ----------------------------
(***************************************************************************)
(* Instances of MyncServer for TLC.  The .cfg files give the numbers; the  *)
(* connections are interchangeable, the workers are not (min_element takes *)
(* the first of equals), so only the connections are permuted, and only in *)
(* runs without liveness properties.                                       *)
(***************************************************************************)
EXTENDS MyncServer, TLC

ConnSymmetry == Permutations(Conns)
=============================================================================
