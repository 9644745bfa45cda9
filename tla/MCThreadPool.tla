---------------------------- MODULE MCThreadPool ----------------------------
(* Instances of ThreadPool for TLC: workers and coroutines are             *)
(* interchangeable, and permuted in the runs without liveness.             *)
EXTENDS ThreadPool, TLC

PoolSymmetry == Permutations(Workers) \cup Permutations(Tasks)
=============================================================================
