---------------------------- MODULE MCThreadPool ----------------------------
(***************************************************************************)
(* Instances of ThreadPool for TLC.                                        *)
(***************************************************************************)
EXTENDS ThreadPool, TLC

(* What new may leave in wait_exit_thr_num: a negative, zero or positive.   *)
AnyWaitExit == {-1, 0, 2}

(* Clients, and tasks, are all alike.                                       *)
Symmetry == Permutations(Clients) \cup Permutations(Tasks)
=============================================================================
