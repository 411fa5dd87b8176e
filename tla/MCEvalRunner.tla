---------------------------- MODULE MCEvalRunner ----------------------------
(* Two runners that execute one run at the same time, as after a lease     *)
(* that was lost, and a client that cancels it.  No property below tells   *)
(* one runner from the other.                                              *)
EXTENDS EvalRunner, TLC

RunnerSymmetry == Permutations(Runners)
=============================================================================
