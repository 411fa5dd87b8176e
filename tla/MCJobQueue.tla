----------------------------- MODULE MCJobQueue -----------------------------
(* The queue under every interleaving of three workers and an operator who *)
(* cancels.  No property below tells one worker from another.              *)
EXTENDS JobQueue, TLC

WorkerSymmetry == Permutations(Workers)
=============================================================================
