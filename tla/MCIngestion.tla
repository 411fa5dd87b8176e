---------------------------- MODULE MCIngestion ----------------------------
(* Two ingestions of one dataset at once.  Its source has two contents:    *)
(* the pinned one, and one with a relevance less, as an edit may leave it  *)
(* or a file that is read while it is being written.  The processes were   *)
(* started with different batch sizes.                                     *)
EXTENDS Ingestion

CONSTANTS i1, i2, full, cut

MCRelevances == [c \in Contents |-> IF c = full THEN 2 ELSE 1]
MCBatch == [i \in Ingestors |-> IF i = i1 THEN 2 ELSE 3]
=============================================================================
