--------------------------- MODULE IndexContract ---------------------------
(***************************************************************************)
(* What ingestion promises to whoever searches (IndexBuildState of         *)
(* contracts/resources.py; resolve_index of retrieval/store.py takes READY *)
(* indexes only): an index is announced empty, gains embeddings and loses  *)
(* none, and is ready from the very step that gave it its last one.        *)
(***************************************************************************)
EXTENDS Naturals

CONSTANTS
  Corpora,    \* the corpora an index may be built for
  Documents   \* the documents of each

VARIABLES
  phase,      \* "absent", "building" or "ready", for each corpus
  embedded    \* the documents of each that have an embedding in its index

indexVars == <<phase, embedded>>

Init ==
  /\ phase = [c \in Corpora |-> "absent"]
  /\ embedded = [c \in Corpora |-> {}]

Announce(c) ==
  /\ phase[c] = "absent"
  /\ phase' = [phase EXCEPT ![c] = "building"]
  /\ UNCHANGED embedded

Embed(c, D) ==
  /\ phase[c] = "building"
  /\ D \cap embedded[c] = {}
  /\ embedded' = [embedded EXCEPT ![c] = @ \cup D]
  /\ phase' = [phase EXCEPT ![c] = IF embedded'[c] = Documents THEN "ready" ELSE "building"]

Next ==
  \E c \in Corpora :
    \/ Announce(c)
    \/ \E D \in (SUBSET Documents) \ {{}} : Embed(c, D)

Spec == Init /\ [][Next]_indexVars
=============================================================================
