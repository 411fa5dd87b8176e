----------------------------- MODULE EvalRunner -----------------------------
(***************************************************************************)
(* RetrievalEvaluationRunner (src/ragops/evaluation/runner.py) over the    *)
(* tables of EvalStore.  The local "run" of the code is view[r], the state *)
(* it last saw; pc[r] is the point the code has reached:                   *)
(*                                                                         *)
(*   claim    set_state(PREPARING)         answer    the generation loop   *)
(*   load     manifest, queries, hashes    answered  leave that loop       *)
(*   size     set_progress                 judge     the judging loop      *)
(*   begin    set_state(RETRIEVING)        judged    leave that loop       *)
(*   list     read what is done already    score     set_state(COMPLETED)  *)
(*   search   the retrieval loop           mark      _mark_failed          *)
(*   pin      pin_index_fingerprint        returned  run() has returned    *)
(*   store    add_result                   raised    run() has raised      *)
(*   leave    leave the retrieval loop     off       no runner             *)
(***************************************************************************)
EXTENDS EvalStore

VARIABLES
  pc,
  view,    \* state of the run as the runner last read it
  seen,    \* completed_queries when the runner last read it
  pinned,  \* expected_index_fingerprints
  skip,    \* the items the current loop passes over
  at,      \* the item the current loop has reached
  found    \* the index the last search reported

runnerVars == <<pc, view, seen, pinned, skip, at, found>>
vars == <<state, total, completed, pins, result, answer, judged, tx,
          pc, view, seen, pinned, skip, at, found>>

Points == {"claim", "load", "size", "begin", "list", "search", "pin", "store", "leave",
           "answer", "answered", "judge", "judged", "score"}
Running == Points \cup {"mark"}

RInit ==
  /\ Init
  /\ pc = [r \in Runners |-> "off"]
  /\ view = [r \in Runners |-> "absent"]
  /\ seen = [r \in Runners |-> 0]
  /\ pinned = [r \in Runners |-> [v \in Variants |-> None]]
  /\ skip = [r \in Runners |-> {}]
  /\ at = [r \in Runners |-> 1]
  /\ found = [r \in Runners |-> None]

(* the locals a runner no longer reads go back to their first value *)
Forget(r) ==
  /\ view' = [view EXCEPT ![r] = "absent"]
  /\ seen' = [seen EXCEPT ![r] = 0]
  /\ pinned' = [pinned EXCEPT ![r] = [v \in Variants |-> None]]
  /\ skip' = [skip EXCEPT ![r] = {}]
  /\ at' = [at EXCEPT ![r] = 1]
  /\ found' = [found EXCEPT ![r] = None]

Goto(r, p) == pc' = [pc EXCEPT ![r] = p]
KeepLocals == UNCHANGED <<view, seen, pinned, skip, at, found>>

Ends(r, p) == Goto(r, p) /\ Forget(r)

(* Where the code goes on when "run" has been read again at point p and    *)
(* has state s: to the first of the stages below p that tests for s.       *)
Enter(p, s) ==
  CASE s = "retrieving" /\ p \in {"load", "size", "begin"} -> "list"
    [] s = "generating" /\ p \in {"load", "size", "begin", "leave"} -> "list"
    [] s = "judging" /\ p \in {"load", "size", "begin", "leave", "answered"} -> "list"
    [] s = "scoring" /\ p # "score" -> "score"
    [] OTHER -> "returned"

-----------------------------------------------------------------------------
(* run: read the row *)
Starts(r) ==
  /\ pc[r] = "off" /\ state # "absent"
  /\ IF state \in Ended
     THEN Ends(r, "returned")
     ELSE /\ Goto(r, IF state = "queued" THEN "claim" ELSE "load")
          /\ view' = [view EXCEPT ![r] = state]
          /\ seen' = [seen EXCEPT ![r] = completed]
          /\ pinned' = [pinned EXCEPT ![r] = pins]
          /\ UNCHANGED <<skip, at, found>>
  /\ UNCHANGED storeVars

(* run raises before its try: the row cannot be read, or the worker has no *)
(* answer service or judges for it.  The run is not marked.                *)
StartFails(r) ==
  /\ pc[r] = "off" /\ state # "absent"
  /\ Ends(r, "raised")
  /\ UNCHANGED storeVars

Loads(r) ==
  /\ pc[r] = "load"
  /\ Goto(r, IF view[r] \in {"preparing", "retrieving"} THEN "size" ELSE Enter("load", view[r]))
  /\ KeepLocals
  /\ UNCHANGED storeVars

(* Mutant: a run is scored without the answers it asks for. *)
TargetWithoutAnswers(p) ==
  CASE p = "claim"    -> "preparing"
    [] p = "begin"    -> "retrieving"
    [] p = "leave"    -> "scoring"
    [] p = "answered" -> IF Judging THEN "judging" ELSE "scoring"
    [] p = "judged"   -> "scoring"
    [] p = "score"    -> "completed"

(* the state a call of set_state at point p asks for *)
Target(p) ==
  CASE p = "claim"    -> "preparing"
    [] p = "begin"    -> "retrieving"
    [] p = "leave"    -> IF Generation THEN "generating" ELSE "scoring"
    [] p = "answered" -> IF Judging THEN "judging" ELSE "scoring"
    [] p = "judged"   -> "scoring"
    [] p = "score"    -> "completed"

SetsState(r) ==
  /\ pc[r] \in {"claim", "begin", "leave", "answered", "judged", "score"}
  /\ tx[r] = NoTx
  /\ \/ SetStateRead(r, Target(pc[r])) /\ UNCHANGED runnerVars
     \/ /\ ~Allowed(state, Target(pc[r]))
        /\ Goto(r, "mark") /\ KeepLocals
        /\ UNCHANGED storeVars

SetsProgress(r) ==
  /\ pc[r] = "size" /\ tx[r] = NoTx
  /\ \/ SetProgressRead(r, seen[r]) /\ UNCHANGED runnerVars
     \/ /\ ~ProgressValid(seen[r])
        /\ Goto(r, "mark") /\ KeepLocals
        /\ UNCHANGED storeVars

(* The commit of such a call.  The repository refreshes the row before it  *)
(* returns it, so what the runner sees is the row as it now stands.        *)
Sees(r, p) ==
  /\ Commit(r)
  /\ view' = [view EXCEPT ![r] = state']
  /\ seen' = [seen EXCEPT ![r] = IF p = "claim" THEN completed' ELSE 0]
  /\ pinned' = [pinned EXCEPT ![r] = IF p = "claim" THEN pins' ELSE @]
  /\ UNCHANGED <<skip, at, found>>

Claimed(r) == pc[r] = "claim" /\ Sees(r, "claim") /\ Goto(r, "load")

Sized(r) ==
  /\ pc[r] = "size"
  /\ Sees(r, "size")
  /\ Goto(r, IF view[r] = "preparing" THEN "begin" ELSE Enter("size", state'))

Moved(r) ==
  /\ pc[r] \in {"begin", "leave", "answered", "judged", "score"}
  /\ Sees(r, pc[r])
  /\ Goto(r, Enter(pc[r], state'))

-----------------------------------------------------------------------------
(* Mutant: a resumed run starts its retrieval from the first query. *)
PassedNoResult(s) ==
  CASE s = "retrieving" -> {}
    [] s = "generating" -> {i \in Items : i \notin GenItems \/ answer[i] # None}
    [] s = "judging"    -> {i \in Items : i \notin GenItems \/ answer[i] = "unusable" \/ judged[i]}

(* completed_work or load_results, whichever the stage begins with *)
Passed(s) ==
  CASE s = "retrieving" -> Stored
    [] s = "generating" -> {i \in Items : i \notin GenItems \/ answer[i] # None}
    [] s = "judging"    -> {i \in Items : i \notin GenItems \/ answer[i] = "unusable" \/ judged[i]}

Lists(r) ==
  /\ pc[r] = "list"
  /\ skip' = [skip EXCEPT ![r] = Passed(view[r])]
  /\ at' = [at EXCEPT ![r] = 1]
  /\ Goto(r, CASE view[r] = "retrieving" -> "search"
               [] view[r] = "generating" -> "answer"
               [] view[r] = "judging"    -> "judge")
  /\ UNCHANGED <<storeVars, view, seen, pinned, found>>

Advance(r) == at' = [at EXCEPT ![r] = @ + 1]

(* The retrieval loop reads the run at every query, the generation loop at *)
(* every answer it has to ask for, the judging loop never.                 *)
CancelSeen(r) ==
  /\ state = "cancelled"
  /\ \/ pc[r] = "search" /\ (at[r] > Total \/ VariantOf(at[r]) = 0)
     \/ pc[r] = "answer" /\ at[r] \in Items \ skip[r]

ReturnsCancelled(r) ==
  /\ tx[r] = NoTx /\ CancelSeen(r)
  /\ Ends(r, "returned")
  /\ UNCHANGED storeVars

Skips(r) ==
  /\ pc[r] \in {"search", "answer", "judge"} /\ tx[r] = NoTx
  /\ at[r] \in skip[r] /\ ~CancelSeen(r)
  /\ Advance(r)
  /\ UNCHANGED <<storeVars, pc, view, seen, pinned, skip, found>>

(* Mutant: the index of a search is compared with the pin at the pin only. *)
SearchesUnchecked(r) ==
  /\ pc[r] = "search" /\ at[r] \in Items \ skip[r] /\ ~CancelSeen(r)
  /\ \E x \in Indexes :
       /\ found' = [found EXCEPT ![r] = x]
       /\ Goto(r, IF pinned[r][VariantOf(at[r])] = None THEN "pin" ELSE "store")
  /\ UNCHANGED <<storeVars, view, seen, pinned, skip, at>>

(* _evaluate_one: the search answers from whatever index is served now *)
Searches(r) ==
  /\ pc[r] = "search" /\ at[r] \in Items \ skip[r] /\ ~CancelSeen(r)
  /\ \E x \in Indexes :
       LET expected == pinned[r][VariantOf(at[r])] IN
       /\ found' = [found EXCEPT ![r] = x]
       /\ Goto(r, CASE expected = None -> "pin" [] expected = x -> "store" [] OTHER -> "mark")
  /\ UNCHANGED <<storeVars, view, seen, pinned, skip, at>>

Pins(r) ==
  /\ pc[r] = "pin" /\ tx[r] = NoTx
  /\ \/ PinRead(r, VariantOf(at[r]), found[r]) /\ UNCHANGED runnerVars
     \/ /\ ~PinValid(VariantOf(at[r]), found[r])
        /\ Goto(r, "mark") /\ KeepLocals
        /\ UNCHANGED storeVars

Pinned(r) ==
  /\ pc[r] = "pin"
  /\ Commit(r)
  /\ pinned' = [pinned EXCEPT ![r][VariantOf(at[r])] = found[r]]
  /\ Goto(r, "store")
  /\ UNCHANGED <<view, seen, skip, at, found>>

ToNextSearch(r) ==
  /\ Goto(r, "search")
  /\ Advance(r)
  /\ found' = [found EXCEPT ![r] = None]
  /\ UNCHANGED <<view, seen, pinned, skip>>

Stores(r) ==
  /\ pc[r] = "store" /\ tx[r] = NoTx
  /\ \/ AddResultRead(r, at[r], found[r]) /\ UNCHANGED runnerVars
     \/ result[at[r]] # None /\ ToNextSearch(r) /\ UNCHANGED storeVars

StoreCommits(r) == pc[r] = "store" /\ Commit(r) /\ ToNextSearch(r)

RetrievalComplete == completed = Total /\ \A v \in Variants : pins[v] # None

Retrieved(r) ==
  /\ pc[r] = "search" /\ at[r] > Total /\ ~CancelSeen(r)
  /\ Goto(r, IF RetrievalComplete THEN "leave" ELSE "mark")
  /\ KeepLocals
  /\ UNCHANGED storeVars

-----------------------------------------------------------------------------
(* An answer is generated and stored, unless the row has one by now. *)
Answers(r) ==
  /\ pc[r] = "answer" /\ tx[r] = NoTx
  /\ at[r] \in Items \ skip[r] /\ ~CancelSeen(r)
  /\ \/ (\E o \in Outcomes : UpdateAnswerRead(r, at[r], o)) /\ UNCHANGED runnerVars
     \/ /\ answer[at[r]] # None
        /\ Advance(r)
        /\ UNCHANGED <<storeVars, pc, view, seen, pinned, skip, found>>

AnswerCommits(r) ==
  /\ pc[r] = "answer"
  /\ Commit(r)
  /\ Advance(r)
  /\ UNCHANGED <<pc, view, seen, pinned, skip, found>>

Judges(r) ==
  /\ pc[r] = "judge" /\ at[r] \in Items \ skip[r]
  /\ answer[at[r]] # None
  /\ UpdateJudges(at[r])
  /\ Advance(r)
  /\ UNCHANGED <<pc, view, seen, pinned, skip, found>>

(* Mutant: the last item is left out. *)
StageEndsEarly(r) ==
  /\ pc[r] \in {"answer", "judge"} /\ at[r] >= Total /\ tx[r] = NoTx
  /\ Goto(r, IF pc[r] = "answer" THEN "answered" ELSE "judged")
  /\ KeepLocals
  /\ UNCHANGED storeVars

StageEnds(r) ==
  /\ pc[r] \in {"answer", "judge"} /\ at[r] > Total
  /\ Goto(r, IF pc[r] = "answer" THEN "answered" ELSE "judged")
  /\ KeepLocals
  /\ UNCHANGED storeVars

-----------------------------------------------------------------------------
(* Any call inside the try may raise: a search, an answer, a verdict, a    *)
(* configuration that changed, the database.                               *)
Raises(r) ==
  /\ pc[r] \in Points
  /\ \/ tx[r] = NoTx /\ UNCHANGED storeVars
     \/ Rollback(r)
  /\ Goto(r, "mark")
  /\ KeepLocals

(* _mark_failed, which may fail itself *)
Marks(r) ==
  /\ pc[r] = "mark" /\ tx[r] = NoTx
  /\ \/ state \notin Ended /\ SetStateRead(r, "failed") /\ UNCHANGED runnerVars
     \/ state \in Ended /\ Ends(r, "raised") /\ UNCHANGED storeVars

Marked(r) == pc[r] = "mark" /\ Commit(r) /\ Ends(r, "raised")

MarkFails(r) ==
  /\ pc[r] = "mark"
  /\ \/ tx[r] = NoTx /\ UNCHANGED storeVars
     \/ Rollback(r)
  /\ Ends(r, "raised")

(* The process dies, or the worker cancels the handler: CancelledError is  *)
(* no Exception, so the run is not marked.                                 *)
Aborted(r) ==
  /\ pc[r] \in Running
  /\ \/ tx[r] = NoTx /\ UNCHANGED storeVars
     \/ Rollback(r)
  /\ Ends(r, "off")

(* the outcome has been taken note of *)
Leaves(r) ==
  /\ pc[r] \in {"returned", "raised"}
  /\ Ends(r, "off")
  /\ UNCHANGED storeVars

CancelClient(c) == (CancelRead(c) \/ Commit(c)) /\ UNCHANGED runnerVars

-----------------------------------------------------------------------------
Execute(r) ==
  \/ Loads(r) \/ SetsState(r) \/ SetsProgress(r) \/ Claimed(r) \/ Sized(r) \/ Moved(r)
  \/ Lists(r) \/ Skips(r) \/ ReturnsCancelled(r)
  \/ Searches(r) \/ Pins(r) \/ Pinned(r) \/ Stores(r) \/ StoreCommits(r) \/ Retrieved(r)
  \/ Answers(r) \/ AnswerCommits(r) \/ Judges(r) \/ StageEnds(r)
  \/ Marks(r) \/ Marked(r)

RNext ==
  \/ Create /\ UNCHANGED runnerVars
  \/ \E r \in Runners :
       \/ Starts(r) \/ StartFails(r) \/ Execute(r)
       \/ Raises(r) \/ MarkFails(r) \/ Aborted(r) \/ Leaves(r)
  \/ \E c \in Clients : CancelClient(c)

RSpec == RInit /\ [][RNext]_vars

-----------------------------------------------------------------------------
RTypeOK ==
  /\ StoreTypeOK
  /\ pc \in [Runners -> Running \cup {"off", "returned", "raised"}]
  /\ view \in [Runners -> States]
  /\ seen \in [Runners -> 0..Total]
  /\ pinned \in [Runners -> [Variants -> Indexes \cup {None}]]
  /\ skip \in [Runners -> SUBSET Items]
  /\ at \in [Runners -> 1..(Total + 1)]
  /\ found \in [Runners -> Indexes \cup {None}]

(* The progress a run shows is never ahead of the results it has: no       *)
(* transaction that read the row earlier, of any number of runners at once, *)
(* brings completed_queries above the rows that are committed.             *)
ProgressNeverAhead == completed <= Cardinality(Stored)

(* A stage is not left before its work is stored, even when several        *)
(* runners overlap: a run in GENERATING or later has every result, and one *)
(* past GENERATING every answer.                                           *)
StagesInOrder ==
  /\ state \in {"generating", "judging", "scoring", "completed"} => Stored = Items
  /\ state \in {"judging", "scoring", "completed"} /\ Generation => \A i \in GenItems : answer[i] # None

=============================================================================
