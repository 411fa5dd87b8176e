----------------------------- MODULE EvalStore -----------------------------
(***************************************************************************)
(* One evaluation run as the database keeps it: the row of eval_runs and   *)
(* the rows of eval_query_results, with the transactions of                *)
(* SqlAlchemyEvaluationRunRepository (persistence/repositories.py) and     *)
(* SqlAlchemyEvaluationDataRepository (evaluation/repository.py).          *)
(*                                                                         *)
(* No repository call locks the run row.  Each is a SELECT, checks on what *)
(* it returned, and an UPDATE of the columns that changed, so each is a    *)
(* Read step, which opens tx[s], and the Commit step that closes it; other *)
(* sessions may commit between them.                                       *)
(*                                                                         *)
(* An item is one (query, variant) pair.  Items are numbered in the order  *)
(* the runner visits them: query after query, within a query variant after *)
(* variant.                                                                *)
(***************************************************************************)
EXTENDS Naturals, FiniteSets

CONSTANTS
  Total,       \* number of items of the run: queries times variants
  NV,          \* number of variants
  GenItems,    \* the items answers are generated for
  Generation,  \* EvalRunSpec.generation_enabled
  Judging,     \* whether EvalRunSpec.judge_profiles is not empty
  Indexes,     \* index fingerprints a search may report
  Runners,     \* sessions that execute the run
  Clients,     \* sessions that cancel the run
  None         \* SQL NULL, an absent key

Items == 1..Total
Variants == 0..(NV - 1)
VariantOf(i) == (i - 1) % NV
QueryOf(i) == (i - 1) \div NV

(* Outcomes of an answer: the judge stage scores OK, ABSTAINED and         *)
(* CITATION_ERROR, and passes over every other.                            *)
Outcomes == {"usable", "unusable"}

ASSUME StoreAssumption ==
  /\ NV \in Nat \ {0}
  /\ Total \in Nat \ {0}
  /\ Total % NV = 0
  /\ GenItems \subseteq Items
  /\ Generation \in BOOLEAN
  /\ Judging \in BOOLEAN
  /\ Judging => Generation
  /\ None \notin Indexes
  /\ None \notin Outcomes
  /\ None \notin Nat
  /\ Indexes \cap Outcomes = {}
  /\ Runners \cap Clients = {}

VARIABLES
  state,      \* EvalRunRow.state, or "absent"
  total,      \* EvalRunRow.total_queries
  completed,  \* EvalRunRow.completed_queries
  pins,       \* EvalRunRow.index_fingerprints
  result,     \* the index each stored result was searched in, None: no row
  answer,     \* outcome of generation_record, None for NULL
  judged,     \* whether judge_records holds the verdicts of the profiles
  tx          \* the transaction each session has open

storeVars == <<state, total, completed, pins, result, answer, judged, tx>>
tableVars == <<state, total, completed, pins, result, answer, judged>>

Ended == {"completed", "failed", "cancelled"}
States == {"absent", "queued", "preparing", "retrieving", "generating", "judging",
           "scoring"} \cup Ended
Callers == Runners \cup Clients

(* The run row with the columns a transaction changes, and the ones it     *)
(* found different: an UPDATE of the unit of work names only these.        *)
Row == [state |-> state, total |-> total, completed |-> completed, pins |-> pins]
Columns == {"state", "total", "completed", "pins"}

Rows == [state : States, total : {0, Total}, completed : 0..Total,
         pins : [Variants -> Indexes \cup {None}]]

NoTx == [table |-> "none", item |-> 1, value |-> None, row |-> None, dirty |-> {}]
Txs ==
  LET Tx(table, items, values) ==
        [table : {table}, item : items, value : values, row : Rows, dirty : SUBSET Columns]
  IN Tx("run", {1}, {None}) \cup Tx("result", Items, Indexes) \cup Tx("answer", Items, Outcomes)

Init ==
  /\ state = "absent"
  /\ total = 0
  /\ completed = 0
  /\ pins = [v \in Variants |-> None]
  /\ result = [i \in Items |-> None]
  /\ answer = [i \in Items |-> None]
  /\ judged = [i \in Items |-> FALSE]
  /\ tx = [s \in Callers |-> NoTx]

(* create and set_state(QUEUED), in one transaction *)
Create ==
  /\ state = "absent"
  /\ state' = "queued"
  /\ UNCHANGED <<total, completed, pins, result, answer, judged, tx>>

-----------------------------------------------------------------------------
Open(s, table, i, x, row) ==
  /\ tx[s] = NoTx
  /\ tx' = [tx EXCEPT ![s] = [table |-> table, item |-> i, value |-> x, row |-> row,
                              dirty |-> {c \in Columns : row[c] # Row[c]}]]
  /\ UNCHANGED tableVars

(* ensure_state_transition *)
NextStates(from) ==
  CASE from = "queued"     -> {"preparing"}
    [] from = "preparing"  -> {"retrieving"}
    [] from = "retrieving" -> {"generating", "scoring"}
    [] from = "generating" -> {"judging", "scoring"}
    [] from = "judging"    -> {"scoring"}
    [] from = "scoring"    -> {"completed"}
    [] OTHER               -> {}

Allowed(from, to) ==
  \/ to = from
  \/ to \in {"failed", "cancelled"} /\ from \notin Ended
  \/ to \in NextStates(from)

SetStateRead(s, to) ==
  /\ Allowed(state, to)
  /\ Open(s, "run", 1, None, [Row EXCEPT !.state = to])

(* Mutant: progress has to increase. *)
ProgressValidStrict(done) == done > completed /\ done <= Total /\ total \in {0, Total}

ProgressValid(done) == done >= completed /\ done <= Total /\ total \in {0, Total}

SetProgressRead(s, done) ==
  /\ ProgressValid(done)
  /\ Open(s, "run", 1, None, [Row EXCEPT !.completed = done, !.total = Total])

PinValid(v, x) == pins[v] \in {None, x}

PinRead(s, v, x) ==
  /\ PinValid(v, x)
  /\ Open(s, "run", 1, None, [Row EXCEPT !.pins[v] = x])

Stored == {i \in Items : result[i] # None}

(* add_result: INSERT ... ON CONFLICT DO NOTHING.  It waits for another    *)
(* session that inserts the same key, and counts the rows it can see.      *)
InsertFree(s, i) ==
  \A r \in Callers \ {s} : ~(tx[r].table = "result" /\ tx[r].item = i)

(* Mutants: every call counts, also one that finds the row there; the rows *)
(* are counted before the new one is inserted.                             *)
AddResultAnyway(s, i, x) ==
  /\ InsertFree(s, i)
  /\ Open(s, "result", i, x, [Row EXCEPT !.completed = @ + 1])
AddResultCountsFirst(s, i, x) ==
  /\ InsertFree(s, i) /\ result[i] = None
  /\ Open(s, "result", i, x, [Row EXCEPT !.completed = Cardinality(Stored)])

AddResultRead(s, i, x) ==
  /\ InsertFree(s, i) /\ result[i] = None
  /\ Cardinality(Stored) + 1 <= total
  /\ Open(s, "result", i, x, [Row EXCEPT !.completed = Cardinality(Stored) + 1])

UpdateAnswerRead(s, i, outcome) ==
  /\ result[i] # None /\ answer[i] = None
  /\ Open(s, "answer", i, outcome, Row)

(* update_judges merges into what it read only records it does not hold,   *)
(* so its commit leaves the same verdicts whatever ran in between.         *)
UpdateJudges(i) ==
  /\ result[i] # None
  /\ judged' = [judged EXCEPT ![i] = TRUE]
  /\ UNCHANGED <<state, total, completed, pins, result, answer, tx>>

(* The UPDATE and the INSERT of a transaction take effect together. *)
Commit(s) ==
  LET t == tx[s]
      Written(c, old) == IF c \in t.dirty THEN t.row[c] ELSE old
  IN /\ t # NoTx
     /\ state' = Written("state", state)
     /\ total' = Written("total", total)
     /\ completed' = Written("completed", completed)
     /\ pins' = Written("pins", pins)
     /\ result' = IF t.table = "result" THEN [result EXCEPT ![t.item] = t.value] ELSE result
     /\ answer' = IF t.table = "answer" THEN [answer EXCEPT ![t.item] = t.value] ELSE answer
     /\ tx' = [tx EXCEPT ![s] = NoTx]
     /\ UNCHANGED judged

Rollback(s) ==
  /\ tx[s] # NoTx
  /\ tx' = [tx EXCEPT ![s] = NoTx]
  /\ UNCHANGED tableVars

(* a client cancels the run: set_state(CANCELLED) *)
CancelRead(c) == state \notin Ended \cup {"absent"} /\ SetStateRead(c, "cancelled")

-----------------------------------------------------------------------------
StoreTypeOK ==
  /\ state \in States
  /\ total \in {0, Total}
  /\ completed \in 0..Total
  /\ pins \in [Variants -> Indexes \cup {None}]
  /\ result \in [Items -> Indexes \cup {None}]
  /\ answer \in [Items -> Outcomes \cup {None}]
  /\ judged \in [Items -> BOOLEAN]
  /\ tx \in [Callers -> Txs \cup {NoTx}]
=============================================================================
