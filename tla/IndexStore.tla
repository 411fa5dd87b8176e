----------------------------- MODULE IndexStore -----------------------------
(***************************************************************************)
(* The tables ingestion writes for one dataset version, with the           *)
(* transactions of IngestionRepository (ingestion/repository.py) and of    *)
(* the two repositories of persistence/embeddings.py.                      *)
(*                                                                         *)
(* A content is what a source may hold: the same documents 1..Documents,   *)
(* and relevances 1..Relevances[c].  Relevance k relates query k to        *)
(* document k, and a query is loaded only if a relevance names it.  The    *)
(* content hash of corpus_versions tells contents apart.  Documents,       *)
(* relevances and embeddings belong to the corpus of one content, queries  *)
(* to the dataset whatever its content.                                    *)
(*                                                                         *)
(* Inserts are ON CONFLICT DO NOTHING, row after row: one that meets a     *)
(* row another open transaction has inserted waits for that transaction.   *)
(***************************************************************************)
EXTENDS Naturals, FiniteSets

CONSTANTS
  Ingestors,   \* processes that may run `ragops ingest` at once
  Contents,    \* contents the source of the dataset may have
  Documents,   \* number of documents of each
  Relevances,  \* number of relevances of each
  None         \* SQL NULL, nobody

ASSUME StoreAssumption ==
  /\ Documents \in Nat \ {0}
  /\ Relevances \in [Contents -> 1..Documents]
  /\ None \notin Ingestors \cup Contents

VARIABLES
  corpora,  \* the contents that have a row in corpus_versions
  stored,   \* committed rows of documents, queries, qrels, document_embeddings
  index,    \* the row of index_versions of each corpus
  tx,       \* the rows an open transaction has inserted
  lock      \* who holds the index row of each corpus FOR UPDATE

storeVars == <<corpora, stored, index, tx, lock>>

Numbers == 1..Documents
Tables == {"documents", "queries", "qrels", "embeddings"}

(* the key under which a table keeps the k-th row of content c *)
RowOf(table, c, k) == <<table, IF table = "queries" THEN None ELSE c, k>>
Rows == Tables \X (Contents \cup {None}) \X Numbers

SizeOf(table, c) == IF table \in {"documents", "embeddings"} THEN Documents ELSE Relevances[c]

NoIndex == [state |-> "absent", count |-> 0]
IndexRows == [state : {"absent", "building", "ready"}, count : 0..Documents]

Init ==
  /\ corpora = {}
  /\ stored = {}
  /\ index = [c \in Contents |-> NoIndex]
  /\ tx = [i \in Ingestors |-> {}]
  /\ lock = [c \in Contents |-> None]

-----------------------------------------------------------------------------
(* Mutant: a corpus that is there already is refused, whoever wrote it. *)
RegisterConflictsAlways(c, saw) == c \in corpora

(* get_or_create_dataset and get_or_create_corpus, one transaction: what   *)
(* the SELECTs have not found is inserted, and a row another process has   *)
(* committed since is an IntegrityError.  A dataset row is there as soon   *)
(* as one of its corpora is.                                               *)
RegisterConflicts(c, saw) ==
  \/ c \notin saw /\ c \in corpora
  \/ saw = {} /\ corpora # {}

Register(c) ==
  /\ corpora' = corpora \cup {c}
  /\ UNCHANGED <<stored, index, tx, lock>>

(* the next row of a batch; _insert_missing *)
Free(i, row) == \A j \in Ingestors \ {i} : row \notin tx[j]

(* Mutant: rows are committed as they are inserted, their count later. *)
InsertRowAutocommits(i, row) ==
  /\ Free(i, row)
  /\ stored' = stored \cup {row}
  /\ tx' = [tx EXCEPT ![i] = IF row \in stored THEN @ ELSE @ \cup {row}]
  /\ UNCHANGED <<corpora, index, lock>>

InsertRow(i, row) ==
  /\ Free(i, row)
  /\ tx' = [tx EXCEPT ![i] = IF row \in stored THEN @ ELSE @ \cup {row}]
  /\ UNCHANGED <<corpora, stored, index, lock>>

CommitRows(i) ==
  /\ stored' = stored \cup tx[i]
  /\ tx' = [tx EXCEPT ![i] = {}]
  /\ UNCHANGED <<corpora, index, lock>>

(* load_corpus: documents of the corpus, queries and relevances of the     *)
(* whole dataset                                                           *)
Count(table) == Cardinality({row \in stored : row[1] = table})
CountOf(table, c) == Cardinality({k \in Numbers : RowOf(table, c, k) \in stored})

PersistedCounts(c) == <<CountOf("documents", c), Count("queries"), Count("qrels")>>
SourceCounts(c) == <<Documents, Relevances[c], Relevances[c]>>

-----------------------------------------------------------------------------
(* SqlAlchemyIndexVersionRepository.create, after get_by_configuration     *)
CreateIndex(c) ==
  /\ index' = [index EXCEPT ![c] = [state |-> "building", count |-> 0]]
  /\ UNCHANGED <<corpora, stored, tx, lock>>

Embedded(c) == {k \in Numbers : RowOf("embeddings", c, k) \in stored}

(* missing_document_ids *)
Missing(c, batch) == batch \ Embedded(c)

(* what advance_progress and refresh_progress make of a row when the count *)
(* is n                                                                    *)
Progressed(row, n) ==
  [state |-> IF n = Documents THEN "ready" ELSE row.state, count |-> n]

(* advance_progress: SELECT ... FOR UPDATE, which waits, then the commit   *)
(* of the rows together with the counter                                   *)
LockIndex(i, c) ==
  /\ lock[c] = None
  /\ lock' = [lock EXCEPT ![c] = i]
  /\ UNCHANGED <<corpora, stored, index, tx>>

Advanced(i, row) == row.count + Cardinality(tx[i])

CommitEmbeddings(i, c, row) ==
  /\ Advanced(i, row) <= Documents
  /\ index' = [index EXCEPT ![c] = Progressed(row, Advanced(i, row))]
  /\ stored' = stored \cup tx[i]
  /\ tx' = [tx EXCEPT ![i] = {}]
  /\ lock' = [lock EXCEPT ![c] = None]
  /\ UNCHANGED corpora

(* refresh_progress: its UPDATE names the columns that differ from the row *)
(* it loaded, and waits for the lock                                       *)
RefreshRefused(row, n) == n > Documents \/ (row.state = "ready" /\ n < Documents)

CommitRefresh(c, row, n) ==
  /\ index' = [index EXCEPT ![c] =
       [state |-> IF Progressed(row, n).state = row.state THEN @.state ELSE "ready",
        count |-> IF n = row.count THEN @.count ELSE n]]
  /\ lock[c] = None \/ index' = index
  /\ UNCHANGED <<corpora, stored, tx, lock>>

(* the session ends without a commit *)
Rollback(i) ==
  /\ tx' = [tx EXCEPT ![i] = {}]
  /\ lock' = [c \in Contents |-> IF lock[c] = i THEN None ELSE lock[c]]
  /\ UNCHANGED <<corpora, stored, index>>
=============================================================================
