----------------------------- MODULE Ingestion -----------------------------
(***************************************************************************)
(* `ragops ingest` (cli.py:_ingest and IngestionService.ingest) over the   *)
(* tables of IndexStore and the files of Artifacts, for any number of      *)
(* processes at once, each of which may die at any step and be started     *)
(* again.  me[i].pc is the point process i has reached:                    *)
(*                                                                         *)
(*   hydrate      hydrate_ingestion        build, rename   the BM25 files  *)
(*   check        the .complete marker     find, create    index_versions  *)
(*   extract,                              missing,                        *)
(*   extracting   unpacking the archive    embeddings,                     *)
(*   mark         writing the marker       advancing       _embed_missing  *)
(*   read         load and hash            refresh,                        *)
(*   registered   dataset and corpus       recount,                        *)
(*   documents, queries, qrels             refreshing      refresh_progress *)
(*   validate     the counts               publish         publish_ingestion *)
(*                                                                         *)
(* A deployment is local, one disk for all and no bucket, or cloud, a      *)
(* fresh disk for every start of a process and a bucket.  The source is    *)
(* remote, an archive pinned by its checksum and unpacked into the dataset *)
(* cache, or a local directory, which may be edited between two runs.      *)
(* (In the cloud a local directory is part of the image and does not       *)
(* change, so that kind of source adds nothing there.)                     *)
(***************************************************************************)
EXTENDS IndexStore, Artifacts

CONSTANTS
  Pinned,      \* the content of the pinned archive
  Batch,       \* --write-batch-size and --embedding-batch-size of each process
  Shared,      \* the one disk of a local deployment
  MaxCrashes   \* how many processes die

VARIABLES
  cloud, remote,  \* the deployment and the kind of manifest, fixed
  source,         \* the content of a local directory
  me,             \* the locals of each process
  spoilt,         \* those behind whom a process that died has truncated a
                  \* file they had unpacked already
  crashes,
  published       \* whether some ingestion has published all it has to

processVars == <<me, spoilt, crashes, published>>
worldVars == <<cloud, remote, source>>
vars == <<storeVars, processVars, fileVars, worldVars>>

ASSUME IngestionAssumption ==
  /\ Pinned \in Contents
  /\ Places = Ingestors \cup {Shared}
  /\ Batch \in [Ingestors -> Nat \ {0}]
  /\ Shared \notin Ingestors \cup {None}
  /\ MaxCrashes \in Nat

Writing == {"documents", "queries", "qrels"}
Points == {"hydrate", "check", "extract", "extracting", "mark", "read", "registered"}
            \cup Writing \cup
          {"validate", "build", "rename", "find", "create", "missing", "embeddings",
           "advancing", "refresh", "recount", "refreshing", "publish"}
Failures == {"none", "nodata", "torn", "unique", "counts", "corrupt", "exists",
             "progress"}

(* The locals: at and upto delimit what is left of the current batch, rows *)
(* are the documents of it still to be inserted, saw what the SELECTs of a *)
(* get-or-create returned, todo the files still to be transferred.         *)
Idle(why) ==
  [pc |-> "down", failure |-> why, content |-> None, at |-> 1, upto |-> 0, rows |-> {},
   saw |-> {}, row |-> NoIndex, count |-> 0, listed |-> {}, todo |-> {}]

Locals ==
  [pc : Points \cup {"down"}, failure : Failures, content : Contents \cup {None},
   at : 1..(Documents + 1), upto : 0..Documents, rows : SUBSET Numbers,
   saw : SUBSET Contents, row : IndexRows, count : 0..Documents,
   listed : SUBSET Files, todo : SUBSET Files]

IInit ==
  /\ Init
  /\ FInit
  /\ cloud \in BOOLEAN
  /\ remote \in BOOLEAN
  /\ source \in Contents
  /\ remote => source = Pinned
  /\ cloud => remote
  /\ me = [i \in Ingestors |-> Idle("none")]
  /\ spoilt = {}
  /\ crashes = 0
  /\ published = FALSE

Place(i) == IF cloud THEN i ELSE Shared
At(i, p) == me[i].pc = p
Goto(i, p) == me' = [me EXCEPT ![i].pc = p]
Fails(i, why) == me' = [me EXCEPT ![i] = Idle(why)] /\ UNCHANGED <<storeVars, fileVars>>
Content(i) == me[i].content

(* Mutant: the last batch is taken to be full. *)
BatchEndUnclamped(i, k, n) == k + Batch[i] - 1

(* _batches: the end of the batch that starts at row k of n *)
BatchEnd(i, k, n) == IF k + Batch[i] - 1 < n THEN k + Batch[i] - 1 ELSE n

(* the process moves to the first batch of a table, or to the next one *)
Turns(i, p, k, n) ==
  me' = [me EXCEPT ![i].pc = p, ![i].at = k, ![i].upto = BatchEnd(i, k, n), ![i].rows = {},
                   ![i].row = NoIndex]

-----------------------------------------------------------------------------
(* cli.py:_ingest: a new process; in the cloud its disk is new as well *)
Starts(i) ==
  /\ At(i, "down")
  /\ me' = [me EXCEPT ![i] = [Idle("none") EXCEPT !.pc = IF cloud THEN "hydrate" ELSE "check"]]
  /\ IF cloud THEN Wipe(i) ELSE UNCHANGED fileVars
  /\ UNCHANGED storeVars

(* hydrate_ingestion: two threads, one for each namespace, which list it   *)
(* and then transfer one object after the other                            *)
Lists(i, namespace) ==
  /\ At(i, "hydrate") /\ namespace \cap me[i].listed = {}
  /\ me' = [me EXCEPT ![i].listed = @ \cup namespace,
                      ![i].todo = @ \cup (namespace \cap Present(bucket))]
  /\ UNCHANGED <<storeVars, fileVars>>

Fetches(i, f) ==
  /\ At(i, "hydrate") /\ Transferable(me[i].todo, f)
  /\ Download(i, f)
  /\ me' = [me EXCEPT ![i].todo = @ \ {f}]
  /\ UNCHANGED storeVars

Hydrated(i) ==
  /\ At(i, "hydrate") /\ me[i].listed = Files /\ me[i].todo = {}
  /\ me' = [me EXCEPT ![i].pc = "check", ![i].listed = {}]
  /\ UNCHANGED <<storeVars, fileVars>>

(* materialize_dataset *)
ChecksMarker(i) ==
  /\ At(i, "check")
  /\ LET marked == Has(disk[Place(i)], "marker")
         there  == Has(disk[Place(i)], "data")
     IN \/ remote /\ marked /\ ~there /\ Fails(i, "nodata")
        \/ /\ ~remote \/ (marked => there)
           /\ Goto(i, IF remote /\ ~marked THEN "extract" ELSE "read")
           /\ UNCHANGED <<storeVars, fileVars>>

Unpacking(i) == {j \in Ingestors \ {i} : At(j, "extracting") /\ Place(j) = Place(i)}

(* A process that ends unspoilt has written every file after the last that *)
(* died, also for those which are still at it.                             *)
Extracts(i) ==
  /\ UNCHANGED storeVars
  /\ \/ At(i, "extract") /\ ExtractStart(Place(i)) /\ Goto(i, "extracting") /\ UNCHANGED spoilt
     \/ /\ At(i, "extracting") /\ Goto(i, "mark")
        /\ ExtractEnd(Place(i), Unpacking(i) # {} \/ i \in spoilt)
        /\ spoilt' = spoilt \ (IF i \in spoilt THEN {i} ELSE Unpacking(i))
     \/ At(i, "mark") /\ Mark(Place(i)) /\ Goto(i, "read") /\ UNCHANGED spoilt

(* load_beir_dataset and hash_dataset.  Of torn files the loader refuses   *)
(* what does not parse or does not fit together; relevances cut short at   *)
(* the end of a line do, and are another content.                          *)
Cuts(c) == {d \in Contents : Relevances[d] <= Relevances[c]}

Reads(i) ==
  /\ At(i, "read")
  /\ \/ \E c \in IF ~remote THEN {source}
                 ELSE IF disk[Place(i)]["data"] = "whole" THEN {Pinned} ELSE Cuts(Pinned) :
          /\ me' = [me EXCEPT ![i].pc = "registered", ![i].content = c, ![i].saw = corpora]
          /\ UNCHANGED <<storeVars, fileVars>>
     \/ remote /\ disk[Place(i)]["data"] # "whole" /\ Fails(i, "torn")

Registers(i) ==
  /\ At(i, "registered")
  /\ \/ /\ ~RegisterConflicts(Content(i), me[i].saw)
        /\ Register(Content(i))
        /\ me' = [me EXCEPT ![i].pc = "documents", ![i].saw = {}, ![i].at = 1,
                            ![i].upto = BatchEnd(i, 1, Documents)]
        /\ UNCHANGED fileVars
     \/ RegisterConflicts(Content(i), me[i].saw) /\ Fails(i, "unique")

-----------------------------------------------------------------------------
(* _write_batches, a transaction for each batch *)
WritesRow(i) ==
  /\ me[i].pc \in Writing /\ me[i].at <= me[i].upto
  /\ InsertRow(i, RowOf(me[i].pc, Content(i), me[i].at))
  /\ me' = [me EXCEPT ![i].at = @ + 1]
  /\ UNCHANGED fileVars

After(table) ==
  CASE table = "documents" -> "queries" [] table = "queries" -> "qrels" [] OTHER -> "validate"

CommitsBatch(i) ==
  /\ me[i].pc \in Writing /\ me[i].at > me[i].upto
  /\ CommitRows(i)
  /\ LET table == me[i].pc
         size  == SizeOf(table, Content(i))
     IN IF me[i].upto < size
        THEN Turns(i, table, me[i].at, size)
        ELSE Turns(i, After(table), 1, SizeOf(After(table), Content(i)))
  /\ UNCHANGED fileVars

(* load_corpus and validate_persisted_counts *)
Validates(i) ==
  /\ At(i, "validate")
  /\ \/ /\ PersistedCounts(Content(i)) = SourceCounts(Content(i))
        /\ Goto(i, "build")
        /\ UNCHANGED <<storeVars, fileVars>>
     \/ PersistedCounts(Content(i)) # SourceCounts(Content(i)) /\ Fails(i, "counts")

(* Bm25sIndexBuilder.build: the directory is looked for, and verified or   *)
(* given its name                                                          *)
Builds(i) ==
  LET there == DirectoryExists(disk[Place(i)]) IN
  \/ /\ At(i, "build") /\ (there => Intact(disk[Place(i)]))
     /\ Goto(i, IF there THEN "find" ELSE "rename")
     /\ UNCHANGED <<storeVars, fileVars>>
  \/ At(i, "build") /\ there /\ ~Intact(disk[Place(i)]) /\ Fails(i, "corrupt")
  \/ At(i, "rename") /\ Build(Place(i)) /\ Goto(i, "find") /\ UNCHANGED storeVars
  \/ At(i, "rename") /\ there /\ Fails(i, "exists")

(* Mutant: the second process writes its row over the one it did not see. *)
FindsIndexOverwrites(i) ==
  /\ UNCHANGED fileVars
  /\ \/ /\ At(i, "find") /\ index[Content(i)] = NoIndex
        /\ Goto(i, "create") /\ UNCHANGED storeVars
     \/ /\ At(i, "find") /\ index[Content(i)] # NoIndex
        /\ Turns(i, "missing", 1, Documents) /\ UNCHANGED storeVars
     \/ /\ At(i, "create")
        /\ CreateIndex(Content(i)) /\ Turns(i, "missing", 1, Documents)

(* _get_or_create_index *)
FindsIndex(i) ==
  /\ UNCHANGED fileVars
  /\ \/ /\ At(i, "find") /\ index[Content(i)] = NoIndex
        /\ Goto(i, "create") /\ UNCHANGED storeVars
     \/ /\ At(i, "find") /\ index[Content(i)] # NoIndex
        /\ Turns(i, "missing", 1, Documents) /\ UNCHANGED storeVars
     \/ /\ At(i, "create") /\ index[Content(i)] = NoIndex
        /\ CreateIndex(Content(i)) /\ Turns(i, "missing", 1, Documents)
     \/ At(i, "create") /\ index[Content(i)] # NoIndex /\ Fails(i, "unique")

-----------------------------------------------------------------------------
(* _embed_missing: read what is missing of a batch, encode it, insert it   *)
(* and advance the counter in one transaction                              *)
NextBatch(i) ==
  IF me[i].upto < Documents
  THEN Turns(i, "missing", me[i].upto + 1, Documents)
  ELSE Turns(i, "refresh", 1, Documents)

ReadsMissing(i) ==
  /\ At(i, "missing")
  /\ LET missing == Missing(Content(i), me[i].at..me[i].upto)
     IN IF missing = {}
        THEN NextBatch(i)
        ELSE me' = [me EXCEPT ![i].pc = "embeddings", ![i].rows = missing]
  /\ UNCHANGED <<storeVars, fileVars>>

(* Mutant: the rows come in the order of a set, each process its own. *)
NextRowUnordered(i) ==
  CHOOSE k \in me[i].rows :
    \A l \in me[i].rows : IF Batch[i] < Documents THEN k <= l ELSE k >= l

(* the order of embedding_order, the same for every process *)
NextRow(i) == CHOOSE k \in me[i].rows : \A l \in me[i].rows : k <= l

EmbedsRow(i) ==
  /\ At(i, "embeddings") /\ me[i].rows # {}
  /\ InsertRow(i, RowOf("embeddings", Content(i), NextRow(i)))
  /\ me' = [me EXCEPT ![i].rows = @ \ {NextRow(i)}]
  /\ UNCHANGED fileVars

LocksIndex(i) ==
  /\ At(i, "embeddings") /\ me[i].rows = {}
  /\ LockIndex(i, Content(i))
  /\ me' = [me EXCEPT ![i].pc = "advancing", ![i].row = index[Content(i)]]
  /\ UNCHANGED fileVars

Advances(i) ==
  /\ At(i, "advancing")
  /\ \/ /\ CommitEmbeddings(i, Content(i), me[i].row)
        /\ NextBatch(i)
     \/ /\ Advanced(i, me[i].row) > Documents
        /\ me' = [me EXCEPT ![i] = Idle("progress")]
        /\ Rollback(i)
  /\ UNCHANGED fileVars

(* refresh_progress: the row, the count, the UPDATE *)
Refreshes(i) ==
  /\ UNCHANGED fileVars
  /\ \/ /\ At(i, "refresh")
        /\ me' = [me EXCEPT ![i].pc = "recount", ![i].row = index[Content(i)]]
        /\ UNCHANGED storeVars
     \/ /\ At(i, "recount")
        /\ me' = [me EXCEPT ![i].pc = "refreshing",
                            ![i].count = Cardinality(Embedded(Content(i)))]
        /\ UNCHANGED storeVars
     \/ /\ At(i, "refreshing") /\ ~RefreshRefused(me[i].row, me[i].count)
        /\ CommitRefresh(Content(i), me[i].row, me[i].count)
        /\ me' = [me EXCEPT ![i] = [Idle("none") EXCEPT
             !.pc = "publish", !.todo = IF cloud THEN Present(disk[i]) ELSE {}]]
     \/ /\ At(i, "refreshing") /\ RefreshRefused(me[i].row, me[i].count)
        /\ Fails(i, "progress")

(* publish_ingestion: two threads as well; a local deployment has nowhere  *)
(* to publish to                                                           *)
Publishes(i, f) ==
  /\ At(i, "publish") /\ Transferable(me[i].todo, f)
  /\ Upload(i, f)
  /\ me' = [me EXCEPT ![i].todo = @ \ {f}]
  /\ UNCHANGED storeVars

(* Mutant: the process does not wait for the thread of the dataset cache. *)
ExitsEarly(i) ==
  /\ At(i, "publish") /\ me[i].todo \cap Parts = {}
  /\ me' = [me EXCEPT ![i] = Idle("none")]
  /\ published' = TRUE
  /\ UNCHANGED <<storeVars, fileVars, spoilt, crashes>>

Exits(i) ==
  /\ At(i, "publish") /\ me[i].todo = {}
  /\ me' = [me EXCEPT ![i] = Idle("none")]
  /\ published' = TRUE
  /\ UNCHANGED <<storeVars, fileVars, spoilt, crashes>>

-----------------------------------------------------------------------------
Step(i) ==
  \/ /\ \/ Starts(i) \/ Hydrated(i) \/ ChecksMarker(i) \/ Reads(i)
        \/ Registers(i) \/ WritesRow(i) \/ CommitsBatch(i) \/ Validates(i) \/ Builds(i)
        \/ FindsIndex(i) \/ ReadsMissing(i) \/ EmbedsRow(i) \/ LocksIndex(i)
        \/ Advances(i) \/ Refreshes(i)
        \/ \E n \in {DatasetFiles, Parts} : Lists(i, n)
        \/ \E f \in me[i].todo : Fetches(i, f) \/ Publishes(i, f)
     /\ UNCHANGED <<spoilt, crashes, published>>
  \/ Extracts(i) /\ UNCHANGED <<crashes, published>>
  \/ Exits(i)

(* The process dies, or a call it makes raises: the open transaction is    *)
(* rolled back, and files stay as they are: one it was unpacking, too,     *)
(* whoever else had unpacked it before.                                    *)
Dies(i) ==
  /\ ~At(i, "down") /\ crashes < MaxCrashes
  /\ crashes' = crashes + 1
  /\ me' = [me EXCEPT ![i] = Idle("none")]
  /\ \E behind \in IF At(i, "extracting") THEN SUBSET Unpacking(i) ELSE {{}} :
       spoilt' = (spoilt \ {i}) \cup behind
  /\ Rollback(i)
  /\ UNCHANGED <<fileVars, published>>

(* somebody edits the directory of a local manifest, its version unchanged *)
Edits ==
  /\ ~remote /\ source = Pinned
  /\ \E c \in Contents : source' = c
  /\ UNCHANGED <<storeVars, processVars, fileVars, cloud, remote>>

INext ==
  \/ \E i \in Ingestors : (Step(i) \/ Dies(i)) /\ UNCHANGED worldVars
  \/ Edits

ISpec == IInit /\ [][INext]_vars

(* A process goes on, and whoever wants the dataset starts it again until  *)
(* it ends well.                                                           *)
Fairness == \A i \in Ingestors : WF_vars(Step(i) /\ UNCHANGED worldVars)
FairISpec == ISpec /\ Fairness

-----------------------------------------------------------------------------
ITypeOK ==
  /\ corpora \subseteq Contents
  /\ stored \subseteq Rows
  /\ index \in [Contents -> IndexRows]
  /\ tx \in [Ingestors -> SUBSET Rows]
  /\ lock \in [Contents -> Ingestors \cup {None}]
  /\ disk \in [Places -> Storage]
  /\ bucket \in Storage
  /\ me \in [Ingestors -> Locals]
  /\ spoilt \subseteq Ingestors
  /\ crashes \in 0..MaxCrashes
  /\ <<cloud, remote, published>> \in BOOLEAN \X BOOLEAN \X BOOLEAN
  /\ source \in Contents

(* Whatever ingestions overlap or die, the counter of an index is the      *)
(* number of its embeddings, and it is READY exactly when every document   *)
(* has one: advance_progress adds what its own INSERT returned, and a      *)
(* recount can only be of a finished index.                                *)
ProgressExact ==
  \A c \in Contents :
    /\ index[c].count = Cardinality(Embedded(c))
    /\ index[c].state = "ready" <=> Embedded(c) = Numbers

(* Transactions of ingestions wait for each other's uncommitted rows and   *)
(* for the lock of the index row, but never in a circle.                   *)
Wanted(i) ==
  IF me[i].pc \in Writing /\ me[i].at <= me[i].upto
  THEN {RowOf(me[i].pc, Content(i), me[i].at)}
  ELSE IF At(i, "embeddings") /\ me[i].rows # {}
  THEN {RowOf("embeddings", Content(i), NextRow(i))}
  ELSE {}

WaitsFor(i) ==
  {j \in Ingestors \ {i} :
     \/ tx[j] \cap Wanted(i) # {}
     \/ /\ At(i, "refreshing") \/ (At(i, "embeddings") /\ me[i].rows = {})
        /\ lock[Content(i)] = j}

NoWaitCycle ==
  \A S \in SUBSET Ingestors : S # {} => \E i \in S : WaitsFor(i) \cap S = {}

(* An ingestion that fails has a reason outside itself.  Counts differ     *)
(* only after another content got into the same dataset version, which     *)
(* takes an edited directory or, on a shared disk, a reader of files that  *)
(* another process is unpacking; BM25 files are corrupt, or a marked cache *)
(* empty, only in the cloud, where a publication was under way or cut      *)
(* short.  The counter never exceeds the corpus, and READY never lies.     *)
FailuresAreExplained ==
  \A i \in Ingestors :
    /\ me[i].failure = "counts" => Cardinality(corpora) > 1
    /\ Cardinality(corpora) > 1 => ~(remote /\ cloud)
    /\ me[i].failure \in {"corrupt", "nodata"} => cloud
    /\ me[i].failure \in {"torn", "exists"} => ~cloud
    /\ me[i].failure # "progress"

(* What an ingestion that has ended well has published stays there whole   *)
(* for whoever hydrates later: the BM25 directory, and behind a marker the *)
(* data it vouches for.                                                    *)
PublishedIsWhole ==
  cloud /\ published =>
    /\ Intact(bucket)
    /\ Has(bucket, "marker") => bucket["data"] = "whole"

(* Ingestion keeps the promise of IndexContract. *)
Contract == INSTANCE IndexContract WITH
  Corpora <- Contents, Documents <- Numbers,
  phase <- [c \in Contents |-> index[c].state],
  embedded <- [c \in Contents |-> Embedded(c)]
KeepsIndexContract == Contract!Spec

(* Started again and again, ingestion ends with a READY index and, in the  *)
(* cloud, with its files in the bucket, unless two contents share the      *)
(* dataset version, or from some time on a cache that is marked complete   *)
(* is torn for good, or a publication cut short.                           *)
Torn == Has(disk[Shared], "marker") /\ disk[Shared]["data"] = "torn"
CutShort ==
  /\ \A i \in Ingestors : ~At(i, "publish")
  /\ \/ DirectoryExists(bucket) /\ ~Intact(bucket)
     \/ Has(bucket, "marker") /\ ~Has(bucket, "data")

Available ==
  \E c \in Contents : index[c].state = "ready" /\ (cloud => Intact(bucket))
EventuallyAvailable ==
  <>(Cardinality(corpora) > 1 \/ Available) \/ <>[]Torn \/ <>[]CutShort
=============================================================================
