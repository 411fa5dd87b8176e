# Specifications of ragops

TLA+ models of `ragops`: the durable job queue and its workers, the evaluation
runs they execute, the ingestion of datasets and the publication of its files,
the cached answers of the API and their online evaluation, the regression gate,
and the functions rankings, answers and reports are computed by. TLC checks the
models on small instances, TLAPS proves the theorems for every value of the
constants. Paths below are relative to `src/src/ragops` unless they start with
`src/`.

## 1. The system

ragops ingests a retrieval dataset, answers questions over it, and evaluates
retrieval and answers. Everything durable is in PostgreSQL, under the default
READ COMMITTED isolation; index files are in a directory that may be mirrored to
S3. An API and a command line submit evaluations; worker processes execute them.

    API / CLI ──(one transaction: run + job)──> eval_runs, jobs
                                                    │ claim, heartbeat, settle
    worker process: poll loop ──────────────────────┘
        └─ handler task: evaluation runner ──> eval_runs, eval_query_results
                 ├─ retrieval pipeline (dense, sparse, fusion, rerank) ──> index files, embeddings
                 ├─ answer service (prompt, generate, validate, repair) ──> response cache ──> provider
                 └─ judges ──> judge cache ──> provider

    API ── /v1/answer ──> answer service ──(best-effort sample)──> jobs ──> worker: online judges ──> online_evaluations
    ragops ingest ──> dataset cache ──> documents, queries, qrels, embeddings, index_versions; BM25 files ──> S3
    ragops eval baseline / gate ──> baseline file <──compare── report of a completed run

### Components

| component | state it keeps | operations | what is hard, and what makes it correct |
|---|---|---|---|
| job queue (`persistence/job_queue.py`) | table `jobs` | enqueue, claim (with a sweep of exhausted leases), heartbeat, complete, fail, cancel | only the claim locks its row; the others check ownership in one statement and write in another. A leased row can always be recovered, attempts are bounded, a finished job stays finished |
| job worker (`worker.py`, `cli.py:_run_worker`) | the job in hand, the handler task, the stop event | poll, execute with heartbeats, complete, fail, stop | a timer against a clock in another process; errors at every call; crash and restart. Live work is leased, one handler per job, every job settles |
| evaluation submission (`evaluation/service.py`) | none | create a run with its job, report | the run and its job are written together or not at all |
| run repository (`persistence/repositories.py`) | table `eval_runs` | create, set_state, set_progress, pin_index_fingerprint | no lock between check and write. States only move along the table of transitions, progress never shrinks |
| evaluation data (`evaluation/repository.py`) | table `eval_query_results` | add_result with a count, update_answer, update_judges, completed_work | inserted rows and the counter in the run row have to agree, whoever inserts |
| evaluation runner (`evaluation/runner.py`) | a local copy of the run row, position in the loops | run, stage by stage; mark failed | resumes at any point after a crash; a run that says COMPLETED is whole; one index per variant |
| ingestion (`ingestion/`, `persistence/embeddings.py`) | tables of datasets, corpora, documents, index versions, embeddings; index files | unpack, ingest in batches, count, mark READY | crashes between batches; two ingestions that wait for each other's rows; a count with and one without a lock. The counter is the number of embeddings, READY means all of them, nobody waits in a circle |
| artifact store (`artifact_store.py`) | files, S3 objects | publish, hydrate | files are published one by one, after the database says READY. What a finished ingestion has published stays whole |
| retrieval pipeline (`retrieval/`) | lazily loaded sparse index | search, fuse, rerank | the order of ties, a reranker that promotes part of a window: no document is lost, doubled or moved out of its window |
| generation (`generation/`, `persistence/generation_cache.py`) | response cache | answer, repair once, validate citations | get–generate–put without single flight; tokens of failed attempts. Hits agree, every metered call is reported once, no paid answer is lost to its contract |
| judging (`evaluation/judging.py`, `persistence/judge_cache.py`) | judge cache | judge, parse | the same cache protocol |
| online evaluation (`evaluation/online.py`) | table of online judgements | sample, enqueue before the answer is returned, judge | an enqueue that may be lost, a job that is delivered twice. A job that is done has left a row of every profile, no attempt fails for what an earlier one has stored, a sample settles |
| regression gate (`evaluation/gate.py`) | the baseline file | record a baseline, gate a run | equality at a tolerance, missing metrics; both runs must be of the same queries |
| metrics (`evaluation/*_metrics.py`) | none | functions of a ranking or an answer | boundaries: empty rankings and empty relevance; a better ranking never scores lower |
| calibration, reporting | none | agreement, comparisons, rows accepted | rows missing, doubled or foreign; intervals that touch zero |
| API, configuration, contracts, telemetry, provenance, infrastructure | none of their own | validation, plumbing, deployment | — |

`PROJECT.json` lists each with its sources and its status, and the hazards of
the code, each at the line where it bites, with the properties that would catch
it.

## 2. The modules

    JobContract ............ what the queue and its workers promise; no clock, no rows
    JobQueue ............... the jobs table and its transactions
      JobWorker ............ EXTENDS JobQueue: the worker processes; implements JobContract
      MCJobQueue ........... the queue with any sessions at all, for TLC
    EvalStore .............. the run row and the results, with their transactions
      EvalRunner ........... EXTENDS EvalStore: the runner's code, any number at once
        MCEvalRunner ....... two overlapping runners and a client, for TLC
        EvalSystem ......... EXTENDS EvalRunner, INSTANCEs JobContract: submission, job, workers, runs
    IndexContract .......... what an index promises whoever searches it
    IndexStore ............. the tables of one dataset version, with their transactions
    Artifacts .............. the files of an ingestion, on disks and in the bucket
      Ingestion ............ EXTENDS IndexStore, Artifacts: `ragops ingest`; implements IndexContract
        MCIngestion ........ two ingestions with different batch sizes, for TLC
    ResponseCache .......... cache, repair and provider, as one caller sees them
      OnlineEvaluation ..... EXTENDS ResponseCache, INSTANCEs JobContract: answers, samples, judging
    Fractions .............. exact fractions, sums, sorted values
    Ranking, AnswerChecks, Measures, Reporting ... functions, with their reference properties
      AnswerPath ........... EXTENDS OnlineEvaluation and the four: what run `answers` checks
        MCAnswers .......... its instance
    RegressionGate ......... baselines and gates
      MCRegressionGate ..... two seeds, for TLC
    *Proofs ................ theorems and their proofs

The evaluation of a run is checked in two halves that meet at `JobContract`. `JobWorker`
shows that the queue and its workers implement the contract (`KeepsContract`, by
TLC and by proof). `EvalSystem` uses the contract's actions in place of the queue
and puts the runner in the place of the handler. So no model has to hold leases
and clocks and the runner's forty steps at once.

### JobQueue

| in the module | in the code |
|---|---|
| `status`, `attempts`, `leasedBy` | `JobRow.status`, `attempt_count`, `leased_by` |
| `leaseLeft[j]`, `delayLeft[j]` | `lease_expires_at` and `available_at`, as ticks from now |
| `txn[s]` | the transaction session `s` has open: what it read, how long ago, which columns its UPDATE will name |
| `Enqueue` | `enqueue`: ON CONFLICT DO NOTHING |
| `Claim`, `ClaimNothing` | `claim`: sweep of exhausted leases, then FOR UPDATE SKIP LOCKED; one step, for it locks |
| `HeartbeatRead/Write`, `CompleteRead/Write`, `FailRead/Write`, `CancelRead/Write` | the SELECT and the UPDATE of each call |
| `Rollback` | the session ends before its commit |

Two points decide what the model can show. First, an UPDATE of SQLAlchemy's unit
of work names only the columns whose new value differs from the one that was
read. `dirty` keeps that set, and `Flush` writes these columns and no other: a
stale transaction overwrites a newer row column by column. Second, the decision
of `fail` (retry or bury) is made on the snapshot, so it is part of the open
transaction (`op` is `"retry"` or `"bury"`).

Time is relative: a deadline is a number of ticks left, 0 when it has passed, so
the state space is finite without a horizon. `txn[s].age` is the age of the clock
reading the transaction will write from; it stops at `AgeCap`, where it makes no
further difference.

### JobWorker

`pc[w]` is where `run_forever` is, `held[w]` the claimed job, `task[w]` the
handler task, `stop[w]` the stop event. `fuse[w]` counts the ticks within which
the worker must take its next step: a heartbeat interval plus `Slow` after a
claim or a renewal, `Slow` once there is something to do. `Advance` does not let
time pass a fuse, unless `MayStall`.

The handler is abstract: it returns, raises, or goes on (`TaskEnds`). A heartbeat
that raises ends it (`HeartbeatRaises`), whether the queue refused it or the
database failed. A heartbeat under way when the handler ends is finished first.
`_complete` and `_fail` run outside the `try` of `run_once`, so an error there
leaves the loop (`SettleRefused`, `SettleFails`). `Crash` may happen at every
step, `Restart` brings the worker back under its name.

### JobContract

The abstract specification: a job waits, is held by a worker, is done or is
buried; a held job whose worker is gone is abandoned and may be handed out again
while attempts are left. The refinement maps `status` to `phase`, `attempts` to
`tries`, and to `holder` the worker whose `held` is the job, not the one the row
names: what is promised is about who is running it.

### EvalStore and EvalRunner

An item is one (query, variant) pair, numbered in the order the runner visits
them. `state`, `total`, `completed`, `pins` are the columns of the run row;
`result`, `answer`, `judged` say for each item which index its result came from,
how the answer ended, whether the verdicts are there. Every repository call is a
Read step (check, compute the new row, note which columns differ) and `Commit`.
`add_result` inserts with ON CONFLICT DO NOTHING and then counts the rows it can
see: its own and the committed ones, and it waits for another session inserting
the same key (`InsertFree`).

`pc[r]` of the runner is the point its code has reached; the module's head lists
them. `view[r]` is the state in the local `run`, which each repository call
returns refreshed, so a runner sees what others have committed; `Enter` is the
chain of `if run.state is ...` tests that follows. `Raises` covers every call
inside the `try`, `StartFails` the checks before it, `Aborted` the death of the
process and the cancellation of the handler by its worker, which are alike for
the run: no exception handler runs for `CancelledError`.

Scores, costs, texts and the order of columns are left out. An answer is a
choice between two outcomes, for the judging stage tells no more apart; a search
is a choice of the index it was answered from.

### EvalSystem

A run from `Submit`, one transaction with its job, over `JobContract`'s actions.
`Take` claims and starts the runner, `Settles` completes or fails the job by how
the handler ended, `HeartbeatRaises` cancels it, `Dies` is a crash. `blamed` is a
history variable: a call of the runner has failed or a search was answered from
another index. `PollsInVain` is what idle workers do for ever after, so that
deadlock checking stays on.

### IndexContract

The abstract specification of an index: announced empty, it gains embeddings,
loses none and embeds no document twice, and it is ready from the very step that
gave it its last one. The refinement maps `phase` to `index[c].state` and
`embedded` to the committed rows of `document_embeddings`.

### IndexStore, Artifacts and Ingestion

| in the module | in the code |
|---|---|
| `corpora` | rows of `corpus_versions` of one dataset version, told apart by content hash |
| `stored`, `tx[i]` | committed rows of four tables; rows an open transaction has inserted |
| `index[c]`, `lock[c]` | the `index_versions` row; who has it FOR UPDATE |
| `disk[p]`, `bucket` | dataset archive data, its `.complete` marker, the parts of the BM25 directory |
| `me[i]` | the locals of a process: where it is, its batch, what its SELECTs returned |

`Step(i)` is the sequence of `IngestionService.ingest` as the CLI calls it:
`hydrate_ingestion`, unpack, read and hash, register, write in batches, validate
the counts, build BM25, find or create the index, embed in batches, refresh,
publish. Rows of a batch go in one by one, each waiting for any open transaction
that has inserted it: that is where two ingestions wait for each other.
`advance_progress` takes the lock and commits with its rows; `refresh_progress`
reads the row, counts and updates in three steps, without a lock until the last.

A deployment is local (one disk for all) or cloud (a disk of its own for every
start of a process, and the bucket). The source is a pinned archive or a local
directory. What can go wrong around it is in the model: a process dies at any
step (`Dies`), somebody edits the directory while its version stays (`Edits`), a
process reads a dataset another is unpacking over it (`Cuts`, "torn"), one dies
over a file that another has unpacked already (`spoilt`), a publication stops half
way. A process that is down is started again by whoever
wants the dataset; it keeps nothing.

What the model brought out and the code does not repair, each named in the
properties as an exception rather than left out:

- A publication cut short poisons the bucket. `.complete` sorts before the data
  it vouches for, and a BM25 directory without all its files is refused, so every
  later ingestion on a fresh disk fails (`CutShort`), although
  `src/README.md:388-389` lets an interrupted ingestion be run again.
- On a shared disk a process may set the marker while another is still unpacking
  (`Torn`), and if the other dies over a file the first one had finished, that file
  stays torn behind the marker: no later ingestion unpacks it again.
- Another content under the same dataset version makes the counts of both wrong
  for good: queries and relevances are counted per dataset, documents per corpus.

### ResponseCache and OnlineEvaluation

`ask[c]` holds the locals of one caller of the cache: look up, call the provider,
repair once on a schema error, store. A response is the number of the provider
call that returned it and a usage is a set of such numbers, so that "reported
twice" is an intersection and costs need no arithmetic. `metered` are the calls
whose usage the program got to see; a timeout, or a parse error raised by the
client, leaves none. An error that is no `GenerationFailure` may come from every
call, the lookup, the first call, its repair and the put (`Breaks`, `StoreFails`),
and what was paid for is then in nobody's usage. The judge's decorators and cache have the same protocol and
are the same operators under other keys.

A request arrives, is answered through the cache, is sampled or not, and its job
is enqueued before the answer is returned, or that fails and is only logged. The
job goes through `JobContract`. `task[w]` is the handler of a worker: profile
after profile, then one row per trace; it raises when a judge fails or the database
under the INSERT. A worker that has lost its lease goes on (`LosesLease`), so two
handlers may judge one trace. `AttemptsAreAccountedFor` says what the idempotent
INSERT and the cache are for: a job that is delivered again because a worker was
lost does not fail for what that worker has left, so an evaluation is given up
only after `MaxAttempts` failures or losses.

What the model brought out: there is no single flight, so overlapping callers of
one prompt both pay, each returns its own response and the cache keeps the first;
a database error or a crash between the call and the put loses a paid answer;
failures are never cached, answers with citation errors are; a redelivered judge
job finds its verdicts cached and stores zero usage for them, so the spend that
is reported may be too low and is never too high; a failed answer is sampled and
judged as the empty one.

### Ranking, AnswerChecks, Measures, Reporting, AnswerPath

Functions, stated as operators and tried on every input of a bounded set against
what they promise: `Fused`, `Reranked`, `Promoted` and the cut to the `k` of the request
(`Returned`) for `RetrievalPipeline`;
`Report`, `OutcomeOf`, `Accepted` for citation validation and the response
contract; nDCG, recall, reciprocal rank, macro-F1, kappa, usage and cost; the rows
a report accepts, which may be missing, doubled, of another run or without a metric, percentiles and the paired bootstrap. Fractions are exact; the
discount of nDCG is a constant table of whole numbers, for the properties need only
that it is positive and does not rise, and every rank in it is tried as a cutoff (the
code has 10 and 100, TLC 1 to 4); the random resamples are any resamples. `sum` and
`sorted` of the code are `SumOf` and `Sorted` of `Fractions`, said so that TLC can
evaluate them and the prover can reason about them: a sum from the left, and order
statistics. Fewer than `k` hits, equal scores, empty rankings, empty relevance and
answers without labels are in the bounds.

These functions read nothing but their arguments. They share run `answers` with
the state machine: a behaviour of `AnswerPath` either answers requests or has one
input as its `subject`.

### RegressionGate

`run` is a completed run with its report, `baseline` the committed file,
`verdict` the outcome of the last gate. A specification keeps the fields that
decide what is measured; `Sample` is `select_evaluation_queries`, with the hash
order as a constant. Two things a reader of the code may miss: a failed
generation counts as a correct non-abstention and is left out of the judge means,
and an error of the database escapes `_gate_evaluation` with the exit status of a
breached gate. Neither is in the model, which begins at the report.

## 3. What TLC checks

| run | instance | states | what it shows |
|---|---|---|---|
| `queue` | 1 job, 3 workers, 1 operator, 3 attempts | 62 000 | the table under any use of the repository class, no bound on lateness: `OvershootBounded`, `FinishedUnlessStale` |
| `worker_timely` | 2 jobs, 2 workers, 2 attempts, lease 6, `Slow` 1 | 244 000 | workers no later than the lease allows, with errors, crashes, restarts and a stop signal: `LiveWorkIsLeased`, `OneHandlerPerJob`, `AttemptsWithinLimit`, `FinishedIsFinal`, and the refinement `KeepsContract` |
| `worker_stalled` | 1 job, 2 workers, any lateness, handlers that may hang | 22 000 | `StrayHandlerStops`: a worker that lost its lease lets the job go; `EveryJobSettles`; `LeasedIsRecoverable`: whatever late UPDATEs do to the columns of a row, it is never leased without a worker and a deadline |
| `runners_overlap` | 2 items in 1 variant, 1 of them answered and judged, 2 runners at once, 1 client | 950 000 | `ProgressNeverAhead`, `StagesInOrder`, whatever transactions overlap |
| `system` | 4 items in 2 variants, 2 of them answered and judged, 2 indexes, 2 workers, 3 attempts | 24 000 | `CompletedIsWhole`, `OneIndexPerVariant`, `ProgressIsExact`, `NoSpuriousFailure`, `EndedIsFinal`, `CommittedWorkIsSkipped`, `EveryRunEnds` |
| `ingestion` | 2 processes with batches of 2 and 3, 3 documents, 2 contents with 2 and 1 relevances, 2 BM25 files, local disk or cloud, 1 death | 216 000 | `ProgressExact`, `NoWaitCycle`, `FailuresAreExplained`, `PublishedIsWhole`, the refinement `KeepsIndexContract`, `EventuallyAvailable` |
| `answers` | 3 requests with one prompt, 2 workers, 2 attempts, 1 or 2 profiles, 1 failure, 1 lost lease or death; bounded inputs of the functions | 310 000 | `HitsAgree`, `SpendCountedOnce`, `DoneIsEvaluated`, `AttemptsAreAccountedFor`, `EverySampleSettles`; `RankingIsSound`, `AnswersAreSound`, `MeasuresAreSound` |
| `worker_stale`, `worker_short_lease`, `worker_lost_lease`, `system_failed`, `gate_seed` | 1 job; 1 benchmark of 3 queries with 2 seeds | stops at the counterexample | the five findings of section 6 |

Every property has a mutant: the operator it depends on with a plausible bug
(a dropped guard, an off-by-one, a count taken too early), under which TLC finds
the property violated. The mutants stand beside the operators they change, each
under a comment that starts with "Mutant".

**Bounds, and why they are enough.** Jobs do not interact but through the sweep
of another job's claim and a worker's being busy: two jobs show both. Two workers
are enough for a lease to pass from one to the other; the queue alone has three,
so that a stale transaction may meet a row that has changed hands twice, and
`MaxAttempts` 3, so that both bounds of `OvershootBounded` bite. `Lease` 6 is the
least lease for which a worker may be one tick late and still be in time
(`TimelyLease`); a longer one adds idle ticks only. In `system` the items are two
queries by two variants, so that a crash may fall between variants of one query
and between queries; three attempts allow a crash, a resumption, a second crash
and a third run. `runners_overlap` has two queries, the least with
which two runners insert different rows at once, and one variant, for pins play no
part in its properties. Timers are bounded by
construction (`leaseLeft`, `delayLeft`, `age`, `fuse`), and attempts by what the
queue does, not by a guard: that no cap is needed is what `OvershootBounded`
says.

In `ingestion` the processes have batches of 2 and 3 over 3 documents, so batches
of the two overlap without coinciding and the last one of the first is short; one
relevance fewer is the least by which a content may differ. One death at any step
shows a resumption with work half done, beside a process that goes on; a process
that ends is started again without a bound. In `answers` the three requests ask
one prompt, the worst case for a cache without single flight; the samples and the
second profile come in setups of fewer requests, for what happens to a sample
does not depend on other requests except through the cache. One lost lease is
enough for two handlers to judge one trace. `MaxFailures` bounds calls that fail;
the failed repair of a first failure is free, so that a failure that costs two
calls is there. The functions are tried on up to three documents, passages or
labels, two queries by two variants, and every `k`, window and tie among these.

**Fairness.** `Upkeep` of `JobWorker` is: time passes (WF of `Advance`); a worker
that is up takes the step it is ready for (WF of `Progress`: an event loop runs
what is ready); a worker that is down is restarted (WF of `Restart`: the services
of `src/compose.yaml` are `restart: unless-stopped`, the ECS service keeps its
desired count); and a worker that comes back to its loop again and again polls
(SF of `Poll`: a weak assumption would let a worker die before each poll for
ever). Errors, crashes and stop signals are never fair. Handlers are not assumed
to end: `StrayHandlerStops` holds for handlers that hang, and `EveryJobSettles`
states as its premise that they end (`HandlersEnd`). One worker is not
`Stoppable`, for a service without a worker settles nothing. `FairSSpec` of
`EvalSystem` assumes that a worker that is up goes on and that some worker polls;
deaths need no fairness, for each uses up an attempt. `EveryRunEnds` counts a job
that is buried as the end of its run: a run whose handler raises before the runner
marks anything (a worker without an answer service, `evaluation/runner.py:86`) stays
QUEUED when its job is buried, and no property says otherwise.

`FairISpec` assumes that every ingestion goes on and, when it has ended, is
started again: nothing in the code restarts it, the premise is somebody who wants
the dataset. It does not assume a free row or a free lock; that a process which
waits is let through is what `NoWaitCycle` and the others' progress give.
Deaths and edits are not fair. `EventuallyAvailable` excepts three things: two
contents under one version, and a torn cache behind its marker or a publication cut
short that stay so for good; one that is mended later is no excuse. `OFairness` assumes that a request and a handler
run to their end and that some worker polls; failures, deaths, lost leases and
the choice of what a provider returns are not fair.

**What makes a step timely.** The theorems about leases, and `worker_timely`,
assume `TimelyLease`: workers do not stall, and
`Lease > HeartbeatInterval + 3 * Slow`. `Slow` is the lateness of one step, from
the moment it is due to the commit. Three of them add up at worst: the commit of
the last heartbeat, which dates the lease from when it began; the next one, which
begins late and fails; and the settling of the job after that. With the default
lease of 300 seconds the interval is 100, and a step may be more than a minute
late.

## 4. What TLAPS proves

For any sets of jobs, workers, runners and ingestions, any attempt limit, lease,
delay, number of items, documents, contents and batch sizes, any corpus, any
variant and any sample that is measured. The assumptions are those on the constants
(`QueueAssumption`, `WorkerAssumption`, `StoreAssumption`, `SystemAssumption`,
`IngestionAssumption`, `OnlineAssumption`, `CorpusAssumption`, `AnswerAssumption`,
`VariantsAssumption`, `MeasuresAssumption`, `ReportingAssumption`: widths, that a corpus, a set of passages
and the queries and variants of a run are finite, that a discount is positive and
does not rise from one rank to the next, that there is at least one resample, and
that NULL is not a value)
and those named below; `GateConstants` says that means are integers
and tolerances are not negative. `WSpec` has workers and submitters; no session
cancels a job in it, as nothing in the code does.

| theorem | statement | further assumption |
|---|---|---|
| `QueueTypeCorrect` | `Spec => []TypeOK` | |
| `LeasedJobsRecoverable` | `Spec => []LeasedIsRecoverable` | no session cancels |
| `FinishedStaysFinished` | `Spec => FinishedUnlessStale` | |
| `AttemptsOvershootBounded` | `Spec => []OvershootBounded` | finitely many workers |
| `WorkerTypeCorrect` | `WSpec => []WTypeOK` | |
| `StalledAttemptsBounded` | `WSpec => []OvershootBounded`, however late the workers are | finitely many workers |
| `LiveWorkStaysLeased` | `WSpec => []LiveWorkIsLeased` | `TimelyLease` |
| `NoTwoHandlers` | `WSpec => []OneHandlerPerJob` | `TimelyLease` |
| `AttemptsStayWithinLimit` | `WSpec => []AttemptsWithinLimit` | `TimelyLease` |
| `FinishedStaysFinal` | `WSpec => FinishedIsFinal` | `TimelyLease` |
| `RefusalsDoNotHappen` | `WSpec => RefusalNeverEndsWorker`, and no heartbeat is refused either | `TimelyLease` |
| `WorkersKeepContract` | `WSpec => KeepsContract` | `TimelyLease` |
| `RunTypeCorrect` | `RSpec => []RTypeOK` | |
| `ProgressStaysBehind` | `RSpec => []ProgressNeverAhead` | |
| `StagesStayInOrder` | `RSpec => []StagesInOrder` | |
| `SystemTypeCorrect` | `SSpec => []STypeOK` | |
| `ProgressStaysExact` | `SSpec => []ProgressIsExact` | |
| `VariantsKeepTheirIndex` | `SSpec => []OneIndexPerVariant` | |
| `CompletedRunsAreWhole` | `SSpec => []CompletedIsWhole` | |
| `NoRunFailsUnprovoked` | `SSpec => []NoSpuriousFailure` | |
| `EndedRunsStayEnded` | `SSpec => EndedIsFinal` | |
| `CommittedWorkStaysSkipped` | `SSpec => CommittedWorkIsSkipped` | |
| `IngestionTypeCorrect` | `ISpec => []ITypeOK` | |
| `CounterStaysExact` | `ISpec => []ProgressExact` | |
| `ProgressIsNeverRefused` | no ingestion fails for a count above the corpus or below a READY index | |
| `IngestionsNeverDeadlock` | `ISpec => []NoWaitCycle` | |
| `IngestionKeepsContract` | `ISpec => KeepsIndexContract` | |
| `PublishedStaysWhole` | `ISpec => []PublishedIsWhole` | |
| `FailuresHaveReasons` | `ISpec => []FailuresAreExplained` | |
| `OnlineTypeCorrect` | `OSpec => []OTypeOK` | |
| `HitsAlwaysAgree` | `OSpec => []HitsAgree` | |
| `SpendIsCountedOnce` | `OSpec => []SpendCountedOnce` | |
| `DoneMeansEvaluated` | `OSpec => []DoneIsEvaluated` | |
| `AttemptsAccountedFor` | `OSpec => []AttemptsAreAccountedFor` | |
| `OwnBaselineNeverFails` | a run passes the gate against its own baseline, unless that gates nothing | `GateConstants` |
| `SameSampleCompared` | runs that are gated retrieved for the same queries, and answered the same ones if they sample them or answer all: the part of `ComparedOnSameQueries` that holds | `GateConstants` |
| `ImprovementPasses` | a comparable run that is nowhere worse passes | |
| `EveryRankingIsSound` | `ASpec => []RankingIsSound` | |
| `EveryAnswerIsSound` | `ASpec => []AnswersAreSound` | |
| `EveryMeasureIsSound` | `ASpec => []MeasuresAreSound` | |
| `AnswersAreAccepted` | the contract accepts every answer that is made, of a draft or of a failure | |
| `OkIsGrounded` | "ok" means that every citation is a passage and stands in the text | |

**Leased rows.** `LeasedIsRecoverable` is not inductive: an UPDATE that cleared
`leased_by` and the deadline but not the status would break it. The invariant
adds that every transaction that settles a row writes the status too
(`SettlesStatus`): it read the row LEASED, so the status it writes differs. A
`cancel` may have read CANCELLED, which is why sessions that cancel are excluded.

**Attempts.** `OvershootBounded` bounds a number that claims raise one at a time,
each of them within its guard: what has to be bounded is how often a row at the
limit can come back to `pending`. `AttemptsInv` counts, for each job, the open
transactions that will put it back (`Retries`). Every one was decided by a worker of
its own, at an attempt of its own, that was below the limit when it was read. So
below the limit there are no more of them than attempts, and fewer while the owner
of the row has none open; at the limit none is added, each further attempt takes a
pending row, and only one of these can provide it. Then attempts, these transactions
and a pending row add up (`Spent`) to less than twice the limit, and to less than the
limit plus the number of workers. Nothing in this is about time: the bound is what
is left when `TimelyLease` does not hold. `FinishedUnlessStale` follows from the types:
only a transaction that read the row before it was finished can write it after.

**Leases.** `LiveWorkIsLeased` speaks of the row alone; what keeps it true is a
race between two timers. `LeaseInv` states the race: the deadline of a running
job is further away than its worker's fuse, by `Slow` more while the job may have
to be settled after a failed heartbeat; an open heartbeat's age and the fuse
together stay within `Slow`; and an open `fail` decided by the attempts the row
still has. Each step that resets a fuse renews the deadline or leaves room for
it, and a tick takes one from both. `OneHandlerPerJob`, `AttemptsWithinLimit`,
`FinishedIsFinal` and the refinement follow from it: the sweep and the claim meet
only rows nobody runs.

**Progress.** `ProgressInv` adds to the types that every open transaction would
write a count that was right when it read (`Counted`): since results are never
removed, a stale count is too low and never too high; a transaction that inserts
counts its own row, and no other inserts the same one.

**Stages.** `StagesInv` adds that a state that presupposes stored work is only
ever read, held in a transaction or aimed at by a runner once the work is there
(`Justified`, `Reached`); the loop invariant of the generation stage is in
`Reached`. Nothing in it speaks of the number of runners or of what they read:
work is never taken back, so a stale write of a state is stale but justified.

**System.** `SInv` is an invariant of `SSpec`, whose every step is also a step of
`RSpec` (`Projects`), so `StagesInv` comes for free. What the queue's contract adds
is that the only runner under way is the one that holds the job (`OnlyHolderRuns`),
and that nobody else has a transaction on the run. Then nothing a runner has read
is stale when it writes: its copy of the state and of the pins is the row's
(`Synced`), and the row its open transaction would write is the present row with
the one change of its point (`Current`). With that the state of the run determines
where its runner can be (`StatesAt`), so every move it asks for is in the table of
transitions and `Blame` holds. The loops have invariants of their own: what lies
behind the position in the retrieval loop is exactly what has a result, what lies
before it in the other loops has no answer and no verdict (`SearchLoop`,
`AnswerLoop`, `JudgeLoop`); a death loses the position, not the tables, and the
work listed at the next start (`Passed`) is what the loop had behind it. `TablesAgree`
is about the tables alone: the counter is the number of results, each result comes
from the pin, verdicts precede `scoring`. `RunKept` is proved action by action for
the runner that moves, for any state of the queue; the last section of
`EvalSystemProofs` joins it with the job's actions.

**Ingestion.** `ProgressExact` speaks of committed rows; what keeps it true is in
the open transactions. `IInv` adds, for each process: the rows it has inserted and
not committed are of its table, its content and its batch, and lie before the row
it is at, in ascending order (`RowsInOrder`); no two transactions have inserted
the same row (`Apart`), for the second waits; a batch is taken up only when
everything before it is embedded (`BatchesCover`), so that a process that comes to
`refresh` finds a finished index; and the row read under the lock is the row that
is there (`RowIsFresh`). The recount without a lock is benign for the third
reason: a finished index does not change any more, and the count and the state it
would write are those it has.

**No circle.** The level of a process is the number of the row it wants, or more
than any if it wants none. Its transaction holds only rows below its level, so
whoever waits for a row waits for a process of a higher level, and the one that
holds the lock of an index waits for nobody. In a set of processes that all wait
within the set take one that holds a lock, or else one of the highest level.

**Files.** `FilesInv` follows each transfer. In the cloud a process has its disk to
itself (`OwnFiles`), and nobody dies over files it has unpacked (`NeverSpoilt`):
nothing on it is torn but the data while they are being unpacked, from `read` on data
and marker are whole, from `find` on the BM25 directory is; so it publishes only whole files, what it has taken off `todo` is in
the bucket, and since a file that is replaced there is replaced by a whole one,
what was published stays (`Bucket`). What is read there is the pinned archive, so no
second content is ever registered. A shared disk is the other way round: data may be
torn at any time, but nothing that is there is taken away and BM25 files appear all
at once (`SharedFiles`).

**Counts.** Queries and relevances are counted per dataset. `CountsInv` says that
the rows there are, committed or not, are of registered contents (`Registered`), and
that a process has every row of the tables it is done with and of its own table up
to where it stands (`Written`). With one content registered both counts are then
those of its source (`CountsAgree`), whoever else has written the same rows.

**Caches and online evaluation.** `OInv` says for each caller that its usage is
that of the metered calls it made, and that a hit is what the cache holds under
the key it asked for (`Backed`); a cached response never changes, so this stays
true of replies, verdicts under way and rows. For `SpendCountedOnce` a usage has a
place: with the caller that made the calls, in a reply, in a verdict of a handler,
or in a row. Steps only add a call that has just been made, drop a usage, or move
it from one place to another, and the usages of two places are disjoint
(`Disjoint`). That is also why a redelivered job cannot count a call again: it
finds the verdict in the cache, with no usage, or makes a new call. A handler that
has recorded has left a row, with or without its lease (`TaskSound`), which gives
`DoneIsEvaluated`. `AttemptsAreAccountedFor` is carried by `Accounted`: the attempts
of a sample are at most the failures and losses there have been, plus one for an
attempt that is under way or ended well, and without that one once the handler is
`Doomed`: a failure of its judge has been counted and the handler has yet to raise.

**Gate and answers.** `Gate` is a function of two reports; the theorems are about
its definition for any benchmark, metrics and tolerances. Those about answers hold of
any draft, while the run tries drafts of two citations.

**Rankings.** A ranking is the members of a finite set `InOrder`: each one stands
behind as many as the order puts before it. For a strict order that is total on the
set these places differ and lie in 1..n, so each place is taken once, and sorting
loses and doubles nothing. Scores are compared as fractions, which with positive
denominators form a total preorder; ids break ties. That the positions below the
candidates are kept after a rerank is a count: as many are put before them as were
promoted.

**Measures.** `MeasuresAreSound` is about functions of their arguments: that a
subject never changes reduces it to six statements about any grades, labels, rows,
usages and differences, of any number.

- Sums are recursive functions, and the prover has no induction over a predicate. Its
  place is taken by sets of numbers: a set that has 0 and the successor of each of
  its members is all of them (`Induction`), from the least number that is missing.
  `Part` is the sum of the first n terms; what is needed of it (that it grows with
  its terms, adds, and counts zeros and ones) is proved once in this way.
- nDCG. Grades are taken apart into levels: level v is 1 at each position with a
  grade of at least v, and a grade is the sum of its levels (`CapGrows`). A ranking
  has no more ones in a level than there are documents graded that high
  (`LevelFits`), and as the discount falls they earn most at the front
  (`LevelGain`). The ideal, and any ranking by descending grade, has them there
  (`IdealIs`, `BestIsIdeal`), level by level, so it gains most (`LevelByLevel`). This
  bounds nDCG by 1, makes it 1 for a ranking by grade, and puts it first among all.
- Moving a relevant document above one that is not changes two terms of a sum, one
  that was zero and one that becomes zero (`MovedUp`); recall and reciprocal rank are
  the level 1 and its first one, so one relation between two rankings (`AllFound`)
  orders all three metrics.
- Kappa is a ratio of counts: with n labels, of which the two say yes to a and to b,
  chance is a polynomial in n, a and b (`Chance`), and that agreement is at least
  |a + b - n| gives the bounds. Macro-F1 is at most the share of the classes that
  occur, each F1 at most 1.
- Reports. As no two rows have the same query and variant, rows are pairs; equal
  query sets under every variant make the pairs a product, and conversely the counts
  of a product are those the code checks.
- Comparisons. `Sorted` gives the i-th value as the least that i values do not
  exceed, so a percentile lies between two order statistics, never below the least or
  above the greatest, and a higher quantile is never below a lower one. Resamples
  keep the sign that all differences have.

**Only model-checked.** The liveness properties (`StrayHandlerStops`,
`EveryJobSettles`, `EveryRunEnds`, `EventuallyAvailable`, `EverySampleSettles`),
for fairness and ENABLED are beyond the prover. Every invariant and every action
property of the passing runs is proved as well. That a run resumed does not repeat
work is proved; that it ends is not.

## 5. What is not modelled, and why

- The stages of a search (BM25, vector search, the cross-encoder) and the
  embedders: numerical computations of libraries. A stage is any ranking, a
  reranker any score.
- Rendering of prompts and the parsing of what a provider returns, beyond whether
  it fits the schema: text.
- The API, configuration, contracts, telemetry, provenance, the model cache: they
  keep no state that others read. What the models need of their validation is in
  the assumptions on constants. A prompt version without a service (a `KeyError`
  the API turns into "no answer service") ends before anything modelled begins.
- Of ingestion: the download of an archive (to a temporary name, verified, then
  renamed), the backfill of query metadata, the license check, more than one
  embedding model per corpus, which are rows with keys of their own.
- Of the artifact store: `hydrate_runtime`, by processes that only read what
  `hydrate_ingestion` shows being transferred, and `publish_report`, a single file.
- Of reports and metrics: the reading of SciFact metadata and rationale precision,
  latency tables, loading of human labels, layout.
- Of a provider's answer: that a text of white space alone is refused by
  `CitedAnswer` (`generation/openai.py:161`) before any outcome is chosen, so that the
  answer is lost there. `AnswersAreSound` begins with a draft that was accepted.
- Within the modelled parts: payloads, kinds and error texts of jobs; the order
  in which claimable jobs are taken (SKIP LOCKED may pass over any of them);
  two processes with the same `--worker-id`; a job enqueued without an
  idempotency key, which is one with a key of its own; the variant hashes of a
  run, which do not change; PostgreSQL deadlocks, of which an error of the
  database is the visible part.
- Cancellation of a run has a state but no caller in the code. The model keeps
  the client that would call it, in `runners_overlap` only.

## 6. Findings

1. `worker_stale`: the ownership check of a settling call reads the row without a
   lock and its UPDATE is by primary key. A worker that stalls between the two
   until another has taken over and completed the job puts it back to PENDING
   (`persistence/job_queue.py:196`), where `src/README.md:219` promises
   stale-worker protection. `FinishedUnlessStale` shows that this is the only
   way a finished job is reopened, and `OvershootBounded` how many extra
   attempts it can cost.
2. `worker_short_lease`: with a lease of one second, which the configuration
   allows, the floor of the heartbeat interval is the lease itself, and live work
   is handed to a second worker (`worker.py:119`, against the comment at
   `worker.py:26`).
3. `worker_lost_lease`: a worker that has lost its lease is refused when it
   settles, and the ValueError ends `run_forever` (`worker.py:132`, against the
   docstring at `worker.py:138`).
4. `system_failed`: the runner marks a run FAILED at the first exception, before
   the job goes back to the queue. The redelivered job finds the run ended and
   completes: a run is never retried after an error, only after a crash
   (`evaluation/runner.py:95`, against `src/README.md:602`).
5. `gate_seed`: the gate compares seeds only if the queries of a run are sampled.
   A run over all queries that answers and judges a sample of them draws that
   sample by the same seed, so two runs with different seeds pass the check and
   the means of their answer and judge metrics are of different queries
   (`evaluation/gate.py:103`, against the comment at `evaluation/gate.py:101-102`
   and the docstring at `evaluation/gate.py:80-81`).

## 7. Plan

Done: the queue, the workers, the contract between them, the run's tables, the
runner and their composition; ingestion with its files and the contract of an
index; the caches and online evaluation over the contract of the queue; the
functions of rankings, answers, measures and reports; the gate; the runs and
theorems above. Left, in this order:

1. A process that hydrates when it starts and searches afterwards, beside an
   ingestion that publishes: which combinations of database and files it may see.
