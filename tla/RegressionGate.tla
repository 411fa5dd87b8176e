---------------------------- MODULE RegressionGate ----------------------------
(***************************************************************************)
(* The regression gate (evaluation/gate.py): an evaluation run completes,  *)
(* its report is recorded as the baseline of its dataset, later runs are   *)
(* gated against it.                                                       *)
(*                                                                         *)
(* A specification has the fields of EvalRunSpec that decide what is       *)
(* measured: the benchmark (dataset and split), the variants, the samples  *)
(* and the seed, and generation, which stands for the generated variants,  *)
(* the generator, the judges and the prompts, or None.  A report has one   *)
(* mean for each of its pairs of a variant and a metric, in units as fine  *)
(* as the gate's epsilon.                                                  *)
(***************************************************************************)
EXTENDS Integers, FiniteSets

CONSTANTS
  Queries,    \* the queries of the benchmark
  Order,      \* for each seed, the position of each query by its hash
  Specs,      \* the specifications runs are made with
  Hashes,     \* configurations a variant may have
  Indexes,    \* indexes it may be searched in
  Means,      \* bound: values of a metric
  Metrics,    \* the names of those of retrieval, and of those of generation
  Tolerance,  \* thresholds.yaml: the drop allowed of each metric it names
  None

VARIABLES
  run,       \* the completed run whose report is at hand, or None
  baseline,  \* the committed baseline, or None
  verdict    \* of the last gate, or None

gateVars == <<run, baseline, verdict>>

-----------------------------------------------------------------------------
(* select_evaluation_queries *)
Sample(queries, n, seed) ==
  IF n = None THEN queries
  ELSE {q \in queries :
          Cardinality({p \in queries : Order[seed][p] < Order[seed][q]}) < n}

(* the queries a run retrieves for, and those it has answered and judged *)
RetrievedBy(spec) == Sample(Queries, spec.sample, spec.seed)
GeneratedBy(spec) == Sample(RetrievedBy(spec), spec.generation_sample, spec.seed)

-----------------------------------------------------------------------------
(* the metrics the report of a run has, those of answers if it makes any   *)
Measured(spec) ==
  spec.variants \X (Metrics.retrieval \cup IF spec.generation = None THEN {} ELSE Metrics.generation)

(* completed runs with the means of their reports *)
RunsOf(spec) ==
  [spec : {spec}, variant_hashes : [spec.variants -> Hashes],
   index_fingerprints : [spec.variants -> Indexes], metrics : [Measured(spec) -> Means]]
Runs == UNION {RunsOf(spec) : spec \in Specs}

(* build_baseline: spec stands for the fields it copies from the run's *)
BuildBaseline(r) ==
  [spec |-> r.spec, variant_hashes |-> r.variant_hashes,
   index_fingerprints |-> r.index_fingerprints, metrics |-> r.metrics]

(* _ensure_comparable *)
Comparable(b, spec) ==
  /\ b.spec.benchmark = spec.benchmark
  /\ b.spec.sample = spec.sample
  /\ spec.sample # None => b.spec.seed = spec.seed
  /\ b.spec.generation_sample = spec.generation_sample
  /\ b.spec.generation = spec.generation

Agrees(expected, observed) ==
  \A v \in DOMAIN expected : v \in DOMAIN observed /\ observed[v] = expected[v]

Gated(b) == {k \in DOMAIN b.metrics : k[2] \in DOMAIN Tolerance}

(* the ValueErrors of gate_evaluation_run and evaluate_gate *)
Rejected(r, b) ==
  \/ ~Agrees(b.variant_hashes, r.variant_hashes)
  \/ ~Comparable(b, r.spec)
  \/ ~Agrees(b.index_fingerprints, r.index_fingerprints)
  \/ ~Gated(b) \subseteq DOMAIN r.metrics
  \/ Gated(b) = {}

Breached(r, b, k) == b.metrics[k] - r.metrics[k] > Tolerance[k[2]]

Gate(r, b) ==
  IF Rejected(r, b) THEN "rejected"
  ELSE IF \E k \in Gated(b) : Breached(r, b, k) THEN "failed" ELSE "passed"

-----------------------------------------------------------------------------
GInit == run = None /\ baseline = None /\ verdict = None

(* a run completes and its report is made *)
Completes ==
  /\ run' \in Runs
  /\ verdict' = None
  /\ UNCHANGED baseline

(* ragops eval baseline *)
Records ==
  /\ run # None
  /\ baseline' = BuildBaseline(run)
  /\ verdict' = None
  /\ UNCHANGED run

(* ragops eval gate *)
Gates ==
  /\ run # None /\ baseline # None
  /\ verdict' = Gate(run, baseline)
  /\ UNCHANGED <<run, baseline>>

GNext == Completes \/ Records \/ Gates
GSpec == GInit /\ [][GNext]_gateVars

-----------------------------------------------------------------------------
GTypeOK ==
  /\ run \in Runs \cup {None}
  /\ baseline \in {BuildBaseline(r) : r \in Runs} \cup {None}
  /\ verdict \in {"passed", "failed", "rejected", None}

Judged == verdict \in {"passed", "failed"}

(* gate.py:79-82: "A gate only means something when the baseline and the   *)
(* run scored the same queries."                                           *)
ComparedOnSameQueries ==
  Judged =>
    /\ RetrievedBy(baseline.spec) = RetrievedBy(run.spec)
    /\ run.spec.generation # None => GeneratedBy(baseline.spec) = GeneratedBy(run.spec)

(* The part of it that holds: the queries retrieval is compared on are     *)
(* always the same, and so are the answered ones of a run that samples its *)
(* queries or answers all of them.                                         *)
ComparedOnSameSample ==
  Judged =>
    /\ RetrievedBy(baseline.spec) = RetrievedBy(run.spec)
    /\ run.spec.sample # None \/ run.spec.generation_sample = None =>
         GeneratedBy(baseline.spec) = GeneratedBy(run.spec)

(* A run passes the gate against the baseline recorded from it, unless the *)
(* baseline names no metric that has a tolerance.                          *)
OwnBaselinePasses ==
  verdict # None /\ baseline = BuildBaseline(run) =>
    verdict = "passed" \/ Gated(baseline) = {}
=============================================================================
