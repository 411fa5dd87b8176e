------------------------- MODULE RegressionGateProofs -------------------------
(***************************************************************************)
(* What the regression gate promises for any queries, seeds, metrics and   *)
(* tolerances.                                                             *)
(***************************************************************************)
EXTENDS RegressionGate, TLAPS

(* what config.py and the contracts ensure of the constants *)
GateConstants ==
  /\ Means \subseteq Int
  /\ \A m \in DOMAIN Tolerance : Tolerance[m] \in Nat
  /\ None \notin {"passed", "failed", "rejected"}

-----------------------------------------------------------------------------
(* Every run and baseline is as the code makes it.                         *)
LEMMA GateTypes == GSpec => []GTypeOK
<1>1. GInit => GTypeOK
  BY DEF GInit, GTypeOK
<1>2. GTypeOK /\ [GNext]_gateVars => GTypeOK'
  <2> SUFFICES ASSUME GTypeOK, [GNext]_gateVars PROVE GTypeOK'
    OBVIOUS
  <2>1. CASE Completes
    BY <2>1 DEF GTypeOK, Completes
  <2>2. CASE Records
    BY <2>2 DEF GTypeOK, Records
  <2>3. CASE Gates
    BY <2>3 DEF GTypeOK, Gates, Gate
  <2>4. CASE UNCHANGED gateVars
    BY <2>4 DEF GTypeOK, gateVars
  <2> QED
    BY <2>1, <2>2, <2>3, <2>4 DEF GNext
<1> QED
  BY <1>1, <1>2, PTL DEF GSpec

(* A verdict is that of the gate on the run and the baseline at hand:      *)
(* neither changes under it.                                               *)
VerdictIsOfGate ==
  verdict # None => run # None /\ baseline # None /\ verdict = Gate(run, baseline)

LEMMA VerdictStays == GSpec => []VerdictIsOfGate
<1>1. GInit => VerdictIsOfGate
  BY DEF GInit, VerdictIsOfGate
<1>2. VerdictIsOfGate /\ [GNext]_gateVars => VerdictIsOfGate'
  <2> SUFFICES ASSUME VerdictIsOfGate, [GNext]_gateVars PROVE VerdictIsOfGate'
    OBVIOUS
  <2>1. CASE Completes
    BY <2>1 DEF VerdictIsOfGate, Completes
  <2>2. CASE Records
    BY <2>2 DEF VerdictIsOfGate, Records
  <2>3. CASE Gates
    BY <2>3 DEF VerdictIsOfGate, Gates
  <2>4. CASE UNCHANGED gateVars
    BY <2>4 DEF VerdictIsOfGate, gateVars
  <2> QED
    BY <2>1, <2>2, <2>3, <2>4 DEF GNext
<1> QED
  BY <1>1, <1>2, PTL DEF GSpec

-----------------------------------------------------------------------------
LEMMA RunFields ==
  ASSUME NEW r \in Runs
  PROVE  /\ r.metrics \in [DOMAIN r.metrics -> Means]
         /\ r.spec \in Specs
<1>1. PICK spec \in Specs : r \in RunsOf(spec)
  BY DEF Runs
<1>2. r.metrics \in [Measured(spec) -> Means] /\ r.spec \in {spec}
  BY <1>1 DEF RunsOf
<1> QED
  BY <1>2

(* The gate on a run and its own baseline (build_baseline, evaluate_gate). *)
LEMMA GateOfOwnBaseline ==
  ASSUME GateConstants, NEW r \in Runs, Gated(BuildBaseline(r)) # {}
  PROVE  Gate(r, BuildBaseline(r)) = "passed"
<1> DEFINE b == BuildBaseline(r)
<1>1. b.metrics = r.metrics /\ b.spec = r.spec /\ b.variant_hashes = r.variant_hashes
      /\ b.index_fingerprints = r.index_fingerprints
  BY DEF BuildBaseline
<1>2. ~Rejected(r, b)
  BY <1>1 DEF Rejected, Agrees, Comparable, Gated
<1>3. \A k \in Gated(b) : ~Breached(r, b, k)
  <2> SUFFICES ASSUME NEW k \in Gated(b) PROVE ~Breached(r, b, k)
    OBVIOUS
  <2>1. r.metrics[k] \in Int
    BY <1>1, RunFields DEF GateConstants, Gated
  <2>2. Tolerance[k[2]] \in Nat
    BY DEF GateConstants, Gated
  <2> QED
    BY <1>1, <2>1, <2>2 DEF Breached
<1> QED
  BY <1>2, <1>3 DEF Gate

(* Recording a baseline never leaves the gate failing: the run it was      *)
(* recorded from passes (ragops eval baseline, ragops eval gate).          *)
THEOREM OwnBaselineNeverFails == GateConstants => (GSpec => []OwnBaselinePasses)
<1> SUFFICES ASSUME GateConstants PROVE GSpec => []OwnBaselinePasses
  OBVIOUS
<1>1. GTypeOK /\ VerdictIsOfGate => OwnBaselinePasses
  BY GateOfOwnBaseline DEF GTypeOK, VerdictIsOfGate, OwnBaselinePasses
<1> QED
  BY <1>1, GateTypes, VerdictStays, PTL

-----------------------------------------------------------------------------
LEMMA ComparableSamples ==
  ASSUME NEW b, NEW spec, Comparable(b, spec)
  PROVE  /\ RetrievedBy(b.spec) = RetrievedBy(spec)
         /\ spec.sample # None \/ spec.generation_sample = None =>
              GeneratedBy(b.spec) = GeneratedBy(spec)
<1>1. RetrievedBy(b.spec) = RetrievedBy(spec)
  BY DEF Comparable, RetrievedBy, Sample
<1>2. ASSUME spec.generation_sample = None
      PROVE  GeneratedBy(b.spec) = GeneratedBy(spec)
  BY <1>1, <1>2 DEF Comparable, GeneratedBy, Sample
<1>3. ASSUME spec.sample # None
      PROVE  GeneratedBy(b.spec) = GeneratedBy(spec)
  BY <1>1, <1>3 DEF Comparable, GeneratedBy, Sample
<1> QED
  BY <1>1, <1>2, <1>3

(* The gate compares retrieval on the same queries whatever the seeds, and *)
(* answers too unless all queries are retrieved for and only some of them  *)
(* answered (_ensure_comparable, select_evaluation_queries).               *)
THEOREM SameSampleCompared == GateConstants => (GSpec => []ComparedOnSameSample)
<1> SUFFICES ASSUME GateConstants PROVE GSpec => []ComparedOnSameSample
  OBVIOUS
<1>1. VerdictIsOfGate => ComparedOnSameSample
  <2> SUFFICES ASSUME VerdictIsOfGate, Judged PROVE ComparedOnSameSample
    BY DEF ComparedOnSameSample
  <2>1. verdict = Gate(run, baseline)
    BY DEF VerdictIsOfGate, Judged, GateConstants
  <2>2. Comparable(baseline, run.spec)
    BY <2>1 DEF Judged, Gate, Rejected
  <2> QED
    BY <2>2, ComparableSamples DEF ComparedOnSameSample
<1> QED
  BY <1>1, VerdictStays, PTL

(* No improvement fails the gate: where one run passes, so does any run of *)
(* the same specification, configuration and indexes that is at least as   *)
(* good in every metric (evaluate_gate).                                   *)
THEOREM ImprovementPasses ==
  ASSUME GateConstants, NEW b, NEW r \in Runs, NEW better \in Runs,
         \A k \in DOMAIN b.metrics : b.metrics[k] \in Int,
         better.spec = r.spec, better.variant_hashes = r.variant_hashes,
         better.index_fingerprints = r.index_fingerprints,
         DOMAIN better.metrics = DOMAIN r.metrics,
         \A k \in DOMAIN r.metrics : better.metrics[k] >= r.metrics[k],
         Gate(r, b) = "passed"
  PROVE  Gate(better, b) = "passed"
<1>1. ~Rejected(r, b) /\ \A k \in Gated(b) : ~Breached(r, b, k)
  BY DEF Gate
<1>2. ~Rejected(better, b)
  BY <1>1 DEF Rejected
<1>3. ASSUME NEW k \in Gated(b) PROVE ~Breached(better, b, k)
  <2>1. k \in DOMAIN r.metrics /\ k \in DOMAIN b.metrics
    BY <1>1 DEF Rejected, Gated
  <2>2. r.metrics[k] \in Int /\ better.metrics[k] \in Int /\ b.metrics[k] \in Int
    BY <2>1, RunFields DEF GateConstants
  <2>3. Tolerance[k[2]] \in Int
    BY DEF GateConstants, Gated
  <2>4. ~(b.metrics[k] - r.metrics[k] > Tolerance[k[2]])
    BY <1>1 DEF Breached
  <2> QED
    BY <2>1, <2>2, <2>3, <2>4 DEF Breached
<1> QED
  BY <1>2, <1>3 DEF Gate
=============================================================================
