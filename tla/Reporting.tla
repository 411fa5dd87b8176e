------------------------------ MODULE Reporting ------------------------------
(***************************************************************************)
(* The report of a completed run (reporting.py): which result rows         *)
(* build_evaluation_report accepts, and how it compares two variants by    *)
(* resampling the differences of their scores query by query.              *)
(*                                                                         *)
(* A row is the query and the variant it is of, and its kind: one of this  *)
(* run, "first" or "second", so that a query may have two under a variant, *)
(* one of another run, or one without all the retrieval metrics.  The      *)
(* random resamples of the bootstrap are any resamples.                    *)
(***************************************************************************)
EXTENDS Fractions

CONSTANTS
  RowQueries, RowVariants,  \* bound: the queries and variants rows are of
  Resamples                 \* bound: bootstrap_resamples

ASSUME ReportingAssumption ==
  IsFiniteSet(RowQueries) /\ IsFiniteSet(RowVariants) /\ Resamples \in Nat \ {0}

RowKinds == {"first", "second", "foreign", "unscored"}

RowsOf(rows, v) == {r \in rows : r.variant = v}
QueriesOf(rows, v) == {r.query : r \in RowsOf(rows, v)}

(* Mutant: the rows are counted, and not looked at. *)
ReportableByCount(rows, variants, total) ==
  /\ rows # {} /\ Cardinality(rows) = total
  /\ \A v \in variants : Cardinality(RowsOf(rows, v)) = total \div Cardinality(variants)

(* build_evaluation_report: the rows of a run of these variants whose      *)
(* progress says total, and build_variant_comparisons                      *)
Reportable(rows, variants, total) ==
  /\ rows # {} /\ Cardinality(rows) = total
  /\ \A r \in rows : r.kind # "foreign" /\ r.variant \in variants /\ r.kind # "unscored"
  /\ \A r, s \in rows : r.query = s.query /\ r.variant = s.variant => r = s
  /\ \A v \in variants : Cardinality(RowsOf(rows, v)) = total \div Cardinality(variants)
  /\ \A v, w \in variants : QueriesOf(rows, v) = QueriesOf(rows, w)

(* _percentile, the quantile in thousandths *)
Percentile(values, thousandths) ==
  LET ordered == Sorted(values)
      position == (Len(values) - 1) * thousandths
      lower == position \div 1000
      upper == IF lower + 1 < Len(values) THEN lower + 1 ELSE Len(values) - 1
      weight == position - 1000 * lower
  IN <<ordered[lower + 1] * (1000 - weight) + ordered[upper + 1] * weight, 1000>>

(* _paired_bootstrap_difference; draws are the indices of each resample,   *)
(* and sums stand for means, of the same number of differences each        *)
Interval(differences, draws) ==
  LET sum(draw) == SumOf([i \in DOMAIN draw |-> differences[draw[i]]])
      sums == [n \in DOMAIN draws |-> sum(draws[n])]
  IN IF Len(differences) = 1 THEN <<<<differences[1], 1>>, <<differences[1], 1>>>>
     ELSE <<Percentile(sums, 25), Percentile(sums, 975)>>

(* Mutant: an interval that ends at zero excludes it. *)
SignificantAtZero(interval) == AtMost(Zero, interval[1]) \/ AtMost(interval[2], Zero)

Significant(interval) == Below(Zero, interval[1]) \/ Below(interval[2], Zero)

-----------------------------------------------------------------------------
RowSets == SUBSET [query : RowQueries, variant : RowVariants, kind : RowKinds]

(* The rows a report is made from are those of one set of queries, each    *)
(* exactly once under every variant, all of the run and with their         *)
(* metrics: whatever is missing, repeated, unscored or of another run is   *)
(* refused, and nothing else is.                                           *)
ReportsWholeRuns(rows) ==
  \A variants \in (SUBSET RowVariants) \ {{}}, total \in 0..(Cardinality(rows) + 1) :
    Reportable(rows, variants, total) <=>
      /\ Cardinality(rows) = total
      /\ \A r \in rows : r.kind \in {"first", "second"}
      /\ \E queries \in (SUBSET RowQueries) \ {{}} :
           /\ {<<r.query, r.variant>> : r \in rows} = queries \X variants
           /\ total = Cardinality(queries) * Cardinality(variants)

(* A comparison is significant whenever one variant is better on every     *)
(* query, and never when they tie on every query; its interval is one, and *)
(* lies between what the resamples can reach.                              *)
ComparesFairly(differences) ==
  \A draws \in [1..Resamples -> [DOMAIN differences -> DOMAIN differences]] :
    LET interval == Interval(differences, draws)
        lowest == Len(differences) * Min(Range(differences))
        highest == Len(differences) * Max(Range(differences))
    IN
    /\ Between(interval[1], <<lowest, 1>>, interval[2])
    /\ AtMost(interval[2], <<highest, 1>>)
    /\ lowest > 0 \/ highest < 0 => Significant(interval)
    /\ Range(differences) = {0} => ~Significant(interval)
=============================================================================
