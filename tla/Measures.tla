------------------------------ MODULE Measures ------------------------------
(***************************************************************************)
(* The numbers an evaluation is made of: the retrieval metrics of a query  *)
(* (compute_retrieval_metrics), the macro-F1 of verification labels, the   *)
(* agreement of a judge with human labels (cohens_kappa) and the cost of   *)
(* tokens.                                                                 *)
(*                                                                         *)
(* A ranking is a sequence of documents, grades a function from documents  *)
(* to relevance.  The cutoff stands for the code's 10 and 100.  Fractions  *)
(* are exact.                                                              *)
(***************************************************************************)
EXTENDS Fractions, SequencesExt

CONSTANTS
  Discount,   \* 1 / log2(rank + 1) for every rank up to the cutoff, in a fixed unit
  Passages,   \* bound: the documents that are ranked
  MaxGrade,   \* bound: relevance grades
  MaxSample   \* bound: labels or values in a sample

ASSUME MeasuresAssumption ==
  /\ Discount \in Seq(Nat \ {0})
  /\ \A i, j \in DOMAIN Discount : i < j => Discount[i] >= Discount[j]
  /\ IsFiniteSet(Passages)
  /\ MaxGrade \in Nat /\ MaxSample \in Nat

-----------------------------------------------------------------------------
(* retrieval_metrics.py *)
Top(ranking, cutoff) == SubSeq(ranking, 1, IF cutoff < Len(ranking) THEN cutoff ELSE Len(ranking))
Relevant(grades) == {d \in DOMAIN grades : grades[d] > 0}

Gain(gains) == SumOf([i \in DOMAIN gains |-> gains[i] * Discount[i]])
Observed(ranking, grades) ==
  [i \in DOMAIN ranking |-> IF ranking[i] \in DOMAIN grades THEN grades[ranking[i]] ELSE 0]

(* the grades of the relevant documents, the best first *)
Ideal(grades) == Reverse(Sorted([d \in Relevant(grades) |-> grades[d]]))

Ndcg(ranking, grades, cutoff) ==
  Ratio(Gain(Observed(Top(ranking, cutoff), grades)), Gain(Top(Ideal(grades), cutoff)), Zero)

Recall(ranking, grades, cutoff) ==
  Ratio(Cardinality(Range(Top(ranking, cutoff)) \cap Relevant(grades)),
        Cardinality(Relevant(grades)), Zero)

ReciprocalRank(ranking, grades, cutoff) ==
  LET hits == {i \in DOMAIN Top(ranking, cutoff) : ranking[i] \in Relevant(grades)} IN
  IF hits = {} THEN Zero ELSE <<1, Min(hits)>>

-----------------------------------------------------------------------------
(* answer_metrics.py: macro_f1; an answer may carry no label *)
Labels == {"SUPPORT", "CONTRADICT", "NOT_ENOUGH_INFO"}
NoLabel == "none"

F1(label, gold, predicted) ==
  LET is(s, n) == s[n] = label
      both == Cardinality({n \in DOMAIN gold : is(gold, n) /\ is(predicted, n)})
      one == Cardinality({n \in DOMAIN gold : is(gold, n) # is(predicted, n)})
  IN Ratio(2 * both, 2 * both + one, Zero)

MacroF1(gold, predicted) ==
  Times(<<1, 3>>, Plus(F1("SUPPORT", gold, predicted),
                       Plus(F1("CONTRADICT", gold, predicted),
                            F1("NOT_ENOUGH_INFO", gold, predicted))))

(* calibration.py: cohens_kappa *)
Share1(labels) == <<Cardinality({n \in DOMAIN labels : labels[n]}), Len(labels)>>
Kappa(human, judge) ==
  LET agreed == <<Cardinality({n \in DOMAIN human : human[n] = judge[n]}), Len(human)>>
      h == Share1(human)
      j == Share1(judge)
      expected == Plus(Times(h, j), Times(Minus(One, h), Minus(One, j)))
      left == Minus(One, expected)
  IN IF left[1] = 0 THEN IF Equals(agreed, One) THEN One ELSE Zero
     ELSE Times(Minus(agreed, expected), <<left[2], left[1]>>)

-----------------------------------------------------------------------------
(* TokenUsage *)
ValidUsage(u) ==
  /\ u.input >= 0 /\ u.output >= 0 /\ u.cached >= 0 /\ u.written >= 0
  /\ u.cached + u.written <= u.input

(* PricingTable.calculate_cost, in millionths *)
Cost(u, price) ==
  (u.input - u.cached - u.written) * price.input + u.cached * price.cached
    + u.written * price.written + u.output * price.output

(* Mutant: tokens read from the provider's cache are forgotten. *)
CombinedUncached(u, w) ==
  [input |-> u.input + w.input, output |-> u.output + w.output,
   cached |-> w.cached, written |-> u.written + w.written]

(* _combined_usage, of a failed attempt and the repair after it *)
Combined(u, w) ==
  [input |-> u.input + w.input, output |-> u.output + w.output,
   cached |-> u.cached + w.cached, written |-> u.written + w.written]

-----------------------------------------------------------------------------
PassageRankings ==
  {s \in UNION {[1..n -> Passages] : n \in 0..Cardinality(Passages)} : IsInjective(s)}
Grades == UNION {[D -> 0..MaxGrade] : D \in SUBSET Passages}
Usages == {u \in [input : 0..2, output : 0..1, cached : 0..2, written : 0..1] : ValidUsage(u)}

Descending(s, grades) ==
  /\ Range(s) = DOMAIN grades
  /\ \A i, j \in DOMAIN s : i < j => grades[s[i]] >= grades[s[j]]

Improvable(s, i, grades) == s[i] \notin Relevant(grades) /\ s[i + 1] \in Relevant(grades)
Swapped(s, i) == [s EXCEPT ![i] = s[i + 1], ![i + 1] = s[i]]

(* Every retrieval metric lies between 0 and 1, no ranking does better     *)
(* than one by descending grade, and moving a relevant document above one  *)
(* that is not relevant never lowers a metric.                             *)
RetrievalScored(grades) ==
  \A cutoff \in DOMAIN Discount :
    LET worth(r) == <<Ndcg(r, grades, cutoff), Recall(r, grades, cutoff),
                      ReciprocalRank(r, grades, cutoff)>>
        ideal == {s \in PassageRankings : Descending(s, grades)}
    IN
    /\ \A best \in ideal :
         Relevant(grades) # {} => Equals(worth(best)[1], One) /\ Equals(worth(best)[3], One)
    /\ \A s \in PassageRankings :
         /\ \A n \in 1..3 : Between(worth(s)[n], Zero, One)
         /\ \A best \in ideal, n \in 1..3 : AtMost(worth(s)[n], worth(best)[n])
         /\ \A i \in 1..(Len(s) - 1) :
              Improvable(s, i, grades) =>
                \A n \in 1..3 : AtMost(worth(s)[n], worth(Swapped(s, i))[n])

(* Agreement and F1 keep to their ranges, perfect labels reach the most    *)
(* that is possible (a class nobody has counts as 0 in the macro-F1), and  *)
(* kappa does not depend on who is called the human.                       *)
AgreementScored(human) ==
  \A judge \in [DOMAIN human -> BOOLEAN] :
    /\ Between(Kappa(human, judge), <<-1, 1>>, One)
    /\ Equals(Kappa(human, judge), Kappa(judge, human))
    /\ Equals(Kappa(human, human), One)

LabelsScored(gold) ==
  LET most == <<Cardinality(Range(gold)), 3>> IN
  /\ Equals(MacroF1(gold, gold), most)
  /\ \A predicted \in [DOMAIN gold -> Labels \cup {NoLabel}] :
       Between(MacroF1(gold, predicted), Zero, most)

(* A usage made of two is valid and costs what the two cost: what is spent *)
(* can be counted call by call.                                            *)
SpendAdds(u) ==
  \A w \in Usages : \A price \in [input : {2}, output : {3}, cached : 0..2, written : {3}] :
    /\ ValidUsage(Combined(u, w))
    /\ Cost(Combined(u, w), price) = Cost(u, price) + Cost(w, price)
    /\ Cost(u, price) >= 0
=============================================================================
