------------------------------ MODULE AnswerPath ------------------------------
(***************************************************************************)
(* The answers of OnlineEvaluation together with the functions they are    *)
(* made and measured by: the ranking their passages come from, the checks  *)
(* of what the provider returns, the measures and reports of evaluations.  *)
(*                                                                         *)
(* These functions read nothing but their arguments, so they are tried on  *)
(* inputs of their own: a behaviour either answers requests, with no       *)
(* subject, or it has an input as its subject and no requests.             *)
(***************************************************************************)
EXTENDS OnlineEvaluation, Ranking, AnswerChecks, Measures, Reporting

CONSTANTS
  Variants   \* bound: the variants tried

ASSUME VariantsAssumption ==
  Variants \subseteq [sparse : Nat, dense : Nat, fusion : Nat, candidates : Nat, keep : Nat]

VARIABLE
  subject    \* the input tried, and what it is an input of

Subject(kind, inputs) == \E x \in inputs : subject = [kind |-> kind, input |-> x]
SomeSubject ==
  \/ Subject("variant", {v \in Variants : ValidVariant(v)})
  \/ Subject("draft", Drafts) \/ Subject("failure", FailedOutcomes)
  \/ Subject("grades", Grades) \/ Subject("usage", Usages) \/ Subject("rows", RowSets)
  \/ \E n \in 1..MaxSample :
       \/ Subject("human", [1..n -> BOOLEAN]) \/ Subject("gold", [1..n -> Labels])
       \/ Subject("differences", [1..n -> -1..1])

NoSubject == [kind |-> "none"]
Tried(kind) == subject.kind = kind

AInit == OInit /\ IF setup.requests = {} THEN SomeSubject ELSE subject = NoSubject
ANext == ONext /\ UNCHANGED subject
ASpec == AInit /\ [][ANext]_<<vars, subject>> /\ OFairness

-----------------------------------------------------------------------------
(* What a retrieval variant returns is a sound ranking of what its stages  *)
(* found, fused or reranked or neither, and cut to the number asked for    *)
(* (RetrievalPipeline.search).                                             *)
RankingIsSound == Tried("variant") => RanksSoundly(subject.input)

(* No answer is lost to its contract, and "ok" means grounded              *)
(* (CitedAnswerer.answer, AnswerResponse.validate_outcome).                *)
AnswersAreSound ==
  /\ Tried("draft") => AnswersSoundly(subject.input)
  /\ Tried("failure") => FailsSoundly(subject.input)

(* The numbers of a report mean what they say: metrics, agreement and cost *)
(* of each query, and the rows and comparisons they are aggregated from    *)
(* (retrieval_metrics.py, answer_metrics.py, calibration.py, reporting.py).*)
MeasuresAreSound ==
  /\ Tried("grades") => RetrievalScored(subject.input)
  /\ Tried("human") => AgreementScored(subject.input)
  /\ Tried("gold") => LabelsScored(subject.input)
  /\ Tried("usage") => SpendAdds(subject.input)
  /\ Tried("rows") => ReportsWholeRuns(subject.input)
  /\ Tried("differences") => ComparesFairly(subject.input)
=============================================================================
