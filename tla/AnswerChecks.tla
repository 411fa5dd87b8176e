---------------------------- MODULE AnswerChecks ----------------------------
(***************************************************************************)
(* What becomes of a generated answer: validate_citations checks it        *)
(* against the passages it was written from, CitedAnswerer.answer gives it *)
(* an outcome, the AnswerResponse contract accepts or rejects the result,  *)
(* and compute_answer_metrics scores it.                                   *)
(*                                                                         *)
(* A draft is the CitedAnswer of the provider: the identifiers it lists as *)
(* citations, those that occur in its text, and whether it abstains.       *)
(* Identifiers are those of passages, or any other the provider makes up.  *)
(***************************************************************************)
EXTENDS Fractions, FiniteSets, Sequences

CONSTANTS
  Identifiers,  \* bound: local identifiers
  NoReport      \* the citation_validation of a failed generation

ASSUME AnswerAssumption ==
  /\ IsFiniteSet(Identifiers)
  /\ NoReport \notin [unknown : SUBSET Identifiers, duplicates : SUBSET Identifiers,
                      missing_inline : SUBSET Identifiers, missing_required : BOOLEAN,
                      on_abstention : BOOLEAN]

GeneratedOutcomes == {"ok", "abstained", "citation_error"}
FailedOutcomes == {"schema_error", "refusal", "provider_error", "timeout"}

(* the identifiers a draft cites *)
Cites(draft) == {draft.citations[i] : i \in DOMAIN draft.citations}
CitesTwice(draft) ==
  {x \in Cites(draft) : \E i, j \in DOMAIN draft.citations :
     i # j /\ draft.citations[i] = x /\ draft.citations[j] = x}

(* Mutant: an answer without citations is valid. *)
ReportUncited(draft, contexts) ==
  [unknown |-> Cites(draft) \ contexts,
   duplicates |-> CitesTwice(draft),
   missing_inline |-> Cites(draft) \ draft.inline,
   missing_required |-> FALSE,
   on_abstention |-> draft.abstained /\ draft.citations # <<>>]

(* validate_citations *)
Report(draft, contexts) ==
  [unknown |-> Cites(draft) \ contexts,
   duplicates |-> CitesTwice(draft),
   missing_inline |-> Cites(draft) \ draft.inline,
   missing_required |-> ~draft.abstained /\ draft.citations = <<>>,
   on_abstention |-> draft.abstained /\ draft.citations # <<>>]

HasErrors(report) ==
  \/ report.unknown # {} \/ report.duplicates # {} \/ report.missing_inline # {}
  \/ report.missing_required \/ report.on_abstention

OutcomeOf(draft, report) ==
  IF HasErrors(report) THEN "citation_error"
  ELSE IF draft.abstained THEN "abstained" ELSE "ok"

(* CitedAnswerer.answer, for a draft and for a GenerationFailure *)
Answer(draft, contexts) ==
  LET report == Report(draft, contexts) IN
  [citations |-> draft.citations, abstained |-> draft.abstained,
   outcome |-> OutcomeOf(draft, report), report |-> report, error |-> FALSE]

FailedAnswer(outcome) ==
  [citations |-> <<>>, abstained |-> FALSE, outcome |-> outcome, report |-> NoReport,
   error |-> TRUE]

(* AnswerResponse.validate_outcome *)
Accepted(answer) ==
  IF answer.outcome \in GeneratedOutcomes
  THEN /\ answer.report # NoReport /\ ~answer.error
       /\ answer.outcome = "ok" =>
            ~answer.abstained /\ answer.citations # <<>> /\ ~HasErrors(answer.report)
       /\ answer.outcome = "abstained" =>
            answer.abstained /\ answer.citations = <<>> /\ ~HasErrors(answer.report)
       /\ answer.outcome = "citation_error" => HasErrors(answer.report)
  ELSE answer.report = NoReport /\ answer.error

(* compute_answer_metrics; passages are known by their identifiers *)
CitationValidity(answer) == answer.report # NoReport /\ ~HasErrors(answer.report)
ContextPrecision(contexts, relevant) ==
  Ratio(Cardinality(relevant \cap contexts), Cardinality(contexts), Zero)

-----------------------------------------------------------------------------
Drafts ==
  [citations : UNION {[1..n -> Identifiers] : n \in 0..2}, inline : SUBSET Identifiers,
   abstained : BOOLEAN]

(* What "ok" promises a reader: the answer cites, and each citation is a   *)
(* passage that was retrieved and stands in the text.                      *)
Grounded(draft, contexts) ==
  ~draft.abstained /\ Cites(draft) # {} /\ Cites(draft) \subseteq contexts \cap draft.inline

(* An answer that was paid for is never lost to the contract it is         *)
(* returned in; one that says "ok" is grounded, one that says "abstained"  *)
(* cites nothing; a valid citation score is given to these two and to no   *)
(* other, and the context precision lies between 0 and 1.                  *)
AnswersSoundly(draft) ==
  \A contexts \in SUBSET Identifiers :
    LET answer == Answer(draft, contexts) IN
    /\ Accepted(answer)
    /\ answer.outcome = "ok" => Grounded(draft, contexts)
    /\ answer.outcome = "abstained" => draft.abstained /\ Cites(draft) = {}
    /\ CitationValidity(answer) = (answer.outcome \in {"ok", "abstained"})
    /\ \A relevant \in SUBSET Identifiers :
         Between(ContextPrecision(contexts, relevant), Zero, One)

FailsSoundly(outcome) ==
  Accepted(FailedAnswer(outcome)) /\ ~CitationValidity(FailedAnswer(outcome))
=============================================================================
