------------------------------- MODULE Ranking -------------------------------
(***************************************************************************)
(* The order in which RetrievalPipeline.search returns documents: the hits *)
(* of the sparse and the dense stage, their reciprocal rank fusion, the    *)
(* reranking of the first candidates and the cut to the number asked for.  *)
(* A stage returns a sequence of documents without repetition; documents   *)
(* are numbers, in the order of their identifiers.  A variant is a record  *)
(* with                                                                    *)
(*                                                                         *)
(*   sparse, dense   the k of the stage, 0 when the variant has none       *)
(*   fusion          the k of the fusion, 0 when it has none               *)
(*   candidates      of the reranker, 0 when it has none                   *)
(*   keep            how many of them it promotes                          *)
(***************************************************************************)
EXTENDS Fractions, FiniteSets, Functions, Sequences

CONSTANTS
  Docs   \* bound: the documents of the corpus

ASSUME CorpusAssumption == Docs \subseteq Nat /\ IsFiniteSet(Docs)

(* VariantConfig.validate_pipeline, RerankStageConfig *)
ValidVariant(v) ==
  /\ v.sparse > 0 \/ v.dense > 0
  /\ (v.fusion > 0) = (v.sparse > 0 /\ v.dense > 0)
  /\ v.keep <= v.candidates
  /\ v.candidates > 0 => v.keep > 0

First(s, n) == SubSeq(s, 1, IF n < Len(s) THEN n ELSE Len(s))
Place(s, d) == CHOOSE i \in DOMAIN s : s[i] = d

(* A set in the order of a relation: the i-th has i - 1 of the set before it. *)
InOrder(S, before) ==
  LET preceding(d) == {e \in S : <<e, d>> \in before}
  IN [i \in 1..Cardinality(S) |-> CHOOSE d \in S : Cardinality(preceding(d)) = i - 1]

(* reciprocal_rank_fusion: one share for each list that has the document *)
Share(s, d, k) == IF d \in Range(s) THEN <<1, k + Place(s, d)>> ELSE Zero
Score(sparse, dense, k, d) == Plus(Share(sparse, d, k), Share(dense, d, k))

(* by descending score, ties by identifier *)
Fused(sparse, dense, k) ==
  LET found == Range(sparse) \cup Range(dense)
      score(d) == Score(sparse, dense, k, d)
      before == {p \in found \X found :
                   \/ Below(score(p[2]), score(p[1]))
                   \/ Equals(score(p[2]), score(p[1])) /\ p[1] < p[2]}
  IN InOrder(found, before)

(* the candidates by descending score of the reranker, ties as they were *)
Reranked(candidates, score) ==
  LET before == {p \in Range(candidates) \X Range(candidates) :
                   \/ score[p[1]] > score[p[2]]
                   \/ /\ score[p[1]] = score[p[2]]
                      /\ Place(candidates, p[1]) < Place(candidates, p[2])}
  IN InOrder(Range(candidates), before)

(* Mutant: the list is cut to what the reranker keeps. *)
PromotedOnly(hits, v, score) == First(Reranked(First(hits, v.candidates), score), v.keep)

(* the best are promoted, all the others follow in the order they had *)
Promoted(hits, v, score) ==
  LET promoted == First(Reranked(First(hits, v.candidates), score), v.keep)
      rest == Range(hits) \ Range(promoted)
      above == {p \in rest \X rest : Place(hits, p[1]) < Place(hits, p[2])}
  IN promoted \o InOrder(rest, above)

(* before reranking: "sparse_hits or dense_hits" without fusion *)
Retrieved(v, sparse, dense) ==
  IF v.fusion > 0 THEN Fused(sparse, dense, v.fusion)
  ELSE IF sparse # <<>> THEN sparse ELSE dense

Ordered(v, sparse, dense, score) ==
  LET hits == Retrieved(v, sparse, dense) IN
  IF v.candidates > 0 THEN Promoted(hits, v, score) ELSE hits

(* the k of the request *)
Returned(v, sparse, dense, score, k) == First(Ordered(v, sparse, dense, score), k)

-----------------------------------------------------------------------------
Rankings(k) ==
  {s \in UNION {[1..n -> Docs] : n \in 0..Cardinality(Docs)} :
     Len(s) <= k /\ Cardinality(Range(s)) = Len(s)}

(* in both lists, d is above e *)
Preferred(s, d, e) == d \in Range(s) /\ (e \in Range(s) => Place(s, d) < Place(s, e))

(* What a variant returns is a ranking of what its stages found, cut to    *)
(* the k that was asked for and by nothing else: no document twice, all of *)
(* them if k allows, the reranker changes nothing below its candidates,    *)
(* and no candidate scores higher than one promoted over it, be it further *)
(* down the list or cut off.  The fusion ranks a document both stages      *)
(* prefer above the other, and is the same whichever stage is named first. *)
RanksSoundly(v) ==
  \A sparse \in Rankings(v.sparse), dense \in Rankings(v.dense) :
    LET before == Retrieved(v, sparse, dense)
        found == Range(sparse) \cup Range(dense)
    IN
    /\ Range(before) = found
    /\ v.fusion > 0 =>
         /\ before = Fused(dense, sparse, v.fusion)
         /\ \A d, e \in found : d # e /\ Preferred(sparse, d, e) /\ Preferred(dense, d, e)
              => Place(before, d) < Place(before, e)
    /\ \A score \in [Docs -> 0..1], k \in 1..Cardinality(Docs) :
         LET after == Returned(v, sparse, dense, score, k)
             below(i) == found \ {after[j] : j \in 1..i}
         IN
         /\ Len(after) = IF k < Len(before) THEN k ELSE Len(before)
         /\ IsInjective(after) /\ Range(after) \subseteq found
         /\ k >= Len(before) => Range(after) = found
         /\ \A i \in DOMAIN after : i > v.candidates => after[i] = before[i]
         /\ \A i \in DOMAIN after : \A d \in below(i) :
              i <= v.keep /\ Place(before, d) <= v.candidates
                => score[after[i]] >= score[d]
=============================================================================
