--------------------------- MODULE MCRegressionGate ---------------------------
EXTENDS RegressionGate
MCOrder == [seed \in {1, 2} |-> [q \in {1, 2, 3} |-> IF seed = 1 THEN q ELSE 4 - q]]
MCSpecs ==
  [benchmark : {"scifact"}, variants : {{"hybrid"}}, sample : {None, 2},
   generation_sample : {None, 1}, seed : {1, 2}, generation : {"answers"}]
MCMetrics == [retrieval |-> {"ndcg"}, generation |-> {"faithfulness"}]
MCTolerance == [m \in {"ndcg", "faithfulness"} |-> 1]
=============================================================================
