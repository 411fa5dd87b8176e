SPECIFICATION GSpec
CONSTANTS
  Queries = {1, 2, 3}
  Order <- MCOrder
  Specs <- MCSpecs
  Hashes = {"h1", "h2"}
  Indexes = {"i1"}
  Means = {0, 1, 2}
  Metrics <- MCMetrics
  Tolerance <- MCTolerance
  None = None
INVARIANT ComparedOnSameQueries
