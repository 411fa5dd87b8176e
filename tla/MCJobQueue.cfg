SPECIFICATION Spec
CONSTANTS
  Jobs = {j1}
  Workers = {w1, w2, w3}
  Operators = {op}
  MaxAttempts = 3
  Lease = 2
  RetryDelay = 1
  None = None
INVARIANTS TypeOK OvershootBounded
PROPERTY FinishedUnlessStale
SYMMETRY WorkerSymmetry
