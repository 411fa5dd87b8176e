SPECIFICATION WSpec
CONSTANTS
  Jobs = {j1}
  Workers = {w1, w2}
  Operators = {}
  MaxAttempts = 2
  Lease = 3
  RetryDelay = 1
  None = None
  MinimumInterval = 1
  Slow = 0
  MayStall = TRUE
  Stoppable = {}
PROPERTY FinishedIsFinal
