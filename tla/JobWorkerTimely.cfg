SPECIFICATION WSpec
CONSTANTS
  Jobs = {j1, j2}
  Workers = {w1, w2}
  Operators = {}
  MaxAttempts = 2
  Lease = 6
  RetryDelay = 1
  None = None
  MinimumInterval = 1
  Slow = 1
  MayStall = FALSE
  Stoppable = {w1}
INVARIANTS WTypeOK OneHandlerPerJob LiveWorkIsLeased AttemptsWithinLimit
PROPERTIES FinishedIsFinal KeepsContract
