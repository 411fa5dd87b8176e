SPECIFICATION FairSSpec
CONSTANTS
  Total = 4
  NV = 2
  GenItems = {1, 3}
  Generation = TRUE
  Judging = TRUE
  Indexes = {x1, x2}
  Runners = {r1, r2}
  Clients = {}
  None = None
  MaxAttempts = 3
INVARIANTS STypeOK CompletedIsWhole OneIndexPerVariant ProgressIsExact NoSpuriousFailure
PROPERTIES EndedIsFinal CommittedWorkIsSkipped EveryRunEnds
