SPECIFICATION FairISpec
CONSTANTS
  i1 = i1
  i2 = i2
  full = full
  cut = cut
  Ingestors = {i1, i2}
  Contents = {full, cut}
  Documents = 3
  Relevances <- MCRelevances
  None = None
  Parts = {"part1", "part2"}
  Places = {i1, i2, shared}
  Pinned = full
  Batch <- MCBatch
  Shared = shared
  MaxCrashes = 1
INVARIANTS ITypeOK ProgressExact NoWaitCycle FailuresAreExplained PublishedIsWhole
PROPERTIES KeepsIndexContract EventuallyAvailable
