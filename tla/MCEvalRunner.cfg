SPECIFICATION RSpec
CONSTANTS
  Total = 2
  NV = 1
  GenItems = {2}
  Generation = TRUE
  Judging = TRUE
  Indexes = {x1}
  Runners = {r1, r2}
  Clients = {c}
  None = None
INVARIANTS RTypeOK ProgressNeverAhead StagesInOrder
SYMMETRY RunnerSymmetry
