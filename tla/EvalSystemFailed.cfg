SPECIFICATION SSpec
CONSTANTS
  Total = 2
  NV = 1
  GenItems = {}
  Generation = FALSE
  Judging = FALSE
  Indexes = {x1}
  Runners = {r1}
  Clients = {}
  None = None
  MaxAttempts = 3
PROPERTY RedeliveredJobResumes
