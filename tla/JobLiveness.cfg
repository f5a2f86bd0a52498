\* Fair goroutines, one crash; liveness admits no symmetry.
SPECIFICATION FairSpec
CONSTANTS
  Jobs = {j1, j2}
  MaxJobs = 1
  MaxQueued = 1
  Faults = FALSE
  MaxCrashes = 1
  MaxTransfers = 0
  MaxDrains = 1
PROPERTIES
  EventuallySettled
  CancelAnswered
