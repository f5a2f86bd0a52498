\* Crashes and failing file operations, also during recovery.  One slot and no
\* queue: the second job meets a full runner, or one whose slot is just given back.
SPECIFICATION Spec
CONSTANTS
  Jobs = {j1, j2}
  MaxJobs = 1
  MaxQueued = 0
  Faults = TRUE
  MaxCrashes = 2
  MaxTransfers = 1
  MaxDrains = 1
SYMMETRY Symmetry
INVARIANTS
  AtMostOnce
  ResultTruthful
  SurvivorsLocatable
  CancelledNeverRuns
  PublishedIsDurable
PROPERTY KeepsContract
