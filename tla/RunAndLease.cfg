SPECIFICATION RLSpec
CONSTANTS
  \* ClientRun
  Candidates = 2
  Attempts = 3
  MaxSignals = 3
  \* LeaseRun
  Suppliers = 2
  LeasesEach = 2
  MaxReboots = 1
INVARIANTS
  RunsOnOneRunner
  
  LeaseFromOne
CHECK_DEADLOCK FALSE
