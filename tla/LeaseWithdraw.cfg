SPECIFICATION LRSpec
CONSTANTS
  Suppliers = 2
  LeasesEach = 2
  MaxReboots = 1
CHECK_DEADLOCK FALSE
INVARIANTS
  NothingAfterWithdrawal
