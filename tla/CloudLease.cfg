\* The broker: two runs, up to two leases, crashes and failing writes over their lifetimes.
SPECIFICATION CloudSpec
CONSTANTS
  Requests = {q1, q2}
  Made = 2
  MaxLeases = 1
  MaxRequests = 2
  MaxWithdrawn = 1
  WithdrawnAge = 0
  IdleTimeout = 1
  Lifetime = 2
  AcquireTimeout = 1
  ReleaseTimeout = 1
  ProbeTimeout = 1
  IdlePoll = 2
  Recount = FALSE
  MaxTime = 3
  MaxCrashes = 1
  MaxFaults = 2
  \* The provider: two sends, a slip of the clock and a crash.
  Slack = 1
  Settle = 4
  Lag = 1
  ListTime = 1
  MaxSends = 2
  MaxWall = 7
  MaxSlips = 1
  MaxStops = 1
  Offers <- MCOffers
SYMMETRY Symmetry
VIEW InFocus
CHECK_DEADLOCK FALSE
INVARIANTS
  NoOrphan
  ReadyHasMachine
  MachineLimit
  LeasesBounded
  InstanceReleased
 
