SPECIFICATION Spec
CONSTANTS
  p = p
  q = q
  Paths = {p, q}
  Values = {1, 2}
  MaxPush = 2
  MaxCrash = 1
  MaxOdds = 1
  Capacities = {2, 3}
  Creation <- CreationMC
SYMMETRY Symmetric
INVARIANTS PushedOnce CheckpointSound  PushRecoverable
CHECK_DEADLOCK FALSE
