\* Two jobs side by side, cancellations, setup and a transfer, no faults.
SPECIFICATION HostSpec
CONSTANTS
  Jobs = {j1, j2}
  MaxJobs = 2
  MaxQueued = 0
  Faults = FALSE
  MaxCrashes = 1
  MaxTransfers = 1
  MaxDrains = 2
  \* One job's processes: a recovery that is itself interrupted.
  Pids = {1, 2, 3}
  Signallers = {"user", "runtime"}
  MaxMoves = 4
  MaxDaemons = 2
  \* Two connections through one forwarded port.
  Conns = {1, 2}
SYMMETRY Symmetry
INVARIANTS
  CancelSettles
  NoLostWakeup
  SchedulerSound
  ProcessesSafe
  ForwardsClosed
PROPERTY StartsInOrder
