SPECIFICATION Spec
CONSTANTS
    N = 2
    Callers = {"job", "transfer"}
    LateEdits = FALSE
    MaxApplies = 1
    MaxEdits = 2
    MaxCrashes = 2
    MaxFaults = 1
INVARIANTS  AllOrNothing
PROPERTIES CleanupCompletes
CHECK_DEADLOCK FALSE
