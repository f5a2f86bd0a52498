\* One run with --apply and one fetch --apply, in two processes.
SPECIFICATION MCChSpec
CONSTANTS
    ChJobs = {j1, j2}
    AutoJobs = {j1}
    SharedJobs = {}
    ChProcs = {p1, p2}
    MaxChCrash = 1
    MaxChEdit = 1
    MaxFetch = 1
    MaxLook = 1
    first = j1
    second = j2
SYMMETRY ChSymmetry
INVARIANT CompletionKept
CHECK_DEADLOCK FALSE
