SPECIFICATION FetchSpec
CONSTANTS
    ChJobs = {j1, j2}
    AutoJobs = {j1, j2}
    SharedJobs = {j2}
    ChProcs = {p1, p2}
    MaxChCrash = 1
    MaxChEdit = 1
    MaxFetch = 1
    MaxLook = 1
    first = j1
    second = j2
    d = d
    x = x
    e = e
    z = z
    Root = Root
    Paths <- MCPaths
    Parent <- MCParent
    Entries <- MCEntries
    Ignored <- MCIgnored
    Artifacts <- MCArtifacts
SYMMETRY ChSymmetry
INVARIANTS RecordsSafe AppliedOnce MergesSound UserEditsKept
CHECK_DEADLOCK FALSE
