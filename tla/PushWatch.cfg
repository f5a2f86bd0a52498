SPECIFICATION MCPWSpec
CONSTANTS
    MaxEdits = 3
    MaxFaults = 1
    SourceRetries = 1
VIEW RelevantWatch
INVARIANTS EditsReachReceiver EvidenceProves
CHECK_DEADLOCK FALSE
