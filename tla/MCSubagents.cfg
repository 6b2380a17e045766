\* Two runs of either mode, the second possibly a child of the first.
CONSTANTS
    Roots = {root}
    Modes = {"run", "session"}
    MaxRuns = 2
    MaxInbox = 1
    MaxConcurrent = 2
    MaxPerSession = 1
    MaxDepth = 2
SPECIFICATION LiveSpec
INVARIANTS
    LimitsHold
PROPERTIES
    KillsEnd
CHECK_DEADLOCK FALSE
