\* Three runs: one with one or two children, or all beside each other.
CONSTANTS
    Roots = {root}
    Modes = {"run"}
    MaxRuns = 3
    MaxInbox = 1
    MaxConcurrent = 3
    MaxPerSession = 2
    MaxDepth = 2
SPECIFICATION Spec
PROPERTIES
    KillIsThorough
CHECK_DEADLOCK FALSE
