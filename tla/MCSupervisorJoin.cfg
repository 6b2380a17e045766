\* Three nodes, the third joining the first two; a crash, a shutdown, a stop.
CONSTANTS
    N = 3
    DependsOn <- JoinGraph
    FailureTypes = {"target_context_mismatch", "unknown", "weak_evidence"}
    Evidence = {0}
    Ladder <- DefaultLadder
    MaxRetriesPerStep = 3
    AbortConditions = {"current_tab_connection_unavailable"}
    MaxIterations = 4
    Interval = 1
    EndsAt = 4
    HourTicks = 4
    MaxRuntimeHours = 2
    MaxLlmCalls = 4
    MaxToolCalls = 10
    MaxSameFailureRetries = 2
    MaxRepairDepth = 3
    MaxPendingApprovals = 1
    MaxClock = 4
    MaxCrashes = 1
    MaxShutdowns = 1
    NotifyMayFail = TRUE
SPECIFICATION LiveSpec
INVARIANTS
    DependencyGate
    ChildHasLicence
    ParkedOnlyWhenStuck
PROPERTIES
    DurableProgress
    ImplementsLifecycle
    MissionEnds
CHECK_DEADLOCK FALSE
