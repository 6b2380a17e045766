\* Three nodes, the third joining the first two; a crash, a shutdown, a stop.
CONSTANTS
    N = 3
    DependsOn <- JoinGraph
    FailureTypes = {"target_context_mismatch", "unknown", "weak_evidence"}
    Evidence = {0}
    Ladder <- DefaultLadder
    MaxRetriesPerStep = 2
    AbortConditions = {"current_tab_connection_unavailable"}
    MaxIterations = 4
    Interval = 1
    EndsAt = 3
    HourTicks = 4
    MaxRuntimeHours = 2
    MaxLlmCalls = 3
    MaxToolCalls = 10
    MaxSameFailureRetries = 1
    MaxRepairDepth = 2
    MaxPendingApprovals = 1
    MaxClock = 3
    MaxCrashes = 1
    MaxShutdowns = 1
    NotifyMayFail = TRUE
SPECIFICATION Spec
INVARIANT AbortSurvivesRestart
CHECK_DEADLOCK FALSE
