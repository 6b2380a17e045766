\* One node, checked periodically; tight model-call and tool-call budgets.
CONSTANTS
    N = 1
    DependsOn <- SingleGraph
    FailureTypes = {"tool_timeout", "focus_mismatch", "policy_blocked"}
    Evidence = {0, 2}
    Ladder <- RetryOnlyLadder
    MaxRetriesPerStep = 2
    AbortConditions = {"human_approval_required"}
    MaxIterations = 4
    Interval = 1
    EndsAt = 4
    HourTicks = 2
    MaxRuntimeHours = 1
    MaxLlmCalls = 2
    MaxToolCalls = 4
    MaxSameFailureRetries = 1
    MaxRepairDepth = 1
    MaxPendingApprovals = 1
    MaxClock = 5
    MaxCrashes = 2
    MaxShutdowns = 1
    NotifyMayFail = FALSE
SPECIFICATION Spec
PROPERTY BudgetIsHard
CHECK_DEADLOCK FALSE
