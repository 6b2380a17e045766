\* Four small maps with every kind of telemetry, two refreshes that cross a dispatch; one tab of the
\* user's and one more; two calls of the managed browser at a time; two sessions with two runs each; two applications.
CONSTANTS
    Maps <- SmallMaps
    Batteries = {2, 3, 5}
    StepLimits = {3, 5}
    Budgets = {2, 9}
    Readings <- SmallReadings
    None = None
    MaxTime = 3
    MaxEvidence = 2
    Proposals = {"lift", "turn"}
    NoRef = NoRef
    Sims = {s1}
    Calls = {c1, c2}
    MaxDispatch = 2
    NoRecord = NoRecord
    ControlUi = "ui"
    UserTabs = {"u"}
    NewTabs = {"n1"}
    NoTab = "none"
    TabLimit = 1
    Visitors = {v1, v2}
    NoVisitor = NoVisitor
    MaxBrowsers = 3
    MaxFaults = 1
    MaxReplies = 1
    ChatObjects = 1
    DefaultHeadless = TRUE
    Requests <- SmallRequests
    MaxChanges = 1
    Users = {"s1", "s2"}
    Controls = {"a1"}
    NoRun = NoRun
    MaxRuns = 2
    Apps = {p1, p2}
    Windows = {w1, w2}
    Titles = {"a", "b"}
    Similar <- SmallSimilar
    Labels <- SmallLabels
    NoApp = NoApp
    NoWindow = NoWindow
    NoTitle = NoTitle
    MaxSteps = 2
SPECIFICATION Spec
INVARIANTS
    PlanDelivers
    
    
    ReadinessTracesBack
    
    TaskStaysInItsTabs
    
    QuietCallsAreServed
    
    SuccessIsSeen
    AbortedRunsAreQuiet

    
SYMMETRY Symmetry
CHECK_DEADLOCK FALSE
