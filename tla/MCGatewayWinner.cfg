\* Two searches on one goal within one second.
CONSTANTS
    Requests = {q1}
    Conns = {c1}
    NoRun = NoRun
    NoConn = NoConn
    Heartbeat = Heartbeat
    DesktopBridge = FALSE
    MaxEvents = 0
    MaxPending = 1
    Asks = {a1}
    NoAsk = NoAsk
    MaxStops = 0
    Flows = {f1, f2}
    Slugs = {"x"}
    Suites = {"full", "quick"}
    Orders <- SmallOrders
    Tries = 2
    MaxSecond = 1
    MaxHands = 0
    Improvements = {1}
    Missions = {m1}
    Relevance <- SmallRelevance
    Always = {1}
    MaxPerType = 1
    MaxCopies = 1
    MaxDay = 0
SPECIFICATION PartSpec
INVARIANT WinnerIsKept
CHECK_DEADLOCK FALSE
