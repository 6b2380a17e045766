\* Two requests at a time, a client that reconnects, three events for a queue of two; two requests
\* with a restart; two flows on one goal, two suites; two improvements.
CONSTANTS
    Requests = {q1, q2}
    Conns = {c1, c2}
    NoRun = NoRun
    NoConn = NoConn
    Heartbeat = Heartbeat
    DesktopBridge = TRUE
    MaxEvents = 3
    MaxPending = 2
    Asks = {a1, a2}
    NoAsk = NoAsk
    MaxStops = 1
    Flows = {f1, f2}
    Slugs = {"x"}
    Suites = {"quick", "full"}
    Orders <- SmallOrders
    Tries = 2
    MaxSecond = 1
    MaxHands = 1
    Improvements = {1, 2}
    Missions = {m1}
    Relevance <- SmallRelevance
    Always = {2}
    MaxPerType = 1
    MaxCopies = 2
    MaxDay = 1
SPECIFICATION PartSpec
INVARIANTS
    LoneRunIsReachable
    EventsAccounted
    
    TranscriptAgrees
    
    ReuseIsEarned
SYMMETRY Symmetry
CHECK_DEADLOCK FALSE
