\* Three requests in a row, no events.
CONSTANTS
    Requests = {q1, q2, q3}
    Conns = {c1}
    NoRun = NoRun
    NoConn = NoConn
    Heartbeat = Heartbeat
    DesktopBridge = FALSE
    MaxEvents = 0
    MaxPending = 1
SPECIFICATION Spec
INVARIANT OneRunAtATime
