\* One stop of the gateway, one retry; three connections; two runners on one session; a legacy table;
\* two processes at a log of three lines.
CONSTANTS
    Jobs = {"clock", "event"}
    Period <- SmallPeriods
    Event <- SmallEvents
    MaxRetries <- SmallRetries
    NoJob = NoJob
    Deleted = Deleted
    MaxTime = 4
    MaxFired = 1
    MaxCrashes = 1
    Conns = {s1, s2, s3}
    Calls = {c1, c2}
    NoConn = NoConn
    Runners = {r1, r2}
    NoSession = NoSession
    MaxAppends = 2
    MaxDeletes = 1
    Contents = {"x", "y", "z"}
    Alike <- SmallAlike
    Contrary <- SmallContrary
    Trusts = {1, 2, 3}
    MinTrust = 1
    Sessions = {"s"}
    MaxCandidates = 3
    Tasks = {t1, t2}
    Owners = {o1}
    Nested = {"a", "b"}
    Values = {v1}
    NoTask = NoTask
    NoValue = NoValue
    NoText = NoText
    MaxEvents = 3
    Processes = {p1, p2}
    NoProcess = NoProcess
    Junk = Junk
    MaxLines = 3
    MaxDeaths = 1
SPECIFICATION Spec
INVARIANTS
    OccurrencesRunOnce
    HandoverIsSafe
    
    JudgementIsSaved
    ViewsAgree
    AnswersAreComplete
PROPERTIES
    DueJobsAreCalled
CHECK_DEADLOCK FALSE
