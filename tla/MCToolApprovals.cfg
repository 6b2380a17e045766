\* Two calls, from a chat session or from the session of a sub-agent.
CONSTANTS
    chat = chat
    child = child
    Calls = {c1, c2}
    Sessions = {chat, child}
    Spawner <- ChildOnly
    TTL = 5
    Instants = {0, 4, 9}
    Horizon = 4
    Expiries = {4}
SPECIFICATION LiveSpec
INVARIANTS
    CopiesEndWithTheirSource
PROPERTIES
    GrantsAreLicensed
    RequestsEnd
