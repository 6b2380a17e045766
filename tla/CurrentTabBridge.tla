------------------------- MODULE CurrentTabBridge -------------------------
(***************************************************************************)
(* Calls to the browser extension over a WebSocket.  The extension may     *)
(* connect again before the handler of its old connection has noticed; the *)
(* table of pending calls is one for all connections.                      *)
(***************************************************************************)
EXTENDS Naturals

CONSTANTS Conns, Calls, NoConn

ASSUME BridgeAssumption == NoConn \notin Conns

VARIABLES
    handler,   \* of a connection: "none", "hello", "serving", "lost", "ended" or "refused"
    newest,    \* history: the connection accepted last
    client,    \* the connection that calls go to
    pending       \* of a call: its state and the connection it was sent on

bridgeVars == <<handler, newest, client, pending>>

BridgeInit ==
    /\ handler = [s \in Conns |-> "none"]
    /\ newest = NoConn /\ client = NoConn
    /\ pending = [c \in Calls |-> [at |-> "none", conn |-> NoConn]]

Connect(s) ==
    /\ handler[s] = "none"
    /\ handler' = [handler EXCEPT ![s] = "hello"]
    /\ UNCHANGED <<newest, client, pending>>

\* The origin, the hello message and the token are checked; a refused connection never serves.
Refuse(s) ==
    /\ handler[s] = "hello"
    /\ handler' = [handler EXCEPT ![s] = "refused"]
    /\ UNCHANGED <<newest, client, pending>>

\* The new connection takes over, then the handler closes the one before it.
Accept(s) ==
    /\ handler[s] = "hello"
    /\ handler' = [h \in Conns |-> IF h = s THEN "serving"
                                   ELSE IF h = client /\ handler[h] = "serving" THEN "lost" ELSE handler[h]]
    /\ newest' = s /\ client' = s
    /\ UNCHANGED pending

\* A connection breaks; its handler does not know yet.
Lose(s) ==
    /\ handler[s] = "serving"
    /\ handler' = [handler EXCEPT ![s] = "lost"]
    /\ UNCHANGED <<newest, client, pending>>

\* Every pending call fails, on whichever connection it was sent.
Fails(s) == {c \in Calls : pending[c].at = "waiting"}

\* Mutant of ClientAfter: whoever ends clears the client.
ClientAfter_None(s) == NoConn

ClientAfter(s) == IF client = s THEN NoConn ELSE client

HandlerEnds(s) ==
    /\ handler[s] = "lost"
    /\ handler' = [handler EXCEPT ![s] = "ended"]
    /\ client' = ClientAfter(s)
    /\ pending' = [c \in Calls |-> IF c \in Fails(s) THEN [pending[c] EXCEPT !.at = "failed"] ELSE pending[c]]
    /\ UNCHANGED newest

\* A call needs a client that is not known to be closed; it is in the table before it is sent.
Call(c) ==
    /\ pending[c].at = "none"
    /\ pending' = [pending EXCEPT ![c] = IF client # NoConn /\ handler[client] = "serving"
                                   THEN [at |-> "waiting", conn |-> client]
                                   ELSE [at |-> "refused", conn |-> NoConn]]
    /\ UNCHANGED <<handler, newest, client>>

\* A response is matched by its request only, on whatever connection it comes.
Respond(s, c) ==
    /\ handler[s] = "serving" /\ pending[c].at = "waiting" /\ pending[c].conn = s
    /\ pending' = [pending EXCEPT ![c].at = "answered"]
    /\ UNCHANGED <<handler, newest, client>>

TimeOut(c) ==
    /\ pending[c].at = "waiting"
    /\ pending' = [pending EXCEPT ![c].at = "timed_out"]
    /\ UNCHANGED <<handler, newest, client>>

BridgeNext ==
    \/ \E s \in Conns : Connect(s) \/ Refuse(s) \/ Accept(s) \/ Lose(s) \/ HandlerEnds(s)
    \/ \E c \in Calls : Call(c) \/ TimeOut(c) \/ (\E s \in Conns : Respond(s, c))

BridgeSpec == BridgeInit /\ [][BridgeNext]_bridgeVars

-----------------------------------------------------------------------------
\* The handler of an old connection, however late it ends, takes nothing from the new one: the
\* connection accepted last is the client for as long as it serves.
NewestClientServes == newest # NoConn /\ handler[newest] = "serving" => client = newest

\* Nobody waits for a connection that is gone: when a handler has ended, no call that was sent on
\* its connection is still pending.
NobodyWaitsForTheGone == \A c \in Calls : pending[c].at = "waiting" => handler[pending[c].conn] # "ended"

\* One property of the hand-over between connections.
HandoverIsSafe == NewestClientServes /\ NobodyWaitsForTheGone

=============================================================================
