------------------------------ MODULE ChatSession ------------------------------
(***************************************************************************)
(* What the gateway keeps for one chat session: the ConnectionManager of   *)
(* src/src/gateway/server.py with the WebSocket handler that serves a      *)
(* client (ws_handler.py) and the tasks that run the agents.               *)
(*                                                                         *)
(* Two things are looked up by session id and owned by whoever wrote last: *)
(* the socket that events are sent to, and the task that an abort cancels. *)
(* A client that reconnects has a second handler while the first has not   *)
(* noticed yet that its client is gone; and a task that was cancelled goes *)
(* on for a while beside the one that replaced it.                         *)
(***************************************************************************)
EXTENDS Naturals, Sequences

CONSTANTS
    Requests,     \* slots of chat.send and control.run requests under way
    Conns,        \* slots of WebSocket connections to the session
    NoRun, NoConn,
    DesktopBridge, \* a start may be suspended while it clears the desktop's stop
    Heartbeat,    \* the gateway's heartbeat, which flushes the queue too
    MaxEvents,    \* bound on the events emitted for the session
    MaxPending    \* _MAX_PENDING_PER_SESSION

ASSUME ChatSessionAssumption ==
    /\ NoRun \notin Requests /\ NoConn \notin Conns /\ Heartbeat \notin Conns
    /\ DesktopBridge \in BOOLEAN
    /\ MaxEvents \in Nat /\ MaxPending \in Nat \ {0}

VARIABLES
    task,         \* the asyncio tasks of the requests
    registered,   \* _tasks: the task that an abort would cancel
    alone,        \* history: requests that had the session to themselves
    socket,       \* active_connections
    conn,         \* the WebSocket handlers and their clients
    pending,      \* _pending_events
    carried,      \* what a flush has taken off the queue and not sent yet
    emitted,      \* number of events so far; they are known by their numbers
    arrived,      \* how often a client received an event
    excused       \* events that were dropped at a full queue or sent to nobody

runVars == <<task, registered, alone>>
eventVars == <<pending, carried, emitted, arrived, excused>>
vars == <<runVars, socket, conn, eventVars>>

\* A request: "starting" between the abort of the old task and the creation of its
\* own, "queued" until the event loop runs that, "answering" and "aborting" while
\* chat.done is sent, "rethrown" between the cleanup of a control loop that a chat
\* request was routed to and the request's own.
Live == {"queued", "running", "answering", "aborting", "rethrown"}
Tasks == [pc : Live \cup {"absent", "starting"}, cancelled : BOOLEAN]
NoTask == [pc |-> "absent", cancelled |-> FALSE]

\* A handler: "greeting" until the connected event is sent, then "serving".
Handlers == [stage : {"none", "greeting", "serving"}, client : {"open", "gone"}]
NoHandler == [stage |-> "none", client |-> "gone"]

Flushers == Conns \cup {Heartbeat}
Events == 1 .. MaxEvents
Members(s) == {s[i] : i \in 1 .. Len(s)}

-----------------------------------------------------------------------------
\* Tasks.

\* Mutant of Aborted: a task that has not begun yet is left alone.
Aborted_BegunOnly ==
    IF registered = NoRun \/ task[registered].pc = "queued" THEN task
    ELSE [task EXCEPT ![registered].cancelled = TRUE]

\* abort: the registered task is told to stop, and is not registered any more.
Aborted ==
    IF registered = NoRun THEN task
    ELSE [task EXCEPT ![registered].cancelled = TRUE]

\* _start_agent_run, _start_control_loop_run: abort, clear the desktop's stop, create
\* the task and register it.  The second is a call to the desktop bridge; without a
\* bridge, or when the call fails at once, nothing else runs in between.
Registers(r) ==
    /\ registered' = r
    /\ alone' = IF \A q \in Requests \ {r} : task[q] = NoTask
                THEN alone \cup {r} ELSE alone \ {r}

StartAtOnce(r) ==
    /\ task[r].pc = "absent"
    /\ task' = [Aborted EXCEPT ![r].pc = "queued"]
    /\ Registers(r)
    /\ UNCHANGED <<socket, conn, eventVars>>

Start(r) ==
    /\ DesktopBridge
    /\ task[r].pc = "absent"
    /\ task' = [Aborted EXCEPT ![r].pc = "starting"]
    /\ registered' = NoRun
    /\ UNCHANGED <<alone, socket, conn, eventVars>>

Create(r) ==
    /\ task[r].pc = "starting"
    /\ task' = [task EXCEPT ![r].pc = "queued"]
    /\ Registers(r)
    /\ UNCHANGED <<socket, conn, eventVars>>

\* chat.abort
Abort ==
    /\ registered # NoRun
    /\ task' = Aborted
    /\ registered' = NoRun
    /\ UNCHANGED <<alone, socket, conn, eventVars>>

Goes(r, from, to) ==
    /\ task[r].pc \in from
    /\ task' = [task EXCEPT ![r].pc = to]
    /\ UNCHANGED <<registered, alone, socket, conn, eventVars>>

Begin(r) == ~task[r].cancelled /\ Goes(r, {"queued"}, "running")

\* The answer, an error or a timeout: in the transcript, and being sent.
Answer(r) == ~task[r].cancelled /\ Goes(r, {"running"}, "answering")

\* CancelledError arrives at the await: what there is goes to the transcript, and
\* chat.done is sent with aborted set.
Interrupt(r) == task[r].cancelled /\ Goes(r, {"running", "answering"}, "aborting")

\* A task that is cancelled before its first step never runs any of its code.
Dropped(r) ==
    /\ task[r] = [pc |-> "queued", cancelled |-> TRUE]
    /\ task' = [task EXCEPT ![r] = NoTask]
    /\ UNCHANGED <<registered, alone, socket, conn, eventVars>>

\* clear_task: whatever is registered for the session is forgotten.
Cleared == registered' = NoRun

\* The finally clause of a routed control loop, before the exception goes on.
InnerCleanup(r) ==
    /\ task[r].pc = "aborting"
    /\ task' = [task EXCEPT ![r].pc = "rethrown"]
    /\ Cleared
    /\ UNCHANGED <<alone, socket, conn, eventVars>>

\* The finally clause of the task.
Finish(r) ==
    /\ \/ task[r] = [pc |-> "answering", cancelled |-> FALSE]
       \/ task[r].pc \in {"aborting", "rethrown"}
    /\ task' = [task EXCEPT ![r] = NoTask]
    /\ Cleared
    /\ UNCHANGED <<alone, socket, conn, eventVars>>

-----------------------------------------------------------------------------
\* Connections and events.

\* send_json: to the session's socket, if there is one; a failure is swallowed.
Sent(e) ==
    IF socket # NoConn /\ conn[socket].client = "open"
    THEN /\ arrived' = [arrived EXCEPT ![e] = @ + 1]
         /\ UNCHANGED excused
    ELSE /\ excused' = excused \cup {e}
         /\ UNCHANGED arrived

\* A full queue loses its oldest event.
Queued(e) ==
    IF Len(pending) >= MaxPending
    THEN /\ pending' = Append(Tail(pending), e)
         /\ excused' = excused \cup {Head(pending)}
    ELSE /\ pending' = Append(pending, e)
         /\ UNCHANGED excused

\* send_or_queue_json, for approvals, task updates, session and system events.
Emit ==
    /\ emitted < MaxEvents
    /\ emitted' = emitted + 1
    /\ IF socket # NoConn
       THEN Sent(emitted + 1) /\ UNCHANGED pending
       ELSE Queued(emitted + 1) /\ UNCHANGED arrived
    /\ UNCHANGED <<runVars, socket, conn, carried>>

\* Queues of too many other sessions: this one, if it is the oldest, is dropped.
Evict ==
    /\ pending # <<>>
    /\ pending' = <<>>
    /\ excused' = excused \cup Members(pending)
    /\ UNCHANGED <<runVars, socket, conn, carried, emitted, arrived>>

\* A client connects: it is the one that events are sent to from now on.
Connect(c) ==
    /\ conn[c].stage = "none"
    /\ conn' = [conn EXCEPT ![c] = [stage |-> "greeting", client |-> "open"]]
    /\ socket' = c
    /\ UNCHANGED <<runVars, eventVars>>

\* Mutant of TakesAll: the queue is emptied only when everything was sent.
TakesAll_Later(f) ==
    /\ carried' = [carried EXCEPT ![f] = pending]
    /\ UNCHANGED pending

\* flush_pending, its first line.
TakesAll(f) ==
    /\ carried' = [carried EXCEPT ![f] = pending]
    /\ pending' = <<>>

Greet(c) ==
    /\ conn[c].stage = "greeting"
    /\ conn' = [conn EXCEPT ![c].stage = "serving"]
    /\ TakesAll(c)
    /\ UNCHANGED <<runVars, socket, emitted, arrived, excused>>

\* The heartbeat flushes the queue of every session that has a socket.
Beat ==
    /\ socket # NoConn /\ carried[Heartbeat] = <<>> /\ pending # <<>>
    /\ TakesAll(Heartbeat)
    /\ UNCHANGED <<runVars, socket, conn, emitted, arrived, excused>>

FlushOne(f) ==
    /\ carried[f] # <<>>
    /\ Sent(Head(carried[f]))
    /\ carried' = [carried EXCEPT ![f] = Tail(carried[f])]
    /\ UNCHANGED <<runVars, socket, conn, pending, emitted>>

\* The client is gone; its handler sees it when it next waits for a message.
Leave(c) ==
    /\ conn[c].client = "open"
    /\ conn' = [conn EXCEPT ![c].client = "gone"]
    /\ UNCHANGED <<runVars, socket, eventVars>>

\* disconnect, as the handler calls it: queue and task are preserved.
Disconnected == socket' = NoConn /\ UNCHANGED pending

Close(c) ==
    /\ conn[c] = [stage |-> "serving", client |-> "gone"]
    /\ carried[c] = <<>>
    /\ conn' = [conn EXCEPT ![c] = NoHandler]
    /\ Disconnected
    /\ UNCHANGED <<runVars, carried, emitted, arrived, excused>>

-----------------------------------------------------------------------------
Init ==
    /\ task = [r \in Requests |-> NoTask]
    /\ registered = NoRun /\ alone = {}
    /\ socket = NoConn
    /\ conn = [c \in Conns |-> NoHandler]
    /\ pending = <<>> /\ carried = [f \in Flushers |-> <<>>]
    /\ emitted = 0 /\ arrived = [e \in Events |-> 0] /\ excused = {}

RunStep(r) ==
    \/ StartAtOnce(r) \/ Start(r) \/ Create(r) \/ Begin(r) \/ Answer(r)
    \/ Interrupt(r) \/ Dropped(r) \/ InnerCleanup(r) \/ Finish(r)

ConnStep(c) == Connect(c) \/ Greet(c) \/ Leave(c) \/ Close(c)

Next ==
    \/ \E r \in Requests : RunStep(r)
    \/ \E c \in Conns : ConnStep(c)
    \/ \E f \in Flushers : FlushOne(f)
    \/ Abort \/ Emit \/ Evict \/ Beat

Spec == Init /\ [][Next]_vars

-----------------------------------------------------------------------------
TypeOK ==
    /\ task \in [Requests -> Tasks]
    /\ registered \in Requests \cup {NoRun}
    /\ alone \subseteq Requests
    /\ socket \in Conns \cup {NoConn}
    /\ conn \in [Conns -> Handlers]
    /\ pending \in Seq(Events) /\ Len(pending) <= MaxPending
    /\ carried \in [Flushers -> Seq(Events)]
    /\ emitted \in 0 .. MaxEvents
    /\ arrived \in [Events -> Nat]
    /\ excused \subseteq Events

\* LoneRunIsReachable: a run that had the session to itself when it was created can
\* be aborted as long as it works, whatever becomes of clients and later requests.
LoneRunIsReachable ==
    \A r \in alone :
        task[r].pc \in {"queued", "running", "answering"} /\ ~task[r].cancelled
            => registered = r

\* OneRunAtATime: "Abort existing task then start a new agent run" (server.py:2457):
\* no two runs of a session work that were not told to stop.
Working(r) == task[r].pc \in {"running", "answering"} /\ ~task[r].cancelled
OneRunAtATime == \A r, q \in Requests : Working(r) /\ Working(q) => r = q

\* SentOnce: no client receives an event twice, though the queue may be flushed by
\* several handlers and the heartbeat at the same time (server.py, flush_pending).
SentOnce == \A e \in Events : arrived[e] <= 1

\* NoneLost: an event was received, waits in the queue or in a flush, or was
\* lost at a full queue or to a socket whose client was gone; reconnecting and
\* disconnecting lose none that was queued.
NoneLost ==
    \A e \in 1 .. emitted :
        \/ arrived[e] > 0 \/ e \in excused \/ e \in Members(pending)
        \/ \E f \in Flushers : e \in Members(carried[f])

\* EventsAccounted: reconnecting neither doubles an event nor loses one that was queued.
EventsAccounted == SentOnce /\ NoneLost

=============================================================================
