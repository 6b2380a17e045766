---------------------------- MODULE DesktopStop ----------------------------
(***************************************************************************)
(* Desktop tools of the runs of several sessions, and the emergency stop   *)
(* of the desktop they share.  With the desktop bridge every call is a     *)
(* request to another process, which may arrive after its run was          *)
(* cancelled; without it a call is executed inside the gateway.            *)
(***************************************************************************)
EXTENDS Naturals

CONSTANTS
    Users,      \* sessions
    Controls,   \* control calls: clicks, text, keys, scrolling, windows, applications
    NoRun,
    MaxRuns     \* bound, of one session

VARIABLES
    bridged,    \* desktop_bridge_enabled
    stopped,    \* the flag, in the process that executes
    handler,       \* of a session: what its handler in the gateway is doing
    current,    \* of a session: the run registered last, and whether it is alive
    action,     \* of a control call: where it is, and its run
    clearing,   \* runs whose desktop_runtime_clear_stop waits for approval
    quiet,      \* history: aborted runs whose stop was set and not lifted since
    late        \* history: calls executed for a quiet run

stopVars == <<bridged, stopped, handler, current, action, clearing, quiet, late>>

StopInit ==
    /\ bridged \in BOOLEAN /\ stopped = FALSE
    /\ handler = [s \in Users |-> "idle"]
    /\ current = [s \in Users |-> [number |-> 0, alive |-> FALSE]]
    /\ action = [a \in Controls |-> [at |-> "none", run |-> NoRun]]
    /\ clearing = {} /\ quiet = {} /\ late = {}

RunOf(s) == <<s, current[s].number>>

\* The task is cancelled; what it has sent to another process stays on its way.
Cancelled(s) == [a \in Controls |-> IF action[a].run = RunOf(s) /\ action[a].at \in {"approving", "starting"}
                                   THEN [action[a] EXCEPT !.at = "cancelled"] ELSE action[a]]

\* _start_agent_run, _start_control_loop_run: the old run is aborted, the stop is lifted.
StartRun(s) ==
    /\ handler[s] = "idle" /\ current[s].number < MaxRuns
    /\ handler' = [handler EXCEPT ![s] = "lifting"]
    /\ current' = [current EXCEPT ![s].alive = FALSE]
    /\ action' = Cancelled(s) /\ clearing' = clearing \ {RunOf(s)}
    /\ UNCHANGED <<bridged, stopped, quiet, late>>

\* The run starts whether the stop could be lifted or not; without the bridge nobody asks.
RunStarts(s, lifted) ==
    /\ handler[s] = "lifting" /\ (lifted => bridged)
    /\ handler' = [handler EXCEPT ![s] = "idle"]
    /\ current' = [current EXCEPT ![s] = [number |-> @.number + 1, alive |-> TRUE]]
    /\ stopped' = (stopped /\ ~lifted)
    /\ quiet' = IF lifted THEN {} ELSE quiet
    /\ UNCHANGED <<bridged, action, clearing, late>>

\* chat.abort: the run is cancelled, then the desktop is stopped, even when there was no run.
AbortRun(s) ==
    /\ handler[s] = "idle"
    /\ handler' = [handler EXCEPT ![s] = "stopping"]
    /\ current' = [current EXCEPT ![s].alive = FALSE]
    /\ action' = Cancelled(s) /\ clearing' = clearing \ {RunOf(s)}
    /\ UNCHANGED <<bridged, stopped, quiet, late>>

\* A stop that cannot be delivered is only logged.
StopEnds(s, set) ==
    /\ handler[s] = "stopping" /\ (set => bridged)
    /\ handler' = [handler EXCEPT ![s] = "idle"]
    /\ stopped' = (stopped \/ set)
    /\ quiet' = IF set THEN quiet \cup {RunOf(s)} ELSE quiet
    /\ UNCHANGED <<bridged, current, action, clearing, late>>

RunEnds(s) ==
    /\ current[s].alive
    /\ current' = [current EXCEPT ![s].alive = FALSE]
    /\ \A a \in Controls : action[a].run = RunOf(s) => action[a].at \notin {"approving", "starting", "flying"}
    /\ UNCHANGED <<bridged, stopped, handler, action, clearing, quiet, late>>

\* _check_desktop_policy: every control tool waits for its approval.
AskFor(a, s) ==
    /\ action[a].at = "none" /\ current[s].alive
    /\ action' = [action EXCEPT ![a] = [at |-> "approving", run |-> RunOf(s)]]
    /\ UNCHANGED <<bridged, stopped, handler, current, clearing, quiet, late>>

Approve(a, granted) ==
    /\ action[a].at = "approving"
    /\ action' = [action EXCEPT ![a].at = IF granted THEN "starting" ELSE "denied"]
    /\ UNCHANGED <<bridged, stopped, handler, current, clearing, quiet, late>>

\* execute_desktop_call: the start is announced, then the call is sent.
Send(a) ==
    /\ action[a].at = "starting" /\ bridged
    /\ action' = [action EXCEPT ![a].at = "flying"]
    /\ UNCHANGED <<bridged, stopped, handler, current, clearing, quiet, late>>

\* Mutant of Blocked: only a call without the bridge looks at the flag.
Blocked_Local(a) == stopped /\ ~bridged

\* _blocked_control_result: the flag as it is when the call is executed.
Blocked(a) == stopped

\* From the check to the last event that is posted, a control call does not await.
Execute(a) ==
    /\ action[a].at = IF bridged THEN "flying" ELSE "starting"
    /\ action' = [action EXCEPT ![a].at = IF Blocked(a) THEN "blocked" ELSE "executed"]
    /\ late' = IF ~Blocked(a) /\ action[a].run \in quiet THEN late \cup {a} ELSE late
    /\ UNCHANGED <<bridged, stopped, handler, current, clearing, quiet>>

\* The connection breaks before the call arrives.
SendFails(a) ==
    /\ action[a].at = "flying"
    /\ action' = [action EXCEPT ![a].at = "failed"]
    /\ UNCHANGED <<bridged, stopped, handler, current, clearing, quiet, late>>

\* desktop_runtime_stop is allowed without asking.
StopByTool(s) ==
    /\ current[s].alive /\ stopped' = TRUE
    /\ UNCHANGED <<bridged, handler, current, action, clearing, quiet, late>>

\* desktop_runtime_clear_stop waits for approval.
AskToClear(s) ==
    /\ current[s].alive /\ RunOf(s) \notin clearing
    /\ clearing' = clearing \cup {RunOf(s)}
    /\ UNCHANGED <<bridged, stopped, handler, current, action, quiet, late>>

ClearByTool(r, granted) ==
    /\ r \in clearing /\ clearing' = clearing \ {r}
    /\ stopped' = (stopped /\ ~granted)
    /\ quiet' = IF granted THEN {} ELSE quiet
    /\ UNCHANGED <<bridged, handler, current, action, late>>

StopNext ==
    \/ \E s \in Users : \/ StartRun(s) \/ AbortRun(s) \/ RunEnds(s) \/ StopByTool(s) \/ AskToClear(s)
                        \/ \E b \in BOOLEAN : RunStarts(s, b) \/ StopEnds(s, b)
                        \/ \E a \in Controls : AskFor(a, s)
    \/ \E a \in Controls : Send(a) \/ Execute(a) \/ SendFails(a) \/ (\E b \in BOOLEAN : Approve(a, b))
    \/ \E r \in clearing, b \in BOOLEAN : ClearByTool(r, b)

StopSpec == StopInit /\ [][StopNext]_stopVars

-----------------------------------------------------------------------------
\* Once an abort has stopped the desktop, nothing that the aborted run has asked for is done any
\* more, approved or on its way, unless the stop is lifted: by an approved tool call, or by the
\* next run of any session.  Without the bridge a call is done for a run that is alive, or not at all.
AbortedRunsAreQuiet ==
    /\ late = {}
    /\ ~bridged => \A s \in Users, a \in Controls :
                      action[a].at = "starting" => current[action[a].run[1]] = [number |-> action[a].run[2], alive |-> TRUE]

=============================================================================
