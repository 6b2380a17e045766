------------------------------ MODULE GatewayRuns ------------------------------
(***************************************************************************)
(* What a request to the gateway does between its start, which ChatSession *)
(* models, and its answer: the route it takes, the control loop it may     *)
(* enter (abstracted to what it leaves behind; ControlLoop has the rest),  *)
(* the task record it works on, and what the transcript and the client     *)
(* are told.  chat.abort can meet it at every await, and the gateway may   *)
(* stop.                                                                   *)
(***************************************************************************)
EXTENDS Naturals, Sequences

CONSTANTS
    Asks,        \* slots of requests of one session, also the names of their goals and records
    NoAsk,
    MaxStops     \* bound on restarts of the gateway

ASSUME GatewayRunsAssumption == NoAsk \notin Asks /\ MaxStops \in Nat

VARIABLES
    work,        \* the requests
    record,      \* status of the control-loop records
    approvalOf,  \* the approval a record's result asks for
    held,        \* the goal of an unfinished workflow of the session
    waiting,     \* the approval that workflow waits for
    shown,       \* approvals the client was sent
    entries,     \* of a request: its assistant entries of the transcript
    told,        \* of a request: its chat.done events, or its HTTP response
    orphaned,    \* history: records whose run was cut off, whose approval was refused or lost
    stops

gatewayVars == <<work, record, approvalOf, held, waiting, shown, entries, told, orphaned, stops>>

\* chat.send, control.run, an approved plan, POST /run, POST /control-loop/run.
Kinds == {"chat", "control", "resume", "post", "post_control"}
Sockets == {"chat", "control", "resume"}

\* Where a request awaits.  "entering": the browser's runtime is checked; "asking": the approval
\* is sent; "telling": the answer is sent; the last two, an aborted one.
Awaits == {"quoting", "routing", "spawning", "specialist", "prepass", "root", "entering", "loop",
           "asking", "telling", "inner_abort", "abort"}
Unborn == [kind |-> "none", at |-> "none", record |-> NoAsk, cancelled |-> FALSE]

Kind(r) == work[r].kind
At(r, points) == work[r].at \in points
Holds(r, t) == work[r].record = t /\ At(r, {"queued", "entering", "loop"})
Moves(r, at) == work' = [work EXCEPT ![r].at = at]

GatewayInit ==
    /\ work = [r \in Asks |-> Unborn]
    /\ record = [r \in Asks |-> "none"] /\ approvalOf = [r \in Asks |-> NoAsk]
    /\ held = NoAsk /\ waiting = NoAsk /\ shown = {}
    /\ entries = [r \in Asks |-> << >>] /\ told = [r \in Asks |-> << >>]
    /\ orphaned = {} /\ stops = 0

\* The runs of the socket's requests are cancelled, each at its next await.
Cancelled == [r \in Asks |-> IF Kind(r) \in Sockets /\ At(r, Awaits \cup {"queued"})
                              /\ ~At(r, {"inner_abort", "abort"})
                           THEN [work[r] EXCEPT !.cancelled = TRUE] ELSE work[r]]

Ask(r, kind) ==
    /\ Kind(r) = "none" /\ kind # "resume"
    /\ work' = [(IF kind \in Sockets THEN Cancelled ELSE work)
                   EXCEPT ![r] = [kind |-> kind, at |-> "queued", record |-> NoAsk, cancelled |-> FALSE]]
    /\ UNCHANGED <<record, approvalOf, held, waiting, shown, entries, told, orphaned, stops>>

ChatAbort ==
    /\ Cancelled # work /\ work' = Cancelled
    /\ UNCHANGED <<record, approvalOf, held, waiting, shown, entries, told, orphaned, stops>>

\* A message is a stock price, or is routed; a goal enters the control loop.
BeginAsk(r) ==
    /\ At(r, {"queued"}) /\ ~work[r].cancelled /\ Kind(r) \in {"chat", "post"}
    /\ \E at \in {"quoting", "routing"} : Moves(r, at)
    /\ UNCHANGED <<record, approvalOf, held, waiting, shown, entries, told, orphaned, stops>>

\* _select_route_for_message: by the model, or by key words when the model gives no answer.
Route(r) ==
    /\ At(r, {"routing"}) /\ ~work[r].cancelled
    /\ \E at \in {"spawning", "specialist", "prepass", "root"} : Moves(r, at)
    /\ UNCHANGED <<record, approvalOf, held, waiting, shown, entries, told, orphaned, stops>>

\* A prepass, failed or not, leads to the root agent.
Forward(r) ==
    /\ At(r, {"prepass"}) /\ ~work[r].cancelled /\ Moves(r, "root")
    /\ UNCHANGED <<record, approvalOf, held, waiting, shown, entries, told, orphaned, stops>>

Noted(r) == [entries EXCEPT ![r] = Append(@, "answer")]

\* An answer, an error or a timeout of an agent: to the transcript, then to the client.  What a
\* specialist raises ends an HTTP request without an answer.
AgentAnswers(r) ==
    /\ At(r, {"quoting", "spawning", "specialist", "prepass", "root"}) /\ ~work[r].cancelled
    /\ entries' = Noted(r)
    /\ Moves(r, "telling")
    /\ UNCHANGED <<record, approvalOf, held, waiting, shown, told, orphaned, stops>>

PostFails(r) ==
    /\ At(r, {"quoting", "spawning", "specialist"}) /\ Kind(r) = "post" /\ Moves(r, "failed")
    /\ UNCHANGED <<record, approvalOf, held, waiting, shown, entries, told, orphaned, stops>>

\* Mutant of RecordFor: a resumed plan gets a record of its own.
RecordFor_New(r) == r

\* The record of an approved plan is the one whose result asked for the approval.
RecordFor(r) == IF work[r].record # NoAsk THEN work[r].record ELSE r

\* _run_control_loop_with_task: the record is running before anything else.
EnterLoop(r) ==
    /\ \/ At(r, {"queued"}) /\ Kind(r) \in {"control", "resume", "post_control"}
       \/ At(r, {"routing"})
    /\ ~work[r].cancelled
    /\ work' = [work EXCEPT ![r].at = "entering", ![r].record = RecordFor(r)]
    /\ record' = [record EXCEPT ![RecordFor(r)] = "running"]
    /\ UNCHANGED <<approvalOf, held, waiting, shown, entries, told, orphaned, stops>>

GoalOf(r) == IF Kind(r) = "resume" THEN work[r].record ELSE r

\* The workflow starts, unless the session has an unfinished one with another goal.
StartLoop(r) ==
    /\ At(r, {"entering"}) /\ ~work[r].cancelled /\ held \in {NoAsk, GoalOf(r)}
    /\ held' = GoalOf(r) /\ Moves(r, "loop")
    /\ UNCHANGED <<record, approvalOf, waiting, shown, entries, told, orphaned, stops>>

\* The result: in the record, in the transcript, then to the client, the approval first.  (POST /run
\* sends the approval before it writes to the transcript.)
Answered(r, status, at) ==
    /\ record' = [record EXCEPT ![work[r].record] = status]
    /\ entries' = IF Kind(r) = "post" /\ at = "asking" THEN entries ELSE Noted(r)
    /\ Moves(r, at)
    /\ UNCHANGED <<shown, told, orphaned, stops>>

\* The browser is not there, or the session refuses the goal.
RefuseLoop(r) ==
    /\ At(r, {"entering"}) /\ ~work[r].cancelled
    /\ Answered(r, "failed", "telling")
    /\ UNCHANGED <<approvalOf, held, waiting>>

\* A failed run leaves its workflow finished, or in the middle when an agent raised.
FinishLoop(r, status) ==
    /\ At(r, {"loop"}) /\ ~work[r].cancelled /\ waiting # GoalOf(r)
    /\ held' \in IF status = "completed" THEN {NoAsk} ELSE {NoAsk, held}
    /\ Answered(r, status, "telling")
    /\ UNCHANGED <<approvalOf, waiting>>

AskHuman(r) ==
    /\ At(r, {"loop"}) /\ ~work[r].cancelled /\ Kind(r) # "resume"
    /\ waiting' = GoalOf(r) /\ approvalOf' = [approvalOf EXCEPT ![work[r].record] = GoalOf(r)]
    /\ Answered(r, "pending", "asking")
    /\ UNCHANGED held

\* _emit_control_approval_request
ShowApproval(r) ==
    /\ At(r, {"asking"}) /\ ~work[r].cancelled
    /\ shown' = shown \cup {work[r].record} /\ Moves(r, "telling")
    /\ entries' = IF Kind(r) = "post" THEN Noted(r) ELSE entries
    /\ UNCHANGED <<record, approvalOf, held, waiting, told, orphaned, stops>>

Tell(r) ==
    /\ At(r, {"telling"}) /\ ~work[r].cancelled
    /\ told' = [told EXCEPT ![r] = Append(@, "answer")] /\ Moves(r, "ended")
    /\ UNCHANGED <<record, approvalOf, held, waiting, shown, entries, orphaned, stops>>

\* _resolve_tool_approval_request, /control-loop/approve: the record that asks for this approval.
Asking(g) == {t \in Asks : approvalOf[t] = g /\ record[t] \in {"pending", "running"}}

Approve(g, r) ==
    /\ g \in shown /\ waiting = g /\ Kind(r) = "none" /\ \A q \in Asks : ~Holds(q, g)
    /\ waiting' = NoAsk
    /\ \E t \in IF Asking(g) = {} THEN {NoAsk} ELSE Asking(g) :
          work' = [Cancelled EXCEPT ![r] = [kind |-> "resume", at |-> "queued", record |-> t, cancelled |-> FALSE]]
    /\ UNCHANGED <<record, approvalOf, held, shown, entries, told, orphaned, stops>>

\* The record keeps its status.
Deny(g) ==
    /\ g \in shown /\ waiting = g
    /\ waiting' = NoAsk /\ held' = NoAsk /\ orphaned' = orphaned \cup {g}
    /\ UNCHANGED <<work, record, approvalOf, shown, entries, told, stops>>

CutOff(r) == orphaned' = IF Holds(r, work[r].record) THEN orphaned \cup {work[r].record} ELSE orphaned

\* A task that is cancelled before its first step runs none of its code.
Drop(r) ==
    /\ At(r, {"queued"}) /\ work[r].cancelled /\ CutOff(r) /\ Moves(r, "dropped")
    /\ UNCHANGED <<record, approvalOf, held, waiting, shown, entries, told, stops>>

\* Mutant of Rethrown: the control loop's handler ends the request, also one that was routed there.
Rethrown_Swallowed(r) == "ended"

\* The exception goes on to the handler of the chat request that was routed to the loop.
Rethrown(r) == IF Kind(r) = "chat" THEN "abort" ELSE "ended"

InLoop(r) == Kind(r) # "chat" \/ work[r].record # NoAsk

\* CancelledError at an await.  The control loop leaves its record and its workflow as they are and
\* writes no entry; a chat request writes what it has, marked.
InterruptAsk(r) ==
    /\ At(r, Awaits) /\ work[r].cancelled /\ CutOff(r)
    /\ work' = [work EXCEPT ![r].at = IF InLoop(r) THEN "inner_abort" ELSE "abort", ![r].cancelled = FALSE]
    /\ entries' = IF InLoop(r) THEN entries ELSE [entries EXCEPT ![r] = Append(@, "aborted")]
    /\ UNCHANGED <<record, approvalOf, held, waiting, shown, told, stops>>

InnerAborted(r) ==
    /\ At(r, {"inner_abort"}) /\ ~work[r].cancelled
    /\ told' = [told EXCEPT ![r] = Append(@, "aborted")]
    /\ Moves(r, Rethrown(r))
    /\ entries' = IF Rethrown(r) = "abort" THEN [entries EXCEPT ![r] = Append(@, "aborted")] ELSE entries
    /\ UNCHANGED <<record, approvalOf, held, waiting, shown, orphaned, stops>>

TellAborted(r) ==
    /\ At(r, {"abort"})
    /\ told' = [told EXCEPT ![r] = Append(@, "aborted")] /\ Moves(r, "ended")
    /\ UNCHANGED <<record, approvalOf, held, waiting, shown, entries, orphaned, stops>>

\* Records and transcript are on disk; the workflow's session is in memory.
GatewayStops ==
    /\ stops < MaxStops /\ stops' = stops + 1
    /\ work' = [r \in Asks |-> IF Kind(r) = "none" \/ At(r, {"ended", "failed", "dropped"}) THEN work[r]
                               ELSE [work[r] EXCEPT !.at = "lost", !.cancelled = FALSE]]
    /\ orphaned' = orphaned \cup {t \in Asks : record[t] \in {"running", "pending"}}
    /\ held' = NoAsk /\ waiting' = NoAsk
    /\ UNCHANGED <<record, approvalOf, shown, entries, told>>

GatewayNext ==
    \/ \E r \in Asks :
          \/ \E kind \in Kinds : Ask(r, kind)
          \/ BeginAsk(r) \/ Route(r) \/ Forward(r) \/ AgentAnswers(r) \/ PostFails(r)
          \/ EnterLoop(r) \/ StartLoop(r) \/ RefuseLoop(r) \/ AskHuman(r) \/ ShowApproval(r) \/ Tell(r)
          \/ \E status \in {"completed", "failed"} : FinishLoop(r, status)
          \/ Drop(r) \/ InterruptAsk(r) \/ InnerAborted(r) \/ TellAborted(r)
          \/ \E g \in Asks : Approve(g, r)
    \/ \E g \in Asks : Deny(g)
    \/ ChatAbort \/ GatewayStops

GatewaySpec == GatewayInit /\ [][GatewayNext]_gatewayVars

-----------------------------------------------------------------------------
\* The record of a control-loop run tells how it stands with it: a record that is running has a run
\* that works on it, and only one, and one that is pending a workflow that waits for its approval or
\* a run that is about to take it up; unless the run was cut off by an abort or a restart or the
\* approval refused, which all leave the record as it was.
RecordsFollowRuns ==
    \A t \in Asks :
        /\ record[t] = "running" /\ t \notin orphaned => \E r \in Asks : Holds(r, t)
        /\ record[t] = "pending" /\ t \notin orphaned => waiting = t \/ \E r \in Asks : Holds(r, t)
        /\ \A q, r \in Asks : Holds(q, t) /\ Holds(r, t) => q = r
        /\ \A r \in Asks : work[r].record = t /\ At(r, {"entering", "loop"}) => record[t] = "running"

\* What the client was told last about a chat message is what the transcript will show of it when the
\* page is loaded again: an answer, or the mark of an abort, wherever the abort met the request and
\* also when it was routed into the control loop.
TranscriptAgrees ==
    \A r \in Asks :
        Kind(r) \in {"chat", "post"} /\ At(r, {"ended"}) =>
            /\ entries[r] # << >> /\ told[r] # << >>
            /\ entries[r][Len(entries[r])] = told[r][Len(told[r])]

=============================================================================
