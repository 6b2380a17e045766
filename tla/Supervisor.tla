------------------------------ MODULE Supervisor ------------------------------
(***************************************************************************)
(* One mission under ControlLoopSupervisor                                 *)
(* (src/src/gateway/control_supervisor.py): the runner coroutine that      *)
(* takes scheduler entries, runs a child control loop for each and records *)
(* what it returned; the durable task record it writes; the operator's     *)
(* graceful stop; the gateway's shutdown, its crash, and its start-up      *)
(* resume.                                                                 *)
(*                                                                         *)
(* Nodes of the mission graph are the numbers 1 .. N in the order of their *)
(* scheduler entry ids (the code breaks ties by entry id).  Time is a      *)
(* clock of abstract ticks; the mission is created at tick 0.  A retryAt   *)
(* of 0 stands for available_at = None: both mean "due now".               *)
(*                                                                         *)
(* The event loop is single threaded: only the program counters in         *)
(* YieldPoints are awaits, so only there may another coroutine (stop,      *)
(* shutdown) run.  A crash of the process may fall between any two steps.  *)
(***************************************************************************)
EXTENDS MissionPolicy, FiniteSets

CONSTANTS
    N,                    \* number of nodes of the mission graph
    DependsOn,            \* DependsOn[n]: the nodes n waits for
    FailureTypes,         \* the failure types a child run may be classified as
    Evidence,             \* how many evidence refs a child run may leave
    Ladder,               \* the mission's normalized recovery ladder
    MaxRetriesPerStep,    \* recovery_policy.max_retries_per_step
    AbortConditions,      \* the typed abort conditions of the contract
    MaxIterations,        \* max_iterations of the supervisor
    Interval,             \* interval_seconds, in ticks
    EndsAt,               \* ends_at, in ticks
    HourTicks,            \* ticks in the hour the runtime budget counts
    MaxRuntimeHours, MaxLlmCalls, MaxToolCalls,
    MaxSameFailureRetries, MaxRepairDepth, MaxPendingApprovals,
    MaxClock,             \* bound: the clock stops here
    MaxCrashes,           \* bound: process crashes in a behaviour
    MaxShutdowns,         \* bound: orderly shutdowns in a behaviour
    NotifyMayFail         \* whether emitting a session event may raise

Nodes == 1 .. N

AbortTypes == {"human_approval_required", "guardrail_budget_exhausted",
               "current_tab_connection_unavailable"}

ASSUME SupervisorAssumption ==
    /\ N \in Nat \ {0}
    /\ DependsOn \in [Nodes -> SUBSET Nodes]
    /\ NoFailure \notin FailureTypes
    /\ Evidence \subseteq Nat
    /\ Ladder \in Seq(LadderSteps) /\ Ladder # << >>
    /\ AbortConditions \subseteq AbortTypes
    /\ MaxRetriesPerStep \in Nat
    /\ MaxIterations \in Nat \ {0}
    /\ Interval \in Nat /\ EndsAt \in Nat \ {0} /\ HourTicks \in Nat \ {0}
    /\ MaxRuntimeHours \in Nat /\ MaxLlmCalls \in Nat /\ MaxToolCalls \in Nat
    /\ MaxSameFailureRetries \in Nat /\ MaxRepairDepth \in Nat
    /\ MaxPendingApprovals \in Nat
    /\ MaxClock \in Nat /\ MaxCrashes \in Nat /\ MaxShutdowns \in Nat
    /\ NotifyMayFail \in BOOLEAN

VARIABLES
    clock,     \* time.time()
    up,        \* the gateway process is running
    status,    \* task record: status
    stopSaved, \* task record: artifacts.progress.stop_requested
    saved,     \* task record: durable_execution and completed_iterations
    pc,        \* where the runner coroutine is; "none": no live handle
    rt,        \* the runner's runtime_state and completed_iterations
    cur,       \* runtime_state["node_id"]; 0 before the first selection
    wake,      \* when the wait the runner is in times out
    stopEv,    \* the handle's stop_requested event
    report,    \* what the last recorded iteration told the runner to do
    granted,   \* history: RETRY_LATER decisions taken, per failure type
    triage,    \* history: nodes a decision of the runner blocked
    aborted,   \* history: an abort condition of the contract matched
    crashes, shutdowns

record == <<status, stopSaved, saved>>
runner == <<pc, rt, cur, wake, stopEv, report>>
history == <<granted, triage, aborted>>
faults == <<crashes, shutdowns>>
vars == <<clock, up, status, stopSaved, saved, pc, rt, cur, wake, stopEv,
          report, granted, triage, aborted, crashes, shutdowns>>

TaskStatuses == {"running", "pending", "blocked", "failed", "cancelled",
                 "completed"}
YieldPoints == {"begin", "due", "child", "pause", "notify"}
PCs == YieldPoints \cup {"none", "loop", "recorded"}

\* runtime_state: the nodes' status, queue and next_retry_at; the scheduler
\* queue each node has its entry in; the budget counters; and the number of
\* completed iterations, which the record keeps beside it.
RuntimeStates ==
    [status  : [Nodes -> NodeStatuses],
     queue   : [Nodes -> Queues],
     retryAt : [Nodes -> Nat],
     entry   : [Nodes -> Queues \cup {"dropped"}],
     retries : [FailureTypes -> Nat],
     llm     : Nat, tools : Nat, repair : Nat, pending : Nat,
     done    : Nat]

Results == [failure : FailureTypes \cup {NoFailure}, success : BOOLEAN,
            tabLost : BOOLEAN, evidence : Evidence]

Reports == [queue : Queues, abort : BOOLEAN]

-----------------------------------------------------------------------------
\* _mission_graph_nodes, _initial_scheduler_queue_state and
\* _initial_runtime_state: a node without dependencies is ready, any other is
\* blocked until they complete.
InitialQueue == [n \in Nodes |-> IF DependsOn[n] = {} THEN "ready" ELSE "blocked"]

InitialRuntimeState ==
    [status  |-> InitialQueue,
     queue   |-> InitialQueue,
     retryAt |-> [n \in Nodes |-> 0],
     entry   |-> InitialQueue,
     retries |-> [f \in FailureTypes |-> 0],
     llm |-> 0, tools |-> 0, repair |-> 0, pending |-> 0,
     done |-> 0]

IsMultiNode == N > 1

-----------------------------------------------------------------------------
\* _scheduler_entry_skip_reason: entries that are dropped, never taken.
Stale(g, n) ==
    /\ g.entry[n] \in ActionableQueues
    /\ \/ g.status[n] = "done"
       \/ g.status[n] = "blocked" /\ g.entry[n] = "ready"

FreshEntries(g) ==
    [n \in Nodes |-> IF Stale(g, n) THEN "dropped" ELSE g.entry[n]]

DropStale(g) == [g EXCEPT !.entry = FreshEntries(g)]

Candidates(g) == {n \in Nodes : g.entry[n] \in ActionableQueues /\ ~Stale(g, n)}

QueuePriority(q) == CASE q = "ready" -> 0 [] q = "retry_later" -> 1 [] OTHER -> 2

\* The sort keys of _select_scheduler_entry: queue priority then time among
\* the due entries, time then queue priority among the future ones.
DueBefore(g, n, m) ==
    LET p == QueuePriority(g.entry[n])
        q == QueuePriority(g.entry[m])
    IN  \/ p < q
        \/ p = q /\ g.retryAt[n] < g.retryAt[m]
        \/ p = q /\ g.retryAt[n] = g.retryAt[m] /\ n <= m

SoonerThan(g, n, m) ==
    LET p == QueuePriority(g.entry[n])
        q == QueuePriority(g.entry[m])
    IN  \/ g.retryAt[n] < g.retryAt[m]
        \/ g.retryAt[n] = g.retryAt[m] /\ p < q
        \/ g.retryAt[n] = g.retryAt[m] /\ p = q /\ n <= m

\* _select_scheduler_entry: sel is the node whose entry the worker takes at
\* time now, 0 if there is none.
Selects(g, now, sel) ==
    LET due == {n \in Candidates(g) : g.retryAt[n] <= now}
    IN  \/ sel \in due /\ \A m \in due : DueBefore(g, sel, m)
        \/ /\ due = {} /\ sel \in Candidates(g)
           /\ \A m \in Candidates(g) : SoonerThan(g, sel, m)
        \/ Candidates(g) = {} /\ sel = 0

-----------------------------------------------------------------------------
\* The chain of decisions _record_runtime_iteration makes about the node that
\* ran, before it touches the graph.
MinOf(a, b) == IF a <= b THEN a ELSE b
MaxOf(a, b) == IF a >= b THEN a ELSE b

HoursUsed == MaxOf(1, (clock + HourTicks - 1) \div HourTicks)
HasMoreIterations == rt.done + 1 < MaxIterations /\ clock < EndsAt
NextRunAt == IF HasMoreIterations THEN MinOf(EndsAt, clock + Interval) ELSE 0
RetryCount(r) == IF r.failure = NoFailure THEN 0 ELSE rt.retries[r.failure]

\* The ladder step and the queue chosen before the budgets are looked at.
Recovery(r) ==
    IF r.failure = NoFailure
    THEN [step   |-> NoStep,
          action |-> NoAction,
          queue  |-> IF ~IsMultiNode /\ HasMoreIterations
                     THEN "periodic_check" ELSE "completed"]
    ELSE LET policy == RecoveryPolicyFor(r.failure)
             step   == SelectLadderStep(PreferredStep(policy.action), Ladder,
                                        RetryCount(r), MaxRetriesPerStep)
         IN  [step   |-> step,
              action |-> ActionForStep(step, policy.action),
              queue  |-> QueueForStep(step, policy.queue)]

LlmCallsAfter(r) == rt.llm + 1
ToolCallsAfter(r) ==
    rt.tools + MaxOf(1, r.evidence)
             + (IF r.failure = NoFailure THEN 0 ELSE RecoveryPolicyFor(r.failure).tools)
RepairDepthAfter(r) == rt.repair + RepairIncrement(Recovery(r).action)

\* budget_exhaustion_reasons, and the pending-approval check that follows it.
BudgetExhausted(r) ==
    LET queue == Recovery(r).queue IN
    \/ HoursUsed > MaxRuntimeHours
    \/ LlmCallsAfter(r) > MaxLlmCalls
    \/ ToolCallsAfter(r) > MaxToolCalls
    \/ RepairDepthAfter(r) > MaxRepairDepth
    \/ rt.pending > MaxPendingApprovals
    \/ /\ queue = "retry_later"
       /\ RetryCount(r) >= MaxSameFailureRetries
    \/ /\ queue = "waiting_for_approval"
       /\ rt.pending + 1 > MaxPendingApprovals

\* Mutant of QueueWithinBudget: an exhausted budget is only reported.
QueueWithinBudget_Unenforced(r) == Recovery(r).queue

\* The queue once the budgets are looked at: an exhausted one blocks the node.
QueueWithinBudget(r) ==
    IF BudgetExhausted(r) THEN "blocked" ELSE Recovery(r).queue

\* _mission_contract_abort_reason
AbortReason(r) ==
    \/ /\ "human_approval_required" \in AbortConditions
       /\ QueueWithinBudget(r) = "waiting_for_approval"
    \/ /\ "guardrail_budget_exhausted" \in AbortConditions
       /\ BudgetExhausted(r)
    \/ /\ "current_tab_connection_unavailable" \in AbortConditions
       /\ ~r.success /\ r.tabLost

NodeQueue(r) == IF AbortReason(r) THEN "blocked" ELSE QueueWithinBudget(r)

\* _available_at_for_queue
AvailableAt(queue) ==
    IF queue \in {"retry_later", "periodic_check"} THEN NextRunAt ELSE 0

\* Mutant of DependencyReady: one completed dependency is enough.
DependencyReady_AnyDependency(status_, queue_) ==
    LET completed == {n \in Nodes : status_[n] = "done" \/ queue_[n] = "completed"}
    IN  {n \in Nodes : /\ status_[n] = "blocked" /\ queue_[n] = "blocked"
                       /\ DependsOn[n] \cap completed # {}}

\* _dependency_ready_nodes: blocked nodes all of whose dependencies completed.
DependencyReady(status_, queue_) ==
    LET completed == {n \in Nodes : status_[n] = "done" \/ queue_[n] = "completed"}
    IN  {n \in Nodes : /\ DependsOn[n] # {}
                       /\ status_[n] = "blocked" /\ queue_[n] = "blocked"
                       /\ DependsOn[n] \subseteq completed}

\* runtime_state after the iteration on node cur returned r: the node's own
\* fields, then the nodes its success releases, then the queue state rebuilt
\* from every node (the node that ran keeps the queue decided for it, even
\* when the release just made it ready again).
Recorded(r) ==
    LET queue    == NodeQueue(r)
        ran      == [rt.status EXCEPT ![cur] = NodeStatusFor(queue)]
        queued   == [rt.queue EXCEPT ![cur] = queue]
        released == IF IsMultiNode /\ r.success /\ r.failure = NoFailure
                    THEN DependencyReady(ran, queued) ELSE {}
        queues   == [n \in Nodes |-> IF n \in released THEN "ready" ELSE queued[n]]
    IN  [status  |-> [n \in Nodes |-> IF n \in released THEN "ready" ELSE ran[n]],
         queue   |-> queues,
         retryAt |-> [rt.retryAt EXCEPT ![cur] = AvailableAt(queue)],
         entry   |-> [queues EXCEPT ![cur] = queue],
         retries |-> [f \in FailureTypes |->
                        IF f = r.failure THEN rt.retries[f] + 1 ELSE rt.retries[f]],
         llm     |-> LlmCallsAfter(r),
         tools   |-> ToolCallsAfter(r),
         repair  |-> RepairDepthAfter(r),
         pending |-> rt.pending + (IF queue = "waiting_for_approval" THEN 1 ELSE 0),
         done    |-> rt.done + 1]

\* Mutant of WorkerNextQueue: the queue of the node that ran goes first.
WorkerNextQueue_OwnNodeFirst(g, sel, nodeQueue) ==
    IF nodeQueue # "completed" THEN nodeQueue
    ELSE IF sel # 0 THEN g.entry[sel] ELSE "completed"

\* worker_next_queue: what the runner does next, given the entry selected.
WorkerNextQueue(g, sel, nodeQueue) ==
    IF sel # 0 THEN g.entry[sel]
    ELSE IF nodeQueue # "completed" THEN nodeQueue
    ELSE IF \A n \in Nodes : g.status[n] = "done" THEN "completed"
    ELSE IF \E n \in Nodes : g.queue[n] = "waiting_for_approval"
    THEN "waiting_for_approval"
    ELSE "blocked"

-----------------------------------------------------------------------------
\* start: the task record is created running with the initial durable state,
\* and the runner coroutine is scheduled.
Init ==
    /\ clock = 0 /\ up = TRUE
    /\ status = "running" /\ stopSaved = FALSE
    /\ saved = InitialRuntimeState
    /\ pc = "begin" /\ rt = InitialRuntimeState
    /\ cur = 0 /\ wake = 0 /\ stopEv = FALSE
    /\ report = [queue |-> "ready", abort |-> FALSE]
    /\ granted = [f \in FailureTypes |-> 0] /\ triage = {} /\ aborted = FALSE
    /\ crashes = 0 /\ shutdowns = 0

\* The runner writes a final status and then awaits the session event.
Finish(finalStatus) ==
    /\ status' = finalStatus
    /\ saved' = rt
    /\ pc' = "notify"
    /\ UNCHANGED <<clock, up, stopSaved, rt, cur, wake, stopEv, report,
                   history, faults>>

\* _finish_cancelled
FinishCancelled ==
    /\ status' = "cancelled"
    /\ stopSaved' = TRUE
    /\ pc' = "notify"
    /\ UNCHANGED <<clock, up, saved, rt, cur, wake, stopEv, report, history,
                   faults>>

Goto(l) ==
    /\ pc' = l
    /\ UNCHANGED <<clock, up, record, rt, cur, wake, stopEv, report, history,
                   faults>>

\* The runner coroutine gets its first turn.
Begin == pc = "begin" /\ Goto("loop")

\* The checks at the head of the loop, before anything is selected.
LoopExhausted == pc = "loop" /\ rt.done >= MaxIterations /\ Finish("completed")

LoopStopped ==
    /\ pc = "loop" /\ rt.done < MaxIterations
    /\ stopEv
    /\ FinishCancelled

LoopDeadline ==
    /\ pc = "loop" /\ rt.done < MaxIterations /\ ~stopEv
    /\ clock >= EndsAt /\ rt.done > 0
    /\ Finish("completed")

\* Mutant of MaySelect: the iteration range is one too long.
MaySelect_OneIterationMore ==
    /\ pc = "loop" /\ rt.done <= MaxIterations /\ ~stopEv
    /\ clock < EndsAt \/ rt.done = 0

\* Past the checks: the heartbeat is written and an entry is selected.
MaySelect ==
    /\ pc = "loop" /\ rt.done < MaxIterations /\ ~stopEv
    /\ clock < EndsAt \/ rt.done = 0

\* No entry is left to act on: scheduler_worker_noop, then the loop ends as a
\* completed mission.
SelectNothing ==
    /\ MaySelect
    /\ Selects(rt, clock, 0)
    /\ rt' = DropStale(rt)
    /\ saved' = DropStale(rt)
    /\ status' = "completed"
    /\ pc' = "notify"
    /\ UNCHANGED <<clock, up, stopSaved, cur, wake, stopEv, report,
                   history, faults>>

\* The entry is not due yet: wait for it or for a stop.
SelectFuture ==
    /\ MaySelect
    /\ \E n \in Nodes :
         /\ Selects(rt, clock, n)
         /\ rt.retryAt[n] > clock
         /\ cur' = n
         /\ wake' = rt.retryAt[n]
    /\ rt' = DropStale(rt)
    /\ saved' = DropStale(rt)
    /\ pc' = "due"
    /\ UNCHANGED <<clock, up, status, stopSaved, stopEv, report,
                   history, faults>>

\* The entry is due: run a child control loop for its node.  The heartbeat
\* wrote the runtime state before the selection.
SelectDue ==
    /\ MaySelect
    /\ \E n \in Nodes :
         /\ Selects(rt, clock, n)
         /\ rt.retryAt[n] <= clock
         /\ cur' = n
    /\ rt' = DropStale(rt)
    /\ saved' = rt
    /\ pc' = "child"
    /\ UNCHANGED <<clock, up, status, stopSaved, wake, stopEv, report,
                   history, faults>>

DueStopped == pc = "due" /\ stopEv /\ FinishCancelled

\* The wait timed out.  A stop that arrives after the timer fired is not seen
\* here: the child still starts.
DueTimeout == pc = "due" /\ clock >= wake /\ Goto("child")

\* The child control loop returned (or raised, which is classified as a
\* failure): _record_runtime_iteration, then the record is updated.
ChildReturns(r) ==
    /\ pc = "child"
    /\ r.failure = NoFailure => r.success
    /\ \E sel \in Nodes \cup {0} :
         LET g == Recorded(r) IN
         /\ Selects(g, clock, sel)
         /\ rt' = DropStale(g)
         /\ saved' = DropStale(g)
         /\ report' = [queue |-> WorkerNextQueue(g, sel, NodeQueue(r)),
                       abort |-> AbortReason(r)]
         /\ cur' = IF sel # 0 THEN sel ELSE cur
    /\ wake' = IF HasMoreIterations THEN NextRunAt ELSE clock
    /\ granted' = [f \in FailureTypes |->
                     IF f = r.failure /\ NodeQueue(r) = "retry_later"
                     THEN granted[f] + 1 ELSE granted[f]]
    /\ triage' = IF NodeQueue(r) = "blocked" THEN triage \cup {cur} ELSE triage
    /\ aborted' = (aborted \/ AbortReason(r))
    /\ pc' = "recorded"
    /\ UNCHANGED <<clock, up, status, stopSaved, stopEv, faults>>

\* What the runner does with the report, in the order of its tests.
FinishWaitingForApproval ==
    /\ pc = "recorded"
    /\ report.queue = "waiting_for_approval"
    /\ Finish("pending")

FinishMissionAborted ==
    /\ pc = "recorded"
    /\ report.queue # "waiting_for_approval" /\ report.abort
    /\ Finish("failed")

FinishRuntimeBlocked ==
    /\ pc = "recorded" /\ ~report.abort
    /\ report.queue = "blocked"
    /\ Finish("blocked")

FinishCompleted ==
    /\ pc = "recorded" /\ ~report.abort
    /\ report.queue \notin {"waiting_for_approval", "blocked"}
    /\ \/ report.queue = "completed"
       \/ rt.done >= MaxIterations
       \/ clock >= EndsAt
    /\ Finish("completed")

\* Another iteration will run: heartbeat, then _wait_for_stop_or_timeout, at
\* once if a ready node is selected.
NextIteration ==
    /\ pc = "recorded" /\ ~report.abort
    /\ report.queue \in ActionableQueues
    /\ rt.done < MaxIterations /\ clock < EndsAt

ContinueAt == IF report.queue = "ready" THEN clock ELSE wake

ContinueStopped == NextIteration /\ stopEv /\ FinishCancelled

ContinueNow ==
    /\ NextIteration /\ ~stopEv
    /\ ContinueAt <= clock
    /\ Goto("loop")

ContinueLater ==
    /\ NextIteration /\ ~stopEv
    /\ ContinueAt > clock
    /\ Goto("pause")

PauseStopped == pc = "pause" /\ stopEv /\ FinishCancelled

\* Mutant of PauseTimeout: the wait is for the stop event alone.
PauseTimeout_NoTimer == pc = "pause" /\ stopEv /\ Goto("loop")

PauseTimeout == pc = "pause" /\ clock >= wake /\ Goto("loop")

\* The session event went out; the handle is popped.
Notified == pc = "notify" /\ Goto("none")

\* Emitting it raised: the handler of the runner records a failed task over
\* whatever final status it had just written.
NotifyRaises ==
    /\ pc = "notify" /\ NotifyMayFail
    /\ status' = "failed"
    /\ pc' = "none"
    /\ UNCHANGED <<clock, up, stopSaved, saved, rt, cur, wake, stopEv, report,
                   history, faults>>

RunnerStep ==
    \/ Begin
    \/ LoopExhausted \/ LoopStopped \/ LoopDeadline
    \/ SelectNothing \/ SelectFuture \/ SelectDue
    \/ DueStopped \/ DueTimeout
    \/ FinishWaitingForApproval \/ FinishMissionAborted \/ FinishRuntimeBlocked
    \/ FinishCompleted
    \/ ContinueStopped \/ ContinueNow \/ ContinueLater
    \/ PauseStopped \/ PauseTimeout
    \/ Notified \/ NotifyRaises

ChildStep == \E r \in Results : ChildReturns(r)

-----------------------------------------------------------------------------
\* request_stop, from the cancel endpoint: refused without a live handle.
RequestStop ==
    /\ up /\ pc \in YieldPoints /\ ~stopEv
    /\ stopEv' = TRUE
    /\ stopSaved' = TRUE
    /\ UNCHANGED <<clock, up, status, saved, pc, rt, cur, wake, report,
                   history, faults>>

\* shutdown: a runner nobody asked to stop is cancelled where it awaits and
\* its record left running; a stopped one is waited for, so the shutdown ends
\* only after it did.
Shutdown ==
    /\ up /\ shutdowns < MaxShutdowns
    /\ pc = "none" \/ (pc \in YieldPoints /\ ~stopEv)
    /\ up' = FALSE
    /\ pc' = "none"
    /\ shutdowns' = shutdowns + 1
    /\ UNCHANGED <<clock, record, rt, cur, wake, stopEv, report, history, crashes>>

\* The process dies between any two steps; only the record survives.
Crash ==
    /\ up /\ crashes < MaxCrashes
    /\ up' = FALSE
    /\ pc' = "none"
    /\ crashes' = crashes + 1
    /\ UNCHANGED <<clock, record, rt, cur, wake, stopEv, report, history, shutdowns>>

\* Mutant of Restart: a mission is resumed whatever its recorded status.
Restart_AnyStatus ==
    /\ ~up
    /\ up' = TRUE
    /\ IF ~stopSaved
       THEN /\ pc' = "begin" /\ rt' = saved /\ cur' = 0 /\ wake' = 0
            /\ stopEv' = FALSE
       ELSE UNCHANGED <<pc, rt, cur, wake, stopEv>>
    /\ UNCHANGED <<clock, record, report, history, faults>>

\* Mutant of Restart: the budget counters start again at zero.
Restart_FreshBudgets ==
    /\ ~up
    /\ up' = TRUE
    /\ IF status = "running" /\ ~stopSaved
       THEN /\ pc' = "begin" /\ cur' = 0 /\ wake' = 0 /\ stopEv' = FALSE
            /\ rt' = [saved EXCEPT !.llm = 0, !.tools = 0, !.repair = 0]
       ELSE UNCHANGED <<pc, rt, cur, wake, stopEv>>
    /\ UNCHANGED <<clock, record, report, history, faults>>

\* The gateway starts: resume_open_supervisors takes up a mission that is
\* recorded running and was not stopped by an operator.
Restart ==
    /\ ~up
    /\ up' = TRUE
    /\ IF status = "running" /\ ~stopSaved
       THEN /\ pc' = "begin"
            /\ rt' = saved
            /\ cur' = 0 /\ wake' = 0
            /\ stopEv' = FALSE
       ELSE UNCHANGED <<pc, rt, cur, wake, stopEv>>
    /\ UNCHANGED <<clock, record, report,
                   history, faults>>

Tick ==
    /\ clock < MaxClock
    /\ clock' = clock + 1
    /\ UNCHANGED <<up, record, runner, history, faults>>

Next == RunnerStep \/ ChildStep \/ RequestStop \/ Shutdown \/ Crash \/ Restart \/ Tick

Spec == Init /\ [][Next]_vars

\* Fairness: the event loop runs a coroutine that can run; child control
\* loops end (each has its own budget and timeouts), which is said of pc
\* because ENABLED ChildStep is costly to evaluate; time passes; a gateway
\* that went down is started again.
Fairness ==
    /\ WF_vars(RunnerStep)
    /\ []<>(pc # "child")
    /\ WF_vars(Restart)
    /\ WF_vars(Tick)

LiveSpec == Spec /\ Fairness

-----------------------------------------------------------------------------
\* TypeOK: every variable keeps the shape the code gives it; in particular
\* no budget counter is ever refunded below zero.
TypeOK ==
    /\ clock \in Nat /\ up \in BOOLEAN
    /\ status \in TaskStatuses /\ stopSaved \in BOOLEAN
    /\ saved \in RuntimeStates
    /\ pc \in PCs /\ rt \in RuntimeStates
    /\ cur \in Nodes \cup {0} /\ wake \in Nat /\ stopEv \in BOOLEAN
    /\ report \in Reports
    /\ granted \in [FailureTypes -> Nat]
    /\ triage \subseteq Nodes /\ aborted \in BOOLEAN
    /\ crashes \in Nat /\ shutdowns \in Nat

\* DependencyGate: an entry the worker may take belongs to a node all of
\* whose dependencies are done, in memory and in the record, whatever was
\* released, retried or resumed (control_supervisor.py:1603-1648).
GateHolds(g) ==
    \A n \in Nodes : g.entry[n] \in ActionableQueues =>
        \A d \in DependsOn[n] : g.status[d] = "done"

DependencyGate == GateHolds(rt) /\ GateHolds(saved)

\* ChildHasLicence: a child control loop runs only for a mission that is
\* recorded running in a live gateway, for a node that is not done yet and
\* whose dependencies are (control_supervisor.py:2294-2445).
ChildHasLicence ==
    pc = "child" =>
        /\ up /\ status = "running"
        /\ cur \in Nodes /\ rt.status[cur] # "done"
        /\ \A d \in DependsOn[cur] : rt.status[d] = "done"

\* RetriesBounded: over the whole mission, restarts included, no failure type
\* is granted more "retry later" decisions than its budget
\* (orchestration_policy.py:195-200).
RetriesBounded == \A f \in FailureTypes : granted[f] <= MaxSameFailureRetries

\* ParkedOnlyWhenStuck: a mission is parked as pending or blocked only when no
\* node could still be worked on, and some node really is waiting for a human
\* or blocked (control_supervisor.py:1948-1976, 2558-2600).
ParkedOnlyWhenStuck ==
    status \in {"pending", "blocked"} =>
        /\ Candidates(saved) = {}
        /\ \E n \in Nodes : saved.entry[n] \in {"waiting_for_approval", "blocked"}

\* DurableProgress: what the record holds is never taken back, by a crash, a
\* shutdown or a resume: done nodes stay done, iterations and budget counters
\* never decrease (control_supervisor.py:1138-1231).
DurableProgress ==
    [][/\ \A n \in Nodes : saved.status[n] = "done" => saved'.status[n] = "done"
       /\ saved'.done >= saved.done
       /\ saved'.llm >= saved.llm /\ saved'.tools >= saved.tools
       /\ saved'.repair >= saved.repair /\ saved'.pending >= saved.pending
       /\ \A f \in FailureTypes : saved'.retries[f] >= saved.retries[f]]_vars

\* BudgetIsHard: in a single-node mission no child run starts once a guardrail
\* budget is exceeded, restarts included (control_supervisor.py:1758-1807).
BudgetIsHard ==
    [][pc # "child" /\ pc' = "child" =>
         /\ rt.llm <= MaxLlmCalls /\ rt.tools <= MaxToolCalls
         /\ rt.repair <= MaxRepairDepth]_vars

\* ImplementsLifecycle: the supervisor, with its crashes and resumes, does
\* only what MissionLifecycle allows.
Lifecycle == INSTANCE MissionLifecycle
                 WITH iterations <- saved.done, childActive <- (pc = "child")
ImplementsLifecycle == Lifecycle!Spec

\* A stop that was recorded just before the gateway went down: resume_task
\* skips the mission (control_supervisor.py:838) and nothing else ends it,
\* although the operator was told that it "will stop after the current
\* iteration" (control_supervisor.py:702, task_routes.py:265).
Stranded == up /\ pc = "none" /\ status = "running" /\ stopSaved

\* MissionEnds: every mission leaves "running", through any bounded number of
\* crashes and shutdowns, unless it is stranded.
MissionEnds == <>(status # "running" \/ Stranded)

-----------------------------------------------------------------------------
\* Properties the repository states and the code does not keep.

\* BlockedStaysBlocked: a node the recovery policy blocked for manual triage
\* (retry_limit 0, orchestration_policy.py:138-148) is not run again by the
\* supervisor itself.
BlockedStaysBlocked ==
    [][pc # "child" /\ pc' = "child" => cur' \notin triage]_vars

\* AbortSurvivesRestart: once an abort condition of the contract matched, the
\* mission never ends as completed, also if the gateway restarts
\* (architecture/README.md:36-39).
AbortSurvivesRestart ==
    status = "completed" => ~aborted

=============================================================================
