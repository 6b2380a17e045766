# Verification of boiled-claw

boiled-claw is a gateway that runs LLM control loops on behalf of an operator.
It keeps missions going in the background, spawns sub-agent sessions, asks for
approvals before tools are used, runs cron jobs, drives a browser tab or a
desktop, improves its own code in canaries, simulates and gates physical actions,
and turns what it learned into memories.  It is one asyncio process
with SQLite stores beside it, and it is restarted while missions run.

This directory holds TLA+ modules that model its coordination logic, TLC
configurations that check them on small instances, and TLAPS proofs of facts
that hold for every mission, every number of runs and every limit.  Source
paths below are relative to the repository's `src/`.

- [1. Inventory](#1-inventory)
- [2. Modules](#2-modules)
- [3. Runs](#3-runs)
- [4. Proofs](#4-proofs)
- [5. Where code and documents disagree](#5-where-code-and-documents-disagree)
- [6. What is not modelled](#6-what-is-not-modelled)
- [7. Plan](#7-plan)

## 1. Inventory

`PROJECT.json` lists every component with its files.  The ones with state and
interleavings of their own:

| Component | State it keeps | Operations | What is hard | What makes it correct |
| --- | --- | --- | --- | --- |
| Mission supervisor, `gateway/control_supervisor.py` | a task record that survives (status, progress, durable execution), a handle and a coroutine that do not | start, runner loop, request_stop, shutdown, resume at start-up | the runner awaits in five places; a stop, a shutdown or a crash meets it at each of them; the scheduler's queue and the graph must agree after every release | no node runs before its dependencies; budgets hold over restarts; a record never goes back; a mission ends |
| Recovery policy, `runtime/orchestration_policy.py` | none | failure type to policy, recovery ladder, budget check | comparisons at the limit, order of the checks | no more retries than the budget grants |
| Control loop, `control_loop/root_workflow.py`, `callbacks.py` | session state (goal, plan, approval, report, repair count, replay) shared by every run on the session | run, judge, repair and curator callbacks, approve, deny, replay, cancel | several runs await agents on one session; each reads what another wrote before its await | only approved plans are executed; plan, goal and success belong together; a run ends |
| Tool approvals, `security/tool_policy.py` | table of approvals, table of futures | request and wait, approve, deny, expire, reuse, inherit by sub-agent sessions | an answer races a timeout; grants are copied from session to session; a notifier fails after the entry was made | an answer reaches its call; nothing is granted late or beyond what the operator gave; every request ends |
| Sub-agent manager, `tools/subagents.py` | table of runs, a worker coroutine and a task record each | spawn, steer, kill with cascade, shutdown | a kill awaits one worker after the other while others end, spawn and are killed; statuses are counted for limits | limits hold; records agree with workers; kills reach what they saw and answer |
| Chat session, `gateway/server.py` (ConnectionManager, `_start_*_run`), `gateway/ws_handler.py` | a socket and a task per session id, a queue of events | connect, disconnect, send or queue, flush, start, abort, clear | a replaced task ends after its successor was registered; a client reconnects before its old handler noticed; two flushers share a queue | a run can be aborted; one run at a time; no event twice, none lost by reconnecting |
| Gateway runs, `gateway/server.py` (`_run_*`), `routing.py`, `transcript.py` | a task record, the transcript, the loop's session | choose a route, enter the control loop, prepass, run, answer, save, clean up | `chat.abort` meets a run at each await; two handlers of one cancellation answer | the record follows the run; the transcript says what the client was told |
| Cron scheduler, `cron/scheduler.py` | jobs in SQLite, a loop | add, toggle, delete, tick, run with retries, system events | a retry sleeps while its job is changed; `next_run` moves before the job is spawned | no occurrence runs twice; a due job is called |
| Current-tab bridge, `browser/current_tab_bridge.py` | the client's socket, a table of pending futures | connect, response, call with timeout, fail pending | the old client's handler ends after the new client has taken over | a call gets its own response or an error |
| Redis session service, `runtime/session_service.py` | a session, the user's and the application's state under separate keys | create, get, append_event, delete | read, change and write back with awaits in between | an event appended alone stays |
| Memory lifecycle, `memory_lifecycle/` | candidates and promoted memories in two databases | register, curate, persist | status is changed in one database before the memory is saved in the other | what is saved is what was judged |
| Task store, `runtime/task_store.py` | task records, events, search text in SQLite | create, update (nested merge), delete, prune, rebuild | derived tables are kept by every update and rebuilt only when counts differ | record, timeline and search agree |
| Audit log, `security/audit.py` | a file of lines, a database that indexes it | log, read, catch up | processes die between file and database; several share both | every entry is answered, once |
| Guarded tools, `control_loop/guarded_tools.py` | ids of the task's tabs, flags per session | navigate, click, type, keys, open tabs | the user switches tabs between a look and an action | the task acts in its own tabs |
| Managed browser and chat operator, `tools/browser.py`, `tools/control_ui_chat.py` | one shared session object | start, navigate, act, extract, close; send and wait for a reply | the session is published before it is started and closed across awaits | one browser runs; a reply answers its message |
| Computer actions, `tools/computer.py` | none | click, fill over three surfaces | an action is repeated on the next surface after a failed look | success was seen |
| Desktop, `desktop/`, `tools/desktop.py` | the emergency-stop flag | stop, clear, act; find application, window, element | a stop between approval and arrival; fallbacks at each step | an aborted run does nothing more; a result names what was acted on |
| Self-improvement runtime, `tools/self_improvement_runtime/` | canaries on disk, approved records in the memory | prepare, edit, benchmark, package, promote, search, clean up | cached benchmarks, names by the second, cancelled callers | approvals rest on a benchmark of that canary |
| Approval-gated promotions, `runtime/approved_promotions.py`, `mission_promotion.py`, `mission_reuse.py` | documents held by clients | evaluate, approve, reject, invalidate, plan reuse | copies outlive a rejection; days pass | what is reused was approved for that use |
| Physical layer, `runtime/toy_grid_world.py`, `hil_telemetry_*.py`, `limited_live_action_*.py`, `tenth_stage_readiness.py`, `physical_ai/` | a world, plans, artifacts, validation runs | plan, step, run an episode, gate, review, rehearse, dispatch | plans and telemetry of another state; a refresh that crosses a dispatch | a plan delivers; a gate's pass is earned; only what was validated is dispatched |

The remaining components (routing by key words, protocol, security patterns,
single tools, MCP servers, schemas, eval suites, agents, skills, channels, CLI)
are pure functions, adapters or single calls; section 6 says why they are left
out.

How they interact:

```
 HTTP / WebSocket / cron
        |                      +------------------- notifier -----------------+
        v                      v                                              |
  Chat session ---start---> Control loop ---tool call---> Tool approvals --ask-+
        |   ^                  ^   |                          ^
        |   +-- events --------|---|--------------------------|-- approve / deny
        |                      |   +-- spawn --> Sub-agent manager (inherits grants)
        +-- start mission --> Mission supervisor --child run--+
                               |  task record                 task records
                               +----------> Task store <------+
```

- The supervisor calls `ControlLoop.run` once per iteration and writes the task
  record before and after; the gateway's start-up reads the records back.
- The HTTP, cron, supervisor and replay routes start a control loop on a session
  without looking whether one is running there; the WebSocket route aborts the
  task registered for the session first.
- The approvals' notifier and the sub-agents' notifier end in the session's
  socket, or in its queue of pending events when nobody is connected.
- A chat request may be routed into the control loop; its cancellation then passes
  through both.  `GatewayRuns` takes up where `ChatSession` starts a task.
- Guarded tools call the current-tab bridge, the managed browser or the desktop; an
  abort of a chat run sets the desktop's emergency stop, the next start lifts it.
- Audit log, desktop bridge and host bridge are shared with other processes.
- Inside the gateway everything runs on one event loop.  Two steps interleave only at an `await`
  that really suspends, and the modules' steps are the stretches between those.

`PROJECT.json` "hazards" lists what is hard to test, at its line, with the
properties that cover it, or a note where none does yet.

## 2. Modules

| Module | Lines it models | Kind |
| --- | --- | --- |
| `MissionLifecycle` | what the supervisor promises about one mission | abstract specification |
| `MissionPolicy` | `orchestration_policy.py` and the pure helpers of `control_supervisor.py` | operators |
| `Supervisor` | the runner, stop, shutdown, crash, resume | component; implements `MissionLifecycle` |
| `Subagents` | `SubagentManager` | component |
| `ToolApprovals` | the approvals of `ToolPolicyEngine` | component |
| `ControlLoop` | the loop on one session with its callers | component |
| `ChatSession` | ConnectionManager, WebSocket handlers, agent tasks | component |
| `GatewayRuns` | what a task of the gateway does until its answer | component |
| `CronScheduler`, `CurrentTabBridge`, `SessionStore`, `MemoryLifecycle`, `TaskStore`, `AuditLog` | the background services | components |
| `BrowserTabs`, `ManagedBrowser`, `ComputerActions`, `DesktopStop`, `DesktopTargets` | what acts on the user's screen | components |
| `PhysicalReplay` | offline artifacts of the physical layer | operators |
| `ToyGridWorld` | world, planner, episode, scorecard, gate; built on `PhysicalReplay` | component |
| `HilTelemetry`, `AutonomyLadder`, `PhysicalDispatch` | telemetry evidence, readiness artifacts, simulation-first dispatch | components |
| `SelfImprovement`, `Promotions` | canaries and their records; packages, approvals and reuse | components |
| `SupervisorProofs`, `SubagentsProofs`, `ToolApprovalsProofs`, `ControlLoopProofs` | | theorems about one component |
| `BackgroundProofs`, `WorldProofs` | | theorems about the components that `MCBackground` and `MCWorld` check |
| `GatewayProofs` | | theorems about `ChatSession` and the components that `MCGateway` checks |
| `FoldTheorems` | | induction in set form, and what a fold or an iteration computes: lemmas for the proofs about data |
| `MCBackground`, `MCWorld`, `MCGateway` | several components beside each other | composition for TLC |
| other `MC*` | | graphs, ladders, symmetry sets for TLC |

Definitions called `X_Something` are mutants of `X`: the definition as a
plausible bug would leave it.  Nothing uses them; each shows that one property
depends on `X` (section 3).

### Supervisor

One mission.  Its variables are split as in the code: `status`, `stopSaved` and
`saved` are the task record and survive a crash; `pc`, `rt`, `cur`, `wake`,
`stopEv` and `report` are the coroutine's locals and its handle, and do not.
`granted`, `triage` and `aborted` are history, read by properties only.

`pc` names where the runner is.  In `begin`, `due`, `child`, `pause` and `notify`
it awaits, so there a stop or a shutdown may come in between; `loop` and
`recorded` are stretches that end in one of those.  A crash may fall between any
two steps, because each step ends with at most one write of the record.

- `RunnerStep` is `_run_supervisor`: the head of the loop (stop, deadline,
  iteration limit), the choice of a scheduler entry by queue, time and id
  (`Selects`), the wait for a due entry, the start of a child, what to do with
  the report, and the pause between iterations.
- `ChildStep` is the return of the child and `_record_runtime_iteration`, whole:
  classification, ladder step, budgets, queue and status of the node, release of
  nodes whose dependencies are done, counters, and the write of the record.
- `RequestStop`, `Shutdown`, `Crash`, `Restart` are `request_stop`, `shutdown`,
  the death of the process, and `resume_open_supervisors`.

Results of children are chosen freely among the failure types, success,
lost-tab and evidence counts of the configuration.  Time is a clock of ticks.
The promotion artifacts a mission may carry, the text of its prompts and the
observability payloads are left out.

`MissionLifecycle` says what a reader of the task record may rely on: child runs
are recorded one after the other, at most `MaxIterations` of them, only while the
mission is running; a child is recorded once or lost, never twice; and a final
status is only ever replaced by `failed`.  The refinement maps `iterations` to
the recorded count and `childActive` to `pc = "child"`.

### Subagents

Runs are numbered in the order they are spawned.  `status` is
`SubagentRunState.status`, `record` the status in its task record, `pc` where its
worker is; both statuses are written in different steps, which is why both are
there.  A kill is a stack of frames, one per run whose children are being
killed, and `loop` says which kill has the event loop: `_cascade_kill` goes from
one awaited worker to the next without yielding in between.  A cancelled worker
notices at its next step (`CancelLands`), in each of the places it may be.

### ToolApprovals

`approvals[c][s]` is the approval that call `c` asked for (in its own session
`home[c]`) or the copy of it that sub-agent session `s` inherited.  `waiters` and
`answer` are the table of futures and what they hold.  Every method first
expires what is due (`Due`), so expiry is part of each action and no action of
its own.  Tool and path patterns become `covers`, the set of calls a grant
covers.

### ControlLoop

`st` is the session's state, `run` the runs inside the loop.  A run is
`planning`, `executing` or `verifying`, the three awaits; everything between two
of them is one step, for the in-memory session service never suspends.  An agent
works on the copy of the session it was started with (`aim`, `seen`, `tried`) and
its changes are added to the session as it is when it ends.  `Opens` is
`_get_or_create_session` with goal check, reset and replay seed; `PlannerReturns`,
`ExecutorReturns` and `VerifierReturns` include the callbacks that run with them
and the corrections `run()` makes to the report.  Whether a verifier passes,
fails, writes garbage, or is demoted or promoted afterwards, is a choice.
`KeepsTemp` says whether the session service keeps keys that begin with `temp:`
between agents; the proofs hold for both.

### ChatSession

One session id: `socket` and `registered` are what the ConnectionManager has under
it, `conn` the handlers (of which an old one may not have noticed that its client
is gone), `task` the asyncio tasks, `pending` the queue and `carried` what a flush
has taken off it.  A task that is cancelled goes on to its `finally` clause
(`Interrupt`, `InnerCleanup`, `Finish`), where it clears the registration of the
session, whoever's that is.  A start may be suspended between its abort and its
registration, while it clears the stop of the desktop bridge (`DesktopBridge`).

### GatewayRuns

Several requests of one session.  `work[a].at` is the await a request is at: routing,
control loop, prepass, runner, sending; the control loop inside it is reduced to
what it leaves behind (a workflow in the session, a record, entries in the
transcript).  Each await may time out where the code has a timeout, raise, or be
cancelled by `chat.abort`; the handlers of the cancellation are the code's, from the
inside out.  The gateway may stop between any two steps.

### The background services

- `CronScheduler`: the rows in the database, the loop's tick, and runs that work on
  the row they were started with.  A stop of the gateway loses runs, not rows.
- `CurrentTabBridge`: connections with the stage of their handler, the client, and
  the table of pending calls, which is one for all connections.
- `SessionStore`: an append is `AppendStarts`, `AppendLoads`, the read and write of
  shared state, `AppendStores`, `AppendEnds`, one Redis command each.
- `MemoryLifecycle`: a curation is a fold over the candidates (`Judge`) with a write of
  the candidate store for each, followed by one save per memory; a crash may fall
  between any two.  How alike two contents are is a constant relation.
- `TaskStore`: every operation commits once; the row, its search column, the index
  and the timeline are separate variables, because a start-up rebuilds an index only
  when row counts differ.
- `AuditLog`: `file` and `catalog` (rows, line number, offset), and per process the
  step inside a call, with SQLite's lock taken at the first write.  Offsets count
  lines.

### The screen

- `BrowserTabs`: one tool call at a time as a chain of awaits with a look at the active
  tab before most of them, and a user who switches and closes tabs in between.
- `ManagedBrowser`: session objects numbered in the order they are made; what an object
  knows (`pw`, `browser`, `page`) is apart from what really runs (driver, window, tab).
  `PageShows` and the chat operator's visits model a conversation on such a page.
- `ComputerActions`: a request goes over the surfaces; each attempt looks, acts, verifies.
- `DesktopStop`: control calls that wait for approval, start, or travel to the process that
  executes them, and who sets and lifts the flag.
- `DesktopTargets`: application, window and element of a call, each with its fallback.

### The physical layer

`ToyGridWorld` has the planner as a breadth-first search, level by level, the step
with its safety governor, the episode along a plan, the scorecard, the evaluation
suites and the gate.  `HilTelemetry` and `AutonomyLadder` are frozen artifacts made out of
earlier ones: the question is what a "passed" or "ready" rests on.  `PhysicalDispatch`
has the record of a run read, an await, and the whole record written back.

### SelfImprovement and Promotions

`SelfImprovement` has canaries by name (slug and second), flows (`demo`, `search`) and
single tools that work on them, and the approved records from which skills are
loaded.  `Promotions` follows candidates from evaluation to reuse; packages and
artifacts are documents, so that every rejection leaves older copies in use.

## 3. Runs

`tlc -workers 2 -config <cfg> <module>`; each takes less than three minutes.

| Run | Configuration | States | Question |
| --- | --- | --- | --- |
| `supervisor_join` | `MCSupervisorJoin` | 112,512 | Does a mission with a join, retries, approvals and an abort condition stay safe and end, through a crash, a shutdown and a stop, and does it implement `MissionLifecycle`? |
| `supervisor_single` | `MCSupervisorSingle` | 95,601 | Are the budgets of a single-node mission hard, also when it crashes twice? |
| `supervisor_abort_lost` | `MCSupervisorAbort` | | Does an abort survive a crash? (no) |
| `subagents` | `MCSubagents` | 12,828 | Do the limits hold and does every kill end? |
| `subagents_tree` | `MCSubagentsTree` | 119,243 | Does a kill end every worker it found below its run, in a forest of bounded depth? |
| `approvals` | `MCToolApprovals` | 190,151 | Is nothing granted without a licence, do copies end with their source, does every request end? |
| `control_loop` | `MCControlLoop` | 589,196 | Do approvals, plans, goals and successes stay together when two runs share a session? |
| `background` | `MCBackground` | 693,233 | Do cron, current-tab bridge, session store, memories, task store and audit log keep what they are given, through crashes and overlapping calls? |
| `world` | `MCWorld` | 709,154 | Does what the tools say of a browser, a desktop or a simulated robot rest on what they did and saw? |
| `gateway` | `MCGateway` | 1,023,649 | Do chat events, task records, promotions and reuse stay true when runs are aborted, sockets replaced and documents outlive their judgement? |
| `chat_session_replaced` | `MCChatSessionRuns` | | Does one run at a time work for a session? (no) |
| `search_winner` | `MCGatewayWinner` | | Does a search keep the canary it declares the winner? (no) |

A "(no)" is a run TLC is expected to refute; section 5 says what it shows.  The
properties are stated, with their reasons, at the end of each module.

Every property of a passing run has a mutant in `PROJECT.json`: with the mutant
in place of the definition, TLC refutes the property under the run's own
configuration.  So no property holds only because the model cannot express its
violation.

### Components side by side

`MCBackground`, `MCWorld` and `MCGateway` hold components that share no state: a
variable `part`, chosen in the initial state, says which one moves, and the
others stay in their initial state.  That is no composition in the sense of
interleaving (nothing the parts do can meet), it only asks several questions in
one run; the number of states is the sum, not the product.  Components that do
interact are in one module: the sub-agent sessions with their approvals in
`ToolApprovals`, the control loop with its operators in `ControlLoop`, a request
with the records and transcript it leaves in `GatewayRuns`, the sockets with the
tasks in `ChatSession`, the desktop's process with the gateway in `DesktopStop`.

### Bounds

- *Supervisor.* Three nodes, two of them roots and one that joins them: the
  smallest graph in which a release has to look at two dependencies, one sibling
  can succeed while the other is parked, and the scheduler has a choice.  Four
  iterations let each node run and one be retried, so every budget is met.  One
  crash and one shutdown; what they may destroy is the coroutine, and the second
  finds nothing new in the record.  (The single-node run allows two crashes, since
  counters could drift by one per crash.)  The clock stops at a tick where every
  deadline has passed.  The failure types are one for each queue the recovery
  policies lead to.
- *Subagents.* Two runs of either mode show all orders of one worker's ending
  and another's kill; three runs are needed for a kill that has two children
  to end, and there the mode is fixed to keep the space small.
- *ToolApprovals.* Two calls, a chat session and its sub-agent's: one call is
  covered by the other's grant, directly or by inheritance.  The instants are
  before and after 80 % of the time to live, and after the end of an expiry that
  was set later (4 + 5).
- *ControlLoop.* Two runs with two goals: each of the races is between two.
  Two plans, of which a dropped one is used again for a later plan, so that more
  than two are made in a behaviour.  `MaxRepair` 2 is the code's default.
  `Memorable` is empty, because none of the run's properties reads the memories.
- *ChatSession and GatewayRuns.* Two requests at a time (slots, used again), a handler
  that is replaced, three events for a queue of two (so that one is dropped); one stop
  of the gateway.
- *CronScheduler.* A job with a period and one for an event, one retry, one crash, four
  ticks: an occurrence, its retry and the next occurrence may overlap.
- *CurrentTabBridge.* Three connections: the one that ends, the one that replaced it and
  one more, for the handler of the first may be late by two.
- *SessionStore.* Two runners, two appends each, one deletion: a stale object is written
  over one newer event, or after the session is gone.
- *MemoryLifecycle.* Three candidates of three contents, of which two are alike and two
  contradict; all three trust levels.  One session; the order of saves is free.
- *TaskStore, AuditLog.* Two tasks with one owner and a legacy table; two processes
  at a log of three lines, overlapping or not, with one death between any two steps.
- *BrowserTabs.* One tab of the user's, one opened by the task, at most one user action
  between two looks (`MaxChanges`); `TabLimit` is the code's limit on tabs with a small value.
- *ManagedBrowser.* Two calls at a time, three browsers, one fault, one late reply of the
  chat page.
- *ToyGridWorld, HilTelemetry, AutonomyLadder.* Four maps (a way round a wall, two with a way
  round a hazard, one that starts at its goal), three batteries, two budgets; two evidence files for each gate.
- *PhysicalDispatch, DesktopStop, DesktopTargets.* Two calls that cross one refresh; two
  sessions with two runs each; two applications with two windows, of which titles may agree.
- *SelfImprovement, Promotions.* Two flows on one slug, two suites, one second's
  difference; two improvements, two copies of each document, two days.

`MaxClock`, `MaxCrashes`, `MaxShutdowns`, `MaxRuns`, `MaxInbox`, `Instants`,
`Horizon`, `Expiries`, `MaxEvents`, `MaxTime`, `MaxFired`, `MaxAppends`,
`MaxDeletes`, `MaxCandidates`, `MaxLines`, `MaxDeaths`, `MaxBrowsers`, `MaxFaults`,
`MaxReplies`, `ChatObjects`, `MaxChanges`, `MaxEvidence`, `MaxDispatch`, `MaxSteps`,
`MaxStops`, `MaxSecond`, `MaxHands`, `Tries`, `MaxCopies` and `MaxDay` bound the models;
nothing in the code corresponds to them.  `MaxIterations`, the budgets,
`MaxRetries`, `MaxConcurrent`, `MaxPerSession`, `MaxDepth`, `TTL`, `MaxRepair`,
`MaxPending`, `TabLimit`, `StepLimits`, `MinTrust` and `MaxPerType` are the code's own limits
with small values.

Symmetry is used where no liveness is checked and the values are only compared:
runs, goals and plans of the control loop; visitors of the managed browser;
flows of the self-improvement.

Deadlock is checked for ToolApprovals, which never stops (the clock's stuttering
end included).  A mission that ended, a manager that was shut down, a session that
waits for its operator and a service that ran out of its bounds really do stop:
there the check is off.

### Fairness

- *Supervisor* (`LiveSpec`): the event loop runs a coroutine that can run; time
  passes; a gateway that went down is started again; a child control loop ends,
  because every agent call has a timeout and repairs are limited (`RunsGoForward`
  in ControlLoop is the second half of this).  Nothing is assumed of crashes,
  shutdowns and stops; the first two are bounded.
- *Subagents* (`LiveSpec`): workers and kills that can go on do.  A turn ends
  because `run_timeout_seconds` bounds it.  Weak fairness is enough, for no step
  of the event loop is disabled again by others for ever.
- *ToolApprovals* (`LiveSpec`): time passes, the notifier returns or raises, and
  a waiter or its timer runs.  The operator owes nothing.
- *CronScheduler* (in `Spec` of `MCBackground`): the loop ticks (it catches every
  exception of a tick and sleeps a second), and a run that can go on does, for it is
  a task of the event loop.  Nothing makes a spawn succeed.
- The other components have no liveness property: an agent may await a
  model for as long as it likes, and so may a user.

## 4. Proofs

`tlapm <module>Proofs.tla` proves every obligation.  What each theorem assumes is
its module's `ASSUME` and nothing else: limits are natural numbers, sets of
sessions and runs are disjoint, placeholders differ from what they stand for, the graph is any
relation between nodes (cyclic ones included, since the code does not exclude them).

| Theorem | Says for all constants |
| --- | --- |
| `SupervisorProofs!TypeCorrect` | the shapes, in particular: no counter goes below zero |
| `SupervisorProofs!DependenciesGateTheWorker` | an entry the worker may take belongs to a node whose dependencies are done, in memory and in the record |
| `SupervisorProofs!ChildIsLicensed` | a child runs only in a live gateway, for a running mission and an admitted node that is not done |
| `SupervisorProofs!RetriesAreBounded` | retries per failure type stay within the budget, over restarts |
| `SupervisorProofs!SupervisorImplementsLifecycle` | every step of the supervisor is a step of the record of `MissionLifecycle`, or none |
| `SupervisorProofs!ProgressIsDurable` | nothing recorded is taken back, crashes included: nodes stay done, counters do not fall |
| `SupervisorProofs!ParkedMissionsAreStuck` | a mission is parked only when nothing can be worked on and a node needs a human |
| `SupervisorProofs!SingleNodesKeepTheirBudgets` | a mission of one node runs no child on a spent budget |
| `SubagentsProofs!TypeCorrect`, `RunningMeansWorking`, `RecordsAgree` | statuses, records and workers agree, however a worker ended |
| `SubagentsProofs!SpawnLimitsHold` | the limits on concurrent runs hold at any time |
| `SubagentsProofs!ForestIsShallow` | depth is bounded and counts levels |
| `SubagentsProofs!OutcomesAreFinal` | a recorded outcome is only replaced by `cancelled` |
| `SubagentsProofs!KillsAreThorough` | a kill that has ended has ended the run, its children and theirs that were alive when it began, whatever runs meanwhile |
| `ControlLoopProofs!TypeCorrect` | the shapes, in particular: repairs stay within the limit |
| `ControlLoopProofs!ExecutionsAreLicensed` | only approved plans are executed |
| `ControlLoopProofs!RequestsShowThePlan` | the pending request shows the plan that would be executed |
| `ControlLoopProofs!PlansFitTheirGoals`, `SuccessesAreOwn` | goals, plans and successes belong together while no run is reset under |
| `ControlLoopProofs!RunsEndInTime` | an agent that returns ends its run or takes it further in a bounded order |
| `ToolApprovalsProofs!CopiesFollowTheirSource` | an inherited grant ends with the one it was copied from, through any number of generations |
| `ToolApprovalsProofs!GrantsComeFromTheOperator` | no call is let through but by the operator's yes, to it or to a grant in force that covers it |
| `GatewayProofs!LoneRunsAreReachable` | a run that began alone can be aborted as long as it works |
| `GatewayProofs!EventsAreAccounted` | no event is sent twice and none that was queued disappears, however many flushes overlap |
| `BackgroundProofs!LoneAppendsStay` | an event appended without an overlap stays in the stored session |
| `BackgroundProofs!HandoversAreSafe` | the newest serving connection is the client, and nobody waits for a connection that is gone |
| `BackgroundProofs!OccurrencesAlwaysRunOnce` | one run works on an occurrence of a job, whatever the clock, the users and the crashes do |
| `BackgroundProofs!AnswersAreAlwaysComplete` | until two calls overlap, a reader of the audit log is answered every entry, once, under its line |
| `BackgroundProofs!ViewsAlwaysAgree` | search, timeline and end of a task say what its row says, for old databases too |
| `BackgroundProofs!JudgementIsAlwaysSaved` | the database has the memories the last curation ended with, however its passes merged, doubted and replaced |
| `GatewayProofs!RecordsFollowTheirRuns` | a running record has one run that works on it, a pending one somebody who will |
| `GatewayProofs!TranscriptAlwaysAgrees` | the transcript shows last what the client was told last, wherever an abort met the request |
| `GatewayProofs!ApprovalsAreAlwaysProven` | what is recorded or offered passed the suite it was asked to pass, and is the best of its search |
| `GatewayProofs!ReuseIsAlwaysEarned` | a mission plans to reuse only what was approved, in force and evaluated, the most relevant first |
| `WorldProofs!PlanAlwaysDelivers` | a plan carried out as it was made reaches the goal, on every map |
| `WorldProofs!GatePassIsAlwaysEarned` | a pass of the safety gate is earned step by step, on every map |
| `WorldProofs!ReviewsAreAlwaysEarned`, `ReadinessAlwaysTracesBack` | passed reviews saw fresh, measured evidence; ready checklists rest on the whole ladder |
| `WorldProofs!DispatchIsAlwaysValidated` | the robot's bridge is called only under a validated answer with nothing critical in it |
| `WorldProofs!TaskAlwaysStaysInItsTabs` | a task acts in its own tabs, on the page they are for |
| `WorldProofs!BrowserStaysAlone`, `QuietCallsAreAlwaysServed`, `ReplyIsAlwaysTheAnswer` | one browser until calls overlap; a call on its own gets its page, and the answer to its own message |
| `WorldProofs!SuccessIsAlwaysSeen` | a reported success was seen, and no surface is acted on twice |
| `WorldProofs!AbortedRunsStayQuiet` | an aborted run acts on the desktop no more |
| `WorldProofs!ResultsAreAlwaysHonest` | what a desktop call reports is what it has done (an action property) |

The invariants are not inductive by themselves.  What was added, and why:

- *Supervisor.* `DependencyGate` speaks of scheduler entries, but entries are made
  from node queues when a node is released or retried; and what is dropped as
  stale depends on node statuses.  `Ordered` therefore ties queue and entry to
  the status of the node and of its dependencies, for the record as well as for
  the memory, for a resume makes the one the other.  `Admitted` carries the
  choice of a node over the wait for its due time.  `RunnerOwnsMission` gives the
  mission's status while a runner lives.  `RetriesAccounted` says that granted
  retries are in the persisted counter: without it a crash could forget one.
- *Supervisor, the record.* What is written must be what the memory holds, or a step
  that is invisible in the record would show later: `Mirrors` says that the two agree
  on all but entries and times, `Consistent` that a node's status is the one of its
  queue, and `RunnerKnows` what the runner has checked before it waits (limits, and
  that the mission is stuck before it is parked).  For the budgets of one node,
  `Affordable` adds that an entry the worker may take stands for budgets that are not spent.
- *Subagents.* `Places` determines status and record from where the worker is,
  including the two places where they differ on purpose; `KillFrames` says that a
  kill is only about spawned runs, so that a frame's run has a worker.  The limits
  follow from `NoRunRevives` (a run that left the active statuses does not come
  back) and the check in `Spawn`; the depth from the parent being older.
  For kills, `Pursued` says that whoever was alive when the kill began is done, or is
  what a frame of the kill still reaches: its run, one of the children it has left,
  or below one of these.
- *ControlLoop.* `Licences` adds `ApprovedIsLicensed`: a session whose approval
  status says approved has a licensed plan; each of the three conjuncts is used
  for the other two.  `Purposes` adds that the runs in the loop share the
  session's goal, that a planner aims at its run's goal and that the plan in a
  run's record was made for the run's goal (`GoalsKnown`, `RunsFit`): this is what
  an answer and a replay start from.
- *ToolApprovals.* A copy may be copied again, so the property (a copy and its
  source) says too little.  `Settled` relates every copy to the approval in the
  session the call was made in: the same expiry, granted for sub-agents, granted by
  the operator.  Every method expires what is due first, and copies are due when
  their source is (`CleanedIsSettled`).  `YesIsGiven` carries the operator's answer
  over the time a future holds it.
- *ChatSession.* `LoneIsRegistered` adds that there is no other task while a run
  that began alone works (a later request aborts it first), and `RegisteredWorks`
  that what is registered is alive.  For the events, `Apart` says that an event is in
  one place of the queue or of one flush, `KeptIsUnsent` that it has not arrived yet.
- *SessionStore.* `Carries` follows the event of a lone runner from its session
  object to what it writes; `ReadsKept` says that a runner about to write has read the
  kept events, which is why overlaps among later runners lose only their own.
- *CurrentTabBridge.* A client, and a call that waits, have a handler that has not
  ended.
- *CronScheduler.* Two runs of one occurrence are excluded by the row: once a run has
  begun, the job's next run is later than its slot (`RunOK`), and a run that is made but has
  not begun is the only one of its job (`Apart`).  A retry moves the row as a start does,
  and a toggle or a new job only forwards (`PutAhead`).
- *AuditLog.* `HoldsTo(file, db, n)` says that a database holds the first n lines.  It holds of
  the committed one for some n, and of what a call sees for the n its stage implies
  (`CallOK`), as long as one call is at work (`OneCall`): the first overlap ends all three.
- *TaskStore.* A row's text is its own (`TextsAreOwn`) and the index holds the row's text
  (`OpenIsFound`) because `CountsSuffice`: when the counts of rows and index agree at the opening, the index is
  of these rows.  `TimelineTells` says that hearing the events of a task, one after the other,
  gives its row; the lemmas about that fold (`HearingIs`) say what one more event changes.
- *MemoryLifecycle.* A curation judges candidates in a fold, and each judgement may replace a memory
  it has made before.  `Consistent` is the invariant of the fold: every memory in hand is told by
  the last list that names it, so that writing the lists in their order leaves what the fold
  ended with.  `NewestFirst` lists each memory once, whatever their stamps.
- *GatewayRuns.* `WaitingIsPending` ties the workflow that waits in the session to a record
  nobody works on, so that an approval hands it to one run; `RecordsAreOwned` says whose
  record a run may hold, and `OneHolder` that a run inside the loop has the session.  For the
  transcript, `Agrees` says what has been written and told at every await of a request,
  the handlers of a cancellation included.
- *SelfImprovement.* A benchmark that passed says what the canary is like until it is edited
  (`BenchmarkHolds`); a run of candidates has ranked one canary per try, and its winner is the best
  so far (`RunOK`); whatever is approved comes from a flow that is past its choice (`ApprovedOK`).
- *Promotions.* A copy keeps the package it was made of (`Earned`), so that nothing has to be
  known about where the copies are; a plan is best among what it was given (`PlanIsBest`).
- *ToyGridWorld, the planner.* `WayIs` is the invariant of the search: a way of level n has n moves,
  goes through free cells, and each of them was found at its own level.  A path is therefore the first that
  comes to the goal and comes there with its last move only (`Leads`).  `Ready` says that the world can pay
  for the path, and `Underway` that after k steps the episode is at the path's cell number k, has paid k and
  was not stopped: the governor cannot refuse the next one.
- *ToyGridWorld.* An episode that runs was started for the world as it is, and unless its last
  step stopped it, it has earned every one of them (`EpisodeInv`).
- *HilTelemetry, AutonomyLadder, PhysicalDispatch.* Artifacts do not change: what one says is what
  its builder checked (`KnowsItsAge`, `GateOK`, `RehearsalOK`).  A dispatch works on the record it
  read, so the record in a pending call is one that was stored (`DispatchTypeOK`).
- *BrowserTabs.* The session remembers ids of tabs, the property speaks of what the task has
  really opened or navigated: `KnownAreOwn` says that the first are among the second, `HotkeyKnows`
  what the look before a new-tab key has seen, and `CheckedIsOwn` carries the check over to the
  step that acts.  `LastIsOpened` says that a call goes back to a tab that is remembered.
- *ManagedBrowser.* `LoneShape` says that until calls overlap what runs belongs to the shared session,
  which then knows its playwright: a cancelled start leaves it halfway, and a close finds what there
  is.  `Served` follows a call on its own, with what it has brought up (`HasItsPage`) and, for a
  chat, what the page has shown since the answers were counted (`ChatOK`).
- *ComputerActions.* What holds now and what a check has seen has held since the last action
  (`SeenIsHeld`), an attempt with a good verdict is the last one (`GoodIsLast`, which needs
  `JudgedBefore`: an attempt is judged before the next), and a surface is acted on when it is
  tried and only then (`ActedOnce`).
- *DesktopStop.* As long as there is a run the stop was put up for, it is up
  (`QuietIsStopped`); while its handler works on the stop of a session, the session has no
  live run (`HandledIsDead`), and what waits in the gateway waits for a live one (`WaiterIsAlive`).
- *DesktopTargets.* The property is about steps; all it needs of a state is that what runs is an
  application (`RunningOK`).

Proved and not in a run, since TLC found them true earlier and a theorem says
more: the `TypeCorrect`s, `RetriesBounded`, `RunningIsWorking`, `RecordAgrees`,
`TreeIsShallow`, `OutcomeIsFinal`, `RequestShowsPlan`, `PlanFitsGoal`, `RunsGoForward`.

What a function computes by recursion or a fold is proved by induction stated for a set of numbers
(`NatSetInduction`, from the well-foundedness of `<`): the library's own induction
theorems take an operator, which the provers cannot instantiate.  The operator of a fold is handed
over as a function for the same reason; `FoldKeeps`, `TracesAgree` and `IterationExists` of
`FoldTheorems` are stated that way, and each use shows that the model's `FoldLeft` or recursive
function unfolds to it.

Only model-checked, and why: the liveness properties (`MissionEnds`, `KillsEnd`,
`RequestsEnd`, `DueJobsAreCalled`), for liveness under fairness, and the `ENABLED` in it, is out of the
proof system's reach.  Every other property of a passing run is a theorem.

## 5. Where code and documents disagree

Shown by a run:

1. *An abort does not survive a crash* (`supervisor_abort_lost`).  The iteration
   that matched an abort condition is recorded with the mission still running
   (line 2491); a crash before `_finish_mission_aborted` resumes it with the abort
   forgotten, and it may complete.
2. *A request that replaces another can lose its registration*
   (`chat_session_replaced`).  The replaced task's `finally` clause clears the
   registration its successor has made; the next request then runs beside it and
   `chat.abort` finds nothing.
3. *A search may remove its winner* (`search_winner`).  A canary is named by slug and
   second (`tools/self_improvement_runtime/canary.py:113`), so two candidates of one search may
   share a directory; the sweep over the losers (`flows.py:498`) then removes the
   winner's.

Shown by TLC on a property that is in its module but in no run (add it to the
configuration to see the trace):

4. *A node that was blocked for manual triage runs again*
   (`BlockedStaysBlocked` as a PROPERTY in `MCSupervisorJoin.cfg`).  `_dependency_ready_nodes`
   (`gateway/control_supervisor.py:1617`) takes every blocked node whose
   dependencies are done for one that waited for them, so the success of any
   sibling releases a node that recovery had blocked with `retry_limit=0` and
   `manual_triage_required` (`runtime/orchestration_policy.py:144`).
5. *A kill does not reach all descendants* (`KillReachesAll` in `MCSubagentsTree.cfg`
   with `Modes = {"session"}` and `MaxPerSession = 3`).  The children
   are collected before the first worker is awaited; one that the killed
   session spawns meanwhile survives.
6. *A demoted pass is remembered as a completed goal* (`MemoriesAreEarned` in
   `MCControlLoop.cfg` with a goal in `Memorable`).  The
   curator's callback looks at the verifier's own report; `run()` corrects it
   afterwards.

Met while modelling (the models follow the code unless it says "left out"):

- Supervisor: a stop that is recorded just before the gateway restarts leaves the
  mission "running" for ever: `resume_task` skips it (line 838), nobody ends it,
  and the operator was told "the supervisor will stop after the current
  iteration" (line 702).  `MissionEnds` excepts this state by name (`Stranded`).
  A mission can be recorded completed while a node still waits for an approval
  (line 2583).  Failed iterations are counted as "successful iteration(s)" in the
  final message (about line 2669).  A mission whose nodes depend on each other
  in a cycle ends as completed with no iteration.  A ladder without the preferred
  step is not subject to `max_retries_per_step`.  A contract's risk budget is not
  read.  An exhausted budget blocks the node that met it but does not stop a
  mission with other nodes (`BudgetIsHard` is for single-node missions).  An
  exception in the announcement of a final status replaces it by `failed`.
- Subagents: a run whose session cannot be created stays "accepted" and keeps its
  slot (`tools/subagents.py:518` and 217); steering it answers with success.
- Approvals: `list_approvals(state="pending")` counts only strictly pending ones for
  its page size (`security/tool_policy.py:586`).  A cancelled call leaves its
  approval pending.
- Control loop: with a session service that drops `temp:` keys the loop ends after
  the first failed verification instead of repairing; repairs execute the same
  plan again and never plan anew.  A session that was left in the middle of a
  workflow refuses every other goal (`control_loop/root_workflow.py:1004`); the
  nodes of a mission share one session, so one node that needs a human refuses
  the others (`gateway/control_supervisor.py:2449`).  A reset over HTTP under a run
  in flight mixes goals (the history variable `crossed`).  A planner's unreadable
  answer leaves the previous request standing; to approve that resolves it but
  starts nothing.  A replayed plan counts as approved by a human, whatever its
  record says of it.
- Chat session: a client that reconnects before its old handler noticed has its
  new socket removed by the old handler and hears nothing more.  With the desktop
  bridge two starts may both abort first and then both register.  A task that is
  cancelled before its first step answers nothing.
- Gateway runs: a control loop that is aborted leaves its record "running" and no
  transcript entry; a routed one that is aborted sends `chat.done` twice; an abort while the
  answer is being sent appends a second, aborted entry; a denied approval leaves its
  record pending.
- Cron: a spawn that answers with a refusal counts as accepted and is not retried; a retry
  runs although its job was deleted or disabled; a crash after `next_run` was
  advanced loses the occurrence.
- Current-tab bridge: the handler of an old connection fails the calls of the new one
  as well, for `_fail_pending` knows no connections (`browser/current_tab_bridge.py:186`).
- Session service: two appends that overlap lose one of the events (`LoneAppendsLast` is
  about appends that do not overlap); an append on an object whose session is deleted
  meanwhile brings the session back.
- Task store: an index is rebuilt only when row counts differ; a task that is
  reopened keeps its old `ended_at`.
- Audit log: `README.md:1040` says "all operations are recorded".  With two processes
  on one directory at the same time (`docker-compose.yml:30` and 74) an entry may get a
  line number that is taken and be ignored by the index, or an offset may step back
  so that an entry is listed twice; `AnswersAreComplete` is for processes that do
  not overlap.  A lock that times out makes `log()` raise although its line is in the file.
- Browser tabs: when the look before a "new tab" key fails, a tab of the user's may be
  remembered as the task's (the history variable `unsure`); typing ignores a
  disconnect its own look noticed; dragging and scrolling do not all check; a
  search task types without a target into whichever tab is active; `cell_edit_ready` is sticky,
  so "so writes land in the sheet" (`README.md:538`) may be another cell.
- Managed browser: `get_browser_session` publishes a session that has not started; an
  overlapping call takes it for dead and replaces it, and the first browser stays open
  (`tools/browser.py:186`).  The first call is answered with the shared session, so that a
  visible navigation may succeed in a headless one (`README.md:508`).  After a browser died an
  extraction without selector succeeds on a blank page.  Overlapping chats may get
  each other's reply; the operator approves every pending inner approval
  (`tools/control_ui_chat.py:206`).
- Computer actions: "text is absent" passes when the read fails; an address is always
  read from the user's tab, for the managed browser as well; an action that worked and failed
  its verification is done again on the next surface.
- Desktop: the contract lifts a stop by approval (`security/tool_policy.py:219`), the
  gateway lifts it whenever any session starts a run (`gateway/server.py:2459` and 2481).  A
  stop that cannot be delivered is only logged.  Without the bridge process
  nothing is stopped.  `app_name` is documented as the scope of a call
  (`architecture/desktop-bridge-v1-contract.md`, lines 89 to 98); an application that is not running is
  replaced by the one in front (`desktop/pyobjc_client.py:679`).
- Physical layer: `architecture/oss-v1-readiness-boundary.md` (151, 152) denies "by default when
  evidence is missing, stale, malformed, unsafe, mismatched, or ambiguous"; the last gate
  (`runtime/limited_live_action_gate.py:238` to 263) sees only whether a reference of every kind is
  there, not what it names.
- Self-improvement: an unknown kind of promotion raises after the benchmarks and leaves the
  records "running" and the canary in place; a demo whose benchmarks failed is
  "completed"; `persist_state` may make a removed canary directory again.  A cached benchmark
  survives edits of the canary (documented reuse; the history variable `edited`).
- Promotions: a type with two plain suites can never become ready for approval, so
  `approved_skill` is out of reach of `build_promotion_package`; an older copy of an
  artifact is still usable after a rejection of the newer one.

## 6. What is not modelled

- Prompts, models and tools: their results are choices.  Classification of
  failures, commands, paths and plans: pattern matching without state; the models
  take the classes as given.
- Mission contracts, templates, evals, capability registry: pure functions of one
  artifact, large but sequential; the repository's tests evaluate them case by case.
- Of the physical layer: the bridges to ROS and MAVLink and the adapters of simulators, which are
  one request and one answer each; of the browser: selectors, coordinates, key names, the
  extension's own code except that it may open a tab; of the desktop: the accessibility tree below
  window and element, screenshots, OCR.
- Routing's text matching, protocol parsing, HTTP routes, MCP servers, channels,
  CLI, agents, skills: adapters.  Where a route's order of calls matters (approve
  and start, replay, cancel) it is part of an action.
- Authentication and ownership checks, metrics, wording.
- Threads of SQLite and Redis servers: a call commits or raises.  Two gateways on one directory
  (section 5, audit log).

About a third of the implementation's lines stand behind the definitions.  Of what
is left, little keeps state over an await or a restart.

## 7. Plan

What was planned is written: the modules of section 2 in that order, the core
(supervisor, sub-agents, approvals, control loop, chat session) first, then the
services, the screen, the physical layer and the self-improvement.

What would be worth adding next:

1. For the three liveness properties without a proof of their safety half (`MissionEnds`, `KillsEnd`,
   `RequestsEnd`), the measure that every step of the working process lowers, as
   `ControlLoopProofs!RunsEndInTime` has it for the control loop.
2. Two gateways on one data directory, as `docker-compose.yml` allows: only the
   audit log is modelled with more than one process.
