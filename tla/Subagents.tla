------------------------------- MODULE Subagents -------------------------------
(***************************************************************************)
(* SubagentManager (src/src/tools/subagents.py): background runs spawned   *)
(* by a session, one worker coroutine each; spawn limits; steering; the    *)
(* depth-first kill of a run and its descendants; shutdown.                *)
(*                                                                         *)
(* Runs are numbered in the order they are spawned (the order of _runs).   *)
(* A run owns a session once its worker created it, and whoever works in   *)
(* that session may spawn from it: such a run is its child.                *)
(*                                                                         *)
(* The event loop is single threaded.  The manager's lock is only held     *)
(* between two awaits, so spawn and steer are one step.  A kill runs from  *)
(* one "await worker" to the next without yielding: "loop" says which kill *)
(* has the event loop, 0 that none is in the middle of such a stretch.     *)
(***************************************************************************)
EXTENDS Integers, Sequences, FiniteSets

CONSTANTS
    Roots,           \* sessions that are not a run's own
    Modes,           \* the modes runs are spawned with
    MaxRuns,         \* bound: runs spawned in a behaviour
    MaxInbox,        \* bound: messages waiting for a run
    MaxConcurrent,   \* settings.subagent_max_concurrent
    MaxPerSession,   \* settings.subagent_max_per_session
    MaxDepth         \* settings.subagent_max_spawn_depth

Runs == 1 .. MaxRuns

ASSUME SubagentsAssumption ==
    /\ MaxRuns \in Nat /\ MaxInbox \in Nat \ {0}
    /\ MaxConcurrent \in Nat /\ MaxPerSession \in Nat /\ MaxDepth \in Nat
    /\ Roots \cap Nat = {} /\ Modes \subseteq {"run", "session"}

VARIABLES
    count,    \* runs spawned so far
    mode,     \* mode: "run" once, or a "session" that can be steered
    owner,    \* requester_session_id; a run stands for its own session
    parent,   \* parent_run_id, 0 for None
    depth,    \* spawn_depth
    session,  \* the run has a session_id
    status,   \* SubagentRunState.status
    record,   \* the status in the run's task record
    pc,       \* where its worker coroutine is
    inbox,    \* messages in its queue
    cancel,   \* worker.cancel() was called and has not been delivered
    kills,    \* kills[k]: the frames of a kill of run k, << >> if there is none
    loop,     \* the kill that has the event loop, 0 if none
    doomed,   \* history: the runs a kill of k found alive when it began
    stopped   \* the manager was shut down

identity == <<count, mode, owner, parent, depth>>
work == <<session, status, record, pc, inbox>>
killers == <<kills, loop, doomed>>
vars == <<count, mode, owner, parent, depth, session, status, record, pc,
          inbox, cancel, kills, loop, doomed, stopped>>

Statuses == {"accepted", "running", "idle", "completed", "failed", "cancelled"}
ActiveStatuses == {"accepted", "running", "idle"}
FinalStatuses == Statuses \ ActiveStatuses
WorkerPCs == {"starting", "waiting", "turn", "notifyOk", "notifyFail"}

Spawned == 1 .. count
Live(r) == pc[r] \in WorkerPCs
Active == {r \in Spawned : status[r] \in ActiveStatuses}
Children(r) == {c \in Spawned : parent[c] = r /\ Live(c)}

\* A frame of a kill: the run whose children are killed first, and those of
\* them that are left.
Frames == [of : Runs, todo : SUBSET Runs]

Top(stack) == stack[Len(stack)]
WithoutChild(stack, c) == [stack EXCEPT ![Len(stack)].todo = @ \ {c}]
Pop(stack) == SubSeq(stack, 1, Len(stack) - 1)

-----------------------------------------------------------------------------
Init ==
    /\ count = 0
    /\ mode = [r \in Runs |-> "run"] /\ owner = [r \in Runs |-> 0]
    /\ parent = [r \in Runs |-> 0] /\ depth = [r \in Runs |-> 0]
    /\ session = [r \in Runs |-> FALSE]
    /\ status = [r \in Runs |-> "accepted"]
    /\ record = [r \in Runs |-> "accepted"]
    /\ pc = [r \in Runs |-> "none"]
    /\ inbox = [r \in Runs |-> 0]
    /\ cancel = [r \in Runs |-> FALSE]
    /\ kills = [r \in Runs |-> << >>]
    /\ loop = 0 /\ doomed = [r \in Runs |-> {}] /\ stopped = FALSE

\* The active run whose own session asks for the spawn.
ParentOf(s) == IF s \in Active /\ session[s] THEN s ELSE 0

DepthFrom(p) == IF p = 0 THEN 1 ELSE depth[p] + 1

\* Mutant of WithinLimits: the limit per session is one too high.
WithinLimits_OneTooMany(s) ==
    /\ Cardinality(Active) < MaxConcurrent
    /\ Cardinality({r \in Active : owner[r] = s}) <= MaxPerSession
    /\ DepthFrom(ParentOf(s)) <= MaxDepth

\* The three limits spawn checks.
WithinLimits(s) ==
    /\ Cardinality(Active) < MaxConcurrent
    /\ Cardinality({r \in Active : owner[r] = s}) < MaxPerSession
    /\ DepthFrom(ParentOf(s)) <= MaxDepth

\* spawn: the run is registered with its first message and its worker is
\* scheduled.
Spawn(s, m) ==
    LET r == count + 1 IN
    /\ ~stopped /\ loop = 0 /\ count < MaxRuns
    /\ s \in Runs => session[s]
    /\ WithinLimits(s)
    /\ count' = r
    /\ mode' = [mode EXCEPT ![r] = m]
    /\ owner' = [owner EXCEPT ![r] = s]
    /\ parent' = [parent EXCEPT ![r] = ParentOf(s)]
    /\ depth' = [depth EXCEPT ![r] = DepthFrom(ParentOf(s))]
    /\ pc' = [pc EXCEPT ![r] = "starting"]
    /\ inbox' = [inbox EXCEPT ![r] = 1]
    /\ UNCHANGED <<session, status, record, cancel, killers, stopped>>

-----------------------------------------------------------------------------
\* The worker.  Every step but CancelLands needs that no cancellation waits
\* to be delivered.
MayRun(r, place) == loop = 0 /\ pc[r] = place /\ ~cancel[r]

\* queue.get() with a message in the queue: the next turn begins at once.
TakeMessage(r) ==
    /\ pc' = [pc EXCEPT ![r] = "turn"]
    /\ status' = [status EXCEPT ![r] = "running"]
    /\ record' = [record EXCEPT ![r] = "running"]
    /\ inbox' = [inbox EXCEPT ![r] = @ - 1]

\* create_session answered; the first message is in the queue already.
SessionCreated(r) ==
    /\ MayRun(r, "starting")
    /\ session' = [session EXCEPT ![r] = TRUE]
    /\ TakeMessage(r)
    /\ UNCHANGED <<identity, cancel, killers, stopped>>

\* create_session raised: the worker ends without touching the run.
StartFails(r) ==
    /\ MayRun(r, "starting")
    /\ pc' = [pc EXCEPT ![r] = "dead"]
    /\ UNCHANGED <<identity, session, status, record, inbox, cancel, killers,
                   stopped>>

\* A steer woke the worker that waited in queue.get().
MessageArrives(r) ==
    /\ MayRun(r, "waiting") /\ inbox[r] > 0
    /\ TakeMessage(r)
    /\ UNCHANGED <<identity, session, cancel, killers, stopped>>

\* The turn returned: the task record is final (or idle) before the requester
\* is told.
TurnSucceeds(r) ==
    /\ MayRun(r, "turn")
    /\ record' = [record EXCEPT ![r] = IF mode[r] = "run" THEN "completed" ELSE "idle"]
    /\ pc' = [pc EXCEPT ![r] = "notifyOk"]
    /\ UNCHANGED <<identity, session, status, inbox, cancel, killers, stopped>>

\* The turn raised or exceeded run_timeout_seconds.
TurnFails(r) ==
    /\ MayRun(r, "turn")
    /\ status' = [status EXCEPT ![r] = "failed"]
    /\ record' = [record EXCEPT ![r] = "failed"]
    /\ pc' = [pc EXCEPT ![r] = "notifyFail"]
    /\ UNCHANGED <<identity, session, inbox, cancel, killers, stopped>>

RunCompletes(r) ==
    /\ MayRun(r, "notifyOk") /\ mode[r] = "run"
    /\ status' = [status EXCEPT ![r] = "completed"]
    /\ pc' = [pc EXCEPT ![r] = "dead"]
    /\ UNCHANGED <<identity, session, record, inbox, cancel, killers, stopped>>

SessionGoesOn(r) ==
    /\ MayRun(r, "notifyOk") /\ mode[r] = "session"
    /\ IF inbox[r] > 0
       THEN TakeMessage(r)
       ELSE /\ status' = [status EXCEPT ![r] = "idle"]
            /\ pc' = [pc EXCEPT ![r] = "waiting"]
            /\ UNCHANGED <<record, inbox>>
    /\ UNCHANGED <<identity, session, cancel, killers, stopped>>

FailureNotified(r) ==
    /\ MayRun(r, "notifyFail")
    /\ pc' = [pc EXCEPT ![r] = "dead"]
    /\ UNCHANGED <<identity, session, status, record, inbox, cancel, killers,
                   stopped>>

\* CancelledError is raised where the worker awaits.  Only around a turn and
\* its notification is it caught: elsewhere the run's status stays.
CancelLands(r) ==
    /\ loop = 0 /\ cancel[r]
    /\ cancel' = [cancel EXCEPT ![r] = FALSE]
    /\ pc' = [pc EXCEPT ![r] = "dead"]
    /\ IF pc[r] \in {"turn", "notifyOk"}
       THEN /\ status' = [status EXCEPT ![r] = "cancelled"]
            /\ record' = [record EXCEPT ![r] = "cancelled"]
       ELSE UNCHANGED <<status, record>>
    /\ UNCHANGED <<identity, session, inbox, killers, stopped>>

WorkerStep(r) ==
    \/ SessionCreated(r) \/ StartFails(r) \/ MessageArrives(r)
    \/ TurnSucceeds(r) \/ TurnFails(r)
    \/ RunCompletes(r) \/ SessionGoesOn(r) \/ FailureNotified(r)
    \/ CancelLands(r)

-----------------------------------------------------------------------------
\* steer: refused unless the run is a session whose worker is not done.
Steer(r) ==
    /\ ~stopped /\ loop = 0
    /\ mode[r] = "session" /\ Live(r) /\ inbox[r] < MaxInbox
    /\ inbox' = [inbox EXCEPT ![r] = @ + 1]
    /\ UNCHANGED <<identity, session, status, record, pc, cancel, killers, stopped>>

\* Mutant of Kill: the children are left alone.
Kill_Alone(k) ==
    /\ ~stopped /\ loop = 0 /\ kills[k] = << >> /\ Live(k)
    /\ kills' = [kills EXCEPT ![k] = <<[of |-> k, todo |-> {}]>>]
    /\ loop' = k
    /\ doomed' = [doomed EXCEPT ![k] = {k} \cup Children(k)]
    /\ UNCHANGED <<identity, work, cancel, stopped>>

\* kill: refused unless the worker is not done.  The run's children are listed
\* at once; each is killed, after its own children, before the run itself.
Kill(k) ==
    /\ ~stopped /\ loop = 0 /\ kills[k] = << >> /\ Live(k)
    /\ kills' = [kills EXCEPT ![k] = <<[of |-> k, todo |-> Children(k)]>>]
    /\ loop' = k
    /\ doomed' = [doomed EXCEPT ![k] = {k} \cup Children(k) \cup
                                 UNION {Children(c) : c \in Children(k)}]
    /\ UNCHANGED <<identity, work, cancel, stopped>>

\* _cascade_kill goes into the next child of the top frame, in the order the runs
\* were spawned; the child's own frame goes on top, listing its children.
PushChild(k, c) ==
    /\ loop = k
    /\ c \in Top(kills[k]).todo /\ \A q \in Top(kills[k]).todo : c <= q
    /\ kills' = [kills EXCEPT ![k] = Append(WithoutChild(@, c),
                                            [of |-> c, todo |-> Children(c)])]
    /\ UNCHANGED <<identity, work, cancel, loop, doomed, stopped>>

Descend(k) == \E c \in Runs : PushChild(k, c)

\* A descendant that ended by itself meanwhile is passed over.
PassOver(k) ==
    LET top == Top(kills[k]) IN
    /\ loop = k /\ top.todo = {} /\ Len(kills[k]) > 1 /\ ~Live(top.of)
    /\ kills' = [kills EXCEPT ![k] = Pop(@)]
    /\ UNCHANGED <<identity, work, cancel, loop, doomed, stopped>>

\* Mutant of CancelWorker: the worker is awaited without being cancelled.
CancelWorker_AwaitOnly(k) ==
    LET top == Top(kills[k]) IN
    /\ loop = k /\ top.todo = {} /\ Live(top.of)
    /\ loop' = 0
    /\ UNCHANGED <<identity, work, cancel, kills, doomed, stopped>>

\* worker.cancel(), and the kill awaits the worker.
CancelWorker(k) ==
    LET top == Top(kills[k]) IN
    /\ loop = k /\ top.todo = {} /\ Live(top.of)
    /\ cancel' = [cancel EXCEPT ![top.of] = TRUE]
    /\ loop' = 0
    /\ UNCHANGED <<identity, work, kills, doomed, stopped>>

\* The awaited worker is done (k's own may have been so before the await: then
\* it does not yield): the run is recorded cancelled, whatever its worker had
\* recorded, and the kill goes on with the frame below.
WorkerAwaited(k) ==
    LET top == Top(kills[k]) IN
    /\ kills[k] # << >> /\ top.todo = {} /\ ~Live(top.of)
    /\ loop = 0 \/ (loop = k /\ Len(kills[k]) = 1)
    /\ status' = [status EXCEPT ![top.of] = "cancelled"]
    /\ record' = [record EXCEPT ![top.of] = "cancelled"]
    /\ kills' = [kills EXCEPT ![k] = Pop(@)]
    /\ loop' = IF Len(kills[k]) > 1 THEN k ELSE 0
    /\ UNCHANGED <<identity, session, pc, inbox, cancel, doomed, stopped>>

KillStep(k) == Descend(k) \/ PassOver(k) \/ CancelWorker(k) \/ WorkerAwaited(k)

\* shutdown: every worker that is not done is cancelled.
Shutdown ==
    /\ ~stopped /\ loop = 0
    /\ stopped' = TRUE
    /\ cancel' = [r \in Runs |-> Live(r)]
    /\ UNCHANGED <<identity, work, killers>>

Next ==
    \/ \E s \in Roots \cup Runs, m \in Modes : Spawn(s, m)
    \/ \E r \in Runs : WorkerStep(r) \/ Steer(r) \/ Kill(r) \/ KillStep(r)
    \/ Shutdown

Spec == Init /\ [][Next]_vars

\* Fairness: the event loop runs a coroutine that can run, and a turn ends
\* (the model, its tools and run_timeout_seconds bound it).
Fairness ==
    /\ \A r \in Runs : WF_vars(WorkerStep(r))
    /\ \A k \in Runs : WF_vars(KillStep(k))

LiveSpec == Spec /\ Fairness

-----------------------------------------------------------------------------
\* TypeOK: every variable keeps its shape.
TypeOK ==
    /\ count \in 0 .. MaxRuns
    /\ mode \in [Runs -> {"run", "session"}]
    /\ owner \in [Runs -> Roots \cup Runs \cup {0}]
    /\ parent \in [Runs -> Runs \cup {0}] /\ depth \in [Runs -> Nat]
    /\ session \in [Runs -> BOOLEAN]
    /\ status \in [Runs -> Statuses] /\ record \in [Runs -> Statuses]
    /\ pc \in [Runs -> WorkerPCs \cup {"none", "dead"}]
    /\ inbox \in [Runs -> Nat] /\ cancel \in [Runs -> BOOLEAN]
    /\ kills \in [Runs -> Seq(Frames)] /\ loop \in Runs \cup {0}
    /\ doomed \in [Runs -> SUBSET Runs] /\ stopped \in BOOLEAN

\* LimitsHold: a run that left the active statuses never comes back to them,
\* so the spawn limits hold at any time, whatever is steered, killed or
\* cancelled (subagents.py:208-262).
LimitsHold ==
    /\ Cardinality(Active) <= MaxConcurrent
    /\ \A s \in Roots \cup Runs :
         Cardinality({r \in Active : owner[r] = s}) <= MaxPerSession

\* TreeIsShallow: the runs form a forest of at most MaxDepth levels, a child
\* one level below the run whose session spawned it (subagents.py:231-253).
TreeIsShallow ==
    \A r \in Spawned :
        /\ depth[r] <= MaxDepth
        /\ IF parent[r] = 0 THEN depth[r] = 1
           ELSE parent[r] < r /\ depth[r] = depth[parent[r]] + 1

\* RunningIsWorking: a run its task record calls running is in a turn, so no
\* ending of a worker leaves such a record behind (subagents.py:552-634).
RunningIsWorking == \A r \in Spawned : record[r] = "running" => pc[r] = "turn"

\* RecordAgrees: once a worker is done, the run and its task record have the
\* same status, however it ended.
RecordAgrees == \A r \in Spawned : pc[r] = "dead" => record[r] = status[r]

\* OutcomeIsFinal: a recorded outcome is only ever replaced by "cancelled",
\* the outcome a kill of the run writes (subagents.py:378-397, 426-433).
OutcomeIsFinal ==
    [][\A r \in Spawned :
         record[r] \in FinalStatuses => record'[r] \in {record[r], "cancelled"}]_vars

\* KillIsThorough: when a kill of k ends, the workers of k, of its children
\* and of their children that were alive when it began are all done, although
\* the kill awaits each of them and others run meanwhile
\* (subagents.py:355-447).
KillIsThorough ==
    [][\A k \in Runs : kills[k] # << >> /\ kills'[k] = << >> =>
         \A r \in doomed[k] : ~Live(r)']_vars

\* KillsEnd: a kill answers, however many runs it has to end and whatever is
\* spawned, steered or killed meanwhile.
KillsEnd == \A k \in Runs : kills[k] # << >> ~> kills[k] = << >>

-----------------------------------------------------------------------------
\* Properties the repository states and the code does not keep.

Ancestors[r \in 0 .. MaxRuns] ==
    IF r = 0 \/ parent[r] \notin 1 .. (r - 1) THEN {}
    ELSE {parent[r]} \cup Ancestors[parent[r]]

\* KillReachesAll: once a kill of k has ended, no descendant of k is alive:
\* _cascade_kill cancels "all descendants of run_id" (subagents.py:409).
KillReachesAll ==
    [][\A k \in Runs : kills[k] # << >> /\ kills'[k] = << >> =>
         \A r \in Spawned : k \in Ancestors[r] => ~Live(r)']_vars

=============================================================================
