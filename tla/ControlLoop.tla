------------------------------ MODULE ControlLoop ------------------------------
(***************************************************************************)
(* The Planner - PolicyJudge - Executor - Verifier loop on one session     *)
(* (src/src/control_loop/root_workflow.py, callbacks.py), with the ways    *)
(* the gateway starts it, answers its approval requests and cancels it.    *)
(*                                                                         *)
(* Several runs may be inside the loop on the same session: the WebSocket  *)
(* route cancels the run it replaces, the HTTP, cron, supervisor and       *)
(* replay routes do not look for one.                                      *)
(*                                                                         *)
(* Only the three agents really await (a model call, a tool): a run is     *)
(* "planning", "executing" or "verifying", and everything between two of   *)
(* them is one step.  That is so with the default in-memory session        *)
(* service, whose methods never suspend.  An agent works on the copy of    *)
(* the session it is started with and adds what it changed to the session  *)
(* as it is when the agent ends.                                           *)
(***************************************************************************)
EXTENDS Naturals, FiniteSets

CONSTANTS
    Runs,        \* slots of runs that are in the loop at the same time
    Goals,       \* task goals
    Memorable,   \* goals whose memory candidates reach the curator's scores
    Plans,       \* identities of plans; a dropped one is used again
    NoGoal, NoPlan,
    MaxRepair,   \* DEFAULT_MAX_REPAIR_ATTEMPTS
    KeepsTemp    \* the session service keeps "temp:" keys between agents

ASSUME ControlLoopAssumption ==
    /\ NoGoal \notin Goals /\ NoPlan \notin Plans
    /\ Memorable \subseteq Goals
    /\ MaxRepair \in Nat /\ KeepsTemp \in BOOLEAN

VARIABLES
    st,          \* session.state
    run,         \* the runs
    goalOf,      \* the goal a plan was made for
    asked,       \* approval requests the operator was shown, by their plan
    candidates,  \* memorable goals the store has a candidate about
    memories,    \* goals a promoted memory says were completed
    licensed,    \* history: plans the policy or the operator approved
    passed,      \* history: memorable goals a run has succeeded with
    crossed      \* history: a session was reset while another run used it

stores == <<candidates, memories, passed>>
vars == <<st, run, goalOf, asked, candidates, memories, licensed, passed, crossed>>

\* approval:status; "absent" before any judgement, "none" after a reset.
Approved == {"policy_approved", "human_approved"}
Approvals == Approved \cup {"absent", "none", "needs_human", "denied"}

\* A session that does not exist has goal NoGoal.  request is the plan the
\* pending approval request was made with (both get a fresh id together).
Sessions ==
    [goal : Goals \cup {NoGoal}, plan : Plans \cup {NoPlan},
     approval : Approvals, request : Plans \cup {NoPlan},
     report : {"none", "pass", "fail", "garbage"},
     repairs : 0 .. MaxRepair, patch : BOOLEAN,
     replay : {"absent", "none", "set"}]

NoSession ==
    [goal |-> NoGoal, plan |-> NoPlan, approval |-> "absent", request |-> NoPlan,
     report |-> "none", repairs |-> 0, patch |-> FALSE, replay |-> "absent"]

\* A run.  plan: what its executor was started with, at the end what its result
\* names; aim: the goal its planner sees; seen, tried: the plan and the repair
\* count its verifier sees.  "ended" stands for every result but success: refused,
\* denied, needs_human and failed.
EndPCs == {"succeeded", "ended"}
AgentPCs == {"planning", "executing", "verifying"}
RunStates ==
    [pc : AgentPCs \cup EndPCs \cup {"idle", "starting"}, goal : Goals \cup {NoGoal},
     attempt : 0 .. MaxRepair, plan : Plans \cup {NoPlan},
     aim : Goals \cup {NoGoal}, seen : Plans \cup {NoPlan},
     tried : 0 .. MaxRepair]

IdleRun ==
    [pc |-> "idle", goal |-> NoGoal, attempt |-> 0, plan |-> NoPlan, aim |-> NoGoal,
     seen |-> NoPlan, tried |-> 0]

Free(r) == run[r].pc \in {"idle"} \cup EndPCs
InLoop(r) == run[r].pc \in AgentPCs

-----------------------------------------------------------------------------
\* What the code reads off a session.

\* _workflow_is_terminal
Terminal(s) ==
    /\ ~(s.approval = "needs_human" /\ s.request # NoPlan)
    /\ s.approval = "denied" \/ s.report \in {"pass", "fail"}

\* Mutant of Resumes: any plan will do.
Resumes_AnyPlan(s, attempt) ==
    /\ s.plan # NoPlan
    /\ attempt = 0 \/ s.replay = "set" \/ s.patch

\* _should_resume_existing_plan
Resumes(s, attempt) ==
    /\ s.plan # NoPlan /\ s.approval \in Approved
    /\ attempt = 0 \/ s.replay = "set" \/ s.patch

-----------------------------------------------------------------------------
\* _get_or_create_session.  seed is the plan of a tail replay, or NoPlan: its
\* initial state brings the plan in as already approved by the operator.

Seeded(s, seed) ==
    IF seed = NoPlan THEN s
    ELSE [s EXCEPT !.plan = seed, !.approval = "human_approved",
                   !.request = NoPlan, !.replay = "set"]

Created(g, seed) == Seeded([NoSession EXCEPT !.goal = g], seed)

\* _build_next_goal_state: every key is there, and empty.
Emptied(g) == [NoSession EXCEPT !.goal = g, !.approval = "none", !.replay = "none"]

\* Only keys the session does not have yet are taken from the initial state.
\* The judge writes plan, approval and request together.
Bootstrapped(s, seed) ==
    IF seed = NoPlan THEN s
    ELSE IF s.approval = "absent" THEN Seeded(s, seed)
    ELSE IF s.replay = "absent" THEN [s EXCEPT !.replay = "set"]
    ELSE s

\* Mutant of Refused: another goal is taken up in the middle of a workflow.
Refused_Never(g) == FALSE

Refused(g) == st.goal \notin {NoGoal, g} /\ ~Terminal(st)

Resets(g, reset) == st.goal # NoGoal /\ Terminal(st) /\ (reset \/ st.goal # g)

Opened(g, reset, seed) ==
    IF st.goal = NoGoal THEN Created(g, seed)
    ELSE IF Resets(g, reset) THEN Seeded(Emptied(g), seed)
    ELSE Bootstrapped(st, seed)

-----------------------------------------------------------------------------
\* One iteration: resume the plan that is there, or have the planner make one.
Entered(g, s, attempt) ==
    IF Resumes(s, attempt)
    THEN [IdleRun EXCEPT !.pc = "executing", !.goal = g, !.attempt = attempt,
                         !.plan = s.plan]
    ELSE [IdleRun EXCEPT !.pc = "planning", !.goal = g, !.attempt = attempt,
                         !.aim = s.goal]

\* The record of an ended run.
Ended(r, pc, s) ==
    [IdleRun EXCEPT !.pc = pc, !.goal = run[r].goal, !.plan = s.plan]

\* The head of run(): the session is opened and the first iteration entered.
Opens(r, g, reset, seed) ==
    IF Refused(g)
    THEN /\ run' = [run EXCEPT ![r] = [IdleRun EXCEPT !.pc = "ended"]]
         /\ UNCHANGED <<st, crossed>>
    ELSE /\ st' = Opened(g, reset, seed)
         /\ run' = [run EXCEPT ![r] = Entered(g, st', 0)]
         /\ crossed' = (crossed \/ (Resets(g, reset) /\ \E q \in Runs : InLoop(q)))

\* A run over WebSocket control.run, cron or the supervisor (reset is FALSE),
\* chat or HTTP (TRUE).
Start(r, g, reset) ==
    /\ Free(r)
    /\ Opens(r, g, reset, NoPlan)
    /\ UNCHANGED <<goalOf, asked, licensed, stores>>

\* POST /tasks/{id}/replay with from_step: the plan of an ended run again.  Where
\* its initial state is taken, the operator's request approves the plan.
TakesSeed(g) ==
    /\ ~Refused(g)
    /\ st.goal = NoGoal \/ Resets(g, TRUE) \/ st.approval = "absent"

Replay(r, source) ==
    LET g == run[source].goal
        seed == run[source].plan IN
    /\ Free(r) /\ run[source].pc \in EndPCs /\ seed # NoPlan
    /\ Opens(r, g, TRUE, seed)
    /\ licensed' = IF TakesSeed(g) THEN licensed \cup {seed} ELSE licensed
    /\ UNCHANGED <<goalOf, asked, stores>>

-----------------------------------------------------------------------------
\* policy_judge_callback: what it makes of the planner's answer.

\* No draft, or one that cannot be parsed.
JudgedUnreadable(s) == [s EXCEPT !.approval = "denied"]
\* A capability that is never allowed.
JudgedForbidden(s) == [s EXCEPT !.approval = "denied", !.request = NoPlan]

\* A capability or a risk that the operator has to approve.
JudgedCritical(s, p) ==
    [s EXCEPT !.approval = "needs_human", !.request = p, !.plan = p]
\* Anything else the policy approves by itself.
JudgedHarmless(s, p) ==
    [s EXCEPT !.approval = "policy_approved", !.request = NoPlan, !.plan = p]

Fresh(p) ==
    /\ p \notin {st.plan, st.request} \cup asked
    /\ \A r \in Runs : p \notin {run[r].plan, run[r].seen}

\* The planner made no plan, or a forbidden one: the run ends.
PlannerFails(r) ==
    /\ run[r].pc = "planning"
    /\ st' \in {JudgedUnreadable(st), JudgedForbidden(st)}
    /\ run' = [run EXCEPT ![r] = Ended(r, "ended", st')]
    /\ UNCHANGED <<goalOf, asked, licensed, crossed, stores>>

\* The run ends, and its caller shows the operator the request.
PlanNeedsHuman(r, p) ==
    /\ run[r].pc = "planning" /\ Fresh(p)
    /\ st' = JudgedCritical(st, p)
    /\ goalOf' = [goalOf EXCEPT ![p] = run[r].aim]
    /\ licensed' = licensed \ {p}
    /\ run' = [run EXCEPT ![r] = Ended(r, "ended", st')]
    /\ asked' = asked \cup {st'.request}
    /\ UNCHANGED <<crossed, stores>>

\* The plan passes the policy, and the executor is started with it.
PlanApproved(r, p) ==
    /\ run[r].pc = "planning" /\ Fresh(p)
    /\ st' = JudgedHarmless(st, p)
    /\ goalOf' = [goalOf EXCEPT ![p] = run[r].aim]
    /\ licensed' = licensed \cup {p}
    /\ run' = [run EXCEPT ![r].pc = "executing", ![r].plan = p, ![r].aim = NoGoal]
    /\ UNCHANGED <<asked, crossed, stores>>

PlannerReturns(r) ==
    \/ PlannerFails(r)
    \/ \E p \in Plans : PlanNeedsHuman(r, p) \/ PlanApproved(r, p)

\* The executor ends, whatever it achieved; the verifier is started.
ExecutorReturns(r) ==
    /\ run[r].pc = "executing"
    /\ run' = [run EXCEPT ![r].pc = "verifying", ![r].seen = st.plan,
                          ![r].tried = st.repairs]
    /\ UNCHANGED <<st, goalOf, asked, licensed, crossed, stores>>

-----------------------------------------------------------------------------
\* The end of an iteration: the verifier's callbacks, then the corrections that
\* run() makes to the report.

\* What is written under a "temp:" key in one agent's invocation is only there in
\* the next if the session service keeps it.
Kept(patch, s) == IF KeepsTemp THEN patch ELSE s.patch

\* repair_callback, from the repair count r's verifier was started with.
AfterPass(s) ==
    [s EXCEPT !.report = "pass", !.repairs = 0, !.patch = Kept(FALSE, s)]

AfterFail(r, s) ==
    IF run[r].tried >= MaxRepair THEN [s EXCEPT !.report = "fail"]
    ELSE [s EXCEPT !.report = "fail", !.repairs = run[r].tried + 1,
                   !.patch = Kept(TRUE, s)]
AfterGarbage(s) == [s EXCEPT !.report = "garbage"]

\* _maybe_promote_visual_playback_report: a failed report becomes a passed one.
Promoted(s) == [s EXCEPT !.report = "pass", !.repairs = 0, !.patch = Kept(FALSE, s)]
\* _demote_browser_text_entry_report: a passed report becomes a failed one; so
\* does, with the same effect, a failed one in _retarget_browser_text_entry_repair.
Demoted(s) == [s EXCEPT !.report = "fail", !.patch = Kept(TRUE, s)]

\* The replay context: cleared by a pass, set when a failure names a step.
WithReplay(s, tail) ==
    IF s.report = "pass" THEN [s EXCEPT !.replay = "none"]
    ELSE IF tail THEN [s EXCEPT !.replay = "set"]
    ELSE s

\* curator_callback: candidates are registered on the verifier's own pass.
Curated(r) ==
    IF run[r].seen = NoPlan THEN candidates
    ELSE candidates \cup ({goalOf[run[r].seen]} \cap Memorable)

\* The last report passed: the session's candidates are reviewed, some of them
\* promoted (the others lose against memories that are there).
Succeeds(r, s, cands) ==
    /\ st' = s
    /\ run' = [run EXCEPT ![r] = Ended(r, "succeeded", s)]
    /\ passed' = passed \cup ({run[r].goal} \cap Memorable)
    /\ candidates' = {}
    /\ \E chosen \in SUBSET cands : memories' = memories \cup chosen

\* It did not: the run goes round again while there is a patch and repairs are
\* left, for MaxRepair + 1 iterations at most.
MayRepair(r, s) == s.patch /\ s.repairs < MaxRepair /\ run[r].attempt < MaxRepair

FallsShort(r, s, cands) ==
    /\ st' = s
    /\ run' = [run EXCEPT ![r] =
                 IF MayRepair(r, s)
                 THEN Entered(run[r].goal, s, run[r].attempt + 1)
                 ELSE Ended(r, "ended", s)]
    /\ candidates' = cands
    /\ UNCHANGED <<memories, passed>>

VerifierPasses(r) ==
    /\ run[r].pc = "verifying"
    /\ Succeeds(r, WithReplay(AfterPass(st), FALSE), Curated(r))
    /\ UNCHANGED <<goalOf, asked, licensed, crossed>>

VerifierPassIsDemoted(r) ==
    /\ run[r].pc = "verifying"
    /\ \E tail \in BOOLEAN :
           FallsShort(r, WithReplay(Demoted(AfterPass(st)), tail), Curated(r))
    /\ UNCHANGED <<goalOf, asked, licensed, crossed>>

VerifierFails(r) ==
    /\ run[r].pc = "verifying"
    /\ \E tail \in BOOLEAN, s \in {AfterFail(r, st), AfterGarbage(st),
                                   Demoted(AfterFail(r, st)),
                                   Demoted(Promoted(AfterFail(r, st)))} :
           FallsShort(r, WithReplay(s, tail), candidates)
    /\ UNCHANGED <<goalOf, asked, licensed, crossed>>

VerifierFailureIsPromoted(r) ==
    /\ run[r].pc = "verifying"
    /\ Succeeds(r, WithReplay(Promoted(AfterFail(r, st)), FALSE), candidates)
    /\ UNCHANGED <<goalOf, asked, licensed, crossed>>

VerifierReturns(r) ==
    \/ VerifierPasses(r) \/ VerifierPassIsDemoted(r)
    \/ VerifierFails(r) \/ VerifierFailureIsPromoted(r)

-----------------------------------------------------------------------------
\* The operator answers a request: _resolve_tool_approval_request, or the
\* endpoint /control-loop/approve.  resolve_human_approval takes the answer only
\* if the request is the session's pending one.

Answerable(p) == st.plan # NoPlan /\ st.request = p

AnswerIgnored(p) ==
    /\ p \in asked /\ ~Answerable(p)
    /\ asked' = asked \ {p}
    /\ UNCHANGED <<st, run, goalOf, licensed, crossed, stores>>

Denied(p) ==
    /\ p \in asked /\ Answerable(p)
    /\ st' = [st EXCEPT !.approval = "denied", !.request = NoPlan]
    /\ asked' = asked \ {p}
    /\ UNCHANGED <<run, goalOf, licensed, crossed, stores>>

\* Approval: where get_pending_approval had found the request too, a run with the
\* session's goal is started; it opens the session later.
Granted(p, r) ==
    /\ p \in asked /\ Answerable(p)
    /\ st' = [st EXCEPT !.approval = "human_approved", !.request = NoPlan]
    /\ IF st.approval = "needs_human"
       THEN /\ Free(r)
            /\ run' = [run EXCEPT ![r] = [IdleRun EXCEPT !.pc = "starting",
                                               !.goal = st.goal, !.plan = p]]
       ELSE run' = run
    /\ asked' = asked \ {p}
    /\ licensed' = licensed \cup {p}
    /\ UNCHANGED <<goalOf, crossed, stores>>

Answer(p) == AnswerIgnored(p) \/ Denied(p) \/ \E r \in Runs : Granted(p, r)

StartApproved(r) ==
    /\ run[r].pc = "starting"
    /\ Opens(r, run[r].goal, FALSE, NoPlan)
    /\ UNCHANGED <<goalOf, asked, licensed, stores>>

\* chat.abort, or a new run over the same WebSocket session: the task is
\* cancelled at its await; nothing of the loop undoes what it did.
Cancel(r) ==
    /\ run[r].pc \in AgentPCs \cup {"starting"}
    /\ run' = [run EXCEPT ![r] = IdleRun]
    /\ UNCHANGED <<st, goalOf, asked, licensed, crossed, stores>>

\* The process ends and starts again: in-memory sessions and all runs are gone,
\* the memory stores are on disk, and so are the plans in the task records.
Restart ==
    /\ st' = NoSession
    /\ run' = [r \in Runs |-> IF run[r].pc \in EndPCs THEN run[r] ELSE IdleRun]
    /\ UNCHANGED <<goalOf, asked, licensed, crossed, stores>>

-----------------------------------------------------------------------------
Init ==
    /\ st = NoSession
    /\ run = [r \in Runs |-> IdleRun]
    /\ goalOf = [p \in Plans |-> NoGoal]
    /\ asked = {} /\ candidates = {} /\ memories = {}
    /\ licensed = {} /\ passed = {} /\ crossed = FALSE

Agent(r) == PlannerReturns(r) \/ ExecutorReturns(r) \/ VerifierReturns(r)

Caller(r) ==
    \/ \E g \in Goals, reset \in BOOLEAN : Start(r, g, reset)
    \/ \E source \in Runs : Replay(r, source)
    \/ Cancel(r)

Next ==
    \/ \E r \in Runs : Agent(r) \/ Caller(r) \/ StartApproved(r)
    \/ \E p \in Plans : Answer(p)
    \/ Restart

Spec == Init /\ [][Next]_vars

-----------------------------------------------------------------------------
TypeOK ==
    /\ crossed \in BOOLEAN
    /\ st \in Sessions
    /\ run \in [Runs -> RunStates]
    /\ goalOf \in [Plans -> Goals \cup {NoGoal}]
    /\ asked \subseteq Plans /\ licensed \subseteq Plans
    /\ candidates \subseteq Memorable /\ memories \subseteq Memorable
    /\ passed \subseteq Memorable

\* What an executor is started with was approved: by the policy, by the operator
\* who was shown this very plan, or by the operator's replay of it.  No order of
\* runs, answers, resets and replays on one session gets round the gate that run()
\* reads from session state.
ExecutesLicensed ==
    \A r \in Runs : run[r].pc \in {"executing", "verifying"} => run[r].plan \in licensed

\* The pending request shows the plan that the session would go on with: an answer
\* to it cannot approve another plan than the one the operator read.
RequestShowsPlan ==
    st.request # NoPlan => st.request = st.plan

\* While no run had the session reset under it, the plan in a session was made for
\* the session's goal.
PlanFitsGoal ==
    ~crossed /\ st.plan # NoPlan => goalOf[st.plan] = st.goal

\* Under the same condition a run reports success only for its own goal: the plan
\* its executor had was made for it.
SuccessIsOwn ==
    [][\A r \in Runs :
          run'[r].pc = "succeeded" /\ run[r].pc = "verifying" /\ ~crossed
              => goalOf[run[r].plan] = run[r].goal]_vars

\* A memory says that a goal was completed only if a run completed it.
MemoriesAreEarned == memories \subseteq passed

\* Every run ends, however often its verifier fails: an agent that returns ends
\* the run or takes it further in an order that the attempts bound.
Rank(x) ==
    3 * x.attempt + (CASE x.pc = "planning" -> 0 [] x.pc = "executing" -> 1
                       [] OTHER -> 2)

RunsGoForward ==
    [][\A r \in Runs :
          InLoop(r) /\ run'[r].pc \in AgentPCs /\ run'[r] # run[r]
              => Rank(run[r]) < Rank(run'[r])]_vars

=============================================================================
