--------------------------- MODULE ControlLoopProofs ---------------------------
(***************************************************************************)
(* Proofs about ControlLoop, for any number of runs, goals and plans, any  *)
(* repair limit and either treatment of "temp:" keys.                      *)
(*                                                                         *)
(* Two inductive invariants are stacked.  Licences adds to the checked     *)
(* properties that an approved session's plan is licensed.  Purposes adds  *)
(* that the runs in the loop share the session's goal, that a planner aims *)
(* at its run's goal, and that the plan in a run's record was made for the *)
(* run's goal: this is what a replay and an answer start from.             *)
(***************************************************************************)
EXTENDS ControlLoop, TLAPS

-----------------------------------------------------------------------------
\* What opening a session makes of it, with a seed or without.

LEMMA SeededIsSession ==
    ASSUME NEW s \in Sessions, NEW seed \in Plans \cup {NoPlan}
    PROVE  Seeded(s, seed) \in Sessions
BY ZenonT(40) DEF Seeded, Sessions, Approvals, Approved

LEMMA EmptySessions ==
    ASSUME NEW g \in Goals \cup {NoGoal}
    PROVE  [NoSession EXCEPT !.goal = g] \in Sessions /\ Emptied(g) \in Sessions
<1>1. NoSession \in Sessions
  BY ControlLoopAssumption DEF Sessions, NoSession, Approvals
<1>2. [NoSession EXCEPT !.goal = g] \in Sessions
  BY <1>1 DEF Sessions
<1>3. DEFINE e == [NoSession EXCEPT !.goal = g, !.approval = "none", !.replay = "none"]
<1>4. e \in Sessions
  BY <1>1 DEF Sessions, Approvals
<1> QED
  BY <1>2, <1>4 DEF Emptied

LEMMA OpenedIsSession ==
    ASSUME TypeOK, NEW g \in Goals \cup {NoGoal}, NEW reset \in BOOLEAN,
           NEW seed \in Plans \cup {NoPlan}
    PROVE  Opened(g, reset, seed) \in Sessions
<1>1. Created(g, seed) \in Sessions
  BY EmptySessions, SeededIsSession DEF Created
<1>2. Seeded(Emptied(g), seed) \in Sessions
  BY EmptySessions, SeededIsSession
<1>3. Bootstrapped(st, seed) \in Sessions
  <2>1. [st EXCEPT !.replay = "set"] \in Sessions /\ st \in Sessions
    BY DEF TypeOK, Sessions
  <2> QED
    BY <2>1, SeededIsSession DEF Bootstrapped
<1> QED
  BY <1>1, <1>2, <1>3 DEF Opened

\* Whatever iteration a run enters, its record has the right shape.
LEMMA IdleRunIsRun ==
    IdleRun \in RunStates
BY ControlLoopAssumption DEF RunStates, IdleRun, EndPCs, AgentPCs

LEMMA EnteredIsRun ==
    ASSUME NEW g \in Goals \cup {NoGoal}, NEW s \in Sessions, NEW a \in 0 .. MaxRepair
    PROVE  /\ Entered(g, s, a) \in RunStates
           /\ Entered(g, s, a).pc = IF Resumes(s, a) THEN "executing" ELSE "planning"
           /\ Entered(g, s, a).plan = IF Resumes(s, a) THEN s.plan ELSE NoPlan
           /\ Entered(g, s, a).aim = IF Resumes(s, a) THEN NoGoal ELSE s.goal
           /\ Entered(g, s, a).goal = g /\ Entered(g, s, a).attempt = a
<1>1. CASE Resumes(s, a)
  <2> DEFINE x == [IdleRun EXCEPT !.pc = "executing", !.goal = g, !.attempt = a,
                                  !.plan = s.plan]
  <2>1. x \in RunStates
    BY IdleRunIsRun DEF RunStates, Sessions, AgentPCs
  <2>2. x.pc = "executing" /\ x.plan = s.plan /\ x.aim = NoGoal /\ x.goal = g
        /\ x.attempt = a
    BY DEF IdleRun
  <2> QED
    BY <1>1, <2>1, <2>2 DEF Entered
<1>2. CASE ~Resumes(s, a)
  <2> DEFINE x == [IdleRun EXCEPT !.pc = "planning", !.goal = g, !.attempt = a,
                                  !.aim = s.goal]
  <2>1. x \in RunStates
    BY IdleRunIsRun DEF RunStates, Sessions, AgentPCs
  <2>2. x.pc = "planning" /\ x.plan = NoPlan /\ x.aim = s.goal /\ x.goal = g
        /\ x.attempt = a
    BY DEF IdleRun
  <2> QED
    BY <1>2, <2>1, <2>2 DEF Entered
<1> QED
  BY <1>1, <1>2

\* Opening a session moves one run only, into the loop or to its end.
LEMMA OpensKeepsTypes ==
    ASSUME TypeOK, NEW r \in Runs, NEW g \in Goals \cup {NoGoal}, NEW reset \in BOOLEAN,
           NEW seed \in Plans \cup {NoPlan}, Opens(r, g, reset, seed)
    PROVE  st' \in Sessions /\ run' \in [Runs -> RunStates] /\ crossed' \in BOOLEAN
<1>1. CASE Refused(g)
  BY <1>1, ControlLoopAssumption
  DEF Opens, TypeOK, RunStates, IdleRun, EndPCs, AgentPCs
<1>2. CASE ~Refused(g)
  <2>1. st' \in Sessions
    BY <1>2, OpenedIsSession DEF Opens
  <2>2. Entered(g, st', 0) \in RunStates
    BY <2>1, EnteredIsRun, ControlLoopAssumption
  <2>3. crossed' \in BOOLEAN
    BY <1>2, Zenon DEF Opens, TypeOK
  <2> QED
    BY <1>2, <2>1, <2>2, <2>3 DEF Opens, TypeOK
<1> QED
  BY <1>1, <1>2

-----------------------------------------------------------------------------
\* The end of an iteration.  Whatever becomes of the report, the session's goal,
\* plan, approval and request stay what they were.
KeepsPlan(s) ==
    /\ s \in Sessions
    /\ s.goal = st.goal /\ s.plan = st.plan
    /\ s.approval = st.approval /\ s.request = st.request

LEMMA RewrittenSession ==
    ASSUME NEW s, KeepsPlan(s), NEW report \in {"none", "pass", "fail", "garbage"},
           NEW n \in 0 .. MaxRepair, NEW b \in BOOLEAN
    PROVE  /\ KeepsPlan([s EXCEPT !.report = report, !.repairs = n, !.patch = b])
           /\ KeepsPlan([s EXCEPT !.report = report, !.patch = b])
           /\ KeepsPlan([s EXCEPT !.report = report])
<1> DEFINE x == [s EXCEPT !.report = report, !.repairs = n, !.patch = b]
           y == [s EXCEPT !.report = report, !.patch = b]
           z == [s EXCEPT !.report = report]
<1>1. x \in Sessions /\ y \in Sessions /\ z \in Sessions
  BY DEF KeepsPlan, Sessions
<1>2. /\ x.goal = st.goal /\ x.plan = st.plan
      /\ x.approval = st.approval /\ x.request = st.request
      /\ y.goal = st.goal /\ y.plan = st.plan
      /\ y.approval = st.approval /\ y.request = st.request
      /\ z.goal = st.goal /\ z.plan = st.plan
      /\ z.approval = st.approval /\ z.request = st.request
  BY DEF KeepsPlan, Sessions
<1> QED
  BY <1>1, <1>2 DEF KeepsPlan

LEMMA KeptIsBoolean ==
    ASSUME NEW s, KeepsPlan(s), NEW b \in BOOLEAN
    PROVE  Kept(b, s) \in BOOLEAN
BY DEF Kept, KeepsPlan, Sessions

LEMMA CorrectionsKeepPlan ==
    ASSUME NEW s, KeepsPlan(s), NEW tail \in BOOLEAN
    PROVE  /\ KeepsPlan(Promoted(s)) /\ KeepsPlan(Demoted(s))
           /\ KeepsPlan(WithReplay(s, tail)) /\ KeepsPlan(AfterPass(s))
           /\ KeepsPlan(AfterGarbage(s))
<1>1. 0 \in 0 .. MaxRepair
  BY ControlLoopAssumption
<1>2. Kept(TRUE, s) \in BOOLEAN /\ Kept(FALSE, s) \in BOOLEAN
  BY KeptIsBoolean, Zenon
<1>3. KeepsPlan(WithReplay(s, tail))
  BY DEF WithReplay, KeepsPlan, Sessions
<1> QED
  BY <1>1, <1>2, <1>3, RewrittenSession DEF Promoted, Demoted, AfterPass, AfterGarbage

LEMMA FailuresKeepPlan ==
    ASSUME TypeOK, NEW r \in Runs
    PROVE  KeepsPlan(st) /\ KeepsPlan(AfterFail(r, st))
<1>1. KeepsPlan(st)
  BY DEF TypeOK, KeepsPlan
<1>2. CASE run[r].tried >= MaxRepair
  <2>1. 0 \in 0 .. MaxRepair
    BY ControlLoopAssumption
  <2> QED
    BY <1>1, <1>2, <2>1, RewrittenSession, Zenon DEF AfterFail
<1>3. CASE ~(run[r].tried >= MaxRepair)
  <2>1. run[r].tried + 1 \in 0 .. MaxRepair
    BY <1>3, ControlLoopAssumption DEF TypeOK, RunStates
  <2>2. Kept(TRUE, st) \in BOOLEAN
    BY <1>1, KeptIsBoolean
  <2> QED
    BY <1>1, <1>3, <2>1, <2>2, RewrittenSession DEF AfterFail
<1> QED
  BY <1>1, <1>2, <1>3

\* What every return of a verifier has in common.
Verdict(r, s) ==
    /\ run[r].pc = "verifying" /\ KeepsPlan(s) /\ st' = s
    /\ \/ \E pc \in EndPCs : run' = [run EXCEPT ![r] = Ended(r, pc, s)]
       \/ /\ run[r].attempt < MaxRepair
          /\ run' = [run EXCEPT ![r] = Entered(run[r].goal, s, run[r].attempt + 1)]
    /\ UNCHANGED <<goalOf, asked, licensed, crossed>>

LEMMA SucceedsIsVerdict ==
    ASSUME NEW r \in Runs, NEW s, NEW cands, KeepsPlan(s), run[r].pc = "verifying",
           Succeeds(r, s, cands), UNCHANGED <<goalOf, asked, licensed, crossed>>
    PROVE  Verdict(r, s)
BY DEF Succeeds, Verdict, EndPCs

LEMMA FallsShortIsVerdict ==
    ASSUME NEW r \in Runs, NEW s, NEW cands, KeepsPlan(s), run[r].pc = "verifying",
           FallsShort(r, s, cands), UNCHANGED <<goalOf, asked, licensed, crossed>>
    PROVE  Verdict(r, s)
<1>1. CASE MayRepair(r, s)
  BY <1>1 DEF FallsShort, MayRepair, Verdict
<1>2. CASE ~MayRepair(r, s)
  BY <1>2 DEF FallsShort, Verdict, EndPCs
<1> QED
  BY <1>1, <1>2

LEMMA VerifierGivesVerdict ==
    ASSUME TypeOK, NEW r \in Runs, VerifierReturns(r)
    PROVE  \E s : Verdict(r, s)
<1>1. CASE VerifierPasses(r)
  BY <1>1, FailuresKeepPlan, CorrectionsKeepPlan, SucceedsIsVerdict DEF VerifierPasses
<1>2. CASE VerifierPassIsDemoted(r)
  <2>1. PICK tail \in BOOLEAN :
            FallsShort(r, WithReplay(Demoted(AfterPass(st)), tail), Curated(r))
    BY <1>2 DEF VerifierPassIsDemoted
  <2> QED
    BY <1>2, <2>1, FailuresKeepPlan, CorrectionsKeepPlan, FallsShortIsVerdict
    DEF VerifierPassIsDemoted
<1>3. CASE VerifierFails(r)
  <2>1. PICK tail \in BOOLEAN, s \in {AfterFail(r, st), AfterGarbage(st),
                                      Demoted(AfterFail(r, st)),
                                      Demoted(Promoted(AfterFail(r, st)))} :
            FallsShort(r, WithReplay(s, tail), candidates)
    BY <1>3 DEF VerifierFails
  <2>2. KeepsPlan(s)
    BY <2>1, FailuresKeepPlan, CorrectionsKeepPlan
  <2> QED
    BY <1>3, <2>1, <2>2, CorrectionsKeepPlan, FallsShortIsVerdict DEF VerifierFails
<1>4. CASE VerifierFailureIsPromoted(r)
  BY <1>4, FailuresKeepPlan, CorrectionsKeepPlan, SucceedsIsVerdict
  DEF VerifierFailureIsPromoted
<1> QED
  BY <1>1, <1>2, <1>3, <1>4 DEF VerifierReturns

\* The memory stores only ever hold memorable goals.
LEMMA VerifierKeepsStores ==
    ASSUME TypeOK, NEW r \in Runs, VerifierReturns(r)
    PROVE  /\ candidates' \subseteq Memorable /\ memories' \subseteq Memorable
           /\ passed' \subseteq Memorable
<1>1. Curated(r) \subseteq Memorable /\ candidates \subseteq Memorable
  BY DEF Curated, TypeOK
<1> QED
  BY <1>1 DEF VerifierReturns, VerifierPasses, VerifierPassIsDemoted, VerifierFails,
              VerifierFailureIsPromoted, Succeeds, FallsShort, TypeOK

LEMMA EndedIsRun ==
    ASSUME TypeOK, NEW r \in Runs, NEW pc \in EndPCs, NEW s \in Sessions
    PROVE  /\ Ended(r, pc, s) \in RunStates /\ Ended(r, pc, s).pc = pc
           /\ Ended(r, pc, s).goal = run[r].goal /\ Ended(r, pc, s).plan = s.plan
<1> DEFINE x == [IdleRun EXCEPT !.pc = pc, !.goal = run[r].goal, !.plan = s.plan]
<1>1. x \in RunStates
  BY IdleRunIsRun DEF RunStates, Sessions, TypeOK
<1>2. x.pc = pc /\ x.goal = run[r].goal /\ x.plan = s.plan
  BY DEF IdleRun
<1> QED
  BY <1>1, <1>2 DEF Ended

LEMMA VerdictKeepsTypes ==
    ASSUME TypeOK, NEW r \in Runs, NEW s, Verdict(r, s)
    PROVE  st' \in Sessions /\ run' \in [Runs -> RunStates]
<1>1. s \in Sessions
  BY DEF Verdict, KeepsPlan
<1>2. CASE \E pc \in EndPCs : run' = [run EXCEPT ![r] = Ended(r, pc, s)]
  BY <1>1, <1>2, EndedIsRun DEF Verdict, TypeOK
<1>3. CASE /\ run[r].attempt < MaxRepair
           /\ run' = [run EXCEPT ![r] = Entered(run[r].goal, s, run[r].attempt + 1)]
  <2>1. run[r].attempt + 1 \in 0 .. MaxRepair /\ run[r].goal \in Goals \cup {NoGoal}
    BY <1>3, ControlLoopAssumption DEF TypeOK, RunStates
  <2>2. Entered(run[r].goal, s, run[r].attempt + 1) \in RunStates
    BY <1>1, <2>1, EnteredIsRun
  <2> QED
    BY <1>1, <1>3, <2>2 DEF Verdict, TypeOK
<1> QED
  BY <1>2, <1>3 DEF Verdict

-----------------------------------------------------------------------------
\* Type correctness.

LEMMA InitTypeOK ==
    Init => TypeOK
<1>1. NoSession \in Sessions
  BY ControlLoopAssumption DEF NoSession, Sessions, Approvals
<1> QED
  BY <1>1, IdleRunIsRun DEF Init, TypeOK

LEMMA JudgedIsSession ==
    ASSUME TypeOK, NEW p \in Plans
    PROVE  /\ JudgedUnreadable(st) \in Sessions /\ JudgedForbidden(st) \in Sessions
           /\ JudgedCritical(st, p) \in Sessions /\ JudgedHarmless(st, p) \in Sessions
BY DEF TypeOK, Sessions, Approvals, Approved, JudgedUnreadable, JudgedForbidden,
       JudgedCritical, JudgedHarmless

LEMMA PlannerKeepsTypes ==
    ASSUME TypeOK, NEW r \in Runs, PlannerReturns(r)
    PROVE  TypeOK'
<1>1. CASE PlannerFails(r)
  <2>1. st' \in Sessions
    <3>1. CASE st' = JudgedUnreadable(st)
      BY <3>1 DEF TypeOK, Sessions, Approvals, JudgedUnreadable
    <3>2. CASE st' = JudgedForbidden(st)
      BY <3>2 DEF TypeOK, Sessions, Approvals, JudgedForbidden
    <3> QED
      BY <1>1, <3>1, <3>2 DEF PlannerFails
  <2>2. Ended(r, "ended", st') \in RunStates
    BY <2>1, EndedIsRun DEF EndPCs
  <2> QED
    BY <1>1, <2>1, <2>2 DEF PlannerFails, TypeOK, stores
<1>2. ASSUME NEW p \in Plans, PlanNeedsHuman(r, p) PROVE TypeOK'
  <2>1. st' \in Sessions /\ st'.request = p
    BY <1>2, JudgedIsSession DEF PlanNeedsHuman, JudgedCritical, TypeOK, Sessions
  <2>2. Ended(r, "ended", st') \in RunStates
    BY <2>1, EndedIsRun DEF EndPCs
  <2>3. run[r].aim \in Goals \cup {NoGoal}
    BY DEF TypeOK, RunStates
  <2> QED
    BY <1>2, <2>1, <2>2, <2>3 DEF PlanNeedsHuman, TypeOK, stores
<1>3. ASSUME NEW p \in Plans, PlanApproved(r, p) PROVE TypeOK'
  <2>1. st' \in Sessions
    BY <1>3, JudgedIsSession DEF PlanApproved
  <2> DEFINE x == [run[r] EXCEPT !.pc = "executing", !.plan = p, !.aim = NoGoal]
  <2>2. x \in RunStates
    BY DEF TypeOK, RunStates, AgentPCs
  <2>3. run' = [run EXCEPT ![r] = x]
    BY <1>3 DEF PlanApproved, TypeOK
  <2>4. run' \in [Runs -> RunStates]
    BY <2>2, <2>3 DEF TypeOK
  <2>5. run[r].aim \in Goals \cup {NoGoal}
    BY DEF TypeOK, RunStates
  <2> QED
    BY <1>3, <2>1, <2>4, <2>5 DEF PlanApproved, TypeOK, stores
<1> QED
  BY <1>1, <1>2, <1>3 DEF PlannerReturns

LEMMA AgentKeepsTypes ==
    ASSUME TypeOK, NEW r \in Runs, Agent(r)
    PROVE  TypeOK'
<1>1. CASE ExecutorReturns(r)
  <2>1. st.plan \in Plans \cup {NoPlan} /\ st.repairs \in 0 .. MaxRepair
    BY DEF TypeOK, Sessions
  <2> DEFINE x == [run[r] EXCEPT !.pc = "verifying", !.seen = st.plan,
                                 !.tried = st.repairs]
  <2>2. x \in RunStates
    BY <2>1 DEF TypeOK, RunStates, AgentPCs
  <2>3. run' = [run EXCEPT ![r] = x]
    BY <1>1 DEF ExecutorReturns, TypeOK
  <2>4. run' \in [Runs -> RunStates]
    BY <2>2, <2>3 DEF TypeOK
  <2> QED
    BY <1>1, <2>4 DEF ExecutorReturns, TypeOK, stores
<1>2. CASE VerifierReturns(r)
  <2>1. PICK s : Verdict(r, s)
    BY <1>2, VerifierGivesVerdict
  <2>2. st' \in Sessions /\ run' \in [Runs -> RunStates]
    BY <2>1, VerdictKeepsTypes
  <2>3. UNCHANGED <<goalOf, asked, licensed, crossed>>
    BY <2>1 DEF Verdict
  <2> QED
    BY <1>2, <2>2, <2>3, VerifierKeepsStores DEF TypeOK
<1> QED
  BY <1>1, <1>2, PlannerKeepsTypes DEF Agent

LEMMA AnswerKeepsTypes ==
    ASSUME TypeOK, NEW p \in Plans, Answer(p)
    PROVE  TypeOK'
<1>1. CASE AnswerIgnored(p)
  BY <1>1 DEF AnswerIgnored, TypeOK, stores
<1>2. CASE Denied(p)
  BY <1>2, ControlLoopAssumption DEF Denied, TypeOK, stores, Sessions, Approvals
<1>3. ASSUME NEW r \in Runs, Granted(p, r) PROVE TypeOK'
  <2>1. st' \in Sessions
    BY <1>3, ControlLoopAssumption DEF Granted, TypeOK, Sessions, Approvals, Approved
  <2>2. [IdleRun EXCEPT !.pc = "starting", !.goal = st.goal, !.plan = p] \in RunStates
    BY IdleRunIsRun DEF TypeOK, Sessions, RunStates
  <2> HIDE DEF IdleRun
  <2>3. run' \in [Runs -> RunStates]
    BY <1>3, <2>2 DEF Granted, TypeOK
  <2> QED
    BY <1>3, <2>1, <2>3 DEF Granted, TypeOK, stores
<1> QED
  BY <1>1, <1>2, <1>3 DEF Answer

LEMMA CallerKeepsTypes ==
    ASSUME TypeOK, NEW r \in Runs, Caller(r) \/ StartApproved(r)
    PROVE  TypeOK'
<1>1. ASSUME NEW g \in Goals, NEW reset \in BOOLEAN, Start(r, g, reset)
      PROVE  TypeOK'
  <2>1. st' \in Sessions /\ run' \in [Runs -> RunStates] /\ crossed' \in BOOLEAN
    BY <1>1, OpensKeepsTypes DEF Start
  <2> QED
    BY <1>1, <2>1 DEF Start, TypeOK, stores
<1>2. ASSUME NEW source \in Runs, Replay(r, source) PROVE TypeOK'
  <2>1. /\ run[source].goal \in Goals \cup {NoGoal}
        /\ run[source].plan \in Plans
    BY <1>2 DEF Replay, TypeOK, RunStates
  <2>2. st' \in Sessions /\ run' \in [Runs -> RunStates] /\ crossed' \in BOOLEAN
    BY <1>2, <2>1, OpensKeepsTypes DEF Replay
  <2> QED
    BY <1>2, <2>1, <2>2 DEF Replay, TypeOK, stores
<1>3. CASE Cancel(r)
  BY <1>3, IdleRunIsRun DEF Cancel, TypeOK, stores
<1>4. CASE StartApproved(r)
  <2>1. run[r].goal \in Goals \cup {NoGoal}
    BY DEF TypeOK, RunStates
  <2>2. st' \in Sessions /\ run' \in [Runs -> RunStates] /\ crossed' \in BOOLEAN
    BY <1>4, <2>1, OpensKeepsTypes DEF StartApproved
  <2> QED
    BY <1>4, <2>2 DEF StartApproved, TypeOK, stores
<1> QED
  BY <1>1, <1>2, <1>3, <1>4 DEF Caller

\* TypeCorrect: every variable keeps its shape, and no count passes the limit.
THEOREM TypeCorrect == Spec => []TypeOK
<1>1. TypeOK /\ [Next]_vars => TypeOK'
  <2> SUFFICES ASSUME TypeOK, [Next]_vars PROVE TypeOK'
    OBVIOUS
  <2>1. ASSUME NEW r \in Runs, Agent(r) PROVE TypeOK'
    BY <2>1, AgentKeepsTypes
  <2>2. ASSUME NEW r \in Runs, Caller(r) \/ StartApproved(r) PROVE TypeOK'
    BY <2>2, CallerKeepsTypes
  <2>3. ASSUME NEW p \in Plans, Answer(p) PROVE TypeOK'
    BY <2>3, AnswerKeepsTypes
  <2>4. CASE Restart
    <3>1. NoSession \in Sessions
      BY ControlLoopAssumption DEF NoSession, Sessions, Approvals
    <3> QED
      BY <2>4, <3>1, IdleRunIsRun DEF Restart, TypeOK, stores
  <2>5. CASE UNCHANGED vars
    BY <2>5 DEF vars, stores, TypeOK
  <2> QED
    BY <2>1, <2>2, <2>3, <2>4, <2>5 DEF Next
<1> QED
  BY <1>1, InitTypeOK, PTL DEF Spec

-----------------------------------------------------------------------------
\* Licences.  An executor is started with the plan of a session that says it is
\* approved; so what has to be kept is that such a plan is licensed.
ApprovedIsLicensed == st.approval \in Approved => st.plan \in licensed

Licences == RequestShowsPlan /\ ExecutesLicensed /\ ApprovedIsLicensed

\* The session part of the invariant, about a session and a set of licences.
Sound(s, plans) ==
    /\ s.request # NoPlan => s.request = s.plan
    /\ s.approval \in Approved => s.plan \in plans

LEMMA SeededIsSound ==
    ASSUME NEW s \in Sessions, NEW plans, NEW seed \in Plans \cup {NoPlan},
           seed = NoPlan => Sound(s, plans), seed # NoPlan => seed \in plans
    PROVE  Sound(Seeded(s, seed), plans)
BY DEF Seeded, Sound, Sessions

LEMMA OpenedIsSound ==
    ASSUME TypeOK, Licences, NEW g \in Goals \cup {NoGoal}, NEW reset \in BOOLEAN,
           NEW seed \in Plans \cup {NoPlan}, NEW plans, licensed \subseteq plans,
           ~Refused(g),
           seed # NoPlan => reset = TRUE /\ (TakesSeed(g) => seed \in plans)
    PROVE  Sound(Opened(g, reset, seed), plans)
<1>1. Sound(st, plans)
  BY DEF Licences, RequestShowsPlan, ApprovedIsLicensed, Sound
<1>2. Sound([NoSession EXCEPT !.goal = g], plans) /\ Sound(Emptied(g), plans)
  BY DEF NoSession, Emptied, Sound, Approved
<1>3. CASE st.goal = NoGoal
  <2>1. seed # NoPlan => seed \in plans
    BY <1>3 DEF TakesSeed
  <2> QED
    BY <1>2, <1>3, <2>1, EmptySessions, SeededIsSound DEF Opened, Created
<1>4. CASE st.goal # NoGoal /\ Resets(g, reset)
  <2>1. seed # NoPlan => seed \in plans
    BY <1>4 DEF TakesSeed
  <2> QED
    BY <1>2, <1>4, <2>1, EmptySessions, SeededIsSound DEF Opened
<1>5. CASE st.goal # NoGoal /\ ~Resets(g, reset)
  <2>1. CASE seed = NoPlan
    BY <1>1, <1>5, <2>1 DEF Opened, Bootstrapped
  <2>2. CASE seed # NoPlan /\ st.approval = "absent"
    <3>1. seed \in plans
      BY <2>2 DEF TakesSeed
    <3>2. Opened(g, reset, seed) = Seeded(st, seed)
      BY <1>5, <2>2 DEF Opened, Bootstrapped
    <3> QED
      BY <2>2, <3>1, <3>2, SeededIsSound DEF TypeOK
  <2>3. CASE seed # NoPlan /\ st.approval # "absent"
    <3>1. Sound([st EXCEPT !.replay = "set"], plans)
      BY <1>1 DEF Sound, TypeOK, Sessions
    <3> QED
      BY <1>1, <1>5, <2>3, <3>1 DEF Opened, Bootstrapped
  <2> QED
    BY <2>1, <2>2, <2>3
<1> QED
  BY <1>3, <1>4, <1>5

LEMMA OpensKeepsLicences ==
    ASSUME TypeOK, Licences, NEW r \in Runs, NEW g \in Goals \cup {NoGoal},
           NEW reset \in BOOLEAN, NEW seed \in Plans \cup {NoPlan},
           Opens(r, g, reset, seed), licensed \subseteq licensed',
           seed # NoPlan => reset = TRUE /\ (TakesSeed(g) => seed \in licensed')
    PROVE  Licences'
<1>1. CASE Refused(g)
  BY <1>1 DEF Opens, TypeOK, Licences, RequestShowsPlan, ExecutesLicensed,
              ApprovedIsLicensed, IdleRun
<1>2. CASE ~Refused(g)
  <2>1. Sound(st', licensed')
    BY <1>2, OpenedIsSound DEF Opens
  <2>2. st' \in Sessions /\ 0 \in 0 .. MaxRepair
    BY OpensKeepsTypes, ControlLoopAssumption
  <2>3. Entered(g, st', 0).pc \in {"executing", "verifying"}
            => Entered(g, st', 0).plan \in licensed'
    BY <2>1, <2>2, EnteredIsRun DEF Sound, Resumes
  <2>4. run' = [run EXCEPT ![r] = Entered(g, st', 0)]
    BY <1>2 DEF Opens
  <2>5. ExecutesLicensed'
    BY <2>3, <2>4 DEF TypeOK, Licences, ExecutesLicensed
  <2> QED
    BY <2>1, <2>5 DEF Sound, Licences, RequestShowsPlan, ApprovedIsLicensed
<1> QED
  BY <1>1, <1>2

LEMMA PlannerKeepsLicences ==
    ASSUME TypeOK, Licences, NEW r \in Runs, PlannerReturns(r)
    PROVE  Licences'
<1> USE DEF Licences, RequestShowsPlan, ExecutesLicensed, ApprovedIsLicensed
<1>1. CASE PlannerFails(r)
  <2>1. Sound(st', licensed')
    BY <1>1 DEF PlannerFails, JudgedUnreadable, JudgedForbidden, TypeOK, Sessions,
                Approved, Sound
  <2>2. Ended(r, "ended", st').pc = "ended"
    BY DEF Ended, IdleRun
  <2> QED
    BY <1>1, <2>1, <2>2 DEF PlannerFails, Sound, TypeOK
<1>2. ASSUME NEW p \in Plans, PlanNeedsHuman(r, p) PROVE Licences'
  <2>1. Sound(st', licensed')
    BY <1>2 DEF PlanNeedsHuman, JudgedCritical, TypeOK, Sessions, Approved, Sound
  <2>2. Ended(r, "ended", st').pc = "ended"
    BY DEF Ended, IdleRun
  <2>3. ASSUME NEW q \in Runs, run'[q].pc \in {"executing", "verifying"}
        PROVE  run'[q].plan \in licensed'
    BY <1>2, <2>2, <2>3 DEF PlanNeedsHuman, Fresh, TypeOK
  <2> QED
    BY <2>1, <2>3 DEF Sound
<1>3. ASSUME NEW p \in Plans, PlanApproved(r, p) PROVE Licences'
  <2>1. Sound(st', licensed')
    BY <1>3, ControlLoopAssumption
    DEF PlanApproved, JudgedHarmless, TypeOK, Sessions, Sound
  <2>2. ASSUME NEW q \in Runs, run'[q].pc \in {"executing", "verifying"}
        PROVE  run'[q].plan \in licensed'
    BY <1>3, <2>2 DEF PlanApproved, TypeOK, RunStates
  <2> QED
    BY <2>1, <2>2 DEF Sound
<1> QED
  BY <1>1, <1>2, <1>3 DEF PlannerReturns

LEMMA AgentKeepsLicences ==
    ASSUME TypeOK, Licences, NEW r \in Runs, Agent(r)
    PROVE  Licences'
<1>1. CASE ExecutorReturns(r)
  BY <1>1 DEF ExecutorReturns, TypeOK, RunStates, Licences, RequestShowsPlan,
              ExecutesLicensed, ApprovedIsLicensed
<1>2. CASE VerifierReturns(r)
  <2>1. PICK s : Verdict(r, s)
    BY <1>2, VerifierGivesVerdict
  <2>2. Sound(s, licensed)
    BY <2>1 DEF Verdict, KeepsPlan, Licences, RequestShowsPlan, ApprovedIsLicensed, Sound
  <2>3. ASSUME NEW pc \in EndPCs, run' = [run EXCEPT ![r] = Ended(r, pc, s)]
        PROVE  ExecutesLicensed'
    <3>1. Ended(r, pc, s).pc = pc
      BY DEF Ended, IdleRun
    <3> QED
      BY <2>1, <2>3, <3>1
      DEF Verdict, TypeOK, EndPCs, Licences, ExecutesLicensed
  <2>4. ASSUME run[r].attempt < MaxRepair,
               run' = [run EXCEPT ![r] = Entered(run[r].goal, s, run[r].attempt + 1)]
        PROVE  ExecutesLicensed'
    <3> DEFINE x == Entered(run[r].goal, s, run[r].attempt + 1)
    <3>1. run[r].attempt + 1 \in 0 .. MaxRepair /\ run[r].goal \in Goals \cup {NoGoal}
      BY <2>4, ControlLoopAssumption DEF TypeOK, RunStates
    <3>2. s \in Sessions
      BY <2>1 DEF Verdict, KeepsPlan
    <3>3. x.pc \in {"executing", "verifying"} => x.plan \in licensed
      BY <2>2, <3>1, <3>2, EnteredIsRun DEF Resumes, Sound
    <3> HIDE DEF x
    <3> QED
      BY <2>1, <2>4, <3>3 DEF Verdict, TypeOK, Licences, ExecutesLicensed, x
  <2>5. ExecutesLicensed'
    BY <2>1, <2>3, <2>4 DEF Verdict
  <2>6. Sound(st', licensed')
    BY <2>1, <2>2 DEF Verdict
  <2> QED
    BY <2>5, <2>6 DEF Sound, Licences, RequestShowsPlan, ApprovedIsLicensed
<1> QED
  BY <1>1, <1>2, PlannerKeepsLicences DEF Agent

LEMMA AnswerKeepsLicences ==
    ASSUME TypeOK, Licences, NEW p \in Plans, Answer(p)
    PROVE  Licences'
<1> USE DEF Licences, RequestShowsPlan, ExecutesLicensed, ApprovedIsLicensed
<1>1. CASE AnswerIgnored(p)
  BY <1>1 DEF AnswerIgnored
<1>2. CASE Denied(p)
  BY <1>2 DEF Denied, TypeOK, Sessions, Approved
<1>3. ASSUME NEW r \in Runs, Granted(p, r) PROVE Licences'
  <2>1. st.plan = p
    BY <1>3, ControlLoopAssumption DEF Granted, Answerable
  <2>2. Sound(st', licensed')
    BY <1>3, <2>1 DEF Granted, TypeOK, Sessions, Sound
  <2>3. [IdleRun EXCEPT !.pc = "starting", !.goal = st.goal, !.plan = p].pc = "starting"
    BY DEF IdleRun
  <2>4. ExecutesLicensed'
    BY <1>3, <2>3 DEF Granted, TypeOK
  <2> QED
    BY <2>2, <2>4 DEF Sound
<1> QED
  BY <1>1, <1>2, <1>3 DEF Answer

LEMMA CallerKeepsLicences ==
    ASSUME TypeOK, Licences, NEW r \in Runs, Caller(r) \/ StartApproved(r)
    PROVE  Licences'
<1>1. ASSUME NEW g \in Goals, NEW reset \in BOOLEAN, Start(r, g, reset)
      PROVE  Licences'
  BY <1>1, OpensKeepsLicences DEF Start
<1>2. ASSUME NEW source \in Runs, Replay(r, source) PROVE Licences'
  <2>1. /\ run[source].goal \in Goals \cup {NoGoal}
        /\ run[source].plan \in Plans
    BY <1>2 DEF Replay, TypeOK, RunStates
  <2> QED
    BY <1>2, <2>1, OpensKeepsLicences DEF Replay
<1>3. CASE Cancel(r)
  BY <1>3 DEF Cancel, IdleRun, TypeOK, Licences, RequestShowsPlan, ExecutesLicensed,
              ApprovedIsLicensed
<1>4. CASE StartApproved(r)
  <2>1. run[r].goal \in Goals \cup {NoGoal}
    BY DEF TypeOK, RunStates
  <2> QED
    BY <1>4, <2>1, OpensKeepsLicences DEF StartApproved
<1> QED
  BY <1>1, <1>2, <1>3, <1>4 DEF Caller

LEMMA LicencesInvariant == Spec => []Licences
<1>1. Init => Licences
  BY DEF Init, Licences, RequestShowsPlan, ExecutesLicensed, ApprovedIsLicensed,
         NoSession, IdleRun, Approved
<1>2. TypeOK /\ Licences /\ [Next]_vars => Licences'
  <2> SUFFICES ASSUME TypeOK, Licences, [Next]_vars PROVE Licences'
    OBVIOUS
  <2>1. ASSUME NEW r \in Runs, Agent(r) PROVE Licences'
    BY <2>1, AgentKeepsLicences
  <2>2. ASSUME NEW r \in Runs, Caller(r) \/ StartApproved(r) PROVE Licences'
    BY <2>2, CallerKeepsLicences
  <2>3. ASSUME NEW p \in Plans, Answer(p) PROVE Licences'
    BY <2>3, AnswerKeepsLicences
  <2>4. CASE Restart
    BY <2>4 DEF Restart, NoSession, IdleRun, EndPCs, TypeOK, Approved, Licences,
                RequestShowsPlan, ExecutesLicensed, ApprovedIsLicensed
  <2>5. CASE UNCHANGED vars
    BY <2>5 DEF vars, Licences, RequestShowsPlan, ExecutesLicensed, ApprovedIsLicensed
  <2> QED
    BY <2>1, <2>2, <2>3, <2>4, <2>5 DEF Next
<1> QED
  BY <1>1, <1>2, TypeCorrect, PTL DEF Spec

\* ExecutionsAreLicensed: no executor is started with a plan that neither the policy
\* nor the operator approved (root_workflow.py, run and resolve_human_approval).
THEOREM ExecutionsAreLicensed == Spec => []ExecutesLicensed
BY LicencesInvariant, PTL DEF Licences

\* RequestsShowThePlan: the operator's answer is about the plan that will be used.
THEOREM RequestsShowThePlan == Spec => []RequestShowsPlan
BY LicencesInvariant, PTL DEF Licences

-----------------------------------------------------------------------------
\* Purposes.  Everything that carries a plan and a goal agrees that the plan was
\* made for the goal, until a session is reset under a run.
GoalsKnown ==
    /\ st.plan # NoPlan => st.goal # NoGoal
    /\ \A r \in Runs : InLoop(r) => st.goal # NoGoal
    /\ \A r \in Runs :
           run[r].pc \in AgentPCs \cup {"starting"} \/ run[r].plan # NoPlan
               => run[r].goal # NoGoal

RunsFit ==
    ~crossed => \A r \in Runs :
        /\ InLoop(r) => run[r].goal = st.goal
        /\ run[r].pc = "planning" => run[r].aim = run[r].goal
        /\ run[r].plan # NoPlan => goalOf[run[r].plan] = run[r].goal

Purposes == GoalsKnown /\ PlanFitsGoal /\ RunsFit

\* An opened session has the run's goal; a plan in it is the seed, or was there
\* already for the same goal.
LEMMA OpenedFits ==
    ASSUME TypeOK, NEW g \in Goals, NEW reset \in BOOLEAN,
           NEW seed \in Plans \cup {NoPlan}, ~Refused(g)
    PROVE  /\ Opened(g, reset, seed).goal = g
           /\ \/ Opened(g, reset, seed).plan \in {NoPlan, seed}
              \/ Opened(g, reset, seed).plan = st.plan /\ st.goal = g
<1> DEFINE s == [NoSession EXCEPT !.goal = g]
<1>1. s \in Sessions /\ s.goal = g /\ s.plan = NoPlan
  BY EmptySessions DEF NoSession
<1>2. Emptied(g) \in Sessions /\ Emptied(g).goal = g /\ Emptied(g).plan = NoPlan
  BY EmptySessions DEF Emptied, NoSession
<1>3. ASSUME NEW t \in Sessions
      PROVE  /\ Seeded(t, seed).goal = t.goal
             /\ Seeded(t, seed).plan \in {t.plan, seed}
  BY DEF Seeded, Sessions
<1>4. CASE st.goal = NoGoal
  BY <1>1, <1>3, <1>4 DEF Opened, Created
<1>5. CASE st.goal # NoGoal /\ Resets(g, reset)
  BY <1>2, <1>3, <1>5 DEF Opened
<1>6. CASE st.goal # NoGoal /\ ~Resets(g, reset)
  <2>1. st.goal = g
    BY <1>6 DEF Refused, Resets
  <2>2. Bootstrapped(st, seed).goal = st.goal /\ Bootstrapped(st, seed).plan \in {st.plan, seed}
    BY <1>3 DEF Bootstrapped, TypeOK, Sessions
  <2> QED
    BY <1>6, <2>1, <2>2 DEF Opened
<1> QED
  BY <1>4, <1>5, <1>6

LEMMA OpensKeepsPurposes ==
    ASSUME TypeOK, Purposes, NEW r \in Runs, ~InLoop(r), NEW g \in Goals,
           NEW reset \in BOOLEAN, NEW seed \in Plans \cup {NoPlan},
           Opens(r, g, reset, seed), goalOf' = goalOf,
           ~crossed /\ seed # NoPlan => goalOf[seed] = g
    PROVE  Purposes'
<1> USE DEF Purposes, GoalsKnown, PlanFitsGoal, RunsFit
<1>1. CASE Refused(g)
  <2> DEFINE x == [IdleRun EXCEPT !.pc = "ended"]
  <2>1. x.pc = "ended" /\ x.plan = NoPlan
    BY DEF IdleRun
  <2>2. run' = [run EXCEPT ![r] = x] /\ st' = st /\ crossed' = crossed
    BY <1>1 DEF Opens
  <2> HIDE DEF x
  <2>3. \A q \in Runs : run'[q] = IF q = r THEN x ELSE run[q]
    BY <2>2 DEF TypeOK
  <2> QED
    BY <2>1, <2>2, <2>3 DEF InLoop, AgentPCs
<1>2. CASE ~Refused(g)
  <2> DEFINE x == Entered(g, st', 0)
  <2>1. st' = Opened(g, reset, seed) /\ run' = [run EXCEPT ![r] = x]
        /\ crossed' = (crossed \/ (Resets(g, reset) /\ \E q \in Runs : InLoop(q)))
    BY <1>2 DEF Opens
  <2>2. st' \in Sessions /\ 0 \in 0 .. MaxRepair
    BY OpensKeepsTypes, ControlLoopAssumption
  <2>3. /\ st'.goal = g
        /\ st'.plan \in {NoPlan, seed} \/ (st'.plan = st.plan /\ st.goal = g)
    BY <1>2, <2>1, OpenedFits
  <2>4. /\ x.pc \in {"planning", "executing"} /\ x.goal = g
        /\ x.plan \in {NoPlan, st'.plan}
        /\ x.pc = "planning" => x.aim = g
    BY <2>2, <2>3, EnteredIsRun
  <2> HIDE DEF x
  <2>5. \A q \in Runs : run'[q] = IF q = r THEN x ELSE run[q]
    BY <2>1 DEF TypeOK
  <2>6. GoalsKnown'
    BY <2>3, <2>4, <2>5, ControlLoopAssumption DEF InLoop
  <2>7. PlanFitsGoal'
    BY <2>1, <2>3
  <2>8. ASSUME ~crossed', NEW q \in Runs, q # r, InLoop(q)
        PROVE  run[q].goal = g
    <3>1. ~Resets(g, reset) /\ st.goal # NoGoal
      BY <2>1, <2>8
    <3>2. st.goal = g
      BY <1>2, <3>1 DEF Refused, Resets
    <3> QED
      BY <2>1, <2>8, <3>2
  <2>9. ASSUME ~crossed', NEW q \in Runs
        PROVE  /\ InLoop(q)' => run'[q].goal = st'.goal
               /\ run'[q].pc = "planning" => run'[q].aim = run'[q].goal
               /\ run'[q].plan # NoPlan => goalOf'[run'[q].plan] = run'[q].goal
    <3>1. ~crossed
      BY <2>1, <2>9
    <3>2. CASE q = r
      BY <2>3, <2>4, <2>5, <2>7, <2>9, <3>2 DEF InLoop
    <3>3. CASE q # r
      BY <2>3, <2>5, <2>8, <2>9, <3>1, <3>3 DEF InLoop
    <3> QED
      BY <3>2, <3>3
  <2>10. RunsFit'
    BY <2>9
  <2> QED
    BY <2>6, <2>7, <2>10
<1> QED
  BY <1>1, <1>2

LEMMA PlannerKeepsPurposes ==
    ASSUME TypeOK, Purposes, NEW r \in Runs, PlannerReturns(r)
    PROVE  Purposes'
<1> USE DEF Purposes, GoalsKnown, PlanFitsGoal, RunsFit
<1>0. run[r].pc = "planning" /\ InLoop(r) /\ st.goal # NoGoal
  BY DEF PlannerReturns, PlannerFails, PlanNeedsHuman, PlanApproved, InLoop, AgentPCs
<1>1. CASE PlannerFails(r)
  <2> DEFINE x == Ended(r, "ended", st')
  <2>1. st' \in Sessions /\ st'.goal = st.goal /\ st'.plan = st.plan
    BY <1>1, JudgedIsSession, ZenonT(40)
    DEF PlannerFails, JudgedUnreadable, JudgedForbidden, TypeOK, Sessions, Approvals
  <2>2. x.pc = "ended" /\ x.goal = run[r].goal /\ x.plan = st.plan
    BY <2>1, EndedIsRun DEF EndPCs
  <2>3. run' = [run EXCEPT ![r] = x] /\ goalOf' = goalOf /\ crossed' = crossed
    BY <1>1 DEF PlannerFails
  <2> HIDE DEF x
  <2>4. \A q \in Runs : run'[q] = IF q = r THEN x ELSE run[q]
    BY <2>3 DEF TypeOK
  <2> QED
    BY <1>0, <2>1, <2>2, <2>3, <2>4 DEF InLoop, AgentPCs
<1>2. ASSUME NEW p \in Plans, PlanNeedsHuman(r, p) PROVE Purposes'
  <2> DEFINE x == Ended(r, "ended", st')
  <2>1. st' \in Sessions /\ st'.goal = st.goal /\ st'.plan = p
    BY <1>2, JudgedIsSession DEF PlanNeedsHuman, JudgedCritical, TypeOK, Sessions
  <2>2. x.pc = "ended" /\ x.goal = run[r].goal /\ x.plan = p
    BY <2>1, EndedIsRun DEF EndPCs
  <2>3. /\ run' = [run EXCEPT ![r] = x] /\ crossed' = crossed
        /\ goalOf' = [goalOf EXCEPT ![p] = run[r].aim]
        /\ \A q \in Runs : run[q].plan # p
    BY <1>2 DEF PlanNeedsHuman, Fresh
  <2> HIDE DEF x
  <2>4. /\ \A q \in Runs : run'[q] = IF q = r THEN x ELSE run[q]
        /\ goalOf'[p] = run[r].aim
        /\ \A q \in Runs : run[q].plan # NoPlan => goalOf'[run[q].plan] = goalOf[run[q].plan]
    BY <2>3 DEF TypeOK, RunStates
  <2> QED
    BY <1>0, <2>1, <2>2, <2>3, <2>4 DEF InLoop, AgentPCs
<1>3. ASSUME NEW p \in Plans, PlanApproved(r, p) PROVE Purposes'
  <2> DEFINE x == [run[r] EXCEPT !.pc = "executing", !.plan = p, !.aim = NoGoal]
  <2>1. st' \in Sessions /\ st'.goal = st.goal /\ st'.plan = p
    BY <1>3, JudgedIsSession DEF PlanApproved, JudgedHarmless, TypeOK, Sessions
  <2>2. x.pc = "executing" /\ x.goal = run[r].goal /\ x.plan = p
    BY DEF TypeOK, RunStates
  <2>3. /\ run' = [run EXCEPT ![r] = x] /\ crossed' = crossed
        /\ goalOf' = [goalOf EXCEPT ![p] = run[r].aim]
        /\ \A q \in Runs : run[q].plan # p
    BY <1>3 DEF PlanApproved, Fresh, TypeOK
  <2> HIDE DEF x
  <2>4. /\ \A q \in Runs : run'[q] = IF q = r THEN x ELSE run[q]
        /\ goalOf'[p] = run[r].aim
        /\ \A q \in Runs : run[q].plan # NoPlan => goalOf'[run[q].plan] = goalOf[run[q].plan]
    BY <2>3 DEF TypeOK, RunStates
  <2> QED
    BY <1>0, <2>1, <2>2, <2>3, <2>4 DEF InLoop, AgentPCs
<1> QED
  BY <1>1, <1>2, <1>3 DEF PlannerReturns

LEMMA AgentKeepsPurposes ==
    ASSUME TypeOK, Purposes, NEW r \in Runs, Agent(r)
    PROVE  Purposes'
<1> USE DEF Purposes, GoalsKnown, PlanFitsGoal, RunsFit
<1>1. CASE ExecutorReturns(r)
  <2> DEFINE x == [run[r] EXCEPT !.pc = "verifying", !.seen = st.plan,
                                 !.tried = st.repairs]
  <2>1. x.pc = "verifying" /\ x.goal = run[r].goal /\ x.plan = run[r].plan
    BY DEF TypeOK, RunStates
  <2>2. /\ run[r].pc = "executing" /\ run' = [run EXCEPT ![r] = x]
        /\ UNCHANGED <<st, goalOf, crossed>>
    BY <1>1 DEF ExecutorReturns, TypeOK
  <2> HIDE DEF x
  <2>3. \A q \in Runs : run'[q] = IF q = r THEN x ELSE run[q]
    BY <2>2 DEF TypeOK
  <2> QED
    BY <2>1, <2>2, <2>3 DEF InLoop, AgentPCs
<1>2. CASE VerifierReturns(r)
  <2>1. PICK s : Verdict(r, s)
    BY <1>2, VerifierGivesVerdict
  <2>2. /\ run[r].pc = "verifying" /\ InLoop(r)
        /\ s \in Sessions /\ s.goal = st.goal /\ s.plan = st.plan /\ st' = s
        /\ UNCHANGED <<goalOf, crossed>>
    BY <2>1 DEF Verdict, KeepsPlan, InLoop, AgentPCs
  <2>3. PICK x \in RunStates :
            /\ run' = [run EXCEPT ![r] = x] /\ x.goal = run[r].goal
            /\ x.plan \in {NoPlan, s.plan}
            /\ x.pc = "planning" => x.aim = s.goal
    <3>1. ASSUME NEW pc \in EndPCs, run' = [run EXCEPT ![r] = Ended(r, pc, s)]
          PROVE  /\ Ended(r, pc, s) \in RunStates
                 /\ Ended(r, pc, s).goal = run[r].goal
                 /\ Ended(r, pc, s).plan = s.plan /\ Ended(r, pc, s).pc # "planning"
      BY <2>2, EndedIsRun DEF EndPCs
    <3>2. ASSUME run[r].attempt < MaxRepair
          PROVE  LET y == Entered(run[r].goal, s, run[r].attempt + 1)
                 IN  /\ y \in RunStates /\ y.goal = run[r].goal
                     /\ y.plan \in {NoPlan, s.plan}
                     /\ y.pc = "planning" => y.aim = s.goal
      <4>1. /\ run[r].attempt + 1 \in 0 .. MaxRepair
            /\ run[r].goal \in Goals \cup {NoGoal}
        BY <3>2, ControlLoopAssumption DEF TypeOK, RunStates
      <4> QED
        BY <2>2, <4>1, EnteredIsRun
    <3> QED
      BY <2>1, <3>1, <3>2 DEF Verdict
  <2>4. \A q \in Runs : run'[q] = IF q = r THEN x ELSE run[q]
    BY <2>3 DEF TypeOK
  <2> QED
    BY <2>2, <2>3, <2>4 DEF InLoop, AgentPCs
<1> QED
  BY <1>1, <1>2, PlannerKeepsPurposes DEF Agent

LEMMA AnswerKeepsPurposes ==
    ASSUME TypeOK, Licences, Purposes, NEW p \in Plans, Answer(p)
    PROVE  Purposes'
<1> USE DEF Purposes, GoalsKnown, PlanFitsGoal, RunsFit
<1>1. CASE AnswerIgnored(p)
  BY <1>1 DEF AnswerIgnored, InLoop
<1>2. CASE Denied(p)
  BY <1>2 DEF Denied, TypeOK, Sessions, InLoop
<1>3. ASSUME NEW r \in Runs, Granted(p, r) PROVE Purposes'
  <2> DEFINE x == [IdleRun EXCEPT !.pc = "starting", !.goal = st.goal, !.plan = p]
  <2>1. st.plan = p /\ st.goal # NoGoal
    BY <1>3, ControlLoopAssumption
    DEF Granted, Answerable, Licences, RequestShowsPlan
  <2>2. /\ st'.plan = st.plan /\ st'.goal = st.goal
        /\ UNCHANGED <<goalOf, crossed>>
    BY <1>3 DEF Granted, TypeOK, Sessions
  <2>3. x.pc = "starting" /\ x.goal = st.goal /\ x.plan = p
    BY DEF IdleRun
  <2>4. run' = run \/ run' = [run EXCEPT ![r] = x]
    BY <1>3 DEF Granted
  <2> HIDE DEF x
  <2>5. \/ run' = run
        \/ \A q \in Runs : run'[q] = IF q = r THEN x ELSE run[q]
    BY <2>4 DEF TypeOK
  <2> QED
    BY <2>1, <2>2, <2>3, <2>5 DEF InLoop, AgentPCs
<1> QED
  BY <1>1, <1>2, <1>3 DEF Answer

LEMMA CallerKeepsPurposes ==
    ASSUME TypeOK, Purposes, NEW r \in Runs, Caller(r) \/ StartApproved(r)
    PROVE  Purposes'
<1>0. NoPlan \in Plans \cup {NoPlan}
  OBVIOUS
<1>1. ASSUME NEW g \in Goals, NEW reset \in BOOLEAN, Start(r, g, reset)
      PROVE  Purposes'
  <2>1. ~InLoop(r) /\ goalOf' = goalOf /\ Opens(r, g, reset, NoPlan)
    BY <1>1, Zenon DEF Start, Free, InLoop, AgentPCs, EndPCs
  <2> QED
    BY <1>0, <2>1, OpensKeepsPurposes
<1>2. ASSUME NEW source \in Runs, Replay(r, source) PROVE Purposes'
  <2> DEFINE g == run[source].goal
             seed == run[source].plan
  <2>1. g \in Goals /\ seed \in Plans /\ (~crossed => goalOf[seed] = g)
    BY <1>2 DEF Replay, TypeOK, RunStates, Purposes, GoalsKnown, RunsFit
  <2>2. ~InLoop(r) /\ goalOf' = goalOf /\ Opens(r, g, TRUE, seed)
    BY <1>2 DEF Replay, Free, InLoop, AgentPCs, EndPCs
  <2> HIDE DEF g, seed
  <2> QED
    BY <2>1, <2>2, OpensKeepsPurposes
<1>3. CASE Cancel(r)
  <2>1. \A q \in Runs : run'[q] = IF q = r THEN IdleRun ELSE run[q]
    BY <1>3 DEF Cancel, TypeOK
  <2>2. IdleRun.pc = "idle" /\ IdleRun.plan = NoPlan
    BY DEF IdleRun
  <2> QED
    BY <1>3, <2>1, <2>2
    DEF Cancel, InLoop, AgentPCs, Purposes, GoalsKnown, PlanFitsGoal, RunsFit
<1>4. CASE StartApproved(r)
  <2>1. run[r].goal \in Goals
    BY <1>4 DEF StartApproved, TypeOK, RunStates, Purposes, GoalsKnown
  <2>2. ~InLoop(r) /\ goalOf' = goalOf /\ Opens(r, run[r].goal, FALSE, NoPlan)
    BY <1>4 DEF StartApproved, InLoop, AgentPCs
  <2> QED
    BY <1>0, <2>1, <2>2, OpensKeepsPurposes
<1> QED
  BY <1>1, <1>2, <1>3, <1>4 DEF Caller

LEMMA PurposesInvariant == Spec => []Purposes
<1>1. Init => Purposes
  BY DEF Init, Purposes, GoalsKnown, PlanFitsGoal, RunsFit, NoSession, IdleRun, InLoop,
         AgentPCs
<1>2. TypeOK /\ Licences /\ Purposes /\ [Next]_vars => Purposes'
  <2> SUFFICES ASSUME TypeOK, Licences, Purposes, [Next]_vars PROVE Purposes'
    OBVIOUS
  <2>1. ASSUME NEW r \in Runs, Agent(r) PROVE Purposes'
    BY <2>1, AgentKeepsPurposes
  <2>2. ASSUME NEW r \in Runs, Caller(r) \/ StartApproved(r) PROVE Purposes'
    BY <2>2, CallerKeepsPurposes
  <2>3. ASSUME NEW p \in Plans, Answer(p) PROVE Purposes'
    BY <2>3, AnswerKeepsPurposes
  <2>4. CASE Restart
    <3>1. IdleRun.pc = "idle" /\ IdleRun.plan = NoPlan /\ NoSession.plan = NoPlan
      BY DEF IdleRun, NoSession
    <3>2. \A q \in Runs :
              run'[q] = IdleRun \/ (run'[q] = run[q] /\ run[q].pc \in EndPCs)
      BY <2>4 DEF Restart, TypeOK
    <3> QED
      BY <2>4, <3>1, <3>2 DEF Restart, InLoop, AgentPCs, EndPCs, Purposes, GoalsKnown,
                              PlanFitsGoal, RunsFit
  <2>5. CASE UNCHANGED vars
    BY <2>5 DEF vars, InLoop, Purposes, GoalsKnown, PlanFitsGoal, RunsFit
  <2> QED
    BY <2>1, <2>2, <2>3, <2>4, <2>5 DEF Next
<1> QED
  BY <1>1, <1>2, TypeCorrect, LicencesInvariant, PTL DEF Spec

\* PlansFitTheirGoals: whatever runs, answers, replays and resets interleave on one
\* session, as long as no reset hits a run the session's plan is for its goal.
THEOREM PlansFitTheirGoals == Spec => []PlanFitsGoal
BY PurposesInvariant, PTL DEF Purposes

\* SuccessesAreOwn: and a run that reports success executed a plan for its own goal.
THEOREM SuccessesAreOwn == Spec => SuccessIsOwn
<1>1. TypeOK /\ Licences /\ Purposes /\ [Next]_vars
        => [\A r \in Runs :
               run'[r].pc = "succeeded" /\ run[r].pc = "verifying" /\ ~crossed
                   => goalOf[run[r].plan] = run[r].goal]_vars
  <2> SUFFICES ASSUME TypeOK, Licences, Purposes, NEW r \in Runs,
                      run[r].pc = "verifying", ~crossed
               PROVE  goalOf[run[r].plan] = run[r].goal
    OBVIOUS
  <2>1. run[r].plan \in Plans
    BY DEF Licences, ExecutesLicensed, TypeOK
  <2> QED
    BY <2>1, ControlLoopAssumption DEF Purposes, RunsFit
<1> QED
  BY <1>1, TypeCorrect, LicencesInvariant, PurposesInvariant, PTL DEF Spec, SuccessIsOwn

-----------------------------------------------------------------------------
\* An agent that returns ends its run or takes it strictly further.

LEMMA AgentGoesForward ==
    ASSUME TypeOK, NEW r \in Runs, Agent(r), run'[r].pc \in AgentPCs
    PROVE  Rank(run[r]) < Rank(run'[r])
<1>1. run[r] \in RunStates
  BY DEF TypeOK
<1>2. CASE PlannerReturns(r)
  <2>1. ASSUME NEW s PROVE Ended(r, "ended", s).pc = "ended"
    BY DEF Ended, IdleRun
  <2>2. PICK p \in Plans : PlanApproved(r, p)
    BY <1>2, <2>1 DEF PlannerReturns, PlannerFails, PlanNeedsHuman, TypeOK, AgentPCs
  <2>3. /\ run[r].pc = "planning" /\ run'[r].pc = "executing"
        /\ run'[r].attempt = run[r].attempt
    BY <1>1, <2>2 DEF PlanApproved, TypeOK, RunStates
  <2> QED
    BY <1>1, <2>3, ControlLoopAssumption DEF Rank, RunStates
<1>3. CASE ExecutorReturns(r)
  <2>1. /\ run[r].pc = "executing" /\ run'[r].pc = "verifying"
        /\ run'[r].attempt = run[r].attempt
    BY <1>1, <1>3 DEF ExecutorReturns, TypeOK, RunStates
  <2> QED
    BY <1>1, <2>1, ControlLoopAssumption DEF Rank, RunStates
<1>4. CASE VerifierReturns(r)
  <2>1. PICK s : Verdict(r, s)
    BY <1>4, VerifierGivesVerdict
  <2>2. ASSUME NEW pc \in EndPCs PROVE Ended(r, pc, s).pc \notin AgentPCs
    BY DEF Ended, IdleRun, EndPCs, AgentPCs
  <2>3. /\ run[r].pc = "verifying" /\ s \in Sessions /\ run[r].attempt < MaxRepair
        /\ run'[r] = Entered(run[r].goal, s, run[r].attempt + 1)
    BY <2>1, <2>2 DEF Verdict, KeepsPlan, TypeOK
  <2>4. run[r].attempt + 1 \in 0 .. MaxRepair /\ run[r].goal \in Goals \cup {NoGoal}
    BY <1>1, <2>3, ControlLoopAssumption DEF RunStates
  <2>5. /\ run'[r].attempt = run[r].attempt + 1
        /\ run'[r].pc \in {"planning", "executing"}
    BY <2>3, <2>4, EnteredIsRun
  <2> QED
    BY <1>1, <2>3, <2>5, ControlLoopAssumption DEF Rank, RunStates
<1> QED
  BY <1>2, <1>3, <1>4 DEF Agent

\* Only its own agents take a run that is in the loop to another place in the loop.
LEMMA OthersLeaveRunsAlone ==
    ASSUME TypeOK, NEW r \in Runs, InLoop(r), NEW q \in Runs,
           \/ Agent(q) /\ q # r
           \/ Caller(q) \/ StartApproved(q)
           \/ \E p \in Plans : Answer(p)
           \/ Restart
    PROVE  run'[r] = run[r] \/ run'[r].pc \notin AgentPCs
<1>0. IdleRun.pc \notin AgentPCs
  BY DEF IdleRun, AgentPCs
<1>1. CASE Agent(q) /\ q # r
  <2>1. CASE PlannerReturns(q)
    BY <1>1, <2>1 DEF PlannerReturns, PlannerFails, PlanNeedsHuman, PlanApproved, TypeOK
  <2>2. CASE ExecutorReturns(q)
    BY <1>1, <2>2 DEF ExecutorReturns, TypeOK
  <2>3. CASE VerifierReturns(q)
    BY <1>1, <2>3, VerifierGivesVerdict DEF Verdict, TypeOK
  <2> QED
    BY <1>1, <2>1, <2>2, <2>3 DEF Agent
<1>2. CASE Caller(q) \/ StartApproved(q)
  <2>1. ASSUME NEW g, NEW reset, NEW seed, Opens(q, g, reset, seed), q # r
        PROVE  run'[r] = run[r]
    BY <2>1 DEF Opens, TypeOK
  <2>2. CASE Cancel(q)
    BY <1>0, <2>2 DEF Cancel, TypeOK
  <2>3. CASE \E g \in Goals, reset \in BOOLEAN : Start(q, g, reset)
    BY <2>1, <2>3 DEF Start, Free, InLoop, AgentPCs, EndPCs
  <2>4. CASE \E source \in Runs : Replay(q, source)
    BY <2>1, <2>4 DEF Replay, Free, InLoop, AgentPCs, EndPCs
  <2>5. CASE StartApproved(q)
    BY <2>1, <2>5 DEF StartApproved, InLoop, AgentPCs
  <2> QED
    BY <1>2, <2>2, <2>3, <2>4, <2>5 DEF Caller
<1>3. CASE \E p \in Plans : Answer(p)
  BY <1>3 DEF Answer, AnswerIgnored, Denied, Granted, Free, InLoop, AgentPCs, EndPCs,
              TypeOK
<1>4. CASE Restart
  BY <1>0, <1>4 DEF Restart, TypeOK
<1> QED
  BY <1>1, <1>2, <1>3, <1>4

\* RunsEndInTime: however the reports of its verifier are corrected, a run only goes
\* forward; with the bound TypeOK sets on the attempts, none goes round for ever.
THEOREM RunsEndInTime == Spec => RunsGoForward
<1>1. TypeOK /\ [Next]_vars
        => [\A r \in Runs :
               InLoop(r) /\ run'[r].pc \in AgentPCs /\ run'[r] # run[r]
                   => Rank(run[r]) < Rank(run'[r])]_vars
  <2> SUFFICES ASSUME TypeOK, Next, NEW r \in Runs, InLoop(r),
                      run'[r].pc \in AgentPCs, run'[r] # run[r]
               PROVE  Rank(run[r]) < Rank(run'[r])
    OBVIOUS
  <2>1. ASSUME NEW q \in Runs, Agent(q) PROVE Rank(run[r]) < Rank(run'[r])
    BY <2>1, AgentGoesForward, OthersLeaveRunsAlone
  <2>2. ASSUME NEW q \in Runs, Caller(q) \/ StartApproved(q) PROVE FALSE
    BY <2>2, OthersLeaveRunsAlone
  <2>3. CASE (\E p \in Plans : Answer(p)) \/ Restart
    BY <2>3, OthersLeaveRunsAlone
  <2> QED
    BY <2>1, <2>2, <2>3 DEF Next
<1> QED
  BY <1>1, TypeCorrect, PTL DEF Spec, RunsGoForward

=============================================================================
