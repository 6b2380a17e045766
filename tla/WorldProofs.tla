----------------------------- MODULE WorldProofs -----------------------------
(***************************************************************************)
(* Proofs about what touches a world outside the gateway: the grid world   *)
(* and its gate, hardware-in-the-loop reviews, the autonomy ladder and the *)
(* dispatch of a simulator, the tabs of a task, the managed browser, the   *)
(* computer actions, and the desktop's stop and targets.  Each part has    *)
(* its inductive invariant, one lemma for an action or a family of         *)
(* actions, and its theorem.                                               *)
(***************************************************************************)
EXTENDS ToyGridWorld, HilTelemetry, AutonomyLadder, PhysicalDispatch,
        BrowserTabs, ManagedBrowser, ComputerActions, DesktopStop, DesktopTargets,
        FoldTheorems, SequenceTheorems, TLAPS

-----------------------------------------------------------------------------
(* ToyGridWorld: a pass of the regression gate is earned.                  *)


\* A world has its fields, and is at the goal whenever it says it reached it.
WorldOK(g, w) ==
    /\ {"at", "battery", "steps", "status", "last"} \subseteq DOMAIN w
    /\ w.battery \in Int /\ g.threshold \in Int
    /\ w.status = "goal_reached" => w.at = g.goal

\* What an accepted step of an episode was: nominal telemetry of that very step, charge above the
\* threshold, and a free cell ahead.
StepIsEarned(g, s) ==
    /\ s.accepted /\ s.health = "nominal" /\ ~s.mismatch
    /\ s.before.battery > g.threshold
    /\ s.after.at \in Free(g)

EpisodeFields == {"status", "stop", "limit", "world", "steps", "plan", "auto"}

\* An episode that runs, or has steps, runs a plan made for the world; unless its last step
\* stopped it, it earned every one of them.
EpisodeInv ==
    episode # None =>
        /\ EpisodeFields \subseteq DOMAIN episode
        /\ episode.steps \in Seq({episode.steps[i] : i \in DOMAIN episode.steps})
        /\ WorldOK(grid, episode.world)
        /\ (episode.steps # << >> \/ episode.status = "running") => episode.plan.for = world
        /\ episode.world.status # "blocked" => \A i \in DOMAIN episode.steps : StepIsEarned(grid, episode.steps[i])

\* A verdict of the gate is about an episode that is over; a pass of the regression gate is about
\* one that reached the goal by steps.
GateInv ==
    gate # None =>
        /\ EpisodeEnded
        /\ (gate.entry = "regression" /\ gate.passed) => (episode.world.status = "goal_reached" /\ episode.steps # << >>)

GridInv == WorldOK(grid, world) /\ EpisodeInv /\ GateInv

LEMMA OneMore ==
    ASSUME NEW S, NEW seq \in Seq(S), NEW a \in S
    PROVE  /\ Append(seq, a) \in Seq(S) /\ Append(seq, a) # << >>
           /\ Len(Append(seq, a)) = Len(seq) + 1 /\ Len(seq) \in Nat
           /\ DOMAIN Append(seq, a) = (DOMAIN seq) \cup {Len(seq) + 1}
           /\ Append(seq, a)[Len(seq) + 1] = a
           /\ \A i \in DOMAIN seq : Append(seq, a)[i] = seq[i] /\ i <= Len(seq) /\ i \in Nat
<1>1. DOMAIN seq = 1..Len(seq) /\ Len(seq) \in Nat
  OBVIOUS
<1>2. /\ Append(seq, a) \in Seq(S) /\ Append(seq, a) # << >> /\ Len(Append(seq, a)) = Len(seq) + 1
      /\ \A i \in 1..Len(seq) : Append(seq, a)[i] = seq[i]
      /\ Append(seq, a)[Len(seq) + 1] = a
  BY AppendProperties
<1>3. DOMAIN Append(seq, a) = 1..(Len(seq) + 1)
  BY <1>2
<1> DEFINE n == Len(seq)
<1>4. 1..(n + 1) = (1..n) \cup {n + 1} /\ (\A i \in 1..n : i <= n /\ i \in Nat) /\ n \in Nat
  <2>1. n \in Nat
    BY <1>1
  <2> HIDE DEF n
  <2> QED BY <2>1
<1> QED BY <1>1, <1>2, <1>3, <1>4

LEMMA GridStart ==
    ASSUME GridInit
    PROVE  GridInv
<1>1. PICK b \in Batteries, n \in StepLimits : world = NewWorld(grid, b, n)
  BY DEF GridInit
<1>2. b \in Int /\ grid.threshold \in Int
  BY GridAssumption, MapAssumption DEF GridInit, ValidMap
<1>3. WorldOK(grid, world)
  BY <1>1, <1>2 DEF WorldOK, NewWorld
<1> QED BY <1>3 DEF GridInit, GridInv, EpisodeInv, GateInv

\* One more element at the end of a sequence.
LEMMA StepAppended ==
    ASSUME NEW S, NEW q \in Seq(S), NEW e
    PROVE  /\ Append(q, e) \in Seq({Append(q, e)[i] : i \in DOMAIN Append(q, e)})
           /\ \A i \in DOMAIN Append(q, e) : (i \in DOMAIN q /\ Append(q, e)[i] = q[i]) \/ Append(q, e)[i] = e
<1> DEFINE a == Append(q, e)
           T == {a[i] : i \in DOMAIN a}
<1>1. q \in Seq(S \cup {e}) /\ e \in S \cup {e}
  OBVIOUS
<1>2. /\ DOMAIN a = (DOMAIN q) \cup {Len(q) + 1} /\ a[Len(q) + 1] = e
      /\ \A i \in DOMAIN q : a[i] = q[i]
      /\ a \in Seq(S \cup {e}) /\ Len(a) = Len(q) + 1
  BY <1>1, OneMore
<1> HIDE DEF a
<1>3. \A i \in DOMAIN a : (i \in DOMAIN q /\ a[i] = q[i]) \/ a[i] = e
  BY <1>2
<1>4. Len(a) \in Nat /\ DOMAIN a = 1..Len(a) /\ a = [i \in 1..Len(a) |-> a[i]]
  BY <1>2
<1>5. a \in [1..Len(a) -> T]
  <2>1. \A i \in 1..Len(a) : a[i] \in T
    BY <1>4
  <2> HIDE DEF T
  <2> QED BY <2>1, <1>4
<1>6. a \in Seq(T)
  <2> HIDE DEF T
  <2> QED BY <1>4, <1>5
<1> QED BY <1>3, <1>6 DEF a, T

\* A step leaves a world behind; an accepted one was earned, and started from a running world.
LEMMA StepLeaves ==
    ASSUME NEW g, NEW w, WorldOK(g, w), NEW a, NEW snap,
           NEW s, s = StepResult(g, w, a, snap)
    PROVE  /\ WorldOK(g, s.after)
           /\ s.after.status # "blocked" => (StepIsEarned(g, s) /\ w.status = "running")
<1>1. /\ s.before = w /\ s.health = snap.health
      /\ s.accepted = GovernorAllowsStep(g, w, a, snap)
      /\ s.mismatch = (snap.scenario # ScenarioOf(w, a))
      /\ s.after = IF GovernorAllowsStep(g, w, a, snap) THEN AppliedAction(g, w, a)
                                                        ELSE BlockedState(w, StepBlockReason(g, w, a, snap))
  BY DEF StepResult
<1>2. CASE ~GovernorAllowsStep(g, w, a, snap)
  BY <1>1, <1>2 DEF BlockedState, WorldOK
<1>3. CASE GovernorAllowsStep(g, w, a, snap)
  <2> DEFINE p == NextPosition(w.at, a)
  <2>1. snap.scenario = ScenarioOf(w, a) /\ snap.health = "nominal" /\ ActionBlockReason(g, w, a) = ""
    BY <1>3 DEF GovernorAllowsStep, GovernorAllows
  <2>2. w.status = "running"
    BY <2>1 DEF ActionBlockReason
  <2>3. w.battery > g.threshold /\ p \in Cells(g) /\ p \notin g.obstacles /\ p \notin g.hazards
    <3>1. w.battery \in Int /\ g.threshold \in Int
      BY DEF WorldOK
    <3>2. w.battery > g.threshold
      BY <2>1, <2>2, <3>1 DEF ActionBlockReason
    <3>3. (CASE p \notin Cells(g) -> "out_of_bounds" [] p \in g.obstacles -> "obstacle" [] p \in g.hazards -> "hazard"
             [] OTHER -> "") = ""
      BY <2>1, <2>2, <3>1, <3>2 DEF ActionBlockReason
    <3> HIDE DEF p
    <3> QED BY <3>2, <3>3
  <2>4. /\ {"at", "battery", "steps", "status", "last"} \subseteq DOMAIN s.after
        /\ s.after.at = p /\ s.after.battery \in Int
        /\ s.after.status = IF p = g.goal THEN "goal_reached" ELSE "running"
    BY <1>1, <1>3 DEF AppliedAction, WorldOK
  <2> QED BY <1>1, <1>3, <2>1, <2>2, <2>3, <2>4 DEF WorldOK, StepIsEarned, Free
<1> QED BY <1>2, <1>3

LEMMA StepWorldStep ==
    ASSUME GridInv, NEW a, NEW r, StepWorld(a, r)
    PROVE  GridInv'
<1> DEFINE s == StepResult(grid, world, a, AsSnapshot(r, ScenarioOf(world, a)))
<1>1. episode = None /\ world' = s.after /\ grid' = grid /\ episode' = episode /\ gate' = gate
  BY DEF StepWorld
<1>2. WorldOK(grid, s.after)
  <2> HIDE DEF s
  <2>1. s = StepResult(grid, world, a, AsSnapshot(r, ScenarioOf(world, a)))
    BY DEF s
  <2> QED BY <2>1, StepLeaves DEF GridInv
<1> HIDE DEF s
<1>3. gate = None
  BY <1>1 DEF GridInv, GateInv, EpisodeEnded
<1> QED BY <1>1, <1>2, <1>3 DEF GridInv, EpisodeInv, GateInv, WorldOK

LEMMA StartEpisodeStep ==
    ASSUME GridInv, NEW b, StartEpisode(b)
    PROVE  GridInv'
<1>1. episode = None /\ UNCHANGED <<grid, world, plan, gate>>
  BY DEF StartEpisode
<1>2. gate = None
  BY <1>1 DEF GridInv, GateInv, EpisodeEnded
<1>3. \E status, stop, limit : episode' = Started(status, stop, limit) /\ (status = "running" => plan.for = world)
  <2>1. CASE plan.status = "blocked"
    BY <2>1 DEF StartEpisode
  <2>2. CASE plan.status # "blocked" /\ ~MatchesPlan
    BY <2>2 DEF StartEpisode
  <2>3. CASE plan.status # "blocked" /\ MatchesPlan
    BY <2>3 DEF StartEpisode, MatchesPlan
  <2> QED BY <2>1, <2>2, <2>3
<1>6. PICK status, stop, limit : episode' = Started(status, stop, limit) /\ (status = "running" => plan.for = world)
  BY <1>3
<1>4. /\ EpisodeFields \subseteq DOMAIN episode' /\ episode'.steps = << >>
      /\ episode'.world = world /\ episode'.status = status /\ episode'.plan = plan
  BY <1>6 DEF Started, EpisodeFields
<1>5. << >> \in Seq({}) /\ {episode'.steps[i] : i \in DOMAIN episode'.steps} = {}
  BY <1>4
<1> QED BY <1>1, <1>2, <1>4, <1>5, <1>6 DEF GridInv, EpisodeInv, GateInv, WorldOK

LEMMA EpisodeStepStep ==
    ASSUME GridInv, EpisodeStep
    PROVE  GridInv'
<1>1. episode # None /\ episode.status = "running" /\ UNCHANGED <<grid, world, plan, gate>>
  BY DEF EpisodeStep
<1>2. gate = None
  BY <1>1 DEF GridInv, GateInv, EpisodeEnded
<1>3. PICK a, snap, s, auto, status :
         /\ s = StepResult(grid, episode.world, a, snap)
         /\ episode' = [episode EXCEPT !.steps = Append(episode.steps, s), !.world = s.after, !.auto = auto,
                                       !.stop = s.reason, !.status = status]
  <2> DEFINE act == episode.plan.actions[Len(episode.steps) + 1]
             mine == AsSnapshot(AutoReading(grid, episode.world), ScenarioOf(episode.world, act))
  <2>1. PICK snap \in Offers(act) \cup {mine} :
            LET s == StepResult(grid, episode.world, act, snap) IN
            episode' = [episode EXCEPT !.steps = Append(@, s), !.world = s.after, !.auto = @ /\ snap = mine,
                                       !.stop = s.reason,
                                       !.status = IF ~s.accepted THEN "blocked"
                                                  ELSE IF s.after.status = "goal_reached" THEN "goal_reached" ELSE "running"]
    BY DEF EpisodeStep
  <2> DEFINE s == StepResult(grid, episode.world, act, snap)
             auto == episode.auto /\ snap = mine
             status == IF ~s.accepted THEN "blocked"
                       ELSE IF s.after.status = "goal_reached" THEN "goal_reached" ELSE "running"
  <2>2. s = StepResult(grid, episode.world, act, snap)
    OBVIOUS
  <2>3. episode' = [episode EXCEPT !.steps = Append(episode.steps, s), !.world = s.after, !.auto = auto,
                                   !.stop = s.reason, !.status = status]
    BY <2>1
  <2> HIDE DEF mine, act, s, auto, status
  <2> QED BY <2>2, <2>3
<1>4. /\ EpisodeFields \subseteq DOMAIN episode' /\ episode'.steps = Append(episode.steps, s)
      /\ episode'.world = s.after
  BY <1>1, <1>3 DEF GridInv, EpisodeInv, EpisodeFields
<1>5. /\ WorldOK(grid, s.after)
      /\ s.after.status # "blocked" => (StepIsEarned(grid, s) /\ episode.world.status = "running")
  BY <1>1, <1>3, StepLeaves DEF GridInv, EpisodeInv
<1>6. /\ episode'.steps \in Seq({episode'.steps[i] : i \in DOMAIN episode'.steps})
      /\ \A i \in DOMAIN episode'.steps :
            (i \in DOMAIN episode.steps /\ episode'.steps[i] = episode.steps[i]) \/ episode'.steps[i] = s
  <2> DEFINE S == {episode.steps[i] : i \in DOMAIN episode.steps}
             q == episode.steps
  <2>1. q \in Seq(S)
    BY <1>1 DEF GridInv, EpisodeInv
  <2> HIDE DEF S, q
  <2>2. /\ Append(q, s) \in Seq({Append(q, s)[i] : i \in DOMAIN Append(q, s)})
        /\ \A i \in DOMAIN Append(q, s) : (i \in DOMAIN q /\ Append(q, s)[i] = q[i]) \/ Append(q, s)[i] = s
    BY <2>1, StepAppended
  <2>3. episode'.steps = Append(q, s)
    BY <1>4 DEF q
  <2>4. \A i \in DOMAIN episode'.steps :
            (i \in DOMAIN q /\ episode'.steps[i] = q[i]) \/ episode'.steps[i] = s
    BY <2>2, <2>3
  <2>5. episode'.steps \in Seq({episode'.steps[i] : i \in DOMAIN episode'.steps})
    BY <2>2, <2>3
  <2> QED BY <2>4, <2>5 DEF q
<1>7. episode'.plan.for = world
  BY <1>1, <1>3 DEF GridInv, EpisodeInv
<1>8. s.after.status # "blocked" => \A i \in DOMAIN episode'.steps : StepIsEarned(grid, episode'.steps[i])
  BY <1>1, <1>5, <1>6 DEF GridInv, EpisodeInv
<1> QED BY <1>1, <1>2, <1>4, <1>5, <1>6, <1>7, <1>8 DEF GridInv, EpisodeInv, GateInv, WorldOK, StepIsEarned

LEMMA EpisodeRunsOutStep ==
    ASSUME GridInv, EpisodeRunsOut
    PROVE  GridInv'
<1>1. episode # None /\ episode.status = "running" /\ UNCHANGED <<grid, world, plan, gate>>
  BY DEF EpisodeRunsOut
<1>2. gate = None
  BY <1>1 DEF GridInv, GateInv, EpisodeEnded
<1>3. PICK status : episode' = [episode EXCEPT !.status = status]
  BY DEF EpisodeRunsOut
<1>4. /\ EpisodeFields \subseteq DOMAIN episode' /\ episode'.steps = episode.steps
      /\ episode'.plan = episode.plan /\ episode'.world = episode.world
  BY <1>1, <1>3 DEF GridInv, EpisodeInv, EpisodeFields
<1> QED BY <1>1, <1>2, <1>4 DEF GridInv, EpisodeInv, GateInv, WorldOK, StepIsEarned

\* The regression gate passes an episode only at the goal and with steps to show.
LEMMA PassNeedsSteps ==
    ASSUME NEW e, NEW rs, NEW required,
           ~GateBlocks(Scorecard(grid, e), SuiteResults(grid, DefaultSuites, e), DefaultSuites, rs, required)
    PROVE  e.world.status = "goal_reached" /\ e.steps # << >>
<1> DEFINE card == Scorecard(grid, e)
           res == SuiteResults(grid, DefaultSuites, e)
<1>1. card.passed /\ \A r \in res : r.passed
  BY DEF GateBlocks
<1>2. card.passed => e.world.status = "goal_reached"
  BY DEF Scorecard
<1>3. [suite |-> "toy_grid_replay_determinism", passed |-> SuitePasses(grid, "toy_grid_replay_determinism", e)] \in res
  BY DEF SuiteResults, DefaultSuites
<1>4. SuitePasses(grid, "toy_grid_replay_determinism", e)
  BY <1>1, <1>3
<1> QED BY <1>1, <1>2, <1>4 DEF SuitePasses, ReplayIsSound

LEMMA JudgeRegressionStep ==
    ASSUME GridInv, NEW rs, NEW required, JudgeRegression(rs, required)
    PROVE  GridInv'
<1> DEFINE ok == ~GateBlocks(Scorecard(grid, episode), SuiteResults(grid, DefaultSuites, episode), DefaultSuites, rs, required)
<1>1. EpisodeEnded /\ gate' = [entry |-> "regression", passed |-> ok] /\ UNCHANGED <<grid, world, plan, episode>>
  BY DEF JudgeRegression
<1>2. ok => (episode.world.status = "goal_reached" /\ episode.steps # << >>)
  BY PassNeedsSteps
<1> HIDE DEF ok
<1>3. gate'.passed = ok
  BY <1>1
<1> QED BY <1>1, <1>2, <1>3 DEF GridInv, EpisodeInv, GateInv, EpisodeEnded, WorldOK, StepIsEarned

LEMMA JudgeReviewStep ==
    ASSUME GridInv, NEW suites, JudgeReview(suites)
    PROVE  GridInv'
<1>1. EpisodeEnded /\ gate'.entry = "review" /\ UNCHANGED <<grid, world, plan, episode>>
  BY DEF JudgeReview
<1> QED BY <1>1 DEF GridInv, EpisodeInv, GateInv, EpisodeEnded, WorldOK, StepIsEarned

LEMMA GridStep ==
    ASSUME GridInv, [GridNext]_gridVars
    PROVE  GridInv'
<1>1. CASE UNCHANGED gridVars
  BY <1>1 DEF gridVars, GridInv, EpisodeInv, GateInv, EpisodeEnded, WorldOK, StepIsEarned
<1>2. ASSUME NEW b, MakePlan(b) PROVE GridInv'
  <2>1. episode = None /\ UNCHANGED <<grid, world, episode, gate>>
    BY <1>2 DEF MakePlan
  <2> QED BY <2>1 DEF GridInv, EpisodeInv, GateInv, EpisodeEnded, WorldOK
<1> QED BY <1>1, <1>2, StepWorldStep, StartEpisodeStep, EpisodeStepStep, EpisodeRunsOutStep,
           JudgeRegressionStep, JudgeReviewStep DEF GridNext

LEMMA PassFollows ==
    ASSUME GridInv
    PROVE  GatePassIsEarned
BY DEF GridInv, EpisodeInv, GateInv, EpisodeEnded, WorldOK, StepIsEarned, GatePassIsEarned

\* A pass of the safety regression gate is earned by every episode of every map.
THEOREM GatePassIsAlwaysEarned == GridSpec => []GatePassIsEarned
<1>1. GridInit => GridInv
  BY GridStart
<1>2. GridInv /\ [GridNext]_gridVars => GridInv'
  BY GridStep
<1>3. GridInv => GatePassIsEarned
  BY PassFollows
<1> QED BY <1>1, <1>2, <1>3, PTL DEF GridSpec

-----------------------------------------------------------------------------
(* ToyGridWorld: a plan delivers.  The search keeps, with every way it has *)
(* found, the cells the way goes through; the search of a level is a fold, *)
(* the levels are a recursion.                                             *)

Points == Int \X Int
Ways == [at : Points, actions : Seq(Actions)]
Levels == [frontier : Seq(Ways), seen : SUBSET Points]

LEMMA NextIsPoint == ASSUME NEW p \in Points, NEW a \in Actions PROVE NextPosition(p, a) \in Points
BY DEF Points, Actions, NextPosition

\* An extension is a way of the frontier by one move more.
Extends(way, ways) ==
    \E i \in DOMAIN ways, a \in Actions :
        way.at = NextPosition(ways[i].at, a) /\ way.actions = Append(ways[i].actions, a)

LEMMA ExtensionsAre ==
    ASSUME NEW ways \in Seq(Ways)
    PROVE  /\ Extensions(ways) \in Seq(Ways)
           /\ \A j \in DOMAIN Extensions(ways) : Extends(Extensions(ways)[j], ways)
<1> DEFINE m == Len(ways)
           ext == Extensions(ways)
<1>1. Len(Moves) = 4 /\ \A i \in 1..4 : Moves[i] \in Actions
  BY DEF Moves, Actions
<1>2. m \in Nat /\ DOMAIN ways = 1..m /\ \A i \in 1..m : ways[i] \in Ways
  OBVIOUS
<1>3. /\ DOMAIN ext = 1 .. 4 * m
      /\ \A j \in 1 .. 4 * m :
            ext[j] = [at |-> NextPosition(ways[((j - 1) \div 4) + 1].at, Moves[((j - 1) % 4) + 1]),
                      actions |-> Append(ways[((j - 1) \div 4) + 1].actions, Moves[((j - 1) % 4) + 1])]
      /\ ext = [j \in 1 .. 4 * m |-> ext[j]]
  BY <1>1 DEF Extensions
<1> HIDE DEF ext, m
<1>4. ASSUME NEW j \in 1 .. 4 * m PROVE ext[j] \in Ways /\ Extends(ext[j], ways)
  <2>1. PICK i \in 1..m : i = ((j - 1) \div 4) + 1
    BY <1>2
  <2>2. PICK k \in 1..4 : k = ((j - 1) % 4) + 1
    BY <1>2
  <2>3. ext[j] = [at |-> NextPosition(ways[i].at, Moves[k]), actions |-> Append(ways[i].actions, Moves[k])]
    BY <1>3, <2>1, <2>2
  <2>4. ways[i].at \in Points /\ ways[i].actions \in Seq(Actions) /\ Moves[k] \in Actions
    BY <1>1, <1>2 DEF Ways
  <2>5. NextPosition(ways[i].at, Moves[k]) \in Points /\ Append(ways[i].actions, Moves[k]) \in Seq(Actions)
    BY <2>4, NextIsPoint, AppendProperties
  <2>6. Extends(ext[j], ways)
    BY <1>2, <2>3, <2>4 DEF Extends
  <2> QED BY <2>3, <2>5, <2>6 DEF Ways
<1>5. ext \in Seq(Ways)
  <2>1. 4 * m \in Nat
    BY <1>2
  <2> QED BY <1>3, <1>4, <2>1, SMTT(30)
<1> QED BY <1>3, <1>4, <1>5 DEF ext

LEMMA VisitIs ==
    ASSUME NEW g, NEW level \in Levels, NEW way \in Ways
    PROVE  /\ Visit(g, level, way) \in Levels
           /\ \A w \in Range(Visit(g, level, way).frontier) :
                 w \in Range(level.frontier) \/ (w = way /\ way.at \in Free(g))
<1>1. level.frontier \in Seq(Ways) /\ level.seen \in SUBSET Points /\ way.at \in Points
  BY DEF Levels, Ways
<1>2. CASE way.at \in Free(g) \ level.seen
  <2> DEFINE more == Append(level.frontier, way)
             n == Len(level.frontier)
  <2>1. /\ more \in Seq(Ways) /\ n \in Nat /\ DOMAIN more = 1..n + 1 /\ more[n + 1] = way
        /\ DOMAIN level.frontier = 1..n /\ \A i \in 1..n : more[i] = level.frontier[i]
    BY <1>1, AppendProperties
  <2>2. Visit(g, level, way) = [frontier |-> more, seen |-> level.seen \cup {way.at}]
    BY <1>2 DEF Visit
  <2> HIDE DEF more, n
  <2>3. \A i \in 1..n + 1 : i \in 1..n \/ i = n + 1
    BY <2>1
  <2>4. \A w \in Range(more) : w \in Range(level.frontier) \/ w = way
    BY <2>1, <2>3 DEF Range
  <2> QED BY <1>1, <1>2, <2>1, <2>2, <2>4 DEF Levels
<1>3. CASE way.at \notin Free(g) \ level.seen
  BY <1>3 DEF Visit
<1> QED BY <1>2, <1>3

\* A level: every way of its frontier extends one of the level before, into a free cell.
LEMMA SearchLevelIs ==
    ASSUME NEW g, NEW level \in Levels
    PROVE  /\ SearchLevel(g, level) \in Levels
           /\ \A way \in Range(SearchLevel(g, level).frontier) : way.at \in Free(g) /\ Extends(way, level.frontier)
<1> DEFINE list == Extensions(level.frontier)
           base == [frontier |-> << >>, seen |-> level.seen]
           F == [p \in Levels \X Ways |-> Visit(g, p[1], p[2])]
           Good == {p \in Nat \X Levels :
                        \A way \in Range(p[2].frontier) : way.at \in Free(g) /\ Extends(way, level.frontier)}
<1>1. list \in Seq(Ways) /\ \A j \in DOMAIN list : Extends(list[j], level.frontier)
  <2>1. level.frontier \in Seq(Ways)
    BY DEF Levels
  <2> QED BY <2>1, ExtensionsAre
<1>2. base \in Levels
  <2>1. << >> \in Seq(Ways) /\ level.seen \in SUBSET Points
    BY DEF Levels
  <2> QED BY <2>1 DEF Levels
<1>3. F \in [Levels \X Ways -> Levels]
  <2>1. \A a \in Levels, w \in Ways : Visit(g, a, w) \in Levels
    BY VisitIs
  <2> QED BY <2>1
<1>4. \A a \in Levels, w \in Ways : F[<<a, w>>] = Visit(g, a, w)
  OBVIOUS
<1>0. SearchLevel(g, level) = FoldLeft(LAMBDA acc, entry : Visit(g, acc, entry), base, list)
  BY DEF SearchLevel
<1>16. base.frontier = << >>
  OBVIOUS
<1> HIDE DEF F, list, base
<1>5. FoldTypes(Levels, Ways, base, F, list)
  BY <1>1, <1>2, <1>3 DEF FoldTypes
<1>6. \E f : f = [s \in SUBSET (DOMAIN list) |-> IF s = {} THEN base ELSE Visit(g, f[s \ {Max(s)}], list[Max(s)])]
  <2>1. PICK f : Unfolded(f, Levels, Ways, base, F, list)
    BY <1>5, UnfoldingExists
  <2>2. \A s \in SUBSET (DOMAIN list) :
           s # {} => F[<<f[s \ {Max(s)}], list[Max(s)]>>] = Visit(g, f[s \ {Max(s)}], list[Max(s)])
    BY <1>4, <2>1 DEF Unfolded
  <2>3. f = [s \in SUBSET (DOMAIN list) |-> IF s = {} THEN base ELSE Visit(g, f[s \ {Max(s)}], list[Max(s)])]
    BY <2>1, <2>2 DEF Unfolded
  <2> QED BY <2>3
<1> DEFINE it == CHOOSE f : f = [s \in SUBSET (DOMAIN list) |->
                                    IF s = {} THEN base ELSE Visit(g, f[s \ {Max(s)}], list[Max(s)])]
<1>7. it = [s \in SUBSET (DOMAIN list) |-> IF s = {} THEN base ELSE Visit(g, it[s \ {Max(s)}], list[Max(s)])]
  BY <1>6
<1>8. SearchLevel(g, level) = it[DOMAIN list]
  BY <1>0 DEF FoldLeft, MapThenFoldSet
<1> HIDE DEF it
<1>9. Unfolds(it, Levels, base, F, list)
  <2>1. ASSUME NEW s \in SUBSET (DOMAIN list), s # {} PROVE list[Max(s)] \in Ways
    <3>1. DOMAIN list = 1..Len(list) /\ Len(list) \in Nat /\ s \in SUBSET (1..Len(list))
      BY <1>1
    <3>2. Max(s) \in s
      BY <2>1, <3>1, GreatestOf
    <3> QED BY <1>1, <3>1, <3>2
  <2> QED BY <1>4, <1>7, <2>1 DEF Unfolds
<1>10. <<0, base>> \in Good
  <2>1. Range(base.frontier) = {}
    BY <1>16 DEF Range
  <2> QED BY <1>2, <2>1
<1>11. ASSUME NEW k \in 1..Len(list), NEW a \in Levels, <<k - 1, a>> \in Good PROVE <<k, F[<<a, list[k]>>]>> \in Good
  <2>1. k \in DOMAIN list /\ k \in Nat /\ list[k] \in Ways
    BY <1>1
  <2>2. F[<<a, list[k]>>] = Visit(g, a, list[k]) /\ Extends(list[k], level.frontier)
    BY <1>1, <1>4, <2>1
  <2>3. /\ Visit(g, a, list[k]) \in Levels
        /\ \A w \in Range(Visit(g, a, list[k]).frontier) :
              w \in Range(a.frontier) \/ (w = list[k] /\ list[k].at \in Free(g))
    BY <2>1, VisitIs
  <2>4. \A way \in Range(a.frontier) : way.at \in Free(g) /\ Extends(way, level.frontier)
    BY <1>11
  <2> QED BY <2>1, <2>2, <2>3, <2>4
<1>12. \A k \in 1..Len(list), a \in Levels : <<k - 1, a>> \in Good => <<k, F[<<a, list[k]>>]>> \in Good
  BY <1>11
<1> HIDE DEF Good
<1>13. it[DOMAIN list] \in Levels /\ <<Len(list), it[DOMAIN list]>> \in Good
  BY <1>5, <1>9, <1>10, <1>12, FoldKeeps
<1> QED BY <1>8, <1>13 DEF Good

\* The levels of a search are searched one from the other.
LEMMA SearchLevelsAre ==
    ASSUME NEW g, NEW w, w.at \in Points, NEW budget \in Nat
    PROVE  LET levels == SearchLevels(g, w, budget)
           IN  /\ levels \in [0..budget -> Levels]
               /\ levels[0].frontier = << [at |-> w.at, actions |-> << >>] >>
               /\ \A n \in 1..budget : levels[n] = SearchLevel(g, levels[n - 1])
<1> DEFINE base == [frontier |-> << [at |-> w.at, actions |-> << >>] >>, seen |-> {w.at}]
           F == [level \in Levels |-> SearchLevel(g, level)]
<1>1. base \in Levels
  <2>1. [at |-> w.at, actions |-> << >>] \in Ways
    BY DEF Ways
  <2> QED BY <2>1 DEF Levels
<1>2. F \in [Levels -> Levels] /\ \A level \in Levels : F[level] = SearchLevel(g, level)
  BY SearchLevelIs
<1>3. base.frontier = << [at |-> w.at, actions |-> << >>] >>
  OBVIOUS
<1>4. SearchLevels(g, w, budget) =
        CHOOSE f : f = [n \in 0..budget |-> IF n = 0 THEN base ELSE SearchLevel(g, f[n - 1])]
  BY DEF SearchLevels
<1> HIDE DEF base, F
<1>5. PICK f \in [0..budget -> Levels] : Iterates(f, base, F, budget)
  BY <1>1, <1>2, IterationExists
<1>6. f = [n \in 0..budget |-> IF n = 0 THEN base ELSE SearchLevel(g, f[n - 1])]
  <2>1. \A n \in 0..budget : n # 0 => f[n - 1] \in Levels
    <3> SUFFICES ASSUME NEW n \in 0..budget, n # 0 PROVE f[n - 1] \in Levels
      OBVIOUS
    <3>1. n - 1 \in 0..budget
      OBVIOUS
    <3> QED BY <3>1
  <2>2. \A n \in 0..budget : n # 0 => F[f[n - 1]] = SearchLevel(g, f[n - 1])
    BY <1>2, <2>1
  <2> QED BY <1>5, <2>2 DEF Iterates
<1> DEFINE levels == CHOOSE h : h = [n \in 0..budget |-> IF n = 0 THEN base ELSE SearchLevel(g, h[n - 1])]
<1>7. levels = [n \in 0..budget |-> IF n = 0 THEN base ELSE SearchLevel(g, levels[n - 1])]
  BY <1>6
<1> HIDE DEF levels
<1>8. levels[0] = base /\ \A n \in 1..budget : levels[n] = SearchLevel(g, levels[n - 1])
  <2>1. 0 \in 0..budget /\ \A n \in 1..budget : n \in 0..budget /\ n # 0
    OBVIOUS
  <2> QED BY <1>7, <2>1
<1>9. \A n \in 0..budget : levels[n] \in Levels
  <2> DEFINE S == {n \in Nat : n <= budget => levels[n] \in Levels}
  <2>1. 0 \in S
    BY <1>1, <1>8
  <2>2. ASSUME NEW n \in Nat, n \in S PROVE n + 1 \in S
    <3> SUFFICES ASSUME n + 1 <= budget PROVE levels[n + 1] \in Levels
      OBVIOUS
    <3>1. levels[n] \in Levels /\ n + 1 \in 1..budget /\ (n + 1) - 1 = n
      BY <2>2
    <3>2. levels[n + 1] = SearchLevel(g, levels[n])
      BY <1>8, <3>1
    <3> QED BY <3>1, <3>2, SearchLevelIs
  <2> HIDE DEF S
  <2>3. Nat \subseteq S
    BY <2>1, <2>2, NatSetInduction
  <2> QED BY <2>3 DEF S
<1>10. levels = [n \in 0..budget |-> levels[n]]
  BY <1>7
<1>11. levels \in [0..budget -> Levels]
  BY <1>9, <1>10
<1>12. SearchLevels(g, w, budget) = levels
  BY <1>4 DEF levels
<1> QED BY <1>3, <1>8, <1>11, <1>12

\* The cells a list of actions goes through.
Steps(start, acts, track) ==
    /\ track \in [0..Len(acts) -> Points] /\ track[0] = start
    /\ \A k \in 1..Len(acts) : track[k] = NextPosition(track[k - 1], acts[k])

\* A way found at level n: its cells are free, and each was found at its level.
Found(levels, n, cell) == \E i \in DOMAIN levels[n].frontier : levels[n].frontier[i].at = cell

WayIs(g, start, levels, n, way) ==
    /\ Len(way.actions) = n
    /\ \E track : /\ Steps(start, way.actions, track) /\ track[n] = way.at
                  /\ \A k \in 1..n : track[k] \in Free(g)
                  /\ \A k \in 0..n : Found(levels, k, track[k])

\* One move more.
LEMMA OneMoreMove ==
    ASSUME NEW start, NEW acts \in Seq(Actions), NEW track, Steps(start, acts, track), NEW a \in Actions,
           NEW new, new = [k \in 0..Len(acts) + 1 |-> IF k = Len(acts) + 1 THEN NextPosition(track[Len(acts)], a) ELSE track[k]]
    PROVE  Steps(start, Append(acts, a), new)
<1> DEFINE more == Append(acts, a)
           n == Len(acts)
<1>1. n \in Nat /\ Len(more) = n + 1 /\ more[n + 1] = a /\ \A k \in 1..n : more[k] = acts[k]
  BY AppendProperties
<1> HIDE DEF more
<1>2. track \in [0..n -> Points] /\ track[0] = start /\ \A k \in 1..n : track[k] = NextPosition(track[k - 1], acts[k])
  BY DEF Steps
<1>3. NextPosition(track[n], a) \in Points
  BY <1>1, <1>2, NextIsPoint
<1>4. (\A k \in 0..n : new[k] = track[k]) /\ new[n + 1] = NextPosition(track[n], a)
  BY <1>1
<1>5. new \in [0..n + 1 -> Points]
  <2>1. \A k \in 0..n + 1 : k \in 0..n \/ k = n + 1
    BY <1>1
  <2> HIDE DEF n
  <2> QED BY <1>2, <1>3, <2>1 DEF n
<1> HIDE DEF n
<1>6. ASSUME NEW k \in 1..n + 1 PROVE new[k] = NextPosition(new[k - 1], more[k])
  <2>1. CASE k \in 1..n
    <3>1. k \in 0..n /\ k - 1 \in 0..n
      BY <1>1, <2>1
    <3> QED BY <1>1, <1>2, <1>4, <2>1, <3>1
  <2>2. CASE k = n + 1
    <3>1. k - 1 = n /\ n \in 0..n
      BY <1>1, <2>2
    <3> QED BY <1>1, <1>4, <2>2, <3>1
  <2> QED BY <1>1, <2>1, <2>2
<1>7. new[0] = start
  BY <1>1, <1>2, <1>4
<1> QED BY <1>1, <1>5, <1>6, <1>7 DEF Steps, more

LEMMA WaysAre ==
    ASSUME NEW g, NEW w, w.at \in Points, NEW budget \in Nat, NEW levels, levels = SearchLevels(g, w, budget)
    PROVE  \A n \in 0..budget : \A i \in DOMAIN levels[n].frontier : WayIs(g, w.at, levels, n, levels[n].frontier[i])
<1> DEFINE S == {n \in Nat : n <= budget => \A i \in DOMAIN levels[n].frontier : WayIs(g, w.at, levels, n, levels[n].frontier[i])}
<1>1. /\ levels \in [0..budget -> Levels]
      /\ levels[0].frontier = << [at |-> w.at, actions |-> << >>] >>
      /\ \A n \in 1..budget : levels[n] = SearchLevel(g, levels[n - 1])
  BY SearchLevelsAre
<1>2. 0 \in S
  <2> SUFFICES ASSUME NEW i \in DOMAIN levels[0].frontier PROVE WayIs(g, w.at, levels, 0, levels[0].frontier[i])
    OBVIOUS
  <2> DEFINE way == levels[0].frontier[i]
             track == [k \in 0..0 |-> w.at]
  <2>1. way.at = w.at /\ way.actions = << >> /\ Len(way.actions) = 0
    BY <1>1
  <2>2. track \in [0..0 -> Points] /\ track[0] = w.at
    OBVIOUS
  <2>3. Found(levels, 0, w.at)
    BY <2>1 DEF Found
  <2>4. (\A k \in 0..0 : k = 0) /\ 1..0 = {}
    OBVIOUS
  <2> HIDE DEF way, track
  <2>5. Steps(w.at, way.actions, track)
    BY <2>1, <2>2, <2>4 DEF Steps
  <2>6. \A k \in 0..0 : Found(levels, k, track[k])
    BY <2>2, <2>3, <2>4
  <2>7. WayIs(g, w.at, levels, 0, way)
    BY <2>1, <2>2, <2>4, <2>5, <2>6 DEF WayIs
  <2> QED BY <2>7 DEF way
<1>3. ASSUME NEW n \in Nat, n \in S PROVE n + 1 \in S
  <2> SUFFICES ASSUME n + 1 <= budget, NEW i \in DOMAIN levels[n + 1].frontier
               PROVE  WayIs(g, w.at, levels, n + 1, levels[n + 1].frontier[i])
    OBVIOUS
  <2> DEFINE way == levels[n + 1].frontier[i]
  <2>1. n + 1 \in 1..budget /\ (n + 1) - 1 = n /\ n \in 0..budget
        /\ \A j \in DOMAIN levels[n].frontier : WayIs(g, w.at, levels, n, levels[n].frontier[j])
    BY <1>3
  <2>2. levels[n + 1] = SearchLevel(g, levels[n]) /\ levels[n] \in Levels
    BY <1>1, <2>1
  <2>3. way \in Range(SearchLevel(g, levels[n]).frontier)
    BY <2>2 DEF Range
  <2>4. way.at \in Free(g) /\ Extends(way, levels[n].frontier)
    BY <2>2, <2>3, SearchLevelIs
  <2>5. Found(levels, n + 1, way.at)
    BY DEF Found
  <2> HIDE DEF way
  <2>6. PICK j \in DOMAIN levels[n].frontier, a \in Actions :
            way.at = NextPosition(levels[n].frontier[j].at, a) /\ way.actions = Append(levels[n].frontier[j].actions, a)
    BY <2>4 DEF Extends
  <2> DEFINE old == levels[n].frontier[j]
             acts == old.actions
  <2>7. acts \in Seq(Actions) /\ Len(acts) = n /\ WayIs(g, w.at, levels, n, old)
    <3>1. WayIs(g, w.at, levels, n, old)
      BY <2>1
    <3>2. old \in Ways
      BY <2>2 DEF Levels
    <3> QED BY <3>1, <3>2 DEF WayIs, Ways
  <2> HIDE DEF old
  <2>8. PICK track : /\ Steps(w.at, acts, track) /\ track[n] = old.at
                     /\ \A k \in 1..n : track[k] \in Free(g)
                     /\ \A k \in 0..n : Found(levels, k, track[k])
    BY <2>7 DEF WayIs
  <2>9. way.at = NextPosition(track[n], a) /\ way.actions = Append(acts, a)
    BY <2>6, <2>8 DEF old
  <2> HIDE DEF acts
  <2> DEFINE new == [k \in 0..Len(acts) + 1 |-> IF k = Len(acts) + 1 THEN NextPosition(track[Len(acts)], a) ELSE track[k]]
  <2>10. (\A k \in 0..n : new[k] = track[k]) /\ new[n + 1] = way.at
    BY <2>7, <2>9
  <2>11. \A k \in 0..n + 1 : k \in 0..n \/ k = n + 1
    OBVIOUS
  <2>12. Len(way.actions) = n + 1
    BY <2>7, <2>9, AppendProperties
  <2>13. Steps(w.at, way.actions, new)
    <3>1. PICK t : t = new
      OBVIOUS
    <3>2. Steps(w.at, Append(acts, a), t)
      BY <2>7, <2>8, <3>1, OneMoreMove
    <3> QED BY <2>9, <3>1, <3>2
  <2> HIDE DEF new
  <2>14. \A k \in 1..n + 1 : new[k] \in Free(g)
    <3>1. \A k \in 1..n + 1 : (k \in 1..n /\ k \in 0..n) \/ k = n + 1
      OBVIOUS
    <3> QED BY <2>4, <2>8, <2>10, <3>1
  <2>15. \A k \in 0..n + 1 : Found(levels, k, new[k])
    BY <2>5, <2>8, <2>10, <2>11
  <2>16. WayIs(g, w.at, levels, n + 1, way)
    BY <2>10, <2>12, <2>13, <2>14, <2>15 DEF WayIs
  <2> QED BY <2>16 DEF way
<1> HIDE DEF S
<1>4. Nat \subseteq S
  BY <1>2, <1>3, NatSetInduction
<1> QED BY <1>4 DEF S

\* A path of the planner goes through free cells and comes to the goal with its last move only.
Leads(g, start, acts, track) ==
    /\ Steps(start, acts, track)
    /\ \A k \in 1..Len(acts) : track[k] \in Free(g)
    /\ track[Len(acts)] = g.goal
    /\ \A k \in 0..Len(acts) - 1 : track[k] # g.goal

LEMMA PathLeads ==
    ASSUME NEW g, NEW w, w.at \in Points, NEW budget \in Nat, PlanPath(g, w, budget) # None
    PROVE  /\ PlanPath(g, w, budget) \in Seq(Actions) /\ Len(PlanPath(g, w, budget)) <= budget
           /\ \E track : Leads(g, w.at, PlanPath(g, w, budget), track)
<1> DEFINE levels == SearchLevels(g, w, budget)
           Arrivals(n) == {i \in DOMAIN levels[n].frontier : levels[n].frontier[i].at = g.goal}
           arrived == {n \in 0..budget : Arrivals(n) # {}}
           first == Min(arrived)
           place == Min(Arrivals(first))
           way == levels[first].frontier[place]
<1>1. levels \in [0..budget -> Levels]
  BY SearchLevelsAre
<1>2. \A n \in 0..budget : \A i \in DOMAIN levels[n].frontier : WayIs(g, w.at, levels, n, levels[n].frontier[i])
  BY WaysAre
<1>3. arrived # {} /\ PlanPath(g, w, budget) = way.actions
  BY DEF PlanPath
<1> HIDE DEF levels
<1>4. first \in arrived /\ \A n \in arrived : first <= n
  <2>1. arrived \in SUBSET Nat
    OBVIOUS
  <2> HIDE DEF arrived
  <2>2. \E n \in arrived : \A m \in arrived : n <= m
    BY <1>3, <2>1, Smallest
  <2> QED BY <2>2 DEF Min
<1>5. first \in 0..budget /\ Arrivals(first) # {}
  BY <1>4
<1> HIDE DEF first
<1>6. place \in Arrivals(first)
  <2>1. levels[first].frontier \in Seq(Ways)
    BY <1>1, <1>5 DEF Levels
  <2>2. Arrivals(first) \in SUBSET Nat
    BY <2>1
  <2> HIDE DEF Arrivals
  <2>3. \E n \in Arrivals(first) : \A m \in Arrivals(first) : n <= m
    BY <1>5, <2>2, Smallest
  <2> QED BY <2>3 DEF Min
<1> HIDE DEF place
<1>7. way.at = g.goal /\ way \in Ways /\ WayIs(g, w.at, levels, first, way)
  <2>1. levels[first].frontier \in Seq(Ways) /\ place \in DOMAIN levels[first].frontier
    BY <1>1, <1>5, <1>6 DEF Levels
  <2> QED BY <1>2, <1>5, <1>6, <2>1
<1> HIDE DEF way
<1>8. PICK track : /\ Steps(w.at, way.actions, track) /\ track[first] = way.at
                   /\ \A k \in 1..first : track[k] \in Free(g)
                   /\ \A k \in 0..first : Found(levels, k, track[k])
  BY <1>7 DEF WayIs
<1>9. Len(way.actions) = first /\ way.actions \in Seq(Actions)
  BY <1>7 DEF WayIs, Ways
<1>10. ASSUME NEW k \in 0..first - 1 PROVE track[k] # g.goal
  <2>1. SUFFICES ASSUME track[k] = g.goal PROVE FALSE
    OBVIOUS
  <2>2. k \in 0..first /\ k \in 0..budget /\ ~(first <= k)
    BY <1>5
  <2>3. Arrivals(k) # {}
    BY <1>8, <2>1, <2>2 DEF Found
  <2> QED BY <1>4, <2>2, <2>3
<1>11. Leads(g, w.at, way.actions, track)
  BY <1>7, <1>8, <1>9, <1>10 DEF Leads
<1> QED BY <1>3, <1>5, <1>9, <1>11

WorldIs(w) ==
    /\ {"at", "battery", "steps", "limit", "status", "last"} \subseteq DOMAIN w
    /\ w.at \in Points /\ w.battery \in Nat /\ w.steps \in Nat /\ w.limit \in Nat

\* A world is ready for a list of actions: it can pay for every one of them and none is blocked.
Ready(g, w, acts, track) ==
    /\ WorldIs(w) /\ w.status = "running"
    /\ acts \in Seq(Actions) /\ acts # << >>
    /\ Len(acts) <= w.battery - g.threshold /\ Len(acts) <= w.limit - w.steps
    /\ Leads(g, w.at, acts, track)

Planned(p) == p.status = "planned" /\ p.actions # << >>

\* How far an episode under its own telemetry has come: after k steps it is in the cell number k of
\* its way, has paid k and is not stopped.
Underway(g, e, track) ==
    LET k == Len(e.steps)
        n == Len(e.plan.actions)
    IN  /\ Ready(g, e.plan.for, e.plan.actions, track)
        /\ e.limit \in Nat /\ e.limit <= n /\ k <= e.limit /\ k \in Nat
        /\ WorldIs(e.world) /\ e.world.at = track[k]
        /\ e.world.battery = e.plan.for.battery - k /\ e.world.steps = e.plan.for.steps + k
        /\ e.world.limit = e.plan.for.limit
        /\ k = n => e.status = "goal_reached"
        /\ k < n => e.world.status = "running" /\ e.status \in {"running", "max_steps_exhausted"}
        /\ e.status = "max_steps_exhausted" => k = e.limit

DeliverInv ==
    /\ grid \in Maps /\ WorldIs(world)
    /\ plan # None /\ Planned(plan) => \E track : Ready(grid, plan.for, plan.actions, track)
    /\ plan # None => plan.budget \in Nat
    /\ episode # None =>
          /\ plan # None /\ episode.plan = plan
          /\ EpisodeFields \subseteq DOMAIN episode
          /\ \E S : episode.steps \in Seq(S)
          /\ episode.status = "plan_mismatch" => episode.limit = 0
          /\ episode.auto /\ Planned(plan) /\ episode.status # "plan_mismatch"
                => \E track : Underway(grid, episode, track)

LEMMA GridIs == ASSUME grid \in Maps PROVE grid.threshold \in Nat /\ grid.start \in Points
<1>1. ValidMap(grid)
  BY MapAssumption
<1> QED BY <1>1 DEF ValidMap, Free, Cells, Points

LEMMA DeliverStart == GridInit => DeliverInv
<1> SUFFICES ASSUME GridInit PROVE DeliverInv
  OBVIOUS
<1>1. PICK b \in Batteries, n \in StepLimits : world = NewWorld(grid, b, n)
  BY DEF GridInit
<1>2. grid \in Maps /\ b \in Nat /\ n \in Nat /\ grid.start \in Points
  BY GridAssumption, GridIs DEF GridInit
<1>3. WorldIs(world)
  BY <1>1, <1>2 DEF WorldIs, NewWorld
<1> QED BY <1>2, <1>3 DEF GridInit, DeliverInv

LEMMA PlanRecordIs ==
    \A w, status, acts, budget, reason :
        /\ PlanRecord(w, status, acts, budget, reason).for = w
        /\ PlanRecord(w, status, acts, budget, reason).status = status
        /\ PlanRecord(w, status, acts, budget, reason).actions = acts
        /\ PlanRecord(w, status, acts, budget, reason).budget = budget
BY DEF PlanRecord

\* A planned path is one the world is ready for.
LEMMA PlanIsReady ==
    ASSUME NEW g, g.threshold \in Nat, NEW w, WorldIs(w), NEW requested \in Nat, NEW p, p = PlanFor(g, w, requested)
    PROVE  /\ p.budget \in Nat
           /\ Planned(p) => \E track : Ready(g, p.for, p.actions, track)
<1> DEFINE left == IF w.limit > w.steps THEN w.limit - w.steps ELSE 0
           budget == IF requested < left THEN requested ELSE left
           path == PlanPath(g, w, budget)
<1>1. budget \in Nat /\ left \in Nat /\ budget <= left
  BY DEF WorldIs
<1>2. p.budget = budget /\ p.for = w
  <2>1. \E status, acts, reason : p = PlanRecord(w, status, acts, budget, reason)
    <3> HIDE DEF budget, path
    <3>1. p = LET Denied(reason) == PlanRecord(w, "blocked", << >>, budget, reason)
              IN  IF w.at = g.goal THEN PlanRecord(w, "planned", << >>, budget, "")
                  ELSE IF w.status # "running" THEN Denied("mission_not_running")
                  ELSE IF w.battery <= g.threshold THEN Denied("low_battery")
                  ELSE IF budget = 0 THEN Denied("max_step_budget_exhausted")
                  ELSE IF path = None
                       THEN Denied(IF PlanPath(g, w, LongestPath(g)) # None THEN "max_step_budget_exhausted" ELSE "no_safe_path")
                  ELSE IF ~Affordable(g, w, path) THEN Denied("low_battery")
                  ELSE PlanRecord(w, "planned", path, budget, "")
      BY DEF PlanFor, budget, path, left
    <3> QED BY <3>1
  <2> HIDE DEF budget
  <2> QED BY <2>1, PlanRecordIs
<1>3. ASSUME Planned(p)
      PROVE  /\ w.status = "running" /\ path # None /\ Affordable(g, w, path) /\ p.actions = path
  <2> DEFINE nil == ""
  <2>1. p = LET Denied(reason) == PlanRecord(w, "blocked", << >>, budget, reason)
            IN  IF w.at = g.goal THEN PlanRecord(w, "planned", << >>, budget, nil)
                ELSE IF w.status # "running" THEN Denied("mission_not_running")
                ELSE IF w.battery <= g.threshold THEN Denied("low_battery")
                ELSE IF budget = 0 THEN Denied("max_step_budget_exhausted")
                ELSE IF path = None
                     THEN Denied(IF PlanPath(g, w, LongestPath(g)) # None THEN "max_step_budget_exhausted" ELSE "no_safe_path")
                ELSE IF ~Affordable(g, w, path) THEN Denied("low_battery")
                ELSE PlanRecord(w, "planned", path, budget, nil)
    BY DEF PlanFor
  <2> HIDE DEF budget, path, nil
  <2>2. \A reason : PlanRecord(w, "blocked", << >>, budget, reason).status = "blocked"
    BY PlanRecordIs
  <2>3. PlanRecord(w, "planned", << >>, budget, nil).actions = << >>
    BY PlanRecordIs
  <2>4. /\ w.status = "running" /\ path # None /\ Affordable(g, w, path)
        /\ p = PlanRecord(w, "planned", path, budget, nil)
    BY <1>3, <2>1, <2>2, <2>3 DEF Planned
  <2> QED BY <2>4, PlanRecordIs
<1>4. ASSUME Planned(p) PROVE \E track : Ready(g, p.for, p.actions, track)
  <2>1. w.status = "running" /\ path # None /\ Affordable(g, w, path) /\ p.actions = path
    BY <1>3, <1>4
  <2> HIDE DEF budget
  <2>2. /\ path \in Seq(Actions) /\ Len(path) <= budget
        /\ \E track : Leads(g, w.at, path, track)
    BY <1>1, <2>1, PathLeads DEF WorldIs
  <2> HIDE DEF path
  <2>3. PICK track : Leads(g, w.at, path, track)
    BY <2>2
  <2>4. Len(path) <= w.battery - g.threshold
    BY <2>1 DEF Affordable
  <2>5. path # << >>
    BY <1>4, <2>1 DEF Planned
  <2>6. Len(path) <= w.limit - w.steps
    <3>1. Len(path) \in Nat /\ Len(path) # 0
      BY <2>2, <2>5
    <3> QED BY <1>1, <2>2, <3>1 DEF WorldIs
  <2> QED BY <1>2, <2>1, <2>2, <2>3, <2>4, <2>5, <2>6 DEF Ready
<1> HIDE DEF budget
<1> QED BY <1>1, <1>2, <1>4

-----------------------------------------------------------------------------
(* ToyGridWorld: the episode that follows the plan.                        *)

LEMMA PlanStep == ASSUME DeliverInv, NEW b \in Budgets, MakePlan(b) PROVE DeliverInv'
<1>1. episode = None /\ plan' = PlanFor(grid, world, b) /\ UNCHANGED <<grid, world, episode, gate>>
  BY DEF MakePlan
<1>2. grid.threshold \in Nat /\ WorldIs(world) /\ b \in Nat /\ grid \in Maps
  BY GridIs, GridAssumption DEF DeliverInv
<1>3. PICK p : p = PlanFor(grid, world, b)
  OBVIOUS
<1>4. p.budget \in Nat /\ (Planned(p) => \E track : Ready(grid, p.for, p.actions, track))
  BY <1>2, <1>3, PlanIsReady
<1>5. plan' = p
  BY <1>1, <1>3
<1>6. grid' \in Maps /\ WorldIs(world') /\ episode' = None /\ grid' = grid
  BY <1>1, <1>2 DEF WorldIs
<1>7. Planned(plan)' => \E track : Ready(grid, p.for, p.actions, track)
  BY <1>4, <1>5 DEF Planned
<1>8. plan'.budget \in Nat /\ plan'.for = p.for /\ plan'.actions = p.actions
  BY <1>4, <1>5
<1>9. \A track : Ready(grid', plan'.for, plan'.actions, track) = Ready(grid, p.for, p.actions, track)
  BY <1>6, <1>8
<1> QED BY <1>6, <1>7, <1>8, <1>9 DEF DeliverInv, Planned, WorldIs

\* A step by itself leaves a world behind.
LEMMA WorldStep == ASSUME DeliverInv, NEW a \in Actions, NEW r, StepWorld(a, r) PROVE DeliverInv'
<1>1. episode = None /\ UNCHANGED <<grid, plan, episode, gate>>
  BY DEF StepWorld
<1>2. PICK reason : world' = AppliedAction(grid, world, a) \/ world' = BlockedState(world, reason)
  BY DEF StepWorld, StepResult
<1>3. WorldIs(world) /\ NextPosition(world.at, a) \in Points
  BY NextIsPoint DEF DeliverInv, WorldIs
<1>4. WorldIs(world)'
  <2>1. CASE world' = AppliedAction(grid, world, a)
    BY <1>3, <2>1 DEF AppliedAction, WorldIs
  <2>2. CASE world' = BlockedState(world, reason)
    BY <1>3, <2>2 DEF BlockedState, WorldIs
  <2> QED BY <1>2, <2>1, <2>2
<1> QED BY <1>1, <1>4 DEF DeliverInv, Planned

LEMMA LimitIs ==
    ASSUME NEW b \in Nat, plan.budget \in Nat, Len(plan.actions) \in Nat
    PROVE  EpisodeLimit(b) \in Nat /\ EpisodeLimit(b) <= Len(plan.actions)
<1> DEFINE n == Len(plan.actions)
           S == {n, b, plan.budget}
<1>1. S \in SUBSET Nat /\ S # {} /\ n \in S
  OBVIOUS
<1>2. EpisodeLimit(b) = CHOOSE k \in S : \A j \in S : k <= j
  BY DEF EpisodeLimit
<1> HIDE DEF S, n
<1>3. \E k \in S : \A j \in S : k <= j
  BY <1>1, Smallest
<1>4. EpisodeLimit(b) \in S /\ EpisodeLimit(b) <= n
  BY <1>1, <1>2, <1>3
<1> QED BY <1>1, <1>4 DEF n

LEMMA StartDelivers == ASSUME DeliverInv, NEW b \in Budgets, StartEpisode(b) PROVE DeliverInv'
<1>1. plan # None /\ UNCHANGED <<grid, world, plan, gate>>
  BY DEF StartEpisode
<1>2. grid \in Maps /\ WorldIs(world) /\ plan.budget \in Nat /\ b \in Nat
      /\ (Planned(plan) => \E track : Ready(grid, plan.for, plan.actions, track))
  BY <1>1, GridAssumption DEF DeliverInv
<1>3. PICK status, stop, limit :
         /\ episode' = Started(status, stop, limit)
         /\ \/ status = "plan_blocked" /\ plan.status = "blocked"
            \/ status = "plan_mismatch" /\ limit = 0
            \/ status = "running" /\ world = plan.for /\ limit = EpisodeLimit(b)
  <2>1. CASE plan.status = "blocked"
    BY <2>1 DEF StartEpisode
  <2>2. CASE plan.status # "blocked" /\ ~MatchesPlan
    BY <2>2 DEF StartEpisode
  <2>3. CASE plan.status # "blocked" /\ MatchesPlan
    BY <2>3 DEF StartEpisode, MatchesPlan
  <2> QED BY <2>1, <2>2, <2>3
<1>4. /\ EpisodeFields \subseteq DOMAIN episode' /\ episode'.steps = << >> /\ episode'.limit = limit
      /\ episode'.world = world /\ episode'.status = status /\ episode'.plan = plan
  BY <1>3 DEF Started, EpisodeFields
<1>5. \E S : episode'.steps \in Seq(S)
  BY <1>4
<1>6. ASSUME Planned(plan), status # "plan_mismatch" PROVE \E track : Underway(grid, episode', track)
  <2>1. status = "running" /\ world = plan.for /\ limit = EpisodeLimit(b)
    BY <1>3, <1>6 DEF Planned
  <2>2. PICK track : Ready(grid, plan.for, plan.actions, track)
    BY <1>2, <1>6
  <2>3. Len(plan.actions) \in Nat /\ Len(plan.actions) > 0
    BY <2>2 DEF Ready
  <2>4. limit \in Nat /\ limit <= Len(plan.actions)
    BY <1>2, <2>1, <2>3, LimitIs
  <2>5. Len(episode'.steps) = 0
    BY <1>4
  <2>6. track[0] = world.at /\ world.status = "running"
    BY <2>1, <2>2 DEF Ready, Leads, Steps
  <2>7. world.battery - 0 = world.battery /\ world.steps + 0 = world.steps
    BY <1>2 DEF WorldIs
  <2>8. Underway(grid, episode', track)
    BY <1>2, <1>4, <2>1, <2>2, <2>3, <2>4, <2>5, <2>6, <2>7 DEF Underway
  <2> QED BY <2>8
<1> QED BY <1>1, <1>2, <1>3, <1>4, <1>5, <1>6 DEF DeliverInv, Planned, WorldIs

\* Whoever has n to pay above a threshold, and has paid less than n, has something left.
LEMMA Remaining ==
    ASSUME NEW b \in Nat, NEW t \in Nat, NEW s \in Nat, NEW m \in Nat, NEW n \in Nat, NEW k \in Nat,
           n <= b - t, n <= m - s, k < n
    PROVE  b - k > t /\ s + k < m /\ (b - k) - 1 \in Nat
OBVIOUS

\* A step the governor allows is accepted and applied.
LEMMA StepAllowed ==
    ASSUME NEW g, NEW w, NEW a, NEW snap, GovernorAllowsStep(g, w, a, snap), NEW s, s = StepResult(g, w, a, snap)
    PROVE  s.accepted /\ s.after = AppliedAction(g, w, a)
<1>1. s.accepted = GovernorAllowsStep(g, w, a, snap)
  BY DEF StepResult
<1>2. s.after = AppliedAction(g, w, a)
  BY DEF StepResult
<1> QED BY <1>1, <1>2

\* The step an episode takes under its own telemetry, and where it leads.
GoesOn(g, e, track) ==
    g.threshold \in Nat /\ Underway(g, e, track) /\ e.status = "running" /\ Len(e.steps) < e.limit

IsOwnStep(g, e, s) ==
    LET a == e.plan.actions[Len(e.steps) + 1]
    IN  s = StepResult(g, e.world, a, AsSnapshot(AutoReading(g, e.world), ScenarioOf(e.world, a)))

MovedOn(e, track, s) ==
    /\ s.accepted
    /\ WorldIs(s.after) /\ s.after.at = track[Len(e.steps) + 1]
    /\ s.after.battery = e.world.battery - 1 /\ s.after.steps = e.world.steps + 1
    /\ s.after.limit = e.world.limit
    /\ s.after.status = IF Len(e.steps) + 1 = Len(e.plan.actions) THEN "goal_reached" ELSE "running"

\* A step of an episode that is underway, under its own telemetry, is accepted and moves it on.
LEMMA OwnStep ==
    ASSUME NEW g, NEW e, NEW track, GoesOn(g, e, track), NEW s, IsOwnStep(g, e, s)
    PROVE  MovedOn(e, track, s)
<1>0. PICK a : /\ a = e.plan.actions[Len(e.steps) + 1]
               /\ s = StepResult(g, e.world, a, AsSnapshot(AutoReading(g, e.world), ScenarioOf(e.world, a)))
  BY DEF IsOwnStep
<1>10. g.threshold \in Nat /\ Underway(g, e, track) /\ Len(e.steps) < e.limit /\ e.status = "running"
  BY DEF GoesOn
<1> DEFINE k == Len(e.steps)
           acts == e.plan.actions
           n == Len(acts)
           w == e.world
           p == NextPosition(w.at, a)
           snap == AsSnapshot(AutoReading(g, w), ScenarioOf(w, a))
<1>1. /\ k \in Nat /\ n \in Nat /\ k + 1 \in 1..n /\ (k + 1) - 1 = k
      /\ acts \in Seq(Actions) /\ a \in Actions
      /\ Leads(g, e.plan.for.at, acts, track)
      /\ w.status = "running" /\ WorldIs(w) /\ w.at = track[k]
  BY <1>0, <1>10 DEF Underway, Ready
<1>2. w.battery > g.threshold /\ w.steps < w.limit /\ w.battery - 1 \in Nat
  <2>1. /\ w.battery = e.plan.for.battery - k /\ w.steps = e.plan.for.steps + k /\ w.limit = e.plan.for.limit
        /\ n <= e.plan.for.battery - g.threshold /\ n <= e.plan.for.limit - e.plan.for.steps
        /\ e.plan.for.battery \in Nat /\ e.plan.for.steps \in Nat /\ e.plan.for.limit \in Nat /\ g.threshold \in Nat
    BY <1>10 DEF Underway, Ready, WorldIs
  <2>2. k < n
    BY <1>1
  <2>3. k \in Nat /\ n \in Nat
    BY <1>1
  <2> HIDE DEF k, n, w, p, snap
  <2>4. PICK b, t, t0, m : b = e.plan.for.battery /\ t = g.threshold /\ t0 = e.plan.for.steps /\ m = e.plan.for.limit
    OBVIOUS
  <2>5. b \in Nat /\ t \in Nat /\ t0 \in Nat /\ m \in Nat
    BY <2>1, <2>4
  <2>6. n <= b - t /\ n <= m - t0
    BY <2>1, <2>4
  <2>7. b - k > t /\ t0 + k < m /\ (b - k) - 1 \in Nat
    BY <2>2, <2>3, <2>5, <2>6, Remaining
  <2> QED BY <2>1, <2>4, <2>7
<1>3. /\ p = track[k + 1] /\ p \in Free(g) /\ p \in Points
      /\ p = g.goal <=> k + 1 = n
  <2>1. /\ track[k + 1] = NextPosition(track[k], acts[k + 1]) /\ track[k + 1] \in Free(g)
        /\ track[n] = g.goal /\ \A j \in 0..n - 1 : track[j] # g.goal
    BY <1>1 DEF Leads, Steps
  <2>2. k + 1 # n => k + 1 \in 0..n - 1
    BY <1>1
  <2>3. w.at \in Points
    BY <1>1 DEF WorldIs
  <2>4. p = NextPosition(track[k], a) /\ p \in Points
    BY <1>1, <2>3, NextIsPoint
  <2> QED BY <1>0, <1>1, <2>1, <2>2, <2>4
<1>4. snap.scenario = ScenarioOf(w, a) /\ snap.health = "nominal"
  <2>1. AutoReading(g, w).values = {"safe"}
    BY <1>1, <1>2, <1>10 DEF AutoReading, WorldIs
  <2>2. TelemetryHealth(AutoReading(g, w)) = "nominal"
    BY <2>1 DEF TelemetryHealth, AutoReading, MaxAgeSeconds
  <2> QED BY <2>2 DEF AsSnapshot
<1>5. ActionBlockReason(g, w, a) = ""
  <2>1. p \in Cells(g) /\ p \notin g.obstacles /\ p \notin g.hazards
    BY <1>3 DEF Free
  <2>2. ~(w.battery <= g.threshold) /\ ~(w.steps >= w.limit)
    BY <1>1, <1>2, <1>10 DEF WorldIs
  <2> HIDE DEF w
  <2> QED BY <1>1, <1>2, <2>1, <2>2 DEF ActionBlockReason
<1>6. GovernorAllowsStep(g, w, a, snap)
  <2> HIDE DEF snap, w
  <2> QED BY <1>4, <1>5 DEF GovernorAllowsStep, GovernorAllows
<1>7. s = StepResult(g, w, a, snap)
  BY <1>0
<1> HIDE DEF snap
<1>8. s.accepted /\ s.after = AppliedAction(g, w, a)
  <2> HIDE DEF w
  <2> QED BY <1>6, <1>7, StepAllowed
<1>9. /\ WorldIs(s.after) /\ s.after.at = p
      /\ s.after.battery = w.battery - 1 /\ s.after.steps = w.steps + 1 /\ s.after.limit = w.limit
      /\ s.after.status = IF p = g.goal THEN "goal_reached" ELSE "running"
  <2>1. w.battery > 0 /\ w.steps + 1 \in Nat
    BY <1>1, <1>2 DEF WorldIs
  <2> HIDE DEF w, p
  <2>2. PICK v : v = AppliedAction(g, w, a)
    OBVIOUS
  <2>3. /\ DOMAIN v = DOMAIN w /\ v.at = p /\ v.battery = w.battery - 1 /\ v.steps = w.steps + 1 /\ v.limit = w.limit
        /\ v.status = IF p = g.goal THEN "goal_reached" ELSE "running"
    BY <1>1, <2>1, <2>2 DEF AppliedAction, WorldIs, p
  <2> QED BY <1>1, <1>2, <1>3, <1>8, <2>1, <2>2, <2>3 DEF WorldIs
<1> QED BY <1>3, <1>8, <1>9 DEF MovedOn

LEMMA CountOn ==
    ASSUME NEW b \in Nat, NEW t \in Nat, NEW m \in Nat, NEW k \in Nat, k < m
    PROVE  k + 1 \in Nat /\ k + 1 <= m /\ (b - k) - 1 = b - (k + 1) /\ (t + k) + 1 = t + (k + 1)
OBVIOUS

\* One step more is one step longer.
LEMMA StepLonger == ASSUME NEW S, NEW q \in Seq(S), NEW s PROVE Len(Append(q, s)) = Len(q) + 1
<1>1. q \in Seq(S \cup {s}) /\ s \in S \cup {s}
  OBVIOUS
<1> QED BY <1>1, OneMore

LEMMA StepListed == ASSUME NEW S, NEW q \in Seq(S), NEW s PROVE \E T : Append(q, s) \in Seq(T)
<1>1. q \in Seq(S \cup {s}) /\ s \in S \cup {s}
  OBVIOUS
<1>2. Append(q, s) \in Seq(S \cup {s})
  BY <1>1, OneMore
<1> QED BY <1>2

\* What a step does to an episode.
Follows(e, f, s) ==
    /\ f.steps = Append(e.steps, s) /\ f.world = s.after /\ f.plan = e.plan /\ f.limit = e.limit
    /\ f.status = IF ~s.accepted THEN "blocked"
                  ELSE IF s.after.status = "goal_reached" THEN "goal_reached" ELSE "running"

\* An episode that is still under its own telemetry was so before, and so was its step.
Stepped(g, e, f, s) == Follows(e, f, s) /\ (f.auto => e.auto /\ IsOwnStep(g, e, s))

\* An episode underway stays underway by a step under its own telemetry.
LEMMA MovesOn ==
    ASSUME NEW g, NEW e, NEW track, GoesOn(g, e, track), NEW S, e.steps \in Seq(S),
           NEW s, IsOwnStep(g, e, s), NEW f, Follows(e, f, s)
    PROVE  Underway(g, f, track)
<1> DEFINE k == Len(e.steps)
           n == Len(e.plan.actions)
<1>0. /\ MovedOn(e, track, s) /\ Underway(g, e, track) /\ k < e.limit
      /\ f.steps = Append(e.steps, s) /\ f.world = s.after /\ f.plan = e.plan /\ f.limit = e.limit
      /\ f.status = IF ~s.accepted THEN "blocked"
                    ELSE IF s.after.status = "goal_reached" THEN "goal_reached" ELSE "running"
  BY OwnStep DEF GoesOn, Follows
<1>1. /\ s.accepted
      /\ WorldIs(s.after) /\ s.after.at = track[k + 1]
      /\ s.after.battery = e.world.battery - 1 /\ s.after.steps = e.world.steps + 1
      /\ s.after.limit = e.world.limit
      /\ s.after.status = IF k + 1 = n THEN "goal_reached" ELSE "running"
  BY <1>0 DEF MovedOn
<1>2. Len(f.steps) = k + 1
  <2>1. Len(Append(e.steps, s)) = Len(e.steps) + 1
    BY StepLonger
  <2> QED BY <1>0, <2>1
<1>3. /\ Ready(g, e.plan.for, e.plan.actions, track)
      /\ k \in Nat /\ n \in Nat /\ e.limit \in Nat /\ e.limit <= n /\ k < e.limit
      /\ e.world.battery = e.plan.for.battery - k /\ e.world.steps = e.plan.for.steps + k
      /\ e.world.limit = e.plan.for.limit
      /\ e.plan.for.battery \in Nat /\ e.plan.for.steps \in Nat
  BY <1>0 DEF Underway, Ready, WorldIs
<1> HIDE DEF k, n
<1>4. /\ k + 1 \in Nat /\ k + 1 <= e.limit
      /\ (e.plan.for.battery - k) - 1 = e.plan.for.battery - (k + 1)
      /\ (e.plan.for.steps + k) + 1 = e.plan.for.steps + (k + 1)
  <2>1. PICK b, t, m : b = e.plan.for.battery /\ t = e.plan.for.steps /\ m = e.limit
    OBVIOUS
  <2>2. b \in Nat /\ t \in Nat /\ m \in Nat /\ k < m
    BY <1>3, <2>1
  <2>3. k + 1 \in Nat /\ k + 1 <= m /\ (b - k) - 1 = b - (k + 1) /\ (t + k) + 1 = t + (k + 1)
    BY <1>3, <2>2, CountOn
  <2> QED BY <2>1, <2>3
<1>5. f.status = (IF k + 1 = n THEN "goal_reached" ELSE "running")
  BY <1>0, <1>1
<1>6. k + 1 < n => k + 1 # n
  BY <1>3
<1>7. /\ Ready(g, f.plan.for, f.plan.actions, track)
      /\ f.limit \in Nat /\ f.limit <= n /\ k + 1 <= f.limit
      /\ WorldIs(f.world) /\ f.world.at = track[k + 1]
      /\ f.world.battery = f.plan.for.battery - (k + 1) /\ f.world.steps = f.plan.for.steps + (k + 1)
      /\ f.world.limit = f.plan.for.limit
  BY <1>0, <1>1, <1>3, <1>4
<1>8. /\ k + 1 = n => f.status = "goal_reached"
      /\ k + 1 < n => f.world.status = "running" /\ f.status = "running"
      /\ f.status # "max_steps_exhausted"
  BY <1>0, <1>1, <1>5, <1>6
<1>9. n = Len(f.plan.actions)
  BY <1>0 DEF n
<1> QED BY <1>2, <1>4, <1>7, <1>8, <1>9 DEF Underway

\* The step of an episode: what it changes, and that it is the episode's own if the episode stays so.
LEMMA StepIs ==
    ASSUME EpisodeStep, EpisodeFields \subseteq DOMAIN episode
    PROVE  DOMAIN episode' = DOMAIN episode /\ \E s : Stepped(grid, episode, episode', s)
<1>0. PICK a : a = episode.plan.actions[Len(episode.steps) + 1]
  OBVIOUS
<1> DEFINE mine == AsSnapshot(AutoReading(grid, episode.world), ScenarioOf(episode.world, a))
<1>1. PICK snap \in Offers(a) \cup {mine} :
          LET s == StepResult(grid, episode.world, a, snap) IN
          episode' = [episode EXCEPT !.steps = Append(@, s), !.world = s.after, !.auto = @ /\ snap = mine,
                                     !.stop = s.reason,
                                     !.status = IF ~s.accepted THEN "blocked"
                                                ELSE IF s.after.status = "goal_reached" THEN "goal_reached" ELSE "running"]
  BY <1>0, ZenonT(30) DEF EpisodeStep
<1> DEFINE status(t) == IF ~t.accepted THEN "blocked" ELSE IF t.after.status = "goal_reached" THEN "goal_reached" ELSE "running"
<1>2. PICK s, auto, st :
          /\ s = StepResult(grid, episode.world, a, snap) /\ st = status(s)
          /\ auto => episode.auto /\ snap = mine
          /\ episode' = [episode EXCEPT !.steps = Append(episode.steps, s), !.world = s.after, !.auto = auto,
                                        !.stop = s.reason, !.status = st]
  <2> DEFINE s == StepResult(grid, episode.world, a, snap)
             auto == episode.auto /\ snap = mine
  <2>1. episode' = [episode EXCEPT !.steps = Append(episode.steps, s), !.world = s.after, !.auto = auto,
                                   !.stop = s.reason, !.status = status(s)]
    BY <1>1
  <2>2. (auto => episode.auto /\ snap = mine) /\ s = StepResult(grid, episode.world, a, snap)
    OBVIOUS
  <2> HIDE DEF mine, s, auto, status
  <2> QED BY <2>1, <2>2
<1>3. /\ episode'.steps = Append(episode.steps, s) /\ episode'.world = s.after
      /\ episode'.plan = episode.plan /\ episode'.limit = episode.limit
      /\ DOMAIN episode' = DOMAIN episode /\ episode'.auto = auto /\ episode'.status = st
  <2> HIDE DEF mine, status
  <2> QED BY <1>2 DEF EpisodeFields
<1>4. s = StepResult(grid, episode.world, a, snap) /\ (episode'.auto => episode.auto /\ snap = mine)
  <2> HIDE DEF mine, status
  <2> QED BY <1>2, <1>3
<1>5. episode'.status = status(s)
  <2> HIDE DEF mine
  <2> QED BY <1>2, <1>3
<1>6. Follows(episode, episode', s)
  BY <1>3, <1>5 DEF Follows
<1>7. ASSUME episode'.auto PROVE episode.auto /\ IsOwnStep(grid, episode, s)
  <2>1. episode.auto /\ snap = mine
    BY <1>4, <1>7
  <2> QED BY <1>0, <1>4, <2>1 DEF IsOwnStep
<1> QED BY <1>3, <1>6, <1>7 DEF Stepped

LEMMA EpisodeStepDelivers == ASSUME DeliverInv, EpisodeStep PROVE DeliverInv'
<1>1. /\ episode # None /\ episode.status = "running" /\ Len(episode.steps) < episode.limit
      /\ UNCHANGED <<grid, world, plan, gate>>
  BY DEF EpisodeStep
<1>2. /\ grid \in Maps /\ WorldIs(world) /\ grid.threshold \in Nat
      /\ plan # None /\ episode.plan = plan /\ EpisodeFields \subseteq DOMAIN episode
  BY <1>1, GridIs DEF DeliverInv
<1>3. PICK S : episode.steps \in Seq(S)
  BY <1>1 DEF DeliverInv
<1>4. DOMAIN episode' = DOMAIN episode /\ \E s : Stepped(grid, episode, episode', s)
  BY <1>2, StepIs
<1>5. PICK s : /\ Follows(episode, episode', s) /\ DOMAIN episode' = DOMAIN episode
               /\ episode'.auto => episode.auto /\ IsOwnStep(grid, episode, s)
  BY <1>4 DEF Stepped
<1>6. \E T : episode'.steps \in Seq(T)
  <2>1. \E T : Append(episode.steps, s) \in Seq(T)
    BY <1>3, StepListed
  <2> QED BY <1>5, <2>1 DEF Follows
<1>7. episode'.status # "plan_mismatch"
  BY <1>5 DEF Follows
<1>8. ASSUME episode'.auto, Planned(plan) PROVE \E track : Underway(grid, episode', track)
  <2>1. episode.auto /\ IsOwnStep(grid, episode, s)
    BY <1>5, <1>8
  <2>2. PICK track : Underway(grid, episode, track)
    BY <1>1, <1>8, <2>1 DEF DeliverInv
  <2>3. GoesOn(grid, episode, track)
    BY <1>1, <1>2, <2>2 DEF GoesOn
  <2> QED BY <1>3, <1>5, <2>1, <2>3, MovesOn
<1>9. plan.budget \in Nat /\ (Planned(plan) => \E track : Ready(grid, plan.for, plan.actions, track))
  BY <1>2 DEF DeliverInv
<1>10. episode'.plan = plan /\ EpisodeFields \subseteq DOMAIN episode'
  BY <1>2, <1>5 DEF Follows
<1> QED BY <1>1, <1>2, <1>6, <1>7, <1>8, <1>9, <1>10 DEF DeliverInv, Planned, WorldIs

LEMMA RunsOutDelivers == ASSUME DeliverInv, EpisodeRunsOut PROVE DeliverInv'
<1>1. /\ episode # None /\ episode.status = "running" /\ Len(episode.steps) = episode.limit
      /\ UNCHANGED <<grid, world, plan, gate>>
  BY DEF EpisodeRunsOut
<1>2. /\ grid \in Maps /\ WorldIs(world) /\ plan # None /\ episode.plan = plan /\ EpisodeFields \subseteq DOMAIN episode
      /\ plan.budget \in Nat /\ (Planned(plan) => \E track : Ready(grid, plan.for, plan.actions, track))
      /\ \E S : episode.steps \in Seq(S)
  BY <1>1 DEF DeliverInv
<1>3. PICK status \in {"goal_reached", "max_steps_exhausted"} :
         /\ episode' = [episode EXCEPT !.status = status]
         /\ status = "goal_reached" => Len(episode.steps) = Len(episode.plan.actions)
  BY DEF EpisodeRunsOut
<1>4. /\ DOMAIN episode' = DOMAIN episode /\ episode'.steps = episode.steps
      /\ episode'.plan = episode.plan /\ episode'.world = episode.world /\ episode'.limit = episode.limit
      /\ episode'.auto = episode.auto /\ episode'.status = status
  BY <1>2, <1>3 DEF EpisodeFields
<1>5. ASSUME episode.auto, Planned(plan) PROVE \E track : Underway(grid, episode', track)
  <2>1. PICK track : Underway(grid, episode, track)
    BY <1>1, <1>5 DEF DeliverInv
  <2>2. Len(episode.steps) < Len(episode.plan.actions)
    <3>1. Len(episode.steps) \in Nat /\ Len(episode.plan.actions) \in Nat /\ Len(episode.steps) <= Len(episode.plan.actions)
      BY <2>1 DEF Underway, Ready
    <3>2. Len(episode.steps) # Len(episode.plan.actions)
      BY <1>1, <2>1 DEF Underway
    <3> QED BY <3>1, <3>2
  <2>3. status = "max_steps_exhausted"
    <3>1. Len(episode.steps) # Len(episode.plan.actions)
      BY <1>1, <2>1 DEF Underway
    <3> QED BY <1>3, <3>1
  <2>4. Underway(grid, episode', track)
    BY <1>1, <1>4, <2>1, <2>2, <2>3 DEF Underway
  <2> QED BY <2>4
<1>6. episode'.status # "plan_mismatch"
  BY <1>3, <1>4
<1> QED BY <1>1, <1>2, <1>4, <1>5, <1>6 DEF DeliverInv, Planned, WorldIs

LEMMA DeliverStep == ASSUME DeliverInv, [GridNext]_gridVars PROVE DeliverInv'
<1>1. CASE UNCHANGED <<grid, world, plan, episode>>
  BY <1>1 DEF DeliverInv
<1>2. ASSUME NEW rs, NEW required, JudgeRegression(rs, required) PROVE UNCHANGED <<grid, world, plan, episode>>
  BY <1>2 DEF JudgeRegression
<1>3. ASSUME NEW suites, JudgeReview(suites) PROVE UNCHANGED <<grid, world, plan, episode>>
  BY <1>3 DEF JudgeReview
<1> QED BY <1>1, <1>2, <1>3, WorldStep, PlanStep, StartDelivers, EpisodeStepDelivers, RunsOutDelivers DEF GridNext, gridVars

LEMMA DeliverFollows == ASSUME DeliverInv PROVE PlanDelivers
<1> SUFFICES ASSUME EpisodeEnded, episode.auto, episode.plan.status = "planned", episode.plan.actions # << >>,
                    episode.limit = Len(episode.plan.actions)
             PROVE  episode.status = "goal_reached"
  BY DEF PlanDelivers
<1>1. episode # None /\ episode.status # "running" /\ plan # None /\ episode.plan = plan /\ Planned(plan)
  BY DEF EpisodeEnded, DeliverInv, Planned
<1>2. Len(plan.actions) \in Nat /\ Len(plan.actions) # 0
  <2>1. PICK track : Ready(grid, plan.for, plan.actions, track)
    BY <1>1 DEF DeliverInv
  <2> QED BY <1>1, <2>1 DEF Ready
<1>3. episode.status # "plan_mismatch"
  BY <1>1, <1>2 DEF DeliverInv
<1>4. PICK track : Underway(grid, episode, track)
  BY <1>1, <1>3 DEF DeliverInv
<1>5. Len(episode.steps) \in Nat /\ Len(episode.steps) <= Len(plan.actions)
  BY <1>1, <1>4 DEF Underway
<1>6. CASE Len(episode.steps) = Len(plan.actions)
  BY <1>1, <1>4, <1>6 DEF Underway
<1>7. CASE Len(episode.steps) < Len(plan.actions)
  <2>1. episode.status = "max_steps_exhausted"
    BY <1>1, <1>4, <1>7 DEF Underway
  <2>2. Len(episode.steps) = episode.limit
    BY <1>4, <2>1 DEF Underway
  <2> QED BY <1>1, <1>2, <1>5, <1>7, <2>2
<1> QED BY <1>2, <1>5, <1>6, <1>7

\* A plan delivers: whatever the map, an episode that runs all of a plan from the world it was made
\* for, under the telemetry of its own steps, reaches the goal.
THEOREM PlanAlwaysDelivers == GridSpec => []PlanDelivers
<1>1. GridInit => DeliverInv
  BY DeliverStart
<1>2. DeliverInv /\ [GridNext]_gridVars => DeliverInv'
  BY DeliverStep
<1>3. DeliverInv => PlanDelivers
  BY DeliverFollows
<1> QED BY <1>1, <1>2, <1>3, PTL DEF GridSpec

-----------------------------------------------------------------------------
(* HilTelemetry: a review that passed is earned.                           *)

\* A piece of evidence knows its age: whether it was stale when it was evaluated.
KnowsItsAge(e) ==
    /\ e.captured \in Int /\ e.evaluated \in Int
    /\ e.stale = (e.evaluated - e.captured > 1)

HilInv == clock \in Int /\ (\A e \in evidences : KnowsItsAge(e)) /\ ReviewsAreEarned

\* Evidence that is built now is dated now.
LEMMA EvidenceKnows ==
    ASSUME NEW e, e.captured \in Int, NEW now \in Int
    PROVE  KnowsItsAge(Evidence(e, now))
BY DEF Evidence, KnowsItsAge

\* A review that passes has looked at the age, and found something measured.
LEMMA PassedIsEarned ==
    ASSUME NEW E, \A e \in E : KnowsItsAge(e), NEW required \in BOOLEAN, NEW refused
    PROVE  LET r == Review(E, required, refused) IN
           r.passed => /\ r.required => r.evidences # {}
                       /\ \A e \in r.evidences : e.measured /\ e.evaluated - e.captured <= 1
<1> DEFINE r == Review(E, required, refused)
<1>1. r.evidences = E /\ r.required = required /\ r.passed = ~ReviewBlocks(E, required, refused)
  BY DEF Review
<1> HIDE DEF r
<1>2. ASSUME r.passed, NEW e \in E PROVE e.measured /\ ~e.stale
  BY <1>1, <1>2 DEF ReviewBlocks
<1>3. ASSUME r.passed, NEW e \in E PROVE e.evaluated - e.captured <= 1
  <2>1. ~(e.evaluated - e.captured > 1)
    BY <1>2, <1>3 DEF KnowsItsAge
  <2> QED BY <2>1 DEF KnowsItsAge
<1>4. r.passed /\ required => E # {}
  BY <1>1 DEF ReviewBlocks
<1>5. r.passed => /\ r.required => r.evidences # {}
                  /\ \A e \in r.evidences : e.measured /\ e.evaluated - e.captured <= 1
  BY <1>1, <1>2, <1>3, <1>4
<1> QED BY <1>5 DEF r

LEMMA HilStepKeeps == HilInv /\ [HilNext]_hilVars => HilInv'
<1> SUFFICES ASSUME HilInv, [HilNext]_hilVars PROVE HilInv'
  OBVIOUS
<1>1. CASE HilTimePasses
  BY <1>1 DEF HilTimePasses, HilInv, ReviewsAreEarned
<1>2. ASSUME NEW e \in Envelopes, NEW m \in BOOLEAN, BuildEvidence(e, m) PROVE HilInv'
  <2>1. KnowsItsAge(Evidence(e, clock))
    BY EvidenceKnows DEF Envelopes, HilInv
  <2> QED BY <1>2, <2>1 DEF BuildEvidence, HilInv, ReviewsAreEarned
<1>3. ASSUME NEW E \in SUBSET evidences, NEW required \in BOOLEAN, BuildReview(E, required) PROVE HilInv'
  <2>1. \A e \in E : KnowsItsAge(e)
    BY DEF HilInv
  <2>2. ReviewsAreEarned'
    BY <1>3, <2>1, PassedIsEarned DEF BuildReview, ReviewsAreEarned
  <2> QED BY <1>3, <2>2 DEF BuildReview, HilInv
<1>4. CASE BuildMockChain
  <2> DEFINE e == Evidence([captured |-> clock, content |-> "measurements"], clock)
  <2>1. KnowsItsAge(e)
    BY EvidenceKnows DEF HilInv
  <2>2. evidences' = evidences \cup {e} /\ reviews' = {Review({e}, TRUE, FALSE)} /\ clock' = clock
    BY <1>4 DEF BuildMockChain
  <2> HIDE DEF e
  <2>3. ReviewsAreEarned'
    BY <2>1, <2>2, PassedIsEarned DEF ReviewsAreEarned
  <2> QED BY <2>1, <2>2, <2>3 DEF HilInv
<1>5. CASE UNCHANGED hilVars
  BY <1>5 DEF hilVars, HilInv, ReviewsAreEarned
<1> QED BY <1>1, <1>2, <1>3, <1>4, <1>5 DEF HilNext

\* A review that passed saw nothing empty and nothing older than the threshold, for every clock, any
\* number of pieces of evidence and every choice of them (build_hil_telemetry_review).
THEOREM ReviewsAreAlwaysEarned == HilSpec => []ReviewsAreEarned
<1>1. HilInit => HilInv
  BY DEF HilInit, HilInv, ReviewsAreEarned
<1>2. HilInv => ReviewsAreEarned
  BY DEF HilInv
<1> QED BY <1>1, <1>2, HilStepKeeps, PTL DEF HilSpec

-----------------------------------------------------------------------------
(* AutonomyLadder: what a checklist that says ready rests on.              *)

\* A gate that passed has a reference of every kind.
GateOK(g) == g.passed => \A k \in Kinds : g.refs[k] # NoRef

\* A rehearsal carries its gate and a package for the same proposal, and is ready only with all of it.
RehearsalOK(r) ==
    /\ GateOK(r.gate) /\ r.package.proposal = r.gate.proposal
    /\ r.ready => r.mission /\ r.gate.passed /\ (\A k \in RehearsedKinds : r.refs[k] # NoRef)

\* The checklist was made out of the rehearsal that is still there.
CheckOK(c, r) == c.named \subseteq Adoption /\ c.ready = (ReadinessMissing(r, c.named) = {})

LadderInv ==
    /\ liveGate # NoRef => GateOK(liveGate)
    /\ rehearsal # NoRef => RehearsalOK(rehearsal)
    /\ check # NoRef => rehearsal # NoRef /\ CheckOK(check, rehearsal)

LEMMA GateIsOK ==
    ASSUME NEW p, NEW refs PROVE GateOK(LiveGate(p, refs))
BY DEF GateOK, LiveGate, Missing

LEMMA RehearsalIsOK ==
    ASSUME NEW g, GateOK(g), NEW package, package.proposal = g.proposal, NEW mission \in BOOLEAN, NEW overrides
    PROVE  RehearsalOK(Rehearsal(g, package, mission, overrides))
<1> DEFINE refs == [k \in RehearsedKinds |-> Chosen(g, overrides, k)]
           r == Rehearsal(g, package, mission, overrides)
<1>1. /\ r.gate = g /\ r.package = package /\ r.mission = mission /\ r.refs = refs
      /\ r.ready = (RehearsalMissing(g, package, mission, refs) = {})
  BY DEF Rehearsal
<1> HIDE DEF refs, r
<1>2. r.ready => mission /\ g.passed /\ (\A k \in RehearsedKinds : refs[k] # NoRef)
  BY <1>1 DEF RehearsalMissing
<1>3. RehearsalOK(r)
  BY <1>1, <1>2 DEF RehearsalOK
<1> QED BY <1>3 DEF r

LEMMA LadderStepKeeps == LadderInv /\ [LadderNext]_ladderVars => LadderInv'
<1> SUFFICES ASSUME LadderInv, [LadderNext]_ladderVars PROVE LadderInv'
  OBVIOUS
<1>1. ASSUME NEW p \in Proposals, NEW refs \in GivenRefs, BuildLiveGate(p, refs) PROVE LadderInv'
  BY <1>1, GateIsOK DEF BuildLiveGate, LadderInv
<1>2. ASSUME NEW mission \in BOOLEAN, NEW overrides \in Overrides, NEW package \in Packages(liveGate),
             BuildRehearsal(package, mission, overrides)
      PROVE  LadderInv'
  <2>1. RehearsalOK(Rehearsal(liveGate, package, mission, overrides))
    BY <1>2, RehearsalIsOK DEF BuildRehearsal, LadderInv
  <2> QED BY <1>2, <2>1 DEF BuildRehearsal, LadderInv
<1>3. ASSUME NEW absent \in SUBSET Adoption, BuildReadinessCheck(Adoption \ absent) PROVE LadderInv'
  BY <1>3 DEF BuildReadinessCheck, LadderInv, CheckOK
<1>4. CASE UNCHANGED ladderVars
  BY <1>4 DEF ladderVars, LadderInv
<1> QED BY <1>1, <1>2, <1>3, <1>4 DEF LadderNext

\* A checklist that says ready traces back to a complete ladder, whatever the proposals, the
\* references and the packages the builders were given.
THEOREM ReadinessAlwaysTracesBack == LadderSpec => []ReadinessTracesBack
<1>1. LadderInit => LadderInv
  BY DEF LadderInit, LadderInv
<1>2. LadderInv => ReadinessTracesBack
  <2> SUFFICES ASSUME LadderInv, check # NoRef, check.ready
               PROVE  /\ rehearsal.ready /\ rehearsal.mission
                      /\ rehearsal.gate.passed /\ rehearsal.package.proposal = rehearsal.gate.proposal
                      /\ \A k \in Kinds : rehearsal.gate.refs[k] # NoRef
                      /\ \A k \in RehearsedKinds : rehearsal.refs[k] # NoRef
                      /\ check.named = Adoption
    BY DEF ReadinessTracesBack
  <2>1. RehearsalOK(rehearsal) /\ CheckOK(check, rehearsal)
    BY DEF LadderInv
  <2>2. ReadinessMissing(rehearsal, check.named) = {} /\ check.named \subseteq Adoption
    BY <2>1 DEF CheckOK
  <2>3. rehearsal.ready /\ check.named = Adoption
    BY <2>2 DEF ReadinessMissing
  <2> QED BY <2>1, <2>3 DEF RehearsalOK, GateOK
<1> QED BY <1>1, <1>2, LadderStepKeeps, PTL DEF LadderSpec

-----------------------------------------------------------------------------
(* PhysicalDispatch: the bridge of the robot is called under a validation. *)

\* The records of a run, and what a refresh holds of one while it awaits the adapter.
Records == [answer : Answers, decision : {NoRecord, "allow", "safe_mode", "reject", "require_operator"}]

DispatchTypeOK ==
    /\ \A s \in Sims : stored[s] # NoRecord => stored[s] \in Records
    /\ \A c \in Calls : pending[c] # NoRecord => pending[c].run \in Sims /\ pending[c].record \in Records
    /\ DOMAIN stored = Sims /\ DOMAIN pending = Calls /\ DOMAIN dispatched = Sims

DispatchInv == DispatchTypeOK /\ DispatchIsValidated

\* What the governor makes of an answer; only a validated one without bad telemetry is allowed.
LEMMA DecisionIsSafe ==
    ASSUME NEW a \in Answers
    PROVE  /\ Decision(a) \in {"allow", "safe_mode", "reject", "require_operator"}
           /\ ~Refused(Decision(a)) => /\ Decision(a) = "allow"
                                       /\ a.validated /\ ~a.critical /\ a.state # "unsafe"
<1>1. a.validated \in BOOLEAN /\ a.critical \in BOOLEAN /\ a.state \in {"queued", "failed", "unsafe"}
  BY DEF Answers
<1>2. a.validated => Verdict(a) = "pass"
  BY <1>1 DEF Verdict
<1>3. a.validated => Decision(a) = IF a.state = "unsafe" \/ a.critical THEN "safe_mode" ELSE "allow"
  BY <1>1, <1>2 DEF Decision, Governor
<1>4. ~a.validated => Decision(a) = "reject"
  BY <1>1 DEF Decision
<1> QED BY <1>1, <1>3, <1>4 DEF Refused

LEMMA DispatchStepKeeps == DispatchInv /\ [SimNext]_simVars => DispatchInv'
<1> SUFFICES ASSUME DispatchInv, [SimNext]_simVars PROVE DispatchInv'
  OBVIOUS
<1>1. ASSUME NEW s \in Sims, NEW a \in Answers, NEW replays \in BOOLEAN, Submit(s, a, replays) PROVE DispatchInv'
  BY <1>1 DEF Submit, Record, Records, DispatchInv, DispatchTypeOK, DispatchIsValidated
<1>2. ASSUME NEW s \in Sims, SubmitFails(s) PROVE DispatchInv'
  BY <1>2 DEF SubmitFails, DispatchInv, DispatchTypeOK, DispatchIsValidated
<1>3. ASSUME NEW c \in Calls, NEW s \in Sims, RefreshStarts(c, s) PROVE DispatchInv'
  BY <1>3 DEF RefreshStarts, DispatchInv, DispatchTypeOK, DispatchIsValidated
<1>4. ASSUME NEW c \in Calls, NEW a \in Answers, RefreshEnds(c, a) PROVE DispatchInv'
  <2>1. Record(a, pending[c].record.decision) \in Records
    BY <1>4 DEF RefreshEnds, DispatchInv, DispatchTypeOK, Record, Records
  <2> QED BY <1>4, <2>1 DEF RefreshEnds, DispatchInv, DispatchTypeOK, DispatchIsValidated
<1>5. ASSUME NEW c \in Calls, RefreshFails(c) PROVE DispatchInv'
  BY <1>5 DEF RefreshFails, DispatchInv, DispatchTypeOK, DispatchIsValidated
<1>6. ASSUME NEW s \in Sims, NEW real \in BOOLEAN, NEW bridge \in BOOLEAN, NEW mine \in BOOLEAN,
             Dispatch(s, real, bridge, mine)
      PROVE  DispatchInv'
  <2> DEFINE a == stored[s].answer
             d == Decision(a)
  <2>1. a \in Answers /\ stored[s] \in Records
    BY <1>6 DEF Dispatch, DispatchInv, DispatchTypeOK, Records
  <2>2. /\ d \in {"allow", "safe_mode", "reject", "require_operator"}
        /\ ~Refused(d) => d = "allow" /\ a.validated /\ ~a.critical /\ a.state # "unsafe"
    BY <2>1, DecisionIsSafe
  <2>3. /\ stored' = [stored EXCEPT ![s].decision = d] /\ pending' = pending
        /\ dispatched' = IF ~Refused(d) /\ real /\ bridge
                         THEN [dispatched EXCEPT ![s] = @ \cup {[answer |-> a, decision |-> d]}]
                         ELSE dispatched
    BY <1>6 DEF Dispatch
  <2> HIDE DEF d
  <2>4. DispatchTypeOK'
    BY <2>1, <2>2, <2>3 DEF DispatchInv, DispatchTypeOK, Records
  <2>5. DispatchIsValidated'
    BY <2>2, <2>3 DEF DispatchInv, DispatchTypeOK, DispatchIsValidated
  <2> QED BY <2>4, <2>5 DEF DispatchInv
<1>7. CASE UNCHANGED simVars
  BY <1>7 DEF simVars, DispatchInv, DispatchTypeOK, DispatchIsValidated
<1> QED BY <1>1, <1>2, <1>3, <1>4, <1>5, <1>6, <1>7 DEF SimNext

\* The bridge of the robot is called only under a validated answer with nothing critical in it, for
\* any number of runs and of refreshes that cross the dispatches.
THEOREM DispatchIsAlwaysValidated == SimSpec => []DispatchIsValidated
<1>1. SimInit => DispatchInv
  BY DEF SimInit, DispatchInv, DispatchTypeOK, DispatchIsValidated
<1>2. DispatchInv => DispatchIsValidated
  BY DEF DispatchInv
<1> QED BY <1>1, <1>2, DispatchStepKeeps, PTL DEF SimSpec

-----------------------------------------------------------------------------
(* BrowserTabs: a task stays in its tabs.                                  *)

TabsTypeOK ==
    /\ DOMAIN page = Tabs /\ active \in Tabs /\ unsure \in BOOLEAN
    /\ opened = [ids |-> opened.ids, last |-> opened.last] /\ opened.ids \subseteq Tabs
    /\ call = [tool |-> call.tool, at |-> call.at, elem |-> call.elem, new |-> call.new, prev |-> call.prev]

\* The last of the task's tabs is one of them, and it is only asked for when there is one.
LastIsOpened ==
    /\ opened.ids # {} => opened.last \in opened.ids
    /\ call.at \in {"activating", "switching"} => opened.ids # {}

\* A new-tab hotkey remembers the tab that was in front, and what is in front afterwards is a new tab or
\* that one.
HotkeyKnows ==
    /\ call.at = "pressing" /\ call.tool = "new_tab" => call.prev = active
    /\ call.at = "verifying" => active \in own \/ call.prev = active

\* What the task takes for its tabs it has created or navigated.
KnownAreOwn == opened.ids \subseteq own

\* What a call has checked is still so.
CheckedIsOwn ==
    /\ ActsOnChecked => active \in own /\ SafePage(active)
    /\ call.at = "dismissing" => active \in own

Surely == HotkeyKnows /\ KnownAreOwn /\ CheckedIsOwn

TabsInv ==
    /\ TabsTypeOK /\ LastIsOpened /\ page[ControlUi] = "control_ui"
    /\ ~unsure => Surely

\* Where a call may go without saying anything about the tab in front.
Harmless(c) ==
    /\ c = [tool |-> c.tool, at |-> c.at, elem |-> c.elem, new |-> c.new, prev |-> c.prev]
    /\ ~(c.at = "pressing" /\ c.tool = "new_tab") /\ c.at \notin {"verifying", "dismissing"}
    /\ ~(c.at = "acting" /\ c.tool # "extract") /\ ~(c.at = "typing" /\ c.elem # "none")

\* A step that leaves the tabs alone and takes the call somewhere harmless.
LEMMA HarmlessMove ==
    ASSUME TabsInv, UNCHANGED <<page, opened, own, unsure>>, active' \in Tabs, Harmless(call'),
           call'.at \in {"activating", "switching"} => opened.ids # {}
    PROVE  TabsInv'
<1>1. TabsTypeOK' /\ LastIsOpened' /\ (page[ControlUi] = "control_ui")'
  BY DEF TabsInv, TabsTypeOK, LastIsOpened, Harmless
<1>2. (~unsure => Surely)'
  BY DEF TabsInv, Surely, HotkeyKnows, KnownAreOwn, CheckedIsOwn, ActsOnChecked, Harmless
<1> QED BY <1>1, <1>2 DEF TabsInv

LEMMA NoCallIsHarmless == Harmless(NoCall) /\ NoCall.at = "idle"
BY DEF Harmless, NoCall

\* Ending a call, and a call that goes on as it is.
LEMMA EndMove ==
    ASSUME TabsInv, UNCHANGED <<page, opened, own, unsure>>, active' \in Tabs, Ends
    PROVE  TabsInv'
<1>1. call' = NoCall
  BY DEF Ends
<1>2. Harmless(call') /\ call'.at = "idle"
  BY <1>1, NoCallIsHarmless
<1> QED BY <1>2, HarmlessMove

LEMMA GoMove ==
    ASSUME TabsInv, UNCHANGED <<page, opened, own, unsure>>, active' \in Tabs, NEW st, Goes(st),
           st \in {"activating", "switching"} => opened.ids # {},
           \/ st \in {"activating", "switching", "choosing", "checking", "navigating", "targeting", "looking"}
           \/ st = "acting" /\ call.tool = "extract"
           \/ st = "typing" /\ call.elem = "none"
    PROVE  TabsInv'
<1>1. /\ call' = [call EXCEPT !.at = st]
      /\ call = [tool |-> call.tool, at |-> call.at, elem |-> call.elem, new |-> call.new, prev |-> call.prev]
  BY DEF Goes, TabsInv, TabsTypeOK
<1>2. call' = [tool |-> call.tool, at |-> st, elem |-> call.elem, new |-> call.new, prev |-> call.prev]
  BY <1>1
<1>3. Harmless(call') /\ call'.at = st
  BY <1>2 DEF Harmless
<1> QED BY <1>3, HarmlessMove

\* A tool call that starts.
LEMMA EnterMove ==
    ASSUME TabsInv, NEW tool, tool \in {"navigate", "extract", "click", "desktop_click", "type"}, NEW elem,
           Idle, Enter(tool, elem), UNCHANGED <<page, active, opened, own, unsure>>
    PROVE  TabsInv'
<1> DEFINE st == IF opened.ids # {} THEN "activating"
                 ELSE CASE tool = "navigate" -> "choosing" [] tool = "extract" -> "acting" [] OTHER -> "checking"
<1>1. call' = [tool |-> tool, at |-> st, elem |-> elem, new |-> FALSE, prev |-> NoTab]
  BY DEF Enter, NoCall
<1>2. /\ st \in {"activating", "choosing", "acting", "checking"} /\ (st = "acting" => tool = "extract")
      /\ st = "activating" => opened.ids # {}
  BY DEF TabsInv
<1> HIDE DEF st
<1>3. Harmless(call') /\ (call'.at \in {"activating", "switching"} => opened.ids # {})
  BY <1>1, <1>2 DEF Harmless
<1>4. active' \in Tabs
  BY DEF TabsInv, TabsTypeOK
<1> QED BY <1>3, <1>4, HarmlessMove

LEMMA AfterActivationIsKnown ==
    /\ AfterActivation \in {"choosing", "acting", "checking"}
    /\ AfterActivation = "acting" => call.tool = "extract"
BY DEF AfterActivation

\* The tabs the task remembers once it has another.
LEMMA RememberedTabs ==
    ASSUME TabsInv, NEW t \in Tabs, opened' = Remembered(t)
    PROVE  /\ opened' = [ids |-> opened'.ids, last |-> opened'.last]
           /\ opened'.ids = opened.ids \cup {t} /\ opened'.last \in opened'.ids /\ opened'.ids \subseteq Tabs
BY DEF Remembered, TabsInv, TabsTypeOK

LEMMA TabsNavigate ==
    ASSUME TabsInv, NEW t \in Tabs, NEW landed \in Sites, NEW answered \in BOOLEAN, Navigate(t, landed, answered)
    PROVE  TabsInv'
<1>1. t # ControlUi
  BY DEF Navigate, OpensNewTab, TabsInv, TabsTypeOK
<1>2. /\ DOMAIN page' = Tabs /\ active' = t /\ page'[ControlUi] = "control_ui" /\ own' = own \cup {t}
      /\ unsure' = unsure
  BY <1>1 DEF Navigate, TabsInv, TabsTypeOK, Tabs
<1>3. /\ opened' = [ids |-> opened'.ids, last |-> opened'.last]
      /\ opened'.ids \subseteq opened.ids \cup {t} /\ opened'.ids \subseteq Tabs
      /\ opened'.ids # {} => opened'.last \in opened'.ids
  <2>1. CASE answered
    BY <2>1, RememberedTabs DEF Navigate
  <2>2. CASE ~answered
    BY <2>2 DEF Navigate, TabsInv, TabsTypeOK, LastIsOpened
  <2> QED BY <2>1, <2>2
<1>4. call' = NoCall \/ call' = [call EXCEPT !.at = "dismissing"]
  BY DEF Navigate, Ends, Goes
<1>5. /\ call' = [tool |-> call'.tool, at |-> call'.at, elem |-> call'.elem, new |-> call'.new, prev |-> call'.prev]
      /\ call'.at \in {"idle", "dismissing"}
  BY <1>4 DEF NoCall, TabsInv, TabsTypeOK
<1>6. TabsTypeOK' /\ LastIsOpened'
  BY <1>2, <1>3, <1>5 DEF TabsInv, TabsTypeOK, LastIsOpened
<1>7. (~unsure => Surely)'
  BY <1>2, <1>3, <1>5 DEF TabsInv, Surely, HotkeyKnows, KnownAreOwn, CheckedIsOwn, ActsOnChecked
<1> QED BY <1>2, <1>6, <1>7 DEF TabsInv

LEMMA TabsCheckTarget ==
    ASSUME TabsInv, NEW o \in Outcomes, CheckTarget(o)
    PROVE  TabsInv'
<1>1. UNCHANGED <<page, opened, own, unsure, active>> /\ active' \in Tabs
  BY DEF CheckTarget, TabsInv, TabsTypeOK
<1>2. CASE Ends
  BY <1>1, <1>2, EndMove
<1>3. CASE ~Ends
  <2>1. IsOpened(active) /\ SafePage(active)
        /\ call' = [call EXCEPT !.at = IF call.tool = "type" THEN "typing" ELSE "acting"]
    BY <1>3 DEF CheckTarget, Goes
  <2>2. /\ call'.at \in {"typing", "acting"}
        /\ call' = [tool |-> call'.tool, at |-> call'.at, elem |-> call'.elem, new |-> call'.new, prev |-> call'.prev]
    BY <2>1 DEF TabsInv, TabsTypeOK
  <2>3. TabsTypeOK' /\ LastIsOpened' /\ (page[ControlUi] = "control_ui")'
    BY <1>1, <2>2 DEF TabsInv, TabsTypeOK, LastIsOpened
  <2>4. (~unsure => Surely)'
    <3>1. ~unsure => active \in own
      BY <2>1 DEF IsOpened, TabsInv, Surely, KnownAreOwn
    <3> QED BY <1>1, <2>1, <2>2, <3>1
            DEF TabsInv, Surely, HotkeyKnows, KnownAreOwn, CheckedIsOwn, ActsOnChecked, SafePage
  <2> QED BY <2>3, <2>4 DEF TabsInv
<1> QED BY <1>2, <1>3

LEMMA TabsHotkeyLook ==
    ASSUME TabsInv, NEW o \in Outcomes, HotkeyLook(o)
    PROVE  TabsInv'
<1>1. UNCHANGED <<page, opened, own, active>> /\ active' \in Tabs /\ unsure' = (unsure \/ o = "failed")
  BY DEF HotkeyLook, TabsInv, TabsTypeOK
<1>2. CASE o = "disconnected"
  <2>1. UNCHANGED unsure
    BY <1>1, <1>2 DEF TabsInv, TabsTypeOK
  <2>2. Ends
    BY <1>2 DEF HotkeyLook
  <2> QED BY <1>1, <2>1, <2>2, EndMove
<1>3. CASE o # "disconnected"
  <2>1. call' = [call EXCEPT !.at = "pressing", !.prev = IF o = "ok" THEN active ELSE NoTab]
    BY <1>3 DEF HotkeyLook
  <2>2. /\ call'.at = "pressing" /\ (o = "ok" => call'.prev = active)
        /\ call' = [tool |-> call'.tool, at |-> call'.at, elem |-> call'.elem, new |-> call'.new, prev |-> call'.prev]
    BY <2>1 DEF TabsInv, TabsTypeOK
  <2>3. TabsTypeOK' /\ LastIsOpened' /\ (page[ControlUi] = "control_ui")'
    BY <1>1, <2>2 DEF TabsInv, TabsTypeOK, LastIsOpened
  <2>4. (~unsure => Surely)'
    BY <1>1, <1>3, <2>2 DEF TabsInv, Outcomes, Surely, HotkeyKnows, KnownAreOwn, CheckedIsOwn, ActsOnChecked
  <2> QED BY <2>3, <2>4 DEF TabsInv
<1> QED BY <1>2, <1>3

LEMMA TabsPressNewTab ==
    ASSUME TabsInv, NEW ok \in BOOLEAN, NEW t \in NewTabs \cup {NoTab}, PressNewTab(ok, t)
    PROVE  TabsInv'
<1>1. /\ UNCHANGED <<opened, unsure>> /\ DOMAIN page' = Tabs /\ active' \in Tabs /\ own \subseteq own'
      /\ page'[ControlUi] = "control_ui"
  BY DEF PressNewTab, TabsInv, TabsTypeOK, Tabs
<1>2. ~unsure => active' \in own' \/ call.prev = active'
  BY DEF PressNewTab, TabsInv, Surely, HotkeyKnows
<1>3. call' = NoCall \/ call' = [call EXCEPT !.at = "verifying"]
  BY DEF PressNewTab, Ends, Goes
<1>4. /\ call'.at = "idle" \/ (call'.at = "verifying" /\ call'.prev = call.prev)
      /\ call' = [tool |-> call'.tool, at |-> call'.at, elem |-> call'.elem, new |-> call'.new, prev |-> call'.prev]
  BY <1>3 DEF NoCall, TabsInv, TabsTypeOK
<1>5. TabsTypeOK' /\ LastIsOpened'
  BY <1>1, <1>4 DEF TabsInv, TabsTypeOK, LastIsOpened
<1>6. (~unsure => Surely)'
  BY <1>1, <1>2, <1>4 DEF TabsInv, Surely, HotkeyKnows, KnownAreOwn, CheckedIsOwn, ActsOnChecked
<1> QED BY <1>1, <1>5, <1>6 DEF TabsInv

LEMMA TabsVerify ==
    ASSUME TabsInv, NEW o \in Outcomes, VerifyTab(o)
    PROVE  TabsInv'
<1>1. UNCHANGED <<page, active, own, unsure>> /\ call' = NoCall
  BY DEF VerifyTab, Ends
<1>2. CASE opened' = opened
  BY <1>1, <1>2, EndMove DEF Ends, TabsInv, TabsTypeOK
<1>3. CASE opened' # opened
  <2>1. Confirms /\ opened' = Remembered(active) /\ call.at = "verifying" /\ active \in Tabs
    BY <1>3 DEF VerifyTab, TabsInv, TabsTypeOK
  <2>2. ~unsure => active \in own
    BY <2>1, NoTabAssumption DEF Confirms, TabsInv, Surely, HotkeyKnows
  <2>3. /\ opened' = [ids |-> opened'.ids, last |-> opened'.last]
        /\ opened'.ids = opened.ids \cup {active} /\ opened'.last \in opened'.ids /\ opened'.ids \subseteq Tabs
    BY <2>1, RememberedTabs
  <2>4. Harmless(call') /\ call'.at = "idle"
    BY <1>1, NoCallIsHarmless
  <2>5. TabsTypeOK' /\ LastIsOpened' /\ (page[ControlUi] = "control_ui")'
    BY <1>1, <2>3, <2>4 DEF TabsInv, TabsTypeOK, LastIsOpened, Harmless
  <2>6. (~unsure => Surely)'
    BY <1>1, <2>2, <2>3, <2>4 DEF TabsInv, Surely, HotkeyKnows, KnownAreOwn, CheckedIsOwn, ActsOnChecked
  <2> QED BY <2>5, <2>6 DEF TabsInv
<1> QED BY <1>2, <1>3

\* Whatever the user does, a call that is not running is not concerned, and a tab in front is not closed.
LEMMA TabsUser ==
    ASSUME TabsInv, NEW t \in Tabs, UserSwitches(t) \/ UserCloses(t)
    PROVE  TabsInv'
<1>1. CASE UserSwitches(t)
  <2>1. TabsTypeOK' /\ LastIsOpened' /\ (page[ControlUi] = "control_ui")'
    BY <1>1 DEF UserSwitches, TabsInv, TabsTypeOK, LastIsOpened
  <2>2. (~unsure => Surely)'
    BY <1>1 DEF UserSwitches, TabsInv, Surely, HotkeyKnows, KnownAreOwn, CheckedIsOwn, ActsOnChecked
  <2> QED BY <2>1, <2>2 DEF TabsInv
<1>2. CASE UserCloses(t)
  <2>1. UNCHANGED <<active, opened, call, own, unsure>> /\ DOMAIN page' = Tabs
        /\ page'[ControlUi] = page[ControlUi] /\ page'[active] = page[active]
    BY <1>2 DEF UserCloses, TabsInv, TabsTypeOK, Tabs
  <2>2. TabsTypeOK' /\ LastIsOpened' /\ (page[ControlUi] = "control_ui")'
    BY <2>1 DEF TabsInv, TabsTypeOK, LastIsOpened
  <2>3. (~unsure => Surely)'
    BY <2>1 DEF TabsInv, Surely, HotkeyKnows, KnownAreOwn, CheckedIsOwn, ActsOnChecked, SafePage
  <2> QED BY <2>2, <2>3 DEF TabsInv
<1> QED BY <1>1, <1>2

LEMMA TabsStepKeeps == TabsInv /\ [TabsNext]_tabsVars => TabsInv'
<1> SUFFICES ASSUME TabsInv, [TabsNext]_tabsVars PROVE TabsInv'
  OBVIOUS
<1>0. active \in Tabs
  BY DEF TabsInv, TabsTypeOK
<1>1. ASSUME NEW tool \in {"navigate", "extract", "click"}, StartTabTool(tool) PROVE TabsInv'
  BY <1>1, EnterMove DEF StartTabTool
<1>2. ASSUME NEW elem \in {"none", "safe", "field"}, StartDesktopClick(elem) PROVE TabsInv'
  BY <1>2, EnterMove DEF StartDesktopClick
<1>3. ASSUME NEW elem \in {"none", "safe", "field"}, StartType(elem) PROVE TabsInv'
  <2>1. CASE Enter("type", elem)
    BY <1>3, <2>1, EnterMove DEF StartType
  <2>2. CASE ~Enter("type", elem)
    <3> DEFINE asks == IF sheet.dest = "target" THEN "targeting" ELSE "asking"
               st == IF task = "sheet" THEN asks ELSE "typing"
    <3>1. /\ call' = IF task = "sheet" THEN [NoCall EXCEPT !.tool = "type", !.elem = elem, !.at = asks]
                    ELSE [NoCall EXCEPT !.tool = "type", !.at = "typing"]
          /\ task # "sheet" => elem = "none"
      BY <1>3, <2>2 DEF StartType
    <3>2. call' = [tool |-> "type", at |-> st, elem |-> elem, new |-> FALSE, prev |-> NoTab]
      BY <3>1 DEF NoCall
    <3>4. st \in {"targeting", "asking", "typing"} /\ (st = "typing" => elem = "none")
      BY <3>1
    <3> HIDE DEF st
    <3>3. Harmless(call') /\ call'.at \notin {"activating", "switching"}
      BY <3>4, <3>2 DEF Harmless
    <3> QED BY <1>0, <1>3, <3>3, HarmlessMove DEF StartType
  <2> QED BY <2>1, <2>2
<1>4. ASSUME NEW keys \in {"new_tab", "cell", "edit"}, StartHotkey(keys) PROVE TabsInv'
  <2>1. call' = [tool |-> keys, at |-> IF keys = "new_tab" THEN "looking" ELSE "pressing",
                 elem |-> "none", new |-> FALSE, prev |-> NoTab]
    BY <1>4 DEF StartHotkey, NoCall
  <2>2. Harmless(call') /\ call'.at \notin {"activating", "switching"}
    BY <2>1 DEF Harmless
  <2> QED BY <1>0, <1>4, <2>2, HarmlessMove DEF StartHotkey
<1>5. ASSUME NEW o \in Outcomes, ActivationLook(o) PROVE TabsInv'
  <2>1. opened.ids # {}
    BY <1>5 DEF ActivationLook, TabsInv, LastIsOpened
  <2>2. Ends \/ Goes(AfterActivation) \/ Goes("switching")
    BY <1>5 DEF ActivationLook
  <2> QED BY <1>0, <1>5, <2>1, <2>2, EndMove, GoMove, AfterActivationIsKnown DEF ActivationLook
<1>6. ASSUME NEW o \in Outcomes, Activate(o) PROVE TabsInv'
  <2>1. active' \in Tabs
    BY <1>0, <1>6 DEF Activate, TabsInv, TabsTypeOK, LastIsOpened
  <2>2. Ends \/ Goes(AfterActivation)
    BY <1>6 DEF Activate
  <2> QED BY <1>6, <2>1, <2>2, EndMove, GoMove, AfterActivationIsKnown DEF Activate
<1>7. ASSUME NEW o \in Outcomes, ChooseTab(o) PROVE TabsInv'
  <2>1. CASE Ends
    BY <1>0, <1>7, <2>1, EndMove DEF ChooseTab
  <2>2. CASE ~Ends
    <3>1. PICK new : call' = [call EXCEPT !.at = "navigating", !.new = new]
      BY <1>7, <2>2 DEF ChooseTab
    <3>2. Harmless(call') /\ call'.at = "navigating"
      BY <3>1 DEF Harmless, TabsInv, TabsTypeOK
    <3> QED BY <1>0, <1>7, <3>2, HarmlessMove DEF ChooseTab
  <2> QED BY <2>1, <2>2
<1>8. ASSUME NEW o \in Outcomes, NavigateFails(o) \/ DismissOverlays(o) \/ Act(o) PROVE TabsInv'
  BY <1>0, <1>8, EndMove DEF NavigateFails, DismissOverlays, Act
<1>9. ASSUME NEW o \in Outcomes, TypeLook(o) PROVE TabsInv'
  BY <1>0, <1>9, GoMove DEF TypeLook
<1>10. ASSUME NEW available \in BOOLEAN, ChooseTarget(available) PROVE TabsInv'
  <2>1. PICK st : /\ Ends \/ Goes(st)
                  /\ \/ st = "activating" /\ opened.ids # {}
                     \/ st = "checking"
                     \/ st = "typing" /\ call.elem = "none"
    BY <1>10 DEF ChooseTarget
  <2> QED BY <1>0, <1>10, <2>1, EndMove, GoMove DEF ChooseTarget
<1>11. ASSUME NEW ok \in BOOLEAN, PressEditing(ok) PROVE TabsInv'
  BY <1>0, <1>11, EndMove DEF PressEditing
<1>12. ASSUME NEW ok \in BOOLEAN, NEW remember \in BOOLEAN, Type(ok, remember) PROVE TabsInv'
  BY <1>0, <1>12, EndMove DEF Type
<1>13. CASE UNCHANGED tabsVars
  BY <1>13 DEF tabsVars, TabsInv, TabsTypeOK, LastIsOpened, Surely, HotkeyKnows, KnownAreOwn, CheckedIsOwn,
               ActsOnChecked, SafePage
<1> QED BY <1>1, <1>2, <1>3, <1>4, <1>5, <1>6, <1>7, <1>8, <1>9, <1>10, <1>11, <1>12, <1>13,
           TabsNavigate, TabsCheckTarget, TabsHotkeyLook, TabsPressNewTab, TabsVerify, TabsUser DEF TabsNext

\* A task clicks and types in its own tabs, on the page they are for, and never takes the chat away: for
\* any number of tabs, whatever fails, as long as no tab was switched under a call.
THEOREM TaskAlwaysStaysInItsTabs == TabsSpec => []TaskStaysInItsTabs
<1>1. TabsInit => TabsInv
  <2> SUFFICES ASSUME TabsInit PROVE TabsInv
    OBVIOUS
  <2>1. opened = [ids |-> {}, last |-> NoTab] /\ call = NoCall /\ active = ControlUi /\ own = {}
        /\ DOMAIN page = Tabs /\ page[ControlUi] = "control_ui" /\ unsure = FALSE
    BY DEF TabsInit
  <2>2. Harmless(call) /\ call.at = "idle"
    BY <2>1, NoCallIsHarmless
  <2> QED BY <2>1, <2>2 DEF TabsInv, TabsTypeOK, LastIsOpened, Surely, HotkeyKnows, KnownAreOwn, CheckedIsOwn,
                            ActsOnChecked, Harmless, Tabs
<1>2. TabsInv => TaskStaysInItsTabs
  BY DEF TabsInv, Surely, CheckedIsOwn, TaskStaysInItsTabs
<1> QED BY <1>1, <1>2, TabsStepKeeps, PTL DEF TabsSpec

-----------------------------------------------------------------------------
(* ManagedBrowser: one browser, quiet calls, and the answer to a message.  *)

Someone == Visitors \cup {NoVisitor}
Stations == {"idle", "closing", "starting", "launching", "opening"} \cup AtWork

Sessions == [pw : BOOLEAN, browser : BOOLEAN, page : BOOLEAN, headless : BOOLEAN,
             driver : BOOLEAN, window : BOOLEAN, tab : BOOLEAN]
Screens == [at : {"blank", "chat", "site"}, shown : BOOLEAN, input : Someone, busy : Someone,
            user : Someone, agents : Seq(Visitors)]
Visits == [visible : {"any", "yes", "no"}, at : Stations, stage : 0..3, obj : 0..MaxBrowsers,
           base : Seq(Visitors), fits : BOOLEAN, pageless : BOOLEAN, reply : Someone]

\* The shared session is the last one made, and those not made yet are untouched.
BrowserTypeOK ==
    /\ made \in 0..MaxBrowsers /\ shared = made
    /\ browsers \in [Objects -> Sessions]
    /\ screens \in [Objects -> Screens]
    /\ visits \in [Visitors -> Visits]
    /\ alone \subseteq Visitors

\* A call under way has a session, and knows which stage of closing it is at.
VisitOK(v) ==
    /\ Busy(v) => visits[v].obj \in 1..made
    /\ visits[v].at = "closing" => visits[v].stage \in 1..3

\* A page that has not shown its history shows no answers.
ScreenOK(s) == ~s.shown => s.agents = << >>

BrowserShape ==
    /\ BrowserTypeOK
    /\ \A o \in Objects : (o > made => browsers[o] = Unstarted) /\ ScreenOK(screens[o])
    /\ \A v \in Visitors : VisitOK(v)

Runs(b) == b.driver \/ b.window

\* As long as calls do not overlap: one call at a time, on the shared session, which alone has anything
\* that runs, and then knows its playwright.
LoneShape ==
    /\ \A v, w \in Visitors : Busy(v) /\ Busy(w) => v = w
    /\ \A o \in Objects : Runs(browsers[o]) => o = shared /\ browsers[o].pw
    /\ \A v \in Visitors : Busy(v) => visits[v].obj = shared
    /\ \A v \in Visitors : visits[v].at \in {"launching", "opening"} => browsers[visits[v].obj].pw

\* What a call has brought up still runs.
HasItsPage(v) ==
    LET b == browsers[visits[v].obj] IN
    /\ visits[v].at = "launching" => b.driver
    /\ visits[v].at = "opening" => b.window
    /\ visits[v].at \in AtWork => b.tab

\* The conversation since the answers were counted: nothing, the message, or the answer to it.
ChatIs(v, r, s) ==
    /\ r.at \in {"counted", "typed"} => s.busy = NoVisitor /\ s.agents = r.base
    /\ r.at = "typed" => s.input = v
    /\ r.at \in {"sent", "echoed"} =>
          \/ s.busy = v /\ s.agents = r.base
          \/ s.busy = NoVisitor /\ s.agents \in {r.base, Append(r.base, v)}

ChatOK(v) == ChatIs(v, visits[v], screens[visits[v].obj])

\* A call that meets no other call and no fault.
Served(v) ==
    /\ ~visits[v].pageless /\ visits[v].fits /\ visits[v].reply \in {v, NoVisitor}
    /\ Busy(v) => /\ Others(v) = {} /\ visits[v].obj = shared
                  /\ HasItsPage(v) /\ ChatOK(v)

BrowserInv ==
    /\ BrowserShape
    /\ ~crowded => LoneShape
    /\ \A v \in alone : Served(v)

-----------------------------------------------------------------------------
LEMMA NextStageIs ==
    ASSUME NEW b \in Sessions, NEW k \in 1..4
    PROVE  /\ NextStage(b, k) \in k..4
           /\ NextStage(b, k) = 4 /\ k # 4 => ~b.pw
<1> DEFINE S == {j \in k..3 : <<b.page, b.browser, b.pw>>[j]} \cup {4}
<1>1. S \subseteq k..4 /\ 4 \in S /\ (k # 4 /\ b.pw => 3 \in S)
  BY DEF Sessions
<1>2. PICK m \in S : \A y \in S : m <= y
  <2>1. CASE 1 \in S BY <2>1, <1>1
  <2>2. CASE 1 \notin S /\ 2 \in S BY <2>2, <1>1
  <2>3. CASE 1 \notin S /\ 2 \notin S /\ 3 \in S BY <2>3, <1>1
  <2>4. CASE 1 \notin S /\ 2 \notin S /\ 3 \notin S BY <2>4, <1>1
  <2> QED BY <2>1, <2>2, <2>3, <2>4
<1> HIDE DEF S
<1>3. Min(S) \in S /\ \A y \in S : Min(S) <= y
  BY <1>2 DEF Min
<1> DEFINE n == Min(S)
<1>4. n \in k..4 /\ (3 \in S => n <= 3)
  BY <1>1, <1>3
<1>5. n = 4 /\ k # 4 => ~b.pw
  <2> HIDE DEF n
  <2> QED BY <1>1, <1>4
<1>6. NextStage(b, k) = n
  BY DEF NextStage, S
<1> HIDE DEF n
<1> QED BY <1>4, <1>5, <1>6

LEMMA NoVisitIs == NoVisit \in Visits
<1>1. 0 \in 0..MaxBrowsers /\ 0 \in 0..3 /\ << >> \in Seq(Visitors) /\ NoVisitor \in Someone /\ "idle" \in Stations
  BY BrowserAssumption DEF Someone, Stations
<1> QED BY <1>1 DEF NoVisit, Visits

LEMMA EndedIs ==
    ASSUME BrowserTypeOK, NEW v \in Visitors
    PROVE  /\ Ended(v) \in Visits /\ Ended(v).at = "idle" /\ ~Ended(v).pageless
           /\ Ended(v).fits = visits[v].fits /\ Ended(v).reply = NoVisitor
<1>1. visits[v].fits \in BOOLEAN
  BY DEF BrowserTypeOK, Visits
<1> QED BY <1>1, NoVisitIs DEF Ended, NoVisit, Visits

LEMMA BlankIs == Blank \in Screens /\ ScreenOK(Blank)
BY DEF Blank, Screens, Someone, ScreenOK

\* One call moves on; what it now is is the caller's to show, everything else follows.
LEMMA VisitMoves ==
    ASSUME BrowserInv, BrowserTypeOK', NEW v \in Visitors,
           Busy(v) \/ (alone' \cap Others(v) = {} /\ (~crowded' => Others(v) = {})),
           NEW r \in Visits, visits' = [visits EXCEPT ![v] = r],
           made' >= made, VisitOK(v)',
           \A o \in Objects : (o > made' => browsers'[o] = Unstarted) /\ ScreenOK(screens'[o]),
           alone' \subseteq alone \cup {v},
           v \in alone' => ~r.pageless /\ r.fits /\ r.reply \in {v, NoVisitor},
           v \in alone' /\ r.at # "idle" => Others(v) = {} /\ r.obj = shared' /\ HasItsPage(v)' /\ ChatOK(v)',
           ~crowded' => ~crowded,
           ~crowded' => \A o \in Objects : Runs(browsers'[o]) => o = shared' /\ browsers'[o].pw,
           ~crowded' /\ r.at # "idle" => r.obj = shared',
           ~crowded' /\ r.at \in {"launching", "opening"} => browsers'[r.obj].pw
    PROVE  BrowserInv'
<1>1. visits'[v] = r /\ \A w \in Visitors : w # v => visits'[w] = visits[w]
  BY DEF BrowserInv, BrowserShape, BrowserTypeOK
<1>2. BrowserShape'
  <2>1. ASSUME NEW w \in Visitors PROVE VisitOK(w)'
    <3>1. CASE w = v BY <3>1
    <3>2. CASE w # v
      BY <3>2, <1>1 DEF BrowserInv, BrowserShape, BrowserTypeOK, VisitOK, Busy
    <3> QED BY <3>1, <3>2
  <2> QED BY <2>1 DEF BrowserShape
<1>3. ASSUME NEW w \in alone' PROVE Served(w)'
  <2>1. CASE w = v
    <3>1. Others(v)' = Others(v)
      BY <1>1 DEF Others, Busy
    <3> QED BY <1>1, <2>1, <3>1 DEF Served, Busy
  <2>2. CASE w # v
    <3>1. w \in alone /\ w \in Visitors /\ visits'[w] = visits[w]
      BY <1>1, <1>3, <2>2 DEF BrowserTypeOK
    <3>2. Served(w)
      BY <3>1 DEF BrowserInv
    <3>3. ~Busy(w)
      BY <2>2, <1>3, <3>1, <3>2 DEF Served, Others
    <3> QED BY <3>1, <3>2, <3>3 DEF Served, Busy
  <2> QED BY <2>1, <2>2
<1>4. ASSUME ~crowded' PROVE LoneShape'
  <2>1. LoneShape
    BY <1>4 DEF BrowserInv
  <2>2. \A w \in Visitors : w # v => ~Busy(w)
    BY <1>4, <2>1 DEF LoneShape, Others
  <2>3. \A w \in Visitors : w # v => visits'[w].at = "idle"
    BY <1>1, <2>2 DEF Busy
  <2> QED BY <1>1, <1>4, <2>3 DEF LoneShape, Busy
<1> QED BY <1>2, <1>3, <1>4 DEF BrowserInv

-----------------------------------------------------------------------------
(* On the page.                                                            *)

\* The page of a call under way, and the call.
LEMMA PageIs ==
    ASSUME BrowserInv, NEW v \in Visitors, Busy(v)
    PROVE  /\ visits[v].obj \in Objects /\ visits[v].obj <= made /\ visits[v] \in Visits
           /\ Page(v) \in Screens /\ ScreenOK(Page(v))
<1>1. visits[v].obj \in 1..made /\ made \in 0..MaxBrowsers /\ visits[v] \in Visits
  BY DEF BrowserInv, BrowserShape, BrowserTypeOK, VisitOK
<1>2. visits[v].obj \in Objects
  BY <1>1, BrowserAssumption DEF Objects
<1> QED BY <1>1, <1>2 DEF BrowserInv, BrowserShape, BrowserTypeOK, Page

\* A call that works on its page.
LEMMA PageMove ==
    ASSUME BrowserInv, NEW v \in Visitors, Busy(v), NEW r \in Visits, NEW s \in Screens, ScreenOK(s),
           visits' = [visits EXCEPT ![v] = r],
           screens' = [screens EXCEPT ![visits[v].obj] = s],
           UNCHANGED <<shared, browsers, made, alone, crowded>>,
           r.at # "idle" => r.obj = visits[v].obj /\ r.at \in AtWork /\ visits[v].at \in AtWork,
           v \in alone => ~r.pageless /\ r.fits /\ r.reply \in {v, NoVisitor} /\ ChatIs(v, r, s)
    PROVE  BrowserInv'
<1>1. /\ visits[v].obj \in Objects /\ visits[v].obj \in 1..made
      /\ visits'[v] = r /\ screens'[visits[v].obj] = s
      /\ \A o \in Objects : o # visits[v].obj => screens'[o] = screens[o]
  BY PageIs DEF BrowserInv, BrowserShape, BrowserTypeOK, VisitOK
<1>2. BrowserTypeOK'
  BY DEF BrowserInv, BrowserShape, BrowserTypeOK
<1>3. made' >= made /\ alone' \subseteq alone \cup {v} /\ (~crowded' => ~crowded)
  BY <1>2 DEF BrowserTypeOK
<1>4. VisitOK(v)'
  BY <1>1 DEF VisitOK, Busy, AtWork
<1>5. \A o \in Objects : (o > made' => browsers'[o] = Unstarted) /\ ScreenOK(screens'[o])
  BY <1>1 DEF BrowserInv, BrowserShape
<1>6. v \in alone' => ~r.pageless /\ r.fits /\ r.reply \in {v, NoVisitor}
  OBVIOUS
<1>7. ASSUME v \in alone', r.at # "idle"
      PROVE  Others(v) = {} /\ r.obj = shared' /\ HasItsPage(v)' /\ ChatOK(v)'
  <2>1. Served(v)
    BY <1>7 DEF BrowserInv
  <2>2. HasItsPage(v)'
    BY <1>1, <1>7, <2>1 DEF Served, HasItsPage, AtWork
  <2>3. ChatOK(v)'
    BY <1>1, <1>7 DEF ChatOK
  <2> QED BY <1>7, <2>1, <2>2, <2>3 DEF Served
<1>8. ASSUME ~crowded'
      PROVE  /\ \A o \in Objects : Runs(browsers'[o]) => o = shared' /\ browsers'[o].pw
             /\ r.at # "idle" => r.obj = shared'
             /\ r.at \in {"launching", "opening"} => browsers'[r.obj].pw
  BY <1>8 DEF BrowserInv, LoneShape, AtWork
<1> QED BY <1>2, <1>3, <1>4, <1>5, <1>6, <1>7, <1>8, VisitMoves

\* A call that ends on its page.
LEMMA DoesMove ==
    ASSUME BrowserInv, NEW v \in Visitors, Busy(v), NEW s \in Screens, ScreenOK(s), Does(v, s)
    PROVE  BrowserInv'
<1>1. Ended(v) \in Visits /\ Ended(v).at = "idle" /\ ~Ended(v).pageless
      /\ Ended(v).fits = visits[v].fits /\ Ended(v).reply = NoVisitor
  BY EndedIs DEF BrowserInv, BrowserShape
<1>2. v \in alone => visits[v].fits
  BY DEF BrowserInv, Served
<1>3. ChatIs(v, Ended(v), s)
  BY <1>1 DEF ChatIs
<1>4. /\ visits' = [visits EXCEPT ![v] = Ended(v)]
      /\ screens' = [screens EXCEPT ![visits[v].obj] = s]
      /\ UNCHANGED <<shared, browsers, made, alone, crowded>>
  BY DEF Does, EndVisit, Becomes, Shows
<1> HIDE DEF ChatIs
<1> QED BY <1>1, <1>2, <1>3, <1>4, PageMove

\* Sending leaves the answers as they are.
LEMMA SubmittedIs ==
    ASSUME NEW s \in Screens, ScreenOK(s)
    PROVE  Submitted(s) \in Screens /\ ScreenOK(Submitted(s)) /\ Submitted(s).agents = s.agents
BY DEF Submitted, Screens, Someone, ScreenOK

LEMMA LocalSteps ==
    ASSUME BrowserInv, NEW v \in Visitors,
           \/ NavigateLocal(v) \/ ScreenshotLocal(v) \/ ExtractTextLocal(v)
           \/ ClickLocal(v) \/ FillLocal(v) \/ PressLocal(v)
    PROVE  BrowserInv'
<1>1. Busy(v)
  BY DEF NavigateLocal, ScreenshotLocal, ExtractTextLocal, ClickLocal, FillLocal, PressLocal, NoVisibility, OnPage, Busy
<1>2. Page(v) \in Screens /\ ScreenOK(Page(v))
  BY <1>1, PageIs
<1>3. Submitted(Page(v)) \in Screens /\ ScreenOK(Submitted(Page(v)))
  BY <1>2, SubmittedIs
<1>4. [Blank EXCEPT !.at = "site"] \in Screens /\ ScreenOK([Blank EXCEPT !.at = "site"])
  BY BlankIs DEF Blank, Screens, ScreenOK
<1>5. [Page(v) EXCEPT !.input = v] \in Screens /\ ScreenOK([Page(v) EXCEPT !.input = v])
  BY <1>2 DEF Screens, Someone, ScreenOK
<1>6. PICK s \in {Page(v), Submitted(Page(v)), [Blank EXCEPT !.at = "site"], [Page(v) EXCEPT !.input = v]} : Does(v, s)
  BY DEF NavigateLocal, ScreenshotLocal, ExtractTextLocal, ClickLocal, FillLocal, PressLocal
<1>7. s \in Screens /\ ScreenOK(s)
  BY <1>2, <1>3, <1>4, <1>5, <1>6
<1> QED BY <1>1, <1>6, <1>7, DoesMove

\* A call that goes on: only where it is and what it has counted change.
LEMMA ChatMove ==
    ASSUME BrowserInv, NEW v \in Visitors, visits[v].at \in AtWork, NEW r \in Visits, NEW s \in Screens, ScreenOK(s),
           ChatGoes(v, r, s), r.at \in AtWork, r.obj = visits[v].obj, r.fits = visits[v].fits,
           r.pageless = visits[v].pageless, r.reply = visits[v].reply,
           v \in alone => ChatIs(v, r, s)
    PROVE  BrowserInv'
<1>1. Busy(v)
  BY DEF Busy, AtWork
<1>2. v \in alone => Served(v)
  BY DEF BrowserInv
<1>3. /\ visits' = [visits EXCEPT ![v] = r]
      /\ screens' = [screens EXCEPT ![visits[v].obj] = s]
      /\ UNCHANGED <<shared, browsers, made, alone, crowded>>
  BY DEF ChatGoes, Becomes, Shows
<1>4. v \in alone => ~r.pageless /\ r.fits /\ r.reply \in {v, NoVisitor}
  BY <1>2 DEF Served
<1> HIDE DEF ChatIs
<1> QED BY <1>1, <1>3, <1>4, PageMove

LEMMA ChatSteps ==
    ASSUME BrowserInv, NEW v \in Visitors,
           OpenChat(v) \/ CountAnswers(v) \/ TypeMessage(v) \/ ClickSend(v) \/ SeeMessage(v)
    PROVE  BrowserInv'
<1> DEFINE p == Page(v)
           q == visits[v]
<1>0. Busy(v) /\ q.at \in AtWork
  BY DEF OpenChat, CountAnswers, TypeMessage, ClickSend, SeeMessage, ChatAt, Busy, AtWork
<1>1. q \in Visits /\ p \in Screens /\ ScreenOK(p)
  BY <1>0, PageIs
<1>2. v \in alone => ChatIs(v, q, p)
  BY <1>0 DEF BrowserInv, Served, ChatOK, Page
<1>3. \A st \in Stations : /\ [q EXCEPT !.at = st] \in Visits
                            /\ [q EXCEPT !.at = st] = [visible |-> q.visible, at |-> st, stage |-> q.stage, obj |-> q.obj,
                                   base |-> q.base, fits |-> q.fits, pageless |-> q.pageless, reply |-> q.reply]
  BY <1>1 DEF Visits
<1>4. CASE OpenChat(v)
  <2> DEFINE r == [q EXCEPT !.at = "connecting"]
             s == IF p.at = "chat" THEN p ELSE [Blank EXCEPT !.at = "chat"]
  <2>1. ChatGoes(v, r, s)
    BY <1>4 DEF OpenChat
  <2>2. s \in Screens /\ ScreenOK(s)
    BY <1>1, BlankIs DEF Blank, Screens, ScreenOK
  <2>3. r \in Visits /\ r.at = "connecting" /\ r.obj = q.obj /\ r.fits = q.fits /\ r.pageless = q.pageless /\ r.reply = q.reply
    BY <1>1, <1>3 DEF Stations, AtWork
  <2> HIDE DEF r, s
  <2>4. ChatIs(v, r, s) /\ r.at \in AtWork
    BY <2>3 DEF ChatIs, AtWork
  <2> QED BY <1>0, <2>1, <2>2, <2>3, <2>4, ChatMove
<1>5. CASE CountAnswers(v)
  <2> DEFINE r == [q EXCEPT !.at = "counted", !.base = p.agents]
  <2>1. ChatGoes(v, r, p) /\ p.busy = NoVisitor
    BY <1>5 DEF CountAnswers
  <2>2. /\ r \in Visits /\ r.at = "counted" /\ r.obj = q.obj /\ r.fits = q.fits /\ r.pageless = q.pageless
        /\ r.reply = q.reply /\ r.base = p.agents
    BY <1>1 DEF Visits, Screens, Stations, AtWork
  <2> HIDE DEF r
  <2>3. ChatIs(v, r, p) /\ r.at \in AtWork
    BY <2>1, <2>2 DEF ChatIs, AtWork
  <2> QED BY <1>0, <1>1, <2>1, <2>2, <2>3, ChatMove
<1>6. CASE TypeMessage(v)
  <2> DEFINE r == [q EXCEPT !.at = "typed"]
             s == [p EXCEPT !.input = v]
  <2>1. ChatGoes(v, r, s) /\ q.at = "counted"
    BY <1>6 DEF TypeMessage, ChatAt
  <2>2. s \in Screens /\ ScreenOK(s) /\ s.input = v /\ s.busy = p.busy /\ s.agents = p.agents
    BY <1>1 DEF Screens, Someone, ScreenOK
  <2>3. r \in Visits /\ r.at = "typed" /\ r.obj = q.obj /\ r.fits = q.fits /\ r.pageless = q.pageless /\ r.reply = q.reply
        /\ r.base = q.base
    BY <1>1, <1>3 DEF Stations, AtWork
  <2> HIDE DEF r, s
  <2>4. (v \in alone => ChatIs(v, r, s)) /\ r.at \in AtWork
    BY <1>2, <2>1, <2>2, <2>3 DEF ChatIs, AtWork
  <2> QED BY <1>0, <2>1, <2>2, <2>3, <2>4, ChatMove
<1>7. CASE ClickSend(v)
  <2> DEFINE r == [q EXCEPT !.at = "sent"]
             s == Submitted(p)
  <2>1. ChatGoes(v, r, s) /\ q.at = "typed" /\ p.at = "chat"
    BY <1>7 DEF ClickSend, ChatAt
  <2>2. s \in Screens /\ ScreenOK(s) /\ s.agents = p.agents
    BY <1>1, SubmittedIs
  <2>3. p.busy = NoVisitor /\ p.input = v => s.busy = v
    BY <1>1, <2>1, BrowserAssumption DEF Submitted, Screens
  <2>4. r \in Visits /\ r.at = "sent" /\ r.obj = q.obj /\ r.fits = q.fits /\ r.pageless = q.pageless /\ r.reply = q.reply
        /\ r.base = q.base
    BY <1>1, <1>3 DEF Stations, AtWork
  <2> HIDE DEF r, s
  <2>5. (v \in alone => ChatIs(v, r, s)) /\ r.at \in AtWork
    BY <1>2, <2>1, <2>2, <2>3, <2>4 DEF ChatIs, AtWork
  <2> QED BY <1>0, <2>1, <2>2, <2>4, <2>5, ChatMove
<1>8. CASE SeeMessage(v)
  <2> DEFINE r == [q EXCEPT !.at = "echoed"]
  <2>1. ChatGoes(v, r, p) /\ q.at = "sent"
    BY <1>8 DEF SeeMessage, ChatAt
  <2>2. r \in Visits /\ r.at = "echoed" /\ r.obj = q.obj /\ r.fits = q.fits /\ r.pageless = q.pageless /\ r.reply = q.reply
        /\ r.base = q.base
    BY <1>1, <1>3 DEF Stations, AtWork
  <2> HIDE DEF r
  <2>3. (v \in alone => ChatIs(v, r, p)) /\ r.at \in AtWork
    BY <1>2, <2>1, <2>2 DEF ChatIs, AtWork
  <2> QED BY <1>0, <1>1, <2>1, <2>2, <2>3, ChatMove
<1> QED BY <1>4, <1>5, <1>6, <1>7, <1>8

\* An answer that differs from what was counted is the one that was added since.
LEMMA ChangedIsMine ==
    ASSUME NEW base \in Seq(Visitors), NEW v \in Visitors, NEW agents \in {base, Append(base, v)}, Changed(base, agents)
    PROVE  Last(agents) = v
<1>1. CASE agents = base
  BY <1>1 DEF Changed
<1>2. CASE agents = Append(base, v)
  BY <1>2 DEF Last
<1> QED BY <1>1, <1>2

LEMMA TakeReplyStep ==
    ASSUME BrowserInv, NEW v \in Visitors, TakeReply(v)
    PROVE  BrowserInv'
<1> DEFINE p == Page(v)
           q == visits[v]
           r == [Ended(v) EXCEPT !.reply = Last(p.agents)]
<1>1. Busy(v) /\ q.at = "echoed" /\ p.busy = NoVisitor /\ Changed(q.base, p.agents) /\ ChatGoes(v, r, p)
  BY DEF TakeReply, ChatAt, Busy
<1>2. q \in Visits /\ p \in Screens /\ ScreenOK(p)
  BY <1>1, PageIs
<1>3. Last(p.agents) \in Visitors
  <2>1. p.agents \in Seq(Visitors) /\ p.agents # << >>
    BY <1>1, <1>2 DEF Screens, Changed
  <2> QED BY <2>1 DEF Last
<1>4. Ended(v) \in Visits /\ Ended(v).at = "idle" /\ ~Ended(v).pageless /\ Ended(v).fits = q.fits
  BY EndedIs DEF BrowserInv, BrowserShape
<1>5. r \in Visits /\ r.at = "idle" /\ ~r.pageless /\ r.fits = q.fits /\ r.reply = Last(p.agents)
  BY <1>3, <1>4 DEF Visits, Someone
<1>6. v \in alone => q.fits /\ Last(p.agents) = v
  <2> SUFFICES ASSUME v \in alone PROVE q.fits /\ Last(p.agents) = v
    OBVIOUS
  <2>1. q.fits /\ ChatIs(v, q, p)
    BY <1>1 DEF BrowserInv, Served, ChatOK, Page
  <2>2. p.agents \in {q.base, Append(q.base, v)}
    BY <1>1, <2>1, BrowserAssumption DEF ChatIs
  <2>3. q.base \in Seq(Visitors)
    BY <1>2 DEF Visits
  <2> QED BY <1>1, <2>1, <2>2, <2>3, ChangedIsMine
<1>7. /\ visits' = [visits EXCEPT ![v] = r]
      /\ screens' = [screens EXCEPT ![visits[v].obj] = p]
      /\ UNCHANGED <<shared, browsers, made, alone, crowded>>
  BY <1>1 DEF ChatGoes, Becomes, Shows
<1> HIDE DEF r, p
<1>8. ChatIs(v, r, p)
  BY <1>5 DEF ChatIs
<1> QED BY <1>1, <1>2, <1>5, <1>6, <1>7, <1>8, PageMove

-----------------------------------------------------------------------------
(* The page itself, and the session under it.                              *)

\* What the chat page does by itself is what a conversation waits for.
LEMMA PageSteps ==
    ASSUME BrowserInv, NEW o \in Objects, ShowHistory(o) \/ RunDone(o)
    PROVE  BrowserInv'
<1>1. PICK s : PageShows(o, s) /\ s \in Screens /\ ScreenOK(s)
               /\ \/ s.busy = screens[o].busy /\ s.agents = screens[o].agents /\ s.input = screens[o].input
                  \/ /\ screens[o].busy # NoVisitor /\ s.busy = NoVisitor
                     /\ s.agents \in {screens[o].agents, Append(screens[o].agents, screens[o].busy)}
  <2> DEFINE p == screens[o]
             h == [p EXCEPT !.shown = TRUE, !.user = NoVisitor, !.agents = << >>]
             d == [p EXCEPT !.busy = NoVisitor, !.agents = Append(@, p.busy)]
             e == [p EXCEPT !.busy = NoVisitor]
  <2>1. p \in Screens /\ ScreenOK(p)
    BY DEF BrowserInv, BrowserShape, BrowserTypeOK
  <2>2. CASE ShowHistory(o)
    <3>1. PageShows(o, h) /\ ~p.shown
      BY <2>2 DEF ShowHistory
    <3>2. h \in Screens /\ ScreenOK(h) /\ h.busy = p.busy /\ h.agents = p.agents /\ h.input = p.input
      BY <2>1, <3>1 DEF Screens, ScreenOK, Someone
    <3> HIDE DEF h
    <3> QED BY <3>1, <3>2
  <2>3. CASE RunDone(o)
    <3>1. (PageShows(o, d) \/ PageShows(o, e)) /\ p.busy # NoVisitor /\ p.shown
      BY <2>3 DEF RunDone
    <3>2. p.busy \in Visitors /\ p.agents \in Seq(Visitors)
      BY <2>1, <3>1 DEF Screens, Someone
    <3>3. Append(p.agents, p.busy) \in Seq(Visitors)
      BY <3>2
    <3>4. d \in Screens /\ d.shown = p.shown /\ d.busy = NoVisitor /\ d.agents = Append(p.agents, p.busy)
      BY <2>1, <3>3 DEF Screens, Someone
    <3>5. e \in Screens /\ e.shown = p.shown /\ e.busy = NoVisitor /\ e.agents = p.agents
      BY <2>1 DEF Screens, Someone
    <3> HIDE DEF d, e
    <3>6. ScreenOK(d) /\ ScreenOK(e)
      BY <3>1, <3>4, <3>5 DEF ScreenOK
    <3> QED BY <3>1, <3>4, <3>5, <3>6
  <2> QED BY <2>2, <2>3
<1>2. /\ screens' = [screens EXCEPT ![o] = s] /\ UNCHANGED <<shared, browsers, made, visits, faults, alone, crowded>>
  BY <1>1 DEF PageShows
<1>3. screens'[o] = s /\ \A p \in Objects : p # o => screens'[p] = screens[p]
  BY <1>2 DEF BrowserInv, BrowserShape, BrowserTypeOK
<1>4. BrowserShape'
  <2>1. BrowserTypeOK'
    BY <1>1, <1>2 DEF BrowserInv, BrowserShape, BrowserTypeOK
  <2> QED BY <2>1, <1>1, <1>2, <1>3 DEF BrowserInv, BrowserShape, VisitOK, Busy
<1>5. (~crowded => LoneShape)'
  BY <1>2 DEF BrowserInv, LoneShape, Busy
<1>6. ASSUME NEW v \in alone' PROVE Served(v)'
  <2>1. Served(v) /\ v \in Visitors
    BY <1>2 DEF BrowserInv, BrowserShape, BrowserTypeOK
  <2>2. Others(v)' = Others(v) /\ (HasItsPage(v)' <=> HasItsPage(v)) /\ (Busy(v)' <=> Busy(v))
    BY <1>2 DEF Others, HasItsPage, Busy
  <2>3. ASSUME Busy(v) PROVE ChatOK(v)'
    <3> DEFINE q == visits[v]
    <3>1. q' = q /\ q.obj \in Objects /\ ChatIs(v, q, screens[q.obj])
      BY <1>2, <2>1, <2>3, PageIs DEF Served, ChatOK
    <3>2. CASE q.obj # o
      BY <1>3, <3>1, <3>2 DEF ChatOK
    <3>3. CASE q.obj = o
      <4>1. ChatIs(v, q, s)
        <5> HIDE DEF q
        <5> QED BY <1>1, <3>1, <3>3, <2>1 DEF ChatIs
      <4> QED BY <1>3, <3>1, <3>3, <4>1 DEF ChatOK
    <3> QED BY <3>2, <3>3
  <2> QED BY <1>2, <2>1, <2>2, <2>3 DEF Served
<1> QED BY <1>4, <1>5, <1>6 DEF BrowserInv

\* What a session still is after a stage of closing, or a loss.
LEMMA StoppedIs ==
    ASSUME NEW b \in Sessions, NEW k
    PROVE  /\ Stopped(b, k) \in Sessions /\ Stopped(b, k).pw = b.pw
           /\ Runs(Stopped(b, k)) => Runs(b)
           /\ k = 3 => ~Runs(Stopped(b, k))
<1> DEFINE w == b.window /\ k = 1
           d == b.driver /\ k < 3
           c == Stopped(b, k)
<1>1. c = [b EXCEPT !.tab = FALSE, !.window = w, !.driver = d]
  BY DEF Stopped
<1>2. w \in BOOLEAN /\ d \in BOOLEAN /\ (w => b.window) /\ (d => b.driver) /\ (k = 3 => ~w /\ ~d)
  OBVIOUS
<1> HIDE DEF w, d, c
<1>3. c \in Sessions /\ c.pw = b.pw /\ c.window = w /\ c.driver = d
  BY <1>1, <1>2 DEF Sessions
<1>4. (Runs(c) => Runs(b)) /\ (k = 3 => ~Runs(c))
  BY <1>2, <1>3 DEF Runs
<1> QED BY <1>3, <1>4 DEF c

\* The screens of sessions some of which may have lost their page.
LEMMA SeenIs ==
    ASSUME BrowserInv, NEW bs, Seen(bs)
    PROVE  screens' \in [Objects -> Screens] /\ \A o \in Objects : ScreenOK(screens'[o])
<1>1. \A o \in Objects : screens[o] \in Screens /\ ScreenOK(screens[o])
  BY DEF BrowserInv, BrowserShape, BrowserTypeOK
<1> QED BY <1>1, BlankIs DEF Seen

LEMMA LosePageStep ==
    ASSUME BrowserInv, NEW o \in Objects, LosePage(o)
    PROVE  BrowserInv'
<1>1. PICK stage \in {1, 2} : browsers' = [browsers EXCEPT ![o] = Stopped(browsers[o], stage)]
  BY DEF LosePage
<1>2. /\ UNCHANGED <<shared, made, visits, crowded>> /\ alone' = alone \ {v \in Visitors : Busy(v)}
      /\ browsers[o].tab /\ Seen(browsers')
  BY DEF LosePage
<1>3. browsers[o] \in Sessions
  BY DEF BrowserInv, BrowserShape, BrowserTypeOK
<1>4. /\ browsers' \in [Objects -> Sessions]
      /\ \A p \in Objects : (Runs(browsers'[p]) => Runs(browsers[p])) /\ browsers'[p].pw = browsers[p].pw
      /\ \A p \in Objects : p # o => browsers'[p] = browsers[p]
  BY <1>1, <1>3, StoppedIs DEF BrowserInv, BrowserShape, BrowserTypeOK
<1>5. ~(o > made)
  BY <1>2 DEF BrowserInv, BrowserShape, Unstarted
<1>6. screens' \in [Objects -> Screens] /\ \A p \in Objects : ScreenOK(screens'[p])
  BY <1>2, SeenIs
<1>7. BrowserShape'
  BY <1>2, <1>4, <1>5, <1>6 DEF BrowserInv, BrowserShape, BrowserTypeOK, VisitOK, Busy
<1>8. ASSUME ~crowded' PROVE LoneShape'
  <2>1. LoneShape
    BY <1>2, <1>8 DEF BrowserInv
  <2>2. \A v \in Visitors : Busy(v) => visits[v].obj \in Objects
    BY PageIs
  <2>3. \A v \in Visitors : visits[v].at \in {"launching", "opening"} => Busy(v)
    BY DEF Busy
  <2> QED BY <1>2, <1>4, <2>1, <2>2, <2>3 DEF LoneShape, Busy
<1>9. ASSUME NEW v \in alone' PROVE Served(v)'
  BY <1>2, <1>9 DEF BrowserInv, BrowserShape, BrowserTypeOK, Served, Busy
<1> QED BY <1>7, <1>8, <1>9 DEF BrowserInv

-----------------------------------------------------------------------------
(* Starting and closing.                                                   *)

\* A call that ends, with a page or without; what it leaves behind may still come up.
LEMMA EndsMove ==
    ASSUME BrowserInv, BrowserTypeOK', NEW v \in Visitors, Busy(v), NEW r \in {Ended(v), [Ended(v) EXCEPT !.pageless = TRUE]},
           visits' = [visits EXCEPT ![v] = r], UNCHANGED <<shared, made, screens, crowded>>, alone' \subseteq alone,
           v \in alone' => r = Ended(v),
           \A o \in Objects : o > made => browsers'[o] = Unstarted,
           ~crowded => \A o \in Objects : Runs(browsers'[o]) => o = shared /\ browsers'[o].pw
    PROVE  BrowserInv'
<1>1. Ended(v) \in Visits /\ Ended(v).at = "idle" /\ ~Ended(v).pageless
      /\ Ended(v).fits = visits[v].fits /\ Ended(v).reply = NoVisitor
  BY EndedIs DEF BrowserInv, BrowserShape
<1>2. r \in Visits /\ r.at = "idle" /\ r.fits = visits[v].fits
  BY <1>1 DEF Visits
<1>3. visits'[v] = r
  BY DEF BrowserInv, BrowserShape, BrowserTypeOK
<1>4. VisitOK(v)'
  BY <1>2, <1>3 DEF VisitOK, Busy
<1>5. v \in alone' => ~r.pageless /\ r.fits /\ r.reply \in {v, NoVisitor}
  BY <1>1 DEF BrowserInv, Served
<1>6. \A o \in Objects : ScreenOK(screens'[o])
  BY DEF BrowserInv, BrowserShape
<1>7. made' >= made
  BY BrowserAssumption DEF BrowserInv, BrowserShape, BrowserTypeOK
<1> QED BY <1>2, <1>4, <1>5, <1>6, <1>7, VisitMoves

LEMMA VisitFailsStep ==
    ASSUME BrowserInv, NEW v \in Visitors, VisitFails(v)
    PROVE  BrowserInv'
<1>1. Busy(v) /\ visits[v].at \in AtWork
  BY DEF VisitFails, Busy, AtWork
<1>2. UNCHANGED <<shared, browsers, made, screens, alone, crowded>>
  BY DEF VisitFails
<1>3. PICK r \in {Ended(v), [Ended(v) EXCEPT !.pageless = TRUE]} :
         visits' = [visits EXCEPT ![v] = r] /\ (browsers[visits[v].obj].tab => r = Ended(v))
  BY DEF VisitFails, EndVisit, EndPageless, Becomes
<1>4. v \in alone => r = Ended(v)
  BY <1>1, <1>3 DEF BrowserInv, Served, HasItsPage
<1>5. r \in Visits
  BY <1>3, EndedIs DEF BrowserInv, BrowserShape, Visits
<1>6. BrowserTypeOK'
  BY <1>2, <1>3, <1>5 DEF BrowserInv, BrowserShape, BrowserTypeOK
<1>7. \A o \in Objects : o > made => browsers'[o] = Unstarted
  BY <1>2 DEF BrowserInv, BrowserShape
<1>8. ~crowded => \A o \in Objects : Runs(browsers'[o]) => o = shared /\ browsers'[o].pw
  BY <1>2 DEF BrowserInv, LoneShape
<1> QED BY <1>1, <1>2, <1>3, <1>4, <1>6, <1>7, <1>8, EndsMove

LEMMA StartFailsStep ==
    ASSUME BrowserInv, NEW v \in Visitors, StartFails(v)
    PROVE  BrowserInv'
<1> DEFINE r == [Ended(v) EXCEPT !.pageless = TRUE]
<1>1. Busy(v)
  BY DEF StartFails, Busy
<1>2. UNCHANGED <<shared, browsers, made, screens, crowded>> /\ alone' \subseteq alone /\ visits' = [visits EXCEPT ![v] = r]
  BY DEF StartFails, EndPageless, Becomes
<1>3. v \notin alone'
  BY <1>1 DEF StartFails, BrowserInv, Served, HasItsPage
<1>5. r \in Visits
  BY EndedIs DEF BrowserInv, BrowserShape, Visits
<1>6. BrowserTypeOK'
  BY <1>2, <1>5 DEF BrowserInv, BrowserShape, BrowserTypeOK
<1>7. \A o \in Objects : o > made => browsers'[o] = Unstarted
  BY <1>2 DEF BrowserInv, BrowserShape
<1>8. ~crowded => \A o \in Objects : Runs(browsers'[o]) => o = shared /\ browsers'[o].pw
  BY <1>2 DEF BrowserInv, LoneShape
<1>9. r \in {Ended(v), r}
  OBVIOUS
<1> QED BY <1>1, <1>2, <1>3, <1>6, <1>7, <1>8, <1>9, EndsMove

LEMMA CancelVisitStep ==
    ASSUME BrowserInv, NEW v \in Visitors, CancelVisit(v)
    PROVE  BrowserInv'
<1>1. Busy(v) /\ visits' = [visits EXCEPT ![v] = Ended(v)] /\ UNCHANGED <<shared, made, screens, alone, crowded>>
  BY DEF CancelVisit, EndVisit, Becomes
<1>2. visits[v].obj \in Objects /\ visits[v].obj <= made
  BY <1>1, PageIs
<1>3. \/ browsers' = browsers
      \/ /\ visits[v].at = "launching" /\ browsers[visits[v].obj].driver
         /\ browsers' = [browsers EXCEPT ![visits[v].obj] = [browsers[visits[v].obj] EXCEPT !.window = TRUE]]
  BY DEF CancelVisit
<1>4. /\ browsers' \in [Objects -> Sessions]
      /\ \A o \in Objects : o # visits[v].obj => browsers'[o] = browsers[o]
      /\ \A o \in Objects : browsers'[o].pw = browsers[o].pw /\ (Runs(browsers'[o]) => Runs(browsers[o]))
  <2> DEFINE u == visits[v].obj
             b == [browsers[u] EXCEPT !.window = TRUE]
  <2>1. browsers \in [Objects -> Sessions] /\ u \in Objects
    BY <1>2 DEF BrowserInv, BrowserShape, BrowserTypeOK
  <2>2. b \in Sessions /\ b.pw = browsers[u].pw
    <3>1. browsers[u] \in Sessions
      BY <2>1
    <3> HIDE DEF u
    <3> QED BY <3>1 DEF Sessions
  <2>3. browsers[u].driver => Runs(browsers[u])
    BY DEF Runs
  <2> HIDE DEF u, b
  <2> QED BY <1>3, <2>1, <2>2, <2>3 DEF u, b
<1>5. Ended(v) \in Visits
  BY EndedIs DEF BrowserInv, BrowserShape
<1>6. BrowserTypeOK'
  BY <1>1, <1>4, <1>5 DEF BrowserInv, BrowserShape, BrowserTypeOK
<1>7. \A o \in Objects : o > made => browsers'[o] = Unstarted
  <2>1. \A o \in Objects : o > made => o # visits[v].obj
    BY <1>2, BrowserAssumption DEF Objects, BrowserInv, BrowserShape, BrowserTypeOK
  <2> QED BY <1>4, <2>1 DEF BrowserInv, BrowserShape
<1>8. ~crowded => \A o \in Objects : Runs(browsers'[o]) => o = shared /\ browsers'[o].pw
  BY <1>4 DEF BrowserInv, LoneShape
<1> QED BY <1>1, <1>6, <1>7, <1>8, EndsMove

\* A session object is made, and the call goes on to start it.
LEMMA CreateMove ==
    ASSUME BrowserInv, NEW v \in Visitors,
           Busy(v) \/ (alone' \cap Others(v) = {} /\ (~crowded' => Others(v) = {})),
           NEW r \in Visits, NEW bs \in [Objects -> Sessions], \A o \in Objects : o > made => bs[o] = Unstarted,
           CreateSession(v, r, bs),
           screens' \in [Objects -> Screens], \A o \in Objects : ScreenOK(screens'[o]),
           alone' \subseteq alone \cup {v},
           v \in alone' => ~r.pageless /\ r.fits /\ r.reply \in {v, NoVisitor} /\ Others(v) = {},
           ~crowded' => ~crowded,
           ~crowded' => \A o \in Objects : ~Runs(bs[o])
    PROVE  BrowserInv'
<1> DEFINE q == [r EXCEPT !.at = "starting", !.stage = 0, !.obj = made + 1]
<1>1. /\ made \in Nat /\ MaxBrowsers \in Nat /\ made < MaxBrowsers /\ made' = made + 1 /\ shared' = made + 1
      /\ browsers' = bs /\ visits' = [visits EXCEPT ![v] = q]
  BY BrowserAssumption DEF CreateSession, Becomes, BrowserInv, BrowserShape, BrowserTypeOK
<1>2. made + 1 \in 0..MaxBrowsers /\ made' >= made /\ made + 1 \in 1..made' /\ 0 \in 0..3
  BY <1>1
<1>3. /\ q \in Visits /\ q.at = "starting" /\ q.obj = made + 1 /\ q.fits = r.fits /\ q.pageless = r.pageless
      /\ q.reply = r.reply
  BY <1>2 DEF Visits, Stations
<1> HIDE DEF q
<1>4. visits'[v] = q
  BY <1>1 DEF BrowserInv, BrowserShape, BrowserTypeOK
<1>5. BrowserTypeOK'
  BY <1>1, <1>2, <1>3 DEF BrowserInv, BrowserShape, BrowserTypeOK
<1>6. VisitOK(v)'
  BY <1>2, <1>3, <1>4 DEF VisitOK
<1>7. \A o \in Objects : (o > made' => browsers'[o] = Unstarted) /\ ScreenOK(screens'[o])
  BY <1>1 DEF Objects
<1>8. HasItsPage(v)' /\ ChatOK(v)'
  BY <1>3, <1>4 DEF HasItsPage, ChatOK, ChatIs, AtWork
<1>9. v \in alone' => ~q.pageless /\ q.fits /\ q.reply \in {v, NoVisitor}
  BY <1>3
<1>10. v \in alone' /\ q.at # "idle" => Others(v) = {} /\ q.obj = shared' /\ HasItsPage(v)' /\ ChatOK(v)'
  BY <1>1, <1>3, <1>8
<1>11. ~crowded' => \A o \in Objects : Runs(browsers'[o]) => o = shared' /\ browsers'[o].pw
  BY <1>1
<1>12. q.obj = shared' /\ q.at \notin {"launching", "opening"}
  BY <1>1, <1>3
<1> QED BY <1>1, <1>2, <1>3, <1>5, <1>6, <1>7, <1>9, <1>10, <1>11, <1>12, VisitMoves

\* Closing goes on to its next stage, or is done.
LEMMA CloseMove ==
    ASSUME BrowserInv, NEW v \in Visitors,
           Busy(v) \/ (alone' \cap Others(v) = {} /\ (~crowded' => Others(v) = {})),
           NEW r \in Visits, NEW o \in Objects, o <= made,
           NEW bs \in [Objects -> Sessions], \A p \in Objects : p > made => bs[p] = Unstarted,
           NEW k \in 1..4, CloseSession(v, r, o, bs, k),
           screens' \in [Objects -> Screens], \A p \in Objects : ScreenOK(screens'[p]),
           alone' \subseteq alone \cup {v},
           v \in alone' => ~r.pageless /\ r.fits /\ r.reply \in {v, NoVisitor} /\ Others(v) = {} /\ o = shared,
           ~crowded' => ~crowded /\ o = shared,
           ~crowded' => \A p \in Objects : Runs(bs[p]) => p = o /\ bs[p].pw,
           ~crowded' /\ k = 4 => ~Runs(bs[o])
    PROVE  BrowserInv'
<1>0. made \in Nat /\ MaxBrowsers \in Nat /\ o \in 1..made
  BY BrowserAssumption DEF Objects, BrowserInv, BrowserShape, BrowserTypeOK
<1>1. CASE k = 4
  <2> DEFINE cs == [bs EXCEPT ![o] = Cleared(bs[o])]
  <2>1. CreateSession(v, r, cs)
    BY <1>1 DEF CloseSession
  <2>2. bs[o] \in Sessions
    OBVIOUS
  <2>3. Cleared(bs[o]) \in Sessions /\ (Runs(Cleared(bs[o])) <=> Runs(bs[o]))
    BY <2>2 DEF Cleared, Sessions, Runs
  <2>4. /\ cs \in [Objects -> Sessions] /\ (\A p \in Objects : p # o => cs[p] = bs[p])
        /\ \A p \in Objects : Runs(cs[p]) <=> Runs(bs[p])
    BY <2>3
  <2> HIDE DEF cs
  <2>5. \A p \in Objects : p > made => cs[p] = Unstarted
    BY <2>4, <1>0 DEF Objects
  <2>6. ~crowded' => \A p \in Objects : ~Runs(cs[p])
    BY <1>1, <2>4
  <2> QED BY <2>1, <2>4, <2>5, <2>6, CreateMove
<1>2. CASE k # 4
  <2> DEFINE q == [r EXCEPT !.at = "closing", !.stage = k, !.obj = o]
  <2>1. visits' = [visits EXCEPT ![v] = q] /\ browsers' = bs /\ UNCHANGED <<shared, made>>
    BY <1>2 DEF CloseSession, Becomes
  <2>2. k \in 0..3 /\ k \in 1..3 /\ o \in 0..MaxBrowsers
    BY <1>0, <1>2 DEF BrowserInv, BrowserShape, BrowserTypeOK
  <2>3. /\ q \in Visits /\ q.at = "closing" /\ q.stage = k /\ q.obj = o /\ q.fits = r.fits /\ q.pageless = r.pageless
        /\ q.reply = r.reply
    BY <2>2 DEF Visits, Stations
  <2> HIDE DEF q
  <2>4. visits'[v] = q
    BY <2>1 DEF BrowserInv, BrowserShape, BrowserTypeOK
  <2>5. BrowserTypeOK'
    BY <2>1, <2>3 DEF BrowserInv, BrowserShape, BrowserTypeOK
  <2>6. VisitOK(v)'
    BY <1>0, <2>1, <2>2, <2>3, <2>4 DEF VisitOK
  <2>7. \A p \in Objects : (p > made' => browsers'[p] = Unstarted) /\ ScreenOK(screens'[p])
    BY <2>1
  <2>8. HasItsPage(v)' /\ ChatOK(v)'
    BY <2>3, <2>4 DEF HasItsPage, ChatOK, ChatIs, AtWork
  <2>9. v \in alone' => ~q.pageless /\ q.fits /\ q.reply \in {v, NoVisitor}
    BY <2>3
  <2>10. v \in alone' /\ q.at # "idle" => Others(v) = {} /\ q.obj = shared' /\ HasItsPage(v)' /\ ChatOK(v)'
    BY <2>1, <2>3, <2>8
  <2>11. ~crowded' => \A p \in Objects : Runs(browsers'[p]) => p = shared' /\ browsers'[p].pw
    BY <2>1
  <2>12. (~crowded' => q.obj = shared') /\ q.at \notin {"launching", "opening"}
    BY <2>1, <2>3
  <2>13. made' >= made
    BY <1>0, <2>1
  <2> QED BY <2>1, <2>3, <2>5, <2>6, <2>7, <2>9, <2>10, <2>11, <2>12, <2>13, VisitMoves
<1> QED BY <1>1, <1>2

\* The next piece of a session that is being started comes up.
LEMMA StartMove ==
    ASSUME BrowserInv, NEW v \in Visitors, visits[v].at \in {"starting", "launching"},
           NEW st \in {"launching", "opening"}, NEW b \in Sessions,
           Becomes(v, [visits[v] EXCEPT !.at = st]),
           browsers' = [browsers EXCEPT ![visits[v].obj] = b],
           UNCHANGED <<shared, made, screens, alone, crowded>>,
           st = "launching" => b.driver, st = "opening" => b.window,
           ~crowded => b.pw
    PROVE  BrowserInv'
<1> DEFINE u == visits[v].obj
           q == [visits[v] EXCEPT !.at = st]
<1>0. Busy(v)
  BY DEF Busy
<1>1. u \in Objects /\ u <= made /\ u \in 1..made /\ visits[v] \in Visits /\ made \in Nat
  BY <1>0, PageIs, BrowserAssumption DEF BrowserInv, BrowserShape, BrowserTypeOK, VisitOK
<1>2. /\ q \in Visits /\ q.at = st /\ q.obj = u /\ q.fits = visits[v].fits /\ q.pageless = visits[v].pageless
      /\ q.reply = visits[v].reply
  BY <1>1 DEF Visits, Stations
<1>3. visits' = [visits EXCEPT ![v] = q] /\ visits'[v] = q
  BY DEF Becomes, BrowserInv, BrowserShape, BrowserTypeOK
<1> HIDE DEF q
<1>4. /\ browsers' \in [Objects -> Sessions] /\ browsers'[u] = b
      /\ \A o \in Objects : o # u => browsers'[o] = browsers[o]
  BY <1>1 DEF BrowserInv, BrowserShape, BrowserTypeOK
<1>5. BrowserTypeOK'
  BY <1>2, <1>3, <1>4 DEF BrowserInv, BrowserShape, BrowserTypeOK
<1>6. VisitOK(v)'
  BY <1>1, <1>2, <1>3 DEF VisitOK
<1>7. \A o \in Objects : (o > made' => browsers'[o] = Unstarted) /\ ScreenOK(screens'[o])
  <2>1. \A o \in Objects : o > made => o # u
    BY <1>1 DEF Objects
  <2> QED BY <1>4, <2>1 DEF BrowserInv, BrowserShape
<1>8. HasItsPage(v)' /\ ChatOK(v)'
  BY <1>2, <1>3, <1>4 DEF HasItsPage, ChatOK, ChatIs, AtWork
<1>9. v \in alone => Served(v)
  BY DEF BrowserInv
<1>10. v \in alone' => ~q.pageless /\ q.fits /\ q.reply \in {v, NoVisitor}
  BY <1>2, <1>9 DEF Served
<1>11. v \in alone' /\ q.at # "idle" => Others(v) = {} /\ q.obj = shared' /\ HasItsPage(v)' /\ ChatOK(v)'
  BY <1>0, <1>2, <1>8, <1>9 DEF Served
<1>12. ~crowded => LoneShape
  BY DEF BrowserInv
<1>13. ~crowded' => /\ \A o \in Objects : Runs(browsers'[o]) => o = shared' /\ browsers'[o].pw
                    /\ q.obj = shared' /\ browsers'[q.obj].pw
  BY <1>0, <1>2, <1>4, <1>12 DEF LoneShape
<1>14. made' >= made /\ (~crowded' => ~crowded) /\ alone' \subseteq alone \cup {v}
  BY <1>1
<1> QED BY <1>0, <1>2, <1>3, <1>5, <1>6, <1>7, <1>10, <1>11, <1>13, <1>14, VisitMoves

LEMMA StartSteps ==
    ASSUME BrowserInv, NEW v \in Visitors, StartDriver(v) \/ Launch(v)
    PROVE  BrowserInv'
<1> DEFINE u == visits[v].obj
           d == [browsers[u] EXCEPT !.pw = TRUE, !.driver = TRUE]
           l == [browsers[u] EXCEPT !.browser = TRUE, !.window = TRUE]
<1>1. Busy(v) /\ visits[v].at \in {"starting", "launching"} /\ UNCHANGED <<shared, made, screens, alone, crowded>>
  BY DEF StartDriver, Launch, Busy
<1>2. browsers[u] \in Sessions
  BY <1>1, PageIs DEF BrowserInv, BrowserShape, BrowserTypeOK
<1>3. d \in Sessions /\ d.pw /\ d.driver
  BY <1>2 DEF Sessions
<1>4. l \in Sessions /\ l.window /\ l.pw = browsers[u].pw
  BY <1>2 DEF Sessions
<1>5. CASE StartDriver(v)
  <2>1. Becomes(v, [visits[v] EXCEPT !.at = "launching"]) /\ browsers' = [browsers EXCEPT ![u] = d]
    BY <1>5 DEF StartDriver
  <2> HIDE DEF d, u
  <2> QED BY <1>1, <1>3, <2>1, StartMove DEF u
<1>6. CASE Launch(v)
  <2>1. Becomes(v, [visits[v] EXCEPT !.at = "opening"]) /\ browsers' = [browsers EXCEPT ![u] = l]
        /\ visits[v].at = "launching"
    BY <1>6 DEF Launch
  <2>2. ~crowded => l.pw
    BY <1>4, <2>1 DEF BrowserInv, LoneShape
  <2> HIDE DEF l, u
  <2> QED BY <1>1, <1>4, <2>1, <2>2, StartMove DEF u
<1> QED BY <1>5, <1>6

\* What a page is taken from: nothing, or the shared session, whatever it is by now.
LEMMA TakeMove ==
    ASSUME BrowserInv, NEW v \in Visitors,
           Busy(v) \/ (alone' \cap Others(v) = {} /\ (~crowded' => Others(v) = {})),
           NEW r \in Visits, NEW bs \in [Objects -> Sessions], \A o \in Objects : o > made => bs[o] = Unstarted,
           TakePage(v, r, shared, bs), browsers' = bs, UNCHANGED <<shared, made, screens>>,
           alone' \subseteq alone \cup {v},
           v \in alone' => /\ Others(v) = {} /\ ~r.pageless /\ r.reply \in {v, NoVisitor}
                           /\ shared # 0 /\ bs[shared].page /\ bs[shared].tab /\ ~Mismatch(bs[shared], r.visible),
           ~crowded' => ~crowded,
           ~crowded' => \A o \in Objects : Runs(bs[o]) => o = shared /\ bs[o].pw
    PROVE  BrowserInv'
<1>0. made \in Nat /\ MaxBrowsers \in Nat /\ made <= MaxBrowsers /\ shared = made
  BY BrowserAssumption DEF BrowserInv, BrowserShape, BrowserTypeOK
<1>1. Ended(v) \in Visits /\ Ended(v).at = "idle"
  BY EndedIs DEF BrowserInv, BrowserShape
<1> DEFINE fit == ~Mismatch(bs[shared], r.visible)
           a == [r EXCEPT !.at = "acting", !.obj = shared, !.fits = fit]
           e == [Ended(v) EXCEPT !.pageless = TRUE]
<1>2. fit \in BOOLEAN /\ shared \in 0..MaxBrowsers /\ "acting" \in Stations
  BY <1>0 DEF Mismatch, Stations, AtWork
<1>3. a \in Visits /\ a.at = "acting" /\ a.obj = shared /\ a.fits = fit /\ a.pageless = r.pageless /\ a.reply = r.reply
  <2> HIDE DEF fit
  <2> QED BY <1>2 DEF Visits
<1>4. e \in Visits /\ e.at = "idle" /\ e.pageless
  BY <1>1 DEF Visits
<1>5. \/ shared # 0 /\ bs[shared].page /\ visits' = [visits EXCEPT ![v] = a]
      \/ ~(shared # 0 /\ bs[shared].page) /\ visits' = [visits EXCEPT ![v] = e]
  BY DEF TakePage, Becomes, EndPageless
<1> DEFINE q == IF shared # 0 /\ bs[shared].page THEN a ELSE e
<1>6. visits' = [visits EXCEPT ![v] = q] /\ q \in Visits /\ (q.at # "idle" => q = a /\ shared # 0)
  BY <1>3, <1>4, <1>5
<1>7. v \in alone' => q = a
  OBVIOUS
<1> HIDE DEF q, a, e
<1>8. visits'[v] = q
  BY <1>6 DEF BrowserInv, BrowserShape, BrowserTypeOK
<1>9. BrowserTypeOK'
  <2>1. alone' \subseteq Visitors
    BY DEF BrowserInv, BrowserShape, BrowserTypeOK
  <2> QED BY <1>6, <2>1 DEF BrowserInv, BrowserShape, BrowserTypeOK
<1>10. VisitOK(v)'
  <2>1. q.at # "idle" => q.obj \in 1..made /\ q.at = "acting"
    BY <1>0, <1>3, <1>6
  <2> QED BY <1>8, <2>1 DEF VisitOK, Busy
<1>11. \A o \in Objects : (o > made' => browsers'[o] = Unstarted) /\ ScreenOK(screens'[o])
  BY DEF BrowserInv, BrowserShape
<1>12. v \in alone' => ~q.pageless /\ q.fits /\ q.reply \in {v, NoVisitor}
  BY <1>3, <1>7
<1>13. v \in alone' => Others(v) = {} /\ q.obj = shared' /\ HasItsPage(v)' /\ ChatOK(v)'
  <2> SUFFICES ASSUME v \in alone' PROVE Others(v) = {} /\ q.obj = shared' /\ HasItsPage(v)' /\ ChatOK(v)'
    OBVIOUS
  <2>1. q.at = "acting" /\ q.obj = shared
    BY <1>3, <1>7
  <2>2. HasItsPage(v)'
    BY <1>8, <2>1 DEF HasItsPage
  <2>3. ChatOK(v)'
    BY <1>8, <2>1 DEF ChatOK, ChatIs
  <2> QED BY <2>1, <2>2, <2>3
<1>14. ~crowded' => \A o \in Objects : Runs(browsers'[o]) => o = shared' /\ browsers'[o].pw
  OBVIOUS
<1>15. q.at # "idle" => q.obj = shared' /\ q.at \notin {"launching", "opening"}
  BY <1>3, <1>6
<1>16. made' >= made
  BY <1>0
<1> QED BY <1>6, <1>9, <1>10, <1>11, <1>12, <1>13, <1>14, <1>15, <1>16, VisitMoves

LEMMA OpenPageStep ==
    ASSUME BrowserInv, NEW v \in Visitors, OpenPage(v)
    PROVE  BrowserInv'
<1> DEFINE u == visits[v].obj
           h == WantsHeadless(visits[v].visible)
           b == [browsers[u] EXCEPT !.page = TRUE, !.tab = TRUE, !.headless = h]
           bs == [browsers EXCEPT ![u] = b]
<1>1. /\ visits[v].at = "opening" /\ browsers' = bs /\ TakePage(v, visits[v], shared, bs)
      /\ UNCHANGED <<shared, made, screens, alone, crowded>>
  BY DEF OpenPage
<1>2. Busy(v)
  BY <1>1 DEF Busy
<1>3. u \in Objects /\ u <= made /\ visits[v] \in Visits /\ made \in Nat /\ browsers[u] \in Sessions /\ u # 0
  BY <1>2, PageIs, BrowserAssumption DEF BrowserInv, BrowserShape, BrowserTypeOK, Objects
<1>4. h \in BOOLEAN
  BY BrowserAssumption DEF WantsHeadless
<1>5. b \in Sessions /\ b.page /\ b.tab /\ b.headless = h /\ b.pw = browsers[u].pw /\ (Runs(b) <=> Runs(browsers[u]))
  <2> HIDE DEF h
  <2> QED BY <1>3, <1>4 DEF Sessions, Runs
<1>6. ~Mismatch(b, visits[v].visible)
  BY <1>5 DEF Mismatch
<1> HIDE DEF b
<1>7. /\ bs \in [Objects -> Sessions] /\ bs[u] = b /\ (\A o \in Objects : o # u => bs[o] = browsers[o])
      /\ \A o \in Objects : o > made => bs[o] = Unstarted
  BY <1>3, <1>5 DEF BrowserInv, BrowserShape, BrowserTypeOK, Objects
<1>8. v \in alone => /\ Others(v) = {} /\ ~visits[v].pageless /\ visits[v].reply \in {v, NoVisitor} /\ u = shared
  BY <1>2 DEF BrowserInv, Served
<1>9. ~crowded => \A o \in Objects : Runs(bs[o]) => o = shared /\ bs[o].pw
  BY <1>2, <1>5, <1>7 DEF BrowserInv, LoneShape
<1> HIDE DEF bs, h
<1>10. v \in alone' => /\ Others(v) = {} /\ ~visits[v].pageless /\ visits[v].reply \in {v, NoVisitor}
                        /\ shared # 0 /\ bs[shared].page /\ bs[shared].tab /\ ~Mismatch(bs[shared], visits[v].visible)
  BY <1>1, <1>3, <1>5, <1>6, <1>7, <1>8
<1>11. alone' \subseteq alone \cup {v} /\ (~crowded' => ~crowded)
  BY <1>1
<1> QED BY <1>1, <1>2, <1>3, <1>7, <1>9, <1>10, <1>11, TakeMove

LEMMA CloseStageStep ==
    ASSUME BrowserInv, NEW v \in Visitors, CloseStage(v)
    PROVE  BrowserInv'
<1> DEFINE u == visits[v].obj
           j == visits[v].stage
           b == Stopped(browsers[u], j)
           bs == [browsers EXCEPT ![u] = b]
           k == NextStage(bs[u], j + 1)
<1>1. /\ visits[v].at = "closing" /\ CloseSession(v, visits[v], u, bs, k) /\ Seen(bs)
      /\ UNCHANGED <<alone, crowded>>
  BY DEF CloseStage
<1>2. Busy(v)
  BY <1>1 DEF Busy
<1>3. u \in Objects /\ u <= made /\ visits[v] \in Visits /\ made \in Nat /\ browsers[u] \in Sessions /\ j \in 1..3
  BY <1>1, <1>2, PageIs, BrowserAssumption DEF BrowserInv, BrowserShape, BrowserTypeOK, Objects, VisitOK
<1>4. b \in Sessions /\ b.pw = browsers[u].pw /\ (Runs(b) => Runs(browsers[u])) /\ (j = 3 => ~Runs(b))
  BY <1>3, StoppedIs
<1> HIDE DEF b
<1>5. /\ bs \in [Objects -> Sessions] /\ bs[u] = b /\ (\A o \in Objects : o # u => bs[o] = browsers[o])
      /\ \A o \in Objects : o > made => bs[o] = Unstarted
  BY <1>3, <1>4 DEF BrowserInv, BrowserShape, BrowserTypeOK, Objects
<1>6. k \in 1..4 /\ (k = 4 /\ j # 3 => ~b.pw)
  <2>1. j + 1 \in 1..4 /\ (j # 3 => j + 1 # 4)
    BY <1>3
  <2>2. k \in (j + 1)..4 /\ (k = 4 /\ j + 1 # 4 => ~b.pw)
    BY <1>4, <1>5, <2>1, NextStageIs
  <2> HIDE DEF k
  <2> QED BY <1>3, <2>1, <2>2
<1> HIDE DEF bs
<1>7. screens' \in [Objects -> Screens] /\ \A o \in Objects : ScreenOK(screens'[o])
  BY <1>1, SeenIs
<1>8. v \in alone' => /\ ~visits[v].pageless /\ visits[v].fits /\ visits[v].reply \in {v, NoVisitor}
                       /\ Others(v) = {} /\ u = shared
  BY <1>1, <1>2 DEF BrowserInv, Served
<1>9. ~crowded => LoneShape
  BY DEF BrowserInv
<1>10. ~crowded' => ~crowded /\ u = shared /\ (\A p \in Objects : Runs(bs[p]) => p = u /\ bs[p].pw)
  BY <1>1, <1>2, <1>4, <1>5, <1>9 DEF LoneShape
<1>11. ~crowded' /\ k = 4 => ~Runs(bs[u])
  BY <1>3, <1>4, <1>5, <1>6, <1>10
<1>12. alone' \subseteq alone \cup {v}
  BY <1>1
<1> HIDE DEF k, u
<1> QED BY <1>1, <1>2, <1>3, <1>5, <1>6, <1>7, <1>8, <1>10, <1>11, <1>12, CloseMove

LEMMA AsksStep ==
    ASSUME BrowserInv, NEW v \in Visitors, NEW visible \in {"any", "yes", "no"}, Asks(v, visible)
    PROVE  BrowserInv'
<1> DEFINE r == [NoVisit EXCEPT !.visible = visible]
           k == NextStage(browsers[shared], 1)
<1>1. /\ ~Busy(v) /\ crowded' = (crowded \/ Others(v) # {}) /\ UNCHANGED screens
      /\ alone' = IF Others(v) = {} THEN alone \cup {v} ELSE alone \ ({v} \cup Others(v))
      /\ \/ shared = 0 /\ CreateSession(v, r, browsers)
         \/ /\ shared # 0
            /\ CloseSession(v, r, shared, browsers, k)
         \/ /\ shared # 0 /\ Alive(browsers[shared]) /\ ~Mismatch(browsers[shared], r.visible)
            /\ TakePage(v, r, shared, browsers)
            /\ UNCHANGED <<shared, browsers, made>>
  BY DEF Asks, GetSession
<1>2. r \in Visits /\ ~r.pageless /\ r.fits /\ r.reply \in {v, NoVisitor}
  BY NoVisitIs DEF NoVisit, Visits
<1>3. alone' \cap Others(v) = {} /\ alone' \subseteq alone \cup {v} /\ (v \in alone' => Others(v) = {})
  BY <1>1
<1>4. ~crowded' => ~crowded /\ Others(v) = {} /\ LoneShape
  BY <1>1 DEF BrowserInv
<1>5. /\ browsers \in [Objects -> Sessions] /\ (\A o \in Objects : o > made => browsers[o] = Unstarted)
      /\ screens' \in [Objects -> Screens] /\ (\A o \in Objects : ScreenOK(screens'[o]))
      /\ made \in Nat /\ shared = made /\ made <= MaxBrowsers
  BY <1>1, BrowserAssumption DEF BrowserInv, BrowserShape, BrowserTypeOK
<1>6. ~crowded' => \A p \in Objects : Runs(browsers[p]) => p = shared /\ browsers[p].pw
  BY <1>4 DEF LoneShape
<1> HIDE DEF r
<1>7. CASE shared = 0 /\ CreateSession(v, r, browsers)
  <2>1. ~crowded' => \A p \in Objects : ~Runs(browsers[p])
    BY <1>6, <1>7 DEF Objects
  <2> QED BY <1>2, <1>3, <1>4, <1>5, <1>7, <2>1, CreateMove
<1>8. CASE shared # 0 /\ CloseSession(v, r, shared, browsers, k)
  <2>1. shared \in Objects /\ shared <= made
    BY <1>5, <1>8, BrowserAssumption DEF Objects
  <2>2. k \in 1..4 /\ (k = 4 => ~browsers[shared].pw)
    <3>1. browsers[shared] \in Sessions /\ 1 \in 1..4 /\ 1 # 4
      BY <1>5, <2>1
    <3> QED BY <3>1, NextStageIs
  <2> HIDE DEF k
  <2>3. ~crowded' /\ k = 4 => ~Runs(browsers[shared])
    BY <1>6, <2>1, <2>2
  <2> QED BY <1>2, <1>3, <1>4, <1>5, <1>6, <1>8, <2>1, <2>2, <2>3, CloseMove
<1>9. CASE /\ shared # 0 /\ Alive(browsers[shared]) /\ ~Mismatch(browsers[shared], r.visible)
           /\ TakePage(v, r, shared, browsers) /\ UNCHANGED <<shared, browsers, made>>
  <2>1. browsers[shared].page /\ browsers[shared].tab
    BY <1>9 DEF Alive
  <2> QED BY <1>1, <1>2, <1>3, <1>4, <1>5, <1>6, <1>9, <2>1, TakeMove
<1> QED BY <1>1, <1>7, <1>8, <1>9

-----------------------------------------------------------------------------
LEMMA BrowserStarts == BrowserInit => BrowserInv
<1> SUFFICES ASSUME BrowserInit PROVE BrowserInv
  OBVIOUS
<1>1. Unstarted \in Sessions /\ ~Runs(Unstarted)
  BY DEF Unstarted, Sessions, Runs
<1>2. 0 \in 0..MaxBrowsers
  BY BrowserAssumption
<1>3. BrowserTypeOK
  BY <1>1, <1>2, BlankIs, NoVisitIs DEF BrowserInit, BrowserTypeOK
<1>4. \A v \in Visitors : visits[v].at = "idle"
  BY DEF BrowserInit, NoVisit
<1>5. BrowserShape
  BY <1>3, <1>4, BlankIs DEF BrowserInit, BrowserShape, VisitOK, Busy
<1>6. LoneShape
  BY <1>1, <1>4 DEF BrowserInit, LoneShape, Busy
<1> QED BY <1>5, <1>6 DEF BrowserInit, BrowserInv

LEMMA BrowserStepKeeps == BrowserInv /\ [BrowserNext]_browserVars => BrowserInv'
<1> SUFFICES ASSUME BrowserInv, [BrowserNext]_browserVars PROVE BrowserInv'
  OBVIOUS
<1>1. ASSUME NEW v \in Visitors,
             \/ BrowserNavigate(v) \/ BrowserScreenshot(v) \/ BrowserExtractText(v) \/ BrowserClick(v)
             \/ BrowserFill(v) \/ BrowserPress(v) \/ ChatSendMessage(v)
      PROVE  BrowserInv'
  <2>1. PICK visible \in {"any", "yes", "no"} : Asks(v, visible)
    BY <1>1 DEF BrowserNavigate, BrowserScreenshot, BrowserExtractText, BrowserClick, BrowserFill, BrowserPress,
                ChatSendMessage
  <2> QED BY <2>1, AsksStep
<1>2. CASE UNCHANGED browserVars
  BY <1>2 DEF browserVars, BrowserInv, BrowserShape, BrowserTypeOK, VisitOK, LoneShape, Served, Busy, Others,
              HasItsPage, ChatOK
<1> QED BY <1>1, <1>2, CloseStageStep, StartSteps, OpenPageStep, StartFailsStep, CancelVisitStep, LocalSteps,
           VisitFailsStep, ChatSteps, TakeReplyStep, LosePageStep, PageSteps DEF BrowserNext

LEMMA BrowserInvAlways == BrowserSpec => []BrowserInv
BY BrowserStarts, BrowserStepKeeps, PTL DEF BrowserSpec

\* Until two calls overlap nothing runs but the browser of the shared session, for any number of
\* sessions, failing starts, lost pages and cancelled calls (get_browser_session, close).
THEOREM BrowserStaysAlone == BrowserSpec => []LoneBrowser
<1>1. BrowserInv => LoneBrowser
  BY DEF BrowserInv, LoneShape, LoneBrowser, Runs
<1> QED BY <1>1, BrowserInvAlways, PTL

\* A call on its own gets a page of the visibility it asked for, whatever calls have left before it.
THEOREM QuietCallsAreAlwaysServed == BrowserSpec => []QuietCallsAreServed
<1>1. BrowserInv => QuietCallsAreServed
  BY DEF BrowserInv, Served, QuietCallsAreServed
<1> QED BY <1>1, BrowserInvAlways, PTL

\* The answer a chat call on its own reports was given to its message, however many callers have
\* stopped waiting before it, and however long the history of the page is.
THEOREM ReplyIsAlwaysTheAnswer == BrowserSpec => []ReplyIsTheAnswer
<1>1. BrowserInv => ReplyIsTheAnswer
  BY DEF BrowserInv, Served, ReplyIsTheAnswer
<1> QED BY <1>1, BrowserInvAlways, PTL

-----------------------------------------------------------------------------
(* ComputerActions: a success that is reported could be seen.              *)

Looking == {"observe_tab", "observe_desktop", "choose", "retry"}
Verifying == {"verify_url", "verify_text", "verify_front", "judge"}
Attempts == [surface : Surfaces, ok : BOOLEAN, verdict : {"none", "pass", "partial_pass", "fail"}]

ComputerTypeOK ==
    /\ request.expects \subseteq Expectations
    /\ attempts \in Seq(Attempts)
    /\ acted \in [Surfaces -> Nat]
    /\ at \in Looking \cup Verifying \cup {"done"}

\* A surface is acted on when it is tried, and only then.
ActedOnce == \A s \in Surfaces : acted[s] <= 1 /\ (s \notin Tried => acted[s] = 0)

\* An attempt after which there is no other.
Good(a, expects) == a.ok /\ a.verdict = (IF expects = {} THEN "none" ELSE "pass")

GoodIsLast ==
    \A i \in DOMAIN attempts : Good(attempts[i], request.expects) => at = "done" /\ i = Len(attempts)

\* An attempt that succeeded has been judged before another is made, where something was expected.
JudgedBefore ==
    at \in Looking /\ request.expects # {} /\ Succeeded => attempts[Len(attempts)].verdict # "none"

\* Only what there is to verify is verified.
VerifyingIsTried == at \in Verifying => attempts # << >> /\ request.expects # {}

\* What holds now, and what a check has seen, has held since the last action.
SeenIsHeld ==
    /\ reads \ {"absent"} \subseteq held
    /\ attempts # << >> => Holding(Surface, facts) \subseteq held

\* What is reported at the end.
EndIsSeen == at = "done" /\ ReportedSuccess => request.expects \ {"absent"} \subseteq held

ComputerInv ==
    /\ ComputerTypeOK /\ ActedOnce /\ GoodIsLast /\ JudgedBefore /\ VerifyingIsTried /\ SeenIsHeld /\ EndIsSeen

LEMMA ComputerStarts == ComputerInit => ComputerInv
<1> SUFFICES ASSUME ComputerInit PROVE ComputerInv
  OBVIOUS
<1>1. attempts = << >> /\ reads = {} /\ at = "observe_tab" /\ request \in Requests /\ acted = [s \in Surfaces |-> 0]
  BY DEF ComputerInit
<1>2. ComputerTypeOK
  BY <1>1, RequestsAssumption DEF ComputerTypeOK, Looking
<1>3. ActedOnce
  BY <1>1 DEF ActedOnce
<1> QED BY <1>1, <1>2, <1>3 DEF ComputerInv, GoodIsLast, JudgedBefore, VerifyingIsTried, SeenIsHeld, EndIsSeen,
                               Succeeded, Verifying

\* A look that is no end: nothing is tried, and what was true stays.
LEMMA LookMove ==
    ASSUME ComputerInv, UNCHANGED <<request, facts, attempts, acted>>, held \subseteq held',
           reads' \ {"absent"} \subseteq held',
           at # "done", at' \in Looking \cup Verifying, at \in Looking <=> at' \in Looking
    PROVE  ComputerInv'
<1>1. ComputerTypeOK' /\ ActedOnce'
  BY DEF ComputerInv, ComputerTypeOK, ActedOnce, Tried
<1>2. GoodIsLast'
  BY DEF ComputerInv, GoodIsLast, Good
<1>3. JudgedBefore'
  BY DEF ComputerInv, JudgedBefore, Succeeded
<1>4. VerifyingIsTried'
  BY DEF ComputerInv, ComputerTypeOK, VerifyingIsTried, Looking, Verifying
<1>5. SeenIsHeld'
  BY DEF ComputerInv, SeenIsHeld, Holding, Surface
<1>6. EndIsSeen'
  BY DEF EndIsSeen, Looking, Verifying
<1> QED BY <1>1, <1>2, <1>3, <1>4, <1>5, <1>6 DEF ComputerInv

\* What a check reads there has held.
LEMMA ReadsAreHeld ==
    ASSUME ComputerInv, at \in Verifying, NEW S \in SUBSET Expectations, Reads(S)
    PROVE  reads' \ {"absent"} \subseteq held
<1>1. attempts # << >> /\ reads \ {"absent"} \subseteq held /\ Holding(Surface, facts) \subseteq held
  BY DEF ComputerInv, VerifyingIsTried, SeenIsHeld
<1>2. ASSUME NEW e \in S \cap request.expects, Passes(e), e # "absent" PROVE e \in held
  <2>1. e \in Holding(Surface, facts)
    BY <1>2 DEF Passes, Holding
  <2> QED BY <1>1, <2>1
<1> QED BY <1>1, <1>2 DEF Reads

LEMMA FirstIsCandidate == Candidates # {} => FirstOf(Candidates) \in Candidates /\ FirstOf(Candidates) \in Surfaces \ Tried
BY DEF FirstOf, Candidates, Surfaces

\* The bounds of a list that is not empty.
LEMMA LastIs ==
    ASSUME NEW S, NEW seq \in Seq(S), seq # << >>
    PROVE  /\ Len(seq) \in Nat /\ DOMAIN seq = 1..Len(seq)
           /\ Len(seq) \in 1..Len(seq) /\ Len(seq) \in DOMAIN seq /\ seq[Len(seq)] \in S
<1>1. DOMAIN seq = 1..Len(seq) /\ Len(seq) \in Nat /\ Len(seq) # 0
  OBVIOUS
<1>2. Len(seq) \in 1..Len(seq)
  BY <1>1
<1> QED BY <1>1, <1>2, ElementOfSeq

LEMMA ActOnStep ==
    ASSUME ComputerInv, NEW ok \in BOOLEAN, NEW new \in SUBSET Facts, ActOn(ok, new)
    PROVE  ComputerInv'
<1> DEFINE s == FirstOf(Candidates)
           a == [surface |-> s, ok |-> ok, verdict |-> "none"]
           n == Len(attempts) + 1
<1>1. s \in Surfaces /\ s \notin Tried
  BY FirstIsCandidate DEF ActOn
<1>2. /\ at = "choose" /\ attempts' = Append(attempts, a) /\ request' = request /\ reads' = {}
      /\ held' = Holding(s, facts') /\ at' = AfterAct(ok)
      /\ acted' = [acted EXCEPT ![s] = IF s \in up THEN @ + 1 ELSE @]
  BY DEF ActOn, NoReads
<1>3. a \in Attempts /\ a.surface = s /\ a.ok = ok /\ a.verdict = "none"
  BY <1>1 DEF Attempts
<1> HIDE DEF s, a
<1>4. attempts \in Seq(Attempts)
  BY DEF ComputerInv, ComputerTypeOK
<1>5. /\ attempts' \in Seq(Attempts) /\ attempts' # << >> /\ Len(attempts') = n /\ n \in Nat
      /\ DOMAIN attempts' = (DOMAIN attempts) \cup {n} /\ attempts'[n] = a
      /\ \A i \in DOMAIN attempts : attempts'[i] = attempts[i] /\ i < n /\ i \in Nat
  BY <1>2, <1>3, <1>4, OneMore
<1> HIDE DEF n
<1>6. /\ at' = "retry" \/ at' = "done" \/ at' = "verify_url"
      /\ ~ok => at' = "retry"
      /\ ok /\ request.expects = {} => at' = "done"
      /\ at' = "done" => ok /\ request.expects = {}
      /\ at' = "verify_url" => request.expects # {}
      /\ at' = "retry" => ~ok
  BY <1>2 DEF AfterAct
<1>7. ComputerTypeOK'
  <2>1. acted' \in [Surfaces -> Nat]
    BY <1>1, <1>2 DEF ComputerInv, ComputerTypeOK
  <2> QED BY <1>2, <1>5, <1>6, <2>1 DEF ComputerInv, ComputerTypeOK, Looking, Verifying
<1>8. ActedOnce'
  <2>1. Tried' = Tried \cup {s}
    BY <1>3, <1>5 DEF Tried
  <2>2. acted[s] = 0
    BY <1>1 DEF ComputerInv, ActedOnce
  <2> QED BY <1>1, <1>2, <2>1, <2>2 DEF ComputerInv, ComputerTypeOK, ActedOnce
<1>9. GoodIsLast'
  <2>1. \A i \in DOMAIN attempts : ~Good(attempts[i], request.expects)
    BY <1>2 DEF ComputerInv, GoodIsLast
  <2>2. \A i \in DOMAIN attempts : ~Good(attempts'[i], request'.expects)
    BY <1>2, <1>5, <2>1 DEF Good
  <2>3. Good(attempts'[n], request'.expects) => at' = "done"
    BY <1>2, <1>3, <1>5, <1>6 DEF Good
  <2> QED BY <1>5, <2>2, <2>3 DEF GoodIsLast
<1>10. JudgedBefore' /\ VerifyingIsTried'
  BY <1>2, <1>3, <1>5, <1>6 DEF JudgedBefore, VerifyingIsTried, Succeeded, Looking, Verifying
<1>11. SeenIsHeld'
  <2>1. Surface' = s
    BY <1>3, <1>5 DEF Surface
  <2>2. Holding(Surface, facts)' = held'
    BY <1>2, <2>1 DEF Holding
  <2> QED BY <1>2, <2>2 DEF SeenIsHeld
<1>12. EndIsSeen'
  BY <1>2, <1>6 DEF EndIsSeen
<1> QED BY <1>7, <1>8, <1>9, <1>10, <1>11, <1>12 DEF ComputerInv

\* The last attempt gets a verdict.
LEMMA LastIsJudged ==
    ASSUME NEW tries \in Seq(Attempts), tries # << >>, NEW w \in {"pass", "partial_pass", "fail"},
           NEW bs, bs = [tries EXCEPT ![Len(tries)].verdict = w]
    PROVE  /\ bs \in Seq(Attempts) /\ Len(bs) = Len(tries) /\ DOMAIN bs = DOMAIN tries /\ Len(tries) \in DOMAIN tries
           /\ \A i \in DOMAIN tries : /\ bs[i].surface = tries[i].surface /\ bs[i].ok = tries[i].ok
                                   /\ i # Len(tries) => bs[i] = tries[i]
           /\ bs[Len(tries)].verdict = w
<1> DEFINE n == Len(tries)
           a == [tries[n] EXCEPT !.verdict = w]
<1>1. n \in Nat /\ DOMAIN tries = 1..n /\ n \in 1..n /\ n \in DOMAIN tries /\ tries[n] \in Attempts
  BY LastIs
<1>4. a \in Attempts /\ a.surface = tries[n].surface /\ a.ok = tries[n].ok /\ a.verdict = w
  BY <1>1 DEF Attempts
<1>5. bs = [tries EXCEPT ![n] = a]
  OBVIOUS
<1> HIDE DEF a
<1>6. /\ bs \in Seq(Attempts) /\ Len(bs) = Len(tries)
      /\ \A i \in 1..Len(tries) : bs[i] = IF i = n THEN a ELSE tries[i]
  BY <1>1, <1>4, <1>5, ExceptSeq
<1>7. DOMAIN bs = DOMAIN tries
  BY <1>5
<1> HIDE DEF n
<1>8. \A i \in DOMAIN tries : bs[i].surface = tries[i].surface /\ bs[i].ok = tries[i].ok /\ (i # n => bs[i] = tries[i])
  BY <1>1, <1>4, <1>6
<1>9. bs[n].verdict = w
  BY <1>1, <1>4, <1>6
<1> QED BY <1>1, <1>6, <1>7, <1>8, <1>9 DEF n

LEMMA JudgeStep ==
    ASSUME ComputerInv, Judge
    PROVE  ComputerInv'
<1> DEFINE w == VerificationStatus
           n == Len(attempts)
<1>1. /\ at = "judge" /\ attempts' = [attempts EXCEPT ![n].verdict = w]
      /\ at' = IF w = "pass" THEN "done" ELSE "retry"
      /\ UNCHANGED <<request, facts, reads, acted, held>>
  BY DEF Judge
<1>2. w \in {"pass", "partial_pass", "fail"} /\ (w = "pass" => reads = request.expects)
  BY DEF VerificationStatus
<1>3. attempts \in Seq(Attempts) /\ attempts # << >> /\ request.expects # {}
  BY <1>1 DEF ComputerInv, ComputerTypeOK, VerifyingIsTried, Verifying
<1> HIDE DEF w
<1>4. /\ attempts' \in Seq(Attempts) /\ Len(attempts') = n /\ DOMAIN attempts' = DOMAIN attempts /\ n \in DOMAIN attempts
      /\ \A i \in DOMAIN attempts : /\ attempts'[i].surface = attempts[i].surface /\ attempts'[i].ok = attempts[i].ok
                                    /\ i # n => attempts'[i] = attempts[i]
      /\ attempts'[n].verdict = w
  <2> DEFINE bs == attempts'
  <2>1. bs = [attempts EXCEPT ![Len(attempts)].verdict = w]
    BY <1>1
  <2> HIDE DEF bs, n
  <2>2. /\ bs \in Seq(Attempts) /\ Len(bs) = Len(attempts) /\ DOMAIN bs = DOMAIN attempts
        /\ Len(attempts) \in DOMAIN attempts
        /\ \A i \in DOMAIN attempts : /\ bs[i].surface = attempts[i].surface /\ bs[i].ok = attempts[i].ok
                                      /\ i # Len(attempts) => bs[i] = attempts[i]
        /\ bs[Len(attempts)].verdict = w
    BY <1>2, <1>3, <2>1, LastIsJudged
  <2> QED BY <2>2 DEF bs, n
<1>5. attempts' # << >>
  BY <1>4
<1> HIDE DEF n
<1>6. ComputerTypeOK'
  BY <1>1, <1>4 DEF ComputerInv, ComputerTypeOK, Looking
<1>7. ActedOnce'
  <2>1. Tried' = Tried
    BY <1>4 DEF Tried
  <2> QED BY <1>1, <2>1 DEF ComputerInv, ActedOnce
<1>8. GoodIsLast'
  <2>1. \A i \in DOMAIN attempts : ~Good(attempts[i], request.expects)
    BY <1>1 DEF ComputerInv, GoodIsLast
  <2>2. \A i \in DOMAIN attempts : i # n => ~Good(attempts'[i], request'.expects)
    BY <1>1, <1>4, <2>1 DEF Good
  <2>3. Good(attempts'[n], request'.expects) => at' = "done"
    BY <1>1, <1>2, <1>3, <1>4 DEF Good
  <2> QED BY <1>4, <2>2, <2>3 DEF GoodIsLast
<1>9. JudgedBefore' /\ VerifyingIsTried'
  BY <1>1, <1>2, <1>4 DEF JudgedBefore, VerifyingIsTried, Succeeded, Verifying
<1>10. SeenIsHeld'
  <2>1. Surface' = Surface
    BY <1>4 DEF Surface, n
  <2> QED BY <1>1, <1>3, <2>1 DEF ComputerInv, SeenIsHeld, Holding
<1>11. EndIsSeen'
  BY <1>1, <1>2 DEF ComputerInv, SeenIsHeld, EndIsSeen
<1> QED BY <1>6, <1>7, <1>8, <1>9, <1>10, <1>11 DEF ComputerInv

\* The verdict reported is that of the last attempt, when it has one.
LEMMA LastVerdictCounts ==
    ASSUME attempts \in Seq(Attempts), attempts # << >>, attempts[Len(attempts)].verdict # "none"
    PROVE  FinalVerdict = attempts[Len(attempts)].verdict
<1> DEFINE n == Len(attempts)
           V == {i \in DOMAIN attempts : attempts[i].verdict # "none"}
<1>1. n \in V /\ \A j \in V : j <= n /\ j \in Nat /\ n \in Nat
  OBVIOUS
<1> DEFINE m == CHOOSE i \in V : \A j \in V : j <= i
<1>2. m \in V /\ \A j \in V : j <= m
  <2>1. \E i \in V : \A j \in V : j <= i
    BY <1>1
  <2> QED BY <2>1
<1>3. m = n
  <2> HIDE DEF V, m, n
  <2> QED BY <1>1, <1>2
<1>4. FinalVerdict = attempts[m].verdict
  BY <1>1 DEF FinalVerdict
<1> HIDE DEF m
<1> QED BY <1>3, <1>4

LEMMA GiveUpStep ==
    ASSUME ComputerInv, GiveUp
    PROVE  ComputerInv'
<1>1. at = "choose" /\ at' = "done" /\ UNCHANGED <<request, facts, attempts, reads, acted, held>>
  BY DEF GiveUp
<1>2. ComputerTypeOK' /\ ActedOnce'
  BY <1>1 DEF ComputerInv, ComputerTypeOK, ActedOnce, Tried
<1>3. GoodIsLast'
  BY <1>1 DEF ComputerInv, GoodIsLast, Good
<1>4. JudgedBefore' /\ VerifyingIsTried'
  BY <1>1 DEF JudgedBefore, VerifyingIsTried, Looking, Verifying
<1>5. SeenIsHeld'
  BY <1>1 DEF ComputerInv, SeenIsHeld, Holding, Surface
<1>6. EndIsSeen'
  <2>1. ASSUME ReportedSuccess, request.expects # {} PROVE FALSE
    <3>1. attempts # << >> /\ attempts[Len(attempts)].ok /\ FinalVerdict \in {"none", "pass"}
      BY <2>1 DEF ReportedSuccess, Succeeded
    <3>2. attempts[Len(attempts)].verdict # "none"
      BY <1>1, <2>1 DEF ComputerInv, JudgedBefore, ReportedSuccess, Looking
    <3>3. attempts \in Seq(Attempts)
      BY DEF ComputerInv, ComputerTypeOK
    <3>4. attempts[Len(attempts)].verdict = "pass"
      BY <3>1, <3>2, <3>3, LastVerdictCounts
    <3>5. Len(attempts) \in DOMAIN attempts
      BY <3>1, <3>3
    <3> QED BY <1>1, <2>1, <3>1, <3>4, <3>5 DEF ComputerInv, GoodIsLast, Good
  <2>2. ReportedSuccess' <=> ReportedSuccess
    BY <1>1 DEF ReportedSuccess, Succeeded, FinalVerdict
  <2> QED BY <1>1, <2>1, <2>2 DEF EndIsSeen
<1> QED BY <1>2, <1>3, <1>4, <1>5, <1>6 DEF ComputerInv

LEMMA PageChangesStep ==
    ASSUME ComputerInv, NEW f \in Facts, PageChanges(f)
    PROVE  ComputerInv'
<1>1. /\ at # "done" /\ UNCHANGED <<request, attempts, reads, at, acted>>
      /\ held' = IF attempts = << >> THEN held ELSE held \cup Holding(Surface, facts')
  BY DEF PageChanges
<1>2. ComputerTypeOK' /\ ActedOnce'
  BY <1>1 DEF ComputerInv, ComputerTypeOK, ActedOnce, Tried
<1>3. GoodIsLast' /\ JudgedBefore' /\ VerifyingIsTried'
  BY <1>1 DEF ComputerInv, GoodIsLast, Good, JudgedBefore, VerifyingIsTried, Succeeded
<1>4. SeenIsHeld'
  <2>1. Holding(Surface, facts)' = Holding(Surface, facts')
    BY <1>1 DEF Holding, Surface
  <2> QED BY <1>1, <2>1 DEF ComputerInv, SeenIsHeld
<1>5. EndIsSeen'
  BY <1>1 DEF EndIsSeen
<1> QED BY <1>2, <1>3, <1>4, <1>5 DEF ComputerInv

LEMMA ComputerStepKeeps == ComputerInv /\ [ComputerNext]_computerVars => ComputerInv'
<1> SUFFICES ASSUME ComputerInv, [ComputerNext]_computerVars PROVE ComputerInv'
  OBVIOUS
<1>0. reads \ {"absent"} \subseteq held
  BY DEF ComputerInv, SeenIsHeld
<1>1. CASE ObserveTab \/ ObserveDesktop \/ TryAgain
  BY <1>0, <1>1, LookMove DEF ObserveTab, ObserveDesktop, TryAgain, Looking, Verifying
<1>2. CASE VerifyUrl
  <2>1. reads' \ {"absent"} \subseteq held
    BY <1>2, ReadsAreHeld DEF VerifyUrl, Verifying, Expectations
  <2> QED BY <1>2, <2>1, LookMove DEF VerifyUrl, Looking, Verifying
<1>3. CASE VerifyText
  <2>1. reads' \ {"absent"} \subseteq held
    BY <1>3, ReadsAreHeld DEF VerifyText, Verifying, Expectations
  <2> QED BY <1>3, <2>1, LookMove DEF VerifyText, Looking, Verifying
<1>4. CASE VerifyFront
  <2>1. reads' \ {"absent"} \subseteq held
    BY <1>4, ReadsAreHeld DEF VerifyFront, Verifying, Expectations
  <2> QED BY <1>4, <2>1, LookMove DEF VerifyFront, Looking, Verifying
<1>5. ASSUME NEW s \in Surfaces, SurfaceFlips(s) PROVE ComputerInv'
  <2>1. at \in Looking \cup Verifying
    BY <1>5 DEF SurfaceFlips, ComputerInv, ComputerTypeOK
  <2> QED BY <1>0, <1>5, <2>1, LookMove DEF SurfaceFlips
<1>6. CASE UNCHANGED computerVars
  BY <1>6 DEF computerVars, ComputerInv, ComputerTypeOK, ActedOnce, Tried, GoodIsLast, Good, JudgedBefore, Succeeded,
              VerifyingIsTried, SeenIsHeld, Holding, Surface, EndIsSeen, ReportedSuccess, FinalVerdict
<1> QED BY <1>1, <1>2, <1>3, <1>4, <1>5, <1>6, GiveUpStep, ActOnStep, JudgeStep, PageChangesStep DEF ComputerNext

\* A success that computer_click and computer_fill report could be seen, no surface is acted on twice and
\* none after a verified success: for every request, however surfaces and pages change.
THEOREM SuccessIsAlwaysSeen == ComputerSpec => []SuccessIsSeen
<1>1. ComputerInv => SuccessIsSeen
  <2> SUFFICES ASSUME ComputerInv PROVE SuccessIsSeen
    OBVIOUS
  <2>1. at = "done" /\ TrajectoryStatus # "failed" => request.expects \ {"absent"} \subseteq held
    BY DEF ComputerInv, EndIsSeen, TrajectoryStatus
  <2>2. \A s \in Surfaces : acted[s] <= 1
    BY DEF ComputerInv, ActedOnce
  <2>3. \A i \in DOMAIN attempts : Good(attempts[i], request.expects) => i = Len(attempts)
    BY DEF ComputerInv, GoodIsLast
  <2> QED BY <2>1, <2>2, <2>3 DEF SuccessIsSeen, Good
<1> QED BY <1>1, ComputerStarts, ComputerStepKeeps, PTL DEF ComputerSpec

-----------------------------------------------------------------------------
(* DesktopStop: a run that an abort has stopped stays quiet.               *)

Waits == {"approving", "starting"}

\* A run is a pair of a session and a number.
StopTypeOK ==
    /\ bridged \in BOOLEAN /\ stopped \in BOOLEAN
    /\ handler \in [Users -> {"idle", "lifting", "stopping"}]
    /\ current \in [Users -> [number : Nat, alive : BOOLEAN]]
    /\ DOMAIN action = Controls
    /\ \A a \in Controls :
          /\ action[a] = [at |-> action[a].at, run |-> action[a].run]
          /\ action[a].at \in Waits \cup {"none", "denied", "cancelled", "flying", "blocked", "executed", "failed"}

\* While its handler works on the stop of a session, the session has no run that is alive.
HandledIsDead == \A s \in Users : handler[s] # "idle" => ~current[s].alive

\* What waits in the gateway waits for the run of a session that is alive.
WaiterIsAlive(a) ==
    action[a].at \in Waits => \E s \in Users : action[a].run = RunOf(s) /\ current[s].alive

\* The flag stays up as long as there is a run it was put up for.
QuietIsStopped == quiet # {} => stopped

StopInv ==
    /\ StopTypeOK /\ HandledIsDead /\ QuietIsStopped /\ late = {}
    /\ \A a \in Controls : WaiterIsAlive(a)

LEMMA StopStarts == StopInit => StopInv
<1> SUFFICES ASSUME StopInit PROVE StopInv
  OBVIOUS
<1>1. \A a \in Controls : action[a] = [at |-> "none", run |-> NoRun]
  BY DEF StopInit
<1>2. DOMAIN action = Controls
  BY DEF StopInit
<1>3. StopTypeOK
  BY <1>1, <1>2 DEF StopInit, StopTypeOK
<1>4. \A a \in Controls : WaiterIsAlive(a)
  BY <1>1 DEF WaiterIsAlive, Waits
<1> QED BY <1>3, <1>4 DEF StopInit, StopInv, HandledIsDead, QuietIsStopped

\* The calls of a run that is cancelled wait no longer, and nothing else becomes of any call.
LEMMA CancelledCalls ==
    ASSUME StopInv, NEW s \in Users, action' = Cancelled(s)
    PROVE  /\ DOMAIN action' = Controls
           /\ \A a \in Controls :
                 \/ action'[a] = action[a] /\ ~(action[a].run = RunOf(s) /\ action[a].at \in Waits)
                 \/ /\ action'[a].at = "cancelled" /\ action'[a].run = action[a].run
                    /\ action'[a] = [at |-> action'[a].at, run |-> action'[a].run]
BY DEF StopInv, StopTypeOK, Cancelled, Waits

\* A session whose run is cancelled and its calls with it.
LEMMA SessionIsCleared ==
    ASSUME StopInv, NEW s \in Users, NEW h \in {"lifting", "stopping"},
           handler' = [handler EXCEPT ![s] = h],
           current' = [current EXCEPT ![s].alive = FALSE],
           action' = Cancelled(s),
           UNCHANGED <<bridged, stopped, quiet, late>>
    PROVE  StopInv'
<1>1. /\ DOMAIN action' = Controls
      /\ \A a \in Controls :
            \/ action'[a] = action[a] /\ ~(action[a].run = RunOf(s) /\ action[a].at \in Waits)
            \/ /\ action'[a].at = "cancelled" /\ action'[a].run = action[a].run
               /\ action'[a] = [at |-> action'[a].at, run |-> action'[a].run]
  BY CancelledCalls
<1>2. /\ current' \in [Users -> [number : Nat, alive : BOOLEAN]]
      /\ ~current'[s].alive
      /\ \A t \in Users : t # s => current'[t] = current[t]
      /\ \A t \in Users : RunOf(t)' = RunOf(t)
  BY DEF StopInv, StopTypeOK, RunOf
<1>3. StopTypeOK'
  BY <1>1, <1>2 DEF StopInv, StopTypeOK, Waits
<1>4. HandledIsDead'
  BY <1>2 DEF StopInv, StopTypeOK, HandledIsDead
<1>5. ASSUME NEW a \in Controls PROVE WaiterIsAlive(a)'
  <2>1. CASE action'[a].at = "cancelled"
    BY <2>1 DEF WaiterIsAlive, Waits
  <2>2. CASE action'[a] = action[a] /\ ~(action[a].run = RunOf(s) /\ action[a].at \in Waits)
    BY <2>2, <1>2 DEF WaiterIsAlive, StopInv
  <2> QED BY <2>1, <2>2, <1>1
<1> QED BY <1>3, <1>4, <1>5 DEF StopInv, QuietIsStopped

\* A call that moves on; it may wait only if it did before.
LEMMA CallMoves ==
    ASSUME StopInv, NEW a \in Controls, NEW st \in {"starting", "denied", "flying", "blocked", "executed", "failed"},
           st = "starting" => action[a].at \in Waits,
           action' = [action EXCEPT ![a].at = st],
           late' = {},
           UNCHANGED <<bridged, stopped, handler, current, quiet>>
    PROVE  StopInv'
<1>1. /\ DOMAIN action' = Controls
      /\ action'[a].at = st /\ action'[a].run = action[a].run
      /\ action'[a] = [at |-> action'[a].at, run |-> action'[a].run]
      /\ \A b \in Controls : b # a => action'[b] = action[b]
  BY DEF StopInv, StopTypeOK
<1>2. \A s \in Users : RunOf(s)' = RunOf(s)
  BY DEF RunOf
<1>3. StopTypeOK'
  BY <1>1 DEF StopInv, StopTypeOK, Waits
<1>4. ASSUME NEW b \in Controls PROVE WaiterIsAlive(b)'
  <2>1. CASE b = a
    <3>1. action'[a].at \in Waits => action[a].at \in Waits
      BY <1>1 DEF Waits
    <3> SUFFICES ASSUME action'[b].at \in Waits
                 PROVE  \E s \in Users : action'[b].run = RunOf(s)' /\ current'[s].alive
      BY DEF WaiterIsAlive
    <3>2. action[a].at \in Waits
      BY <2>1, <3>1
    <3>3. PICK s \in Users : action[a].run = RunOf(s) /\ current[s].alive
      BY <3>2 DEF StopInv, WaiterIsAlive
    <3> QED BY <2>1, <1>1, <1>2, <3>3
  <2>2. CASE b # a
    BY <2>2, <1>1, <1>2 DEF WaiterIsAlive, StopInv
  <2> QED BY <2>1, <2>2
<1> QED BY <1>3, <1>4 DEF StopInv, QuietIsStopped, HandledIsDead

LEMMA StopStepKeeps == StopInv /\ [StopNext]_stopVars => StopInv'
<1> SUFFICES ASSUME StopInv, [StopNext]_stopVars PROVE StopInv'
  OBVIOUS
<1>1. ASSUME NEW s \in Users, StartRun(s) PROVE StopInv'
  BY <1>1, SessionIsCleared DEF StartRun
<1>2. ASSUME NEW s \in Users, AbortRun(s) PROVE StopInv'
  BY <1>2, SessionIsCleared DEF AbortRun
<1>3. ASSUME NEW s \in Users, NEW b \in BOOLEAN, RunStarts(s, b) PROVE StopInv'
  <2>1. /\ current' \in [Users -> [number : Nat, alive : BOOLEAN]]
        /\ current'[s].alive
        /\ \A t \in Users : t # s => current'[t] = current[t] /\ RunOf(t)' = RunOf(t)
    BY <1>3 DEF RunStarts, StopInv, StopTypeOK, RunOf
  <2>2. StopTypeOK'
    BY <1>3, <2>1 DEF RunStarts, StopInv, StopTypeOK
  <2>3. HandledIsDead'
    BY <1>3, <2>1 DEF RunStarts, StopInv, StopTypeOK, HandledIsDead
  <2>4. ~current[s].alive
    BY <1>3 DEF RunStarts, StopInv, HandledIsDead
  <2>5. ASSUME NEW a \in Controls PROVE WaiterIsAlive(a)'
    BY <1>3, <2>1, <2>4 DEF RunStarts, StopInv, WaiterIsAlive
  <2>6. QuietIsStopped' /\ late' = {}
    BY <1>3 DEF RunStarts, StopInv, QuietIsStopped
  <2> QED BY <2>2, <2>3, <2>5, <2>6 DEF StopInv
<1>4. ASSUME NEW s \in Users, NEW b \in BOOLEAN, StopEnds(s, b) PROVE StopInv'
  <2>1. StopTypeOK'
    BY <1>4 DEF StopEnds, StopInv, StopTypeOK
  <2>2. HandledIsDead'
    BY <1>4 DEF StopEnds, StopInv, StopTypeOK, HandledIsDead
  <2>3. \A a \in Controls : WaiterIsAlive(a)'
    BY <1>4 DEF StopEnds, StopInv, WaiterIsAlive, RunOf
  <2>4. QuietIsStopped' /\ late' = {}
    BY <1>4 DEF StopEnds, StopInv, QuietIsStopped
  <2> QED BY <2>1, <2>2, <2>3, <2>4 DEF StopInv
<1>5. ASSUME NEW s \in Users, RunEnds(s) PROVE StopInv'
  <2>1. /\ current' \in [Users -> [number : Nat, alive : BOOLEAN]]
        /\ ~current'[s].alive
        /\ \A t \in Users : t # s => current'[t] = current[t]
        /\ \A t \in Users : RunOf(t)' = RunOf(t)
    BY <1>5 DEF RunEnds, StopInv, StopTypeOK, RunOf
  <2>2. StopTypeOK' /\ HandledIsDead'
    BY <1>5, <2>1 DEF RunEnds, StopInv, StopTypeOK, HandledIsDead
  <2>3. ASSUME NEW a \in Controls PROVE WaiterIsAlive(a)'
    <3>1. action'[a].at \in Waits => action[a].run # RunOf(s)
      BY <1>5 DEF RunEnds, Waits
    <3> QED BY <1>5, <2>1, <3>1 DEF RunEnds, StopInv, WaiterIsAlive
  <2>4. QuietIsStopped' /\ late' = {}
    BY <1>5 DEF RunEnds, StopInv, QuietIsStopped
  <2> QED BY <2>2, <2>3, <2>4 DEF StopInv
<1>6. ASSUME NEW a \in Controls, NEW s \in Users, AskFor(a, s) PROVE StopInv'
  <2>1. /\ DOMAIN action' = Controls
        /\ action'[a] = [at |-> "approving", run |-> RunOf(s)]
        /\ \A b \in Controls : b # a => action'[b] = action[b]
    BY <1>6 DEF AskFor, StopInv, StopTypeOK
  <2>2. \A t \in Users : RunOf(t)' = RunOf(t)
    BY <1>6 DEF AskFor, RunOf
  <2>3. StopTypeOK'
    BY <1>6, <2>1 DEF AskFor, StopInv, StopTypeOK, Waits
  <2>4. ASSUME NEW b \in Controls PROVE WaiterIsAlive(b)'
    BY <1>6, <2>1, <2>2 DEF AskFor, StopInv, WaiterIsAlive
  <2> QED BY <1>6, <2>3, <2>4 DEF AskFor, StopInv, QuietIsStopped, HandledIsDead
<1>7. ASSUME NEW a \in Controls, NEW b \in BOOLEAN, Approve(a, b) PROVE StopInv'
  BY <1>7, CallMoves DEF Approve, StopInv, Waits
<1>8. ASSUME NEW a \in Controls, Send(a) PROVE StopInv'
  BY <1>8, CallMoves DEF Send, StopInv
<1>9. ASSUME NEW a \in Controls, Execute(a) PROVE StopInv'
  <2>1. late' = {}
    BY <1>9 DEF Execute, Blocked, StopInv, QuietIsStopped
  <2> QED BY <1>9, <2>1, CallMoves DEF Execute
<1>10. ASSUME NEW a \in Controls, SendFails(a) PROVE StopInv'
  BY <1>10, CallMoves DEF SendFails, StopInv
<1>11. ASSUME NEW s \in Users, StopByTool(s) PROVE StopInv'
  BY <1>11 DEF StopByTool, StopInv, StopTypeOK, HandledIsDead, WaiterIsAlive, QuietIsStopped, RunOf
<1>12. ASSUME NEW s \in Users, AskToClear(s) PROVE StopInv'
  BY <1>12 DEF AskToClear, StopInv, StopTypeOK, HandledIsDead, WaiterIsAlive, QuietIsStopped, RunOf
<1>13. ASSUME NEW r \in clearing, NEW b \in BOOLEAN, ClearByTool(r, b) PROVE StopInv'
  BY <1>13 DEF ClearByTool, StopInv, StopTypeOK, HandledIsDead, WaiterIsAlive, QuietIsStopped, RunOf
<1>14. CASE UNCHANGED stopVars
  BY <1>14 DEF stopVars, StopInv, StopTypeOK, HandledIsDead, WaiterIsAlive, QuietIsStopped, RunOf
<1> QED BY <1>1, <1>2, <1>3, <1>4, <1>5, <1>6, <1>7, <1>8, <1>9, <1>10, <1>11, <1>12, <1>13, <1>14 DEF StopNext

\* Once an abort has stopped the desktop, the aborted run acts on it no more, and without the bridge
\* a call is done for a run that is alive or not at all: for any number of sessions, runs and calls,
\* wherever the approvals, the calls and the stop cross.
THEOREM AbortedRunsStayQuiet == StopSpec => []AbortedRunsAreQuiet
<1>1. StopInv => AbortedRunsAreQuiet
  <2> SUFFICES ASSUME StopInv, NEW a \in Controls, action[a].at = "starting"
               PROVE  current[action[a].run[1]] = [number |-> action[a].run[2], alive |-> TRUE]
    BY DEF AbortedRunsAreQuiet, StopInv
  <2>1. PICK s \in Users : action[a].run = RunOf(s) /\ current[s].alive
    BY DEF StopInv, WaiterIsAlive, Waits
  <2>2. action[a].run[1] = s /\ action[a].run[2] = current[s].number
    BY <2>1 DEF RunOf
  <2> QED BY <2>1, <2>2 DEF StopInv, StopTypeOK
<1> QED BY <1>1, StopStarts, StopStepKeeps, PTL DEF StopSpec

-----------------------------------------------------------------------------
(* DesktopTargets: what a call reports is what it has done.                *)

\* What runs is an application; the rest of the desktop is free.
RunningOK == running \subseteq Apps

\* A step of the desktop reports honestly.
HonestStep ==
    /\ ~result'.ok => changed' = {} /\ UNCHANGED <<running, front, windows>>
    /\ result'.ok => changed' \subseteq {result'.app, result'.asked, front'}
    /\ result'.ok /\ result'.asked \in running => result'.app = result'.asked

\* A call that names an application that runs is resolved to it, whatever window it describes.
LEMMA NamedIsReached ==
    ASSUME RunningOK, NEW s \in Selectors, s.app \in running
    PROVE  /\ \A h \in Inferred(s) : Resolved(h[1]) = s.app
           /\ \A c \in Targets(s) : c.app = s.app
<1>1. s.app # NoApp
  BY NoAppAssumption DEF RunningOK
<1>2. Inferred(s) = {<<s.app, s.window>>}
  BY <1>1 DEF Inferred
<1>3. Resolved(s.app) = s.app
  BY DEF Resolved
<1>4. \A h \in Inferred(s) : h[1] = s.app
  BY <1>2
<1>5. \A c \in Reached(s) : c.app = s.app
  BY <1>3, <1>4 DEF Reached
<1> QED BY <1>3, <1>4, <1>5 DEF Targets

LEMMA FailedIsHonest ==
    ASSUME NEW s, Failed(s) PROVE HonestStep
<1>1. result' = [ok |-> FALSE, asked |-> s.app, app |-> NoApp] /\ changed' = {} /\ UNCHANGED <<running, front, windows>>
  BY DEF Failed
<1> QED BY <1>1 DEF HonestStep

LEMMA DidIsHonest ==
    ASSUME NEW s, NEW app, NEW places, places \subseteq {app, s.app, front'},
           s.app \in running => app = s.app, Did(s, app, places)
    PROVE  HonestStep
<1>1. result' = [ok |-> TRUE, asked |-> s.app, app |-> app] /\ changed' = places \ {NoApp}
  BY DEF Did
<1> QED BY <1>1 DEF HonestStep

\* What the user does is reported as nothing done.
LEMMA UserIsHonest ==
    ASSUME RunningOK, changed' = {}, result' = NoResult PROVE HonestStep
<1>1. result'.ok /\ result'.asked = NoApp /\ result'.app = NoApp
  BY DEF NoResult
<1> QED BY <1>1 DEF HonestStep

LEMMA TargetStep == RunningOK /\ TargetNext => HonestStep /\ RunningOK'
<1> SUFFICES ASSUME RunningOK, TargetNext PROVE HonestStep /\ RunningOK'
  OBVIOUS
<1>1. ASSUME NEW s \in Selectors, Click(s) PROVE HonestStep /\ running' = running
  <2>1. CASE Failed(s)
    BY <2>1, FailedIsHonest DEF Failed
  <2>2. ASSUME NEW c \in Targets(s), Did(s, c.app, {c.app}), UNCHANGED <<running, front, windows>>
        PROVE  HonestStep /\ running' = running
    <3>1. s.app \in running => c.app = s.app
      BY NamedIsReached
    <3> QED BY <2>2, <3>1, DidIsHonest
  <2> QED BY <1>1, <2>1, <2>2 DEF Click
<1>2. ASSUME NEW s \in Selectors, TypeText(s) PROVE HonestStep /\ running' = running
  <2>1. CASE Failed(s)
    BY <2>1, FailedIsHonest DEF Failed
  <2>2. ASSUME NEW c \in Targets(s), NEW sets \in BOOLEAN, NEW posts \in BOOLEAN,
               TypeInto(s, c, sets, posts), UNCHANGED <<running, front>>
        PROVE  HonestStep /\ running' = running
    <3>1. s.app \in running => c.app = s.app
      BY NamedIsReached
    <3>2. CASE Did(s, c.app, {c.app})
      BY <2>2, <3>1, <3>2, DidIsHonest
    <3>3. CASE Did(s, c.app, {c.app, front})
      BY <2>2, <3>1, <3>3, DidIsHonest
    <3>4. CASE windows' = windows /\ changed' = {} /\ result' = [ok |-> FALSE, asked |-> s.app, app |-> c.app]
      BY <2>2, <3>4 DEF HonestStep
    <3> QED BY <2>2, <3>2, <3>3, <3>4 DEF TypeInto
  <2> QED BY <1>2, <2>1, <2>2 DEF TypeText
<1>3. ASSUME NEW s \in Selectors, FocusWindow(s) PROVE HonestStep /\ running' = running
  <2>1. CASE Failed(s)
    BY <2>1, FailedIsHonest DEF Failed
  <2>2. ASSUME NEW h \in Inferred(s), Did(s, Resolved(h[1]), {Resolved(h[1])}), running' = running
        PROVE  HonestStep /\ running' = running
    <3>1. s.app \in running => Resolved(h[1]) = s.app
      BY NamedIsReached
    <3> QED BY <2>2, <3>1, DidIsHonest
  <2> QED BY <1>3, <2>1, <2>2 DEF FocusWindow
<1>4. ASSUME NEW a \in Apps, LaunchApp(a) PROVE HonestStep /\ RunningOK'
  <2>1. CASE Failed([app |-> a])
    <3>1. RunningOK'
      BY <2>1 DEF Failed, RunningOK
    <3> QED BY <2>1, <3>1, FailedIsHonest
  <2>2. ASSUME NEW started \in BOOLEAN, NEW waits \in BOOLEAN, NEW app,
               running' = IF started THEN running \cup {a} ELSE running,
               app = IF ~waits \/ (a \notin running' /\ front = NoApp) THEN a
                     ELSE IF a \in running' THEN a ELSE front,
               Did([app |-> a], app, {a})
        PROVE  HonestStep /\ RunningOK'
    <3> DEFINE s == [app |-> a]
    <3>1. s.app = a
      OBVIOUS
    <3>2. a \in running => app = a
      BY <2>2
    <3> HIDE DEF s
    <3>3. HonestStep
      BY <2>2, <3>1, <3>2, DidIsHonest DEF s
    <3> QED BY <2>2, <3>3 DEF RunningOK
  <2> QED BY <1>4, <2>1, <2>2 DEF LaunchApp
<1>5. ASSUME NEW a \in Apps, UserFocuses(a) \/ UserQuits(a) \/ AppStarts(a) PROVE HonestStep /\ RunningOK'
  BY <1>5, UserIsHonest DEF UserFocuses, UserQuits, AppStarts, RunningOK
<1> QED BY <1>1, <1>2, <1>3, <1>4, <1>5 DEF TargetNext, RunningOK

\* What a desktop call reports is what it has done, for any applications, windows, titles and labels,
\* whatever the user does between two calls.
THEOREM ResultsAreAlwaysHonest == TargetSpec => ResultsAreHonest
<1>1. TargetInit => RunningOK
  BY DEF TargetInit, RunningOK
<1>2. RunningOK /\ [TargetNext]_targetVars => RunningOK'
  BY TargetStep DEF targetVars, RunningOK
<1>3. RunningOK /\ [TargetNext]_targetVars => [HonestStep]_targetVars
  BY TargetStep
<1>4. [HonestStep]_targetVars
      <=> [/\ ~result'.ok => changed' = {} /\ UNCHANGED <<running, front, windows>>
           /\ result'.ok => changed' \subseteq {result'.app, result'.asked, front'}
           /\ result'.ok /\ result'.asked \in running => result'.app = result'.asked]_targetVars
  BY DEF HonestStep
<1> QED BY <1>1, <1>2, <1>3, <1>4, PTL DEF TargetSpec, ResultsAreHonest

=============================================================================
