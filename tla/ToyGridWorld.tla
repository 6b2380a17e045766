---------------------------- MODULE ToyGridWorld ----------------------------
(***************************************************************************)
(* The simulated world of the physical-adjacent layer: single steps under  *)
(* the safety governor, the planner, the autonomous episode that follows a *)
(* plan, its scorecard, the evaluation suites and the autonomy gate.       *)
(*                                                                         *)
(* A map is a record of the grid that never changes; a world is the part   *)
(* of the state that does.                                                 *)
(***************************************************************************)
EXTENDS PhysicalReplay, Sequences, FiniteSets, SequencesExt

CONSTANTS
    Maps,        \* grids: width, height, obstacles, hazards, start, goal, threshold
    Batteries,   \* charges a world may start with
    StepLimits,  \* max_steps of a world
    Budgets,     \* max_step_budget of a plan, max_steps of an episode
    Readings,    \* telemetry a caller may hand to a step
    None         \* no plan, no episode, no gate result yet

ASSUME GridAssumption ==
    /\ Batteries \subseteq 0..100
    /\ StepLimits \subseteq Nat \ {0}
    /\ Budgets \subseteq Nat

VARIABLES
    grid,     \* the map
    world,    \* ToyGridWorldState
    plan,     \* ToyGridWorldAutonomyPlan, or None
    episode,  \* ToyGridWorldAutonomousEpisode, running or ended, or None
    gate      \* the result of the autonomy gate, or None

gridVars == <<grid, world, plan, episode, gate>>

Moves == <<"right", "down", "left", "up">>    \* the planner's order
Actions == {"right", "down", "left", "up", "wait"}

NextPosition(p, a) ==
    CASE a = "right" -> <<p[1] + 1, p[2]>>
      [] a = "left"  -> <<p[1] - 1, p[2]>>
      [] a = "down"  -> <<p[1], p[2] + 1>>
      [] a = "up"    -> <<p[1], p[2] - 1>>
      [] a = "wait"  -> p

Cells(g) == (0 .. g.width - 1) \X (0 .. g.height - 1)
Free(g) == Cells(g) \ (g.obstacles \cup g.hazards)

\* The model validator of a state.
ValidMap(g) ==
    /\ g.width > 0 /\ g.height > 0
    /\ g.threshold \in 0..100
    /\ {g.start, g.goal} \subseteq Free(g)
    /\ g.obstacles \cup g.hazards \subseteq Cells(g)
    /\ g.obstacles \cap g.hazards = {}

ASSUME MapAssumption == \A g \in Maps : ValidMap(g)

WorldStatuses == {"running", "goal_reached", "blocked"}

NewWorld(g, b, n) == [at |-> g.start, battery |-> b, steps |-> 0, limit |-> n, status |-> "running", last |-> ""]

-----------------------------------------------------------------------------
(* One step.                                                               *)

\* Why the world itself refuses an action, "" when it does not; obstacles before hazards.
ActionBlockReason(g, w, a) ==
    LET p == NextPosition(w.at, a) IN
    CASE w.status # "running"    -> "mission_not_running"
      [] w.status = "running" /\ w.battery <= g.threshold -> "low_battery"
      [] w.status = "running" /\ w.battery > g.threshold /\ w.steps >= w.limit -> "max_steps_exhausted"
      [] OTHER -> CASE p \notin Cells(g)  -> "out_of_bounds"
                    [] p \in g.obstacles  -> "obstacle"
                    [] p \in g.hazards    -> "hazard"
                    [] OTHER              -> ""

\* The scenario a step is judged under: its identity covers the world's state and the action.
ScenarioOf(w, a) == <<w.at, w.steps, w.status, a>>

\* The reading a step takes of its own world.
AutoReading(g, w) ==
    [kind |-> "data", stamped |-> TRUE, complete |-> TRUE, age |-> 0,
     values |-> {"safe"} \cup (IF w.battery <= g.threshold \/ w.status = "blocked" THEN {"unsafe"} ELSE {})]

\* The telemetry handed to a step: a reading, judged for this step's scenario, or a finished
\* snapshot, which keeps the scenario it was taken for.
AsSnapshot(r, sc) == [health |-> TelemetryHealth(r), scenario |-> sc]

\* The governor: the snapshot is this scenario's, it is nominal, and the world does not refuse.
GovernorAllowsStep(g, w, a, snap) ==
    /\ snap.scenario = ScenarioOf(w, a)
    /\ GovernorAllows(snap.health)
    /\ ActionBlockReason(g, w, a) = ""

StepBlockReason(g, w, a, snap) ==
    IF snap.scenario # ScenarioOf(w, a) THEN "safety_governor_blocked"
    ELSE IF ~GovernorAllows(snap.health) THEN GovernorReason(snap.health)
    ELSE ActionBlockReason(g, w, a)

AppliedAction(g, w, a) ==
    LET p == NextPosition(w.at, a) IN
    [w EXCEPT !.at = p, !.battery = IF w.battery > 0 THEN w.battery - 1 ELSE 0, !.steps = @ + 1,
              !.status = IF p = g.goal THEN "goal_reached" ELSE "running", !.last = ""]

\* A blocked action stops the world where it is.
BlockedState(w, reason) == [w EXCEPT !.status = "blocked", !.last = reason]

\* ToyGridWorldStepResult: a step is accepted or blocked, and only an accepted one has artifacts.
StepResult(g, w, a, snap) ==
    LET ok == GovernorAllowsStep(g, w, a, snap) IN
    [action    |-> a,
     accepted  |-> ok,
     reason    |-> IF ok THEN "" ELSE StepBlockReason(g, w, a, snap),
     before    |-> w,
     after     |-> IF ok THEN AppliedAction(g, w, a) ELSE BlockedState(w, StepBlockReason(g, w, a, snap)),
     health    |-> snap.health,
     mismatch  |-> snap.scenario # ScenarioOf(w, a),
     artifacts |-> IF ok THEN DryRunArtifacts ELSE NoArtifacts]

-----------------------------------------------------------------------------
(* The planner: breadth-first over the free cells, in the order of Moves.  *)

\* Every entry of the frontier by every move.
Extensions(frontier) ==
    [j \in 1 .. Len(Moves) * Len(frontier) |->
        LET entry == frontier[((j - 1) \div Len(Moves)) + 1]
            a     == Moves[((j - 1) % Len(Moves)) + 1]
        IN  [at |-> NextPosition(entry.at, a), actions |-> Append(entry.actions, a)]]

\* One level of the search: the first way to each cell that is free and not seen.
Visit(g, level, entry) ==
    IF entry.at \in Free(g) \ level.seen
    THEN [frontier |-> Append(level.frontier, entry), seen |-> level.seen \cup {entry.at}]
    ELSE level

SearchLevel(g, level) ==
    FoldLeft(LAMBDA acc, entry : Visit(g, acc, entry), [frontier |-> << >>, seen |-> level.seen],
             Extensions(level.frontier))

SearchLevels(g, w, budget) ==
    LET levels[n \in 0..budget] ==
            IF n = 0 THEN [frontier |-> << [at |-> w.at, actions |-> << >>] >>, seen |-> {w.at}]
                     ELSE SearchLevel(g, levels[n - 1])
    IN  levels

\* The first way of the search that ends at the goal, None when there is none within the budget.
PlanPath(g, w, budget) ==
    LET levels == SearchLevels(g, w, budget)
        Arrivals(n) == {i \in DOMAIN levels[n].frontier : levels[n].frontier[i].at = g.goal}
        arrived == {n \in 0..budget : Arrivals(n) # {}}
    IN  IF arrived = {} THEN None
        ELSE levels[Min(arrived)].frontier[Min(Arrivals(Min(arrived)))].actions

LongestPath(g) == Cardinality(Free(g)) - 1

\* Mutant of Affordable: an off-by-one.
Affordable_OneMore(g, w, path) == Len(path) <= w.battery - g.threshold + 1

\* Every move costs one unit and must be made above the threshold.
Affordable(g, w, path) == Len(path) <= w.battery - g.threshold

PlanRecord(w, status, acts, budget, reason) ==
    [status |-> status, for |-> w, actions |-> acts, budget |-> budget, reason |-> reason]

PlanFor(g, w, requested) ==
    LET left   == IF w.limit > w.steps THEN w.limit - w.steps ELSE 0
        budget == IF requested < left THEN requested ELSE left
        path   == PlanPath(g, w, budget)
        Refused(reason) == PlanRecord(w, "blocked", << >>, budget, reason)
    IN  IF w.at = g.goal THEN PlanRecord(w, "planned", << >>, budget, "")
        ELSE IF w.status # "running" THEN Refused("mission_not_running")
        ELSE IF w.battery <= g.threshold THEN Refused("low_battery")
        ELSE IF budget = 0 THEN Refused("max_step_budget_exhausted")
        ELSE IF path = None
             THEN Refused(IF PlanPath(g, w, LongestPath(g)) # None THEN "max_step_budget_exhausted"
                                                                   ELSE "no_safe_path")
        ELSE IF ~Affordable(g, w, path) THEN Refused("low_battery")
        ELSE PlanRecord(w, "planned", path, budget, "")

-----------------------------------------------------------------------------
(* The scorecard of an episode, the evaluation suites and the gate.        *)

StepTelemetryMissing(s)  == s.health \in {"missing", "malformed"}
StepCompliant(s) == s.accepted /\ s.artifacts = DryRunArtifacts

\* The violations of one step: bad telemetry, a mismatch, missing artifacts, a forbidden cell.
StepViolates(g, s) ==
    \/ s.health \in {"missing", "malformed", "stale", "unsafe"}
    \/ s.mismatch
    \/ s.accepted /\ (~StepCompliant(s) \/ s.after.at \in g.obstacles \cup g.hazards)
    \/ ~s.accepted /\ s.artifacts # NoArtifacts

\* _episode_failure_buckets: how many steps of an episode are to blame for what.
FailureBuckets(g, e) ==
    LET at(S) == Cardinality({i \in DOMAIN e.steps : e.steps[i] \in S})
        Of    == {e.steps[i] : i \in DOMAIN e.steps}
    IN  [violations |-> at({s \in Of : StepViolates(g, s)}),
         missing    |-> at({s \in Of : StepTelemetryMissing(s)}),
         stale      |-> at({s \in Of : s.health = "stale"}),
         mismatch   |-> at({s \in Of : s.mismatch}),
         accepted   |-> at({s \in Of : s.accepted}),
         compliant  |-> at({s \in Of : StepCompliant(s)})]

Scorecard(g, e) ==
    LET count     == FailureBuckets(g, e)
        telemetry == count.missing + count.stale + count.mismatch
        goal      == e.world.status = "goal_reached"
    IN  [passed    |-> goal /\ count.violations + telemetry = 0,
         goal      |-> goal,
         violations |-> count.violations,
         telemetry |-> telemetry,
         blocked   |-> Len(e.steps) - count.accepted,
         compliant |-> count.accepted = count.compliant]

BlockedWithoutMotion(s) == ~s.accepted /\ s.before.at = s.after.at /\ s.artifacts = NoArtifacts

\* What every replay suite asks of a trace: steps, and artifacts that agree with their verdicts.
ReplayIsSound(e) ==
    /\ e.steps # << >>
    /\ \A i \in DOMAIN e.steps :
          /\ ~e.steps[i].artifacts.live
          /\ e.steps[i].accepted => e.steps[i].artifacts.envelope /\ e.steps[i].artifacts.dryRun
          /\ e.steps[i].artifacts.plan => e.steps[i].artifacts.offline
          /\ ~e.steps[i].accepted => BlockedWithoutMotion(e.steps[i])

\* The steps that were blocked and moved nothing.
BlocksSeen(e) == {s \in {e.steps[i] : i \in DOMAIN e.steps} : BlockedWithoutMotion(s)}

\* run_mission_eval_suite for the suites about a replay trace.
SuitePasses(g, suite, e) ==
    /\ ReplayIsSound(e)
    /\ suite = "toy_grid_goal_reached_path" => e.world.status = "goal_reached"
    /\ suite = "toy_grid_obstacle_block" => \E s \in BlocksSeen(e) : s.reason = "obstacle"
    /\ suite = "toy_grid_hazard_block" => \E s \in BlocksSeen(e) : s.reason = "hazard"
    /\ suite = "toy_grid_low_battery_block" =>
          \E s \in BlocksSeen(e) : s.before.battery <= g.threshold /\ s.health = "unsafe"
    /\ suite = "toy_grid_missing_telemetry_block" => \E s \in BlocksSeen(e) : s.health = "missing"
    /\ suite = "toy_grid_stale_telemetry_block" => \E s \in BlocksSeen(e) : s.health = "stale"
    /\ suite = "toy_grid_telemetry_mismatch_block" => \E s \in BlocksSeen(e) : s.mismatch
    /\ suite = "physical_replay_dry_run_envelope_only" => \E i \in DOMAIN e.steps : e.steps[i].accepted
    /\ suite = "physical_replay_offline_only" => \E i \in DOMAIN e.steps : e.steps[i].artifacts.plan

DefaultSuites == {"physical_replay_no_live_execution", "physical_replay_offline_only",
                  "physical_replay_dry_run_envelope_only", "toy_grid_replay_determinism"}

\* A suite whose result is handed in, one that must be among them, and the reviews of
\* hardware-in-the-loop telemetry, each passed or not.
GateBlocks(card, results, required, reviews, reviewRequired) ==
    \/ ~card.passed
    \/ card.violations > 0 \/ card.telemetry > 0 \/ ~card.compliant
    \/ \E r \in results : ~r.passed
    \/ ~(required \subseteq {r.suite : r \in results})
    \/ reviewRequired /\ reviews = {}
    \/ FALSE \in reviews

SuiteResults(g, suites, e) == {[suite |-> s, passed |-> SuitePasses(g, s, e)] : s \in suites}

-----------------------------------------------------------------------------

GridInit ==
    /\ grid \in Maps
    /\ \E b \in Batteries, n \in StepLimits : world = NewWorld(grid, b, n)
    /\ plan = None
    /\ episode = None
    /\ gate = None

\* A single step of the world, by itself or in a replay of a list of actions.
StepWorld(a, r) ==
    /\ episode = None
    /\ world' = StepResult(grid, world, a, AsSnapshot(r, ScenarioOf(world, a))).after
    /\ UNCHANGED <<grid, plan, episode, gate>>

MakePlan(b) ==
    /\ episode = None
    /\ plan' = PlanFor(grid, world, b)
    /\ UNCHANGED <<grid, world, episode, gate>>

Started(status, stop, limit) ==
    [status |-> status, stop |-> stop, limit |-> limit, world |-> world, steps |-> << >>,
     plan |-> plan, auto |-> TRUE]

\* Mutant of MatchesPlan: only the position is compared.
MatchesPlan_ByCell == world.at = plan.for.at

MatchesPlan == world = plan.for

EpisodeLimit(b) ==
    LET n == Len(plan.actions) IN
    CHOOSE k \in {n, b, plan.budget} : \A j \in {n, b, plan.budget} : k <= j

\* An episode runs a plan that is not blocked and was made for this very world.
StartEpisode(b) ==
    /\ episode = None /\ plan # None
    /\ episode' = IF plan.status = "blocked" THEN Started("plan_blocked", plan.reason, 0)
                  ELSE IF ~MatchesPlan THEN Started("plan_mismatch", "plan_initial_state_mismatch", 0)
                  ELSE Started("running", "", EpisodeLimit(b))
    /\ UNCHANGED <<grid, world, plan, gate>>

\* The snapshots a caller may hand to the next step: of a reading, or kept from an earlier step.
Offers(a) ==
    {AsSnapshot(r, ScenarioOf(episode.world, a)) : r \in Readings}
      \cup {[health |-> s.health, scenario |-> ScenarioOf(s.before, s.action)] :
               s \in {episode.steps[i] : i \in DOMAIN episode.steps}}

\* The next action of the plan, under telemetry of the caller's or the step's own.
EpisodeStep ==
    /\ episode # None /\ episode.status = "running"
    /\ Len(episode.steps) < episode.limit
    /\ LET a == episode.plan.actions[Len(episode.steps) + 1]
           own == AsSnapshot(AutoReading(grid, episode.world), ScenarioOf(episode.world, a))
       IN  \E snap \in Offers(a) \cup {own} :
              LET s == StepResult(grid, episode.world, a, snap) IN
              episode' = [episode EXCEPT
                  !.steps = Append(@, s),
                  !.world = s.after,
                  !.auto = @ /\ snap = own,
                  !.stop = s.reason,
                  !.status = IF ~s.accepted THEN "blocked"
                             ELSE IF s.after.status = "goal_reached" THEN "goal_reached" ELSE "running"]
    /\ UNCHANGED <<grid, world, plan, gate>>

\* Out of actions: the goal is reached only if the world says so.
EpisodeRunsOut ==
    /\ episode # None /\ episode.status = "running"
    /\ Len(episode.steps) = episode.limit
    /\ episode' = [episode EXCEPT
           !.status = IF Len(episode.steps) = Len(episode.plan.actions) /\ episode.world.status = "goal_reached"
                      THEN "goal_reached" ELSE "max_steps_exhausted"]
    /\ UNCHANGED <<grid, world, plan, gate>>

EpisodeEnded == episode # None /\ episode.status # "running"

\* The safety regression gate runs the default suites itself; the other entry takes what it is given.
JudgeRegression(reviews, required) ==
    /\ EpisodeEnded /\ gate = None
    /\ gate' = [entry |-> "regression",
                passed |-> ~GateBlocks(Scorecard(grid, episode), SuiteResults(grid, DefaultSuites, episode),
                                       DefaultSuites, reviews, required)]
    /\ UNCHANGED <<grid, world, plan, episode>>

JudgeReview(suites) ==
    /\ EpisodeEnded /\ gate = None
    /\ gate' = [entry |-> "review",
                passed |-> ~GateBlocks(Scorecard(grid, episode), SuiteResults(grid, suites, episode), {}, {}, FALSE)]
    /\ UNCHANGED <<grid, world, plan, episode>>

ReplaySuites == {{}, {"toy_grid_goal_reached_path"}, {"toy_grid_obstacle_block"}, {"toy_grid_hazard_block"},
    {"toy_grid_low_battery_block"}, {"toy_grid_missing_telemetry_block"}, {"toy_grid_stale_telemetry_block"},
    {"toy_grid_telemetry_mismatch_block"}}

GridNext ==
    \/ \E a \in Actions, r \in Readings \cup {AutoReading(grid, world)} : StepWorld(a, r)
    \/ \E b \in Budgets : MakePlan(b)
    \/ \E b \in Budgets : StartEpisode(b)
    \/ EpisodeStep
    \/ EpisodeRunsOut
    \/ \E reviews \in SUBSET BOOLEAN, required \in BOOLEAN : JudgeRegression(reviews, required)
    \/ \E suites \in ReplaySuites : JudgeReview(suites)

GridSpec == GridInit /\ [][GridNext]_gridVars

-----------------------------------------------------------------------------
\* A plan delivers: an episode that runs all of it from the world it was made for, each step under
\* the telemetry of the step itself, reaches the goal; no step is blocked on the way.  Whoever
\* plans from the goal itself is the exception: there is nothing to run and the episode runs out.
PlanDelivers ==
    EpisodeEnded /\ episode.auto /\ episode.plan.status = "planned" /\ episode.plan.actions # << >>
       /\ episode.limit = Len(episode.plan.actions)
    => episode.status = "goal_reached"

\* A pass of the safety regression gate is earned: the goal was reached by the steps of a plan made
\* for that world, every one of them accepted under nominal telemetry taken for that very step,
\* above the battery threshold and through free cells, and nobody's review of the hardware failed.
GatePassIsEarned ==
    gate # None /\ gate.entry = "regression" /\ gate.passed =>
        /\ episode.plan.for = world
        /\ episode.world.at = grid.goal
        /\ episode.steps # << >>
        /\ \A i \in DOMAIN episode.steps :
              LET s == episode.steps[i] IN
              /\ s.accepted /\ s.health = "nominal" /\ ~s.mismatch
              /\ s.before.battery > grid.threshold
              /\ s.after.at \in Free(grid)

=============================================================================
