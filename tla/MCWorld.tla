-------------------------------- MODULE MCWorld --------------------------------
(***************************************************************************)
(* What acts on the world outside: the simulated physical layer with its   *)
(* telemetry and readiness gates, and the user's screen, that is the       *)
(* current tab, the managed browser, the actions that fall back from       *)
(* surface to surface, the desktop's emergency stop and how a desktop call *)
(* finds its target.  They share no state and are checked side by side: an *)
(* initial state picks one of them, whose steps are taken while the others *)
(* stay as they are.                                                       *)
(***************************************************************************)
EXTENDS ToyGridWorld, HilTelemetry, AutonomyLadder, PhysicalDispatch,
        BrowserTabs, ManagedBrowser, ComputerActions, DesktopStop, DesktopTargets, TLC

VARIABLE part

Grid(w, h, obstacles, hazards, start, goal) ==
    [width |-> w, height |-> h, obstacles |-> obstacles, hazards |-> hazards,
     start |-> start, goal |-> goal, threshold |-> 1]

\* A way round an obstacle, a way round a hazard, and a world that starts at its goal.
SmallMaps == {Grid(3, 2, {<<1, 0>>}, {}, <<0, 0>>, <<2, 0>>),
              Grid(3, 2, {<<1, 1>>}, {<<1, 0>>}, <<0, 0>>, <<2, 1>>),
              Grid(3, 2, {}, {<<1, 0>>}, <<0, 0>>, <<1, 1>>),
              Grid(2, 2, {}, {<<1, 0>>}, <<0, 0>>, <<0, 0>>)}

Data(age, values) == [kind |-> "data", stamped |-> TRUE, complete |-> TRUE, age |-> age, values |-> values]

\* One reading for every verdict, at and past the age limit.
SmallReadings == {NoReading, [NoReading EXCEPT !.kind = "data"], Data(MaxAgeSeconds + 1, {"safe"}),
                  Data(MaxAgeSeconds, {"safe"}), Data(0, {"safe", "unsafe"}), Data(0, {"other"})}

Req(selector, target, managed, observed, expects) ==
    [selector |-> selector, target |-> target, managed |-> managed, observed |-> observed, expects |-> expects]

\* Every order of surfaces, observed by the caller or not, with none, one and two expectations.
SmallRequests ==
    {Req(TRUE, TRUE, TRUE, NotObserved, {"text", "absent"}), Req(TRUE, TRUE, TRUE, NotObserved, {"url", "front"}),
     Req(TRUE, FALSE, TRUE, NotObserved, {"text", "url"}), Req(TRUE, TRUE, FALSE, {"desktop"}, {"front"}),
     Req(FALSE, TRUE, FALSE, NotObserved, {}), Req(TRUE, TRUE, TRUE, {"current_tab", "desktop"}, {})}

SmallSimilar == {<<t, t>> : t \in Titles}
SmallLabels == [w \in Windows |-> IF w = CHOOSE v \in Windows : TRUE THEN "a" ELSE NoTitle]

\* Calls of the managed browser are interchangeable.
Symmetry == Permutations(Visitors)

Init ==
    /\ part \in {"grid", "hil", "ladder", "dispatch", "tabs", "browser", "computer", "stop", "targets"}
    /\ GridInit
    /\ part # "grid" => /\ grid = CHOOSE g \in Maps : TRUE
                        /\ world = NewWorld(grid, CHOOSE b \in Batteries : TRUE, CHOOSE n \in StepLimits : TRUE)
    /\ HilInit /\ LadderInit /\ SimInit
    /\ TabsInit
    /\ part # "tabs" => task = "search" /\ \A t \in UserTabs : page[t] = "other"
    /\ BrowserInit
    /\ ComputerInit
    /\ part # "computer" => up = {} /\ request = CHOOSE r \in Requests : TRUE
    /\ StopInit
    /\ part # "stop" => ~bridged
    /\ TargetInit
    /\ part # "targets" => running = {} /\ \A w \in Windows : windows[w].title = "a"

physicalVars == <<gridVars, hilVars, ladderVars, simVars>>
screenVars == <<tabsVars, browserVars, computerVars, stopVars, targetVars>>

Physical ==
    \/ part = "grid" /\ GridNext /\ UNCHANGED <<hilVars, ladderVars, simVars>>
    \/ part = "hil" /\ HilNext /\ UNCHANGED <<gridVars, ladderVars, simVars>>
    \/ part = "ladder" /\ LadderNext /\ UNCHANGED <<gridVars, hilVars, simVars>>
    \/ part = "dispatch" /\ SimNext /\ UNCHANGED <<gridVars, hilVars, ladderVars>>

Screen ==
    \/ part = "tabs" /\ TabsNext /\ UNCHANGED <<browserVars, computerVars, stopVars, targetVars>>
    \/ part = "browser" /\ BrowserNext /\ UNCHANGED <<tabsVars, computerVars, stopVars, targetVars>>
    \/ part = "computer" /\ ComputerNext /\ UNCHANGED <<tabsVars, browserVars, stopVars, targetVars>>
    \/ part = "stop" /\ StopNext /\ UNCHANGED <<tabsVars, browserVars, computerVars, targetVars>>
    \/ part = "targets" /\ TargetNext /\ UNCHANGED <<tabsVars, browserVars, computerVars, stopVars>>

Next ==
    \/ Physical /\ UNCHANGED <<part, screenVars>>
    \/ Screen /\ UNCHANGED <<part, physicalVars>>

Spec == Init /\ [][Next]_<<part, physicalVars, screenVars>>

=============================================================================
