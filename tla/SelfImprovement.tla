---------------------------- MODULE SelfImprovement ----------------------------
(***************************************************************************)
(* The offline improvement of the agent's own code: canaries (git          *)
(* worktrees named by a goal and the second), the demo and search flows    *)
(* that try candidates in them, the single tools an agent may use on the   *)
(* same canaries, and the approved records they leave in the memory, from  *)
(* which promoted skills are loaded.  Several run at once: a flow awaits   *)
(* its shell commands and the memory, and is not interrupted in between.   *)
(***************************************************************************)
EXTENDS Naturals, Sequences, FiniteSets

CONSTANTS
    Flows,        \* slots of runs
    Slugs,        \* goals, as the names of canaries show them
    Suites,       \* lists of benchmark commands
    Orders,       \* what runs are asked for
    Tries,        \* candidates of a search
    MaxSecond,    \* bound on the clock
    MaxHands      \* bound on what is done to canaries by hand

ASSUME SelfImprovementAssumption ==
    /\ Tries \in Nat \ {0} /\ {MaxSecond, MaxHands} \subseteq Nat /\ "none" \notin Suites
    /\ \A o \in Orders : /\ o.kind \in {"search", "demo", "package", "benchmark"}
                         /\ o.promotes \in {"memory", "skill", "unknown"} /\ o.suite \in Suites
                         /\ {o.linked, o.approve, o.tidy, o.auto} \subseteq BOOLEAN

VARIABLES
    canary,       \* the worktrees
    flow,         \* the runs
    progress,     \* status of a run's task record, and of a search's candidates
    approved,     \* the approved records of the memory
    offered,      \* the promoted skills in the registry
    second,
    hands,
    discarded     \* history: canaries cleaned up by hand

improvementVars == <<canary, flow, progress, approved, offered, second, hands, discarded>>

Canaries == Slugs \X (0..MaxSecond)
NoBenchmark == [suite |-> "none", passed |-> FALSE, fast |-> FALSE]

\* dir: "ghost" is a directory git does not know.  passes: the suites it would pass; edited: since its
\* benchmark, by hand or by commands that were still running.
NoCanary == [dir |-> "none", passes |-> {}, benchmark |-> NoBenchmark, edited |-> FALSE]
NoFlow == [order |-> [kind |-> "none"], at |-> "none", try |-> 1, path |-> << >>,
           rank |-> << >>, winner |-> 0, promotable |-> FALSE, proven |-> FALSE]

ImprovementInit ==
    /\ canary = [n \in Canaries |-> NoCanary] /\ flow = [f \in Flows |-> NoFlow]
    /\ progress = [f \in Flows |-> << >>] /\ approved = {} /\ offered = {} /\ second = 0
    /\ hands = 0 /\ discarded = {}

Order(f) == flow[f].order
RunKind(f) == Order(f).kind
Refreshes(f) == RunKind(f) = "search" /\ flow[f].try > Tries
Path(f) == flow[f].path[IF Refreshes(f) THEN flow[f].winner ELSE flow[f].try]

\* Where a run is between two awaits; no other run takes a step meanwhile.
InOneGo == {"preparing", "checking", "closing"}
MayStep(f) == \A g \in Flows \ {f} : flow[g].at \notin InOneGo

\* The trajectory failed; what was approved for the like is looked up.
StartFlow(f, o, slugs) ==
    /\ flow[f].at = "none" /\ MayStep(f) /\ o.kind \in {"search", "demo"}
    /\ flow' = [flow EXCEPT ![f] = [NoFlow EXCEPT !.order = o, !.at = "reuse", !.path = slugs]]
    /\ UNCHANGED <<canary, progress, approved, offered, second, hands, discarded>>

\* self_improvement_run_benchmarks or _package_candidate, by the agent, on a canary.
UseTool(f, o, n) ==
    /\ flow[f].at = "none" /\ MayStep(f) /\ o.kind \in {"package", "benchmark"} /\ canary[n].dir # "none"
    /\ flow' = [flow EXCEPT ![f] = [NoFlow EXCEPT !.order = o, !.at = "checking", !.path = <<n>>]]
    /\ UNCHANGED <<canary, progress, approved, offered, second, hands, discarded>>

\* evaluate_promotion_deployability of an artifact with benchmark steps.
Deployable(promotes, linked) == promotes = "memory" \/ linked

\* ensure_promoted_skills_loaded, afresh.
Loaded == {m \in approved : m.promotes = "skill" /\ Deployable(m.promotes, m.linked)}

\* Suggestions are found and enriched, for which promoted skills are loaded.
Reuse(f) ==
    /\ flow[f].at = "reuse" /\ MayStep(f)
    /\ offered' = Loaded
    /\ flow' = [flow EXCEPT ![f].at = "preparing"]
    /\ progress' = [progress EXCEPT ![f] = <<"running">>]
    /\ UNCHANGED <<canary, approved, second, hands, discarded>>

Candidates(f) == IF RunKind(f) = "search" THEN Tries ELSE 1

\* git worktree add: it refuses a name that is taken, and may fail; the path is returned all the same.
Prepare(f) ==
    /\ flow[f].at = "preparing" /\ MayStep(f) /\ flow[f].try <= Candidates(f)
    /\ LET n == <<Path(f), second>> IN
       \E ok \in BOOLEAN :
          /\ ok => canary[n].dir = "none"
          /\ canary' = IF ok THEN [canary EXCEPT ![n] = [NoCanary EXCEPT !.dir = "worktree"]] ELSE canary
          /\ flow' = [flow EXCEPT ![f].path[flow[f].try] = n,
                                  ![f].rank = Append(@, 0),
                                  ![f].at = IF ok THEN "commands"
                                            ELSE IF RunKind(f) = "demo" THEN "ended" ELSE "preparing",
                                  ![f].try = IF ok \/ RunKind(f) = "demo" THEN @ ELSE @ + 1]
          /\ progress' = [progress EXCEPT ![f] =
                        IF RunKind(f) = "demo" THEN <<IF ok THEN "running" ELSE "failed">>
                        ELSE Append(@, IF ok THEN "running" ELSE "failed")]
    /\ UNCHANGED <<approved, offered, second, hands, discarded>>

\* git worktree remove --force: not of a directory git does not know.
Cleaned(store, ns) == [n \in Canaries |-> IF n \in ns /\ store[n].dir = "worktree" THEN NoCanary ELSE store[n]]

\* The state file is written, into a directory made for it if need be.
Persisted(n) == [canary EXCEPT ![n].dir = IF @ = "none" THEN "ghost" ELSE @]

Edited(n, passes) == [canary EXCEPT ![n].passes = passes, ![n].edited = canary[n].benchmark # NoBenchmark]

\* The candidate's commands have run, in a directory that may be gone.
CommandsPass(f) ==
    /\ flow[f].at = "commands" /\ MayStep(f) /\ canary[Path(f)].dir # "none"
    /\ \E passes \in SUBSET Suites : canary' = Edited(Path(f), passes)
    /\ flow' = [flow EXCEPT ![f].at = "checking"]
    /\ UNCHANGED <<progress, approved, offered, second, hands, discarded>>

CommandsFail(f) ==
    /\ flow[f].at = "commands" /\ MayStep(f)
    /\ canary' = Cleaned(Persisted(Path(f)),
                         IF (IF RunKind(f) = "demo" THEN Order(f).auto ELSE Order(f).tidy) THEN {Path(f)} ELSE {})
    /\ IF RunKind(f) = "demo"
       THEN flow' = [flow EXCEPT ![f].at = "ended"] /\ progress' = [progress EXCEPT ![f] = <<"failed">>]
       ELSE /\ flow' = [flow EXCEPT ![f].at = "preparing", ![f].try = @ + 1]
            /\ progress' = [progress EXCEPT ![f][1 + flow[f].try] = "failed"]
    /\ UNCHANGED <<approved, offered, second, hands, discarded>>

\* What follows a packaged candidate; the first of the best candidates wins.
Ranked(f, rank) ==
    [flow[f] EXCEPT !.rank[flow[f].try] = rank, !.at = "preparing", !.try = @ + 1,
                    !.winner = IF @ = 0 \/ rank > flow[f].rank[@] THEN flow[f].try ELSE @]

\* package_candidate, after the benchmarks: an unknown kind of promotion raises; a record is approved
\* when it is asked for, the benchmarks passed and the kind needs no approval or has one.
Records(f, passed) ==
    passed /\ Order(f).approve /\ (RunKind(f) = "search" => Refreshes(f)) /\ Deployable(Order(f).promotes, Order(f).linked)

\* normalize_promotion_kind
Raises(f) == Order(f).promotes = "unknown"

Packaged(f, passed) ==
    \/ Raises(f)
       /\ flow' = [flow EXCEPT ![f].at = "raised"] /\ UNCHANGED progress
    \/ /\ ~Raises(f) /\ RunKind(f) = "search" /\ ~Refreshes(f)
       /\ \E small \in {0, 1} : flow' = [flow EXCEPT ![f] = Ranked(f, small + IF passed THEN 2 ELSE 0)]
       /\ progress' = [progress EXCEPT ![f][1 + flow[f].try] = "completed"]
    \/ /\ ~Raises(f) /\ (RunKind(f) = "search" => Refreshes(f))
       /\ flow' = [flow EXCEPT ![f].at = IF Records(f, passed) THEN "recording" ELSE "closing",
                               ![f].promotable = passed,
                               ![f].proven = LET c == canary'[Path(f)]
                                             IN Order(f).suite \in c.passes \/ c.edited \/ c.dir = "ghost"]
       /\ UNCHANGED progress

\* Mutant of Cached: the last benchmark is taken, whatever it ran.
Cached_Last(n, suite) == canary[n].benchmark.passed

Cached(n, suite) ==
    canary[n].benchmark.suite = suite /\ (canary[n].benchmark.passed \/ ~canary[n].benchmark.fast)

\* run_benchmarks, up to its first command.
Check(f) ==
    /\ flow[f].at = "checking" /\ MayStep(f)
    /\ LET n == Path(f) IN
       \/ /\ canary[n].dir = "none"
          /\ flow' = [flow EXCEPT ![f].at = "closing", ![f].promotable = FALSE] /\ UNCHANGED <<canary, progress>>
       \/ /\ canary[n].dir # "none" /\ Cached(n, Order(f).suite) /\ UNCHANGED canary
          /\ IF RunKind(f) = "benchmark"
             THEN flow' = [flow EXCEPT ![f].at = "ended"] /\ UNCHANGED progress
             ELSE Packaged(f, canary[n].benchmark.passed)
       \/ /\ canary[n].dir # "none" /\ ~Cached(n, Order(f).suite)
          /\ flow' = [flow EXCEPT ![f].at = "benchmarks"] /\ UNCHANGED <<canary, progress>>
    /\ UNCHANGED <<approved, offered, second, hands, discarded>>

\* The commands have run.  What came of them in a directory that is gone is open.
RunBenchmarks(f) ==
    /\ flow[f].at = "benchmarks" /\ MayStep(f)
    /\ LET n == Path(f) IN
       \E passed \in IF canary[n].dir = "worktree" THEN {Order(f).suite \in canary[n].passes} ELSE BOOLEAN :
          /\ canary' = [Persisted(n) EXCEPT
                           ![n].benchmark = [suite |-> Order(f).suite, passed |-> passed,
                                             fast |-> RunKind(f) = "benchmark"],
                           ![n].edited = FALSE]
          /\ IF RunKind(f) = "benchmark"
             THEN flow' = [flow EXCEPT ![f].at = "ended"] /\ UNCHANGED progress
             ELSE Packaged(f, passed)
    /\ UNCHANGED <<approved, offered, second, hands, discarded>>

\* memory_store, which may fail.
Record(f) ==
    /\ flow[f].at = "recording" /\ MayStep(f)
    /\ approved' \in {approved, approved \cup {[by |-> f, canary |-> Path(f), suite |-> Order(f).suite,
                                                promotes |-> Order(f).promotes, linked |-> Order(f).linked,
                                                proven |-> flow[f].proven]}}
    /\ flow' = [flow EXCEPT ![f].at = "closing"]
    /\ UNCHANGED <<canary, progress, offered, second, hands, discarded>>

\* All candidates tried: the winner is packaged again, to be recorded.
HasWinner(f) == flow[f].winner # 0 /\ flow[f].rank[flow[f].winner] >= 2

Choose(f) ==
    /\ flow[f].at = "preparing" /\ MayStep(f) /\ flow[f].try > Candidates(f)
    /\ flow' = [flow EXCEPT ![f].promotable = HasWinner(f),
                            ![f].at = IF HasWinner(f) /\ Order(f).approve THEN "checking" ELSE "closing"]
    /\ UNCHANGED <<canary, progress, approved, offered, second, hands, discarded>>

\* The canaries that go: by their paths, also of candidates whose canary could not be made.
Swept(f) ==
    IF RunKind(f) = "search"
    THEN {flow[f].path[i] : i \in {k \in 1..Tries : IF HasWinner(f) /\ k = flow[f].winner THEN Order(f).auto
                                                    ELSE Order(f).tidy}}
    ELSE IF RunKind(f) = "demo" /\ Order(f).auto THEN {Path(f)} ELSE {}

CloseFlow(f) ==
    /\ flow[f].at = "closing" /\ MayStep(f)
    /\ canary' = Cleaned(canary, Swept(f))
    /\ flow' = [flow EXCEPT ![f].at = "ended"]
    /\ progress' = IF RunKind(f) \in {"search", "demo"}
               THEN [progress EXCEPT ![f][1] = IF RunKind(f) = "demo" \/ flow[f].promotable THEN "completed" ELSE "failed"]
               ELSE progress
    /\ UNCHANGED <<approved, offered, second, hands, discarded>>

\* A run is cancelled at an await.
Cancel(f) ==
    /\ flow[f].at \in {"reuse", "commands", "benchmarks", "recording"} /\ MayStep(f)
    /\ flow' = [flow EXCEPT ![f].at = "cancelled"]
    /\ UNCHANGED <<canary, progress, approved, offered, second, hands, discarded>>

Quiet == \A f \in Flows : flow[f].at \notin InOneGo

\* By hand: a candidate's files are changed, a canary is cleaned up.
Edit(n) ==
    /\ Quiet /\ canary[n].dir = "worktree" /\ hands < MaxHands
    /\ \E passes \in SUBSET Suites : canary' = Edited(n, passes)
    /\ hands' = hands + 1
    /\ UNCHANGED <<flow, progress, approved, offered, second, discarded>>

CleanUp(n) ==
    /\ Quiet /\ canary[n].dir = "worktree" /\ hands < MaxHands
    /\ canary' = Cleaned(canary, {n}) /\ discarded' = discarded \cup {n} /\ hands' = hands + 1
    /\ UNCHANGED <<flow, progress, approved, offered, second>>

Second ==
    /\ Quiet /\ second < MaxSecond /\ second' = second + 1
    /\ UNCHANGED <<canary, flow, progress, approved, offered, hands, discarded>>

ImprovementNext ==
    \/ \E f \in Flows :
          \/ \E o \in Orders : \/ \E slugs \in [1..(IF o.kind = "search" THEN Tries ELSE 1) -> Slugs] : StartFlow(f, o, slugs)
                               \/ \E n \in Canaries : UseTool(f, o, n)
          \/ Reuse(f) \/ Prepare(f) \/ CommandsPass(f) \/ CommandsFail(f) \/ Check(f) \/ RunBenchmarks(f)
          \/ Record(f) \/ Choose(f) \/ CloseFlow(f) \/ Cancel(f)
    \/ \E n \in Canaries : Edit(n) \/ CleanUp(n)
    \/ Second

ImprovementSpec == ImprovementInit /\ [][ImprovementNext]_improvementVars

-----------------------------------------------------------------------------
\* What a run records as approved, and what is offered as a skill, passed the very suite it was asked
\* to pass, as its canary was when it was packaged, unless it was edited since its benchmark or
\* its directory taken away; it has the approval its kind needs, and a search records its best candidate.
ApprovalsAreProven ==
    \A m \in approved \cup offered :
        /\ m.proven /\ Deployable(m.promotes, m.linked)
        /\ RunKind(m.by) = "search" => \A i \in 1..Tries : flow[m.by].rank[i] <= flow[m.by].rank[flow[m.by].winner]

\* "compares benchmarked candidates, and keeps the winner" (README.md): unless the search was asked to
\* clean it up, or somebody did, the winner's canary is there when the search ends with success.
WinnerIsKept ==
    \A f \in Flows :
        RunKind(f) = "search" /\ flow[f].at = "ended" /\ progress[f][1] = "completed" /\ ~Order(f).auto =>
            LET n == flow[f].path[flow[f].winner] IN canary[n].dir = "worktree" \/ n \in discarded

=============================================================================
