------------------------------ MODULE Promotions ------------------------------
(***************************************************************************)
(* From a mission's improvement candidates to their reuse: evaluation      *)
(* results become a promotion package, an operator's approval makes an     *)
(* artifact of it, and a mission that starts plans which of the artifacts  *)
(* it was given it reuses.  Packages and artifacts are documents in the    *)
(* hands of clients: rejecting one makes another copy.                     *)
(***************************************************************************)
EXTENDS Naturals, FiniteSets

CONSTANTS
    Improvements,  \* candidates, numbered in the order of their identifiers
    Missions,
    Relevance,     \* of an improvement: terms it shares with the contract of a mission
    Always,        \* improvements that are said to apply to any contract
    MaxPerType,    \* what a plan reuses of a type
    MaxCopies,     \* bound on packages and on copies of artifacts
    MaxDay         \* bound on the clock

ASSUME PromotionsAssumption ==
    /\ Improvements \subseteq Nat /\ Always \subseteq Improvements /\ Relevance \in [Improvements -> Nat]
    /\ {MaxPerType, MaxCopies, MaxDay} \subseteq Nat

VARIABLES
    candidateType,
    package,      \* promotion packages
    artifact,     \* copies of approved artifacts
    plan,         \* reuse plans of the missions
    day

promotionVars == <<candidateType, package, artifact, plan, day>>

\* One candidate type of each kind: a single suite, two plain suites, two of which one is for security.
CandidateTypes == {"memory_rule", "skill_recipe", "capability_patch", "policy_patch"}
Sensitive == {"capability_patch", "policy_patch"}
RequiredSuites(type) ==
    CASE type = "memory_rule" -> {"memory_candidate_approval_boundary"}
      [] type = "skill_recipe" -> {"template_contract_generation", "mission_review_artifact_shape"}
      [] OTHER -> {"approval_required_action", "mission_review_artifact_shape"}
AllowedTargets(type) ==
    CASE type = "memory_rule" -> {"approved_improvement_memory", "policy_patch"}
      [] type = "skill_recipe" -> {"approved_skill"}
      [] OTHER -> {type}
Targets == {"approved_improvement_memory", "approved_skill", "capability_patch", "policy_patch"}

NoPlan == [given |-> {}, chosen |-> [t \in Targets |-> {}], on |-> MaxDay + 1]

PromotionInit ==
    /\ candidateType \in [Improvements -> CandidateTypes]
    /\ package = {} /\ artifact = {} /\ plan = [m \in Missions |-> NoPlan] /\ day = 0

\* What run_mission_eval_suite makes of a subject.
Evaluations == [passed : BOOLEAN, score : {0, 1}]

\* compare_mission_eval_results: the candidate passes the suite and no metric is worse than before.
NoRegression(result, before) == result.passed /\ result.score >= before

\* build_promotion_package: one suite, and the security suite of a sensitive type, are evaluated.
Build(i, suite) ==
    /\ Cardinality(package) < MaxCopies /\ suite \in RequiredSuites(candidateType[i])
    /\ \E result \in Evaluations, secure \in BOOLEAN, before \in {0, 1} :
          LET sensitive == candidateType[i] \in Sensitive
              missing == RequiredSuites(candidateType[i]) \
                             ({suite} \cup IF sensitive THEN {"approval_required_action"} ELSE {})
          IN package' = package \cup
                {[of |-> i, missing |-> missing,
                  security |-> IF ~sensitive THEN "none" ELSE IF secure THEN "passed" ELSE "failed",
                  sound |-> NoRegression(result, before),
                  gate |-> missing = {} /\ (sensitive => secure) /\ NoRegression(result, before)]}
    /\ UNCHANGED <<candidateType, artifact, plan, day>>

NeedsSecurity(p, target) == target \in Sensitive \/ candidateType[p.of] \in Sensitive

\* Mutant of Ready: the security evaluation is asked for by the type of the candidate only.
Ready_ByType(p, target) == p.missing = {} /\ p.gate

\* is_promotion_package_approval_ready
Ready(p, target) == p.missing = {} /\ p.gate /\ (NeedsSecurity(p, target) => p.security = "passed")

\* build_approved_promotion_artifact, by an operator with a reference to the approval.
ApprovePackage(p, target) ==
    /\ Cardinality(artifact) < MaxCopies
    /\ target \in AllowedTargets(candidateType[p.of]) /\ Ready(p, target)
    /\ \E expires \in 1..(MaxDay + 1) :      \* the last: it does not expire
          artifact' = artifact \cup {[of |-> p.of, target |-> target, package |-> p, status |-> "approved",
                                      expires |-> expires, invalidated |-> FALSE]}
    /\ UNCHANGED <<candidateType, package, plan, day>>

Reject(a) ==
    /\ Cardinality(artifact) < MaxCopies
    /\ artifact' = artifact \cup {[a EXCEPT !.status = "rejected"]}
    /\ UNCHANGED <<candidateType, package, plan, day>>

\* The invalidation rule is found to apply.
Invalidate(a) ==
    /\ Cardinality(artifact) < MaxCopies
    /\ artifact' = artifact \cup {[a EXCEPT !.invalidated = TRUE]}
    /\ UNCHANGED <<candidateType, package, plan, day>>

Expired(a, on) == a.expires <= on

\* The terms of the artifact and of the contract meet.
Matches(a) == Relevance[a.of] > 0 \/ a.of \in Always

\* Approved, not expired, not invalidated, and of some relevance to the contract.
Usable(a) ==
    /\ a.status = "approved" /\ ~a.invalidated /\ ~Expired(a, day)
    /\ Matches(a)

\* By relevance, then by identifier; copies of one artifact in the order in which they are listed.
Before(a, b) ==
    \/ Relevance[a.of] > Relevance[b.of]
    \/ Relevance[a.of] = Relevance[b.of] /\ a.of < b.of

\* The first MaxPerType of a type.
Chosen(given, target) ==
    LET usable == {a \in given : a.target = target /\ Usable(a)} IN
    {s \in SUBSET usable :
        /\ Cardinality(s) = IF Cardinality(usable) < MaxPerType THEN Cardinality(usable) ELSE MaxPerType
        /\ \A a \in s, b \in usable \ s : ~Before(b, a)}

\* A mission starts with the artifacts its client hands over; the plan stays with its task.
StartMission(m, given) ==
    /\ plan[m] = NoPlan
    /\ \E chosen \in [Targets -> SUBSET given] :
          /\ \A t \in Targets : chosen[t] \in Chosen(given, t)
          /\ plan' = [plan EXCEPT ![m] = [given |-> given, chosen |-> chosen, on |-> day]]
    /\ UNCHANGED <<candidateType, package, artifact, day>>

Day == day < MaxDay /\ day' = day + 1 /\ UNCHANGED <<candidateType, package, artifact, plan>>

PromotionNext ==
    \/ \E i \in Improvements : \E suite \in RequiredSuites(candidateType[i]) : Build(i, suite)
    \/ \E p \in package, t \in Targets : ApprovePackage(p, t)
    \/ \E a \in artifact : Reject(a) \/ Invalidate(a)
    \/ \E m \in Missions, given \in SUBSET artifact : StartMission(m, given)
    \/ Day

PromotionSpec == PromotionInit /\ [][PromotionNext]_promotionVars

-----------------------------------------------------------------------------
\* Whatever a mission plans to reuse was, on the day it started and as far as the copy it was given
\* tells, approved and in force, over an evaluation that passed every suite its type requires without a
\* regression, the security suite too when the candidate or what it becomes is sensitive; and nothing
\* of the same type that it left out would have served it better.
ReuseIsEarned ==
    \A m \in Missions :
        \A t \in Targets :
            /\ Cardinality(plan[m].chosen[t]) <= MaxPerType
            /\ \A a \in plan[m].chosen[t] :
                  /\ a.status = "approved" /\ ~Expired(a, plan[m].on) /\ ~a.invalidated
                  /\ a.package.missing = {} /\ a.package.sound
                  /\ {t, candidateType[a.of]} \cap Sensitive # {} => a.package.security = "passed"
                  /\ \A b \in plan[m].given \ plan[m].chosen[t] :
                        b.target = t /\ b.status = "approved" /\ ~Expired(b, plan[m].on) /\ ~b.invalidated =>
                            Relevance[b.of] <= Relevance[a.of]

=============================================================================
