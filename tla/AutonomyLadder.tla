--------------------------- MODULE AutonomyLadder ---------------------------
(***************************************************************************)
(* The last artifacts before an operator's review: the limited-live-action *)
(* gate with its approval package, the rehearsal, and the tenth-stage      *)
(* readiness check.  Every builder makes a frozen artifact out of earlier  *)
(* ones.  Nothing here executes anything, so what matters is what an       *)
(* artifact that says "ready" rests on.                                    *)
(*                                                                         *)
(* References are opaque strings in the code.  Here a reference names the  *)
(* kind of evidence and whether what it names was in order (`good`): the   *)
(* builders see only that it is there.                                     *)
(***************************************************************************)
EXTENDS Integers, FiniteSets, Sequences

CONSTANTS
    Proposals,   \* pairs of a subject and a proposed action
    NoRef        \* no reference, no artifact

VARIABLES
    liveGate,    \* the last LimitedLiveActionGateResult, with its package, or NoRef
    rehearsal,   \* the last LimitedLiveActionRehearsal, or NoRef
    check        \* the last TenthStageReadinessCheck, or NoRef

ladderVars == <<liveGate, rehearsal, check>>

Kinds == {"autonomy_gate_result", "hil_telemetry_review", "emergency_stop_evidence", "rollback_plan",
          "action_allowlist", "operator_responsibility_ack", "audit_log"}

Refs(kind) == [kind : {kind}, good : BOOLEAN]

Missing(refs) == {k \in Kinds : refs[k] = NoRef}

\* One gate result and the approval package made with it, for a proposal and the references given.
LiveGate(p, refs) ==
    [proposal |-> p, refs |-> refs, passed |-> Missing(refs) = {},
     package  |-> [proposal |-> p, refs |-> {refs[k] : k \in Kinds} \ {NoRef}]]

\* Artifacts are frozen and their builders keep no state, so one of each is enough.
BuildLiveGate(p, refs) ==
    /\ liveGate = NoRef
    /\ liveGate' = LiveGate(p, refs)
    /\ UNCHANGED <<rehearsal, check>>

\* The kinds a rehearsal names itself; the allowlist stays with the gate.
RehearsedKinds == Kinds \ {"action_allowlist"}

\* Mutant of RehearsalMissing: the gate's verdict is not looked at.
RehearsalMissing_AnyGate(g, package, mission, refs) ==
    {k \in RehearsedKinds : refs[k] = NoRef}
      \cup (IF mission THEN {} ELSE {"mission_contract"})
      \cup (IF package.refs # {} THEN {} ELSE {"limited_live_action_approval_package_ready"})

RehearsalMissing(g, package, mission, refs) ==
    {k \in RehearsedKinds : refs[k] = NoRef}
      \cup (IF mission THEN {} ELSE {"mission_contract"})
      \cup (IF g.passed THEN {} ELSE {"limited_live_action_gate_operator_review_ready"})
      \cup (IF package.refs # {} THEN {} ELSE {"limited_live_action_approval_package_ready"})

\* A reference given to the rehearsal takes the place of the gate's.
Chosen(g, own, k) == IF own[k] # NoRef THEN own[k] ELSE g.refs[k]

Rehearsal(g, package, mission, own) ==
    LET refs == [k \in RehearsedKinds |-> Chosen(g, own, k)] IN
    [gate |-> g, package |-> package, mission |-> mission, refs |-> refs,
     ready |-> RehearsalMissing(g, package, mission, refs) = {}]

\* A package of another proposal is refused with an error.
BuildRehearsal(package, mission, own) ==
    /\ liveGate # NoRef /\ rehearsal = NoRef
    /\ package.proposal = liveGate.proposal
    /\ rehearsal' = Rehearsal(liveGate, package, mission, own)
    /\ UNCHANGED <<liveGate, check>>

\* What the adopting organisation must name.
Adoption == {"adopting_organization", "hardware_owner", "controller", "emergency_stop_process"}

ReadinessMissing(r, named) ==
    {k \in RehearsedKinds : r.refs[k] = NoRef}
      \cup (IF r.mission THEN {} ELSE {"mission_contract"})
      \cup (IF r.ready THEN {} ELSE {"limited_live_action_rehearsal_ready_for_operator_review"})
      \cup (Adoption \ named)

\* The checklist never allows a live action: it only says whether it is complete.
BuildReadinessCheck(named) ==
    /\ rehearsal # NoRef /\ check = NoRef
    /\ check' = [named |-> named, ready |-> ReadinessMissing(rehearsal, named) = {}]
    /\ UNCHANGED <<liveGate, rehearsal>>

-----------------------------------------------------------------------------
LadderInit == liveGate = NoRef /\ rehearsal = NoRef /\ check = NoRef

\* One kind may be missing or not in order at a time: the builders treat every kind alike.
Complete == [k \in Kinds |-> [kind |-> k, good |-> TRUE]]
GivenRefs == {[Complete EXCEPT ![k] = ref] : k \in Kinds, ref \in {NoRef} \cup UNION {Refs(j) : j \in Kinds}}
NoOverrides == [k \in Kinds |-> NoRef]
Overrides == {NoOverrides} \cup {[NoOverrides EXCEPT ![k] = ref] : k \in RehearsedKinds, ref \in UNION {Refs(j) : j \in Kinds}}
WellKinded(refs) == \A k \in Kinds : refs[k] # NoRef => refs[k].kind = k

\* The package of the gate itself, or one made for a proposal with no evidence.
Packages(g) == {g.package} \cup {[proposal |-> p, refs |-> {}] : p \in Proposals}

LadderNext ==
    \/ \E p \in Proposals, refs \in GivenRefs : WellKinded(refs) /\ BuildLiveGate(p, refs)
    \/ \E mission \in BOOLEAN, own \in Overrides :
          /\ liveGate # NoRef /\ WellKinded(own)
          /\ \E package \in Packages(liveGate) : BuildRehearsal(package, mission, own)
    \/ \E absent \in SUBSET Adoption : Cardinality(absent) <= 1 /\ BuildReadinessCheck(Adoption \ absent)

LadderSpec == LadderInit /\ [][LadderNext]_ladderVars

-----------------------------------------------------------------------------
\* A checklist that says ready rests on the whole ladder: a ready rehearsal of a gate that passed,
\* with a package made for the same proposal, a reference of every kind of evidence in the gate and
\* in the rehearsal, a mission contract, and every party of the adopting organisation.
ReadinessTracesBack ==
    check # NoRef /\ check.ready =>
        LET r == rehearsal IN
        /\ r.ready /\ r.mission
        /\ r.gate.passed /\ r.package.proposal = r.gate.proposal
        /\ \A k \in Kinds : r.gate.refs[k] # NoRef
        /\ \A k \in RehearsedKinds : r.refs[k] # NoRef
        /\ check.named = Adoption

=============================================================================
