-------------------------- MODULE PhysicalDispatch --------------------------
(***************************************************************************)
(* Simulation-first dispatch: a run is submitted to a simulation adapter,  *)
(* its status is refreshed, and an action is dispatched to the robot's     *)
(* bridge only through the safety governor.  A record of a run is read,    *)
(* the adapter is awaited, and the whole record is written back, so two    *)
(* calls on one run can cross.                                             *)
(***************************************************************************)
EXTENDS Naturals, FiniteSets

CONSTANTS
    Sims,         \* validation runs
    Calls,        \* calls to the refresh tool
    MaxDispatch,  \* bound on the dispatches of a run
    NoRecord      \* nothing stored, no decision

VARIABLES
    stored,       \* run -> the record in the validation store
    pending,      \* call -> the run and record it holds while it awaits the adapter, or NoRecord
    dispatched,   \* history: run -> the decisions under which the bridge was called
    replay        \* run -> status of the task that replays a trajectory through it, or NoRecord

simVars == <<stored, pending, dispatched, replay>>

\* What an adapter may answer: verdict by its flags, and the health it reports with it.
Answers == [validated : BOOLEAN, state : {"queued", "failed", "unsafe"}, critical : BOOLEAN]

\* The verifier believes the validation flag before it looks at the state.
Verdict(a) ==
    CASE a.validated -> "pass"
      [] ~a.validated /\ a.state = "unsafe" -> "unsafe"
      [] ~a.validated /\ a.state = "queued" -> "uncertain"
      [] ~a.validated /\ a.state = "failed" -> "fail"

\* Mutant of Governor: the verdict alone decides.
Governor_TrustsVerdict(a) ==
    CASE Verdict(a) = "unsafe"    -> "safe_mode"
      [] Verdict(a) = "fail"      -> "reject"
      [] Verdict(a) = "uncertain" -> "require_operator"
      [] Verdict(a) = "pass"      -> "allow"

\* Bad telemetry overrides a good verdict.
Governor(a) ==
    CASE a.state = "unsafe" \/ a.critical -> "safe_mode"
      [] a.state # "unsafe" /\ ~a.critical ->
            CASE Verdict(a) = "fail"      -> "reject"
              [] Verdict(a) = "uncertain" -> "require_operator"
              [] Verdict(a) = "pass"      -> "allow"

Record(a, decision) == [answer |-> a, decision |-> decision]

SimInit ==
    /\ stored = [s \in Sims |-> NoRecord]
    /\ pending = [c \in Calls |-> NoRecord]
    /\ dispatched = [s \in Sims |-> {}]
    /\ replay = [s \in Sims |-> NoRecord]

\* Submission: the adapter is awaited before anything is stored; a replay opens its task first.
Submit(s, a, replays) ==
    /\ stored[s] = NoRecord
    /\ stored' = [stored EXCEPT ![s] = Record(a, NoRecord)]
    /\ replay' = [replay EXCEPT ![s] = IF ~replays THEN NoRecord
                                       ELSE IF a.validated THEN "running" ELSE "awaiting_validation"]
    /\ UNCHANGED <<pending, dispatched>>

\* The adapter refuses a submission: nothing is stored, and a replay's task fails.
SubmitFails(s) ==
    /\ stored[s] = NoRecord /\ replay[s] = NoRecord
    /\ replay' = [replay EXCEPT ![s] = "failed"]
    /\ UNCHANGED <<stored, pending, dispatched>>

\* A refresh is only for a run that is not validated; it keeps the record it has read.
RefreshStarts(c, s) ==
    /\ pending[c] = NoRecord
    /\ stored[s] # NoRecord /\ ~stored[s].answer.validated
    /\ pending' = [pending EXCEPT ![c] = [run |-> s, record |-> stored[s]]]
    /\ UNCHANGED <<stored, dispatched, replay>>

\* The adapter answers; the record that was read is written back with the answer in it.
RefreshEnds(c, a) ==
    /\ pending[c] # NoRecord
    /\ LET s == pending[c].run IN
       /\ stored' = [stored EXCEPT ![s] = Record(a, pending[c].record.decision)]
    /\ pending' = [pending EXCEPT ![c] = NoRecord]
    /\ UNCHANGED <<dispatched, replay>>

\* A failing adapter leaves the record alone.
RefreshFails(c) ==
    /\ pending[c] # NoRecord
    /\ pending' = [pending EXCEPT ![c] = NoRecord]
    /\ UNCHANGED <<stored, dispatched, replay>>

\* What a dispatch decides: an unvalidated run is rejected whatever the governor says.
Decision(a) == IF a.validated THEN Governor(a) ELSE "reject"

Refused(d) == d \in {"safe_mode", "reject"}

\* By itself or as the end of a replay. The decision is stored first; the bridge is called unless it is a refusal or a dry run.
Dispatch(s, real, bridge, own) ==
    /\ stored[s] # NoRecord
    /\ own => replay[s] = "running"
    /\ Cardinality(dispatched[s]) < MaxDispatch
    /\ LET d == Decision(stored[s].answer) IN
       /\ stored' = [stored EXCEPT ![s].decision = d]
       /\ dispatched' = IF ~Refused(d) /\ real /\ bridge
                        THEN [dispatched EXCEPT ![s] = @ \cup {[answer |-> stored[s].answer, decision |-> d]}]
                        ELSE dispatched
       /\ replay' = IF ~own THEN replay
                    ELSE [replay EXCEPT ![s] = IF Refused(d) \/ (real /\ ~bridge) THEN "failed" ELSE "completed"]
    /\ UNCHANGED pending

SimNext ==
    \/ \E s \in Sims, a \in Answers, replays \in BOOLEAN : Submit(s, a, replays)
    \/ \E s \in Sims : SubmitFails(s)
    \/ \E c \in Calls, s \in Sims : RefreshStarts(c, s)
    \/ \E c \in Calls, a \in Answers : RefreshEnds(c, a)
    \/ \E c \in Calls : RefreshFails(c)
    \/ \E s \in Sims, real \in BOOLEAN, bridge \in BOOLEAN, own \in BOOLEAN : Dispatch(s, real, bridge, own)

SimSpec == SimInit /\ [][SimNext]_simVars

\* The robot's bridge is called only under an answer of the adapter that validates the run and has
\* nothing critical or unsafe in it, and by the governor's leave,
\* however refreshes and dispatches cross.
DispatchIsValidated ==
    \A s \in Sims : \A d \in dispatched[s] :
        /\ d.answer.validated /\ ~d.answer.critical /\ d.answer.state # "unsafe"
        /\ d.decision = "allow"

=============================================================================
