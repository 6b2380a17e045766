-------------------------- MODULE ComputerActions --------------------------
(***************************************************************************)
(* computer_click and computer_fill: one action tried on the user's tab,   *)
(* on the desktop and in a managed browser, in this order, until one       *)
(* attempt succeeds and what was expected of it can be seen.  Surfaces     *)
(* come and go, and pages change, between any two looks.                   *)
(***************************************************************************)
EXTENDS Naturals, Sequences, FiniteSets

CONSTANTS
    Requests,     \* what may be asked for, see RequestsAssumption
    MaxChanges    \* bound on changes nobody asked for

Surfaces == {"current_tab", "desktop", "browser"}
Expectations == {"text", "absent", "url", "front"}   \* front: the application in front, a window's title
NotObserved == {"not_observed"}

ASSUME RequestsAssumption ==
    \A r \in Requests :
        /\ {r.selector, r.target, r.managed} \subseteq BOOLEAN /\ (r.selector \/ r.target)
        /\ r.observed = NotObserved \/ r.observed \subseteq {"current_tab", "desktop"}
        /\ r.expects \subseteq Expectations

VARIABLES
    request,
    up,         \* the surfaces that can be reached
    facts,      \* what is true of them: "unwanted" is a text that should be absent
    seen,       \* available_surfaces of the last observation
    attempts,   \* the surfaces tried, with their outcome
    reads,      \* the checks that have passed in this verification
    at,
    acted,      \* history: how often each surface was acted on
    held,       \* history: what has held since the last action, where its check looks
    changes

computerVars == <<request, up, facts, seen, attempts, reads, at, acted, held, changes>>

\* Text is looked for in the managed browser when it was acted on, else in the user's tab; the
\* address is always the one of the user's tab.
Place(surface, e) == CASE e \in {"text", "absent"} -> IF surface = "browser" THEN "browser" ELSE "current_tab"
                       [] e = "url" -> "current_tab"
                       [] e = "front" -> "desktop"

\* What the checks of this request may look at.
Facts == {<<Place(s, e), IF e = "absent" THEN "unwanted" ELSE e>> : s \in Surfaces, e \in request.expects}

Tried == {attempts[i].surface : i \in DOMAIN attempts}
Surface == attempts[Len(attempts)].surface
Succeeded == attempts # << >> /\ attempts[Len(attempts)].ok

\* Positive expectations that hold now, where they are looked for.
Holding(surface, f) == {e \in request.expects : e # "absent" /\ <<Place(surface, e), e>> \in f}

ComputerInit ==
    /\ request \in Requests
    /\ up \in SUBSET Surfaces /\ facts = {}
    /\ seen = {} /\ attempts = << >> /\ reads = {} /\ at = "observe_tab"
    /\ acted = [s \in Surfaces |-> 0] /\ held = {} /\ changes = 0

\* _resolve_observation: what the caller has observed stands for the whole call.
ObserveTab ==
    /\ at = "observe_tab"
    /\ IF request.observed # NotObserved
       THEN seen' = request.observed /\ at' = "choose"
       ELSE /\ seen' = IF request.selector /\ "current_tab" \in up THEN {"current_tab"} ELSE {}
            /\ at' = "observe_desktop"
    /\ UNCHANGED <<request, up, facts, attempts, reads, acted, held, changes>>

ObserveDesktop ==
    /\ at = "observe_desktop"
    /\ seen' = IF "desktop" \in up THEN seen \cup {"desktop"} ELSE seen
    /\ at' = "choose"
    /\ UNCHANGED <<request, up, facts, attempts, reads, acted, held, changes>>

\* _candidate_strategies, without those that were tried before.
Candidates ==
    {s \in Surfaces : CASE s = "current_tab" -> request.selector /\ s \in seen
                        [] s = "desktop" -> request.target /\ s \in seen
                        [] s = "browser" -> request.selector /\ request.managed} \ Tried

FirstOf(S) == IF "current_tab" \in S THEN "current_tab" ELSE IF "desktop" \in S THEN "desktop" ELSE "browser"

GiveUp ==
    /\ at = "choose" /\ Candidates = {}
    /\ at' = "done"
    /\ UNCHANGED <<request, up, facts, seen, attempts, reads, acted, held, changes>>

\* Mutant of NoReads: what an earlier verification has seen still counts.
NoReads_Kept == reads

NoReads == {}

\* Where an attempt leads: a verification, the end, or the next surface.
AfterAct(ok) == IF ~ok THEN "retry" ELSE IF request.expects = {} THEN "done" ELSE "verify_url"

\* The action may have its effect, or a part of it, and still be reported as failed.
ActOn(ok, new) ==
    LET s == FirstOf(Candidates)
        next == {f \in facts : f[1] # s} \cup new
    IN  /\ at = "choose" /\ Candidates # {}
        /\ new \subseteq {f \in Facts : f[1] = s}
        /\ s \notin up => ~ok /\ next = facts
        /\ facts' = next
        /\ attempts' = Append(attempts, [surface |-> s, ok |-> ok, verdict |-> "none"])
        /\ acted' = [acted EXCEPT ![s] = IF s \in up THEN @ + 1 ELSE @]
        /\ held' = Holding(s, next)
        /\ reads' = NoReads
        /\ at' = AfterAct(ok)
        /\ UNCHANGED <<request, up, seen, changes>>

\* A look that fails reads an empty text: what should be absent is.
Passes(e) ==
    LET place == Place(Surface, e) IN
    IF e = "absent" THEN place \notin up \/ <<place, "unwanted">> \notin facts
    ELSE place \in up /\ <<place, e>> \in facts

\* _verification_snapshot looks at the address, the text and the desktop one after the other.
Reads(S) == reads' = reads \cup {e \in S \cap request.expects : Passes(e)}

VerifyUrl ==
    /\ at = "verify_url" /\ Reads({"url"}) /\ at' = "verify_text"
    /\ UNCHANGED <<request, up, facts, seen, attempts, acted, held, changes>>

VerifyText ==
    /\ at = "verify_text" /\ Reads({"text", "absent"}) /\ at' = "verify_front"
    /\ UNCHANGED <<request, up, facts, seen, attempts, acted, held, changes>>

VerifyFront ==
    /\ at = "verify_front" /\ Reads({"front"}) /\ at' = "judge"
    /\ UNCHANGED <<request, up, facts, seen, attempts, acted, held, changes>>

\* _verification_status.
VerificationStatus == IF reads = request.expects THEN "pass" ELSE IF reads # {} THEN "partial_pass" ELSE "fail"

Judge ==
    /\ at = "judge"
    /\ attempts' = [attempts EXCEPT ![Len(attempts)].verdict = VerificationStatus]
    /\ at' = IF VerificationStatus = "pass" THEN "done" ELSE "retry"
    /\ UNCHANGED <<request, up, facts, seen, reads, acted, held, changes>>

\* A failed attempt is followed by a fresh observation, unless it is the caller's.
TryAgain ==
    /\ at = "retry"
    /\ at' = IF request.observed # NotObserved THEN "choose" ELSE "observe_tab"
    /\ UNCHANGED <<request, up, facts, seen, attempts, reads, acted, held, changes>>

\* The verification reported is the last one there was, of whichever attempt.
FinalVerdict ==
    LET verified == {i \in DOMAIN attempts : attempts[i].verdict # "none"}
    IN  IF verified = {} THEN "none" ELSE attempts[CHOOSE i \in verified : \A j \in verified : j <= i].verdict

ReportedSuccess == Succeeded /\ FinalVerdict \in {"none", "pass"}

\* The status of the trajectory.
TrajectoryStatus == IF ~ReportedSuccess THEN "failed" ELSE IF Len(attempts) > 1 THEN "recovered" ELSE "success"

\* A surface comes or goes, something on a page changes.
SurfaceFlips(s) ==
    /\ at # "done" /\ changes < MaxChanges /\ changes' = changes + 1
    /\ up' = IF s \in up THEN up \ {s} ELSE up \cup {s}
    /\ UNCHANGED <<request, facts, seen, attempts, reads, at, acted, held>>

PageChanges(f) ==
    LET next == IF f \in facts THEN facts \ {f} ELSE facts \cup {f} IN
    /\ at # "done" /\ changes < MaxChanges /\ changes' = changes + 1
    /\ facts' = next
    /\ held' = IF attempts = << >> THEN held ELSE held \cup Holding(Surface, next)
    /\ UNCHANGED <<request, up, seen, attempts, reads, at, acted>>

ComputerNext ==
    \/ ObserveTab \/ ObserveDesktop \/ GiveUp
    \/ \E ok \in BOOLEAN, new \in SUBSET Facts : ActOn(ok, new)
    \/ VerifyUrl \/ VerifyText \/ VerifyFront \/ Judge \/ TryAgain
    \/ \E s \in Surfaces : SurfaceFlips(s)
    \/ \E f \in Facts : PageChanges(f)

ComputerSpec == ComputerInit /\ [][ComputerNext]_computerVars

-----------------------------------------------------------------------------
\* A success that is reported is one that could be seen: everything that was expected to be there
\* was there at some time since the last action, although surfaces come and go between the looks
\* and earlier attempts have been verified in part; and the recovery never acts twice on the same
\* surface, nor at all after a verified success.
SuccessIsSeen ==
    /\ at = "done" /\ TrajectoryStatus # "failed" => request.expects \ {"absent"} \subseteq held
    /\ \A s \in Surfaces : acted[s] <= 1
    /\ \A i \in DOMAIN attempts :
          attempts[i].ok /\ attempts[i].verdict = (IF request.expects = {} THEN "none" ELSE "pass")
             => i = Len(attempts)

=============================================================================
