----------------------------- MODULE ToolApprovals -----------------------------
(***************************************************************************)
(* ToolPolicyEngine's approvals (src/src/security/tool_policy.py): a tool  *)
(* call that needs one asks the operator and waits; the answer can become  *)
(* a grant for the whole session, which a sub-agent's session inherits     *)
(* when it opens; everything expires.                                      *)
(*                                                                         *)
(* A call is one guarded tool call.  The approval it asked for and the     *)
(* copies sub-agent sessions inherit of it form approvals[c]: at most one  *)
(* per session, for a session is opened once.  Every method of the engine  *)
(* but the wait itself runs without an await, and begins by expiring what  *)
(* is due ("Due").                                                         *)
(*                                                                         *)
(* wait_for starts no earlier than the approval's own clock and resolving  *)
(* expires what is due first, so the timer fires only on an unanswered     *)
(* wait: an answer's callback is queued before the timer's.                *)
(***************************************************************************)
EXTENDS Integers, FiniteSets

CONSTANTS
    Calls,        \* tool calls that need an approval
    Sessions,     \* chat sessions and the sub-agents' own sessions
    Spawner,      \* Spawner[s]: the session that spawns sub-agent session s
    TTL,          \* the default timeout, _DEFAULT_APPROVAL_TTL_SECONDS
    Instants,     \* bound: the times at which something happens
    Horizon,      \* bound: requests are made, and delivered, up to this time
    Expiries      \* bound: expiries the operator may set instead of the default

Subsessions == DOMAIN Spawner

ASSUME ToolApprovalsAssumption ==
    /\ TTL \in Nat \ {0} /\ Horizon \in Nat
    /\ Instants \subseteq Nat /\ 0 \in Instants /\ Expiries \subseteq Nat
    /\ Spawner \in [Subsessions -> Sessions] /\ Subsessions \subseteq Sessions
    /\ \A s \in Subsessions : Spawner[s] # s

VARIABLES
    now,        \* the clock
    channel,    \* a notifier is set
    opened,     \* the sessions that exist
    home,       \* home[c]: the session a call is made in
    pc,         \* where a call is
    until,      \* when the wait_for of a waiting call times out
    waiters,    \* _approval_waiters: calls whose future is registered
    answer,     \* what a call's future holds
    approvals   \* _approvals: approvals[c][s]

vars == <<now, channel, opened, home, pc, until, waiters, answer, approvals>>

States == {"none", "pending", "expiring", "approved", "propagated", "denied", "expired"}
Unresolved == {"pending", "expiring"}
Granting == {"approved", "propagated"}

\* "granted" is history: the operator said yes, here or to what was inherited.
Approval == [state : States, scope : {"single", "session"}, covers : SUBSET Calls,
             propagate : BOOLEAN, expires : Int, granted : BOOLEAN]

NoApproval == [state |-> "none", scope |-> "single", covers |-> {},
               propagate |-> FALSE, expires |-> 0, granted |-> FALSE]

-----------------------------------------------------------------------------
\* Denied or expired: nothing reads what it would have allowed any more.
Over(a, st) == [NoApproval EXCEPT !.state = st, !.granted = a.granted]

\* is_expired, and is_expiring: 80 % of the time to live has passed (asked of a
\* pending approval only, which was created TTL before it expires).
IsExpired(a) == now >= a.expires
IsExpiring(a) == now < a.expires /\ 5 * (now - (a.expires - TTL)) >= 4 * TTL

\* cleanup_expired for one approval.
Due(a) ==
    IF a.state = "pending" /\ IsExpiring(a) THEN [a EXCEPT !.state = "expiring"]
    ELSE IF a.state \in Unresolved \cup Granting /\ IsExpired(a)
    THEN Over(a, "expired") ELSE a

\* The approvals once cleanup_expired has run.
Cleaned == [c \in Calls |-> [s \in Sessions |-> Due(approvals[c][s])]]

\* The waiters of what it expires, which are told so.
Overdue == {c \in waiters : LET a == approvals[c][home[c]]
                            IN a.state # "expired" /\ Due(a).state = "expired"}

AnswerExpired ==
    /\ waiters' = waiters \ Overdue
    /\ answer' = [c \in Calls |-> IF c \in Overdue THEN "no" ELSE answer[c]]

Cleanup == approvals' = Cleaned /\ AnswerExpired

-----------------------------------------------------------------------------
Init ==
    /\ now = 0 /\ channel \in BOOLEAN
    /\ opened = Sessions \ Subsessions
    /\ home \in [Calls -> Sessions]
    /\ pc = [c \in Calls |-> "new"]
    /\ until = [c \in Calls |-> 0]
    /\ waiters = {} /\ answer = [c \in Calls |-> "none"]
    /\ approvals = [c \in Calls |-> [s \in Sessions |-> NoApproval]]

Tick ==
    /\ now >= Horizon => \A c \in Calls : pc[c] # "notifying"
    /\ \E t \in Instants :
         /\ t > now /\ \A other \in Instants : other > now => t <= other
         /\ now' = t
    /\ UNCHANGED <<channel, opened, home, pc, until, waiters, answer, approvals>>

\* The gateway's heartbeat, and any listing of the approvals.
Heartbeat ==
    /\ Cleanup
    /\ UNCHANGED <<now, channel, opened, home, pc, until>>

\* _find_matching_approval: session grants for the session that cover the call
\* (which of them is reported as the one reused is left out).
Reusable(c) ==
    {d \in Calls : LET a == Cleaned[d][home[c]]
                   IN a.state \in Granting /\ a.scope = "session" /\ c \in a.covers}

MayAsk(c) == pc[c] = "new" /\ home[c] \in opened /\ now <= Horizon

\* A grant that covers the call lets it through at once.
Reuse(c) ==
    /\ MayAsk(c) /\ Reusable(c) # {}
    /\ pc' = [pc EXCEPT ![c] = "granted"]
    /\ Cleanup
    /\ UNCHANGED <<now, channel, opened, home, until>>

NoChannel(c) ==
    /\ MayAsk(c) /\ Reusable(c) = {} /\ ~channel
    /\ pc' = [pc EXCEPT ![c] = "refused"]
    /\ Cleanup
    /\ UNCHANGED <<now, channel, opened, home, until>>

NewApproval(c) ==
    [state |-> "pending", scope |-> "single", covers |-> {c}, propagate |-> FALSE,
     expires |-> now + TTL, granted |-> FALSE]

\* The approval is created, its future registered and the operator notified.
Ask(c) ==
    /\ MayAsk(c) /\ Reusable(c) = {} /\ channel
    /\ approvals' = [Cleaned EXCEPT ![c][home[c]] = NewApproval(c)]
    /\ waiters' = (waiters \ Overdue) \cup {c}
    /\ answer' = [d \in Calls |-> IF d \in Overdue THEN "no" ELSE answer[d]]
    /\ pc' = [pc EXCEPT ![c] = "notifying"]
    /\ UNCHANGED <<now, channel, opened, home, until>>

\* The notification could not be sent: the approval is forgotten, even if it was
\* resolved meanwhile (what it said stays here for the properties to compare).
NotifyFails(c) ==
    /\ pc[c] = "notifying"
    /\ pc' = [pc EXCEPT ![c] = "refused"]
    /\ approvals' = [approvals EXCEPT ![c][home[c]].state = "none"]
    /\ waiters' = waiters \ {c}
    /\ answer' = [answer EXCEPT ![c] = "none"]
    /\ UNCHANGED <<now, channel, opened, home, until>>

\* Mutant of Delivered: the future is awaited without a timeout.
Delivered_NoTimeout(c) ==
    /\ pc[c] = "notifying"
    /\ pc' = [pc EXCEPT ![c] = "waiting"]
    /\ until' = [until EXCEPT ![c] = now + 100 * TTL]
    /\ UNCHANGED <<now, channel, opened, home, waiters, answer, approvals>>

Delivered(c) ==
    /\ pc[c] = "notifying"
    /\ pc' = [pc EXCEPT ![c] = "waiting"]
    /\ until' = [until EXCEPT ![c] = now + TTL]
    /\ UNCHANGED <<now, channel, opened, home, waiters, answer, approvals>>

\* The future was answered.
Answered(c) ==
    /\ pc[c] = "waiting" /\ answer[c] # "none"
    /\ pc' = [pc EXCEPT ![c] = IF answer[c] = "yes" THEN "granted" ELSE "refused"]
    /\ answer' = [answer EXCEPT ![c] = "none"]
    /\ until' = [until EXCEPT ![c] = 0]
    /\ UNCHANGED <<now, channel, opened, home, waiters, approvals>>

\* wait_for times out and cancels the future.  The cleanup that follows expires
\* this call's approval with the others that are due.
TimesOut(c) ==
    /\ pc[c] = "waiting" /\ answer[c] = "none" /\ now >= until[c]
    /\ pc' = [pc EXCEPT ![c] = "refused"]
    /\ until' = [until EXCEPT ![c] = 0]
    /\ approvals' = Cleaned
    /\ waiters' = waiters \ Overdue
    /\ answer' = [d \in Calls |-> IF d \in Overdue \ {c} THEN "no" ELSE answer[d]]
    /\ UNCHANGED <<now, channel, opened, home>>

\* The agent's turn is cancelled: only a call that waits withdraws its future,
\* and none withdraws its approval.
Cancelled(c) ==
    /\ pc[c] \in {"notifying", "waiting"}
    /\ pc' = [pc EXCEPT ![c] = "cancelled"]
    /\ until' = [until EXCEPT ![c] = 0]
    /\ waiters' = IF pc[c] = "waiting" THEN waiters \ {c} ELSE waiters
    /\ UNCHANGED <<now, channel, opened, home, answer, approvals>>

-----------------------------------------------------------------------------
\* What the operator may grant: this call alone, or a grant for the session with
\* a pattern, an expiry (the request's own, or another) and whether sub-agents
\* inherit it.
Yes(c) == [Cleaned[c][home[c]] EXCEPT !.state = "approved", !.granted = TRUE]

SessionGrant(yes, more, e, p) ==
    [yes EXCEPT !.scope = "session", !.covers = yes.covers \cup more, !.expires = e, !.propagate = p]

Grants(c) ==
    {Yes(c)} \cup {SessionGrant(Yes(c), more, e, p) :
                      more \in {{}, Calls}, e \in {Yes(c).expires} \cup Expiries, p \in BOOLEAN}

Resolve(c, reply, a) ==
    /\ approvals' = [Cleaned EXCEPT ![c][home[c]] = a]
    /\ waiters' = (waiters \ Overdue) \ {c}
    /\ answer' = [d \in Calls |-> IF d = c /\ c \in waiters THEN reply
                                  ELSE IF d \in Overdue THEN "no" ELSE answer[d]]
    /\ UNCHANGED <<now, channel, opened, home, pc, until>>

\* The gateway reads the approval first, which expires what is due.
MayResolve(c) == Cleaned[c][home[c]].state \in Unresolved

Approve(c) == MayResolve(c) /\ \E a \in Grants(c) : Resolve(c, "yes", a)

Deny(c) ==
    MayResolve(c) /\ Resolve(c, "no", Over(Cleaned[c][home[c]], "denied"))

-----------------------------------------------------------------------------
\* Mutant of Inherited: the copy's time to live starts again.
Inherited_Renewed(a) == [a EXCEPT !.state = "propagated", !.expires = now + TTL]

Inherited(a) == [a EXCEPT !.state = "propagated"]

\* Mutant of Propagates: sub-agents inherit every session grant.
Propagates_Always(a) == a.state \in Granting /\ a.scope = "session"

Propagates(a) == a.state \in Granting /\ a.scope = "session" /\ a.propagate

\* A sub-agent's worker opened its session: propagate_approvals_to_session.
OpenSession(s) ==
    /\ s \notin opened /\ Spawner[s] \in opened
    /\ opened' = opened \cup {s}
    /\ approvals' = [c \in Calls |->
         LET a == Cleaned[c][Spawner[s]] IN
         IF Propagates(a) THEN [Cleaned[c] EXCEPT ![s] = Inherited(a)]
         ELSE Cleaned[c]]
    /\ AnswerExpired
    /\ UNCHANGED <<now, channel, home, pc, until>>

Next ==
    \/ Tick \/ Heartbeat
    \/ \E c \in Calls :
         \/ Reuse(c) \/ NoChannel(c) \/ Ask(c) \/ NotifyFails(c) \/ Delivered(c)
         \/ Answered(c) \/ TimesOut(c) \/ Cancelled(c)
         \/ Approve(c) \/ Deny(c)
    \/ \E s \in Subsessions : OpenSession(s)

Spec == Init /\ [][Next]_vars

\* Fairness: time passes, the notifier returns or raises, and the event loop
\* runs a waiter or its timer.  The operator owes nothing.
Fairness ==
    /\ WF_vars(Tick)
    /\ \A c \in Calls :
         WF_vars(NotifyFails(c) \/ Delivered(c)) /\ WF_vars(Answered(c) \/ TimesOut(c))

LiveSpec == Spec /\ Fairness

-----------------------------------------------------------------------------
\* TypeOK: every variable keeps its shape.
TypeOK ==
    /\ now \in Instants /\ channel \in BOOLEAN /\ opened \subseteq Sessions
    /\ home \in [Calls -> Sessions]
    /\ pc \in [Calls -> {"new", "notifying", "waiting", "granted", "refused", "cancelled"}]
    /\ until \in [Calls -> Int]
    /\ waiters \subseteq Calls /\ answer \in [Calls -> {"none", "yes", "no"}]
    /\ approvals \in [Calls -> [Sessions -> Approval]]

\* CopiesEndWithTheirSource: an inherited grant is in force only while the one
\* it was copied from is, to the same moment (tool_policy.py:755-777).  (A
\* source is taken away if its notification fails after the answer: only its
\* requester is refused then.)
CopiesEndWithTheirSource ==
    \A c \in Calls, s \in Subsessions : approvals[c][s].state = "propagated" =>
        LET source == approvals[c][Spawner[s]] IN
        /\ source.state \in Granting \cup {"none"}
        /\ source.expires = approvals[c][s].expires

\* GrantsAreLicensed: a call is only ever let through by the operator's own
\* "yes" to it, or by a session grant in force that covers it and that the
\* operator gave in its session or, with the propagation flag, in the session
\* it was spawned from, all the way up (tool_policy.py:737-823, 859-865).
GrantsAreLicensed ==
    [][\A c \in Calls : pc[c] # "granted" /\ pc'[c] = "granted" =>
         \/ pc[c] = "waiting" /\ approvals[c][home[c]].granted
         \/ pc[c] = "new" /\ \E d \in Calls :
              LET used == approvals'[d][home[c]]
                  given == approvals'[d][home[d]] IN
              /\ used.scope = "session" /\ c \in used.covers /\ ~IsExpired(used)
              /\ used.granted /\ given.granted
              /\ home[d] # home[c] => used.state = "propagated" /\ given.propagate]_vars

\* RequestsEnd: every call that asks is let through or refused, although the
\* operator never answers.
RequestsEnd ==
    \A c \in Calls : pc[c] = "notifying" ~> pc[c] \in {"granted", "refused", "cancelled"}

=============================================================================
