------------------------- MODULE ToolApprovalsProofs -------------------------
(***************************************************************************)
(* Proofs about approvals, for any calls, sessions, spawners and times:    *)
(* a copy ends with its source, and no call is let through without the     *)
(* operator's "yes".                                                       *)
(*                                                                         *)
(* A copy may have been copied again, so what is inductive is said of the  *)
(* whole table (Settled): every copy has the expiry of the approval in its *)
(* home session, which was granted for sub-agents.  Every method expires   *)
(* what is due before it does anything else; that keeps the table settled  *)
(* (CleanedIsSettled), for a copy is due when its source is.               *)
(***************************************************************************)
EXTENDS ToolApprovals, TLAPS

Table == [Calls -> [Sessions -> Approval]]

Settled(t, open) ==
    \A c \in Calls, s \in Sessions :
        /\ s # home[c] => t[c][s].state \in {"none", "propagated", "expired"}
        /\ s = home[c] => t[c][s].state # "propagated"
        /\ t[c][s].state \in Granting => t[c][s].granted
        /\ t[c][s].state = "propagated" =>
              /\ s \in Subsessions /\ s \in open /\ Spawner[s] \in open
              /\ t[c][Spawner[s]].state \in Granting \cup {"none"}
              /\ t[c][Spawner[s]].expires = t[c][s].expires
              /\ t[c][home[c]].state \in {"approved", "none"}
              /\ t[c][home[c]].expires = t[c][s].expires
              /\ t[c][home[c]].granted /\ t[c][home[c]].propagate

\* A call that was not made yet has left nothing, and none is made in a session that is not open.
Unasked ==
    \A c \in Calls :
        /\ pc[c] = "new" => answer[c] = "none" /\ c \notin waiters
        /\ home[c] \notin opened => pc[c] = "new"
Blank(t) == \A c \in Calls : pc[c] = "new" => \A s \in Sessions : t[c][s] = NoApproval

\* A future that holds a "yes" holds the operator's.
YesIsGiven == \A c \in Calls : answer[c] = "yes" => approvals[c][home[c]].granted

ApprovalsInv == TypeOK /\ Settled(approvals, opened) /\ Unasked /\ Blank(approvals) /\ YesIsGiven

-----------------------------------------------------------------------------
LEMMA NoApprovalTyped == NoApproval \in Approval /\ NoApproval.state = "none"
BY DEF NoApproval, Approval, States

\* What expiring does to one approval.
LEMMA DueFacts ==
    ASSUME TypeOK, NEW a \in Approval
    PROVE  /\ Due(a) \in Approval /\ Due(a).granted = a.granted
           /\ \/ Due(a) = a /\ (a.state \in Granting => ~IsExpired(a))
              \/ a.state = "pending" /\ Due(a).state = "expiring"
              \/ a.state \in Unresolved \cup Granting /\ Due(a).state = "expired" /\ IsExpired(a)
           /\ a.state \in Granting /\ ~IsExpired(a) => Due(a) = a
<1>1. CASE a.state = "pending" /\ IsExpiring(a)
  <2> DEFINE x == [a EXCEPT !.state = "expiring"]
  <2>1. x \in Approval /\ x.granted = a.granted /\ x.state = "expiring"
      BY DEF Approval, States
  <2>2. Due(a) = x
      BY <1>1 DEF Due
  <2> HIDE DEF x
  <2> QED
      BY <1>1, <2>1, <2>2 DEF Granting
<1>2. CASE ~(a.state = "pending" /\ IsExpiring(a)) /\ a.state \in Unresolved \cup Granting /\ IsExpired(a)
  <2> DEFINE x == Over(a, "expired")
  <2>1. x \in Approval /\ x.granted = a.granted /\ x.state = "expired"
      BY NoApprovalTyped DEF Over, Approval, States
  <2>2. Due(a) = x
      BY <1>2 DEF Due
  <2> HIDE DEF x
  <2> QED
      BY <1>2, <2>1, <2>2
<1>3. CASE ~(a.state = "pending" /\ IsExpiring(a)) /\ ~(a.state \in Unresolved \cup Granting /\ IsExpired(a))
  <2>1. Due(a) = a
      BY <1>3 DEF Due
  <2> QED
      BY <1>3, <2>1
<1> QED
    BY <1>1, <1>2, <1>3

LEMMA CleanedFacts ==
    ASSUME TypeOK
    PROVE  /\ Cleaned \in Table
           /\ \A c \in Calls, s \in Sessions : Cleaned[c][s] = Due(approvals[c][s]) /\ approvals[c][s] \in Approval
<1>1. \A c \in Calls, s \in Sessions : approvals[c][s] \in Approval
    BY DEF TypeOK
<1>2. \A c \in Calls, s \in Sessions : Due(approvals[c][s]) \in Approval
    BY <1>1, DueFacts
<1> QED
    BY <1>1, <1>2 DEF Cleaned, Table

\* Expiring what is due keeps the table settled.
LEMMA CleanedIsSettled ==
    ASSUME ApprovalsInv
    PROVE  /\ Cleaned \in Table /\ Settled(Cleaned, opened) /\ Blank(Cleaned)
           /\ \A c \in Calls, s \in Sessions : /\ Cleaned[c][s].granted = approvals[c][s].granted
                                               /\ Cleaned[c][s].state \in Granting => ~IsExpired(Cleaned[c][s])
<1>1. /\ Cleaned \in Table
      /\ \A c \in Calls, s \in Sessions : Cleaned[c][s] = Due(approvals[c][s]) /\ approvals[c][s] \in Approval
    BY CleanedFacts DEF ApprovalsInv
<1>2. ASSUME NEW c \in Calls, NEW s \in Sessions
      PROVE  /\ Cleaned[c][s].granted = approvals[c][s].granted
             /\ \/ /\ Cleaned[c][s] = approvals[c][s]
                   /\ approvals[c][s].state \in Granting => ~IsExpired(approvals[c][s])
                \/ approvals[c][s].state = "pending" /\ Cleaned[c][s].state = "expiring"
                \/ /\ approvals[c][s].state \in Unresolved \cup Granting /\ Cleaned[c][s].state = "expired"
                   /\ IsExpired(approvals[c][s])
             /\ approvals[c][s].state \in Granting /\ ~IsExpired(approvals[c][s]) => Cleaned[c][s] = approvals[c][s]
    BY <1>1, DueFacts DEF ApprovalsInv
<1>3. Blank(Cleaned)
  <2> SUFFICES ASSUME NEW c \in Calls, pc[c] = "new", NEW s \in Sessions PROVE Cleaned[c][s] = NoApproval
      BY DEF Blank
  <2>1. approvals[c][s] = NoApproval /\ approvals[c][s].state = "none"
      BY NoApprovalTyped DEF ApprovalsInv, Blank
  <2> QED
      BY <1>2, <2>1 DEF Unresolved, Granting
<1>4. Settled(Cleaned, opened)
  <2> SUFFICES ASSUME NEW c \in Calls, NEW s \in Sessions
               PROVE  /\ s # home[c] => Cleaned[c][s].state \in {"none", "propagated", "expired"}
                      /\ s = home[c] => Cleaned[c][s].state # "propagated"
                      /\ Cleaned[c][s].state \in Granting => Cleaned[c][s].granted
                      /\ Cleaned[c][s].state = "propagated" =>
                            /\ s \in Subsessions /\ s \in opened /\ Spawner[s] \in opened
                            /\ Cleaned[c][Spawner[s]].state \in Granting \cup {"none"}
                            /\ Cleaned[c][Spawner[s]].expires = Cleaned[c][s].expires
                            /\ Cleaned[c][home[c]].state \in {"approved", "none"}
                            /\ Cleaned[c][home[c]].expires = Cleaned[c][s].expires
                            /\ Cleaned[c][home[c]].granted /\ Cleaned[c][home[c]].propagate
      BY DEF Settled
  <2>1. /\ s # home[c] => approvals[c][s].state \in {"none", "propagated", "expired"}
        /\ s = home[c] => approvals[c][s].state # "propagated"
        /\ approvals[c][s].state \in Granting => approvals[c][s].granted
      BY DEF ApprovalsInv, Settled
  <2>2. /\ s # home[c] => Cleaned[c][s].state \in {"none", "propagated", "expired"}
        /\ s = home[c] => Cleaned[c][s].state # "propagated"
        /\ Cleaned[c][s].state \in Granting => Cleaned[c][s].granted
      BY <1>2, <2>1 DEF Granting, Unresolved
  <2>3. ASSUME Cleaned[c][s].state = "propagated"
        PROVE  /\ s \in Subsessions /\ s \in opened /\ Spawner[s] \in opened
               /\ Cleaned[c][Spawner[s]].state \in Granting \cup {"none"}
               /\ Cleaned[c][Spawner[s]].expires = Cleaned[c][s].expires
               /\ Cleaned[c][home[c]].state \in {"approved", "none"}
               /\ Cleaned[c][home[c]].expires = Cleaned[c][s].expires
               /\ Cleaned[c][home[c]].granted /\ Cleaned[c][home[c]].propagate
    <3>1. Cleaned[c][s] = approvals[c][s] /\ approvals[c][s].state = "propagated" /\ ~IsExpired(approvals[c][s])
        BY <1>2, <2>3 DEF Granting
    <3>2. /\ s \in Subsessions /\ s \in opened /\ Spawner[s] \in opened
          /\ Spawner[s] \in Sessions /\ home[c] \in Sessions
          /\ approvals[c][Spawner[s]].state \in Granting \cup {"none"}
          /\ approvals[c][Spawner[s]].expires = approvals[c][s].expires
          /\ approvals[c][home[c]].state \in {"approved", "none"}
          /\ approvals[c][home[c]].expires = approvals[c][s].expires
          /\ approvals[c][home[c]].granted /\ approvals[c][home[c]].propagate
        BY <3>1, ToolApprovalsAssumption DEF ApprovalsInv, Settled, TypeOK
    <3>3. ~IsExpired(approvals[c][Spawner[s]]) /\ ~IsExpired(approvals[c][home[c]])
        BY <3>1, <3>2 DEF IsExpired
    <3>4. Cleaned[c][Spawner[s]] = approvals[c][Spawner[s]]
        BY <1>2, <3>2, <3>3 DEF Granting, Unresolved
    <3>5. Cleaned[c][home[c]] = approvals[c][home[c]]
        BY <1>2, <3>2, <3>3 DEF Granting, Unresolved
    <3> QED
        BY <3>1, <3>2, <3>4, <3>5
  <2> QED
      BY <2>2, <2>3
<1>5. \A c \in Calls, s \in Sessions : /\ Cleaned[c][s].granted = approvals[c][s].granted
                                       /\ Cleaned[c][s].state \in Granting => ~IsExpired(Cleaned[c][s])
    BY <1>2 DEF Granting
<1> QED
    BY <1>1, <1>3, <1>4, <1>5

LEMMA ApprovalsInitially == Init => ApprovalsInv
<1> SUFFICES ASSUME Init PROVE ApprovalsInv
    OBVIOUS
<1>1. TypeOK
    BY NoApprovalTyped, ToolApprovalsAssumption DEF Init, TypeOK
<1>2. \A c \in Calls, s \in Sessions : approvals[c][s] = NoApproval
    BY DEF Init
<1>3. Settled(approvals, opened) /\ Blank(approvals)
    BY <1>2, NoApprovalTyped DEF Settled, Blank, Granting, Init
<1>4. Unasked /\ YesIsGiven
    BY DEF Init, Unasked, YesIsGiven
<1> QED
    BY <1>1, <1>3, <1>4 DEF ApprovalsInv

-----------------------------------------------------------------------------
Places == {"new", "notifying", "waiting", "granted", "refused", "cancelled"}
Answers == {"none", "yes", "no"}

\* What an action has to show.
LEMMA StepKeeps ==
    ASSUME ApprovalsInv, home' = home, channel' = channel, now' \in Instants, opened' \subseteq Sessions,
           pc' \in [Calls -> Places], until' \in [Calls -> Int],
           waiters' \subseteq Calls, answer' \in [Calls -> Answers],
           approvals' \in Table, Settled(approvals', opened'), opened \subseteq opened',
           \A c \in Calls : pc'[c] = "new" =>
               /\ pc[c] = "new" /\ answer'[c] = "none" /\ c \notin waiters'
               /\ \A s \in Sessions : approvals'[c][s] = NoApproval,
           \A c \in Calls : pc'[c] # "new" => pc[c] # "new" \/ home[c] \in opened,
           \A c \in Calls : answer'[c] = "yes" => approvals'[c][home[c]].granted
    PROVE  ApprovalsInv'
<1>1. TypeOK'
    BY DEF ApprovalsInv, TypeOK, Places, Answers, Table
<1>2. Settled(approvals, opened)'
    BY DEF Settled
<1>3. Unasked'
    BY DEF ApprovalsInv, Unasked, TypeOK
<1>4. Blank(approvals)' /\ YesIsGiven'
    BY DEF Blank, YesIsGiven
<1> QED
    BY <1>1, <1>2, <1>3, <1>4 DEF ApprovalsInv

\* Those who wait for what has expired are told so; nobody else hears anything.
LEMMA OverdueFacts ==
    ASSUME ApprovalsInv
    PROVE  /\ Overdue \subseteq waiters /\ waiters \subseteq Calls
           /\ \A c \in Calls : pc[c] = "new" => c \notin Overdue /\ c \notin waiters /\ answer[c] = "none"
           /\ answer \in [Calls -> Answers] /\ pc \in [Calls -> Places] /\ until \in [Calls -> Int]
           /\ now \in Instants /\ opened \subseteq Sessions /\ home \in [Calls -> Sessions]
           /\ now \in Int /\ approvals \in Table
BY ToolApprovalsAssumption DEF ApprovalsInv, Overdue, TypeOK, Unasked, Answers, Places, Table

\* An approval that is put in its home session, when nobody has a copy or the copies still match.
Put(t, c, a) == [t EXCEPT ![c][home[c]] = a]

LEMMA HomeEntry ==
    ASSUME NEW t \in Table, Settled(t, opened), NEW c \in Calls, home \in [Calls -> Sessions], NEW a \in Approval,
           a.state # "propagated", a.state = "approved" => a.granted,
           \/ \A s \in Sessions : t[c][s].state # "propagated"
           \/ /\ a.state = "none" /\ a.expires = t[c][home[c]].expires
              /\ a.granted = t[c][home[c]].granted /\ a.propagate = t[c][home[c]].propagate
    PROVE  /\ Put(t, c, a) \in Table /\ Settled(Put(t, c, a), opened) /\ Put(t, c, a)[c][home[c]] = a
           /\ \A d \in Calls : d # c => Put(t, c, a)[d] = t[d]
<1> DEFINE u == Put(t, c, a)
<1>1. /\ u \in Table /\ home[c] \in Sessions
      /\ \A d \in Calls, s \in Sessions : u[d][s] = IF d = c /\ s = home[c] THEN a ELSE t[d][s]
      /\ \A d \in Calls : d # c => u[d] = t[d]
    BY DEF Table, Put
<1> HIDE DEF u
<1>2. Settled(u, opened)
  <2> SUFFICES ASSUME NEW d \in Calls, NEW s \in Sessions
               PROVE  /\ s # home[d] => u[d][s].state \in {"none", "propagated", "expired"}
                      /\ s = home[d] => u[d][s].state # "propagated"
                      /\ u[d][s].state \in Granting => u[d][s].granted
                      /\ u[d][s].state = "propagated" =>
                            /\ s \in Subsessions /\ s \in opened /\ Spawner[s] \in opened
                            /\ u[d][Spawner[s]].state \in Granting \cup {"none"}
                            /\ u[d][Spawner[s]].expires = u[d][s].expires
                            /\ u[d][home[d]].state \in {"approved", "none"}
                            /\ u[d][home[d]].expires = u[d][s].expires
                            /\ u[d][home[d]].granted /\ u[d][home[d]].propagate
      BY DEF Settled
  <2>1. CASE d # c
    <3>1. u[d] = t[d]
        BY <1>1, <2>1
    <3> QED
        BY <3>1 DEF Settled
  <2>2. CASE d = c
    <3>1. CASE s = home[c]
        BY <1>1, <2>2, <3>1 DEF Granting
    <3>2. CASE s # home[c]
      <4>1. u[c][s] = t[c][s] /\ u[c][home[c]] = a
          BY <1>1, <3>2
      <4>2. /\ t[c][s].state \in {"none", "propagated", "expired"}
            /\ t[c][s].state \in Granting => t[c][s].granted
          BY <3>2 DEF Settled
      <4>3. ASSUME t[c][s].state = "propagated"
            PROVE  /\ s \in Subsessions /\ s \in opened /\ Spawner[s] \in opened
                   /\ u[c][Spawner[s]].state \in Granting \cup {"none"}
                   /\ u[c][Spawner[s]].expires = t[c][s].expires
                   /\ a.state \in {"approved", "none"} /\ a.expires = t[c][s].expires
                   /\ a.granted /\ a.propagate
        <5>1. /\ s \in Subsessions /\ s \in opened /\ Spawner[s] \in opened /\ Spawner[s] \in Sessions
              /\ t[c][Spawner[s]].state \in Granting \cup {"none"}
              /\ t[c][Spawner[s]].expires = t[c][s].expires
              /\ t[c][home[c]].expires = t[c][s].expires
              /\ t[c][home[c]].granted /\ t[c][home[c]].propagate
            BY <4>3, ToolApprovalsAssumption DEF Settled
        <5>2. /\ a.state = "none" /\ a.expires = t[c][home[c]].expires
              /\ a.granted = t[c][home[c]].granted /\ a.propagate = t[c][home[c]].propagate
            BY <4>3
        <5>3. u[c][Spawner[s]] = IF Spawner[s] = home[c] THEN a ELSE t[c][Spawner[s]]
            BY <1>1, <5>1
        <5> QED
            BY <5>1, <5>2, <5>3
      <4> QED
          BY <2>2, <3>2, <4>1, <4>2, <4>3
    <3> QED
        BY <3>1, <3>2
  <2> QED
      BY <2>1, <2>2
<1> QED
    BY <1>1, <1>2 DEF u

\* Only expiry, with one call that moves on.
LEMMA CleanupsKeep ==
    ASSUME ApprovalsInv, NEW c \in Calls, Heartbeat \/ Reuse(c) \/ NoChannel(c) \/ TimesOut(c) PROVE ApprovalsInv'
<1>1. /\ approvals' = Cleaned /\ waiters' = waiters \ Overdue /\ home' = home /\ channel' = channel
      /\ now' = now /\ opened' = opened
    BY DEF Heartbeat, Reuse, NoChannel, TimesOut, Cleanup, AnswerExpired
<1>2. /\ answer' \in [Calls -> Answers]
      /\ \A d \in Calls : answer'[d] = "yes" => answer[d] = "yes"
      /\ \A d \in Calls : d \notin waiters => answer'[d] = answer[d]
    BY OverdueFacts DEF Heartbeat, Reuse, NoChannel, TimesOut, Cleanup, AnswerExpired, Answers
<1>3. /\ pc' \in [Calls -> Places] /\ until' \in [Calls -> Int]
      /\ \A d \in Calls : pc'[d] = pc[d] \/ (pc'[d] # "new" /\ (pc[d] # "new" \/ home[d] \in opened))
  <2>1. \/ pc' = pc
        \/ /\ \E v \in {"granted", "refused"} : pc' = [pc EXCEPT ![c] = v]
           /\ (pc[c] # "new" \/ home[c] \in opened)
      BY DEF Heartbeat, Reuse, NoChannel, TimesOut, MayAsk
  <2>2. until' = until \/ until' = [until EXCEPT ![c] = 0]
      BY DEF Heartbeat, Reuse, NoChannel, TimesOut
  <2>3. until' \in [Calls -> Int]
      BY <2>2, OverdueFacts
  <2>4. pc \in [Calls -> Places] /\ {"granted", "refused"} \subseteq Places
      BY OverdueFacts DEF Places
  <2>5. pc' \in [Calls -> Places]
      BY <2>1, <2>4
  <2>6. \A d \in Calls : pc'[d] = pc[d] \/ (pc'[d] # "new" /\ (pc[d] # "new" \/ home[d] \in opened))
      BY <2>1, <2>4
  <2> QED
      BY <2>3, <2>5, <2>6
<1>4. \A d \in Calls : pc'[d] = "new" =>
          /\ pc[d] = "new" /\ answer'[d] = "none" /\ d \notin waiters'
          /\ \A s \in Sessions : approvals'[d][s] = NoApproval
    BY <1>1, <1>2, <1>3, OverdueFacts, CleanedIsSettled DEF Blank
<1>5. \A d \in Calls : answer'[d] = "yes" => approvals'[d][home[d]].granted
    BY <1>1, <1>2, OverdueFacts, CleanedIsSettled DEF ApprovalsInv, YesIsGiven
<1>6. waiters' \subseteq Calls /\ now' \in Instants /\ opened' \subseteq Sessions /\ opened \subseteq opened'
    BY <1>1, OverdueFacts
<1>7. approvals' \in Table /\ Settled(approvals', opened')
    BY <1>1, CleanedIsSettled
<1>8. \A d \in Calls : pc'[d] # "new" => pc[d] # "new" \/ home[d] \in opened
    BY <1>3
<1> QED
    BY <1>1, <1>2, <1>3, <1>4, <1>5, <1>6, <1>7, <1>8, StepKeeps

LEMMA AskKeeps == ASSUME ApprovalsInv, NEW c \in Calls, Ask(c) PROVE ApprovalsInv'
<1> DEFINE a == NewApproval(c)
<1>1. a \in Approval /\ a.state = "pending"
  <2>1. now + TTL \in Int
      BY OverdueFacts, ToolApprovalsAssumption
  <2> QED
      BY <2>1 DEF NewApproval, Approval, States
<1>2. pc[c] = "new" /\ home[c] \in opened /\ approvals' = Put(Cleaned, c, a)
    BY DEF Ask, MayAsk, Put
<1> HIDE DEF a
<1>3. \A s \in Sessions : Cleaned[c][s].state # "propagated"
    BY <1>2, CleanedIsSettled, NoApprovalTyped DEF Blank
<1>4. /\ approvals' \in Table /\ Settled(approvals', opened) /\ \A d \in Calls : d # c => approvals'[d] = Cleaned[d]
  <2>1. Cleaned \in Table /\ Settled(Cleaned, opened) /\ home \in [Calls -> Sessions]
      BY CleanedIsSettled, OverdueFacts
  <2>2. a.state # "propagated" /\ (a.state = "approved" => a.granted)
      BY <1>1, <1>2, <1>3
  <2> QED
      BY <1>1, <1>2, <1>3, <2>1, <2>2, HomeEntry
<1>5. /\ home' = home /\ channel' = channel /\ now' = now /\ opened' = opened /\ until' = until
      /\ waiters' = (waiters \ Overdue) \cup {c} /\ pc' = [pc EXCEPT ![c] = "notifying"]
      /\ answer' = [d \in Calls |-> IF d \in Overdue THEN "no" ELSE answer[d]]
    BY DEF Ask
<1>6. /\ pc' \in [Calls -> Places] /\ answer' \in [Calls -> Answers] /\ waiters' \subseteq Calls
      /\ \A d \in Calls : pc'[d] = "new" => d # c /\ pc[d] = "new" /\ answer'[d] = "none" /\ d \notin waiters'
      /\ \A d \in Calls : pc'[d] # "new" => pc[d] # "new" \/ home[d] \in opened
      /\ \A d \in Calls : answer'[d] = "yes" => d # c /\ answer[d] = "yes"
    BY <1>2, <1>5, OverdueFacts DEF Places, Answers
<1>7. \A d \in Calls : pc'[d] = "new" =>
          /\ pc[d] = "new" /\ answer'[d] = "none" /\ d \notin waiters'
          /\ \A s \in Sessions : approvals'[d][s] = NoApproval
    BY <1>4, <1>6, CleanedIsSettled DEF Blank
<1>8. \A d \in Calls : answer'[d] = "yes" => approvals'[d][home[d]].granted
    BY <1>4, <1>6, OverdueFacts, CleanedIsSettled DEF ApprovalsInv, YesIsGiven
<1>9. now' \in Instants /\ opened' \subseteq Sessions /\ until' \in [Calls -> Int] /\ Settled(approvals', opened')
      /\ opened \subseteq opened'
    BY <1>4, <1>5, OverdueFacts
<1> QED
    BY <1>4, <1>5, <1>6, <1>7, <1>8, <1>9, StepKeeps

LEMMA NotifyFailsKeeps == ASSUME ApprovalsInv, NEW c \in Calls, NotifyFails(c) PROVE ApprovalsInv'
<1> DEFINE a == [approvals[c][home[c]] EXCEPT !.state = "none"]
<1>1. /\ a \in Approval /\ a.state = "none" /\ a.expires = approvals[c][home[c]].expires
      /\ a.granted = approvals[c][home[c]].granted /\ a.propagate = approvals[c][home[c]].propagate
  <2>1. approvals[c][home[c]] \in Approval
      BY OverdueFacts DEF Table
  <2> QED
      BY <2>1 DEF Approval, States
<1>2. pc[c] = "notifying" /\ approvals' = Put(approvals, c, a)
    BY DEF NotifyFails, Put
<1> HIDE DEF a
<1>3. Settled(approvals, opened)
    BY DEF ApprovalsInv
<1>4. /\ approvals' \in Table /\ Settled(approvals', opened) /\ \A d \in Calls : d # c => approvals'[d] = approvals[d]
  <2>1. approvals \in Table /\ home \in [Calls -> Sessions]
      BY OverdueFacts
  <2>2. a.state # "propagated" /\ (a.state = "approved" => a.granted)
      BY <1>1
  <2> QED
      BY <1>1, <1>2, <1>3, <2>1, <2>2, HomeEntry
<1>5. /\ home' = home /\ channel' = channel /\ now' = now /\ opened' = opened /\ until' = until
      /\ waiters' = waiters \ {c} /\ pc' = [pc EXCEPT ![c] = "refused"]
      /\ answer' = [answer EXCEPT ![c] = "none"]
    BY DEF NotifyFails
<1>6. /\ pc' \in [Calls -> Places] /\ answer' \in [Calls -> Answers] /\ waiters' \subseteq Calls
      /\ \A d \in Calls : pc'[d] = "new" => d # c /\ pc[d] = "new" /\ answer'[d] = "none" /\ d \notin waiters'
      /\ \A d \in Calls : pc'[d] # "new" => pc[d] # "new" \/ home[d] \in opened
      /\ \A d \in Calls : answer'[d] = "yes" => d # c /\ answer[d] = "yes"
    BY <1>2, <1>5, OverdueFacts DEF Places, Answers
<1>7. \A d \in Calls : pc'[d] = "new" =>
          /\ pc[d] = "new" /\ answer'[d] = "none" /\ d \notin waiters'
          /\ \A s \in Sessions : approvals'[d][s] = NoApproval
    BY <1>4, <1>6 DEF ApprovalsInv, Blank
<1>8. \A d \in Calls : answer'[d] = "yes" => approvals'[d][home[d]].granted
    BY <1>4, <1>6 DEF ApprovalsInv, YesIsGiven
<1>9. now' \in Instants /\ opened' \subseteq Sessions /\ until' \in [Calls -> Int] /\ Settled(approvals', opened')
      /\ opened \subseteq opened'
    BY <1>4, <1>5, OverdueFacts
<1> QED
    BY <1>4, <1>5, <1>6, <1>7, <1>8, <1>9, StepKeeps

\* Time passes, a notification is delivered, a call takes its answer or is cancelled: the table stays.
LEMMA QuietStepsKeep ==
    ASSUME ApprovalsInv, NEW c \in Calls, Tick \/ Delivered(c) \/ Answered(c) \/ Cancelled(c) PROVE ApprovalsInv'
<1>1. /\ home' = home /\ channel' = channel /\ opened' = opened /\ approvals' = approvals
      /\ now' \in Instants /\ waiters' \subseteq waiters
    BY OverdueFacts DEF Tick, Delivered, Answered, Cancelled
<1>2. now + TTL \in Int
    BY OverdueFacts, ToolApprovalsAssumption
<1>3. /\ pc' \in [Calls -> Places] /\ until' \in [Calls -> Int] /\ answer' \in [Calls -> Answers]
      /\ \A d \in Calls : answer'[d] \in {answer[d], "none"}
      /\ \A d \in Calls : pc'[d] = pc[d] \/ (pc'[d] # "new" /\ pc[d] # "new")
  <2>1. \/ pc' = pc
        \/ \E v \in Places : pc' = [pc EXCEPT ![c] = v] /\ pc[c] # "new" /\ v # "new"
      BY DEF Tick, Delivered, Answered, Cancelled, Places
  <2>2. until' = until \/ \E i \in Int : until' = [until EXCEPT ![c] = i]
      BY <1>2 DEF Tick, Delivered, Answered, Cancelled
  <2>3. answer' = answer \/ answer' = [answer EXCEPT ![c] = "none"]
      BY DEF Tick, Delivered, Answered, Cancelled
  <2>4. until' \in [Calls -> Int]
      BY <2>2, OverdueFacts
  <2>5. answer' \in [Calls -> Answers] /\ \A d \in Calls : answer'[d] \in {answer[d], "none"}
      BY <2>3, OverdueFacts DEF Answers
  <2>6. pc \in [Calls -> Places]
      BY OverdueFacts
  <2>7. pc' \in [Calls -> Places]
      BY <2>1, <2>6
  <2>8. \A d \in Calls : pc'[d] = pc[d] \/ (pc'[d] # "new" /\ pc[d] # "new")
      BY <2>1, <2>6
  <2> QED
      BY <2>4, <2>5, <2>7, <2>8
<1>4. \A d \in Calls : pc'[d] = "new" =>
          /\ pc[d] = "new" /\ answer'[d] = "none" /\ d \notin waiters'
          /\ \A s \in Sessions : approvals'[d][s] = NoApproval
    BY <1>1, <1>3, OverdueFacts DEF ApprovalsInv, Blank
<1>5. \A d \in Calls : answer'[d] = "yes" => approvals'[d][home[d]].granted
    BY <1>1, <1>3 DEF ApprovalsInv, YesIsGiven
<1>6. \A d \in Calls : pc'[d] # "new" => pc[d] # "new" \/ home[d] \in opened
    BY <1>3
<1>7. /\ approvals' \in Table /\ Settled(approvals', opened') /\ waiters' \subseteq Calls
      /\ opened' \subseteq Sessions /\ opened \subseteq opened'
    BY <1>1, OverdueFacts DEF ApprovalsInv
<1> QED
    BY <1>1, <1>3, <1>4, <1>5, <1>6, <1>7, StepKeeps

\* The operator answers what is unresolved: nobody has a copy of it.
LEMMA ResolvesKeep == ASSUME ApprovalsInv, NEW c \in Calls, Approve(c) \/ Deny(c) PROVE ApprovalsInv'
<1>1. home[c] \in Sessions /\ Cleaned[c][home[c]] \in Approval /\ Cleaned[c][home[c]].state \in Unresolved
    BY OverdueFacts, CleanedIsSettled DEF Approve, Deny, MayResolve, Table
<1>2. PICK a \in Approval, reply \in {"yes", "no"} :
          /\ Resolve(c, reply, a) /\ a.state \in {"approved", "denied"}
          /\ reply = "yes" \/ a.state = "approved" => a.granted
          /\ Cleaned[c][home[c]].granted => a.granted
  <2>1. CASE Deny(c)
    <3> DEFINE a == Over(Cleaned[c][home[c]], "denied")
    <3>1. a \in Approval /\ a.state = "denied" /\ a.granted = Cleaned[c][home[c]].granted
        BY <1>1, NoApprovalTyped DEF Over, Approval, States
    <3>2. Resolve(c, "no", a)
        BY <2>1 DEF Deny
    <3> HIDE DEF a
    <3> QED
        BY <3>1, <3>2
  <2>2. CASE Approve(c)
    <3>1. PICK a \in Grants(c) : Resolve(c, "yes", a)
        BY <2>2 DEF Approve
    <3> DEFINE yes == Yes(c)
    <3>2. yes \in Approval /\ yes.state = "approved" /\ yes.granted
        BY <1>1 DEF Yes, Approval, States
    <3> HIDE DEF yes
    <3>3. ASSUME NEW more \in {{}, Calls}, NEW e \in {yes.expires} \cup Expiries, NEW p \in BOOLEAN
          PROVE  /\ SessionGrant(yes, more, e, p) \in Approval
                 /\ SessionGrant(yes, more, e, p).state = "approved" /\ SessionGrant(yes, more, e, p).granted
      <4>1. e \in Int /\ yes.covers \cup more \in SUBSET Calls
          BY <3>2, <3>3, ToolApprovalsAssumption DEF Approval
      <4> QED
          BY <3>2, <3>3, <4>1 DEF SessionGrant, Approval
    <3>4. a \in Approval /\ a.state = "approved" /\ a.granted
        BY <3>1, <3>2, <3>3 DEF Grants, yes
    <3> QED
        BY <3>1, <3>4
  <2> QED
      BY <2>1, <2>2
<1>3. ASSUME NEW s \in Sessions PROVE Cleaned[c][s].state # "propagated"
    BY <1>1, CleanedIsSettled DEF Settled, Unresolved
<1>4. pc[c] # "new"
    BY <1>1, CleanedIsSettled, NoApprovalTyped DEF Blank, Unresolved
<1>5. /\ home' = home /\ channel' = channel /\ now' = now /\ opened' = opened /\ until' = until /\ pc' = pc
      /\ approvals' = Put(Cleaned, c, a) /\ waiters' = (waiters \ Overdue) \ {c}
      /\ answer' = [d \in Calls |-> IF d = c /\ c \in waiters THEN reply
                                    ELSE IF d \in Overdue THEN "no" ELSE answer[d]]
    BY <1>2 DEF Resolve, Put
<1>6. /\ approvals' \in Table /\ Settled(approvals', opened) /\ approvals'[c][home[c]] = a
      /\ \A d \in Calls : d # c => approvals'[d] = Cleaned[d]
  <2>1. Cleaned \in Table /\ Settled(Cleaned, opened) /\ home \in [Calls -> Sessions]
      BY CleanedIsSettled, OverdueFacts
  <2>2. a.state # "propagated" /\ (a.state = "approved" => a.granted)
      BY <1>2, <1>3, <1>5
  <2> QED
      BY <1>2, <1>3, <1>5, <2>1, <2>2, HomeEntry
<1>7. /\ answer' \in [Calls -> Answers] /\ waiters' \subseteq Calls
      /\ \A d \in Calls : pc[d] = "new" => d # c /\ answer'[d] = "none" /\ d \notin waiters'
      /\ \A d \in Calls : answer'[d] = "yes" => answer[d] = "yes" \/ (d = c /\ reply = "yes")
  <2>1. reply \in Answers /\ "no" \in Answers
      BY DEF Answers
  <2>2. \A d \in Calls : answer'[d] = IF d = c /\ c \in waiters THEN reply
                                      ELSE IF d \in Overdue THEN "no" ELSE answer[d]
      BY <1>5
  <2>3. answer' \in [Calls -> Answers]
      BY <1>5, <2>1, OverdueFacts
  <2>4. /\ Overdue \subseteq waiters /\ waiters \subseteq Calls
        /\ \A d \in Calls : pc[d] = "new" => d \notin Overdue /\ d \notin waiters /\ answer[d] = "none"
      BY OverdueFacts
  <2>5. waiters' \subseteq Calls
      BY <1>5, <2>4
  <2>6. \A d \in Calls : pc[d] = "new" => d # c /\ answer'[d] = "none" /\ d \notin waiters'
      BY <1>4, <1>5, <2>2, <2>4
  <2>7. \A d \in Calls : answer'[d] = "yes" => answer[d] = "yes" \/ (d = c /\ reply = "yes")
      BY <2>2
  <2> QED
      BY <2>3, <2>5, <2>6, <2>7
<1>8. \A d \in Calls : pc'[d] = "new" =>
          /\ pc[d] = "new" /\ answer'[d] = "none" /\ d \notin waiters'
          /\ \A s \in Sessions : approvals'[d][s] = NoApproval
    BY <1>5, <1>6, <1>7, CleanedIsSettled DEF Blank
<1>9. ASSUME NEW d \in Calls, answer'[d] = "yes" PROVE approvals'[d][home[d]].granted
  <2>1. CASE d = c
    <3>1. answer[c] = "yes" => a.granted
        BY <1>1, <1>2, CleanedIsSettled DEF ApprovalsInv, YesIsGiven
    <3> QED
        BY <1>2, <1>6, <1>7, <1>9, <2>1, <3>1
  <2>2. CASE d # c
      BY <1>6, <1>7, <1>9, <2>2, OverdueFacts, CleanedIsSettled DEF ApprovalsInv, YesIsGiven
  <2> QED
      BY <2>1, <2>2
<1>10. /\ now' \in Instants /\ opened' \subseteq Sessions /\ until' \in [Calls -> Int] /\ pc' \in [Calls -> Places]
       /\ Settled(approvals', opened') /\ opened \subseteq opened'
       /\ \A d \in Calls : pc'[d] # "new" => pc[d] # "new" \/ home[d] \in opened
    BY <1>5, <1>6, OverdueFacts
<1> QED
    BY <1>5, <1>6, <1>7, <1>8, <1>9, <1>10, StepKeeps

\* A session opens with the grants of the session that spawned it: each has its source there.
LEMMA OpenSessionKeeps == ASSUME ApprovalsInv, NEW s \in Subsessions, OpenSession(s) PROVE ApprovalsInv'
<1> DEFINE Given(c) == Cleaned[c][Spawner[s]]
<1>1. s \in Sessions /\ Spawner[s] \in Sessions /\ Spawner[s] # s /\ s \notin opened /\ Spawner[s] \in opened
    BY ToolApprovalsAssumption DEF OpenSession
<1>2. ASSUME NEW c \in Calls
      PROVE  Given(c) \in Approval /\ Inherited(Given(c)) \in Approval
             /\ Inherited(Given(c)).state = "propagated" /\ Inherited(Given(c)).expires = Given(c).expires
             /\ Inherited(Given(c)).granted = Given(c).granted
  <2>1. Given(c) \in Approval
      BY <1>1, CleanedIsSettled DEF Table
  <2> HIDE DEF Given
  <2> QED
      BY <2>1 DEF Inherited, Approval, States
<1>3. /\ approvals' \in Table
      /\ \A c \in Calls, q \in Sessions :
            approvals'[c][q] = IF q = s /\ Propagates(Given(c)) THEN Inherited(Given(c)) ELSE Cleaned[c][q]
  <2>1. approvals' = [c \in Calls |-> IF Propagates(Given(c)) THEN [Cleaned[c] EXCEPT ![s] = Inherited(Given(c))]
                                      ELSE Cleaned[c]]
      BY DEF OpenSession
  <2>2. Cleaned \in Table
      BY CleanedIsSettled
  <2> HIDE DEF Given
  <2> QED
      BY <1>1, <1>2, <2>1, <2>2 DEF Table
<1>4. /\ opened' = opened \cup {s} /\ home' = home /\ channel' = channel /\ now' = now /\ until' = until /\ pc' = pc
      /\ waiters' = waiters \ Overdue /\ answer' = [c \in Calls |-> IF c \in Overdue THEN "no" ELSE answer[c]]
    BY DEF OpenSession, AnswerExpired
<1> HIDE DEF Given
<1>5. ASSUME NEW c \in Calls, Propagates(Given(c))
      PROVE  /\ pc[c] # "new" /\ home[c] # s /\ Given(c).state \in Granting /\ Given(c).granted
             /\ Cleaned[c][home[c]].state \in {"approved", "none"}
             /\ Cleaned[c][home[c]].expires = Given(c).expires
             /\ Cleaned[c][home[c]].granted /\ Cleaned[c][home[c]].propagate
  <2>1. Given(c) = Cleaned[c][Spawner[s]] /\ Given(c).state \in Granting /\ Given(c).propagate
      BY <1>5 DEF Propagates, Given
  <2>2. pc[c] # "new"
      BY <1>1, <2>1, CleanedIsSettled, NoApprovalTyped DEF Blank, Granting
  <2>3. home[c] # s
      BY <1>1, <2>2 DEF ApprovalsInv, Unasked
  <2>4. Given(c).granted
      BY <1>1, <2>1, CleanedIsSettled DEF Settled
  <2>5. CASE Spawner[s] = home[c]
    <3>1. Given(c) = Cleaned[c][home[c]] /\ Given(c).state = "approved"
        BY <1>1, <2>1, <2>5, CleanedIsSettled DEF Settled, Granting
    <3> QED
        BY <2>1, <2>2, <2>3, <2>4, <3>1
  <2>6. CASE Spawner[s] # home[c]
    <3>1. Cleaned[c][Spawner[s]].state = "propagated"
        BY <1>1, <2>1, <2>6, CleanedIsSettled DEF Settled, Granting
    <3>2. /\ Cleaned[c][home[c]].state \in {"approved", "none"}
          /\ Cleaned[c][home[c]].expires = Given(c).expires
          /\ Cleaned[c][home[c]].granted /\ Cleaned[c][home[c]].propagate
        BY <1>1, <2>1, <3>1, CleanedIsSettled DEF Settled
    <3> QED
        BY <2>1, <2>2, <2>3, <2>4, <3>2
  <2> QED
      BY <2>5, <2>6
<1>6. Settled(approvals', opened')
  <2> SUFFICES ASSUME NEW d \in Calls, NEW q \in Sessions
               PROVE  /\ q # home[d] => approvals'[d][q].state \in {"none", "propagated", "expired"}
                      /\ q = home[d] => approvals'[d][q].state # "propagated"
                      /\ approvals'[d][q].state \in Granting => approvals'[d][q].granted
                      /\ approvals'[d][q].state = "propagated" =>
                            /\ q \in Subsessions /\ q \in opened' /\ Spawner[q] \in opened'
                            /\ approvals'[d][Spawner[q]].state \in Granting \cup {"none"}
                            /\ approvals'[d][Spawner[q]].expires = approvals'[d][q].expires
                            /\ approvals'[d][home[d]].state \in {"approved", "none"}
                            /\ approvals'[d][home[d]].expires = approvals'[d][q].expires
                            /\ approvals'[d][home[d]].granted /\ approvals'[d][home[d]].propagate
      BY DEF Settled
  <2>1. home[d] \in Sessions
      BY OverdueFacts
  <2>2. CASE q = s /\ Propagates(Given(d))
    <3>1. /\ approvals'[d][q] = Inherited(Given(d)) /\ approvals'[d][Spawner[q]] = Given(d)
          /\ approvals'[d][home[d]] = Cleaned[d][home[d]]
        BY <1>1, <1>3, <1>5, <2>1, <2>2 DEF Given
    <3> QED
        BY <1>1, <1>2, <1>4, <1>5, <2>2, <3>1 DEF Granting
  <2>3. CASE ~(q = s /\ Propagates(Given(d)))
    <3>1. approvals'[d][q] = Cleaned[d][q]
        BY <1>3, <2>3
    <3>2. /\ q # home[d] => Cleaned[d][q].state \in {"none", "propagated", "expired"}
          /\ q = home[d] => Cleaned[d][q].state # "propagated"
          /\ Cleaned[d][q].state \in Granting => Cleaned[d][q].granted
        BY CleanedIsSettled DEF Settled
    <3>3. ASSUME Cleaned[d][q].state = "propagated"
          PROVE  /\ q \in Subsessions /\ q \in opened' /\ Spawner[q] \in opened'
                 /\ approvals'[d][Spawner[q]].state \in Granting \cup {"none"}
                 /\ approvals'[d][Spawner[q]].expires = Cleaned[d][q].expires
                 /\ approvals'[d][home[d]].state \in {"approved", "none"}
                 /\ approvals'[d][home[d]].expires = Cleaned[d][q].expires
                 /\ approvals'[d][home[d]].granted /\ approvals'[d][home[d]].propagate
      <4>1. /\ q \in Subsessions /\ q \in opened /\ Spawner[q] \in opened /\ Spawner[q] \in Sessions
            /\ Cleaned[d][Spawner[q]].state \in Granting \cup {"none"}
            /\ Cleaned[d][Spawner[q]].expires = Cleaned[d][q].expires
            /\ Cleaned[d][home[d]].state \in {"approved", "none"}
            /\ Cleaned[d][home[d]].expires = Cleaned[d][q].expires
            /\ Cleaned[d][home[d]].granted /\ Cleaned[d][home[d]].propagate
          BY <3>3, CleanedIsSettled, ToolApprovalsAssumption DEF Settled
      <4>2. approvals'[d][Spawner[q]] = Cleaned[d][Spawner[q]]
          BY <1>1, <1>3, <4>1
      <4>3. approvals'[d][home[d]] = Cleaned[d][home[d]]
          BY <1>3, <1>5, <2>1
      <4> QED
          BY <1>4, <4>1, <4>2, <4>3
    <3> QED
        BY <3>1, <3>2, <3>3
  <2> QED
      BY <2>2, <2>3
<1>7. \A d \in Calls : pc'[d] = "new" =>
          /\ pc[d] = "new" /\ answer'[d] = "none" /\ d \notin waiters'
          /\ \A q \in Sessions : approvals'[d][q] = NoApproval
  <2> SUFFICES ASSUME NEW d \in Calls, pc[d] = "new"
               PROVE  /\ answer'[d] = "none" /\ d \notin waiters'
                      /\ \A q \in Sessions : approvals'[d][q] = NoApproval
      BY <1>4
  <2>1. answer'[d] = "none" /\ d \notin waiters'
      BY <1>4, OverdueFacts
  <2>2. ~Propagates(Given(d))
      BY <1>5
  <2> QED
      BY <1>3, <2>1, <2>2, CleanedIsSettled DEF Blank
<1>8. \A d \in Calls : answer'[d] = "yes" => approvals'[d][home[d]].granted
  <2> SUFFICES ASSUME NEW d \in Calls, answer'[d] = "yes" PROVE approvals'[d][home[d]].granted
      OBVIOUS
  <2>1. answer[d] = "yes" /\ home[d] \in Sessions
      BY <1>4, OverdueFacts
  <2>2. approvals'[d][home[d]] = Cleaned[d][home[d]]
      BY <1>3, <1>5, <2>1
  <2> QED
      BY <2>1, <2>2, CleanedIsSettled DEF ApprovalsInv, YesIsGiven
<1>9. answer' \in [Calls -> Answers]
  <2>1. answer \in [Calls -> Answers] /\ "no" \in Answers
      BY OverdueFacts DEF Answers
  <2> QED
      BY <1>4, <2>1
<1>10. /\ now' \in Instants /\ opened' \subseteq Sessions /\ until' \in [Calls -> Int] /\ pc' \in [Calls -> Places]
       /\ opened \subseteq opened' /\ waiters' \subseteq Calls
    BY <1>1, <1>4, OverdueFacts
<1>11. \A d \in Calls : pc'[d] # "new" => pc[d] # "new" \/ home[d] \in opened
    BY <1>4
<1> QED
    BY <1>3, <1>4, <1>6, <1>7, <1>8, <1>9, <1>10, <1>11, StepKeeps

LEMMA ApprovalsStep == ApprovalsInv /\ [Next]_vars => ApprovalsInv'
<1> SUFFICES ASSUME ApprovalsInv, [Next]_vars PROVE ApprovalsInv'
    OBVIOUS
<1>1. ASSUME NEW c \in Calls, Tick \/ Heartbeat PROVE ApprovalsInv'
    BY <1>1, CleanupsKeep, QuietStepsKeep
<1>2. ASSUME NEW c \in Calls,
             \/ Reuse(c) \/ NoChannel(c) \/ Ask(c) \/ NotifyFails(c) \/ Delivered(c)
             \/ Answered(c) \/ TimesOut(c) \/ Cancelled(c) \/ Approve(c) \/ Deny(c)
      PROVE  ApprovalsInv'
    BY <1>2, CleanupsKeep, AskKeeps, NotifyFailsKeeps, QuietStepsKeep, ResolvesKeep
<1>3. ASSUME NEW s \in Subsessions, OpenSession(s) PROVE ApprovalsInv'
    BY <1>3, OpenSessionKeeps
<1>4. CASE UNCHANGED vars
    BY <1>4 DEF vars, ApprovalsInv, TypeOK, Settled, Unasked, Blank, YesIsGiven
<1>5. CASE (Tick \/ Heartbeat) /\ Calls = {}
  <2>1. now' \in Instants /\ channel' = channel /\ opened' = opened /\ home' = home /\ pc' = pc /\ until' = until
        /\ (waiters' = waiters \/ waiters' = waiters \ Overdue)
      BY <1>5, OverdueFacts DEF Tick, Heartbeat, Cleanup, AnswerExpired
  <2>2. answer' \in [Calls -> Answers] /\ approvals' \in Table
      BY <1>5, OverdueFacts, CleanedIsSettled DEF Tick, Heartbeat, Cleanup, AnswerExpired
  <2> QED
      BY <1>5, <2>1, <2>2, StepKeeps, OverdueFacts DEF Settled
<1> QED
    BY <1>1, <1>2, <1>3, <1>4, <1>5 DEF Next

\* An inherited grant is in force only while the one it was copied from is, to the same moment, through
\* any number of generations of sub-agents (propagate_approvals_to_session, cleanup_expired).
THEOREM CopiesFollowTheirSource == Spec => []CopiesEndWithTheirSource
<1>1. ApprovalsInv => CopiesEndWithTheirSource
    BY ToolApprovalsAssumption DEF ApprovalsInv, Settled, CopiesEndWithTheirSource
<1> QED
    BY <1>1, ApprovalsInitially, ApprovalsStep, PTL DEF Spec

LEMMA GrantsFollowTheOperator ==
    ASSUME ApprovalsInv, [Next]_vars, NEW c \in Calls, pc[c] # "granted", pc'[c] = "granted"
    PROVE  \/ pc[c] = "waiting" /\ approvals[c][home[c]].granted
           \/ pc[c] = "new" /\ \E d \in Calls :
                LET used == approvals'[d][home[c]]
                    given == approvals'[d][home[d]] IN
                /\ used.scope = "session" /\ c \in used.covers /\ ~IsExpired(used)
                /\ used.granted /\ given.granted
                /\ home[d] # home[c] => used.state = "propagated" /\ given.propagate
<1>1. Answered(c) \/ Reuse(c)
  <2>1. pc \in [Calls -> Places] /\ pc' # pc
      BY OverdueFacts
  <2>2. ASSUME Tick \/ Heartbeat \/ UNCHANGED vars \/ \E s \in Subsessions : OpenSession(s) PROVE pc' = pc
      BY <2>2 DEF Tick, Heartbeat, OpenSession, vars
  <2>3. PICK d \in Calls :
            \/ Reuse(d) \/ NoChannel(d) \/ Ask(d) \/ NotifyFails(d) \/ Delivered(d)
            \/ Answered(d) \/ TimesOut(d) \/ Cancelled(d) \/ Approve(d) \/ Deny(d)
      BY <2>1, <2>2 DEF Next
  <2>4. ASSUME Approve(d) \/ Deny(d) PROVE pc' = pc
      BY <2>4 DEF Approve, Deny, Resolve
  <2>5. ASSUME NoChannel(d) \/ Ask(d) \/ NotifyFails(d) \/ Delivered(d) \/ TimesOut(d) \/ Cancelled(d)
        PROVE  \E v \in {"refused", "notifying", "waiting", "cancelled"} : pc' = [pc EXCEPT ![d] = v]
      BY <2>5 DEF NoChannel, Ask, NotifyFails, Delivered, TimesOut, Cancelled
  <2>6. ASSUME NEW v \in {"refused", "notifying", "waiting", "cancelled"}, pc' = [pc EXCEPT ![d] = v] PROVE FALSE
      BY <2>1, <2>6
  <2>7. ASSUME Reuse(d) \/ Answered(d) PROVE \E v : pc' = [pc EXCEPT ![d] = v]
      BY <2>7 DEF Reuse, Answered
  <2>8. Reuse(d) \/ Answered(d)
      BY <2>1, <2>3, <2>4, <2>5, <2>6
  <2>9. d = c
      BY <2>1, <2>7, <2>8
  <2> QED
      BY <2>8, <2>9
<1>2. CASE Answered(c)
  <2>1. pc[c] = "waiting" /\ answer[c] = "yes"
      BY <1>2, OverdueFacts DEF Answered
  <2> QED
      BY <2>1 DEF ApprovalsInv, YesIsGiven
<1>3. CASE Reuse(c)
  <2>1. pc[c] = "new" /\ approvals' = Cleaned
      BY <1>3 DEF Reuse, MayAsk, Cleanup
  <2>2. PICK d \in Calls : /\ Cleaned[d][home[c]].state \in Granting
                           /\ Cleaned[d][home[c]].scope = "session" /\ c \in Cleaned[d][home[c]].covers
      BY <1>3 DEF Reuse, Reusable
  <2>3. home[c] \in Sessions /\ home[d] \in Sessions
      BY OverdueFacts
  <2>4. ~IsExpired(Cleaned[d][home[c]]) /\ Cleaned[d][home[c]].granted
      BY <2>2, <2>3, CleanedIsSettled DEF Settled
  <2>5. ASSUME home[d] # home[c]
        PROVE  /\ Cleaned[d][home[c]].state = "propagated"
               /\ Cleaned[d][home[d]].granted /\ Cleaned[d][home[d]].propagate
    <3>1. Cleaned[d][home[c]].state = "propagated"
        BY <2>2, <2>3, <2>5, CleanedIsSettled DEF Settled, Granting
    <3> QED
        BY <2>3, <3>1, CleanedIsSettled DEF Settled
  <2>6. Cleaned[d][home[d]].granted
      BY <2>4, <2>5
  <2> QED
      BY <2>1, <2>2, <2>4, <2>5, <2>6
<1> QED
    BY <1>1, <1>2, <1>3

\* No call is let through but by the operator's own "yes" to it, or by a grant in force that covers it
\* and that the operator gave, for sub-agents if it was inherited (guard_tool_use, _find_matching_approval).
THEOREM GrantsComeFromTheOperator == Spec => GrantsAreLicensed
<1>1. ApprovalsInv /\ [Next]_vars =>
          [\A c \in Calls : pc[c] # "granted" /\ pc'[c] = "granted" =>
             \/ pc[c] = "waiting" /\ approvals[c][home[c]].granted
             \/ pc[c] = "new" /\ \E d \in Calls :
                  LET used == approvals'[d][home[c]]
                      given == approvals'[d][home[d]] IN
                  /\ used.scope = "session" /\ c \in used.covers /\ ~IsExpired(used)
                  /\ used.granted /\ given.granted
                  /\ home[d] # home[c] => used.state = "propagated" /\ given.propagate]_vars
    BY GrantsFollowTheOperator
<1> QED
    BY <1>1, ApprovalsInitially, ApprovalsStep, PTL DEF Spec, GrantsAreLicensed

=============================================================================
