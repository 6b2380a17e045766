--------------------------- MODULE SupervisorProofs ---------------------------
(***************************************************************************)
(* Proofs about module Supervisor, for every mission graph, ladder and     *)
(* budget.  The inductive invariant is Inv: besides the types it says of   *)
(* both copies of the runtime state that actionable queues belong to nodes *)
(* whose dependencies are done and that are not done themselves (Ordered), *)
(* that a runner only exists in a live gateway and, until it writes a      *)
(* final status, for a mission recorded running (RunnerOwnsMission), and   *)
(* that the node a child is about to run for, or runs for, was admitted by *)
(* its dependencies (Admitted).                                            *)
(***************************************************************************)
EXTENDS Supervisor, TLAPS

\* The scheduler never disagrees with the graph.
Ordered(g) ==
    /\ \A n \in Nodes : g.entry[n] \in ActionableQueues \/ g.queue[n] \in ActionableQueues
                          => /\ g.status[n] # "done"
                             /\ \A d \in DependsOn[n] : g.status[d] = "done"
    /\ \A n \in Nodes : g.queue[n] = "completed" => g.status[n] = "done"

RunnerOwnsMission ==
    /\ pc # "none" => up
    /\ pc \in PCs \ {"none", "notify"} => status = "running"

Admitted ==
    pc \in {"due", "child"} =>
        /\ cur \in Nodes
        /\ rt.status[cur] # "done"
        /\ \A d \in DependsOn[cur] : rt.status[d] = "done"

\* The retries a failure type was granted are all in its persisted counter.
RetriesAccounted ==
    /\ saved.retries = rt.retries
    /\ \A f \in FailureTypes : granted[f] <= rt.retries[f]
    /\ RetriesBounded

Inv ==
    /\ TypeOK
    /\ Ordered(rt) /\ Ordered(saved)
    /\ RunnerOwnsMission
    /\ Admitted
    /\ RetriesAccounted

-----------------------------------------------------------------------------
(* Typing of the operators the actions are built from. *)

\* Every failure type has a policy with a queue and a tool charge.
LEMMA PolicyTyping ==
    ASSUME NEW f
    PROVE  /\ RecoveryPolicyFor(f).queue \in Queues
           /\ RecoveryPolicyFor(f).tools \in Nat
  BY DEF RecoveryPolicyFor, Policy, Queues

\* A ladder step never invents a queue.
LEMMA QueueForStepTyping ==
    ASSUME NEW step, NEW q \in Queues
    PROVE  QueueForStep(step, q) \in Queues
  BY DEF QueueForStep, Queues

LEMMA RepairIncrementTyping == \A a : RepairIncrement(a) \in Nat
  BY DEF RepairIncrement

LEMMA NodeStatusTyping == \A q : NodeStatusFor(q) \in NodeStatuses
  BY DEF NodeStatusFor, NodeStatuses

\* The queue a recorded iteration decides on is one of the six queues.
LEMMA NodeQueueTyping ==
    ASSUME NEW r
    PROVE  Recovery(r).queue \in Queues /\ NodeQueue(r) \in Queues
  <1>1. Recovery(r).queue \in Queues
    <2>1. CASE r.failure = NoFailure
      BY <2>1 DEF Recovery, Queues
    <2>2. CASE r.failure # NoFailure
      BY <2>2, PolicyTyping, QueueForStepTyping DEF Recovery
    <2> QED BY <2>1, <2>2
  <1> QED BY <1>1 DEF NodeQueue, QueueWithinBudget, Queues

LEMMA NextRunAtTyping ==
    ASSUME SupervisorAssumption, TypeOK
    PROVE  NextRunAt \in Nat /\ \A q : AvailableAt(q) \in Nat
  <1>1. NextRunAt \in Nat
    BY DEF SupervisorAssumption, TypeOK, NextRunAt, MinOf
  <1> QED BY <1>1 DEF AvailableAt

\* Dropping stale entries touches nothing but the entries, and leaves an
\* entry alone or drops it.
LEMMA FreshEntriesTyping ==
    ASSUME NEW g \in RuntimeStates
    PROVE  /\ FreshEntries(g) \in [Nodes -> Queues \cup {"dropped"}]
           /\ \A n \in Nodes : FreshEntries(g)[n] \in {g.entry[n], "dropped"}
  BY DEF FreshEntries, RuntimeStates

LEMMA DropStaleTyping ==
    ASSUME NEW g \in RuntimeStates
    PROVE  /\ DropStale(g) \in RuntimeStates
           /\ DropStale(g).status = g.status /\ DropStale(g).queue = g.queue
           /\ DropStale(g).retries = g.retries
           /\ DropStale(g).entry = FreshEntries(g)
  BY FreshEntriesTyping DEF DropStale, RuntimeStates

LEMMA DropStaleOrdered ==
    ASSUME NEW g \in RuntimeStates, Ordered(g)
    PROVE  Ordered(DropStale(g))
  BY DropStaleTyping, FreshEntriesTyping DEF Ordered, ActionableQueues

\* A selected node has an actionable entry.
LEMMA SelectedIsCandidate ==
    ASSUME NEW g, NEW now, NEW n \in Nodes, 0 \notin Nodes, Selects(g, now, n)
    PROVE  g.entry[n] \in ActionableQueues
  BY DEF Selects, Candidates

-----------------------------------------------------------------------------
(* What _record_runtime_iteration leaves in the runtime state. *)

\* The released nodes were blocked and wait for nodes that are all done.
LEMMA ReleaseIsJustified ==
    ASSUME NEW st, NEW qu, NEW n \in DependencyReady(st, qu),
           \A m \in Nodes : qu[m] = "completed" => st[m] = "done"
    PROVE  /\ n \in Nodes /\ st[n] = "blocked"
           /\ \A d \in DependsOn[n] : d \in Nodes => st[d] = "done"
  BY DEF DependencyReady

\* The counters stay natural numbers.
LEMMA CountersTyping ==
    ASSUME SupervisorAssumption, TypeOK, NEW r \in Results
    PROVE  /\ LlmCallsAfter(r) \in Nat /\ ToolCallsAfter(r) \in Nat
           /\ RepairDepthAfter(r) \in Nat /\ RetryCount(r) \in Nat
  <1> USE DEF TypeOK, RuntimeStates
  <1>1. LlmCallsAfter(r) \in Nat
    BY DEF LlmCallsAfter
  <1>2. ToolCallsAfter(r) \in Nat
    <2>1. MaxOf(1, r.evidence) \in Nat
      BY DEF MaxOf, SupervisorAssumption, Results
    <2>2. (IF r.failure = NoFailure THEN 0 ELSE RecoveryPolicyFor(r.failure).tools) \in Nat
      BY PolicyTyping
    <2>3. rt.tools \in Nat
      OBVIOUS
    <2> HIDE DEF TypeOK, RuntimeStates
    <2> DEFINE x == MaxOf(1, r.evidence)
               y == IF r.failure = NoFailure THEN 0
                    ELSE RecoveryPolicyFor(r.failure).tools
    <2>4. ToolCallsAfter(r) = rt.tools + x + y
      BY DEF ToolCallsAfter
    <2> HIDE DEF x, y
    <2>5. x \in Nat /\ y \in Nat
      BY <2>1, <2>2 DEF x, y
    <2> QED BY <2>3, <2>4, <2>5
  <1>3. RepairDepthAfter(r) \in Nat
    BY RepairIncrementTyping, SMTT(40) DEF RepairDepthAfter
  <1>4. RetryCount(r) \in Nat
    BY DEF RetryCount, Results
  <1> QED BY <1>1, <1>2, <1>3, <1>4

\* The graph part of the recorded state, one field at a time.
LEMMA RecordedFields ==
    ASSUME SupervisorAssumption, TypeOK, cur \in Nodes, NEW r \in Results
    PROVE  LET q   == NodeQueue(r)
               ran == [rt.status EXCEPT ![cur] = NodeStatusFor(q)]
               qd  == [rt.queue EXCEPT ![cur] = q]
           IN  \E rel \in SUBSET DependencyReady(ran, qd) :
                 \A n \in Nodes :
                   /\ Recorded(r).status[n] = IF n \in rel THEN "ready" ELSE ran[n]
                   /\ Recorded(r).queue[n] = IF n \in rel THEN "ready" ELSE qd[n]
                   /\ Recorded(r).entry[n] = IF n = cur THEN q
                                             ELSE Recorded(r).queue[n]
  <1> DEFINE q   == NodeQueue(r)
             ran == [rt.status EXCEPT ![cur] = NodeStatusFor(q)]
             qd  == [rt.queue EXCEPT ![cur] = q]
             rel == IF IsMultiNode /\ r.success /\ r.failure = NoFailure
                    THEN DependencyReady(ran, qd) ELSE {}
             qs  == [n \in Nodes |-> IF n \in rel THEN "ready" ELSE qd[n]]
  <1>1. rel \in SUBSET DependencyReady(ran, qd)
    OBVIOUS
  <1>2. /\ Recorded(r).status = [n \in Nodes |-> IF n \in rel THEN "ready" ELSE ran[n]]
        /\ Recorded(r).queue = qs
        /\ Recorded(r).entry = [qs EXCEPT ![cur] = q]
    BY DEF Recorded
  <1> HIDE DEF q, ran, qd, rel
  <1>3. \A n \in Nodes :
          /\ Recorded(r).status[n] = IF n \in rel THEN "ready" ELSE ran[n]
          /\ Recorded(r).queue[n] = IF n \in rel THEN "ready" ELSE qd[n]
          /\ Recorded(r).entry[n] = IF n = cur THEN q ELSE Recorded(r).queue[n]
    BY <1>2
  <1> QED BY <1>1, <1>3 DEF q, ran, qd

LEMMA RecordedTyping ==
    ASSUME SupervisorAssumption, TypeOK, cur \in Nodes, NEW r \in Results
    PROVE  Recorded(r) \in RuntimeStates
  <1> DEFINE q   == NodeQueue(r)
             ran == [rt.status EXCEPT ![cur] = NodeStatusFor(q)]
             qd  == [rt.queue EXCEPT ![cur] = q]
             rel == IF IsMultiNode /\ r.success /\ r.failure = NoFailure
                    THEN DependencyReady(ran, qd) ELSE {}
             qs  == [n \in Nodes |-> IF n \in rel THEN "ready" ELSE qd[n]]
             st  == [n \in Nodes |-> IF n \in rel THEN "ready" ELSE ran[n]]
             ra  == [rt.retryAt EXCEPT ![cur] = AvailableAt(q)]
             en  == [qs EXCEPT ![cur] = q]
             rc  == [f \in FailureTypes |->
                        IF f = r.failure THEN rt.retries[f] + 1 ELSE rt.retries[f]]
             pe  == rt.pending + (IF q = "waiting_for_approval" THEN 1 ELSE 0)
  <1>1. q \in Queues
    BY NodeQueueTyping
  <1>2. NodeStatusFor(q) \in NodeStatuses /\ AvailableAt(q) \in Nat
    BY NodeStatusTyping, NextRunAtTyping
  <1> HIDE DEF q
  <1>3. ran \in [Nodes -> NodeStatuses] /\ qd \in [Nodes -> Queues]
    BY <1>1, <1>2 DEF TypeOK, RuntimeStates
  <1> HIDE DEF ran, qd, rel
  <1>4. st \in [Nodes -> NodeStatuses] /\ qs \in [Nodes -> Queues]
    BY <1>3 DEF NodeStatuses, Queues
  <1> HIDE DEF qs, st
  <1>5. en \in [Nodes -> Queues \cup {"dropped"}]
    BY <1>1, <1>4
  <1>6. ra \in [Nodes -> Nat] /\ rc \in [FailureTypes -> Nat] /\ pe \in Nat
    BY <1>2, SMTT(40) DEF TypeOK, RuntimeStates
  <1>7. rt.done + 1 \in Nat
    BY DEF TypeOK, RuntimeStates
  <1>8. Recorded(r) = [status |-> st, queue |-> qs, retryAt |-> ra, entry |-> en,
                       retries |-> rc, llm |-> LlmCallsAfter(r),
                       tools |-> ToolCallsAfter(r), repair |-> RepairDepthAfter(r),
                       pending |-> pe, done |-> rt.done + 1]
    BY DEF Recorded, q, ran, qd, rel, qs, st
  <1> QED BY <1>4, <1>5, <1>6, <1>7, <1>8, CountersTyping DEF RuntimeStates

\* The iteration's own node gets an actionable queue only if its policy and
\* the budgets say so; the nodes it releases have their dependencies done.
LEMMA RecordedOrdered ==
    ASSUME SupervisorAssumption, TypeOK, cur \in Nodes, NEW r \in Results,
           Ordered(rt), rt.status[cur] # "done",
           \A d \in DependsOn[cur] : rt.status[d] = "done"
    PROVE  Ordered(Recorded(r))
  <1> DEFINE q   == NodeQueue(r)
             ran == [rt.status EXCEPT ![cur] = NodeStatusFor(q)]
             qd  == [rt.queue EXCEPT ![cur] = q]
  <1>1. q \in Queues
    BY NodeQueueTyping
  <1>2. /\ q = "completed" => NodeStatusFor(q) = "done"
        /\ q \in ActionableQueues => NodeStatusFor(q) # "done"
    BY DEF NodeStatusFor, ActionableQueues
  <1>3. PICK rel \in SUBSET DependencyReady(ran, qd) :
          \A n \in Nodes :
            /\ Recorded(r).status[n] = IF n \in rel THEN "ready" ELSE ran[n]
            /\ Recorded(r).queue[n] = IF n \in rel THEN "ready" ELSE qd[n]
            /\ Recorded(r).entry[n] = IF n = cur THEN q ELSE Recorded(r).queue[n]
    BY RecordedFields
  <1> HIDE DEF q
  <1>4. /\ ran[cur] = NodeStatusFor(q) /\ qd[cur] = q
        /\ \A n \in Nodes : n # cur => ran[n] = rt.status[n] /\ qd[n] = rt.queue[n]
    BY DEF TypeOK, RuntimeStates
  <1> HIDE DEF ran, qd
  <1>5. \A m \in Nodes : qd[m] = "completed" => ran[m] = "done"
    BY <1>2, <1>4 DEF Ordered
  <1>6. \A n \in rel : /\ n \in Nodes /\ ran[n] = "blocked"
                       /\ \A d \in DependsOn[n] : d \in Nodes => ran[d] = "done"
    BY <1>5, ReleaseIsJustified
  <1>7. \A n \in Nodes : DependsOn[n] \subseteq Nodes
    BY DEF SupervisorAssumption
  <1>8. \A d \in Nodes : ran[d] = "done" => Recorded(r).status[d] = "done"
    BY <1>3, <1>6
  <1>9. \A d \in Nodes : rt.status[d] = "done" => Recorded(r).status[d] = "done"
    BY <1>4, <1>8
  <1>10. ASSUME NEW n \in Nodes,
                Recorded(r).entry[n] \in ActionableQueues
                  \/ Recorded(r).queue[n] \in ActionableQueues
         PROVE  /\ Recorded(r).status[n] # "done"
                /\ \A d \in DependsOn[n] : Recorded(r).status[d] = "done"
    <2>1. CASE n \in rel
      BY <2>1, <1>3, <1>6, <1>7, <1>8
    <2>2. CASE n \notin rel /\ n = cur
      <3>1. q \in ActionableQueues
        BY <2>2, <1>3, <1>4, <1>10
      <3> QED BY <2>2, <3>1, <1>2, <1>3, <1>4, <1>7, <1>9
    <2>3. CASE n \notin rel /\ n # cur
      <3>1. rt.queue[n] \in ActionableQueues
        BY <2>3, <1>3, <1>4, <1>10
      <3>2. rt.status[n] # "done" /\ \A d \in DependsOn[n] : rt.status[d] = "done"
        BY <3>1 DEF Ordered
      <3> QED BY <2>3, <3>2, <1>3, <1>4, <1>7, <1>9
    <2> QED BY <2>1, <2>2, <2>3
  <1>11. ASSUME NEW n \in Nodes, Recorded(r).queue[n] = "completed"
         PROVE  Recorded(r).status[n] = "done"
    BY <1>3, <1>5, <1>8, <1>11
  <1> QED BY <1>10, <1>11 DEF Ordered

\* A retry is granted only below the budget of its failure type.
LEMMA GrantWithinBudget ==
    ASSUME SupervisorAssumption, TypeOK, NEW r \in Results,
           NodeQueue(r) = "retry_later"
    PROVE  /\ r.failure # NoFailure
           /\ rt.retries[r.failure] < MaxSameFailureRetries
  <1>1. QueueWithinBudget(r) = "retry_later"
    BY DEF NodeQueue
  <1>2. Recovery(r).queue = "retry_later" /\ ~BudgetExhausted(r)
    BY <1>1 DEF QueueWithinBudget
  <1>3. RetryCount(r) < MaxSameFailureRetries
    BY <1>2, CountersTyping DEF BudgetExhausted, SupervisorAssumption
  <1>4. r.failure # NoFailure
    BY <1>2 DEF Recovery
  <1> QED BY <1>3, <1>4 DEF RetryCount

-----------------------------------------------------------------------------
(* The inductive step, by groups of actions. *)

LEMMA InitInv == Init => Inv
  <1> SUFFICES ASSUME Init PROVE Inv
    OBVIOUS
  <1>1. InitialQueue \in [Nodes -> {"ready", "blocked"}]
    BY DEF InitialQueue
  <1>2. InitialRuntimeState \in RuntimeStates
    BY <1>1 DEF InitialRuntimeState, RuntimeStates, NodeStatuses, Queues
  <1>3. Ordered(InitialRuntimeState)
    BY DEF InitialRuntimeState, InitialQueue, Ordered, ActionableQueues
  <1>4. TypeOK
    BY <1>2, SupervisorAssumption
    DEF Init, TypeOK, TaskStatuses, PCs, YieldPoints, Reports, Queues
  <1>5. RunnerOwnsMission /\ Admitted
    BY DEF Init, RunnerOwnsMission, Admitted
  <1>6. RetriesAccounted
    BY SupervisorAssumption
    DEF Init, RetriesAccounted, RetriesBounded, InitialRuntimeState
  <1> QED BY <1>2, <1>3, <1>4, <1>5, <1>6 DEF Init, Inv

\* A step that moves the program counter away from the child.
LEMMA GotoInv ==
    ASSUME Inv, NEW l \in PCs, Goto(l), pc # "none",
           l \notin {"none", "notify"} => pc # "notify",
           l \in {"due", "child"} => pc \in {"due", "child"}
    PROVE  Inv'
  <1> USE DEF Inv, Goto, record, history, faults
  <1>1. TypeOK'
    BY DEF TypeOK
  <1>2. Ordered(rt)' /\ Ordered(saved)'
    BY DEF Ordered
  <1>3. RunnerOwnsMission'
    BY DEF RunnerOwnsMission, TypeOK
  <1>4. Admitted'
    BY DEF Admitted
  <1>5. RetriesAccounted'
    BY DEF RetriesAccounted, RetriesBounded
  <1> QED BY <1>1, <1>2, <1>3, <1>4, <1>5

\* Writing a final status: the record becomes the runner's own state, or
\* stays as it is.
LEMMA FinishInv ==
    ASSUME Inv, pc \in PCs \ {"none", "notify"}, NEW s \in TaskStatuses,
           Finish(s) \/ FinishCancelled
    PROVE  Inv'
  <1> USE DEF Inv, Finish, FinishCancelled, history, faults
  <1>1. TypeOK'
    BY DEF TypeOK, TaskStatuses, PCs, YieldPoints
  <1>2. Ordered(rt)' /\ Ordered(saved)'
    BY DEF Ordered
  <1>3. RunnerOwnsMission'
    BY DEF RunnerOwnsMission
  <1>4. Admitted'
    BY DEF Admitted
  <1>5. RetriesAccounted'
    BY DEF RetriesAccounted, RetriesBounded
  <1> QED BY <1>1, <1>2, <1>3, <1>4, <1>5

\* Selecting an entry drops the stale ones; a node that is taken was admitted
\* by its dependencies.
LEMMA SelectInv ==
    ASSUME Inv, SelectNothing \/ SelectFuture \/ SelectDue
    PROVE  Inv'
  <1> USE DEF history, faults
  <1>1. /\ rt \in RuntimeStates /\ saved \in RuntimeStates
        /\ Ordered(rt) /\ saved.retries = rt.retries
    BY DEF Inv, TypeOK, RetriesAccounted
  <1>2. /\ rt' = DropStale(rt) /\ saved' \in {rt, DropStale(rt)}
    BY DEF SelectNothing, SelectFuture, SelectDue
  <1>3. /\ rt' \in RuntimeStates /\ saved' \in RuntimeStates
        /\ Ordered(rt') /\ Ordered(saved')
        /\ rt'.retries = rt.retries /\ saved'.retries = rt.retries
        /\ rt'.status = rt.status
    BY <1>1, <1>2, DropStaleTyping, DropStaleOrdered
  <1>4. /\ cur' \in Nodes \cup {0} /\ wake' \in Nat
        /\ pc' \in {"notify", "due", "child"} /\ status' \in {status, "completed"}
        /\ pc' # "notify" => status' = status
        /\ pc = "loop"
        /\ UNCHANGED <<clock, up, stopSaved, stopEv, report, granted, triage,
                       aborted, crashes, shutdowns>>
    BY <1>1 DEF Inv, TypeOK, RuntimeStates, SelectNothing, SelectFuture, SelectDue, MaySelect
  <1>5. TypeOK'
    BY <1>3, <1>4 DEF Inv, TypeOK, TaskStatuses, PCs, YieldPoints
  <1>6. RunnerOwnsMission'
    BY <1>4 DEF Inv, RunnerOwnsMission, PCs, YieldPoints
  <1>7. Admitted'
    <2> SUFFICES ASSUME pc' \in {"due", "child"}
                 PROVE  /\ cur' \in Nodes
                        /\ rt'.status[cur'] # "done"
                        /\ \A d \in DependsOn[cur'] : rt'.status[d] = "done"
      BY DEF Admitted
    <2>1. \E n \in Nodes : Selects(rt, clock, n) /\ cur' = n
      BY DEF SelectNothing, SelectFuture, SelectDue
    <2>2. 0 \notin Nodes
      BY SupervisorAssumption DEF Nodes
    <2>3. cur' \in Nodes /\ rt.entry[cur'] \in ActionableQueues
      BY <2>1, <2>2, SelectedIsCandidate
    <2> QED BY <1>1, <1>3, <2>3 DEF Ordered
  <1>8. RetriesAccounted'
    BY <1>3, <1>4 DEF Inv, RetriesAccounted, RetriesBounded
  <1> QED BY <1>3, <1>5, <1>6, <1>7, <1>8 DEF Inv, Ordered

\* Recording what a child returned.
LEMMA ChildInv ==
    ASSUME Inv, NEW r \in Results, ChildReturns(r)
    PROVE  Inv'
  <1> DEFINE g == Recorded(r)
  <1>1. /\ TypeOK /\ rt \in RuntimeStates /\ Ordered(rt)
        /\ cur \in Nodes /\ rt.status[cur] # "done"
        /\ \A d \in DependsOn[cur] : rt.status[d] = "done"
    BY DEF Inv, TypeOK, Admitted, ChildReturns
  <1>2. g \in RuntimeStates /\ Ordered(g)
    BY <1>1, RecordedTyping, RecordedOrdered, SupervisorAssumption
  <1>3. rt' = DropStale(g) /\ saved' = rt'
    BY DEF ChildReturns
  <1>4. g.retries = [f \in FailureTypes |->
                        IF f = r.failure THEN rt.retries[f] + 1 ELSE rt.retries[f]]
    BY DEF Recorded
  <1>5. \E sel \in Nodes \cup {0} :
          /\ report' = [queue |-> WorkerNextQueue(g, sel, NodeQueue(r)),
                        abort |-> AbortReason(r)]
          /\ cur' = IF sel # 0 THEN sel ELSE cur
          /\ Selects(g, clock, sel)
    BY DEF ChildReturns
  <1>6. /\ wake' = IF HasMoreIterations THEN NextRunAt ELSE clock
        /\ granted' = [f \in FailureTypes |->
                         IF f = r.failure /\ NodeQueue(r) = "retry_later"
                         THEN granted[f] + 1 ELSE granted[f]]
        /\ triage' = IF NodeQueue(r) = "blocked" THEN triage \cup {cur} ELSE triage
        /\ aborted' = (aborted \/ AbortReason(r))
        /\ pc = "child" /\ pc' = "recorded"
        /\ UNCHANGED <<clock, up, status, stopSaved, stopEv, crashes, shutdowns>>
    BY DEF ChildReturns, faults
  <1> HIDE DEF g
  <1>7. /\ rt' \in RuntimeStates /\ saved' \in RuntimeStates
        /\ Ordered(rt') /\ Ordered(saved') /\ rt'.retries = g.retries
    BY <1>2, <1>3, DropStaleTyping, DropStaleOrdered
  <1>8. cur' \in Nodes /\ report' \in Reports
    <2>1. PICK sel \in Nodes \cup {0} :
            /\ report' = [queue |-> WorkerNextQueue(g, sel, NodeQueue(r)),
                          abort |-> AbortReason(r)]
            /\ cur' = IF sel # 0 THEN sel ELSE cur
            /\ Selects(g, clock, sel)
      BY <1>5
    <2>2. sel \in Nodes => g.entry[sel] \in ActionableQueues
      BY <2>1, SelectedIsCandidate, SupervisorAssumption DEF Nodes
    <2>3. NodeQueue(r) \in Queues
      BY NodeQueueTyping
    <2>4. WorkerNextQueue(g, sel, NodeQueue(r)) \in Queues
      BY <2>2, <2>3 DEF WorkerNextQueue, Queues, ActionableQueues
    <2>5. AbortReason(r) \in BOOLEAN
      BY DEF AbortReason
    <2> QED BY <1>1, <2>1, <2>4, <2>5 DEF Reports
  <1>9. wake' \in Nat
    BY <1>1, <1>6, NextRunAtTyping, SupervisorAssumption DEF TypeOK
  <1>10. TypeOK'
    <2>1. granted' \in [FailureTypes -> Nat]
      BY <1>1, <1>6 DEF TypeOK
    <2>2. triage' \in SUBSET Nodes /\ aborted' \in BOOLEAN
      BY <1>1, <1>6 DEF TypeOK, AbortReason
    <2> QED BY <1>1, <1>6, <1>7, <1>8, <1>9, <2>1, <2>2 DEF TypeOK, PCs
  <1>11. RunnerOwnsMission' /\ Admitted'
    BY <1>6 DEF Inv, RunnerOwnsMission, Admitted, PCs, YieldPoints
  <1>12. RetriesAccounted'
    <2>1. ASSUME NEW f \in FailureTypes
          PROVE  /\ granted'[f] <= g.retries[f]
                 /\ granted'[f] <= MaxSameFailureRetries
      <3>1. /\ granted[f] \in Nat /\ rt.retries[f] \in Nat
            /\ granted[f] <= rt.retries[f] /\ granted[f] <= MaxSameFailureRetries
        BY DEF Inv, RetriesAccounted, RetriesBounded, TypeOK, RuntimeStates
      <3>2. CASE f = r.failure /\ NodeQueue(r) = "retry_later"
        <4>1. rt.retries[f] < MaxSameFailureRetries
          BY <3>2, <1>1, GrantWithinBudget, SupervisorAssumption
        <4>2. granted'[f] = granted[f] + 1 /\ g.retries[f] = rt.retries[f] + 1
          BY <3>2, <1>4, <1>6
        <4> QED BY <3>1, <4>1, <4>2, SupervisorAssumption
      <3>3. CASE ~(f = r.failure /\ NodeQueue(r) = "retry_later")
        <4>1. granted'[f] = granted[f] /\ g.retries[f] \in {rt.retries[f], rt.retries[f] + 1}
          BY <3>3, <1>4, <1>6
        <4> QED BY <3>1, <4>1, SupervisorAssumption
      <3> QED BY <3>2, <3>3
    <2> QED BY <1>3, <1>7, <2>1 DEF RetriesAccounted, RetriesBounded
  <1> QED BY <1>7, <1>10, <1>11, <1>12 DEF Inv, Ordered

\* Restarting takes the record over into memory; nothing else the environment
\* does touches the scheduler.
LEMMA EnvironmentInv ==
    ASSUME Inv,
           \/ NotifyRaises \/ RequestStop \/ Shutdown \/ Crash \/ Restart \/ Tick
           \/ UNCHANGED vars
    PROVE  Inv'
  <1> USE DEF Inv, record, runner, history, faults, vars
  <1>0. TypeOK
    OBVIOUS
  <1>1. CASE NotifyRaises
    BY <1>1 DEF NotifyRaises, TypeOK, Ordered, RunnerOwnsMission, Admitted,
                RetriesAccounted, RetriesBounded, TaskStatuses, PCs
  <1>2. CASE RequestStop
    BY <1>2 DEF RequestStop, TypeOK, Ordered, RunnerOwnsMission, Admitted,
                RetriesAccounted, RetriesBounded
  <1>3. CASE Shutdown
    <2> USE DEF Shutdown
    <2>1. TypeOK'
      <3>1. up' \in BOOLEAN /\ pc' \in PCs
        BY <1>3 DEF PCs
      <3>2. crashes' \in {crashes, crashes + 1} /\ shutdowns' \in {shutdowns, shutdowns + 1}
        BY <1>3
      <3>3. UNCHANGED <<clock, status, stopSaved, saved, rt, cur, wake, stopEv,
                        report, granted, triage, aborted>>
        BY <1>3
      <3> HIDE DEF Inv, Shutdown
      <3>4. crashes' \in Nat /\ shutdowns' \in Nat
        BY <1>0, <3>2 DEF TypeOK
      <3> QED BY <1>0, <3>1, <3>3, <3>4 DEF TypeOK
    <2>2. Ordered(rt)' /\ Ordered(saved)'
      BY <1>3 DEF Ordered
    <2>3. RunnerOwnsMission' /\ Admitted'
      BY <1>3 DEF RunnerOwnsMission, Admitted
    <2>4. RetriesAccounted'
      BY <1>3 DEF RetriesAccounted, RetriesBounded
    <2> QED BY <2>1, <2>2, <2>3, <2>4
  <1>4. CASE Crash
    <2> USE DEF Crash
    <2>1. TypeOK'
      <3>1. up' \in BOOLEAN /\ pc' \in PCs
        BY <1>4 DEF PCs
      <3>2. crashes' \in {crashes, crashes + 1} /\ shutdowns' \in {shutdowns, shutdowns + 1}
        BY <1>4
      <3>3. UNCHANGED <<clock, status, stopSaved, saved, rt, cur, wake, stopEv,
                        report, granted, triage, aborted>>
        BY <1>4
      <3> HIDE DEF Inv, Crash
      <3>4. crashes' \in Nat /\ shutdowns' \in Nat
        BY <1>0, <3>2 DEF TypeOK
      <3> QED BY <1>0, <3>1, <3>3, <3>4 DEF TypeOK
    <2>2. Ordered(rt)' /\ Ordered(saved)'
      BY <1>4 DEF Ordered
    <2>3. RunnerOwnsMission' /\ Admitted'
      BY <1>4 DEF RunnerOwnsMission, Admitted
    <2>4. RetriesAccounted'
      BY <1>4 DEF RetriesAccounted, RetriesBounded
    <2> QED BY <2>1, <2>2, <2>3, <2>4
  <1>5. CASE Restart
    <2> USE DEF Restart
    <2>1. pc = "none"
      BY <1>5 DEF RunnerOwnsMission
    <2>2. TypeOK'
      <3>1. /\ up' = TRUE
            /\ \/ /\ pc' = "begin" /\ rt' = saved /\ cur' = 0
                  /\ wake' = 0 /\ stopEv' = FALSE
               \/ UNCHANGED <<pc, rt, cur, wake, stopEv>>
        BY <1>5
      <3>2. UNCHANGED <<clock, status, stopSaved, saved, report, granted,
                        triage, aborted, crashes, shutdowns>>
        BY <1>5
      <3> HIDE DEF Inv, Restart
      <3>3. up' \in BOOLEAN /\ stopEv' \in BOOLEAN
        BY <1>0, <3>1, Zenon DEF TypeOK
      <3>4. /\ pc' \in PCs /\ rt' \in RuntimeStates /\ cur' \in Nodes \cup {0}
            /\ wake' \in Nat
        BY <1>0, <3>1, SMT DEF TypeOK, PCs, YieldPoints
      <3> QED BY <1>0, <3>2, <3>3, <3>4 DEF TypeOK
    <2>3. Ordered(rt)' /\ Ordered(saved)'
      BY <1>5 DEF Ordered
    <2>4. RunnerOwnsMission' /\ Admitted'
      BY <1>5, <2>1 DEF RunnerOwnsMission, Admitted
    <2>5. RetriesAccounted'
      BY <1>5 DEF RetriesAccounted, RetriesBounded
    <2> QED BY <2>2, <2>3, <2>4, <2>5
  <1>6. CASE Tick
    BY <1>6 DEF Tick, TypeOK, Ordered, RunnerOwnsMission, Admitted,
                RetriesAccounted, RetriesBounded
  <1>7. CASE UNCHANGED vars
    BY <1>7 DEF TypeOK, Ordered, RunnerOwnsMission, Admitted,
                RetriesAccounted, RetriesBounded
  <1> QED BY <1>1, <1>2, <1>3, <1>4, <1>5, <1>6, <1>7

LEMMA StepInv == Inv /\ [Next]_vars => Inv'
  <1> SUFFICES ASSUME Inv, [Next]_vars PROVE Inv'
    OBVIOUS
  <1>1. CASE Begin
    BY <1>1, GotoInv DEF Begin, PCs
  <1>2. CASE LoopExhausted \/ LoopStopped \/ LoopDeadline
    BY <1>2, FinishInv
    DEF LoopExhausted, LoopStopped, LoopDeadline, PCs, TaskStatuses
  <1>3. CASE SelectNothing \/ SelectFuture \/ SelectDue
    BY <1>3, SelectInv
  <1>4. CASE DueStopped \/ ContinueStopped \/ PauseStopped
    BY <1>4, FinishInv
    DEF DueStopped, ContinueStopped, PauseStopped, NextIteration, PCs,
        YieldPoints, TaskStatuses
  <1>5. CASE DueTimeout \/ ContinueNow \/ ContinueLater \/ PauseTimeout \/ Notified
    BY <1>5, GotoInv
    DEF DueTimeout, ContinueNow, ContinueLater, PauseTimeout, Notified,
        NextIteration, PCs, YieldPoints
  <1>6. CASE \/ FinishWaitingForApproval \/ FinishMissionAborted
             \/ FinishRuntimeBlocked \/ FinishCompleted
    BY <1>6, FinishInv
    DEF FinishWaitingForApproval, FinishMissionAborted, FinishRuntimeBlocked,
        FinishCompleted, PCs, TaskStatuses
  <1>7. CASE ChildStep
    BY <1>7, ChildInv DEF ChildStep
  <1>8. CASE \/ NotifyRaises \/ RequestStop \/ Shutdown \/ Crash \/ Restart \/ Tick
             \/ UNCHANGED vars
    BY <1>8, EnvironmentInv
  <1> QED
    BY <1>1, <1>2, <1>3, <1>4, <1>5, <1>6, <1>7, <1>8 DEF Next, RunnerStep

-----------------------------------------------------------------------------
(* The theorems. *)

THEOREM Invariance == Spec => []Inv
  BY InitInv, StepInv, PTL DEF Spec

\* Every variable keeps its shape, for every mission, ladder and budget: no
\* recovery, release, restart or selection can leave the record malformed.
THEOREM TypeCorrect == Spec => []TypeOK
  <1>1. Inv => TypeOK
    BY DEF Inv
  <1> QED BY Invariance, <1>1, PTL

\* For every dependency relation, cyclic ones included: an entry the worker
\* may take belongs to a node whose dependencies are done, in memory and in
\* the record.
THEOREM DependenciesGateTheWorker == Spec => []DependencyGate
  <1>1. Inv => DependencyGate
    BY DEF Inv, DependencyGate, GateHolds, Ordered
  <1> QED BY Invariance, <1>1, PTL

\* A child control loop runs only in a live gateway, for a mission recorded
\* running and a node that is not done and may run.
THEOREM ChildIsLicensed == Spec => []ChildHasLicence
  <1>1. Inv => ChildHasLicence
    BY DEF Inv, ChildHasLicence, RunnerOwnsMission, Admitted, PCs, YieldPoints
  <1> QED BY Invariance, <1>1, PTL

\* No failure type is granted more retries than its budget, over any number of
\* crashes, shutdowns and resumes.
THEOREM RetriesAreBounded == Spec => []RetriesBounded
  <1>1. Inv => RetriesBounded
    BY DEF Inv, RetriesAccounted
  <1> QED BY Invariance, <1>1, PTL

-----------------------------------------------------------------------------
(* On top of Inv: the supervisor implements MissionLifecycle; what the     *)
(* record holds is never taken back; a mission is parked only when it is   *)
(* stuck; and the budgets of a single-node mission are hard.  What carries *)
(* them is that record and memory agree on all but the entries that were   *)
(* dropped (Mirrors), that the status of a node is the one of its queue    *)
(* (Consistent), and what the runner has checked before it waits           *)
(* (RunnerKnows).                                                          *)

\* Two runtime states that differ in their entries and times at most.
Mirrors(a, b) ==
    /\ a.status = b.status /\ a.queue = b.queue /\ a.retries = b.retries
    /\ a.llm = b.llm /\ a.tools = b.tools /\ a.repair = b.repair /\ a.pending = b.pending
    /\ a.done = b.done

Consistent(g) == \A n \in Nodes : g.status[n] = NodeStatusFor(g.queue[n])

\* No node can be worked on, and one waits for a human or is blocked.
Stuck(g) ==
    /\ Candidates(g) = {}
    /\ \E n \in Nodes : g.entry[n] \in {"waiting_for_approval", "blocked"}

RunnerKnows ==
    /\ pc = "due" => rt.done < MaxIterations
    /\ pc = "notify" => status # "running"
    /\ pc = "recorded" /\ report.queue \in {"waiting_for_approval", "blocked"} => Stuck(rt)
    /\ status \in {"pending", "blocked"} => Stuck(saved)

RecordInv == Mirrors(saved, rt) /\ Consistent(rt) /\ RunnerKnows

-----------------------------------------------------------------------------
LEMMA DropStaleMirrors ==
    ASSUME NEW g \in RuntimeStates
    PROVE  Mirrors(DropStale(g), g)
  BY DEF DropStale, RuntimeStates, Mirrors

\* What can be worked on after the stale entries are dropped could be before.
LEMMA DropStaleCandidates ==
    ASSUME NEW g \in RuntimeStates
    PROVE  /\ Candidates(DropStale(g)) \subseteq Candidates(g)
           /\ \A n \in Nodes : g.entry[n] \notin ActionableQueues => DropStale(g).entry[n] = g.entry[n]
  <1>1. /\ DropStale(g).entry = FreshEntries(g) /\ DropStale(g).status = g.status
        /\ \A n \in Nodes : FreshEntries(g)[n] = IF Stale(g, n) THEN "dropped" ELSE g.entry[n]
    BY DropStaleTyping DEF FreshEntries
  <1>2. \A n \in Nodes : Stale(g, n) => g.entry[n] \in ActionableQueues
    BY DEF Stale
  <1>3. "dropped" \notin ActionableQueues
    BY DEF ActionableQueues
  <1> QED BY <1>1, <1>2, <1>3 DEF Candidates

\* A node that was done stays done, and no counter goes back.
LEMMA RecordingAdds ==
    ASSUME SupervisorAssumption, TypeOK, cur \in Nodes, NEW r \in Results, rt.status[cur] # "done"
    PROVE  LET g == Recorded(r) IN
           /\ \A n \in Nodes : rt.status[n] = "done" => g.status[n] = "done"
           /\ g.done = rt.done + 1
           /\ g.llm >= rt.llm /\ g.tools >= rt.tools /\ g.repair >= rt.repair /\ g.pending >= rt.pending
           /\ \A f \in FailureTypes : g.retries[f] >= rt.retries[f]
  <1> DEFINE q   == NodeQueue(r)
             ran == [rt.status EXCEPT ![cur] = NodeStatusFor(q)]
             qd  == [rt.queue EXCEPT ![cur] = q]
  <1>1. PICK rel \in SUBSET DependencyReady(ran, qd) :
          \A n \in Nodes : /\ Recorded(r).status[n] = IF n \in rel THEN "ready" ELSE ran[n]
                           /\ Recorded(r).queue[n] = IF n \in rel THEN "ready" ELSE qd[n]
                           /\ Recorded(r).entry[n] = IF n = cur THEN q ELSE Recorded(r).queue[n]
    BY RecordedFields
  <1>2. \A n \in rel : ran[n] = "blocked"
    BY DEF DependencyReady
  <1>3. \A n \in Nodes : n # cur => ran[n] = rt.status[n]
    BY DEF TypeOK, RuntimeStates
  <1> HIDE DEF ran, qd, q
  <1>4. \A n \in Nodes : rt.status[n] = "done" => Recorded(r).status[n] = "done"
    BY <1>1, <1>2, <1>3
  <1>5. Recorded(r).done = rt.done + 1
    BY DEF Recorded
  <1>6. Recorded(r).llm = LlmCallsAfter(r) /\ Recorded(r).tools = ToolCallsAfter(r)
        /\ Recorded(r).repair = RepairDepthAfter(r)
    BY DEF Recorded
  <1>7. /\ rt.llm \in Nat /\ rt.tools \in Nat /\ rt.repair \in Nat /\ rt.pending \in Nat
        /\ rt.retries \in [FailureTypes -> Nat]
    BY DEF TypeOK, RuntimeStates
  <1>8. LlmCallsAfter(r) >= rt.llm
    BY <1>7 DEF LlmCallsAfter
  <1>9. ToolCallsAfter(r) >= rt.tools
    <2> DEFINE x == MaxOf(1, r.evidence)
               y == IF r.failure = NoFailure THEN 0 ELSE RecoveryPolicyFor(r.failure).tools
    <2>1. x \in Nat
      BY DEF MaxOf, SupervisorAssumption, Results
    <2>2. y \in Nat
      BY PolicyTyping
    <2>3. ToolCallsAfter(r) = rt.tools + x + y
      BY DEF ToolCallsAfter
    <2> HIDE DEF x, y
    <2> QED BY <1>7, <2>1, <2>2, <2>3
  <1>10. RepairDepthAfter(r) >= rt.repair
    BY <1>7, RepairIncrementTyping DEF RepairDepthAfter
  <1>11. Recorded(r).pending = rt.pending + (IF NodeQueue(r) = "waiting_for_approval" THEN 1 ELSE 0)
    BY DEF Recorded
  <1>12. Recorded(r).pending >= rt.pending
    BY <1>7, <1>11
  <1>13. Recorded(r).retries = [f \in FailureTypes |->
                                  IF f = r.failure THEN rt.retries[f] + 1 ELSE rt.retries[f]]
    BY DEF Recorded
  <1>14. \A f \in FailureTypes : Recorded(r).retries[f] >= rt.retries[f]
    BY <1>7, <1>13
  <1> QED BY <1>4, <1>5, <1>6, <1>8, <1>9, <1>10, <1>12, <1>14

LEMMA RecordedConsistent ==
    ASSUME SupervisorAssumption, TypeOK, cur \in Nodes, NEW r \in Results, Consistent(rt)
    PROVE  Consistent(Recorded(r))
  <1> DEFINE q   == NodeQueue(r)
             ran == [rt.status EXCEPT ![cur] = NodeStatusFor(q)]
             qd  == [rt.queue EXCEPT ![cur] = q]
  <1>1. PICK rel \in SUBSET DependencyReady(ran, qd) :
          \A n \in Nodes : /\ Recorded(r).status[n] = IF n \in rel THEN "ready" ELSE ran[n]
                           /\ Recorded(r).queue[n] = IF n \in rel THEN "ready" ELSE qd[n]
                           /\ Recorded(r).entry[n] = IF n = cur THEN q ELSE Recorded(r).queue[n]
    BY RecordedFields
  <1>2. \A n \in Nodes : ran[n] = NodeStatusFor(qd[n])
    BY DEF TypeOK, RuntimeStates, Consistent
  <1>3. NodeStatusFor("ready") = "ready"
    BY DEF NodeStatusFor
  <1> HIDE DEF ran, qd, q
  <1> QED BY <1>1, <1>2, <1>3 DEF Consistent

\* The runner is told to park the mission only if nothing can be worked on: the node
\* that ran, or another one, then waits for a human or is blocked.
LEMMA ParkedReports ==
    ASSUME SupervisorAssumption, TypeOK, cur \in Nodes, NEW r \in Results, Consistent(rt),
           NEW sel \in Nodes \cup {0}, Selects(Recorded(r), clock, sel),
           WorkerNextQueue(Recorded(r), sel, NodeQueue(r)) \in {"waiting_for_approval", "blocked"}
    PROVE  Stuck(DropStale(Recorded(r)))
  <1> DEFINE g == Recorded(r)
             q == NodeQueue(r)
             ran == [rt.status EXCEPT ![cur] = NodeStatusFor(q)]
             qd  == [rt.queue EXCEPT ![cur] = q]
  <1>1. g \in RuntimeStates /\ Consistent(g) /\ q \in Queues
    BY RecordedTyping, RecordedConsistent, NodeQueueTyping
  <1>2. PICK rel \in SUBSET DependencyReady(ran, qd) :
          \A n \in Nodes : /\ g.status[n] = IF n \in rel THEN "ready" ELSE ran[n]
                           /\ g.queue[n] = IF n \in rel THEN "ready" ELSE qd[n]
                           /\ g.entry[n] = IF n = cur THEN q ELSE g.queue[n]
    BY RecordedFields
  <1>3. ran[cur] = NodeStatusFor(q) /\ qd[cur] = q /\ \A n \in rel : ran[n] = "blocked"
    BY DEF DependencyReady, TypeOK, RuntimeStates
  <1>4. WorkerNextQueue(g, sel, q) \in {"waiting_for_approval", "blocked"} /\ Selects(g, clock, sel)
    OBVIOUS
  <1> HIDE DEF g, q, ran, qd
  <1>5. 0 \notin Nodes
    BY SupervisorAssumption DEF Nodes
  <1>6. sel = 0
    BY <1>4, <1>5, SelectedIsCandidate DEF WorkerNextQueue, ActionableQueues
  <1>7. Candidates(g) = {}
    BY <1>4, <1>5, <1>6 DEF Selects, Candidates
  <1>8. \E n \in Nodes : g.entry[n] \in {"waiting_for_approval", "blocked"}
    <2>1. CASE q # "completed"
      <3>1. q \in {"waiting_for_approval", "blocked"}
        BY <1>4, <1>6, <2>1 DEF WorkerNextQueue
      <3> QED BY <3>1, <1>2
    <2>2. CASE q = "completed"
      <3>1. cur \notin rel /\ g.queue[cur] = "completed" /\ g.status[cur] = "done"
        BY <2>2, <1>2, <1>3 DEF NodeStatusFor
      <3>2. PICK n \in Nodes : g.queue[n] = "waiting_for_approval" \/ g.status[n] # "done"
        BY <1>4, <1>6, <2>2 DEF WorkerNextQueue
      <3>3. n # cur /\ g.entry[n] = g.queue[n]
        BY <3>1, <3>2, <1>2
      <3>4. g.queue[n] \in Queues /\ g.status[n] = NodeStatusFor(g.queue[n]) /\ g.queue[n] # "completed"
        BY <1>1, <3>2 DEF Consistent, RuntimeStates, NodeStatusFor
      <3>5. ASSUME g.entry[n] \in ActionableQueues PROVE FALSE
        <4>1. ~Stale(g, n)
          BY <3>3, <3>4, <3>5 DEF Stale, NodeStatusFor, ActionableQueues
        <4> QED BY <4>1, <3>5, <1>7 DEF Candidates
      <3> QED BY <3>3, <3>4, <3>5 DEF Queues, ActionableQueues
    <2> QED BY <2>1, <2>2
  <1>9. /\ Candidates(DropStale(g)) = {}
        /\ \E n \in Nodes : DropStale(g).entry[n] \in {"waiting_for_approval", "blocked"}
    BY <1>1, <1>7, <1>8, DropStaleCandidates DEF ActionableQueues
  <1> QED BY <1>9 DEF Stuck, g

-----------------------------------------------------------------------------
(* The record and the memory. *)

\* All but selecting and recording leaves both as they are, or makes one the other.
LEMMA QuietSteps ==
    ASSUME [Next]_vars, ~(SelectNothing \/ SelectFuture \/ SelectDue), ~ChildStep
    PROVE  rt' \in {rt, saved} /\ saved' \in {saved, rt}
  BY DEF Next, RunnerStep, vars, record, runner, history, faults, Goto, Finish, FinishCancelled,
         Begin, LoopExhausted, LoopStopped, LoopDeadline, DueStopped, DueTimeout,
         FinishWaitingForApproval, FinishMissionAborted, FinishRuntimeBlocked, FinishCompleted,
         ContinueStopped, ContinueNow, ContinueLater, PauseStopped, PauseTimeout, Notified,
         NotifyRaises, RequestStop, Shutdown, Crash, Restart, Tick

LEMMA SelectSteps ==
    ASSUME SelectNothing \/ SelectFuture \/ SelectDue
    PROVE  /\ rt' = DropStale(rt) /\ saved' \in {rt, DropStale(rt)}
           /\ pc = "loop" /\ rt.done < MaxIterations
           /\ \/ pc' = "notify" /\ status' = "completed"
              \/ pc' \in {"due", "child"} /\ status' = status
  BY DEF SelectNothing, SelectFuture, SelectDue, MaySelect

LEMMA ChildSteps ==
    ASSUME Inv, NEW r \in Results, ChildReturns(r)
    PROVE  /\ TypeOK /\ rt \in RuntimeStates /\ Recorded(r) \in RuntimeStates
           /\ cur \in Nodes /\ rt.status[cur] # "done"
           /\ rt' = DropStale(Recorded(r)) /\ saved' = DropStale(Recorded(r))
           /\ pc = "child" /\ pc' = "recorded" /\ status = "running" /\ status' = status
  <1>1. /\ rt' = DropStale(Recorded(r)) /\ saved' = DropStale(Recorded(r))
        /\ pc = "child" /\ pc' = "recorded" /\ status' = status
    BY DEF ChildReturns
  <1>2. TypeOK /\ cur \in Nodes /\ rt.status[cur] # "done" /\ status = "running"
    BY <1>1 DEF Inv, Admitted, RunnerOwnsMission, PCs, YieldPoints
  <1> QED BY <1>1, <1>2, RecordedTyping, SupervisorAssumption DEF TypeOK

LEMMA RecordInitially == Init => RecordInv
  <1> SUFFICES ASSUME Init PROVE RecordInv
    OBVIOUS
  <1>1. Consistent(InitialRuntimeState)
    BY DEF Consistent, InitialRuntimeState, InitialQueue, NodeStatusFor
  <1> QED BY <1>1 DEF Init, RecordInv, Mirrors, RunnerKnows

LEMMA MirrorStep ==
    ASSUME Inv, RecordInv, [Next]_vars
    PROVE  Mirrors(saved, rt)' /\ Consistent(rt)'
  <1>1. rt \in RuntimeStates /\ Mirrors(saved, rt) /\ Consistent(rt)
    BY DEF Inv, TypeOK, RecordInv
  <1>2. CASE SelectNothing \/ SelectFuture \/ SelectDue
    <2>1. rt' = DropStale(rt) /\ saved' \in {rt, DropStale(rt)}
      BY <1>2, SelectSteps
    <2>2. Mirrors(rt', rt) /\ Mirrors(saved', rt)
      BY <1>1, <2>1, DropStaleMirrors DEF Mirrors
    <2> QED BY <1>1, <2>2 DEF Mirrors, Consistent
  <1>3. CASE ChildStep
    <2>1. PICK r \in Results : ChildReturns(r)
      BY <1>3 DEF ChildStep
    <2>2. /\ Recorded(r) \in RuntimeStates /\ Consistent(Recorded(r))
          /\ rt' = DropStale(Recorded(r)) /\ saved' = rt'
      BY <1>1, <2>1, ChildSteps, RecordedConsistent, SupervisorAssumption
    <2>3. Mirrors(rt', Recorded(r))
      BY <2>2, DropStaleMirrors
    <2> QED BY <2>2, <2>3 DEF Mirrors, Consistent
  <1>4. CASE ~(SelectNothing \/ SelectFuture \/ SelectDue) /\ ~ChildStep
    <2>1. rt' \in {rt, saved} /\ saved' \in {saved, rt}
      BY <1>4, QuietSteps
    <2> QED BY <1>1, <2>1 DEF Mirrors, Consistent
  <1> QED BY <1>2, <1>3, <1>4

\* The steps that end the mission in the record, and from where.
LEMMA FinalSteps ==
    ASSUME Inv, [Next]_vars, status' # status, ~(SelectNothing \/ SelectFuture \/ SelectDue), ~ChildStep
    PROVE  \/ /\ status = "running" /\ pc # "child" /\ pc' = "notify"
              /\ status' \in TaskStatuses \ {"running"}
              /\ status' \in {"pending", "blocked"} =>
                    /\ pc = "recorded" /\ report.queue \in {"waiting_for_approval", "blocked"}
                    /\ saved' = rt
           \/ pc = "notify" /\ pc' = "none" /\ status' = "failed"
  <1> USE DEF Finish, FinishCancelled, TaskStatuses
  <1>1. CASE \/ LoopExhausted \/ LoopStopped \/ LoopDeadline \/ DueStopped
             \/ FinishWaitingForApproval \/ FinishMissionAborted \/ FinishRuntimeBlocked
             \/ FinishCompleted \/ ContinueStopped \/ PauseStopped
    <2>1. pc \in {"loop", "due", "recorded", "pause"}
      BY <1>1 DEF LoopExhausted, LoopStopped, LoopDeadline, DueStopped, FinishWaitingForApproval,
         FinishMissionAborted, FinishRuntimeBlocked, FinishCompleted, ContinueStopped, PauseStopped,
         NextIteration
    <2>2. status = "running"
      BY <2>1 DEF Inv, RunnerOwnsMission, PCs, YieldPoints
    <2> QED
      BY <1>1, <2>1, <2>2 DEF LoopExhausted, LoopStopped, LoopDeadline, DueStopped,
         FinishWaitingForApproval, FinishMissionAborted, FinishRuntimeBlocked, FinishCompleted,
         ContinueStopped, PauseStopped
  <1>2. CASE NotifyRaises
    BY <1>2 DEF NotifyRaises
  <1>3. CASE \/ Begin \/ DueTimeout \/ ContinueNow \/ ContinueLater \/ PauseTimeout \/ Notified
             \/ RequestStop \/ Shutdown \/ Crash \/ Restart \/ Tick \/ UNCHANGED vars
    BY <1>3 DEF Begin, DueTimeout, ContinueNow, ContinueLater, PauseTimeout, Notified, Goto,
       RequestStop, Shutdown, Crash, Restart, Tick, vars, record
  <1> QED BY <1>1, <1>2, <1>3 DEF Next, RunnerStep

\* The steps that leave the status as it is move the runner where it knows what it should.
LEMMA MovingSteps ==
    ASSUME Inv, RecordInv, [Next]_vars, status' = status,
           ~(SelectNothing \/ SelectFuture \/ SelectDue), ~ChildStep
    PROVE  /\ \/ pc' = pc /\ rt' = rt /\ report' = report
              \/ pc' \notin {"due", "recorded", "notify", "child"}
              \/ pc = "due" /\ pc' = "child" /\ rt' = rt
           /\ status # "running" => saved' = saved
  <1> USE DEF Goto, record, runner, vars
  <1>1. CASE \/ LoopExhausted \/ LoopStopped \/ LoopDeadline \/ DueStopped
             \/ FinishWaitingForApproval \/ FinishMissionAborted \/ FinishRuntimeBlocked
             \/ FinishCompleted \/ ContinueStopped \/ PauseStopped
    <2>1. pc \in {"loop", "due", "recorded", "pause"} /\ status' # "running"
      BY <1>1 DEF LoopExhausted, LoopStopped, LoopDeadline, DueStopped, FinishWaitingForApproval,
         FinishMissionAborted, FinishRuntimeBlocked, FinishCompleted, ContinueStopped, PauseStopped,
         NextIteration, Finish, FinishCancelled
    <2>2. status = "running"
      BY <2>1 DEF Inv, RunnerOwnsMission, PCs, YieldPoints
    <2> QED BY <2>1, <2>2
  <1>2. CASE Begin \/ DueTimeout \/ ContinueNow \/ ContinueLater \/ PauseTimeout \/ Notified
    BY <1>2 DEF Begin, DueTimeout, ContinueNow, ContinueLater, PauseTimeout, Notified
  <1>3. CASE NotifyRaises \/ Shutdown \/ Crash
    BY <1>3 DEF NotifyRaises, Shutdown, Crash
  <1>4. CASE Restart
    BY <1>4 DEF Restart
  <1>5. CASE RequestStop \/ Tick \/ UNCHANGED vars
    BY <1>5 DEF RequestStop, Tick
  <1> QED BY <1>1, <1>2, <1>3, <1>4, <1>5 DEF Next, RunnerStep

LEMMA RunnerKnowsStep ==
    ASSUME Inv, RecordInv, [Next]_vars
    PROVE  RunnerKnows'
  <1> USE DEF RunnerKnows
  <1>0. RunnerKnows /\ rt \in RuntimeStates
    BY DEF RecordInv, Inv, TypeOK
  <1>1. CASE SelectNothing \/ SelectFuture \/ SelectDue
    <2>1. /\ rt' = DropStale(rt) /\ pc = "loop" /\ rt.done < MaxIterations
          /\ \/ pc' = "notify" /\ status' = "completed"
             \/ pc' \in {"due", "child"} /\ status' = status
      BY <1>1, SelectSteps
    <2>2. status = "running"
      BY <2>1 DEF Inv, RunnerOwnsMission, PCs, YieldPoints
    <2>3. rt'.done = rt.done
      BY <1>0, <2>1, DropStaleMirrors DEF Mirrors
    <2> QED BY <2>1, <2>2, <2>3
  <1>2. CASE ChildStep
    <2>1. PICK r \in Results : ChildReturns(r)
      BY <1>2 DEF ChildStep
    <2>2. /\ TypeOK /\ cur \in Nodes /\ rt' = DropStale(Recorded(r))
          /\ pc' = "recorded" /\ status' = "running"
      BY <2>1, ChildSteps
    <2>3. PICK sel \in Nodes \cup {0} :
            /\ Selects(Recorded(r), clock, sel)
            /\ report'.queue = WorkerNextQueue(Recorded(r), sel, NodeQueue(r))
      BY <2>1 DEF ChildReturns
    <2>4. report'.queue \in {"waiting_for_approval", "blocked"} => Stuck(rt')
      BY <2>2, <2>3, ParkedReports, SupervisorAssumption DEF RecordInv
    <2> QED BY <2>2, <2>4 DEF Stuck, Candidates, Stale
  <1>3. CASE ~(SelectNothing \/ SelectFuture \/ SelectDue) /\ ~ChildStep
    <2>1. CASE status' = status
      BY <1>0, <1>3, <2>1, MovingSteps DEF Stuck, Candidates, Stale
    <2>2. CASE status' # status
      BY <1>0, <1>3, <2>2, FinalSteps DEF Stuck, Candidates, Stale
    <2> QED BY <2>1, <2>2
  <1> QED BY <1>1, <1>2, <1>3

LEMMA RecordStep == Inv /\ RecordInv /\ [Next]_vars => RecordInv'
  BY MirrorStep, RunnerKnowsStep DEF RecordInv

THEOREM RecordInvariance == Spec => [](Inv /\ RecordInv)
  BY InitInv, StepInv, RecordInitially, RecordStep, PTL DEF Spec

-----------------------------------------------------------------------------
(* What follows. *)

\* A mission is parked as pending or blocked only when no node can be worked on and one waits for a
\* human or is blocked, for every mission graph and over crashes and resumes.
THEOREM ParkedMissionsAreStuck == Spec => []ParkedOnlyWhenStuck
  <1>1. RecordInv => ParkedOnlyWhenStuck
    BY DEF RecordInv, RunnerKnows, Stuck, ParkedOnlyWhenStuck
  <1> QED BY <1>1, RecordInvariance, PTL

\* One step takes nothing back.
LEMMA ProgressStep ==
    ASSUME Inv, RecordInv, [Next]_vars
    PROVE  /\ \A n \in Nodes : saved.status[n] = "done" => saved'.status[n] = "done"
           /\ saved'.done >= saved.done
           /\ saved'.llm >= saved.llm /\ saved'.tools >= saved.tools
           /\ saved'.repair >= saved.repair /\ saved'.pending >= saved.pending
           /\ \A f \in FailureTypes : saved'.retries[f] >= saved.retries[f]
  <1>1. /\ rt \in RuntimeStates /\ saved \in RuntimeStates /\ Mirrors(saved, rt)
    BY DEF Inv, TypeOK, RecordInv
  <1>2. CASE ChildStep
    <2>1. PICK r \in Results : ChildReturns(r)
      BY <1>2 DEF ChildStep
    <2>2. /\ TypeOK /\ cur \in Nodes /\ rt.status[cur] # "done"
          /\ Recorded(r) \in RuntimeStates /\ saved' = DropStale(Recorded(r))
      BY <2>1, ChildSteps
    <2>3. Mirrors(saved', Recorded(r))
      BY <2>2, DropStaleMirrors
    <2>4. /\ \A n \in Nodes : rt.status[n] = "done" => Recorded(r).status[n] = "done"
          /\ Recorded(r).done = rt.done + 1
          /\ Recorded(r).llm >= rt.llm /\ Recorded(r).tools >= rt.tools
          /\ Recorded(r).repair >= rt.repair /\ Recorded(r).pending >= rt.pending
          /\ \A f \in FailureTypes : Recorded(r).retries[f] >= rt.retries[f]
      BY <2>2, RecordingAdds, SupervisorAssumption
    <2>5. rt.done \in Nat
      BY <1>1 DEF RuntimeStates
    <2> QED BY <1>1, <2>3, <2>4, <2>5 DEF Mirrors
  <1>3. CASE ~ChildStep
    <2>1. saved' \in {saved, rt, DropStale(rt)}
      BY <1>3, QuietSteps, SelectSteps
    <2>2. Mirrors(saved', saved)
      BY <1>1, <2>1, DropStaleMirrors DEF Mirrors
    <2>3. /\ saved.done \in Nat /\ saved.llm \in Nat /\ saved.tools \in Nat /\ saved.repair \in Nat
          /\ saved.pending \in Nat /\ \A f \in FailureTypes : saved.retries[f] \in Nat
      BY <1>1 DEF RuntimeStates
    <2> QED BY <2>2, <2>3 DEF Mirrors
  <1> QED BY <1>2, <1>3

\* What the record holds is never taken back: done nodes stay done and no counter decreases, over any
\* number of crashes, shutdowns and resumes.
THEOREM ProgressIsDurable == Spec => DurableProgress
  <1>1. Inv /\ RecordInv /\ [Next]_vars =>
          [/\ \A n \in Nodes : saved.status[n] = "done" => saved'.status[n] = "done"
           /\ saved'.done >= saved.done
           /\ saved'.llm >= saved.llm /\ saved'.tools >= saved.tools
           /\ saved'.repair >= saved.repair /\ saved'.pending >= saved.pending
           /\ \A f \in FailureTypes : saved'.retries[f] >= saved.retries[f]]_vars
    BY ProgressStep
  <1> QED BY <1>1, RecordInvariance, PTL DEF Spec, DurableProgress

\* Every step of the supervisor is a step of the lifecycle or leaves it alone.
LEMMA LifecycleStep ==
    ASSUME Inv, RecordInv, [Next]_vars
    PROVE  [Lifecycle!Next]_(Lifecycle!lifecycle)
  <1> USE DEF Lifecycle!Next, Lifecycle!lifecycle, Lifecycle!StartChild, Lifecycle!RecordChild,
          Lifecycle!LoseChild, Lifecycle!End, Lifecycle!FailLate, Lifecycle!FinalStatuses
  <1>1. /\ rt \in RuntimeStates /\ saved \in RuntimeStates /\ Mirrors(saved, rt) /\ RunnerKnows
        /\ status \in TaskStatuses /\ saved.done \in Nat /\ saved.done = rt.done
    BY DEF Inv, TypeOK, RecordInv, RuntimeStates, Mirrors
  <1>2. CASE SelectNothing \/ SelectFuture \/ SelectDue
    <2>1. /\ saved' \in {rt, DropStale(rt)} /\ pc = "loop" /\ rt.done < MaxIterations
          /\ \/ pc' = "notify" /\ status' = "completed"
             \/ pc' \in {"due", "child"} /\ status' = status
      BY <1>2, SelectSteps
    <2>2. status = "running"
      BY <2>1 DEF Inv, RunnerOwnsMission, PCs, YieldPoints
    <2>3. saved'.done = saved.done
      BY <1>1, <2>1, DropStaleMirrors DEF Mirrors
    <2> QED BY <1>1, <2>1, <2>2, <2>3
  <1>3. CASE ChildStep
    <2>1. PICK r \in Results : ChildReturns(r)
      BY <1>3 DEF ChildStep
    <2>2. /\ TypeOK /\ cur \in Nodes /\ rt.status[cur] # "done"
          /\ Recorded(r) \in RuntimeStates /\ saved' = DropStale(Recorded(r))
          /\ pc = "child" /\ pc' = "recorded" /\ status' = status
      BY <2>1, ChildSteps
    <2>3. saved'.done = Recorded(r).done /\ Recorded(r).done = rt.done + 1
      BY <2>2, DropStaleMirrors, RecordingAdds, SupervisorAssumption DEF Mirrors
    <2> QED BY <1>1, <2>2, <2>3
  <1>4. CASE ~(SelectNothing \/ SelectFuture \/ SelectDue) /\ ~ChildStep
    <2>1. saved'.done = saved.done
      BY <1>1, <1>4, QuietSteps
    <2>2. CASE status' # status
      BY <1>1, <1>4, <2>1, <2>2, FinalSteps DEF RunnerKnows, TaskStatuses
    <2>3. CASE status' = status
      <3>1. \/ pc' = pc \/ pc' # "child" \/ (pc = "due" /\ pc' = "child")
        BY <1>4, <2>3, MovingSteps
      <3>2. pc = "due" => status = "running" /\ rt.done < MaxIterations
        BY <1>1 DEF Inv, RunnerOwnsMission, PCs, YieldPoints, RunnerKnows
      <3> QED BY <1>1, <2>1, <2>3, <3>1, <3>2
    <2> QED BY <2>2, <2>3
  <1> QED BY <1>2, <1>3, <1>4

\* The supervisor, with its stops, crashes, shutdowns and resumes, does only what MissionLifecycle
\* allows: at most MaxIterations child runs are recorded, each once, and only for a running mission.
THEOREM SupervisorImplementsLifecycle == Spec => ImplementsLifecycle
  <1>1. Init => Lifecycle!Init
    BY DEF Init, Lifecycle!Init, InitialRuntimeState
  <1>2. Inv /\ RecordInv /\ [Next]_vars => [Lifecycle!Next]_(Lifecycle!lifecycle)
    BY LifecycleStep
  <1> QED BY <1>1, <1>2, RecordInvariance, PTL DEF Spec, ImplementsLifecycle, Lifecycle!Spec

-----------------------------------------------------------------------------
(* The budgets of a mission with one node. *)

WithinBudgets(g) == g.llm <= MaxLlmCalls /\ g.tools <= MaxToolCalls /\ g.repair <= MaxRepairDepth

\* An entry that may be taken stands for budgets that are not exceeded.
Affordable(g) == (\E n \in Nodes : g.entry[n] \in ActionableQueues) => WithinBudgets(g)

BudgetsInv == Affordable(rt) /\ Affordable(saved) /\ (pc = "due" => WithinBudgets(rt))

LEMMA DropStaleAffordable ==
    ASSUME NEW g \in RuntimeStates, Affordable(g)
    PROVE  Affordable(DropStale(g)) /\ (WithinBudgets(DropStale(g)) <=> WithinBudgets(g))
  <1>1. \A n \in Nodes : DropStale(g).entry[n] \in {g.entry[n], "dropped"}
    BY DropStaleTyping, FreshEntriesTyping
  <1>2. WithinBudgets(DropStale(g)) <=> WithinBudgets(g)
    BY DropStaleMirrors DEF Mirrors, WithinBudgets
  <1> QED BY <1>1, <1>2 DEF Affordable, ActionableQueues

\* The only node keeps an actionable entry only if no budget was exhausted.
LEMMA RecordedAffordable ==
    ASSUME SupervisorAssumption, TypeOK, cur \in Nodes, NEW r \in Results, N = 1
    PROVE  Affordable(Recorded(r))
  <1> SUFFICES ASSUME NEW n \in Nodes, Recorded(r).entry[n] \in ActionableQueues
               PROVE  WithinBudgets(Recorded(r))
    BY DEF Affordable
  <1>1. n = cur
    BY DEF Nodes
  <1>2. Recorded(r).entry[cur] = NodeQueue(r)
    BY RecordedFields
  <1>3. NodeQueue(r) # "blocked"
    BY <1>1, <1>2 DEF ActionableQueues
  <1>4. ~BudgetExhausted(r)
    BY <1>3 DEF NodeQueue, QueueWithinBudget
  <1>5. /\ ~(LlmCallsAfter(r) > MaxLlmCalls) /\ ~(ToolCallsAfter(r) > MaxToolCalls)
        /\ ~(RepairDepthAfter(r) > MaxRepairDepth)
    BY <1>4 DEF BudgetExhausted
  <1>6. /\ LlmCallsAfter(r) \in Nat /\ ToolCallsAfter(r) \in Nat /\ RepairDepthAfter(r) \in Nat
        /\ MaxLlmCalls \in Nat /\ MaxToolCalls \in Nat /\ MaxRepairDepth \in Nat
    BY CountersTyping DEF SupervisorAssumption
  <1>7. Recorded(r).llm = LlmCallsAfter(r) /\ Recorded(r).tools = ToolCallsAfter(r)
        /\ Recorded(r).repair = RepairDepthAfter(r)
    BY DEF Recorded
  <1> QED BY <1>5, <1>6, <1>7 DEF WithinBudgets

LEMMA BudgetsInitially == Init => BudgetsInv
  <1>1. WithinBudgets(InitialRuntimeState)
    BY SupervisorAssumption DEF WithinBudgets, InitialRuntimeState, SupervisorAssumption
  <1> QED BY <1>1 DEF Init, BudgetsInv, Affordable

LEMMA BudgetsStep ==
    ASSUME N = 1, Inv, RecordInv, BudgetsInv, [Next]_vars
    PROVE  BudgetsInv' /\ (pc # "child" /\ pc' = "child" => WithinBudgets(rt))
  <1>1. /\ rt \in RuntimeStates /\ saved \in RuntimeStates /\ Mirrors(saved, rt)
        /\ Affordable(rt) /\ Affordable(saved) /\ (pc = "due" => WithinBudgets(rt))
    BY DEF Inv, TypeOK, RecordInv, BudgetsInv
  <1>2. CASE SelectNothing \/ SelectFuture \/ SelectDue
    <2>1. rt' = DropStale(rt) /\ saved' \in {rt, DropStale(rt)}
      BY <1>2, SelectSteps
    <2>2. Affordable(DropStale(rt)) /\ (WithinBudgets(DropStale(rt)) <=> WithinBudgets(rt))
      BY <1>1, DropStaleAffordable
    <2>3. pc' \in {"due", "child"} => \E n \in Nodes : Selects(rt, clock, n)
      BY <1>2 DEF SelectNothing, SelectFuture, SelectDue
    <2>4. pc' \in {"due", "child"} => WithinBudgets(rt)
      BY <1>1, <2>3, SelectedIsCandidate, SupervisorAssumption DEF Affordable, Nodes
    <2>5. Affordable(rt') /\ Affordable(saved') /\ (WithinBudgets(rt') <=> WithinBudgets(rt))
      BY <1>1, <2>1, <2>2
    <2> HIDE DEF BudgetsInv
    <2>6. BudgetsInv'
      BY <2>4, <2>5 DEF BudgetsInv, Affordable, WithinBudgets
    <2> QED BY <2>4, <2>6
  <1>3. CASE ChildStep
    <2>1. PICK r \in Results : ChildReturns(r)
      BY <1>3 DEF ChildStep
    <2>2. /\ TypeOK /\ cur \in Nodes /\ Recorded(r) \in RuntimeStates /\ pc' = "recorded"
          /\ rt' = DropStale(Recorded(r)) /\ saved' = DropStale(Recorded(r))
      BY <2>1, ChildSteps
    <2>3. Affordable(DropStale(Recorded(r)))
      BY <2>2, RecordedAffordable, DropStaleAffordable, SupervisorAssumption
    <2>4. Affordable(rt') /\ Affordable(saved')
      BY <2>2, <2>3
    <2> QED BY <2>2, <2>4 DEF BudgetsInv, Affordable, WithinBudgets
  <1>4. CASE ~(SelectNothing \/ SelectFuture \/ SelectDue) /\ ~ChildStep
    <2>1. rt' \in {rt, saved} /\ saved' \in {saved, rt}
      BY <1>4, QuietSteps
    <2>2. Affordable(rt') /\ Affordable(saved')
      BY <1>1, <2>1
    <2>3. \/ pc' = pc /\ rt' = rt
          \/ pc' \notin {"due", "child"}
          \/ pc = "due" /\ pc' = "child" /\ rt' = rt
      BY <1>4, FinalSteps, MovingSteps
    <2> QED BY <1>1, <2>2, <2>3 DEF BudgetsInv, Affordable, WithinBudgets
  <1> QED BY <1>2, <1>3, <1>4

\* In a mission with a single node no child run starts once a guardrail budget is exceeded, for any
\* budgets and over any number of crashes and resumes.
THEOREM SingleNodesKeepTheirBudgets == ASSUME N = 1 PROVE Spec => BudgetIsHard
  <1>1. Inv /\ RecordInv /\ BudgetsInv /\ [Next]_vars => BudgetsInv'
    BY BudgetsStep
  <1>2. Inv /\ RecordInv /\ BudgetsInv /\ [Next]_vars =>
          [pc # "child" /\ pc' = "child" =>
             /\ rt.llm <= MaxLlmCalls /\ rt.tools <= MaxToolCalls
             /\ rt.repair <= MaxRepairDepth]_vars
    BY BudgetsStep DEF WithinBudgets
  <1> QED BY <1>1, <1>2, BudgetsInitially, RecordInvariance, PTL DEF Spec, BudgetIsHard

=============================================================================
