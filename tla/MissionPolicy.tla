---------------------------- MODULE MissionPolicy ----------------------------
(***************************************************************************)
(* The pure decision functions of the mission supervisor: which recovery   *)
(* policy a failure type selects, which step of the mission's recovery     *)
(* ladder is taken, which scheduler queue the node goes to, and which      *)
(* guardrail budgets are exhausted.  Translated from                       *)
(* src/src/runtime/orchestration_policy.py and the helpers at the top of   *)
(* src/src/gateway/control_supervisor.py.                                  *)
(*                                                                         *)
(* Failure types are strings; any type the table does not name falls back  *)
(* to the policy of "unknown", as in the code.                             *)
(***************************************************************************)
EXTENDS Integers, Sequences

NoFailure == "none"   \* failure_type is None: the iteration passed
NoStep    == "no_step"  \* selected_step is None
NoAction  == "no_action"

Queues == {"ready", "blocked", "waiting_for_approval", "retry_later",
           "periodic_check", "completed"}

\* The queues a worker may take an entry from.
ActionableQueues == {"ready", "retry_later", "periodic_check"}

NodeStatuses == {"ready", "done", "failed", "blocked"}

LadderSteps == {"observe_again", "verify_state", "retry_same_step",
                "retry_smaller_step", "alternate_capability",
                "diagnostic_task", "request_approval", "pause_or_block",
                "create_improvement_candidate"}

TerminalSteps == {"request_approval", "pause_or_block",
                  "create_improvement_candidate"}

RecoveryActions == {"reselect_surface", "gather_destination_evidence",
                    "switch_surface", "request_human_approval",
                    "retry_with_backoff", "inspect_replay", "mark_failed"}

-----------------------------------------------------------------------------
\* default_recovery_policies: the first allowed action, the queue and the
\* tool calls the recovery is charged (no default charges model calls).
Policy(action, queue, tools) ==
    [action |-> action, queue |-> queue, tools |-> tools]

RecoveryPolicyFor(failure) ==
    CASE failure = "weak_evidence" ->
           Policy("gather_destination_evidence", "waiting_for_approval", 1)
      [] failure = "focus_mismatch" ->
           Policy("reselect_surface", "retry_later", 1)
      [] failure \in {"wrong_surface", "target_context_mismatch"} ->
           Policy("switch_surface", "retry_later", 1)
      [] failure = "policy_blocked" ->
           Policy("request_human_approval", "waiting_for_approval", 0)
      [] failure = "tool_timeout" ->
           Policy("retry_with_backoff", "retry_later", 1)
      [] OTHER ->
           Policy("inspect_replay", "blocked", 0)

\* recovery_ladder_step_for_decision, for a decision that needs recovery.
PreferredStep(action) ==
    CASE action = "gather_destination_evidence" -> "verify_state"
      [] action = "reselect_surface"            -> "observe_again"
      [] action = "switch_surface"              -> "alternate_capability"
      [] action = "retry_with_backoff"          -> "retry_smaller_step"
      [] action = "inspect_replay"              -> "diagnostic_task"
      [] action = "request_human_approval"      -> "request_approval"
      [] OTHER                                  -> "pause_or_block"

\* The step that follows the one at position p by k places, cyclically.
StepAfter(ladder, p, k) == ladder[((p + k - 1) % Len(ladder)) + 1]

\* later_steps: the first terminal step after position p, in cyclic order and
\* before coming back to p.
FirstTerminalAfter(ladder, p) ==
    LET hits == {k \in 1 .. Len(ladder) - 1 :
                   StepAfter(ladder, p, k) \in TerminalSteps}
    IN  IF hits = {} THEN "pause_or_block"
        ELSE StepAfter(ladder, p,
                       CHOOSE k \in hits : \A j \in hits : k <= j)

\* select_recovery_ladder_step with the budget not exhausted.  A preferred
\* step the mission's ladder leaves out is replaced by the ladder's first
\* step, whatever the retry count; a preferred step past its retry limit is
\* replaced by the next terminal step.
SelectLadderStep(preferred, ladder, retryCount, maxRetriesPerStep) ==
    LET places == {i \in 1 .. Len(ladder) : ladder[i] = preferred}
    IN  IF places = {} THEN ladder[1]
        ELSE IF retryCount >= maxRetriesPerStep
             THEN FirstTerminalAfter(ladder, CHOOSE p \in places : TRUE)
             ELSE preferred

\* recovery_action_for_ladder_step
ActionForStep(step, fallback) ==
    CASE step = "observe_again"        -> "reselect_surface"
      [] step = "verify_state"         -> "gather_destination_evidence"
      [] step \in {"retry_same_step", "retry_smaller_step"}
                                       -> "retry_with_backoff"
      [] step = "alternate_capability" -> "switch_surface"
      [] step = "diagnostic_task"      -> "inspect_replay"
      [] step = "request_approval"     -> "request_human_approval"
      [] step \in {"pause_or_block", "create_improvement_candidate"}
                                       -> "mark_failed"
      [] OTHER                         -> fallback

\* scheduler_queue_for_recovery_ladder_step
QueueForStep(step, fallback) ==
    CASE step = "request_approval" -> "waiting_for_approval"
      [] step \in {"pause_or_block", "create_improvement_candidate"}
                                   -> "blocked"
      [] OTHER                     -> fallback

\* repair_depth_increment
RepairIncrement(action) ==
    IF action \in {"reselect_surface", "gather_destination_evidence",
                   "switch_surface", "retry_with_backoff", "inspect_replay"}
    THEN 1 ELSE 0

\* _task_node_status_for_queue
NodeStatusFor(queue) ==
    CASE queue = "completed"                            -> "done"
      [] queue \in {"waiting_for_approval", "blocked"}  -> "blocked"
      [] queue = "retry_later"                          -> "failed"
      [] OTHER                                          -> "ready"

=============================================================================
