----------------------------- MODULE MCSupervisor -----------------------------
(***************************************************************************)
(* Small missions for TLC: the graphs, ladders and bounds the              *)
(* configurations MCSupervisor*.cfg choose from.                           *)
(***************************************************************************)
EXTENDS Supervisor

\* One node: the plain "keep this objective" supervisor.
SingleGraph == <<{}>>

\* Two independent nodes, and a third that joins them.
JoinGraph == <<{}, {}, {1, 2}>>

\* One root, and two nodes that each wait for it.
ForkGraph == <<{}, {1}, {1}>>

\* The ladder MissionRecoveryPolicy defaults to.
DefaultLadder ==
    <<"observe_again", "verify_state", "retry_same_step",
      "retry_smaller_step", "alternate_capability", "diagnostic_task",
      "request_approval", "pause_or_block", "create_improvement_candidate">>

\* A mission that only lets the supervisor retry.
RetryOnlyLadder == <<"retry_same_step">>

=============================================================================
