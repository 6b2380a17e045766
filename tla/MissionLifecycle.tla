--------------------------- MODULE MissionLifecycle ---------------------------
(***************************************************************************)
(* What the supervisor promises about one mission, seen from its durable   *)
(* record: at most MaxIterations child runs are ever recorded, one after   *)
(* the other and only while the record says "running"; a child run is      *)
(* recorded once or lost, never twice; and a final status is left only for *)
(* "failed", when announcing it raised.  Module Supervisor implements this. *)
(***************************************************************************)
EXTENDS Naturals

CONSTANT MaxIterations

VARIABLES
    status,       \* the status of the task record
    iterations,   \* completed iterations in the task record
    childActive   \* a child control loop is running for the mission

lifecycle == <<status, iterations, childActive>>

FinalStatuses == {"pending", "blocked", "failed", "cancelled", "completed"}

Init ==
    /\ status = "running"
    /\ iterations = 0
    /\ childActive = FALSE

StartChild ==
    /\ status = "running" /\ ~childActive
    /\ iterations < MaxIterations
    /\ childActive' = TRUE
    /\ UNCHANGED <<status, iterations>>

RecordChild ==
    /\ childActive
    /\ iterations' = iterations + 1
    /\ childActive' = FALSE
    /\ UNCHANGED status

\* The process went down under the child; nothing of it is recorded.
LoseChild ==
    /\ childActive
    /\ childActive' = FALSE
    /\ UNCHANGED <<status, iterations>>

End ==
    /\ status = "running" /\ ~childActive
    /\ status' \in FinalStatuses
    /\ UNCHANGED <<iterations, childActive>>

FailLate ==
    /\ status \in FinalStatuses
    /\ status' = "failed"
    /\ UNCHANGED <<iterations, childActive>>

Next == StartChild \/ RecordChild \/ LoseChild \/ End \/ FailLate

Spec == Init /\ [][Next]_lifecycle

=============================================================================
