--------------------------- MODULE PhysicalReplay ---------------------------
(***************************************************************************)
(* The offline artifacts of the physical-adjacent layer: what a reading of *)
(* telemetry is worth, what the safety governor makes of it, and which     *)
(* artifacts a step leaves behind.  Operators only; ToyGridWorld is the    *)
(* state machine built from them.                                          *)
(*                                                                         *)
(* A reading stands for the dictionary an adapter delivers: whether it is  *)
(* one at all, whether it is stamped, whether every required signal is     *)
(* there, its age in seconds and the kinds of values among its signals.    *)
(***************************************************************************)
EXTENDS Integers

MaxAgeSeconds == 60

NoReading == [kind |-> "none", stamped |-> FALSE, complete |-> FALSE, age |-> 0, values |-> {}]

\* The verdict on a reading, the first of its faults in the code's order.
TelemetryHealth(r) ==
    CASE r.kind = "none" -> "missing"
      [] r.kind = "junk" \/ (r.kind = "data" /\ ~(r.stamped /\ r.complete)) -> "malformed"
      [] r.kind = "data" /\ r.stamped /\ r.complete ->
            CASE r.age > MaxAgeSeconds -> "stale"
              [] r.age <= MaxAgeSeconds /\ "unsafe" \in r.values -> "unsafe"
              [] r.age <= MaxAgeSeconds /\ "unsafe" \notin r.values /\ "other" \in r.values -> "degraded"
              [] OTHER -> "nominal"

\* The base decision of the governor: a dry run, and only under nominal telemetry.
GovernorAllows(health) == health = "nominal"

GovernorReason(health) == IF GovernorAllows(health) THEN "dry_run_only" ELSE health

NoArtifacts == [envelope |-> FALSE, dryRun |-> FALSE, plan |-> FALSE, offline |-> FALSE, live |-> FALSE]

\* The envelope and the replay plan carry their safety flags as constants of their schemas.
DryRunArtifacts == [envelope |-> TRUE, dryRun |-> TRUE, plan |-> TRUE, offline |-> TRUE, live |-> FALSE]

=============================================================================
