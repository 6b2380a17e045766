---------------------------- MODULE MCBackground ----------------------------
(***************************************************************************)
(* Six components that share no state, checked side by side: an initial   *)
(* state picks one of them, whose steps are taken while the others stay in *)
(* their initial states.                                                   *)
(***************************************************************************)
EXTENDS CronScheduler, CurrentTabBridge, SessionStore, MemoryLifecycle, TaskStore, AuditLog

VARIABLE part

\* One job by the clock, one by a system event.
SmallPeriods == [j \in Jobs |-> IF j = "clock" THEN 2 ELSE 0]
SmallEvents == [j \in Jobs |-> IF j = "clock" THEN "" ELSE "connect"]
SmallRetries == [j \in Jobs |-> IF j = "clock" THEN 1 ELSE 0]

\* Two texts that say the same, and one that contradicts one of them.
SmallAlike == {<<c, c>> : c \in Contents} \cup {<<"x", "y">>, <<"y", "x">>}
SmallContrary == {<<"x", "z">>, <<"z", "x">>}

Init ==
    /\ part \in {"cron", "bridge", "sessions", "memory", "tasks", "audit"}
    /\ CronInit /\ BridgeInit /\ StoreInit /\ MemoryInit /\ TaskInit /\ AuditInit
    /\ part # "tasks" => Stored(row) = {} /\ ~fts
    /\ part # "audit" => file = << >>

Next ==
    \/ part = "cron" /\ CronNext /\ UNCHANGED <<part, bridgeVars, storeVars, memoryVars, taskVars, auditVars>>
    \/ part = "bridge" /\ BridgeNext /\ UNCHANGED <<part, cronVars, storeVars, memoryVars, taskVars, auditVars>>
    \/ part = "sessions" /\ StoreNext /\ UNCHANGED <<part, cronVars, bridgeVars, memoryVars, taskVars, auditVars>>
    \/ part = "memory" /\ MemoryNext /\ UNCHANGED <<part, cronVars, bridgeVars, storeVars, taskVars, auditVars>>
    \/ part = "tasks" /\ TaskNext /\ UNCHANGED <<part, cronVars, bridgeVars, storeVars, memoryVars, auditVars>>
    \/ part = "audit" /\ AuditNext /\ UNCHANGED <<part, cronVars, bridgeVars, storeVars, memoryVars, taskVars>>

Spec == /\ Init /\ [][Next]_<<part, cronVars, bridgeVars, storeVars, memoryVars, taskVars, auditVars>>
        /\ CronFairness

=============================================================================
