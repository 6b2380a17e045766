------------------------------- MODULE MCGateway -------------------------------
(***************************************************************************)
(* The gateway's end of one chat session (its connections, events and the  *)
(* registration of its tasks; and what those tasks do until the answer),   *)
(* the improvement flows and the way of promotions, checked side by side:  *)
(* an initial state picks one of the four, whose steps are taken while the *)
(* others stay in their initial states.                                    *)
(***************************************************************************)
EXTENDS ChatSession, GatewayRuns, SelfImprovement, Promotions, TLC

VARIABLE part

\* Every kind of run; records that are approved, lack an approval, or are of an unknown kind.
SmallOrders ==
    LET Wants(kind, promotes, suite, linked) ==
            [kind |-> kind, promotes |-> promotes, suite |-> suite, linked |-> linked,
             approve |-> TRUE, tidy |-> TRUE, auto |-> kind = "demo"]
    IN {Wants("search", "memory", "full", FALSE), Wants("demo", "skill", "full", TRUE),
        Wants("package", "skill", "full", FALSE), Wants("package", "unknown", "full", TRUE),
        Wants("benchmark", "memory", "quick", FALSE)}

\* The first has something to do with the missions, the last applies to any.
SmallRelevance == [i \in Improvements |-> IF i = 1 THEN 1 ELSE 0]

\* Request slots and connection slots of the chat session are interchangeable, and so are flows.
Symmetry == Permutations(Requests) \cup Permutations(Conns) \cup Permutations(Flows)

PartInit ==
    /\ part \in {"chat", "requests", "improvement", "promotions"}
    /\ Init /\ GatewayInit /\ ImprovementInit /\ PromotionInit
    /\ part # "promotions" => \A i \in Improvements : candidateType[i] = "memory_rule"

PartNext ==
    \/ part = "chat" /\ Next /\ UNCHANGED <<part, gatewayVars, improvementVars, promotionVars>>
    \/ part = "requests" /\ GatewayNext /\ UNCHANGED <<part, vars, improvementVars, promotionVars>>
    \/ part = "improvement" /\ ImprovementNext /\ UNCHANGED <<part, vars, gatewayVars, promotionVars>>
    \/ part = "promotions" /\ PromotionNext /\ UNCHANGED <<part, vars, gatewayVars, improvementVars>>

PartSpec == PartInit /\ [][PartNext]_<<part, vars, gatewayVars, improvementVars, promotionVars>>

=============================================================================
