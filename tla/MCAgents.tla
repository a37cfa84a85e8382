------------------------------ MODULE MCAgents ------------------------------
(* The agent plane: components that share no state, side by side.  The plane *)
(* picked at the start is the one that moves, so the state spaces add.       *)
EXTENDS TaskContext, BudgetSession, RepresentationRouter, RuleFederation,
        TopologyEvolution, MemoryStore, LatentStream

VARIABLE plane

ZeroPayload == [size |-> 0, finite |-> TRUE, confidence |-> 100]
PayloadsOffered == {ZeroPayload} \union
    [size : {1}, finite : {TRUE}, confidence : {50}] \union
    [size : {1}, finite : {FALSE}, confidence : {50}] \union
    [size : {1, 2}, finite : {TRUE}, confidence : {100, 101}]

BudgetConfig == [min_iterations |-> 2, max_iterations |-> 4,
                 min_threshold |-> 50, max_threshold |-> 90,
                 iteration_floor |-> 3, verification_floor |-> 80,
                 risk_ceiling |-> [Routine |-> 50, Elevated |-> 30, SafetyCritical |-> 10]]
SignalsOffered == [demand : {NaN, 0, 50, 100}, pressure : {0, 25, 50}]
MeasurementsOffered == [converged : BOOLEAN, confidence : {60, 80, 90}, policy_safe : BOOLEAN,
                        risk : {10, 40}, late : BOOLEAN]

GainsOffered == {-1, 1, 2}

Federated == [n \in Nodes |-> IF n = "n3" THEN "east" ELSE "west"]

ThreeAgents == 1 .. 3
ControlEdge == {<<3, 1>>}
UsefulEdges == {<<1, 2>>, <<2, 1>>}
RecordsOfOthers == {{}, {2}}

\* Records of every fidelity; the parents a caller may give are one that is never
\* stored and one that may be, later, or is the record itself.
RecordsOffered ==
    [fidelity : {Raw, Compressed, Prototype, Rule}, error : {0, 1},
     parents : {{}, {"a", "unknown"}}]

\* One edge with a verdict that lets it act, one without; thresholds 0.5, 0.75, 0.9.
Ceilings == [edge \in {"verified"} |-> 3]
BothEdges == {"verified", "unverified"}
DefaultThresholds == <<50, 75, 90>>

Init == /\ plane \in {"context", "budget", "router", "federation", "evolution", "memory",
                       "stream"}
        /\ ContextInit /\ BudgetInit /\ RouterInit
        /\ FederationInit /\ EvolutionInit /\ MemoryInit /\ StreamInit
        /\ plane # "memory" => backend = "memory"

Next ==
    /\ UNCHANGED plane
    /\ \/ plane = "context" /\ ContextNext
       \/ plane # "context" /\ UNCHANGED contextVars
    /\ \/ plane = "budget" /\ BudgetNext
       \/ plane # "budget" /\ UNCHANGED budgetVars
    /\ \/ plane = "router" /\ RouterNext
       \/ plane # "router" /\ UNCHANGED routerVars
    /\ \/ plane = "federation" /\ FederationNext
       \/ plane # "federation" /\ UNCHANGED federationVars
    /\ \/ plane = "evolution" /\ EvolutionNext
       \/ plane # "evolution" /\ UNCHANGED evolutionVars
    /\ \/ plane = "memory" /\ MemoryNext
       \/ plane # "memory" /\ UNCHANGED memoryVars
    /\ \/ plane = "stream" /\ StreamNext
       \/ plane # "stream" /\ UNCHANGED streamVars

Spec == Init /\ [][Next]_<<plane, contextVars, budgetVars, routerVars,
                           federationVars, evolutionVars, memoryVars, streamVars>>
=============================================================================
