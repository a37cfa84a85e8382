-------------------------- MODULE TopologyEvolution --------------------------
(* The Darwin loop: children of the best topology are mutated and compared,  *)
(* an audit removes what carries nothing, and procedural memory warm-starts  *)
(* the next run.  Fitness is left open: any child may win.  An encoding      *)
(* changes nothing but fitness, so ChangeEncoding is not an action.          *)
EXTENDS Integers, Sequences

CONSTANTS Agents, Mandatory,        \* Mandatory: the edges of mandatory_edges()
          Verified,                 \* edges that pass the causal test; the rest fail it
          Cap,                      \* of fully_connected(): Authority, 0 .. 3
          MutationsPerChild,
          ForeignRecords,           \* agent sets that others stored for the family
          MaxRecords, MaxUses       \* bounds of the model: of the memory

Edges == {e \in Agents \X Agents : e[1] # e[2]}

ASSUME EvolutionAssumption == /\ Mandatory \subseteq Edges
                              /\ Cap \in 0 .. 3

Authority == 0 .. 3
ContextInject == 1

VARIABLES best, child,   \* [active, authority]: authority maps the edges there are
          mutated,       \* mutations the child has behind it
          phase,         \* "search", "audited", "kept" (audit refused) or "done"
          memory         \* topologies of the family, oldest first: [agents, uses]

evolutionVars == <<best, child, mutated, phase, memory>>

Lower(a, b) == IF a <= b THEN a ELSE b

\* fully_connected()
Base(active) == [active |-> active,
                 authority |-> [e \in Edges |-> Lower(ContextInject, Cap)]]

Start(t) == /\ best' = t /\ child' = t
            /\ mutated' = 0 /\ phase' = "search"

EvolutionInit == /\ best = Base(Agents) /\ child = Base(Agents)
                 /\ mutated = 0 /\ phase = "search"
                 /\ memory = <<>>

Present(t) == DOMAIN t.authority
WithEdges(t, edges) == [t EXCEPT !.authority = [e \in edges |-> t.authority[e]]]

-----------------------------------------------------------------------------
(* apply_mutation(): what each mutation makes of a topology, itself when it  *)
(* is refused.                                                               *)
AddEdge(t, e) == IF e \in Present(t) THEN t
                 ELSE [t EXCEPT !.authority = [x \in Present(t) \union {e} |->
                                   IF x = e THEN 0 ELSE t.authority[x]]]

RemoveEdge(t, e) == IF e \in Mandatory THEN t ELSE WithEdges(t, Present(t) \ {e})

RaiseAuthority(t, e) == IF t.authority[e] + 1 <= Cap
                        THEN [t EXCEPT !.authority[e] = @ + 1] ELSE t

LowerAuthority(t, e) == IF t.authority[e] > 0 THEN [t EXCEPT !.authority[e] = @ - 1] ELSE t

Anchors(t, a) == \E e \in Present(t) \intersect Mandatory : a = e[1] \/ a = e[2]

DeactivateAgent(t, a) == IF Anchors(t, a) THEN t ELSE [t EXCEPT !.active = @ \ {a}]
ReactivateAgent(t, a) == [t EXCEPT !.active = @ \union {a}]

\* random_mutation(): edge mutations pick from the edges there are; a
\* self edge is refused.
Proposed(t) ==
    {t} \union {AddEdge(t, e) : e \in Edges} \union
    (UNION {{RemoveEdge(t, e), RaiseAuthority(t, e), LowerAuthority(t, e)} : e \in Present(t)}) \union
    (IF Present(t) = {} THEN {} ELSE {DeactivateAgent(t, a) : a \in Agents}
                                     \union {ReactivateAgent(t, a) : a \in Agents})

Mutate == /\ phase = "search" /\ mutated < MutationsPerChild
          /\ child' \in Proposed(child)
          /\ mutated' = mutated + 1
          /\ UNCHANGED <<best, phase, memory>>

\* The child is compared with the best; the next one is bred from the winner.
Select == /\ phase = "search" /\ mutated = MutationsPerChild
          /\ best' \in {best, child}
          /\ child' = best' /\ mutated' = 0
          /\ UNCHANGED <<phase, memory>>

-----------------------------------------------------------------------------
Ends(edges) == {e[1] : e \in edges} \union {e[2] : e \in edges}
LiveEdges(t) == {e \in Present(t) : e[1] \in t.active /\ e[2] \in t.active}

\* The final audit pass.  Mutant: edges at inactive agents are kept if verified.
RetainedStranded(t) == {e \in Present(t) : e \in Mandatory \/ e \in Verified}
Retained(t) == {e \in Present(t) : e \in Mandatory \/ (e \in Verified /\ e \in LiveEdges(t))}

Audited(t) == [active |-> t.active \intersect Ends(Retained(t)),
               authority |-> [e \in Retained(t) |-> t.authority[e]]]

\* After the last generation; the audited topology is taken if it is no less fit.
Audit == /\ phase = "search" /\ mutated = 0
         /\ \/ best' = Audited(best) /\ phase' = "audited"
            \/ best' = best /\ phase' = "kept"
         /\ child' = best'
         /\ UNCHANGED <<mutated, memory>>

StoreTopology(agents) == /\ Len(memory) < MaxRecords
                 /\ memory' = Append(memory, [agents |-> agents, uses |-> 1])

RememberTopology == /\ phase \in {"audited", "kept"}
                    /\ StoreTopology(best.active)
                    /\ phase' = "done"
                    /\ UNCHANGED <<best, child, mutated>>

\* store_topology() by somebody else, for the same family.
StoreForeign(agents) == /\ phase = "done" /\ StoreTopology(agents)
                        /\ UNCHANGED <<best, child, mutated, phase>>

\* max_by_key() answers the last of several maxima.
MostUsed == CHOOSE i \in 1 .. Len(memory) :
                \A j \in 1 .. Len(memory) : /\ memory[j].uses <= memory[i].uses
                                            /\ j > i => memory[j].uses < memory[i].uses

RecordTopologyUse == /\ phase = "done" /\ memory # <<>>
                     /\ memory[MostUsed].uses < MaxUses
                     /\ memory' = [memory EXCEPT ![MostUsed].uses = @ + 1]
                     /\ UNCHANGED <<best, child, mutated, phase>>

\* The agents a warm start leaves active.  Mutant: those of the record alone.
KeptOfRecord(agents) == agents
KeptActive(agents) == agents \union Ends(Mandatory)

\* The next run: evolve() with a memory; an empty record starts cold.
Evolve == /\ phase = "done" /\ memory # <<>>
          /\ LET record == memory[MostUsed].agents IN
                 Start(Base(IF record = {} THEN Agents ELSE Agents \intersect KeptActive(record)))
          /\ UNCHANGED memory

EvolutionNext == \/ Mutate \/ Select \/ Audit \/ RememberTopology
                 \/ \E agents \in ForeignRecords : StoreForeign(agents)
                 \/ RecordTopologyUse \/ Evolve

EvolutionSpec == EvolutionInit /\ [][EvolutionNext]_evolutionVars

-----------------------------------------------------------------------------
(* No chain of mutations, selections, audits and warm starts takes an edge   *)
(* over its constitution cap, in the best topology or in any candidate.      *)
AuthorityCapped == \A t \in {best, child} : \A e \in Present(t) : t.authority[e] <= Cap

(* The governance edges stay, and carry: both agents of each are active in   *)
(* every candidate, also when the run was warm-started from a record that    *)
(* does not know of them.                                                    *)
MandatoryLive == \A t \in {best, child} : Mandatory \subseteq LiveEdges(t)

(* What the constitution demands, of every topology there is.                *)
ConstitutionKept == AuthorityCapped /\ MandatoryLive

(* An audit that is taken leaves nothing over: every edge carries, every     *)
(* agent has an edge, and what is not mandatory is verified.                 *)
AuditIsClean == phase = "audited" => /\ Present(best) = LiveEdges(best)
                                     /\ best.active = Ends(Present(best))
                                     /\ Present(best) \subseteq Mandatory \union Verified
=============================================================================
