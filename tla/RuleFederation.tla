--------------------------- MODULE RuleFederation ---------------------------
(* Nodes share transition rules over a radio that everyone hears.  A rule    *)
(* says what follows a key, the pair (pre, action); the sender decides to    *)
(* whom it may be offered, each receiver whether it holds for itself.        *)
EXTENDS Integers

CONSTANTS Nodes, Keys, Posts,
          Clusters, ClusterOf,   \* a scope is a cluster or one of the three below
          NoRule,
          MinHoldout,            \* AdmissionConfig.min_holdout
          MaxEdits,              \* bounds of the model: in a behaviour,
          MaxObserved            \*   and of each node

Scopes == Clusters \union {"Global", "Private", "Unresolved"}
Rules == [post : Posts, scope : Scopes, origin : Nodes]   \* origin: history

ASSUME FederationAssumption == /\ ClusterOf \in [Nodes -> Clusters]
                               /\ MinHoldout \in Nat \ {0}
                               /\ {MaxEdits, MaxObserved} \subseteq Nat
                               /\ NoRule \notin Rules
                               /\ Clusters \intersect {"Global", "Private", "Unresolved"} = {}

VARIABLES rulesOf,   \* WorldModel.rules of each node, by key
          holdout,   \* WorldModel.holdout: how often each post was seen after each key
          shared,    \* what each node takes the others to know, posts by key
          air,       \* rules in envelopes on the radio: heard by any node, any number of times
          edits,
          observed   \* length of each node's holdout

federationVars == <<rulesOf, holdout, shared, air, edits, observed>>

FederationInit == /\ rulesOf = [n \in Nodes |-> [k \in Keys |-> NoRule]]
                  /\ holdout = [n \in Nodes |-> [k \in Keys |-> [p \in Posts |-> 0]]]
                  /\ shared = [n \in Nodes |-> [k \in Keys |-> {}]]
                  /\ air = {}
                  /\ edits = 0 /\ observed = [n \in Nodes |-> 0]

Install(n, k, rule) == rulesOf' = [rulesOf EXCEPT ![n][k] = rule]

\* A node installs a rule of its own, or removes one.  Its cluster is the only
\* one it learns about.
Learn(n, k, rule) == /\ edits < MaxEdits
                     /\ rule.origin = n
                     /\ rule.scope \in Clusters => rule.scope = ClusterOf[n]
                     /\ Install(n, k, rule)
                     /\ edits' = edits + 1
                     /\ UNCHANGED <<holdout, shared, air, observed>>

Remove(n, k) == /\ edits < MaxEdits
                /\ Install(n, k, NoRule)
                /\ edits' = edits + 1
                /\ UNCHANGED <<holdout, shared, air, observed>>

RecordHoldout(n, k, p) == /\ observed[n] < MaxObserved
                          /\ holdout' = [holdout EXCEPT ![n][k][p] = @ + 1]
                          /\ observed' = [observed EXCEPT ![n] = @ + 1]
                          /\ UNCHANGED <<rulesOf, shared, air, edits>>

\* offerable_to(); encode_for_transmission() and decode() refuse Private too.
OfferableTo(rule, cluster) == \/ rule.scope \in {"Global", "Unresolved"}
                              \/ rule.scope \in Clusters /\ rule.scope = cluster

\* should_transmit_to() for one cluster, then the envelope goes on the air.
Offer(n, k, cluster) ==
    /\ rulesOf[n][k] # NoRule
    /\ OfferableTo(rulesOf[n][k], cluster)
    /\ rulesOf[n][k].post \notin shared[n][k]
    /\ air' = air \union {<<k, rulesOf[n][k]>>}
    /\ shared' = [shared EXCEPT ![n][k] = {rulesOf[n][k].post}]
    /\ UNCHANGED <<rulesOf, holdout, edits, observed>>

\* The first tests of validate_candidate().  Mutant: no test of the cluster.
InScopeAnyone(rule, n) == rule.scope # "Private"
InScope(rule, n) == /\ rule.scope # "Private"
                    /\ rule.scope \in Clusters => rule.scope = ClusterOf[n]

Correct(n, k, rule) == IF rule = NoRule THEN 0 ELSE holdout[n][k][rule.post]

\* Gain over no rule, and over the decoy applied to a key that does not occur:
\* both compare the candidate with what the node predicts now.  Mutant: a tie is a gain.
GainOrTie(n, k, rule) == Correct(n, k, rule) >= Correct(n, k, rulesOf[n][k])
Gain(n, k, rule) == Correct(n, k, rule) > Correct(n, k, rulesOf[n][k])

\* The decoy with another post drawn from the log must not do better.
BeatsDecoy(n, k, rule) ==
    \/ \A j \in Keys, p \in Posts \ {rule.post} : holdout[n][j][p] = 0
    \/ \E p \in Posts \ {rule.post} : /\ \E j \in Keys : holdout[n][j][p] > 0
                                      /\ Correct(n, k, rule) >= holdout[n][k][p]

\* Whether the gain is significant is left open: the action may not be taken.
Hear(n, k, rule) ==
    /\ <<k, rule>> \in air
    /\ InScope(rule, n)
    /\ observed[n] >= MinHoldout
    /\ Gain(n, k, rule)
    /\ BeatsDecoy(n, k, rule)
    /\ Install(n, k, rule)
    /\ UNCHANGED <<holdout, shared, air, edits, observed>>

FederationNext == \E n \in Nodes, k \in Keys :
    \/ \E rule \in Rules : Learn(n, k, rule)
    \/ Remove(n, k)
    \/ \E p \in Posts : RecordHoldout(n, k, p)
    \/ \E c \in Clusters : Offer(n, k, c)
    \/ \E e \in air : e[1] = k /\ Hear(n, k, e[2])

FederationSpec == FederationInit /\ [][FederationNext]_federationVars

-----------------------------------------------------------------------------
(* However often a rule is passed on, a rule of a cluster is only ever in    *)
(* force at nodes of that cluster, although all nodes hear it, and a private *)
(* rule only where it was learnt; no private rule is ever on the air.        *)
ScopesKept ==
    /\ \A n \in Nodes, k \in Keys :
           LET rule == rulesOf[n][k] IN
           rule # NoRule => /\ rule.scope \in Clusters => rule.scope = ClusterOf[n]
                            /\ rule.scope = "Private" => rule.origin = n
    /\ \A e \in air : e[2].scope # "Private"

(* Nodes with opposite evidence do not talk each other out of their rules    *)
(* for ever: once nobody learns, removes or observes any more, the rules     *)
(* come to rest, whatever keeps being offered and heard again.               *)
RulesSettle == <>[][FALSE]_rulesOf
=============================================================================
