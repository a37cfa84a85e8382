------------------------ MODULE RepresentationRouter ------------------------
(* How a message is represented, silence included: route() scores the        *)
(* candidates one after the other.  A gain is an integer or Unmeasured; a    *)
(* candidate's cost stands for the weighted, normalised denominator: at most *)
(* 0 when utility_density() answers an error.                                *)
EXTENDS Integers, Sequences

CONSTANTS Modes,          \* RepresentationMode, None excluded
          None,
          Unmeasured,
          Gains, Costs,   \* the integers offered
          Resolution,     \* how many steps of the score are told apart per unit
          MaxCandidates   \* bound of the model

ASSUME RouterAssumption == /\ Gains \subseteq Int /\ Costs \subseteq Int
                           /\ Unmeasured \notin Gains
                           /\ Resolution \in Nat \ {0}

VARIABLES candidates,     \* history: [mode, gain, cost] scored so far
          best_mode, best_score

routerVars == <<candidates, best_mode, best_score>>

Candidates == [mode : Modes, gain : Gains \union {Unmeasured}, cost : Costs]

\* Only a measured gain at a real cost can be chosen.
Eligible(c) == c.gain # Unmeasured /\ c.cost > 0

\* utility_density()
Density(c) == ((IF c.gain = Unmeasured THEN 1 ELSE c.gain) * Resolution) \div c.cost

\* Mutant: a tie goes to the later candidate.
WinsTies(c) == Eligible(c) /\ Density(c) >= best_score
Wins(c) == Eligible(c) /\ Density(c) > best_score

RouterInit == candidates = <<>> /\ best_mode = None /\ best_score = 0

Consider(c) == /\ Len(candidates) < MaxCandidates
               /\ candidates' = Append(candidates, c)
               /\ best_mode' = IF Wins(c) THEN c.mode ELSE best_mode
               /\ best_score' = IF Wins(c) THEN Density(c) ELSE best_score

RouterNext == \E c \in Candidates : Consider(c)
RouterSpec == RouterInit /\ [][RouterNext]_routerVars

-----------------------------------------------------------------------------
Tested == {i \in DOMAIN candidates : candidates[i].gain # Unmeasured /\ candidates[i].cost > 0}
Worth(i) == Density(candidates[i])

(* The one pass over the candidates chooses what a comparison of all of them *)
(* would: silence if no tested candidate is worth more than nothing, else    *)
(* the best, and the earliest of several that are equally good.  An untested *)
(* candidate never wins, and never stands in the way of a tested one.        *)
RouteIsBest ==
    \/ /\ best_mode = None /\ best_score = 0
       /\ \A i \in Tested : Worth(i) <= 0
    \/ \E i \in Tested : /\ best_mode = candidates[i].mode
                          /\ best_score = Worth(i) /\ Worth(i) > 0
                          /\ \A j \in Tested : /\ Worth(j) <= Worth(i)
                                               /\ j < i => Worth(j) < Worth(i)
=============================================================================
