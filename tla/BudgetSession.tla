--------------------------- MODULE BudgetSession ---------------------------
(* One reasoning call: route() turns signals into a budget, then the caller  *)
(* steps the workspace and asks evaluate_step() after each iterate whether   *)
(* to stop.  Scores, confidences and risks are in per cent.                  *)
EXTENDS Integers

CONSTANTS Config,         \* ControllerConfig: min_iterations, max_iterations, min_threshold,
                          \*   max_threshold, iteration_floor, verification_floor, risk_ceiling
          Signals,        \* [demand, pressure] of a call; demand is NaN if one of its signals is
          Measurements    \* what the caller can measure after one iterate

RiskClasses == {"Routine", "Elevated", "SafetyCritical"}

NaN == -1
Unreachable == 101   \* a threshold of NaN: no confidence is >= it

ASSUME BudgetAssumption ==
    /\ Config \in [min_iterations : Nat, max_iterations : Nat, min_threshold : Int,
                   max_threshold : Int, iteration_floor : Nat, verification_floor : Int,
                   risk_ceiling : [RiskClasses -> Int]]
    /\ Signals \subseteq [demand : Nat \union {NaN}, pressure : Nat]
    /\ Measurements \subseteq [converged : BOOLEAN, confidence : 0 .. 100, policy_safe : BOOLEAN,
                               risk : Int, late : BOOLEAN]

VARIABLES outcome,        \* "idle", "running" or the StopReason
          risk_class, signals, budget,
          iteration,    \* of the workspace
          last          \* history: the last measurement that was evaluated

budgetVars == <<outcome, risk_class, signals, budget, iteration, last>>

Greater(a, b) == IF a >= b THEN a ELSE b
Clamp01(x) == IF x < 0 THEN 0 ELSE IF x > 100 THEN 100 ELSE x

\* scale_u32() of a score in per cent, rounded; a score of NaN rounds to 0 steps.
Scaled(lo, hi, score) ==
    IF hi <= lo \/ score = NaN THEN lo ELSE lo + (2 * (hi - lo) * score + 100) \div 200

Protected(class) == class = "SafetyCritical"

\* Pressure is subtracted, but not from a protected class.  Mutant: from every class.
ScorePressed(s, class) == IF s.demand = NaN THEN NaN ELSE Clamp01(s.demand - s.pressure)
Score(s, class) == IF s.demand = NaN THEN NaN
                   ELSE Clamp01(s.demand - (IF Protected(class) THEN 0 ELSE s.pressure))

AskedThreshold(score) == Config.min_threshold
                    + ((Config.max_threshold - Config.min_threshold) * score) \div 100

\* Only a protected class has floors.
Floored(x, floor, class) == IF Protected(class) THEN Greater(x, floor) ELSE x

\* f32::max() answers the floor when the other operand is NaN.
RoutedThreshold(score, class) ==
    IF score # NaN THEN Floored(AskedThreshold(score), Config.verification_floor, class)
    ELSE IF Protected(class) THEN Config.verification_floor ELSE Unreachable

\* route()
Budget(s, class) ==
    LET score == Score(s, class) IN
    [iterations |-> Floored(Scaled(Config.min_iterations, Config.max_iterations, score),
                            Config.iteration_floor, class),
     threshold  |-> RoutedThreshold(score, class)]

\* The four conditions on the candidate itself.
Sufficient(m) == /\ m.converged
                 /\ m.confidence >= budget.threshold
                 /\ m.policy_safe
                 /\ m.risk <= Config.risk_ceiling[risk_class]

\* The order of the rules in evaluate_step().  Mutant: the ceiling is looked at first.
OutcomeCeilingFirst(m, n) ==
    IF n >= budget.iterations THEN "ComputeCeiling"
    ELSE IF n >= Config.min_iterations /\ Sufficient(m) THEN "Converged"
    ELSE IF m.late THEN "LatencyBudgetExceeded" ELSE "running"
Outcome(m, n) ==
    IF n >= Config.min_iterations /\ Sufficient(m) THEN "Converged"
    ELSE IF n >= budget.iterations THEN "ComputeCeiling"
    ELSE IF m.late THEN "LatencyBudgetExceeded" ELSE "running"

NoMeasurement == [converged |-> FALSE, confidence |-> 0, policy_safe |-> FALSE,
                  risk |-> 100, late |-> FALSE]

BudgetInit == /\ outcome = "idle" /\ risk_class = "Routine"
              /\ signals = [demand |-> 0, pressure |-> 0]
              /\ budget = [iterations |-> 0, threshold |-> 0]
              /\ iteration = 0 /\ last = NoMeasurement

\* route(), then ReasoningWorkspace::seed().
Route(s, class) == /\ outcome = "idle"
                   /\ outcome' = "running"
                   /\ risk_class' = class /\ signals' = s
                   /\ budget' = Budget(s, class)
                   /\ iteration' = 0
                   /\ UNCHANGED last

\* An accepted iterate and its evaluation; a refused iterate changes nothing.
Iterate(m) == /\ outcome = "running"
              /\ iteration' = iteration + 1
              /\ last' = m
              /\ outcome' = Outcome(m, iteration')
              /\ UNCHANGED <<risk_class, signals, budget>>

BudgetNext == \/ \E s \in Signals, class \in RiskClasses : Route(s, class)
              \/ \E m \in Measurements : Iterate(m)
BudgetSpec == BudgetInit /\ [][BudgetNext]_budgetVars

-----------------------------------------------------------------------------
(* However the call goes on, it ends after the routed number of accepted     *)
(* iterates.  A sufficient candidate is never thrown away as having hit the  *)
(* ceiling: the budget is never smaller than the number of iterations a      *)
(* candidate must have behind it, and convergence is looked at first.        *)
CeilingHolds == /\ outcome = "running" => iteration < Greater(1, budget.iterations)
                /\ outcome # "idle" => iteration <= Greater(1, budget.iterations)
                /\ outcome = "ComputeCeiling" => ~Sufficient(last)

(* No pressure, and no signal that is NaN, buys a safety-critical call out   *)
(* of its verification: it is answered only above the verification floor and *)
(* under its risk ceiling, and it is not cut short by its budget before the  *)
(* iteration floor.                                                          *)
VerificationProtected ==
    risk_class = "SafetyCritical" =>
        /\ outcome = "Converged" => /\ last.confidence >= Config.verification_floor
                                  /\ last.risk <= Config.risk_ceiling["SafetyCritical"]
                                  /\ last.policy_safe
        /\ outcome = "ComputeCeiling" => iteration >= Config.iteration_floor
        /\ outcome # "idle" => budget = Budget([signals EXCEPT !.pressure = 0], risk_class)
=============================================================================
