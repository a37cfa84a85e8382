------------------------------ MODULE StateSync -----------------------------
(***************************************************************************)
(* The payload of the links: a sender publishes changes of its             *)
(* CriticalState as SemanticDeltas, a receiver applies those that reach it *)
(* (latentmesh-air-core/src/semantic.rs).  The links deliver a delta at    *)
(* most once, may lose it and may reorder it (module MessageService); an   *)
(* orderly link keeps the order and loses nothing.  The critical hash is   *)
(* taken to be injective, so a hash is the state itself.  Residuals are    *)
(* never interpreted by apply() and left out.                              *)
(***************************************************************************)
EXTENDS Integers, FiniteSets, SequencesExt

CONSTANTS
    Fields,         \* field identifiers, a set of naturals
    Values,         \* symbol values
    MaxFields,      \* MAX_CRITICAL_FIELDS
    MaxPublished    \* bound: deltas published in a behaviour

ASSUME StateAssumption ==
    /\ Fields \subseteq Nat \ {0} /\ IsFiniteSet(Fields)
    /\ MaxFields \in Nat
    /\ MaxPublished \in Nat

VARIABLES
    history,    \* states the sender published, oldest first
    wire,       \* numbers of the deltas under way, oldest first
    held,       \* the receiver's state
    applied,    \* number of the delta applied last
    orderly     \* the link keeps the order and loses nothing, throughout

vars == <<history, wire, held, applied, orderly>>

\* CriticalState: at most MaxFields of the fields have a value.
States == UNION {[F -> Values] : F \in {G \in SUBSET Fields : Cardinality(G) <= MaxFields}}

NoState == [field \in {} |-> 0]

Published == Last(history)

-----------------------------------------------------------------------------
(* SemanticDelta *)

\* The fields between() finds deleted, changed or new.
Deleted(before, after) == DOMAIN before \ DOMAIN after
Assigned(before, after) ==
    {field \in DOMAIN after : field \in DOMAIN before => before[field] # after[field]}

\* Mutant: a field that is gone is not mentioned.
UpdatedWithoutDeletes(before, after) == Assigned(before, after)

Updated(before, after) == Deleted(before, after) \cup Assigned(before, after)

\* A set of field identifiers in ascending order.
InOrder(fields) ==
    CHOOSE order \in SetToSeqs(fields) :
        \A i, j \in DOMAIN order : i < j => order[i] < order[j]

\* The update of one field: its new value, or none when it is gone.
Update(field, after) ==
    [field |-> field, value |-> IF field \in DOMAIN after THEN {after[field]} ELSE {}]

\* between(): the updates in the order of their field identifiers.
Between(before, after) ==
    [base    |-> before,
     result  |-> after,
     updates |-> LET order == InOrder(Updated(before, after))
                 IN  [k \in DOMAIN order |-> Update(order[k], after)]]

\* validate()
Valid(delta) == Len(delta.updates) <= MaxFields

\* The error results; never a state, because no field has the identifier 0.
Refused == [field \in {0} |-> "Refused"]

\* CriticalState::set(); a new field needs room.
SetField(state, field, value) ==
    IF field \notin DOMAIN state /\ Cardinality(DOMAIN state) = MaxFields THEN Refused
    ELSE [k \in DOMAIN state \cup {field} |-> IF k = field THEN value ELSE state[k]]

RemoveField(state, field) == [k \in DOMAIN state \ {field} |-> state[k]]

\* One update, where the ? of apply() passes an earlier refusal on.
Updating(state, update) ==
    IF state = Refused THEN Refused
    ELSE IF update.value = {} THEN RemoveField(state, update.field)
    ELSE SetField(state, update.field, CHOOSE v \in update.value : TRUE)

Matches(delta, base) == delta.base = base

Checks(delta, result) == result = delta.result

\* Mutant: the hashes are carried, but not compared.
ApplyTrusting(delta, base) == FoldLeft(Updating, base, delta.updates)

\* apply(): the state it returns, or Refused for any of its errors.
Apply(delta, base) ==
    LET result == FoldLeft(Updating, base, delta.updates)
    IN  IF Valid(delta) /\ Matches(delta, base) /\ Checks(delta, result)
        THEN result ELSE Refused

\* Delta number n, between the states n and n + 1 of the history.
Delta(n) == Between(history[n], history[n + 1])

-----------------------------------------------------------------------------
\* between() and wrap_delta(); an invalid delta is an error at the sender.
Publish(state) ==
    /\ Len(history) <= MaxPublished
    /\ state # Published
    /\ Valid(Between(Published, state))
    /\ history' = Append(history, state)
    /\ wire' = Append(wire, Len(history))
    /\ UNCHANGED <<held, applied, orderly>>

Arrivals == IF orderly THEN {k \in {1} : wire # <<>>} ELSE DOMAIN wire

\* apply_delta() returns the new state.
ReceiveApplied(k) ==
    /\ Apply(Delta(wire[k]), held) # Refused
    /\ held' = Apply(Delta(wire[k]), held)
    /\ applied' = wire[k]
    /\ wire' = RemoveAt(wire, k)
    /\ UNCHANGED <<history, orderly>>

\* apply_delta() fails: the message was returned once and will not come again.
ReceiveRefused(k) ==
    /\ Apply(Delta(wire[k]), held) = Refused
    /\ wire' = RemoveAt(wire, k)
    /\ UNCHANGED <<history, held, applied, orderly>>

Receive == \E k \in Arrivals : ReceiveApplied(k) \/ ReceiveRefused(k)

Lose ==
    /\ ~orderly
    /\ \E k \in DOMAIN wire : wire' = RemoveAt(wire, k)
    /\ UNCHANGED <<history, held, applied, orderly>>

Init ==
    /\ history = <<NoState>>
    /\ wire = <<>>
    /\ held = NoState
    /\ applied = 0
    /\ orderly \in BOOLEAN

Next == (\E state \in States : Publish(state)) \/ Receive \/ Lose

Spec == Init /\ [][Next]_vars

-----------------------------------------------------------------------------
\* Whatever is lost or reordered, the receiver holds a state the sender
\* published, never a blend of two: the state after the delta applied last.
HeldWasPublished == held = history[applied + 1]

\* semantic.rs:505: what between() makes of two states, apply() turns the
\* first one back into the second with.
AppliesToItsBase ==
    \A k \in DOMAIN wire :
        held = history[wire[k]] => Apply(Delta(wire[k]), held) = history[wire[k] + 1]

\* The fields of both states of delta n have room in one.
FitsInOne(n) == Cardinality(DOMAIN history[n] \cup DOMAIN history[n + 1]) <= MaxFields

\* Deltas that an orderly link has delivered: all that are not under way.
Delivered == Len(history) - 1 - Len(wire)

\* On an orderly link the receiver is behind only if the delta after the one it
\* applied last has no room: it follows every state up to the first such delta,
\* and where it catches up, up to the next one (apply(), set() of semantic.rs).
FollowsInOrder == orderly => applied = Delivered \/ ~FitsInOne(applied + 1)
=============================================================================
