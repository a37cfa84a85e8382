------------------------------ MODULE MCAirLink -----------------------------
(* Small instances of AirLink for TLC. *)
EXTENDS AirLink

SignedDelta   == [class |-> "StateDelta", signed |-> TRUE]
UnsignedDelta == [class |-> "StateDelta", signed |-> FALSE]

Deltas   == {SignedDelta, UnsignedDelta}
SignedOnly == {SignedDelta}
AnyEntry == {TRUE, FALSE}
Verified == {TRUE}
=============================================================================
