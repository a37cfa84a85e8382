----------------------------- MODULE MCCAirLink -----------------------------
(* Small instances of CAirLink for TLC. *)
EXTENDS CAirLink

SignedMeta   == [signed |-> TRUE]
UnsignedMeta == [signed |-> FALSE]

BothMetas == {SignedMeta, UnsignedMeta}
OneMeta   == {UnsignedMeta}
=============================================================================
