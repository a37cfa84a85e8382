----------------------------- MODULE MCStateSync ----------------------------
(* Small instances of StateSync for TLC. *)
EXTENDS StateSync

ThreeFields == {1, 2, 3}
=============================================================================
