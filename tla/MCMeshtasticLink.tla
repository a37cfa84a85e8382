--------------------------- MODULE MCMeshtasticLink --------------------------
(* Small instances of MeshtasticLink for TLC. *)
EXTENDS MeshtasticLink

OneMeta == {"Unsigned"}
=============================================================================
