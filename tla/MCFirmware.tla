----------------------------- MODULE MCFirmware -----------------------------
EXTENDS FirmwareNode, TLC

AllLinks  == 0 .. 3
TwoParts  == (0 :> 1) @@ (1 :> 1) @@ (2 :> 2)
SomeMasks == {{0, 1}, {2, 3}}
SomeKinds == {[permitted |-> TRUE, callsign |-> 2, refusedOn |-> {}],
              [permitted |-> FALSE, callsign |-> 1, refusedOn |-> {1}]}
=============================================================================
