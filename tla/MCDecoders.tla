----------------------------- MODULE MCDecoders -----------------------------
(* The decoders that cut frames out of bytes or fragments, and the one that  *)
(* applies deltas to a state, side by side: the one picked at the start is   *)
(* the one that moves.                                                       *)
EXTENDS DeviceFraming, StreamCodec, KissPort, BleFragments, MCStateSync

VARIABLE decoding

ParsingBodies == {<<1>>, <<0, 1>>}

Lengths == [p \in {"p3", "p5"} |-> IF p = "p3" THEN 3 ELSE 5]
UnevenHeaders == {[index |-> 2, count |-> 4, total |-> 5], [index |-> 3, count |-> 4, total |-> 5],
                  [index |-> 0, count |-> 2, total |-> 5], [index |-> 0, count |-> 0, total |-> 3]}

DecodersInit == /\ decoding \in {"device", "stream", "kiss", "ble", "deltas"}
                /\ FramingInit /\ CodecInit /\ KissInit /\ BleInit
                /\ Init /\ (decoding # "deltas" => orderly)

DecodersNext ==
    /\ UNCHANGED decoding
    /\ \/ decoding = "device" /\ FramingNext
       \/ decoding # "device" /\ UNCHANGED framingVars
    /\ \/ decoding = "stream" /\ CodecNext
       \/ decoding # "stream" /\ UNCHANGED codecVars
    /\ \/ decoding = "kiss" /\ KissNext
       \/ decoding # "kiss" /\ UNCHANGED kissVars
    /\ \/ decoding = "ble" /\ BleNext
       \/ decoding # "ble" /\ UNCHANGED bleVars
    /\ \/ decoding = "deltas" /\ Next
       \/ decoding # "deltas" /\ UNCHANGED vars

DecodersSpec ==
    DecodersInit /\ [][DecodersNext]_<<decoding, framingVars, codecVars, kissVars, bleVars, vars>>
=============================================================================
