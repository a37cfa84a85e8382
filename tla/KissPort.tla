------------------------------ MODULE KissPort -------------------------------
(* The KISS decoder of the firmware on its UART, where noise may arrive      *)
(* between the frames that a peer encodes.  A byte is one of the four that   *)
(* KISS gives a meaning to, the data command of port 0, or another.          *)
EXTENDS Integers, Sequences, FiniteSets

CONSTANTS FEND, FESC, TFEND, TFESC,
          DataCommand, Other,
          MaxPacket,    \* LM_AIR_MAX_FRAME_SIZE
          MaxNoise      \* bound of the model

KissBytes == {FEND, FESC, TFEND, TFESC, DataCommand, Other}

ASSUME KissAssumption ==
    /\ MaxPacket \in Nat \ {0}
    /\ Cardinality(KissBytes) = 6

VARIABLES decoder,   \* [in_frame, escaped, overflow, command, data]; command <<>> or <<byte>>
          line,      \* bytes of the frame that is on the wire
          encoded,   \* history: the payload of that frame, <<>> when it was broken
          handed,    \* history: the last payload handed over
          noise      \* history: noise bytes so far

kissVars == <<decoder, line, encoded, handed, noise>>

Reset == [in_frame |-> FALSE, escaped |-> FALSE, overflow |-> FALSE,
          command |-> <<>>, data |-> <<>>]

KissInit == /\ decoder = Reset /\ line = <<>>
            /\ encoded = <<>> /\ handed = <<>> /\ noise = 0

\* append_escaped().  Mutant: the escape itself is not escaped.
EscapedFendOnly(byte) == IF byte = FEND THEN <<FESC, TFEND>> ELSE <<byte>>
Escaped(byte) == CASE byte = FEND -> <<FESC, TFEND>>
                   [] byte = FESC -> <<FESC, TFESC>>
                   [] OTHER -> <<byte>>

\* What the first n bytes of a payload become, for each n.
EscapedBytes(payload) ==
    LET Body[n \in 0 .. Len(payload)] ==
            IF n = 0 THEN <<>> ELSE Body[n - 1] \o Escaped(payload[n])
    IN Body

\* lm_kiss_encode() for port 0, into the buffer of kiss_tx_task(), or <<>>.
EncodeBuffer == 2 * MaxPacket + 3
Encode(payload) ==
    LET bytes == <<FEND, DataCommand>> \o EscapedBytes(payload)[Len(payload)] \o <<FEND>>
    IN IF payload = <<>> \/ Len(bytes) > EncodeBuffer THEN <<>> ELSE bytes

-----------------------------------------------------------------------------
Opened == [Reset EXCEPT !.in_frame = TRUE]

\* The low half of the command decides: FEND, unescaped, is the data command of
\* port 12.
DataCommands == {DataCommand, FEND}

\* finish(): only a data frame that is whole and not empty is handed over.
Finishes == /\ decoder.in_frame /\ ~decoder.overflow /\ decoder.data # <<>>
            /\ \E command \in DataCommands : decoder.command = <<command>>

Delimit == /\ decoder' = Opened
           /\ handed' = IF Finishes THEN decoder.data ELSE handed

\* A byte of the contents.
Full == Len(decoder.data) >= MaxPacket

Content(byte) == IF decoder.command = <<>> THEN [decoder EXCEPT !.command = <<byte>>, !.escaped = FALSE]
                 ELSE IF Full THEN [decoder EXCEPT !.overflow = TRUE, !.escaped = FALSE]
                 ELSE [decoder EXCEPT !.data = Append(@, byte), !.escaped = FALSE]

Unescape(byte) == CASE byte = TFEND -> Content(FEND)
                    [] byte = TFESC -> Content(FESC)
                    [] OTHER -> [decoder EXCEPT !.escaped = FALSE, !.overflow = TRUE]

\* lm_kiss_decoder_feed()
Feed(byte) ==
    \/ byte = FEND /\ Delimit
    \/ /\ byte # FEND /\ UNCHANGED handed
       /\ decoder' = IF ~decoder.in_frame \/ decoder.overflow THEN decoder
                     ELSE IF decoder.escaped THEN Unescape(byte)
                     ELSE IF byte = FESC THEN [decoder EXCEPT !.escaped = TRUE]
                     ELSE Content(byte)

\* The peer's next frame; nothing goes out for a payload that does not encode.
Transmit(payload) == /\ line = <<>> /\ Encode(payload) # <<>>
                     /\ line' = Encode(payload) /\ encoded' = payload
                     /\ UNCHANGED <<decoder, handed, noise>>

ReceiveByte == /\ line # <<>>
               /\ Feed(Head(line))
               /\ line' = Tail(line)
               /\ UNCHANGED <<encoded, noise>>

\* Noise between frames, or a byte more in the frame on the wire.
Noise(byte) == /\ noise < MaxNoise
               /\ Feed(byte)
               /\ noise' = noise + 1 /\ encoded' = <<>>
               /\ UNCHANGED line

KissPayloads == UNION {[1 .. n -> {FEND, FESC, TFEND, Other}] : n \in 1 .. MaxPacket}

KissNext == \/ \E payload \in KissPayloads : Transmit(payload)
            \/ ReceiveByte
            \/ \E byte \in KissBytes : Noise(byte)
KissSpec == KissInit /\ [][KissNext]_kissVars

-----------------------------------------------------------------------------
(* Whatever noise, broken escape or overlong frame came before, the next     *)
(* frame that comes through unbroken is handed over as it was encoded; no    *)
(* packet outgrows the array it is collected in, and each of up to the       *)
(* maximum fits the buffer it is encoded in, were all its bytes escaped.     *)
NextFrameArrives ==
    /\ Len(decoder.data) <= MaxPacket
    /\ encoded # <<>> /\ line = <<>> => handed = encoded
    /\ \A n \in 1 .. MaxPacket : Encode([i \in 1 .. n |-> FEND]) # <<>>
=============================================================================
