---------------------------- MODULE StreamCodec -----------------------------
(* FrameDecoder of latentmesh-stream: frames with a length in front, cut out *)
(* of bytes that arrive in chunks of any size.  The caller pushes and pulls  *)
(* as it likes; recv_frame() and try_recv_frame() push only after next_frame *)
(* has asked for more.                                                       *)
EXTENDS Integers, Sequences
Sequence == INSTANCE SequencesExt

CONSTANTS WireRadix,       \* byte values, 256 in the code
          MaxFrameBytes,   \* MAX_FRAME_BYTES
          WellFormed,      \* bodies that parse and have a consistent payload
          MaxChunk,        \* bounds of the model: bytes of a push
          MaxStream        \*   and of a behaviour

LengthPrefixBytes == 2     \* 4 in the code

\* One frame in flight and one of read-ahead.  Mutant: nothing is read ahead.
MaxBufferedOne == MaxFrameBytes + LengthPrefixBytes
MaxBuffered == 2 * (MaxFrameBytes + LengthPrefixBytes)

WireBytes == 0 .. WireRadix - 1

ASSUME CodecAssumption == /\ {WireRadix, MaxFrameBytes, MaxChunk} \subseteq Nat \ {0}
                          /\ WellFormed \subseteq Seq(WireBytes) \ {<<>>}

VARIABLES buffer,
          sent,        \* history: bytes pushed
          delivered,   \* history: frames next_frame() answered
          intact,      \* history: no push has failed
          prompt       \* history: each push came when next_frame() had asked for more

codecVars == <<buffer, sent, delivered, intact, prompt>>

CodecInit == /\ buffer = <<>> /\ sent = <<>> /\ delivered = <<>>
             /\ intact = TRUE /\ prompt = TRUE

Declared(bytes) == bytes[1] * WireRadix + bytes[2]

TooLarge(bytes) == Len(bytes) >= LengthPrefixBytes /\ Declared(bytes) > MaxFrameBytes

\* Bytes of the frame in front.  Mutant: the prefix is left in the buffer.
ConsumedBody(bytes) == Declared(bytes)
Consumed(bytes) == LengthPrefixBytes + Declared(bytes)

NeedsMore(bytes) == \/ Len(bytes) < LengthPrefixBytes
                    \/ ~TooLarge(bytes) /\ Len(bytes) < LengthPrefixBytes + Declared(bytes)

BodyOf(bytes) == SubSeq(bytes, LengthPrefixBytes + 1, LengthPrefixBytes + Declared(bytes))

\* decode_frame() answers a frame; otherwise it asks for more or answers an error.
Decodes(bytes) == /\ ~NeedsMore(bytes) /\ ~TooLarge(bytes)
                  /\ BodyOf(bytes) \in WellFormed

\* push(): refused, with everything that was buffered, over the bound of the
\* buffer or when the frame in front declares too much.
Push(chunk) ==
    /\ Len(sent) + Len(chunk) <= MaxStream
    /\ sent' = sent \o chunk
    /\ prompt' = (prompt /\ NeedsMore(buffer))
    /\ IF Len(buffer) + Len(chunk) > MaxBuffered \/ TooLarge(buffer \o chunk)
         THEN buffer' = <<>> /\ intact' = FALSE
         ELSE buffer' = buffer \o chunk /\ UNCHANGED intact
    /\ UNCHANGED delivered

NextFrame == /\ Decodes(buffer)
             /\ buffer' = SubSeq(buffer, Consumed(buffer) + 1, Len(buffer))
             /\ delivered' = Append(delivered, BodyOf(buffer))
             /\ UNCHANGED <<sent, intact, prompt>>

\* More is needed, or the error that the same bytes will answer again.
NoFrame == ~Decodes(buffer) /\ UNCHANGED codecVars

Chunks == UNION {[1 .. n -> WireBytes] : n \in 1 .. MaxChunk}

CodecNext == \/ \E chunk \in Chunks : Push(chunk)
             \/ NextFrame \/ NoFrame
CodecSpec == CodecInit /\ [][CodecNext]_codecVars

-----------------------------------------------------------------------------
\* The frames of a byte stream, from each position on, up to the first bad one.
FramesFrom(bytes) ==
    LET From[i \in 1 .. Len(bytes) + 1] ==
            LET rest == SubSeq(bytes, i, Len(bytes))
                size == LengthPrefixBytes + Declared(rest) IN
            IF Len(rest) < LengthPrefixBytes \/ Len(rest) < size THEN <<>>
            ELSE IF Declared(rest) > MaxFrameBytes THEN <<>>
            ELSE LET frame == SubSeq(rest, LengthPrefixBytes + 1, size) IN
                 IF frame \in WellFormed THEN <<frame>> \o From[i + size] ELSE <<>>
    IN From

FramesOf(bytes) == FramesFrom(bytes)[1]

(* The chunks leave no trace: until a push fails, what is answered are the   *)
(* frames of the stream in order, all of them once the caller has drained,   *)
(* and never one from behind a frame that did not parse, which would be read *)
(* off a boundary nobody vouches for.                                        *)
FramesInOrder ==
    intact => /\ Sequence!IsPrefix(delivered, FramesOf(sent))
              /\ ~Decodes(buffer) => delivered = FramesOf(sent)

\* The position, from each one on, where the frames of a byte stream stop: at
\* one that is not there in full or declares too much.
StopFrom(bytes) ==
    LET From[i \in 1 .. Len(bytes) + 1] ==
            LET rest == SubSeq(bytes, i, Len(bytes))
                size == LengthPrefixBytes + Declared(rest) IN
            IF Len(rest) < LengthPrefixBytes \/ Declared(rest) > MaxFrameBytes \/ Len(rest) < size
              THEN i ELSE From[i + size]
    IN From

(* push() gives up the place in the stream on either of two grounds, and the *)
(* bound of the buffer is only for callers that do not drain: one that asks  *)
(* next_frame() before each push, as both receive loops do, loses its place  *)
(* nowhere but at a frame of the stream that declares too much, however the  *)
(* chunks were cut and whatever parses.                                      *)
KeepsItsPlace ==
    prompt /\ ~intact =>
        LET rest == SubSeq(sent, StopFrom(sent)[1], Len(sent)) IN
        Len(rest) >= LengthPrefixBytes /\ Declared(rest) > MaxFrameBytes
=============================================================================
