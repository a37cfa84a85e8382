---------------------------- MODULE DeviceFraming ---------------------------
(***************************************************************************)
(* FrameDecoder of latentmesh-meshtastic (framing.rs): the byte-at-a-time  *)
(* state machine for START1 START2 <length> <body> framing, next to the    *)
(* blocking read_frame() over the same bytes.  Any byte may arrive at any  *)
(* time.  A byte is a number below Radix.                                  *)
(***************************************************************************)
EXTENDS Integers, Sequences

CONSTANTS
    Radix,      \* 256 in the code
    START1,
    START2,
    MaxLength,  \* MAX_DEVICE_API_FRAME_LEN
    MaxInput    \* bound: bytes of a behaviour

Bytes == 0 .. Radix - 1

ASSUME FramingAssumption ==
    /\ Radix \in Nat
    /\ {START1, START2} \subseteq Bytes
    /\ START1 # START2
    /\ {MaxLength, MaxInput} \subseteq Nat

VARIABLES
    state,      \* FrameDecoder.state
    body,       \* FrameDecoder.body
    ready,      \* FrameDecoder.ready and what pull() took from it before
    input       \* every byte pushed so far

framingVars == <<state, body, ready, input>>

SeekingStart1      == [at |-> "SeekingStart1"]
SeekingStart2      == [at |-> "SeekingStart2"]
ReadingLenHigh     == [at |-> "ReadingLenHigh"]
ReadingLenLow(h)   == [at |-> "ReadingLenLow", high |-> h]
ReadingBody(left)  == [at |-> "ReadingBody", remaining |-> left]

SeekStart1(byte) ==
    /\ state = SeekingStart1
    /\ state' = IF byte = START1 THEN SeekingStart2 ELSE SeekingStart1
    /\ UNCHANGED <<body, ready>>

\* Mutant: a repeated START1 is dropped like any other byte.
NextOfStart2Strict(byte) == IF byte = START2 THEN ReadingLenHigh ELSE SeekingStart1

\* A repeated START1 is a new candidate start.
NextOfStart2(byte) ==
    CASE byte = START2 -> ReadingLenHigh
      [] byte = START1 -> SeekingStart2
      [] OTHER         -> SeekingStart1

SeekStart2(byte) ==
    /\ state = SeekingStart2
    /\ state' = NextOfStart2(byte)
    /\ UNCHANGED <<body, ready>>

ReadLenHigh(byte) ==
    /\ state = ReadingLenHigh
    /\ state' = ReadingLenLow(byte)
    /\ UNCHANGED <<body, ready>>

Fits(len) == len <= MaxLength

\* An empty body is complete at once; a corrupt length drops the candidate.
ReadLenLow(byte) ==
    /\ state.at = "ReadingLenLow"
    /\ LET len == state.high * Radix + byte
       IN  \/ /\ len = 0
              /\ ready' = Append(ready, <<>>)
              /\ state' = SeekingStart1
              /\ UNCHANGED body
           \/ /\ ~Fits(len)
              /\ state' = SeekingStart1
              /\ UNCHANGED <<body, ready>>
           \/ /\ len # 0 /\ Fits(len)
              /\ body' = <<>>
              /\ state' = ReadingBody(len)
              /\ UNCHANGED ready

ReadBody(byte) ==
    /\ state.at = "ReadingBody"
    /\ IF state.remaining = 1
       THEN /\ ready' = Append(ready, Append(body, byte))
            /\ body' = <<>>
            /\ state' = SeekingStart1
       ELSE /\ body' = Append(body, byte)
            /\ state' = ReadingBody(state.remaining - 1)
            /\ UNCHANGED ready

\* push_byte(); push() calls it for every byte of a chunk, so that the chunk
\* boundaries leave no trace.
PushByte(byte) ==
    /\ Len(input) < MaxInput
    /\ input' = Append(input, byte)
    /\ \/ SeekStart1(byte)
       \/ SeekStart2(byte)
       \/ ReadLenHigh(byte)
       \/ ReadLenLow(byte)
       \/ ReadBody(byte)

FramingInit ==
    /\ state = SeekingStart1
    /\ body = <<>>
    /\ ready = <<>>
    /\ input = <<>>

FramingNext == \E byte \in Bytes : PushByte(byte)

FramingSpec == FramingInit /\ [][FramingNext]_framingVars

-----------------------------------------------------------------------------
(* read_frame() called over and over on the bytes of `input` *)

\* Where a length may stand from position i on: after START1 START2.
Markers(bytes, i) ==
    {k \in i + 2 .. Len(bytes) + 1 : bytes[k - 2] = START1 /\ bytes[k - 1] = START2}

FirstMarker(bytes, i) == CHOOSE k \in Markers(bytes, i) : \A m \in Markers(bytes, i) : k <= m

LengthAt(bytes, at) == bytes[at] * Radix + bytes[at + 1]

\* The bodies read_frame() returns, from each position on, until it runs dry: it
\* looks for the first marker, and goes on behind a corrupt length or behind the
\* body.
ReadFrom(bytes) ==
    LET Read[i \in 1 .. Len(bytes) + 1] ==
          IF Markers(bytes, i) = {} THEN <<>>
          ELSE LET at  == FirstMarker(bytes, i)
                   len == LengthAt(bytes, at)
               IN  IF at + 1 > Len(bytes) THEN <<>>
                   ELSE IF len > MaxLength THEN Read[at + 2]
                   ELSE IF at + 1 + len > Len(bytes) THEN <<>>
                   ELSE <<SubSeq(bytes, at + 2, at + 1 + len)>> \o Read[at + 2 + len]
    IN  Read

BlockingFrames(bytes) == ReadFrom(bytes)[1]

-----------------------------------------------------------------------------
\* framing.rs:155: "exactly like the blocking `read_frame` path".  On any
\* bytes, garbage included, the decoder yields the bodies read_frame() yields.
AgreesWithReadFrame == ready = BlockingFrames(input)
=============================================================================
