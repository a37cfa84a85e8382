\* Device framing: four byte values, every input of up to nine bytes.  Stream
\* codec: every stream of up to nine bytes over three values in every chunking.
\* Deltas: states come back, so that bases repeat, and there are more fields than
\* a state has room for; the end is when MaxPublished deltas have arrived.
CONSTANTS
    Radix = 4
    START1 = 2
    START2 = 3
    MaxLength = 2
    MaxInput = 9
    WireRadix = 3
    MaxFrameBytes = 2
    WellFormed <- ParsingBodies
    MaxChunk = 3
    MaxStream = 9
    FEND = fend
    FESC = fesc
    TFEND = tfend
    TFESC = tfesc
    DataCommand = data
    Other = other
    MaxPacket = 2
    MaxNoise = 3
    Packets = {"p3", "p5"}
    LengthOf <- Lengths
    MaxPacketSize = 6
    MaxFragments = 4
    Capacities = {0, 1, 2, 4}
    IdSpace = 2
    ForeignHeaders <- UnevenHeaders
    MaxSends = 3
    Fields <- ThreeFields
    Values = {on, off}
    MaxFields = 2
    MaxPublished = 4
SPECIFICATION DecodersSpec
CHECK_DEADLOCK FALSE
INVARIANTS
    AgreesWithReadFrame
    FramesInOrder
    KeepsItsPlace
    NextFrameArrives
    StaysInMessage
    FragmentsMakePacket
    HeldWasPublished
    FollowsInOrder
