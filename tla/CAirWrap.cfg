\* Four sequence numbers wrap; one send may be given up half way.
CONSTANTS
    SeqModulus = 4
    HalfRange = 2
    WindowSize = 2
    Streams = {s1}
    Metas <- BothMetas
    MaxFragments = 2
    Slots = 2
    ReplayStreams = 1
    InitialSequence = 2
    Lag = 1
    MaxMessages = 5
    MaxEmitFailures = 1
    MaxResets = 0
SPECIFICATION Spec
INVARIANTS
    AtMostOnce
    SlotsCoherent
