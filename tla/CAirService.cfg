\* Every send succeeds and nothing wraps; one slot and one replay entry for two
\* streams, and the receiver may be reset.
CONSTANTS
    SeqModulus = 8
    HalfRange = 4
    WindowSize = 2
    Streams = {s1, s2}
    Metas <- OneMeta
    MaxFragments = 2
    Slots = 1
    ReplayStreams = 1
    InitialSequence = 6
    Lag = 3
    MaxMessages = 3
    MaxEmitFailures = 0
    MaxResets = 1
SPECIFICATION Spec
INVARIANTS
    SlotsCoherent
PROPERTIES
    ServiceSpec
