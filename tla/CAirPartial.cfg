\* One send is given up after its first fragment.
CONSTANTS
    SeqModulus = 8
    HalfRange = 4
    WindowSize = 2
    Streams = {s1}
    Metas <- OneMeta
    MaxFragments = 2
    Slots = 2
    ReplayStreams = 1
    InitialSequence = 0
    Lag = 2
    MaxMessages = 2
    MaxEmitFailures = 1
    MaxResets = 0
SPECIFICATION Spec
INVARIANTS
    NoMixture
