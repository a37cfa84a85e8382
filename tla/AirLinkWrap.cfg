\* Four sequence numbers, so that five messages wrap past stale contexts; both
\* entry points.
CONSTANTS
    SeqModulus = 4
    HalfRange = 2
    WindowSize = 2
    Streams = {s1}
    Metas <- Deltas
    EntryPoints <- AnyEntry
    SentFragments = 2
    MaxFragments = 2
    MaxContexts = 2
    MaxBytes = 2
    MaxStreams = 1
    MaxQueued = 2
    InitialSequence = 2
    Lag = 1
    MaxMessages = 5
SPECIFICATION Spec
INVARIANTS
    AtMostOnce
    MixedOnlyAcrossWrap
    InFlightUncommitted
