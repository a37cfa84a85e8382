\* Two bodies come in one chunk, the first of them an error.
CONSTANTS
    Metas <- OneMeta
    SeqModulus = 8
    HalfRange = 4
    WindowSize = 1
    Streams = {s1}
    SentFragments = 3
    MaxFragments = 3
    MaxContexts = 1
    MaxBytes = 2
    InitialSequence = 6
    MaxMessages = 2
    MaxArrivals = 2
    MaxChunk = 2
SPECIFICATION Spec
INVARIANTS
    CompletedIsQueued
