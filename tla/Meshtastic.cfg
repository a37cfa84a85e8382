\* Four arrivals compete for one context; three fragments exceed the byte limit.
CONSTANTS
    Metas <- OneMeta
    SeqModulus = 8
    HalfRange = 4
    WindowSize = 1
    Streams = {s1}
    SentFragments = 3
    MaxFragments = 3
    MaxContexts = 1
    MaxBytes = 2
    InitialSequence = 6
    MaxMessages = 2
    MaxArrivals = 4
    MaxChunk = 2
SPECIFICATION LiveSpec
INVARIANTS
    NoMixture
PROPERTIES
    ArrivedIsHandled
    GatheredIsReturned
