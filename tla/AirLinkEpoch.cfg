\* Fewer messages than half the number space: no wrap.  Two streams and one
\* replay window, so that commit_replay() runs out of room; one context and two
\* bytes, less than the sender uses; every message is signed, so that admission
\* may refuse it.
CONSTANTS
    SeqModulus = 8
    HalfRange = 4
    WindowSize = 2
    Streams = {s1, s2}
    Metas <- SignedOnly
    EntryPoints <- Verified
    SentFragments = 3
    MaxFragments = 3
    MaxContexts = 1
    MaxBytes = 2
    MaxStreams = 1
    MaxQueued = 3
    InitialSequence = 6
    Lag = 2
    MaxMessages = 3
SPECIFICATION Spec
INVARIANTS
    TypeOK
    FreshAccepted
PROPERTIES
    ServiceSpec
