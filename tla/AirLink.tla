------------------------------ MODULE AirLink -------------------------------
(***************************************************************************)
(* One AirTransmitter and one AirReceiver of latentmesh-air-radio with the *)
(* Reassembler and ReplayWindow of latentmesh-air-core, over a medium that *)
(* loses, duplicates and reorders frames.  Messages are numbered by `id`,  *)
(* which the code never sees: the wire carries id modulo SeqModulus.       *)
(***************************************************************************)
EXTENDS Reassembler, Sequences

CONSTANTS
    EntryPoints,    \* TRUE: ingest_frame_verified() is called, FALSE: ingest_frame()
    SentFragments,  \* MAX_FRAGMENTS of fragment_message()
    MaxStreams,     \* ReceiverConfig.max_streams
    MaxQueued,      \* TransmitterConfig.max_queued_frames
    InitialSequence,\* TransmitterConfig.initial_sequence
    Lag,            \* the medium forgets a frame once a message Lag newer is on air
    MaxMessages     \* bound: messages enqueued in a behaviour

Classes == {"StateDelta", "Other"}

ASSUME LinkAssumption ==
    /\ Metas \subseteq [class : Classes, signed : BOOLEAN]
    /\ EntryPoints \subseteq BOOLEAN
    /\ {SentFragments, MaxStreams, MaxQueued} \subseteq Nat \ {0}
    /\ InitialSequence \in Serials
    /\ Lag \in Nat
    /\ MaxMessages \in Nat

\* The medium is quick enough: no frame is heard once the window may be half
\* the number space ahead of its message.
ASSUME MediumAssumption == WindowSize + Lag <= HalfRange + 1

VARIABLES
    nextId,        \* number of the next message
    nextSequence,  \* AirTransmitter.next_sequence
    queue,         \* AirTransmitter.queue
    aired,         \* number of the newest message with a frame on the air
    air,           \* frames a receiver may still hear, any number of times
    replay,        \* AirReceiver.replay: stream -> window
    rxState,       \* AirReceiver.state
    delivered,     \* messages the receiver returned, as <<stream, id>>
    mixed,         \* returned messages that nobody sent, as the sets they are of
    repeated       \* messages returned a second time

txVars   == <<nextId, nextSequence, queue>>
airVars  == <<aired, air>>
rxVars   == <<contexts, replay, rxState>>
ghosts   == <<delivered, mixed, repeated>>
vars     == <<txVars, airVars, rxVars, ghosts>>

Ids == InitialSequence .. InitialSequence + MaxMessages

Frames == [id : Ids, stream : Streams, sequence : Serials, index : 1 .. SentFragments,
           count : 1 .. SentFragments, meta : Metas]

-----------------------------------------------------------------------------
(* The transmitter *)

\* fragment_message(): the frames of one message, in order.
Fragments(stream, meta, count) ==
    [k \in 1 .. count |-> [id |-> nextId, stream |-> stream, sequence |-> nextSequence,
                           index |-> k, count |-> count, meta |-> meta]]

\* Mutant: the fragments that found room stay queued, and the next message is
\* given the same number.
EnqueueInPart(stream, meta, count) ==
    /\ nextId < InitialSequence + MaxMessages
    /\ \E kept \in 1 .. count :
          /\ Len(queue) + kept <= MaxQueued
          /\ queue' = queue \o SubSeq(Fragments(stream, meta, count), 1, kept)
          /\ nextSequence' = IF kept = count THEN WrappingInc(nextSequence) ELSE nextSequence
    /\ nextId' = nextId + 1
    /\ UNCHANGED <<airVars, rxVars, ghosts>>

\* enqueue_message_with_flags(): all fragments are queued, or none and the
\* sequence number is kept for the next message.
Enqueue(stream, meta, count) ==
    /\ nextId < InitialSequence + MaxMessages
    /\ Len(queue) + count <= MaxQueued
    /\ queue' = queue \o Fragments(stream, meta, count)
    /\ nextSequence' = WrappingInc(nextSequence)
    /\ nextId' = nextId + 1
    /\ UNCHANGED <<airVars, rxVars, ghosts>>

\* next_transmission(): the frame leaves the queue and goes on the air.
Transmit ==
    /\ queue # <<>>
    /\ queue' = Tail(queue)
    /\ aired' = Head(queue).id
    /\ air' = {f \in air : Head(queue).id - f.id <= Lag} \cup {Head(queue)}
    /\ UNCHANGED <<nextId, nextSequence, rxVars, ghosts>>

\* next_transmission() pops the frame before encode() and modulate(): when
\* one of them fails the frame is gone.
TransmitFails ==
    /\ queue # <<>>
    /\ queue' = Tail(queue)
    /\ UNCHANGED <<nextId, nextSequence, airVars, rxVars, ghosts>>

-----------------------------------------------------------------------------
(* The receiver: ingest_frame_inner() as one action per outcome *)

Verdict(f) == IF f.stream \in DOMAIN replay
              THEN Classify(replay[f.stream], f.sequence) ELSE "Accept"

\* Mutant: the duplicate verdict is left to the reassembly table.
PassesUnlessTooOld(f) == Verdict(f) # "TooOld"

\* The replay check; a duplicate passes only while its message is in flight.
PassesReplay(f) ==
    \/ Verdict(f) = "Accept"
    \/ Verdict(f) = "Duplicate" /\ InFlight(Key(f))

\* An unverified signed fragment also discards what is held of its message.
RefuseUnverified(f, verifier) ==
    /\ f.meta.signed /\ ~verifier
    /\ contexts' = WithoutContext(Key(f))
    /\ rxState' = "Listening"
    /\ UNCHANGED <<replay, ghosts>>

\* Passed the checks made before Reassembler::push().
Admitted(f, verifier) == (f.meta.signed => verifier) /\ PassesReplay(f)

RefuseReplay(f, verifier) ==
    /\ f.meta.signed => verifier
    /\ ~PassesReplay(f)
    /\ rxState' = "Listening"
    /\ UNCHANGED <<contexts, replay, ghosts>>

\* push() returns LimitExceeded, ReassemblyFull or FragmentConflict; the
\* table is as it was.
RefusePush(f, verifier) ==
    /\ Admitted(f, verifier)
    /\ \/ TooManyFragments(f)
       \/ TableFull(f)
       \/ Mismatch(f)
       \/ Occupied(f) /\ Parts(f)[f.index] # f.id
    /\ rxState' = "Listening"
    /\ UNCHANGED <<contexts, replay, ghosts>>

\* The frame reaches the part it is for.
Placed(f, verifier) ==
    /\ Admitted(f, verifier)
    /\ ~TooManyFragments(f) /\ ~TableFull(f) /\ ~Mismatch(f)

\* The fragment is already held: Ok(None).
KeepFragment(f, verifier) ==
    /\ Placed(f, verifier)
    /\ Occupied(f) /\ Parts(f)[f.index] = f.id
    /\ rxState' = "Reassembling"
    /\ UNCHANGED <<contexts, replay, ghosts>>

\* LimitExceeded after the context was opened: an empty one stays behind.
RefuseOversized(f, verifier) ==
    /\ Placed(f, verifier) /\ ~Occupied(f) /\ Oversized(f)
    /\ contexts' = WithContext(Key(f), ContextOf(f))
    /\ rxState' = "Listening"
    /\ UNCHANGED <<replay, ghosts>>

Stored(f, verifier) == Placed(f, verifier) /\ ~Occupied(f) /\ ~Oversized(f)

StoreFragment(f, verifier) ==
    /\ Stored(f, verifier)
    /\ ~Complete(f)
    /\ contexts' = WithContext(Key(f), StoredContext(f))
    /\ rxState' = "Reassembling"
    /\ UNCHANGED <<replay, ghosts>>

Message(f) == <<f.stream, f.id>>

\* validate_admission(): a signature over the whole envelope fails on a
\* mixture, and on a whole message when the verifier does not know the key;
\* the header-to-body binding of an unsigned delta fails on a mixture or not,
\* depending on which side of the cut the bound fields fall; the other classes
\* are not looked into.
AdmissionOutcomes(f) ==
    CASE f.meta.signed -> IF Whole(f) THEN BOOLEAN ELSE {FALSE}
      [] ~f.meta.signed /\ f.meta.class = "StateDelta" /\ ~Whole(f) -> BOOLEAN
      [] OTHER -> {TRUE}

\* commit_replay() has no room for the window of a new stream.
StreamsExhausted(f) ==
    /\ f.stream \notin DOMAIN replay
    /\ Cardinality(DOMAIN replay) = MaxStreams

WindowOf(f) == IF f.stream \in DOMAIN replay THEN replay[f.stream] ELSE NewWindow

\* Mutant: only the first message of a stream is committed.
CommittedFirst(f) == [s \in DOMAIN replay \cup {f.stream} |->
                         IF s \in DOMAIN replay THEN replay[s]
                         ELSE Commit(NewWindow, f.sequence)]

Committed(f) == [s \in DOMAIN replay \cup {f.stream} |->
                    IF s = f.stream THEN Commit(WindowOf(f), f.sequence) ELSE replay[s]]

\* Mutant: commit_replay() comes before validate_admission().
RefuseCommitted(f, verifier) ==
    /\ Stored(f, verifier)
    /\ Complete(f)
    /\ FALSE \in AdmissionOutcomes(f) \/ StreamsExhausted(f) \/ Verdict(f) # "Accept"
    /\ contexts' = WithoutContext(Key(f))
    /\ replay' = IF StreamsExhausted(f) \/ Verdict(f) # "Accept" THEN replay ELSE Committed(f)
    /\ rxState' = "Listening"
    /\ UNCHANGED ghosts

\* Reassembled, but refused by validate_admission() or commit_replay(): the
\* context is gone and nothing is committed.
RefuseMessage(f, verifier) ==
    /\ Stored(f, verifier)
    /\ Complete(f)
    /\ FALSE \in AdmissionOutcomes(f) \/ StreamsExhausted(f) \/ Verdict(f) # "Accept"
    /\ contexts' = WithoutContext(Key(f))
    /\ rxState' = "Listening"
    /\ UNCHANGED <<replay, ghosts>>

\* The messages whose fragments are put together.
MixedFrom(f) == {StoredParts(f)[k] : k \in DOMAIN StoredParts(f)}

\* Reassembled, admitted, committed and returned.
Deliver(f, verifier) ==
    /\ Stored(f, verifier)
    /\ Complete(f)
    /\ TRUE \in AdmissionOutcomes(f)
    /\ ~StreamsExhausted(f)
    /\ Verdict(f) = "Accept"
    /\ contexts' = WithoutContext(Key(f))
    /\ replay' = Committed(f)
    /\ rxState' = "MessageReady"
    /\ delivered' = IF Whole(f) THEN delivered \cup {Message(f)} ELSE delivered
    /\ repeated' = IF Whole(f) THEN repeated \cup ({Message(f)} \cap delivered)
                               ELSE repeated
    /\ mixed' = IF Whole(f) THEN mixed ELSE mixed \cup {MixedFrom(f)}

\* A frame that fails its CRC, or has another profile or FEC flag.
IngestForeign ==
    /\ rxState' = "Listening"
    /\ UNCHANGED <<txVars, airVars, contexts, replay, ghosts>>

Ingest(f, verifier) ==
    /\ \/ RefuseUnverified(f, verifier)
       \/ RefuseReplay(f, verifier)
       \/ RefusePush(f, verifier)
       \/ KeepFragment(f, verifier)
       \/ RefuseOversized(f, verifier)
       \/ StoreFragment(f, verifier)
       \/ RefuseMessage(f, verifier)
       \/ Deliver(f, verifier)
    /\ UNCHANGED <<txVars, airVars>>

-----------------------------------------------------------------------------
Init ==
    /\ nextId = InitialSequence
    /\ nextSequence = InitialSequence
    /\ queue = <<>>
    /\ aired = InitialSequence
    /\ air = {}
    /\ contexts = [key \in {} |-> 0]
    /\ replay = [stream \in {} |-> 0]
    /\ rxState = "Listening"
    /\ delivered = {}
    /\ mixed = {}
    /\ repeated = {}

Next ==
    \/ \E stream \in Streams, meta \in Metas, count \in 1 .. SentFragments :
          Enqueue(stream, meta, count)
    \/ Transmit
    \/ TransmitFails
    \/ \E f \in air, verifier \in EntryPoints : Ingest(f, verifier)
    \/ IngestForeign

Spec == Init /\ [][Next]_vars
-----------------------------------------------------------------------------
Contexts == [meta : Metas, count : 1 .. SentFragments, bytes : 0 .. MaxBytes,
             parts : UNION {[P -> Ids] : P \in SUBSET (1 .. SentFragments)}]

\* Type correctness, with the bounds the code configures: the transmit queue,
\* the context table and the table of replay windows never outgrow theirs.
TypeOK ==
    /\ nextId \in Ids /\ nextSequence \in Serials
    /\ queue \in Seq(Frames) /\ Len(queue) <= MaxQueued
    /\ aired \in Ids /\ air \subseteq Frames
    /\ DOMAIN contexts \subseteq Keys
    /\ Cardinality(DOMAIN contexts) <= MaxContexts
    /\ \A key \in DOMAIN contexts : contexts[key] \in Contexts
    /\ DOMAIN replay \subseteq Streams
    /\ Cardinality(DOMAIN replay) <= MaxStreams
    /\ \A stream \in DOMAIN replay : replay[stream] \in Windows
    /\ rxState \in {"Listening", "Reassembling", "MessageReady"}
    /\ delivered \subseteq Streams \X Ids /\ repeated \subseteq Streams \X Ids
    /\ mixed \subseteq SUBSET Ids

\* The receiver returns a message at most once, however often, however late
\* (up to Lag messages) and in whatever order its frames arrive, and across
\* the wrap of the sequence number.
AtMostOnce == repeated = {}

\* No context is confused with that of another message, but for one left behind
\* by a message whose number comes again after the wrap, however many fragments
\* and messages the queue, the medium and the table refuse or lose.
MixedOnlyAcrossWrap ==
    \A sources \in mixed : \A i, j \in sources : i < j => j - i >= SeqModulus

\* The in-flight exemption of the replay check never lets a frame of an
\* already returned message back into the table, where it could not complete.
InFlightUncommitted ==
    \A key \in DOMAIN contexts :
        key[1] \in DOMAIN replay => Classify(replay[key[1]], key[2]) # "Duplicate"

\* No false alarm: as long as fewer than HalfRange messages were sent, the
\* replay check never refuses a message that was not returned yet and is one
\* of the last WindowSize on the air, whichever of them were returned or lost.
FreshAccepted ==
    \A f \in air :
        Message(f) \notin delivered /\ aired - f.id < WindowSize => Verdict(f) = "Accept"

\* The link implements a service that returns what was sent at most once: nothing
\* it returns is put together from two messages.
Service == INSTANCE MessageService
               WITH sent <- InitialSequence .. nextId - 1,
                    delivered <- {m[2] : m \in delivered},
                    repeated <- {m[2] : m \in repeated},
                    forged <- mixed
ServiceSpec == Service!Spec
=============================================================================
