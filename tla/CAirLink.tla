------------------------------ MODULE CAirLink ------------------------------
(***************************************************************************)
(* The portable C core (c/src/air.c): one lm_air_tx_t per stream driven by *)
(* lm_air_tx_send(), one lm_air_rx_t, and a medium that loses, duplicates  *)
(* and reorders frames.  Messages are numbered by `id`, which the code     *)
(* never sees.  The age stamps of the slots and of the replay entries are  *)
(* kept as the order of the two tables, least recently touched first.      *)
(***************************************************************************)
EXTENDS SerialWindow, SequencesExt

CONSTANTS
    Streams,        \* stream identifiers; one transmitter each
    Metas,          \* metadata of messages: [signed, tag]
    MaxFragments,   \* LM_AIR_MAX_FRAGMENTS
    Slots,          \* LM_AIR_RX_REASSEMBLY_SLOTS
    ReplayStreams,  \* LM_AIR_RX_REPLAY_STREAMS
    InitialSequence,\* of every transmitter
    Lag,            \* the medium forgets a frame once a message Lag newer is on air
    MaxMessages,    \* bound: messages begun in a behaviour
    MaxEmitFailures,\* bound: failures of the emit callback in a behaviour
    MaxResets       \* bound: calls of lm_air_rx_reset() in a behaviour

ASSUME CoreAssumption ==
    /\ \A meta \in Metas : meta.signed \in BOOLEAN
    /\ {MaxFragments, Slots, ReplayStreams} \subseteq Nat \ {0}
    /\ InitialSequence \in Serials
    /\ {Lag, MaxMessages, MaxEmitFailures, MaxResets} \subseteq Nat

VARIABLES
    tx,         \* stream -> lm_air_tx_t: [phase, nextSequence, message, fragmentIndex]
    begun,      \* messages begun so far
    failures,   \* failures of the emit callback so far
    aired,      \* newest message with a frame on the air
    air,        \* frames a receiver may still hear, any number of times
    slots,      \* lm_air_rx_t.slots in use, least recently touched first
    replay,     \* lm_air_rx_t.replay in use, least recently committed first
    resets,     \* calls of lm_air_rx_reset() so far
    delivered,  \* messages the receive callback was called with, as <<stream, id>>
    forgotten,  \* those of them whose commit was evicted or reset since
    mixed,      \* metadata of messages handed over that nobody sent
    repeated    \* messages handed over again that were not forgotten

txVars  == <<tx, begun, failures>>
airVars == <<aired, air>>
rxVars  == <<slots, replay, resets>>
ghosts  == <<delivered, forgotten, mixed, repeated>>
vars    == <<txVars, airVars, rxVars, ghosts>>

Ids == 1 .. MaxMessages

Phases == {"IDLE", "EMITTING", "DONE", "FAILED"}

Messages == [id : Ids, stream : Streams, sequence : Serials,
             count : 1 .. MaxFragments, meta : Metas]

NoMessage == [id |-> 0]

Frames == [message : Messages, index : 1 .. MaxFragments]

-----------------------------------------------------------------------------
(* Transmitter *)

\* lm_air_tx_begin() once signing has succeeded.
Begin(stream, meta, count) ==
    /\ tx[stream].phase # "EMITTING"
    /\ begun < MaxMessages
    /\ begun' = begun + 1
    /\ tx' = [tx EXCEPT ![stream].phase = "EMITTING",
                        ![stream].fragmentIndex = 1,
                        ![stream].message =
                            [id |-> begun', stream |-> stream, count |-> count,
                             sequence |-> tx[stream].nextSequence, meta |-> meta]]
    /\ UNCHANGED <<failures, airVars, rxVars, ghosts>>

\* The sign callback is missing or fails, or the envelope needs too many
\* fragments.
BeginFails(stream) ==
    /\ tx[stream].phase # "EMITTING"
    /\ tx' = [tx EXCEPT ![stream].phase = "FAILED"]
    /\ UNCHANGED <<begun, failures, airVars, rxVars, ghosts>>

LastFragment(stream) == tx[stream].fragmentIndex = tx[stream].message.count

\* Mutant: the sequence number stays the same after the last fragment.
PolledWithoutAdvance(stream, phase) ==
    [tx[stream] EXCEPT !.phase = phase, !.fragmentIndex = @ + 1]

\* lm_air_tx_poll(): only the last fragment advances next_sequence.
Polled(stream, phase) ==
    [tx[stream] EXCEPT !.phase = phase,
                       !.fragmentIndex = @ + 1,
                       !.nextSequence = IF LastFragment(stream)
                                        THEN WrappingInc(@) ELSE @]

Hear(frame) ==
    /\ aired' = frame.message.id
    /\ air' = {f \in air : frame.message.id - f.message.id <= Lag} \cup {frame}

CurrentFrame(stream) ==
    [message |-> tx[stream].message, index |-> tx[stream].fragmentIndex]

\* One turn of the loop of lm_air_tx_send().
SendFragment(stream) ==
    /\ tx[stream].phase = "EMITTING"
    /\ tx' = [tx EXCEPT ![stream] =
                 Polled(stream, IF LastFragment(stream) THEN "DONE" ELSE "EMITTING")]
    /\ Hear(CurrentFrame(stream))
    /\ UNCHANGED <<begun, failures, rxVars, ghosts>>

\* The emit callback reports failure: lm_air_tx_send() gives the message up.
\* Whether the block went out all the same is the business of the callback.
EmitFails(stream) ==
    /\ tx[stream].phase = "EMITTING"
    /\ failures < MaxEmitFailures
    /\ failures' = failures + 1
    /\ tx' = [tx EXCEPT ![stream] = Polled(stream, "FAILED")]
    /\ Hear(CurrentFrame(stream)) \/ UNCHANGED airVars
    /\ UNCHANGED <<begun, rxVars, ghosts>>

-----------------------------------------------------------------------------
(* Receiver: ingest_frame() *)

WindowIndex(stream) == {k \in DOMAIN replay : replay[k].stream = stream}

\* Mutant: a slot is found by its metadata, too.
SlotIndexByMeta(m) ==
    {k \in DOMAIN slots : /\ slots[k].stream = m.stream /\ slots[k].sequence = m.sequence
                           /\ slots[k].meta = m.meta}

SlotIndex(m) ==
    {k \in DOMAIN slots : slots[k].stream = m.stream /\ slots[k].sequence = m.sequence}

\* Mutant: only sequence numbers behind the whole window are refused.
IsTooOld(m) == \E k \in WindowIndex(m.stream) :
    Classify(replay[k].window, m.sequence) = "TooOld"

\* is_replay()
IsReplay(m) == \E k \in WindowIndex(m.stream) :
    Classify(replay[k].window, m.sequence) # "Accept"

RefuseReplay(f) ==
    /\ IsReplay(f.message)
    /\ UNCHANGED <<rxVars, ghosts>>

NewSlot(m) == [stream |-> m.stream, sequence |-> m.sequence, count |-> m.count,
               meta |-> m.meta, parts |-> [k \in {} |-> 0]]

\* find_or_allocate_slot() and the slot it returns moved to the end.  With no
\* free slot the least recently touched one is evicted.
Touched(m) ==
    IF SlotIndex(m) # {}
    THEN LET k == CHOOSE k \in SlotIndex(m) : TRUE IN Append(RemoveAt(slots, k), slots[k])
    ELSE Append(IF Len(slots) = Slots THEN Tail(slots) ELSE slots, NewSlot(m))

\* The table without the slot of m, or without the slot evicted for m.
Others(m) == Front(Touched(m))

SlotOf(m) == Last(Touched(m))

Inconsistent(m) == SlotOf(m).count # m.count \/ SlotOf(m).meta # m.meta

\* Another message uses the slot: LM_AIR_ERR_FORMAT.
RefuseInconsistent(f) ==
    /\ ~IsReplay(f.message)
    /\ Inconsistent(f.message)
    /\ UNCHANGED <<rxVars, ghosts>>

\* The received bitmap has the bit: LM_AIR_ERR_DUPLICATE, whatever the payload.
RefuseDuplicate(f) ==
    /\ ~IsReplay(f.message)
    /\ ~Inconsistent(f.message)
    /\ f.index \in DOMAIN SlotOf(f.message).parts
    /\ UNCHANGED <<rxVars, ghosts>>

Stored(f) ==
    /\ ~IsReplay(f.message)
    /\ ~Inconsistent(f.message)
    /\ f.index \notin DOMAIN SlotOf(f.message).parts

PartsWith(f) ==
    LET parts == SlotOf(f.message).parts
    IN  [k \in DOMAIN parts \cup {f.index} |->
            IF k = f.index THEN f.message.id ELSE parts[k]]

Complete(f) == DOMAIN PartsWith(f) = 1 .. f.message.count

StoreFragment(f) ==
    /\ Stored(f)
    /\ ~Complete(f)
    /\ slots' = Append(Others(f.message), [SlotOf(f.message) EXCEPT !.parts = PartsWith(f)])
    /\ UNCHANGED <<replay, resets, ghosts>>

Whole(f) == \A k \in DOMAIN PartsWith(f) : PartsWith(f)[k] = f.message.id

\* The checks of deliver_slot().  A signature fails on a mixture, and on a
\* whole message when the verify callback is missing or does not know the key;
\* without a signature the header of one message and the rest of another pass
\* when their lengths agree.
CheckOutcomes(f) ==
    CASE Whole(f) /\ ~f.message.meta.signed -> {TRUE}
      [] ~Whole(f) /\ f.message.meta.signed -> {FALSE}
      [] OTHER -> BOOLEAN

\* Mutant: the slot stays in use.
NotCleared(f) == Append(Others(f.message), [SlotOf(f.message) EXCEPT !.parts = PartsWith(f)])

\* The memset() after deliver_slot(), whatever it returned.
Cleared(f) == Others(f.message)

\* deliver_slot() fails: the slot is cleared, nothing is committed.
RefuseMessage(f) ==
    /\ Stored(f)
    /\ Complete(f)
    /\ FALSE \in CheckOutcomes(f)
    /\ slots' = Cleared(f)
    /\ UNCHANGED <<replay, resets, ghosts>>

\* commit_replay(): a new stream takes a free entry or the oldest one.
Committed(m) ==
    IF WindowIndex(m.stream) # {}
    THEN LET k == CHOOSE k \in WindowIndex(m.stream) : TRUE
         IN  Append(RemoveAt(replay, k),
                    [replay[k] EXCEPT !.window = Commit(@, m.sequence)])
    ELSE Append(IF Len(replay) = ReplayStreams THEN Tail(replay) ELSE replay,
                [stream |-> m.stream, window |-> Commit(NewWindow, m.sequence)])

\* The messages whose commit goes when m takes over the entry of its stream.
Evicted(m) ==
    IF WindowIndex(m.stream) = {} /\ Len(replay) = ReplayStreams
    THEN {d \in delivered : d[1] = Head(replay).stream} ELSE {}

\* The receive callback gets a message that was put together right.
HandOver(m) ==
    /\ delivered' = delivered \cup {<<m.stream, m.id>>}
    /\ repeated' = repeated \cup ({<<m.stream, m.id>>} \cap (delivered \ forgotten))
    /\ forgotten' = (forgotten \cup Evicted(m)) \ {<<m.stream, m.id>>}
    /\ UNCHANGED mixed

HandOverBlend(m) ==
    /\ mixed' = mixed \cup {m.meta}
    /\ forgotten' = forgotten \cup Evicted(m)
    /\ UNCHANGED <<delivered, repeated>>

\* Mutant: commit_replay() only once the callback has succeeded.
DeliverThenCommit(f) ==
    /\ Stored(f)
    /\ Complete(f)
    /\ TRUE \in CheckOutcomes(f)
    /\ slots' = Cleared(f)
    /\ replay' \in {Committed(f.message), replay}
    /\ IF Whole(f) THEN HandOver(f.message) ELSE HandOverBlend(f.message)
    /\ UNCHANGED resets

\* deliver_slot() commits and then calls the application; the slot is cleared.
\* A failing callback has had the message all the same: LM_AIR_ERR_CALLBACK is
\* reported to the caller, and nothing is undone.
Deliver(f) ==
    /\ Stored(f)
    /\ Complete(f)
    /\ TRUE \in CheckOutcomes(f)
    /\ slots' = Cleared(f)
    /\ replay' = Committed(f.message)
    /\ IF Whole(f) THEN HandOver(f.message) ELSE HandOverBlend(f.message)
    /\ UNCHANGED resets

Ingest(f) ==
    /\ \/ RefuseReplay(f)
       \/ RefuseInconsistent(f)
       \/ RefuseDuplicate(f)
       \/ StoreFragment(f)
       \/ RefuseMessage(f)
       \/ Deliver(f)
    /\ UNCHANGED <<txVars, airVars>>

\* lm_air_rx_reset() keeps the callbacks and forgets everything else.
Reset ==
    /\ resets < MaxResets
    /\ resets' = resets + 1
    /\ slots' = <<>>
    /\ replay' = <<>>
    /\ forgotten' = delivered
    /\ UNCHANGED <<txVars, airVars, delivered, mixed, repeated>>

-----------------------------------------------------------------------------
Init ==
    /\ tx = [stream \in Streams |->
                [phase |-> "IDLE", nextSequence |-> InitialSequence,
                 message |-> NoMessage, fragmentIndex |-> 0]]
    /\ begun = 0
    /\ failures = 0
    /\ aired = 0
    /\ air = {}
    /\ slots = <<>>
    /\ replay = <<>>
    /\ resets = 0
    /\ delivered = {}
    /\ forgotten = {}
    /\ mixed = {}
    /\ repeated = {}

Next ==
    \/ \E stream \in Streams, meta \in Metas, count \in 1 .. MaxFragments :
          Begin(stream, meta, count)
    \/ \E stream \in Streams :
          BeginFails(stream) \/ SendFragment(stream) \/ EmitFails(stream)
    \/ \E f \in air : Ingest(f)
    \/ Reset

Spec == Init /\ [][Next]_vars

-----------------------------------------------------------------------------
Parts == UNION {[P -> Ids] : P \in SUBSET (1 .. MaxFragments)}

SlotRecords == [stream : Streams, sequence : Serials, count : 1 .. MaxFragments,
                meta : Metas, parts : Parts]

\* A slot belongs to one message sequence, none is kept for a sequence number
\* that was committed (it could not complete any more), and a complete one is
\* cleared at once, whatever became of its message.  The two tables never
\* outgrow their fixed arrays.
SlotsCoherent ==
    /\ Len(slots) <= Slots /\ Len(replay) <= ReplayStreams
    /\ \A j, k \in DOMAIN slots :
          slots[j].stream = slots[k].stream /\ slots[j].sequence = slots[k].sequence
          => j = k
    /\ \A k \in DOMAIN slots :
          /\ \A w \in WindowIndex(slots[k].stream) :
                Classify(replay[w].window, slots[k].sequence) # "Duplicate"
          /\ DOMAIN slots[k].parts \notin {{}, 1 .. slots[k].count}

\* c/README.md:117: the receiver rejects "delivered message replays".  The receive
\* callback is called with a message at most once, whatever it answers, while the
\* receiver keeps the entry of its stream: across sequence wrap, evictions of
\* slots, sends given up half way, and with the entries of other streams coming
\* and going.
AtMostOnce == repeated = {}

\* README.md:46: what fails reassembly "is dropped -- never waved through".
\* Nothing handed over is put together from two messages.
NoMixture == mixed = {}

\* While every send succeeds the core implements the at-most-once service, apart
\* from messages whose commit was evicted or reset.
Service == INSTANCE MessageService
               WITH sent <- 1 .. begun,
                    delivered <- {d[2] : d \in delivered},
                    repeated <- {d[2] : d \in repeated},
                    forged <- mixed
ServiceSpec == Service!Spec
=============================================================================
