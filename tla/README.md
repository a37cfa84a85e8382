# LatentMesh in TLA+

Models of the communication core and the agents' planes of LatentMesh, the TLC runs that check them on
small instances, and theorems about them with proofs that TLAPS checks. Paths
below are relative to the repository root.

Contents: [the system](#1-the-system) ·
[modules and code](#2-modules-and-the-code-they-model) ·
[runs](#3-runs) · [bounds](#4-bounds-and-why-they-are-enough) ·
[fairness](#5-fairness) · [proofs](#6-proofs) ·
[known limitations](#7-what-the-models-show-against-the-code) ·
[not modelled](#8-what-is-not-modelled) · [plan](#9-plan)

## 1. The system

LatentMesh moves typed messages between agents over links of very different
quality: an acoustic or radio modem (`crates/latentmesh-air-core`,
`crates/latentmesh-air-radio`, the portable C core in `c/`, the ESP32 firmware),
a Meshtastic mesh (`crates/latentmesh-meshtastic`) and a QUIC stream
(`crates/latentmesh-stream`). Above the links sit the agents' planes: reasoning
contexts and budgets (`latentmesh-reasoning`), memory, topology evolution and
rule federation. Nearly everything is a single-owner state machine driven by
calls. What is concurrent is the *world*: the medium loses, repeats, delays and
reorders; several senders interleave; a sender may give up half way; a receiver
may be reset. The hard part of this code is therefore the order in which frames
reach fixed-size tables, and numbers that wrap.

| Component | State | Operations | Interacts with |
|---|---|---|---|
| Replay window (`air-core/replay.rs`) | highest number, 64-bit bitmap | `classify`, `commit` | `AirReceiver`, one window a stream |
| Fragmentation, reassembly (`air-core/fragment.rs`) | table of contexts by (stream, sequence) | `fragment_message`, `push`, `clear`, `has_in_flight` | transmitter; both receivers |
| Transmitter (`air-radio/transmitter.rs`) | queue of fragments, `next_sequence` | `enqueue_message`, `next_transmission` | fragmentation, frame codec, modem |
| Receiver (`air-radio/receiver.rs`) | reassembler, replay table, `state`, symbol buffer | `ingest_frame`, `ingest_frame_verified`, soft stream | reassembly, replay, admission of the envelope |
| Semantic state (`air-core/semantic.rs`, `envelope.rs`) | `CriticalState` | `between`, `validate`, `apply`, `apply_delta` | payload of the links |
| C core (`c/src/air.c`) | `lm_air_tx_t`; slots, replay entries, clock of `lm_air_rx_t` | `tx_begin`, `tx_poll`, `tx_send`, `rx_ingest_*`, `rx_reset` | `emit`, `sign`, `verify`, receive callbacks |
| Meshtastic framing (`meshtastic/framing.rs`) | decoder state, partial body, ready bodies | `read_frame`, `push`, `pull` | the serial or TCP byte stream |
| Meshtastic adapter (`meshtastic/adapter.rs`) | reassembler, ready messages | `encode_message`, `ingest_from_radio`, `push`, `next_message` | framing, protobuf, reassembly |
| Latent stream (`stream/sequence.rs`, `escalation.rs`, `receiver.rs`) | next expected number; rung, average, frames at the rung | `observe`, `reset`, `ingest` | gate in front; `Authority` ladder of `core` |
| Admission gate (`gate/lib.rs`) | edge ceilings, known transforms, threshold | `admit`, `estimate_risk` | latent stream |
| Stream codec, QUIC (`stream/codec.rs`, `quic.rs`) | receive buffer | `push`, `next_frame` | QUIC streams |
| Firmware (`firmware/esp32`) | queues between tasks, mutex, per-link numbers, radio policy | publish, ingest, BLE/UDP/KISS/I2S tasks | the C core, the links |
| KISS and BLE codecs of the firmware (`lm_air_kiss.c`, `lm_air_ble_frag.c`) | decoder state and packet in hand; header, bitmap and bytes of one reassembly | `lm_kiss_encode`, `lm_kiss_decoder_feed`; `lm_air_ble_make_fragment`, `lm_air_ble_reassembly_ingest` | UART and BLE tasks, the pipeline |
| Task context (`reasoning/context.rs`) | current checkpoint, bounded history, next sequence number | `genesis`, `update`, `rollback`, `rollback_to` | workspace |
| Compute budget (`reasoning/workspace.rs`, `budget.rs`) | iteration counter; thresholds derived from the signals of a call | `route`, `step`, `evaluate_step` | context, router |
| Representation router (`core/routing.rs`) | best candidate so far | `utility_density`, `route` | every sender of a message |
| Memory (`memory/store.rs`, `ruvector.rs`) | trajectory records by id, symbolic rules; vectors in the external index | `store`, `store_compressed`, `compress_to`, `promote_to_prototype`, `promote_to_rule` | RuVector |
| Topology evolution (`evolve/darwin.rs`) | best topology, child, procedural memory of a family | mutate, select, audit, warm start, `remember_topology` | memory |
| Rule federation (`federation/`) | rules and holdout log of a node, what it takes others to know | install, offer, hear and admit | the air links |
| Signal processing, training, inference, benchmarks | numeric | – | – |

What makes each part correct:

- **Replay window.** A number that was refused stays refused until the window
  moves away from it; a jump of half the range is not forward; the bitmap is a
  set of committed numbers and nothing else.
- **A link** (Rust or C). It returns what was sent, as it was sent, at most
  once; a fresh message is not refused; tables keep their bounds on every error
  path; nothing left in a table belongs to a message that is already committed.
- **Meshtastic.** The incremental decoder and the blocking reader read the same
  frames from the same bytes and recover after noise; a body that arrived is
  looked at and a message whose fragments are all there is returned, at the latest
  with the bytes that come next.
- **Semantic state.** The receiver never holds a state that nobody published,
  whatever is lost; on an orderly link it follows every state that a full one has
  room to turn into.
- **Latent stream.** What is ingested and what is reported missing add up; a
  rung of authority rests on unbroken evidence and on the average of now.
- **Byte decoders.** How the bytes were cut into chunks leaves no trace; a broken
  frame costs no more than itself; a bound on a buffer never costs a caller that
  drains it its place in the stream; no header makes a reassembly write past the end it announces.
- **Task context.** History is the chain of ancestors of the current checkpoint; a
  checkpoint that was given up does not come back.
- **Budget.** A call ends; pressure does not buy a safety-critical call out of its
  verification; a sufficient answer is not thrown away at the ceiling.
- **Routing.** One pass finds what a comparison of all candidates would, and
  silence when nothing tested is worth more.
- **Memory.** It only fades; what a prototype was folded from is older and still there.
- **Evolution.** No edge exceeds its cap; the governance edges stay and carry; a
  taken audit leaves nothing idle and nothing unverified.
- **Federation.** A rule does not leave its scope by any route; nodes with opposite
  evidence do not change each other's minds for ever.
- **Firmware.** Messages of several tasks stay together in each queue and a
  whole one keeps its number to itself; the result and the metrics tell what
  happened; a stuck link takes only its own share; nothing goes out to a radio
  unidentified or unarmed; no task waits for ever.

`PROJECT.json` lists the hazards of this code line by line, with the properties
that watch each of them.

## 2. Modules and the code they model

```
SerialWindow ─── SerialReplay ◄── refined by ── ReplayBitmap
     ├── Reassembler ─┬─ AirLink ──────── refines ──► MessageService
     │                └─ MeshtasticLink
     └── CAirLink ──────────── refines ──► MessageService
TxPipeline ◄── extended by ── FirmwareNode
MCDecoders ─── DeviceFraming, StreamCodec, KissPort, BleFragments, StateSync
MCAgents ───── TaskContext (refines ──► BoundedUndo), BudgetSession,
               RepresentationRouter, RuleFederation, TopologyEvolution,
               MemoryStore, LatentStream
```

Theorems stand in eight modules: `SerialWindow_proofs` (lemmas on numbers and the
window, cited by the links), `AirLink_proofs`, `CAirLink_proofs`,
`ReplayBitmap_proofs`, `Meshtastic_proofs`, `Firmware_proofs` (TxPipeline and
FirmwareNode), `Streams_proofs` (StreamCodec, StateSync, BleFragments,
DeviceFraming, KissPort) and `Agents_proofs` (the seven components of MCAgents).

**SerialWindow** – numbers modulo `SeqModulus` and the replay window in the form
the link models use: the highest number and the *set* of committed numbers
within `WindowSize` of it. `Classify` and `Commit` are `classify()` and
`commit()`. **ReplayBitmap** is the window as the code has it: first-commit,
forward and behind branches, the shift that is skipped when it is as wide as
the bitmap, one bit a number. `ReplayBitmap_proofs` proves that it implements
**SerialReplay**, the specification that holds a set, so that the two forms of
the window are one.

**Reassembler** – `Reassembler.contexts` and what `push()` finds out about a
frame in the order it asks: too many fragments, full table, mismatch with the
context, part already there, too many bytes, complete. It is extended by both
receivers that own one. The payload of fragment k of message id is the pair of
the two, so equal payloads mean the same fragment.

**AirLink** – `AirTransmitter` and `AirReceiver`. `Enqueue` is
`enqueue_message_with_flags` (all fragments or none), `Transmit` and
`TransmitFails` are `next_transmission` with its pop before the fallible
encode. `ingest_frame_inner` is split by outcome: `RefuseUnverified` (which also
clears the context), `RefuseReplay`, `RefusePush`, `KeepFragment`,
`RefuseOversized` (which leaves an empty context behind), `StoreFragment`,
`RefuseMessage` and `Deliver`, the last of which removes the context, commits
and returns in one step, as the one call does. What is returned of several messages
is kept in `mixed` as the set of them. `verifier` says which entry point
was called. The medium `air` holds every frame that may still be heard, any
number of times and in any order. `id`, unknown to the code, numbers messages
without wrapping and lets the properties speak of them.

**CAirLink** – the C core. `Begin`, `BeginFails`, `SendFragment`, `EmitFails`
follow `lm_air_tx_begin` and the loop of `lm_air_tx_send`: the sequence number
advances with the last fragment only. `ingest_frame` is split by outcome again;
unlike the Rust receiver it evicts slots (least recently touched first) and
replay entries (least recently committed first), reports a repeated fragment as
an error, and commits before the application's callback. The callback
has had the message whatever it answers: `delivered` counts it as soon as it is called,
and a callback that fails and one that does not are the same step. Ages are kept as the
order of the two tables. `Reset` is `lm_air_rx_reset`.

**MessageService** – what the application is promised: a message that is
returned was sent and is returned at most once. AirLink and CAirLink are checked
to implement it (`ServiceSpec`), with `sent`, `delivered`, `repeated` and
`forged` as the refinement mapping.

**DeviceFraming** – `FrameDecoder::push_byte`, one action a state, with every
byte offered in turn, beside `BlockingFrames`, what `read_frame` makes of the
same bytes (`ReadFrom` has it for every position it may go on from). **MeshtasticLink** – `StreamingReceiver::push` as a run of `Pull`
steps that ends early when a body is an error (the `?`), over a mesh that
repeats and reorders packets and mixes in other traffic. What is behind the error
stays until a later `Push`, of whatever bytes.

**StateSync** – `SemanticDelta::between` with its updates sorted by field
(`InOrder`), `validate` and `apply` with the update-by-update fold and its error result, a sender that publishes states and a
link that is `orderly` or not. A hash stands for the state itself (collisions
are outside the model).

**LatentStream** – `LatentStreamReceiver::ingest`: the gate (`Risk`, `Ceiling`,
`Admitted`), the tracker (`Trackable`, `Skipped`) and the escalator (`Average`,
`Supported`, `Climbs`). Fractions are integers per cent. `baseline`, `ingested`,
`missing` and `unbroken` are history variables.

**TxPipeline** – `lm_air_pipeline_send()` of the ESP32 firmware. A call takes the
mutex (`Take`, or `TakeTimesOut` after a second), goes through the links of its
mask in order (`NotSupported`, `BeginRefused`, `Begin`), emits fragment after
fragment into the queue of the link (`Emit`, or `EmitTimesOut` when it stays full
for 100 ms) and returns the worst result. `s_tx` and `s_next_sequence` are the
static variables of that name; `published`, `unbegun` and `cut` are history. A queue that
stays full is counted in `metrics` as a drop, like a link that cannot send.
**FirmwareNode** adds the tasks that empty the queues: `udp_task`, `notify_task`
with one step a notification, and `kiss_tx_task` with the policy's decision
(`KissBlock`, `KissAllow`) and the write as separate steps, since the UART may
make it wait. Between any two steps `World` may move: the station connects or
not, a peer comes, subscribes, or leaves, the interlock opens, time passes.
`refusedOn` of a message says where `lm_air_tx_begin()` refuses it, `permitted`
what `lm_air_policy_check()` makes of its flags.

**StreamCodec** – `FrameDecoder` of `latentmesh-stream`: `Push` with the bound on
the buffer and the look at the head that both empty it, `NextFrame`, and
`NoFrame`, which stands for "more is needed" and for the error that the same
bytes answer again. A body either parses or does not. `prompt` is history: whether every push
came when `next_frame` had asked for more, as in `quic.rs`; other callers are in the
model too. **KissPort** –
`lm_kiss_encode` into the buffer of `kiss_tx_task` and `lm_kiss_decoder_feed`, byte
by byte, with noise between and inside the frames. **BleFragments** –
`lm_air_ble_fragment_count`, `lm_air_ble_make_fragment` and
`lm_air_ble_reassembly_ingest`: the header checks, the takeover by a message of
another identifier, every byte that is written, and the CRC, which is taken to
tell packets apart. Fragments of peers that cut unevenly, and disconnections,
are actions too.

**TaskContext** – `ContextState`: `Update` with its refusals and the trimmed
history, `Rollback`, `RollbackTo`. A hash is the position of the hashed content
in `hashed`, so that equal contents have equal hashes; the payload stands for
state vector, confidence and provenance. **BoundedUndo** is what it promises: a
stack of limited depth whose tokens are used once.

**BudgetSession** – one reasoning call: `Route` (`ReasoningBudgetController::route`
with its NaN cases, and `ReasoningWorkspace::seed`) and `Iterate` (`step`, then
`evaluate_step`). **RepresentationRouter** – `Consider` is one turn of the loop
in `route()`.

**RuleFederation** – nodes with a `WorldModel`, the offer to a cluster
(`offerable_to`, `should_transmit_to`, the envelope that refuses `Private`), a
radio heard by anyone any number of times, and `validate_candidate` with its
tests in order: scope, size of the holdout, gain, decoys. Whether a gain is
significant in the permutation test is left open. **TopologyEvolution** – the
mutations of `random_mutation()`, each with its refusals, the comparison of
child and best (left open, so that every choice the fitness could make is
allowed), the audit, and the procedural memory that warm-starts the next run.
**MemoryStore** – both backends. Callers store records of any fidelity, any recorded
error and any parents, known or not (`Offers`), and any causal value, NaN included. `folded` and `born` are history: which
records `promote_to_prototype` made, and when. The RuVector backend replaces a record by
a delete and an insert, two steps of which the second may fail, and cannot read back a
record whose causal value is NaN (`Readable`), since JSON has none.

`MCDecoders` and `MCAgents` put components that share nothing side by side: which
one moves is chosen at the start, so their state spaces add up instead of
multiplying, and each is checked as if it were alone. The other `MC...` modules
only define the constant sets the configurations use. The
definitions marked *Mutant* are plausible bugs of the definition below them;
each property is known to fail when its mutant takes the definition's place.

## 3. Runs

| Run | Question | States |
|---|---|---|
| `AirLinkWrap` | With numbers wrapping past stale contexts, through both entry points: no message twice (`AtMostOnce`), no blend but of messages a round of the numbers apart (`MixedOnlyAcrossWrap`), no context of a committed number (`InFlightUncommitted`)? | 308,000 |
| `AirLinkEpoch` | Before the wrap, with tables smaller than the sender assumes: bounds kept (`TypeOK`), no false alarm of the replay check (`FreshAccepted`), and the service implemented, which no blend at all is part of? | 377,000 |
| `CAirWrap` | The C core across the wrap with a send given up half way and two slots: no message given to the application twice, two slots never of one number, none of a committed one? | 182,000 |
| `CAirService` | The C core with two streams for one slot and one replay entry, and a reset: bounds and coherence of slots and entries, the service. | 71,000 |
| `CAirPartial` | Does a send given up half way leave a blend? It does (violation). | – |
| `Decoders` | Do the two Meshtastic readers agree on every input of up to nine bytes, noise and corrupt lengths included? Does the stream codec find the frames of every byte stream of nine bytes whatever the chunks, and does a caller that drains lose its place only to a frame that declares too much (`KeepsItsPlace`)? Does the next KISS frame arrive after any noise, and every BLE packet whose fragments came? Deltas on a lossy or orderly link, three fields of which a state holds two: only published states held (`HeldWasPublished`), every one followed when orderly, up to a delta that has no room (`FollowsInOrder`)? | 3,462,000 |
| `Meshtastic` | Any order of skipped, rejected, refused and stored bodies: no blend, and, while bytes keep coming, everything handled and returned? | 15,500 |
| `MeshtasticStall` | Does `push()` queue every message its bytes complete? Not behind a body in error (violation). | – |
| `StateSyncFull` | Does a valid delta always apply to its base? It does not for a full state (violation). | – |
| `Agents` | Context, budget, router, federation, evolution, memory and latent stream, each on its own: the properties of section 1, the refinement `UndoStack`, and that the rules of nodes with opposite evidence come to rest (`RulesSettle`). | 889,000 |
| `Firmware` | Two applications, three link tasks, queues of one: messages in one piece with numbers of their own, results and metrics that tell the truth, identification on the air, no call and no BLE or KISS packet that stays? | 215,000 |
| `FirmwareInterlock` | Does an open interlock keep packets from the radio? Only when it was open at the start (violation). | – |

`CHECK_DEADLOCK FALSE` stands in the configurations whose behaviours end by
their bound: `Decoders` at the last byte of the input or when the last delta has
arrived, `StateSyncFull` likewise, `Agents` at the last candidate, update or iterate. `Firmware` never stops, because
stations come and go, and checks deadlock like the others.

## 4. Bounds, and why they are enough

- **SeqModulus, HalfRange, WindowSize** stand for 65536, 32768 and 64. The code
  uses nothing of them but wrapping difference, the comparison with half the
  range and with the width, so what matters is their order,
  `WindowSize < HalfRange < SeqModulus`, and that runs wrap. `AirLinkWrap` and
  `CAirWrap` use 4, 2, 2 and five messages, which puts the last message on the
  sequence number of the first. The theorems of `AirLink_proofs`,
  `CAirLink_proofs` and `Meshtastic_proofs` remove these bounds, as far as the
  hypotheses in section 6 say, and `ReplayBitmap_proofs` those of the window itself.
- **Lag** is how many messages newer a frame on the air may be outlived by. It is
  an assumption about the medium, `MediumAssumption`: a 16-bit serial window
  cannot tell a frame from one 65536 messages younger, so no receiver can do
  without. In the code's numbers it allows 32,705 messages.
- **MaxMessages** (2–5) is one more than needed for a wrap, or for the smallest
  table to be full and contended. **MaxContexts**, **Slots**, **ReplayStreams**,
  **MaxStreams** are 1 or 2 so that full tables are the normal case; `CAirWrap` has two
  slots, so that two of them could be of one number. Fragments
  per message are 1–3 so that a message may be whole, split, or larger than
  `MaxBytes`.
- **MaxStream** = 9, **MaxChunk** = 3, **MaxFrameBytes** = 2 give two whole frames and
  the beginning of a third in every chunking, and enough bytes to pass the bound
  of the buffer (8). The length in front has 2 bytes instead of 4.
- **MaxPacket** = 2, **MaxNoise** = 3 let noise open a frame, escape and overflow
  before the next frame comes. BLE packets of 3 and 5 bytes divide evenly and
  unevenly by the counts 1–4; **IdSpace** = 2 reuses an identifier within three
  messages.
- **MaxHistory** = 2, **MaxUpdates** = 4: the history is full, trimmed and rolled back
  past the trimmed end. The budget has room between every two of its floors and
  ceilings (2, 3, 4 iterations). Three candidates are enough for a tie behind a
  winner.
- Three nodes in two clusters, one key, two posts, **MinHoldout** = **MaxObserved** = 2:
  every pair of nodes can hold opposite evidence, and a rule can travel over a
  node to a third. Three agents with one mandatory edge; **Cap** = 1, because a cap
  of 2 (the one `evolve()` uses) makes a state space too large to finish, while a
  raise after a lowering, a raise up to the cap and a refused raise occur with
  1; the theorem `ConstitutionAlwaysKept` holds for every cap. **Ids** of the memory are two, so a record may
  name another, itself or both as parents, be folded from them, be lost to the one backend
  failure and be stored again. **Offers** are records of every fidelity, with
  and without error, with no parents or with two, one of which is never stored and the other
  earlier, later or the record itself; **CausalValues** are one below and one at the floor
  beside **CausalNaN**. Infinite causal
  values are not among them: they compare like very large and very small numbers, except
  in a mean of both.
- **MaxInput** = 9 is longer than two frames of the longest body with noise.
- **MaxPublished** = 4 lets a state come back (A, B, A) with deltas under way, and one more
  delta behind one that had no room. Three **Fields** for states of at most **MaxFields** = 2
  make that happen for each order of the identifiers.
- **MaxSequence** = 8 lets the stream climb all rungs at two frames a rung, and lose
  them to a gap.
- **MaxSends** = 2 puts two tasks on one link, and on the mutex, at once; a
  **QueueDepth** of 1 makes a full queue the normal case for a message of two
  fragments. **Notifications** are 0, a peer whose MTU is too small, or 2, so that
  a peer may leave in between. **MaxClock** = **CallsignInterval** = 1 lets the interval end once,
  at any point. The number of a message is 16 bits wide in the code and does not
  wrap here; what a wrap does to the receiver is the subject of CAirLink.
- **MaxEmitFailures**, **MaxResets** = 1: what is shown is the effect of one.

## 5. Fairness

Safety runs use none. `Meshtastic` uses `LiveSpec`: a call of `push()` that was started
goes on to its end (weak fairness of `Pull` and `PushReturns`: a loop without waiting), and
the application keeps asking for messages between calls (strong fairness of `NextMessage`,
because a new call of `push()` disables it for a while). Nothing in the code calls `push()`
again after an error, so that is not assumed: `ArrivedIsHandled` and `GatheredIsReturned`
have `BytesKeepComing`, that `push()` is called again and again, as their premise, since
the serial line or socket that feeds it may fall silent. `MeshtasticStall` shows that the
premise is needed.
`Firmware` uses `LiveSpec`: FreeRTOS lets a task that can run take its
next step, and every wait in it ends or times out, so each step of a call, of
`notify_task` and of `kiss_tx_task` is weakly fair. Nothing is assumed of the
station, the peer, or `udp_task`, which may wait for ever. `RulesSettle` of `Agents`
needs none: once the bounded edits and observations are used up, every
admission strictly raises what the node's own holdout says of its rule, so no
behaviour changes the rules for ever, whatever is scheduled.

## 6. Proofs

Every theorem is about all values of the constants that the named assumptions
(`SerialAssumption`, `ReassemblerAssumption` and so on) and its own `ASSUME` allow,
and about behaviours of any length. A safety theorem has an inductive invariant
`IInv`, and three facts: `Init => IInv`, a lemma for the step with one case an
action, and `IInv` implies the property. Only the last line of a theorem is
temporal.

What a recursive function or a fold computes is proved by induction over numbers, in
a form the provers take: `LeastExists` (a set of numbers has a least one, from the
well-foundedness of `<`) gives `Upwards` and `Backwards`, which speak of a *set* `P` of
numbers rather than of a predicate. A definition `f[n] == ... f[n - 1] ...` is a
`CHOOSE` of a function, so each such section first shows that the function exists
(`ReadingExists`, `SumsUpTo`, `FoldExists`), up to any length, and then reasons with its
equations.

`AirLink_proofs` and `CAirLink_proofs` reason about messages by numbers
that do not wrap; `Cong(a, b)` of `SerialWindow_proofs` says that two of them have
the same number on the wire, and its lemmas (`SerialUnique`, `SubIsDistance`,
`CommitCovers`, `AcceptedUnseen`) what `Classify` answers for a number at a given
distance and what `Commit` does to a window.

### Rust link (`AirLink_proofs`)

- `TypeCorrect`: queue, context table and replay table never outgrow their
  limits. The work is in the cardinality of a table that gains a key only while it
  is not full.
- `ReturnedAtMostOnce`. `OnceInv` says of each frame on the air that its wire
  number is its `id` modulo `SeqModulus` and that it is at most `Lag` behind
  `aired`, and that the window of a stream *covers* what was returned on it:
  every returned message that may still be heard is a duplicate or too old. When
  the window moves forward for a newer message, a returned one must fall in the
  window or behind it and never ahead; that is what `MediumAssumption` provides.
- `MixedOnlyEverAcrossWrap` holds without `MediumAssumption`. `MixingInv` says that every
  frame has the wire number of its message (`Numbering`), and every part in the table that
  of the key it lies under (`PartsNumbered`); two messages of one wire number are at least
  `SeqModulus` apart (`SameNumberApart`). Eviction, refusals and lost fragments change
  nothing in that; a sender that queued part of a message without counting it would.
- `InFlightAlwaysUncommitted` holds without `MediumAssumption` either. `UncommittedInv`
  says that no context in the table has the key of a committed number, and that a
  window holds nothing its width does not cover (`WindowsTight`), so that a number
  that slides out of it is *too old* and not fresh.
- `FreshAlwaysAccepted` assumes `MaxMessages < HalfRange`: the property is about an
  epoch in which no number comes round, as in the run `AirLinkEpoch`. `SeenReturned`
  says that all a window holds are numbers of returned messages, and that it stands
  at a message that was on the air; a message which was not returned is then no
  duplicate, and one of the last `WindowSize` not too old.
- `LinkServes`: `Spec => ServiceSpec` if `MaxMessages < SeqModulus`. Every action
  maps to a step of MessageService or to a stutter. `ServiceInv` adds that a
  message has one stream and that what is in the table under a key was sent under
  it (`PartsNumbered`), so that nothing is a mixture. Once as many messages were sent
  as there are numbers, an unsigned mixture is possible, in the model as in the
  code, which is the reason for the hypothesis.

### C core (`CAirLink_proofs`)

- `SlotsAlwaysCoherent`, from `CoreInv`: types, and `TableInv`, which says of the
  fixed tables what the code relies on when it looks an entry up: one slot per
  message number, one window per stream, no complete slot left behind, windows
  tight and no slot of a number its window has seen. Eviction of the oldest entry,
  expiry and reset keep it. The tables are sequences; `RemoveAtSelects` and
  `TailSelects` say what is left of one.
- `DeliveredAtMostOnce` assumes `WindowSize + Lag <= HalfRange + 1`, the same bound
  on the medium that AirLink assumes throughout. The difficulty is that a number of
  the C core is not the count of its messages: a send that fails leaves it where
  it was. `StreamInv` therefore claims that there *are* numbers that do not wrap,
  one for each message of the stream, that agree with the wire (`SenderNumbers`),
  and that the window covers the numbers of the deliveries the receiver still
  remembers (`ReceiverNumbers`). Each step is shown to extend them.
- `CoreServes`: `Spec => ServiceSpec`, with the bound above, `MaxMessages <= SeqModulus`
  and `MaxEmitFailures = 0`. Without the last one the refinement is false, which is
  what `CAirPartial` shows. `ServiceInv` adds that no two messages on the air or in a
  slot share a number (`UsedNumbers`, `SlotNumbers`). `CAirService.cfg`
  satisfies all three, `CAirWrap.cfg` the bound on the medium, with numbers that wrap.

### The window itself (`ReplayBitmap_proofs`)

- `BitmapIsSet`: `Spec => SerialSpec`. A commit on the bitmap is a commit on the
  set of committed numbers, step by step: `SeenAfterFirst`, `SeenAfterForward`
  and `SeenAfterBehind` compute the set each branch leaves behind, and the rest
  is that `Verdict` answers what `Classify` answers. The link modules may
  therefore use the set.
- `HalfJumps` and `StaysRefused`: `Spec => []HalfJumpRejected` and
  `Spec => RefusedStaysRefused`. A refused number is behind the window or a bit
  of it; a step forward of n moves both by n, and half the number space is the
  farthest a number can be behind. Their invariant is the type invariant with two
  additions, that a window which was used has bit 0 set and one that was not has
  none: without them the number just committed would not be refused.

### Meshtastic (`Meshtastic_proofs`)

- `MessagesNeverMixed` assumes `MaxMessages <= SeqModulus`: the adapter has no
  window, so the key of a context tells messages apart only until the numbers
  wrap. `MeshInv` says that every part in the table, wherever it came from in the
  batch, is of the message that has the number of its context.

### Firmware (`Firmware_proofs`)

- `MessagesAlwaysStayTogether` and the action property `ResultAlwaysTellsTruth`, from
  `PipelineInv`. A task behind the mutex owns it (`CallInv`); the static transmitter
  holds the next fragment of that task's call (`EmitInv`); what a queue accepted is
  a row of messages, each from its first fragment on, all but perhaps those that
  were cut short complete (`Together`), and a number comes again only behind an
  incomplete one (`Numbered`). For the result, `CallInv` relates what the call holds
  so far to the links it has tried. A link that the task tries next is the least
  one left (`NextIsLeast`), for which a non-empty set of numbers has a least element
  (`LeastExists`, by well-founded induction).
- The action property `AirAlwaysIdentified`, from `AirInv`: what the KISS task has in
  hand was allowed, and the identification the policy counted last is on the air
  or is what is in hand. It is the latter case that makes the obvious invariant fail,
  as the policy counts a packet before it is written.
- `EveryPacketAlwaysCounted`, from `BookInv`: the property with the types of the metrics
  and of what the BLE task holds. The packets in all queues and those in the metrics
  are sums over the links, which the model takes with a fold; `SumsDef` says
  that the fold is the sum, `TotalMoves` that the sum moves by what one link does. Each
  action then moves a packet from one place to the next, or takes it from a full queue
  to none. A packet that a full queue refused is one more in `cut` and one more dropped: for
  that `CutInv` says that a call gives its message up on a link once, the links behind it
  being tried no more. The links must be finitely many for a sum to be there, which
  `TxPipeline` assumes.

### Streams (`Streams_proofs`)

- `PlaceAlwaysKept` of StreamCodec, if a chunk is no longer than a frame with its length:
  until a push fails, the stream stops where the stream behind the buffer's beginning does
  (`StopInv`); the bound of the buffer holds a beginning of a frame and such a chunk, so that
  only the look at the head can fail, and then the frame there declares too much.
- `FramesAlwaysInOrder` of StreamCodec, from `PlaceInv`: until a push fails there is a
  position of the stream at which the buffer begins, and *whatever bytes are still to
  come*, the frames of the stream are what was handed over and then the frames from that
  position on. The claim about all continuations is what makes it inductive: what the
  reader of the whole stream answers for the bytes so far does not say where it would
  go on. `DecodesExtended` and `RestExtended` show that more bytes behind a complete
  frame do not change it.
- `DecoderAlwaysAgrees` of DeviceFraming, from `AgreeInv`, in the same manner: for each
  state of `FrameDecoder`, where in the input it stands (`Looking`: outside a frame, in
  a marker, behind one or two bytes of length, so far into a body), and that
  `read_frame()` on any continuation returns the ready bodies and goes on from there.
- `NextFrameAlwaysArrives` of KissPort, from `KissInv`: once a frame has begun on the line,
  what the decoder holds is the first n bytes of the packet, and what is still on the
  line is the encoding of the others, perhaps in the middle of an escape
  (`Underway`). Noise may have left the decoder in any state, and `FEND` brings it to the
  beginning of a frame from each of them. An encoded packet is at most twice as long
  and three bytes more, by induction over its bytes. `KissAssumption` says that the
  six bytes the code gives a meaning to are six.
- `HeldWasAlwaysPublished` of StateSync: a delta under way is between two neighbours of
  the history and the receiver holds a state of it; the comparison of the critical
  hashes before and after does the rest.
- `OrderlyAlwaysFollows` of StateSync, without a hypothesis about room, and
  `DeltasApplyWithRoom`, if `Cardinality(Fields) <= MaxFields`. `AppliesWithRoom` is the induction over the
  updates of a delta: after k of them the state is `Halfway`, with the first k fields as
  in the new state and the others as in the old one, and `set()` finds room because the
  fields of both together do. `OrderExists` and `OrderLists` say that a set of fields has
  an ascending order and that it lists each of them once. `OrderlyInv` adds that the
  deltas under way are the last of the history, those behind the one applied last unless
  that one had no room. `DeltasApplyWithRoom` is the exact property that `StateSyncFull`
  refutes when there are more fields than a state may have.
- `AlwaysStaysInMessage` of BleFragments, for foreign headers as for the sender's.
- `FragmentsAlwaysMakePacket` of BleFragments. Sender and receiver compute the size of
  a chunk by two formulas with the division rounded up; `CeilingDivBounds` and
  `CutFits` show that the sender's fragments pass all checks of the receiver, for
  every length and MTU, `ChunksCover` that the chunks leave no byte out, and
  `StretchInv` that what came of a message without interruption is in the reassembly.

### Agents' planes (`Agents_proofs`)

- TaskContext: `ContextTyped`, `LineageProved`, `DiscardedProved` and the
  refinement `ContextIsUndo` (`ContextSpec => UndoStack`). The invariant adds that
  no content hashed so far has the next sequence number (`SequencesUsed`) – hence
  an update always makes a fresh hash (`UpdateIsFresh`) – and that the hashes of
  the live checkpoints grow with age (`LiveGrows`), without which a hash could be
  live and given up at once. That the stack stays within its depth and that what
  was given up stays away are parts of the refinement, which is why no run lists
  them on their own.
- RepresentationRouter: `RouteAlwaysBest`, from the property itself and the
  types: it is inductive over the candidates scored so far.
- BudgetSession: `CeilingAlwaysHolds` and `VerificationAlwaysProtected`, for every
  configuration with floors above ceilings or thresholds out of order, which the
  code accepts, and for signals that are not a number. The iteration count of a
  protected call is at least its floor whatever the score is, and the budget of such
  a call does not depend on the pressure.
- RuleFederation: `ScopesAlwaysKept`. The invariant adds that what is on the
  air was in force somewhere and is not private, for any number of nodes.
  `RulesOnlyClimb` is the ranking behind `RulesSettle`: a step that changes the rules in
  force is an edit, or raises the evidence of one node for one key and lowers none;
  nothing but an edit or an observation can undo that; and edits, observations and
  evidence never exceed their bounds (`ClimbInv`: no holdout counts a post more often
  than its node observed).
- TopologyEvolution: `ConstitutionAlwaysKept` (caps and mandatory edges) and
  `AuditsClean`. Every mutation of a lawful topology is lawful (one lemma a
  mutation), and so are the audited one and every start from memory; lawful says
  that edges join two different agents, authorities are within type and cap, and
  mandatory edges carry.
- MemoryStore: `LineageAlwaysHeld`, and the action property `MemoryOnlyFades`, for any
  records that callers may store and with causal values that are not numbers.
  The invariant speaks of all versions, the stored ones and the one that a replace
  holds between delete and insert, and says that one replace runs at a time, of
  a record that is not stored meanwhile.
- LatentStream: `StreamTyped`, `AllAccounted`, and `RungsAlwaysStand` from
  `RungsEarned` and `RungsSupported`. The parts of the invariant follow the code:
  what the tracker knows (every number before the next one is ingested or
  missing, none at or after it is), what the rung has cost
  (`level * MinFrames + framesAtRung <= unbroken`), and that the average is between
  the thresholds of its rung and 100. The product of the variable level and the
  constant MinFrames is kept out of the solver's way by a lemma a rung.

### What a proof asked of the models

`BudgetAssumption` names what the configuration and the measurements of BudgetSession
are; `FirmwareAssumption` and `BleAssumption` say in addition that `NoPacket` is neither a
packet nor what the BLE task holds of one, and that the sizes are positive; and
`FederationAssumption` that the bounds are numbers. StateSync takes the order of the
updates as an ascending enumeration instead of a library sort whose definition the prover
does not have, and the recursive readers of DeviceFraming and StreamCodec and the
encoder of KissPort got names (`ReadFrom`, `FramesFrom`, `EscapedBytes`) for what they
compute at every position. In BudgetSession the threshold of a
protected call whose score is not a number is the floor (`RoutedThreshold`:
`f32::max` answers the other operand), while the iteration count never is one; before the
proof the two had been one operator, which treated a count of 101 as not a number.

### What stays with TLC

- Liveness (`ArrivedIsHandled`, `GatheredIsReturned`, `SendReturns`, `Drains`) rests on
  fairness and `ENABLED`, which TLAPS does not treat.
- `RulesSettle` follows from `RulesOnlyClimb` when nodes and keys are finitely many, by
  induction over the rank; the induction hypothesis would be a temporal formula, which
  is not a member of any set, so that the form of induction above does not reach it.
- The properties that violations are about are false of the code; of `AppliesToItsBase` it is
  proved when it does hold.

## 7. What the models show against the code

Four runs end in a violation of something the repository states:

- `CAirPartial`: `lm_air_tx_send()` leaves `next_sequence` where it was when
  `emit` fails before the last fragment (c/src/air.c:337). The next message uses
  the number again, and a receiver that has the first fragment of the one and
  the second of the other hands over a blend when nothing is signed.
- `MeshtasticStall`: `StreamingReceiver::push` returns on the first error
  (adapter.rs:169); bodies behind it wait for the next call, though its comment says that
  what becomes complete is queued.
- `StateSyncFull`: `apply()` sets and deletes in the order of field identifiers
  (semantic.rs:412); on a full state a new field may come before the deletion
  that would make room.
- `FirmwareInterlock`: the KISS task uses the level of the interlock pin that
  was read when it was created (lm_air_kiss_uart.c:91, lm_air_policy.c:160); an
  operator who opens the switch later stops nothing until the next start.

Others were met while modelling and hold for the code by construction, so that
the properties above are stated with them in mind:

- The Rust context table has neither expiry nor eviction (fragment.rs:174):
  `max_contexts` messages that lost a fragment keep new messages out. A context that stays
  is found by stream and sequence number only (fragment.rs:167), so an unsigned message may be
  completed with fragments of the one that had its number 65536 messages before;
  `MixedOnlyAcrossWrap` says that this is the only way to a blend.
- `admit_fidelity` refuses a Raw record whose causal value is less than the floor
  (store.rs:162), and NaN is not: lib.rs:12 reserves the tier to values that clear it.
  `LineageHeld` is stated with what is refused.
- The Meshtastic adapter keeps no replay window (adapter.rs:141): a packet that
  the mesh repeats makes its message come again.
- A delta names its base by hash only (semantic.rs:406): when a state comes back,
  a late delta of its first occurrence applies to the second.
- A frame numbered `u64::MAX - 1` is accepted by the latent stream's tracker
  (sequence.rs:77), and after it no number is: the rejection of `u64::MAX` moves
  the last frame of a stream by one.
- After a publish that timed out, the next message on that link has the number
  of the one cut short (lm_air_pipeline.c:155); `MessagesStayTogether` says that
  it is the only such case. What a receiver makes of it shows in `CAirPartial`.
- A restart of the node begins every stream at number 1 (lm_air_pipeline.c:19),
  which receivers that heard it before refuse until it is past their window.
- When a BLE peer leaves in the middle of a packet and another comes, the rest of
  the packet is notified to the second (lm_air_ble.c:239).
- A KISS escape that is cut off by the end of its frame is dropped without a word,
  and the shortened packet is handed over (lm_air_kiss.c); the CRC of the packet has to
  catch it.
- A BLE fragment whose 16-bit identifier is that of a stale partial message with
  another header is rejected and lost together with the partial one.
- `FrameDecoder::push` empties the buffer when the head declares too much or the
  bound is passed (codec.rs:124), which loses the frame boundary; the same head,
  or a malformed body, seen by `next_frame` stays for ever (codec.rs:150).
- RuVector's `replace` deletes first (ruvector.rs:123): if the insert fails the record
  is gone, though prototypes name it. `LineageHeld` is stated with `lost`, and of what
  `promote_to_prototype` folded: a record that a caller stores may name parents that
  never were there (store.rs:261).
- `promote_to_prototype` sets the reconstruction error to 0 although the members
  carry one, and counts a member named twice as two (store.rs:332);
  `promote_to_rule` takes any record, and again; `compress_to` a rule writes no
  symbolic rule.
- `remember_topology` always stores a record with one use, so a record that was
  reused once wins every later recall (darwin.rs).
- Installing an admitted rule replaces the node's own rule of that key, a private
  one too.
- A safety-critical call may be stopped by its latency budget before the iteration
  floor; `VerificationProtected` speaks of the answer and of the compute ceiling.
- The workspace's reference to its context is not looked at again after a rollback
  (workspace.rs:79).
- In `compat.rs` the number of kept entries is written as 16 bits (line 246) behind a
  guard for 32 (line 224).
- In the C core an evicted replay entry or a reset forgets what was handed over
  (air.c:438); `AtMostOnce` of `CAirLink` is stated while the entry is kept.

## 8. What is not modelled

- Signal processing, forward error correction, CRC, the binary and protobuf codecs,
  neural inference, alignment and training: functions of samples, bytes and
  tensors. The models take a frame as decoded or as dropped. This is also most of
  the source by lines (training programs, model runtime and its probes), and there
  is no protocol or shared state in it to check.
- The causal ablation tests of the gate and the permutation test of federation are
  statistics on floating-point numbers; the models leave their outcome open.
- The compatibility checks and quantising codecs of `latentmesh-reasoning`.
- The bulletin-board bridge and the Cognitum client make one request at a time and
  keep no state between them that the order of calls could spoil.
- QUIC itself: connection, end of stream, flow control.
- Benchmarks and harnesses are measurement programs.
- In the firmware: the start-up code, the demo beacon, the I2S bridge and the receive
  queue between the link tasks and the C core's receiver.
- The soft-symbol stream of `AirReceiver` (receiver.rs:349) with its search for the
  sync word.

## 9. Plan

The order is that of importance; the links came first.

1. *Done*: SerialWindow, ReplayBitmap, Reassembler, AirLink, CAirLink,
   MessageService, DeviceFraming, MeshtasticLink, StateSync, LatentStream,
   TxPipeline, FirmwareNode.
2. *Done*: the agents' planes (TaskContext and BoundedUndo, BudgetSession,
   RepresentationRouter, MemoryStore, TopologyEvolution, RuleFederation) and their
   proofs; the decoders StreamCodec, KissPort and BleFragments.
3. The receive queue of the firmware with its three producers in front of
   CAirLink's receiver; the soft stream of `AirReceiver` in front of AirLink.
4. *Done*: proofs of the safety invariants and the refinements of the links, the
   firmware and the decoders (section 6): every safety invariant and every action
   property that a passing run checks is a theorem.
5. Proofs that are left are of liveness, which would need a prover that takes fairness;
   see the end of section 6. New modules (3.) should keep to recursive functions and to
   folds whose existence lemmas are there.
