---------------------------- MODULE MeshtasticLink --------------------------
(***************************************************************************)
(* MeshtasticAdapter and StreamingReceiver of latentmesh-meshtastic, over  *)
(* a mesh that loses, duplicates and reorders packets.  The adapter keeps  *)
(* a Reassembler and nothing else: the caller picks the sequence numbers,  *)
(* counting up as AirTransmitter does.  Module DeviceFraming covers the    *)
(* byte stream that carries the bodies; here a body arrives whole.  One    *)
(* call of push() is a run of Pull steps, closed to the application.       *)
(***************************************************************************)
EXTENDS Reassembler, Sequences

CONSTANTS
    SentFragments,  \* MAX_FRAGMENTS of fragment_message()
    InitialSequence,\* the caller's first sequence number
    MaxMessages,    \* bound: messages sent in a behaviour
    MaxArrivals,    \* bound: bodies received in a behaviour
    MaxChunk        \* bound: bodies completed by one call of push()

ASSUME AdapterAssumption ==
    /\ {SentFragments, MaxChunk} \subseteq Nat \ {0}
    /\ InitialSequence \in Serials
    /\ {MaxMessages, MaxArrivals} \subseteq Nat

VARIABLES
    nextId,     \* number of the caller's next message
    mesh,       \* packets the node may still hand over, any number of times
    arrivals,   \* bodies received so far
    bodies,     \* FrameDecoder.ready
    pulling,    \* push() is between two turns of its loop
    ready,      \* StreamingReceiver.ready
    returned,   \* messages returned by next_message()
    mixed       \* metadata of returned messages that nobody sent

rxVars == <<contexts, bodies, pulling, ready>>
ghosts == <<returned, mixed>>
vars   == <<nextId, mesh, arrivals, rxVars, ghosts>>

Ids == InitialSequence .. InitialSequence + MaxMessages

Frames == [id : Ids, stream : Streams, sequence : Serials, index : 1 .. SentFragments,
           count : 1 .. SentFragments, meta : Metas]

\* Bodies that hold no Air frame: administrative traffic and other ports are
\* skipped, encrypted packets and malformed ones are an error.
Skipped  == [kind |-> "Skipped"]
Rejected == [kind |-> "Rejected"]
Packet(f) == [kind |-> "Packet", frame |-> f]

-----------------------------------------------------------------------------
\* encode_message(), and the caller writes every packet it returns.
Send(stream, meta, count) ==
    /\ nextId < InitialSequence + MaxMessages
    /\ mesh' = mesh \cup {[id |-> nextId, stream |-> stream,
                           sequence |-> nextId % SeqModulus,
                           index |-> k, count |-> count, meta |-> meta] : k \in 1 .. count}
    /\ nextId' = nextId + 1
    /\ UNCHANGED <<arrivals, rxVars, ghosts>>

\* push() is called with a chunk of bytes that completes so many bodies.
Push(chunk) ==
    /\ ~pulling
    /\ arrivals + Len(chunk) <= MaxArrivals
    /\ arrivals' = arrivals + Len(chunk)
    /\ bodies' = bodies \o chunk
    /\ pulling' = TRUE
    /\ UNCHANGED <<nextId, mesh, contexts, ready, ghosts>>

\* pull() has nothing more: push() returns Ok.
PushReturns ==
    /\ pulling
    /\ bodies = <<>>
    /\ pulling' = FALSE
    /\ UNCHANGED <<nextId, mesh, arrivals, contexts, bodies, ready, ghosts>>

\* The ? of push(): the error is returned, the other bodies stay where they are.
ErrorReturns == pulling' = FALSE

PullSkipped ==
    /\ Head(bodies) = Skipped
    /\ UNCHANGED <<contexts, pulling, ready>>

PullRejected ==
    /\ Head(bodies) = Rejected
    /\ ErrorReturns
    /\ UNCHANGED <<contexts, ready>>

\* Reassembler::push() refuses the frame; a part that is there already and a
\* table that is full leave no trace.
PullRefused(f) ==
    /\ \/ TooManyFragments(f)
       \/ TableFull(f)
       \/ Mismatch(f)
       \/ Occupied(f) /\ Parts(f)[f.index] # f.id
    /\ ErrorReturns
    /\ UNCHANGED <<contexts, ready>>

Placed(f) == ~TooManyFragments(f) /\ ~TableFull(f) /\ ~Mismatch(f)

PullKept(f) ==
    /\ Placed(f)
    /\ Occupied(f) /\ Parts(f)[f.index] = f.id
    /\ UNCHANGED <<contexts, pulling, ready>>

PullOversized(f) ==
    /\ Placed(f) /\ ~Occupied(f) /\ Oversized(f)
    /\ contexts' = WithContext(Key(f), ContextOf(f))
    /\ ErrorReturns
    /\ UNCHANGED ready

PullStored(f) ==
    /\ Placed(f) /\ ~Occupied(f) /\ ~Oversized(f) /\ ~Complete(f)
    /\ contexts' = WithContext(Key(f), StoredContext(f))
    /\ UNCHANGED <<pulling, ready>>

\* A whole message is queued for the application, whatever was queued before.
PullComplete(f) ==
    /\ Placed(f) /\ ~Occupied(f) /\ ~Oversized(f) /\ Complete(f)
    /\ contexts' = WithoutContext(Key(f))
    /\ ready' = Append(ready, [id |-> f.id, meta |-> f.meta, whole |-> Whole(f)])
    /\ UNCHANGED pulling

PullPacket(f) ==
    \/ PullRefused(f)
    \/ PullKept(f)
    \/ PullOversized(f)
    \/ PullStored(f)
    \/ PullComplete(f)

\* Mutant: an error also throws the rest of the chunk away.
RestUnlessRejected == IF Head(bodies) = Rejected THEN <<>> ELSE Tail(bodies)

\* Mutant: a body that is an error is not taken out.
RestKeptOnError == IF Head(bodies) = Rejected THEN bodies ELSE Tail(bodies)

\* What pull() leaves in the decoder.
Rest == Tail(bodies)

\* One turn of the loop of push(): ingest_from_radio() of the next body.
Pull ==
    /\ pulling
    /\ bodies # <<>>
    /\ bodies' = Rest
    /\ \/ PullSkipped
       \/ PullRejected
       \/ Head(bodies).kind = "Packet" /\ PullPacket(Head(bodies).frame)
    /\ UNCHANGED <<nextId, mesh, arrivals, ghosts>>

\* next_message()
NextMessage ==
    /\ ~pulling
    /\ ready # <<>>
    /\ ready' = Tail(ready)
    /\ LET m == Head(ready)
       IN  /\ returned' = IF m.whole THEN returned \cup {m.id} ELSE returned
           /\ mixed' = IF m.whole THEN mixed ELSE mixed \cup {m.meta}
    /\ UNCHANGED <<nextId, mesh, arrivals, contexts, bodies, pulling>>

-----------------------------------------------------------------------------
Init ==
    /\ nextId = InitialSequence
    /\ mesh = {}
    /\ arrivals = 0
    /\ contexts = [key \in {} |-> 0]
    /\ bodies = <<>>
    /\ pulling = FALSE
    /\ ready = <<>>
    /\ returned = {}
    /\ mixed = {}

Arriving == {Packet(f) : f \in mesh} \cup {Skipped, Rejected}

Chunks == UNION {[1 .. n -> Arriving] : n \in 0 .. MaxChunk}

Next ==
    \/ \E stream \in Streams, meta \in Metas, count \in 1 .. SentFragments :
          Send(stream, meta, count)
    \/ \E chunk \in Chunks : Push(chunk)
    \/ PushReturns
    \/ Pull
    \/ NextMessage

Spec == Init /\ [][Next]_vars

\* A call of push() runs to its end, and the application asks for messages
\* between calls.  Nothing obliges anybody to call push(): it is called when
\* bytes have come.
LiveSpec == Spec /\ WF_vars(PushReturns) /\ WF_vars(Pull) /\ SF_vars(NextMessage)

\* The radio goes on delivering bytes: push() is called again and again, with
\* chunks that complete a body or do not.
BytesKeepComing == []<>pulling

-----------------------------------------------------------------------------
\* Before the sequence numbers wrap, nothing the receiver returns is put
\* together from two messages, however often bodies are left for a later call.
NoMixture == mixed = {}

\* A body that holds the last missing fragment of a message.
Completing(body) ==
    /\ body.kind = "Packet"
    /\ LET f == body.frame
       IN  Placed(f) /\ ~Occupied(f) /\ ~Oversized(f) /\ Complete(f)

\* adapter.rs:164: push() "queues any messages that become complete as a
\* result": when it is over, no body that completes a message is left behind.
CompletedIsQueued == ~pulling => \A n \in DOMAIN bodies : ~Completing(bodies[n])

\* The ? of push() leaves the bodies behind an error to the calls to come: the
\* n-th body that arrives is handled, errors before it or not, as long as bytes
\* keep coming.
ArrivedIsHandled ==
    BytesKeepComing =>
        \A n \in 1 .. MaxArrivals : arrivals >= n ~> arrivals - Len(bodies) >= n

\* A part of the message is in the table, and the others wait in the decoder.
Gathered(id) ==
    \E f \in mesh :
        /\ f.id = id
        /\ f.count <= MaxBytes
        /\ InFlight(Key(f))
        /\ \A k \in 1 .. f.count :
              \/ k \in DOMAIN Parts(f) /\ Parts(f)[k] = id
              \/ \E n \in DOMAIN bodies : bodies[n] = Packet([f EXCEPT !.index = k])

\* A message that found room in the table is returned once its other fragments
\* have arrived, in whatever order and behind whatever errors they came, as long
\* as bytes keep coming.
GatheredIsReturned ==
    BytesKeepComing => \A id \in Ids : Gathered(id) ~> id \in returned
=============================================================================
