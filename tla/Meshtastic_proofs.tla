------------------------- MODULE Meshtastic_proofs --------------------------
(* While a caller's messages have numbers of their own, the adapter puts no  *)
(* message together from two, for any mesh that loses, duplicates and        *)
(* reorders, any chunking of the byte stream and any limits of the table.    *)
EXTENDS MeshtasticLink, SerialWindow_proofs, SequenceTheorems

\* The messages sent so far.
SentIds == InitialSequence .. nextId - 1

Contexts == [meta : Metas, count : 1 .. SentFragments, bytes : Nat,
             parts : UNION {[P -> Int] : P \in SUBSET (1 .. SentFragments)}]

\* Every part in the table is a message's under the number of its context.
PartsNumbered ==
    \A key \in DOMAIN contexts :
        /\ contexts[key] \in Contexts
        /\ \A k \in DOMAIN contexts[key].parts :
              /\ contexts[key].parts[k] \in SentIds
              /\ Cong(contexts[key].parts[k], key[2])

MeshInv ==
    /\ nextId \in InitialSequence .. InitialSequence + MaxMessages
    /\ mesh \subseteq Frames
    /\ \A f \in mesh : f.id \in SentIds /\ Cong(f.id, f.sequence)
    /\ bodies \in Seq(Arriving)
    /\ PartsNumbered
    /\ ready \in Seq([id : Ids, meta : Metas, whole : {TRUE}])
    /\ mixed = {}

\* The constants of the link are numbers.
LEMMA SequenceNumbers ==
    /\ InitialSequence \in Nat /\ MaxMessages \in Nat /\ SeqModulus \in Nat \ {0}
    /\ InitialSequence \in Serials /\ SentFragments \in Nat \ {0}
BY AdapterAssumption, SerialAssumption DEF Serials

\* A number on the wire is congruent to the message's.
LEMMA WireNumber ==
    ASSUME NEW i \in Nat
    PROVE  i % SeqModulus \in Serials /\ Cong(i, i % SeqModulus)
<1>1. SeqModulus \in Nat \ {0}
  BY SequenceNumbers
<1>2. /\ i % SeqModulus \in 0 .. SeqModulus - 1
      /\ i = SeqModulus * (i \div SeqModulus) + (i % SeqModulus) /\ i \div SeqModulus \in Int
  BY <1>1
<1>3. PICK q \in Int, r \in Int : q = i \div SeqModulus /\ r = i % SeqModulus
  BY <1>2
<1>4. i - r = SeqModulus * q
  BY <1>1, <1>2, <1>3
<1>5. i - r \in Multiples
  BY <1>4, <1>3 DEF Multiples
<1> QED BY <1>2, <1>3, <1>5 DEF Serials, Cong

\* No more messages than numbers: the number on the wire tells them apart.
LEMMA NumberTellsApart ==
    ASSUME MaxMessages <= SeqModulus, MeshInv, NEW i \in SentIds, NEW j \in SentIds,
           NEW s \in Serials, Cong(i, s), Cong(j, s)
    PROVE  i = j
<1>1. /\ i \in Int /\ j \in Int /\ s \in Int
      /\ i - j < SeqModulus /\ j - i < SeqModulus
  BY SequenceNumbers DEF MeshInv, SentIds, Serials
<1>2. i - j \in Multiples
  BY <1>1, CongSymmetric, CongTransitive DEF Cong
<1> QED BY <1>1, <1>2, MultiplesSparse, ModulusPositive

\* The context push() finds or opens for a frame holds parts of its number.
LEMMA ContextNumbered ==
    ASSUME MeshInv, NEW f \in mesh
    PROVE  /\ f \in Frames /\ ContextOf(f) \in Contexts
           /\ \A k \in DOMAIN Parts(f) :
                 Parts(f)[k] \in SentIds /\ Cong(Parts(f)[k], f.sequence)
<1>1. f \in Frames
  BY DEF MeshInv
<1>2. CASE InFlight(Key(f))
  <2>1. Key(f) \in DOMAIN contexts /\ ContextOf(f) = contexts[Key(f)] /\ Key(f)[2] = f.sequence
    BY <1>2 DEF ContextOf, InFlight, Key
  <2> QED BY <1>1, <2>1 DEF MeshInv, PartsNumbered, Parts
<1>3. CASE ~InFlight(Key(f))
  <2>1. NoParts \in [{} -> Int] /\ {} \in SUBSET (1 .. SentFragments)
    BY DEF NoParts
  <2>2. NoParts \in UNION {[P -> Int] : P \in SUBSET (1 .. SentFragments)}
    BY <2>1
  <2>3. ContextOf(f) = NewContext(f) /\ NewContext(f).parts = NoParts
    BY <1>3 DEF ContextOf, NewContext
  <2>4. NewContext(f) \in Contexts
    BY <1>1, <2>2 DEF NewContext, Contexts, Frames
  <2> QED BY <1>1, <2>1, <2>3, <2>4 DEF Parts
<1> QED BY <1>2, <1>3

\* A fragment that is stored leaves them so, and one that completes a message
\* completes it with parts of its own.
LEMMA StoredNumbered ==
    ASSUME MeshInv, NEW f \in mesh
    PROVE  /\ StoredContext(f) \in Contexts
           /\ StoredContext(f).parts = StoredParts(f)
           /\ \A k \in DOMAIN StoredParts(f) :
                 StoredParts(f)[k] \in SentIds /\ Cong(StoredParts(f)[k], f.sequence)
<1>1. /\ f \in Frames /\ ContextOf(f) \in Contexts
      /\ f.id \in SentIds /\ Cong(f.id, f.sequence)
      /\ \A k \in DOMAIN Parts(f) :
            Parts(f)[k] \in SentIds /\ Cong(Parts(f)[k], f.sequence)
  BY ContextNumbered DEF MeshInv
<1>2. PICK P \in SUBSET (1 .. SentFragments) : Parts(f) \in [P -> Int]
  BY <1>1 DEF Parts, Contexts
<1>3. f.id \in Int /\ f.index \in 1 .. SentFragments
  BY <1>1, SequenceNumbers DEF Frames, Ids
<1>4. StoredParts(f) \in [P \cup {f.index} -> Int]
  BY <1>2, <1>3 DEF StoredParts
<1>5. StoredParts(f) \in UNION {[Q -> Int] : Q \in SUBSET (1 .. SentFragments)}
  BY <1>2, <1>3, <1>4
<1>6. ContextOf(f).bytes + 1 \in Nat
  BY <1>1 DEF Contexts
<1>7. StoredContext(f) = [ContextOf(f) EXCEPT !.bytes = ContextOf(f).bytes + 1,
                                              !.parts = StoredParts(f)]
  BY DEF StoredContext
<1>8. StoredContext(f) \in Contexts /\ StoredContext(f).parts = StoredParts(f)
  BY <1>1, <1>5, <1>6, <1>7 DEF Contexts
<1>9. \A k \in DOMAIN StoredParts(f) :
         StoredParts(f)[k] \in SentIds /\ Cong(StoredParts(f)[k], f.sequence)
  BY <1>1 DEF StoredParts
<1> QED BY <1>8, <1>9

\* A context put into the table with parts of its number keeps the table so.
LEMMA WithContextNumbered ==
    ASSUME MeshInv, NEW f, NEW c \in Contexts,
           \A k \in DOMAIN c.parts : c.parts[k] \in SentIds /\ Cong(c.parts[k], f.sequence),
           contexts' = WithContext(Key(f), c), nextId' = nextId
    PROVE  PartsNumbered'
<1> SUFFICES ASSUME NEW key \in DOMAIN contexts'
             PROVE  /\ contexts'[key] \in Contexts
                    /\ \A k \in DOMAIN contexts'[key].parts :
                          /\ contexts'[key].parts[k] \in SentIds
                          /\ Cong(contexts'[key].parts[k], key[2])
  BY DEF PartsNumbered, SentIds, Contexts
<1>1. CASE key = Key(f)
  BY <1>1 DEF WithContext, Key
<1>2. CASE key # Key(f)
  BY <1>2 DEF WithContext, MeshInv, PartsNumbered
<1> QED BY <1>1, <1>2

\* The loop of push() takes bodies of the mesh.
LEMMA BodiesArrive ==
    ASSUME bodies \in Seq(Arriving), bodies # <<>>
    PROVE  /\ Rest \in Seq(Arriving)
           /\ Head(bodies).kind = "Packet" => Head(bodies).frame \in mesh
<1>1. Head(bodies) \in Arriving /\ Tail(bodies) \in Seq(Arriving)
  BY HeadTailProperties
<1>2. Head(bodies).kind = "Packet" => Head(bodies).frame \in mesh
  BY <1>1 DEF Arriving, Packet, Skipped, Rejected
<1> QED BY <1>1, <1>2 DEF Rest

\* One turn of the loop of push().
LEMMA PullKeeps ==
    ASSUME MaxMessages <= SeqModulus, MeshInv, Pull
    PROVE  MeshInv'
<1>1. /\ UNCHANGED <<nextId, mesh, arrivals, returned, mixed>> /\ bodies' = Rest
      /\ bodies # <<>> /\ Arriving' = Arriving /\ SentIds' = SentIds
  BY DEF Pull, ghosts, Arriving, SentIds
<1>2. bodies' \in Seq(Arriving)'
  BY <1>1, BodiesArrive DEF MeshInv
<1>3. ASSUME UNCHANGED <<contexts, ready>> PROVE MeshInv'
  BY <1>1, <1>2, <1>3 DEF MeshInv, PartsNumbered
<1>4. ASSUME NEW f \in mesh, PullPacket(f) PROVE MeshInv'
  <2>1. /\ f \in Frames /\ ContextOf(f) \in Contexts
        /\ \A k \in DOMAIN Parts(f) :
              Parts(f)[k] \in SentIds /\ Cong(Parts(f)[k], f.sequence)
        /\ f.id \in SentIds /\ Cong(f.id, f.sequence)
    BY ContextNumbered DEF MeshInv
  <2>2. /\ StoredContext(f) \in Contexts /\ StoredContext(f).parts = StoredParts(f)
        /\ \A k \in DOMAIN StoredParts(f) :
              StoredParts(f)[k] \in SentIds /\ Cong(StoredParts(f)[k], f.sequence)
    BY StoredNumbered
  <2>3. CASE PullRefused(f) \/ PullKept(f)
    BY <1>3, <2>3 DEF PullRefused, PullKept
  <2>4. CASE PullOversized(f)
    <3>1. PartsNumbered'
      BY <1>1, <2>1, <2>4, WithContextNumbered DEF PullOversized, Parts
    <3> QED BY <1>1, <1>2, <2>4, <3>1 DEF MeshInv, PullOversized
  <2>5. CASE PullStored(f)
    <3>1. PartsNumbered'
      BY <1>1, <2>2, <2>5, WithContextNumbered DEF PullStored
    <3> QED BY <1>1, <1>2, <2>5, <3>1 DEF MeshInv, PullStored
  <2>6. CASE PullComplete(f)
    <3>1. Whole(f)
      <4> SUFFICES ASSUME NEW k \in DOMAIN StoredParts(f) PROVE StoredParts(f)[k] = f.id
        BY DEF Whole
      <4>1. f.sequence \in Serials
        BY <2>1 DEF Frames
      <4> QED BY <2>1, <2>2, <4>1, NumberTellsApart
    <3>2. PartsNumbered'
      BY <1>1, <2>6 DEF PullComplete, WithoutContext, MeshInv, PartsNumbered
    <3>3. [id |-> f.id, meta |-> f.meta, whole |-> Whole(f)]
             \in [id : Ids, meta : Metas, whole : {TRUE}]
      BY <2>1, <3>1 DEF Frames
    <3>4. ready' \in Seq([id : Ids, meta : Metas, whole : {TRUE}])
      BY <2>6, <3>3, AppendProperties DEF PullComplete, MeshInv
    <3> QED BY <1>1, <1>2, <3>2, <3>4 DEF MeshInv
  <2> QED BY <1>4, <2>3, <2>4, <2>5, <2>6 DEF PullPacket
<1>5. CASE PullSkipped \/ PullRejected
  BY <1>3, <1>5 DEF PullSkipped, PullRejected
<1>6. CASE Head(bodies).kind = "Packet" /\ PullPacket(Head(bodies).frame)
  BY <1>1, <1>4, <1>6, BodiesArrive DEF MeshInv
<1> QED BY <1>5, <1>6 DEF Pull

\* A message gets the next number, and a body that is on the mesh stays so.
LEMMA SendKeeps ==
    ASSUME MeshInv, NEW stream \in Streams, NEW meta \in Metas, NEW count \in 1 .. SentFragments,
           Send(stream, meta, count)
    PROVE  MeshInv'
<1>1. /\ nextId < InitialSequence + MaxMessages /\ nextId' = nextId + 1
      /\ UNCHANGED <<contexts, bodies, ready, mixed>>
      /\ nextId \in Nat /\ nextId >= InitialSequence
  BY SequenceNumbers DEF Send, rxVars, ghosts, MeshInv
<1>2. nextId % SeqModulus \in Serials /\ Cong(nextId, nextId % SeqModulus)
  BY <1>1, WireNumber
<1>3. /\ nextId' \in InitialSequence .. InitialSequence + MaxMessages
      /\ SentIds \subseteq SentIds' /\ nextId \in SentIds' /\ nextId \in Ids
  BY <1>1, SequenceNumbers DEF SentIds, Ids, MeshInv
<1>4. PICK new \in Serials : new = nextId % SeqModulus
  BY <1>2
<1>5. ASSUME NEW f \in mesh' \ mesh
      PROVE  f \in Frames /\ f.id = nextId /\ f.sequence = new
  <2>1. PICK k \in 1 .. count : f = [id |-> nextId, stream |-> stream, sequence |-> new,
                                     index |-> k, count |-> count, meta |-> meta]
    BY <1>4, <1>5 DEF Send
  <2>2. k \in 1 .. SentFragments
    BY SequenceNumbers
  <2> QED BY <1>3, <2>1, <2>2 DEF Frames
<1>6. mesh \subseteq mesh' /\ mesh' \subseteq Frames
  BY <1>5 DEF Send, MeshInv
<1>7. \A f \in mesh' : f.id \in SentIds' /\ Cong(f.id, f.sequence)
  BY <1>2, <1>3, <1>4, <1>5 DEF MeshInv
<1>8. bodies' \in Seq(Arriving)'
  <2>1. Arriving \subseteq Arriving'
    BY <1>6 DEF Arriving, Packet, Skipped, Rejected
  <2> QED BY <1>1, <2>1 DEF MeshInv
<1>9. PartsNumbered'
  BY <1>1, <1>3 DEF MeshInv, PartsNumbered, Contexts
<1> QED BY <1>1, <1>3, <1>6, <1>7, <1>8, <1>9 DEF MeshInv

\* What push() appends to the bodies are bodies that arrive.
LEMMA ChunksArrive ==
    ASSUME NEW chunk \in Chunks
    PROVE  chunk \in Seq(Arriving)
<1>1. PICK n \in 0 .. MaxChunk : chunk \in [1 .. n -> Arriving]
  BY DEF Chunks
<1> QED BY <1>1

\* Every step keeps the table numbered.
LEMMA MeshStep ==
    ASSUME MaxMessages <= SeqModulus
    PROVE  MeshInv /\ [Next]_vars => MeshInv'
<1> SUFFICES ASSUME MeshInv, [Next]_vars PROVE MeshInv'
  OBVIOUS
<1>1. ASSUME NEW stream \in Streams, NEW meta \in Metas, NEW count \in 1 .. SentFragments,
             Send(stream, meta, count)
      PROVE  MeshInv'
  BY <1>1, SendKeeps
<1>2. CASE Pull
  BY <1>2, PullKeeps
<1>3. ASSUME UNCHANGED <<nextId, mesh, contexts>>, mixed' = {},
             bodies' \in Seq(Arriving),
             ready' \in Seq([id : Ids, meta : Metas, whole : {TRUE}])
      PROVE  MeshInv'
  <2>1. Arriving' = Arriving /\ SentIds' = SentIds /\ PartsNumbered' = PartsNumbered
    BY <1>3 DEF Arriving, SentIds, PartsNumbered
  <2> QED BY <1>3, <2>1 DEF MeshInv
<1>4. ASSUME NEW chunk \in Chunks, Push(chunk) PROVE MeshInv'
  <2>1. bodies' \in Seq(Arriving)
    BY <1>4, ChunksArrive, ConcatProperties DEF Push, MeshInv
  <2> QED BY <1>3, <1>4, <2>1 DEF Push, MeshInv, ghosts
<1>5. CASE PushReturns \/ UNCHANGED vars
  BY <1>3, <1>5 DEF PushReturns, MeshInv, vars, rxVars, ghosts
<1>6. CASE NextMessage
  <2>1. /\ Head(ready).whole = TRUE
        /\ Tail(ready) \in Seq([id : Ids, meta : Metas, whole : {TRUE}])
    <3>1. PICK messages : messages = [id : Ids, meta : Metas, whole : {TRUE}]
      OBVIOUS
    <3>2. ready \in Seq(messages) /\ ready # <<>>
      BY <1>6, <3>1 DEF NextMessage, MeshInv
    <3>3. Head(ready) \in messages /\ Tail(ready) \in Seq(messages)
      BY <3>2, HeadTailProperties
    <3> QED BY <3>1, <3>3
  <2>2. mixed' = {} /\ ready' = Tail(ready) /\ UNCHANGED <<nextId, mesh, contexts, bodies>>
    BY <1>6, <2>1 DEF NextMessage, MeshInv
  <2> QED BY <1>3, <2>1, <2>2 DEF MeshInv
<1> QED BY <1>1, <1>2, <1>4, <1>5, <1>6 DEF Next

\* MeshtasticAdapter and StreamingReceiver: before the sequence numbers wrap,
\* nothing they return is put together from two messages.
THEOREM MessagesNeverMixed ==
    ASSUME MaxMessages <= SeqModulus
    PROVE  Spec => []NoMixture
<1>1. Init => MeshInv
  <2> SUFFICES ASSUME Init PROVE MeshInv
    OBVIOUS
  <2>1. nextId = InitialSequence /\ mesh = {} /\ bodies = <<>> /\ ready = <<>> /\ mixed = {}
        /\ DOMAIN contexts = {}
    BY DEF Init
  <2>2. nextId \in InitialSequence .. InitialSequence + MaxMessages
    BY <2>1, SequenceNumbers
  <2> QED BY <2>1, <2>2, EmptySeq DEF MeshInv, PartsNumbered
<1>2. MeshInv /\ [Next]_vars => MeshInv'
  BY MeshStep
<1>3. MeshInv => NoMixture
  BY DEF MeshInv, NoMixture
<1> QED BY <1>1, <1>2, <1>3, PTL DEF Spec
=============================================================================
