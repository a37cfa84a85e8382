---------------------------- MODULE AirLink_proofs ---------------------------
(***************************************************************************)
(* Proofs about AirLink, for every size of the number space, of the window *)
(* and of the tables: a message is returned at most once, no context waits *)
(* for a message that was returned, only messages a number space apart are *)
(* ever put together, no fresh message is refused before the wrap, and the *)
(* link implements the at-most-once service.                               *)
(***************************************************************************)
EXTENDS AirLink, SerialWindow_proofs, FiniteSetTheorems, SequenceTheorems

-----------------------------------------------------------------------------
(* Type correctness *)

TypeInv == TypeOK /\ IsFiniteSet(DOMAIN contexts) /\ IsFiniteSet(DOMAIN replay)

\* A frame the table has room for may put its context into it.
LEMMA WithContextType ==
    ASSUME TypeInv, NEW f \in Frames, NEW c \in Contexts, ~TableFull(f),
           contexts' = WithContext(Key(f), c)
    PROVE  /\ DOMAIN contexts' \subseteq Keys
           /\ IsFiniteSet(DOMAIN contexts')
           /\ Cardinality(DOMAIN contexts') <= MaxContexts
           /\ \A key \in DOMAIN contexts' : contexts'[key] \in Contexts
<1>1. DOMAIN contexts' = DOMAIN contexts \cup {Key(f)}
    BY DEF WithContext
<1>2. Key(f) \in Keys
    BY DEF Key, Keys, Frames
<1>3. MaxContexts \in Nat /\ Cardinality(DOMAIN contexts) \in Nat
    BY LinkAssumption, ReassemblerAssumption, FS_CardinalityType DEF TypeInv
<1> DEFINE table == DOMAIN contexts
<1>4. IsFiniteSet(table) /\ Cardinality(table) <= MaxContexts
    BY DEF TypeInv, TypeOK
<1> HIDE DEF table
<1>5. /\ IsFiniteSet(table \cup {Key(f)})
      /\ Cardinality(table \cup {Key(f)}) =
            IF Key(f) \in table THEN Cardinality(table) ELSE Cardinality(table) + 1
    BY <1>4, FS_AddElement
<1>6. Key(f) \in table \/ Cardinality(table) # MaxContexts
    BY DEF TableFull, InFlight, table
<1>7. Cardinality(table \cup {Key(f)}) <= MaxContexts
    BY <1>3, <1>4, <1>5, <1>6 DEF table
<1>8. DOMAIN contexts' = table \cup {Key(f)}
    BY <1>1 DEF table
<1>9. IsFiniteSet(DOMAIN contexts') /\ Cardinality(DOMAIN contexts') <= MaxContexts
    BY <1>5, <1>7, <1>8
<1> QED
    BY <1>1, <1>2, <1>9 DEF TypeInv, TypeOK, WithContext

\* Taking a context out of the table keeps the table within its bound.
LEMMA WithoutContextType ==
    ASSUME TypeInv, NEW key, contexts' = WithoutContext(key)
    PROVE  /\ DOMAIN contexts' \subseteq Keys
           /\ IsFiniteSet(DOMAIN contexts')
           /\ Cardinality(DOMAIN contexts') <= MaxContexts
           /\ \A k \in DOMAIN contexts' : contexts'[k] \in Contexts
<1>1. DOMAIN contexts' = DOMAIN contexts \ {key}
    BY DEF WithoutContext
<1>2. MaxContexts \in Nat /\ Cardinality(DOMAIN contexts) \in Nat
    BY LinkAssumption, ReassemblerAssumption, FS_CardinalityType DEF TypeInv
<1> DEFINE table == DOMAIN contexts
<1>3. IsFiniteSet(table) /\ Cardinality(table) <= MaxContexts
    BY DEF TypeInv, TypeOK
<1> HIDE DEF table
<1>4. /\ IsFiniteSet(table \ {key})
      /\ Cardinality(table \ {key}) =
            IF key \in table THEN Cardinality(table) - 1 ELSE Cardinality(table)
    BY <1>3, FS_RemoveElement
<1>5. IsFiniteSet(DOMAIN contexts') /\ Cardinality(DOMAIN contexts') <= MaxContexts
    BY <1>1, <1>2, <1>3, <1>4 DEF table
<1> QED
    BY <1>1, <1>5 DEF TypeInv, TypeOK, WithoutContext

\* The context push() finds or opens for a frame is well formed.
LEMMA ContextOfType ==
    ASSUME TypeInv, NEW f \in Frames
    PROVE  ContextOf(f) \in Contexts
<1>1. CASE InFlight(Key(f))
    BY <1>1 DEF ContextOf, InFlight, TypeInv, TypeOK
<1>2. CASE ~InFlight(Key(f))
    <2>1. NoParts \in [{} -> Ids] /\ {} \in SUBSET (1 .. SentFragments)
        BY DEF NoParts
    <2>2. NoParts \in UNION {[P -> Ids] : P \in SUBSET (1 .. SentFragments)}
        BY <2>1
    <2>3. 0 \in 0 .. MaxBytes
        BY LinkAssumption, ReassemblerAssumption
    <2> QED
        BY <1>2, <2>2, <2>3 DEF ContextOf, NewContext, Contexts, Frames
<1> QED
    BY <1>1, <1>2

\* A fragment that fits leaves its context well formed.
LEMMA StoredContextType ==
    ASSUME TypeInv, NEW f \in Frames, ~Oversized(f)
    PROVE  StoredContext(f) \in Contexts
<1>1. ContextOf(f) \in Contexts
    BY ContextOfType
<1>2. PICK P \in SUBSET (1 .. SentFragments) : Parts(f) \in [P -> Ids]
    BY <1>1 DEF Parts, Contexts
<1>3. StoredParts(f) \in [P \cup {f.index} -> Ids]
    BY <1>2 DEF StoredParts, Frames
<1>4. P \cup {f.index} \in SUBSET (1 .. SentFragments)
    BY <1>2 DEF Frames
<1>5. StoredParts(f) \in UNION {[Q -> Ids] : Q \in SUBSET (1 .. SentFragments)}
    BY <1>3, <1>4
<1>6. ContextOf(f).bytes + 1 \in 0 .. MaxBytes
    BY <1>1, LinkAssumption, ReassemblerAssumption DEF Contexts, Oversized
<1> QED
    BY <1>1, <1>5, <1>6 DEF StoredContext, Contexts

\* commit_replay() keeps the table of windows within max_streams.
LEMMA CommittedType ==
    ASSUME TypeInv, NEW f \in Frames, ~StreamsExhausted(f), replay' = Committed(f)
    PROVE  /\ DOMAIN replay' \subseteq Streams
           /\ IsFiniteSet(DOMAIN replay')
           /\ Cardinality(DOMAIN replay') <= MaxStreams
           /\ \A stream \in DOMAIN replay' : replay'[stream] \in Windows
<1> DEFINE known == DOMAIN replay
<1>1. f.stream \in Streams /\ f.sequence \in Serials
    BY DEF Frames
<1>2. DOMAIN replay' = known \cup {f.stream}
    BY DEF Committed
<1>3. MaxStreams \in Nat /\ Cardinality(known) \in Nat /\ Cardinality(known) <= MaxStreams
    BY LinkAssumption, ReassemblerAssumption, FS_CardinalityType DEF TypeInv, TypeOK
<1>4. f.stream \in known \/ Cardinality(known) # MaxStreams
    BY DEF StreamsExhausted
<1>5. WindowOf(f) \in Windows
    BY NewWindowType DEF WindowOf, TypeInv, TypeOK
<1>6. Commit(WindowOf(f), f.sequence) \in Windows
    BY <1>1, <1>5, CommitType
<1>7. \A stream \in DOMAIN replay' : replay'[stream] \in Windows
    BY <1>6 DEF Committed, TypeInv, TypeOK
<1>8. IsFiniteSet(known) /\ known \subseteq Streams
    BY DEF TypeInv, TypeOK
<1> HIDE DEF known
<1>9. /\ IsFiniteSet(known \cup {f.stream})
      /\ Cardinality(known \cup {f.stream}) =
            IF f.stream \in known THEN Cardinality(known) ELSE Cardinality(known) + 1
    BY <1>8, FS_AddElement
<1>10. Cardinality(known \cup {f.stream}) <= MaxStreams
    BY <1>3, <1>4, <1>9
<1> QED
    BY <1>1, <1>2, <1>7, <1>8, <1>9, <1>10

\* The parts of the type invariant that ingest_frame_inner() may change.
RxType ==
    /\ DOMAIN contexts \subseteq Keys
    /\ IsFiniteSet(DOMAIN contexts)
    /\ Cardinality(DOMAIN contexts) <= MaxContexts
    /\ \A key \in DOMAIN contexts : contexts[key] \in Contexts
    /\ DOMAIN replay \subseteq Streams
    /\ IsFiniteSet(DOMAIN replay)
    /\ Cardinality(DOMAIN replay) <= MaxStreams
    /\ \A stream \in DOMAIN replay : replay[stream] \in Windows
    /\ rxState \in {"Listening", "Reassembling", "MessageReady"}
    /\ delivered \subseteq Streams \X Ids /\ repeated \subseteq Streams \X Ids
    /\ mixed \subseteq SUBSET Ids

TxType ==
    /\ nextId \in Ids /\ nextSequence \in Serials
    /\ queue \in Seq(Frames) /\ Len(queue) <= MaxQueued
    /\ aired \in Ids /\ air \subseteq Frames

\* The typing invariant is that of the receiver and that of the sender.
LEMMA TypeSplit == TypeInv <=> RxType /\ TxType
BY DEF TypeInv, TypeOK, RxType, TxType

\* No outcome of ingest_frame_inner() disturbs the typing of the receiver.
LEMMA IngestType ==
    ASSUME TypeInv, NEW f \in Frames, NEW v \in BOOLEAN, Ingest(f, v)
    PROVE  RxType'
<1>1. RxType
    BY TypeSplit
<1>2. CASE RefuseUnverified(f, v)
    BY <1>1, <1>2, WithoutContextType DEF RefuseUnverified, RxType, ghosts
<1>3. CASE \/ RefuseReplay(f, v) \/ RefusePush(f, v) \/ KeepFragment(f, v)
    BY <1>1, <1>3 DEF RefuseReplay, RefusePush, KeepFragment, RxType, ghosts
<1>4. CASE RefuseOversized(f, v)
    BY <1>1, <1>4, ContextOfType, WithContextType
       DEF RefuseOversized, Placed, RxType, ghosts
<1>5. CASE StoreFragment(f, v)
    BY <1>1, <1>5, StoredContextType, WithContextType
       DEF StoreFragment, Stored, Placed, RxType, ghosts
<1>6. CASE RefuseMessage(f, v)
    BY <1>1, <1>6, WithoutContextType DEF RefuseMessage, RxType, ghosts
<1>7. CASE Deliver(f, v)
    <2>1. Message(f) \in Streams \X Ids /\ MixedFrom(f) \subseteq Ids
        <3>1. PICK P \in SUBSET (1 .. SentFragments) : Parts(f) \in [P -> Ids]
            BY ContextOfType DEF Parts, Contexts
        <3>2. StoredParts(f) \in [P \cup {f.index} -> Ids]
            BY <3>1 DEF StoredParts, Frames
        <3> QED
            BY <3>2 DEF Message, Frames, MixedFrom
    <2>2. /\ delivered' \subseteq Streams \X Ids /\ repeated' \subseteq Streams \X Ids
          /\ mixed' \subseteq SUBSET Ids
        BY <1>1, <1>7, <2>1 DEF Deliver, RxType
    <2>3. rxState' = "MessageReady"
        BY <1>7 DEF Deliver
    <2>4. /\ DOMAIN contexts' \subseteq Keys
          /\ IsFiniteSet(DOMAIN contexts')
          /\ Cardinality(DOMAIN contexts') <= MaxContexts
          /\ \A k \in DOMAIN contexts' : contexts'[k] \in Contexts
        BY <1>7, WithoutContextType DEF Deliver
    <2>5. /\ DOMAIN replay' \subseteq Streams
          /\ IsFiniteSet(DOMAIN replay')
          /\ Cardinality(DOMAIN replay') <= MaxStreams
          /\ \A stream \in DOMAIN replay' : replay'[stream] \in Windows
        BY <1>7, CommittedType DEF Deliver
    <2> QED
        BY <2>2, <2>3, <2>4, <2>5 DEF RxType
<1> QED
    BY <1>2, <1>3, <1>4, <1>5, <1>6, <1>7 DEF Ingest

\* fragment_message() returns a sequence of well formed frames.
LEMMA FragmentsType ==
    ASSUME TypeInv, NEW stream \in Streams, NEW meta \in Metas,
           NEW count \in 1 .. SentFragments
    PROVE  /\ Fragments(stream, meta, count) \in Seq(Frames)
           /\ Len(Fragments(stream, meta, count)) = count
           /\ \A k \in 1 .. count :
                 /\ Fragments(stream, meta, count)[k].id = nextId
                 /\ Fragments(stream, meta, count)[k].sequence = nextSequence
<1>1. SentFragments \in Nat
    BY LinkAssumption, ReassemblerAssumption
<1>2. \A k \in 1 .. count : Fragments(stream, meta, count)[k] \in Frames
    BY <1>1 DEF Fragments, Frames, TypeInv, TypeOK
<1>3. count \in Nat
    BY <1>1
<1> QED
    BY <1>2, <1>3 DEF Fragments

\* The typing invariant holds when transmitter and receiver are new.
LEMMA TypeInvInit == Init => TypeInv
<1> SUFFICES ASSUME Init PROVE TypeInv
    OBVIOUS
<1>1. IsFiniteSet({}) /\ Cardinality({}) = 0
    BY FS_EmptySet
<1>2. DOMAIN contexts = {} /\ DOMAIN replay = {}
    BY DEF Init
<1>3. InitialSequence \in Ids /\ InitialSequence \in Serials
    BY LinkAssumption, ReassemblerAssumption DEF Ids, Serials
<1>4. MaxContexts \in Nat /\ MaxStreams \in Nat /\ MaxQueued \in Nat
    BY LinkAssumption, ReassemblerAssumption
<1>5. Len(queue) = 0 /\ queue \in Seq(Frames)
    BY DEF Init
<1>6. RxType
    BY <1>1, <1>2, <1>4 DEF Init, RxType
<1>7. TxType
    BY <1>3, <1>4, <1>5 DEF Init, TxType
<1> QED
    BY <1>6, <1>7, TypeSplit

\* No step of the link disturbs the typing invariant.
LEMMA TypeInvStep == TypeInv /\ [Next]_vars => TypeInv'
<1> SUFFICES ASSUME TypeInv, [Next]_vars PROVE TypeInv'
    OBVIOUS
<1> USE DEF txVars, airVars, rxVars, ghosts
<1>0. TxType /\ RxType
    BY TypeSplit
<1>1. ASSUME NEW stream \in Streams, NEW meta \in Metas,
             NEW count \in 1 .. SentFragments, Enqueue(stream, meta, count)
      PROVE  TxType' /\ RxType'
    <2> DEFINE frames == Fragments(stream, meta, count)
    <2>1. frames \in Seq(Frames) /\ Len(frames) = count
        BY FragmentsType
    <2> HIDE DEF frames
    <2>2. queue' = queue \o frames
        BY <1>1 DEF Enqueue, frames
    <2>3. queue' \in Seq(Frames) /\ Len(queue') <= MaxQueued
        BY <1>0, <1>1, <2>1, <2>2, LinkAssumption, ReassemblerAssumption DEF Enqueue, TxType
    <2>4. nextSequence' \in Serials
        BY <1>0, <1>1, ModulusPositive DEF Enqueue, TxType, WrappingInc, Serials
    <2>5. nextId' \in Ids
        BY <1>0, <1>1, LinkAssumption, ReassemblerAssumption DEF Enqueue, TxType, Ids, Serials
    <2> QED
        BY <1>0, <1>1, <2>3, <2>4, <2>5 DEF Enqueue, TxType, RxType
<1>2. ASSUME queue # <<>>, queue' = Tail(queue)
      PROVE  /\ Head(queue) \in Frames
             /\ queue' \in Seq(Frames) /\ Len(queue') <= MaxQueued
    BY <1>0, <1>2, LinkAssumption, ReassemblerAssumption DEF TxType
<1>3. CASE Transmit
    <2>1. Head(queue) \in Frames /\ queue' \in Seq(Frames) /\ Len(queue') <= MaxQueued
        BY <1>2, <1>3 DEF Transmit
    <2>2. aired' \in Ids /\ air' \subseteq Frames
        BY <1>0, <1>3, <2>1 DEF Transmit, TxType, Frames
    <2> QED
        BY <1>0, <1>3, <2>1, <2>2, TypeSplit DEF Transmit, TxType, RxType, TypeInv, TypeOK
<1>4. CASE TransmitFails
    BY <1>0, <1>2, <1>4 DEF TransmitFails, TxType, RxType, TypeInv, TypeOK
<1>5. ASSUME NEW f \in air, NEW verifier \in EntryPoints, Ingest(f, verifier)
      PROVE  TxType' /\ RxType'
    <2>1. f \in Frames /\ verifier \in BOOLEAN
        BY <1>0, LinkAssumption, ReassemblerAssumption DEF TxType
    <2>2. RxType'
        BY <1>5, <2>1, IngestType
    <2> QED
        BY <1>0, <1>5, <2>2 DEF Ingest, TxType
<1>6. CASE IngestForeign
    BY <1>0, <1>6 DEF IngestForeign, TxType, RxType, TypeInv, TypeOK
<1>7. CASE UNCHANGED vars
    BY <1>0, <1>7 DEF vars, TxType, RxType, TypeInv, TypeOK
<1>8. (TxType' /\ RxType') => TypeInv'
    BY DEF TypeInv, TypeOK, TxType, RxType
<1> QED
    BY <1>1, <1>3, <1>4, <1>5, <1>6, <1>7, <1>8 DEF Next

\* Type correctness of the link, for every value of the constants: the queue,
\* the context table and the table of replay windows stay within their limits.
THEOREM TypeCorrect == Spec => []TypeOK
<1>1. TypeInv => TypeOK
    BY DEF TypeInv
<1> QED
    BY <1>1, TypeInvInit, TypeInvStep, PTL DEF Spec

-----------------------------------------------------------------------------
(* At most once *)

\* Message numbers and wire sequence numbers agree modulo SeqModulus, frames
\* leave the queue in message order and the air holds only recent ones.
Numbering ==
    /\ Cong(nextId, nextSequence)
    /\ aired <= nextId
    /\ \A k \in 1 .. Len(queue) :
          /\ Cong(queue[k].id, queue[k].sequence)
          /\ aired <= queue[k].id /\ queue[k].id <= nextId
    /\ \A j, k \in 1 .. Len(queue) : j <= k => queue[j].id <= queue[k].id
    /\ \A f \in air : /\ Cong(f.id, f.sequence)
                      /\ aired - Lag <= f.id /\ f.id <= aired

Received(stream) == {i \in Ids : <<stream, i>> \in delivered}

\* Every message returned on a stream is covered by the window of the stream.
Covered ==
    \A stream \in Streams :
        IF stream \in DOMAIN replay
        THEN /\ replay[stream].initialized
             /\ \E t \in Int : t < aired + WindowSize
                              /\ Covers(replay[stream], t, Received(stream))
        ELSE Received(stream) = {}

OnceInv == TypeInv /\ Numbering /\ Covered /\ AtMostOnce

\* A new link has returned nothing, and its sequence number is that of its
\* first message.
LEMMA OnceInit == Init => OnceInv
<1> SUFFICES ASSUME Init PROVE OnceInv
    OBVIOUS
<1>1. Cong(InitialSequence, InitialSequence)
    BY TrivialMultiples, LinkAssumption, ReassemblerAssumption DEF Cong, Serials
<1>2. Len(queue) = 0 /\ InitialSequence \in Int
    BY LinkAssumption, ReassemblerAssumption DEF Init, Serials
<1>3. Numbering
    BY <1>1, <1>2 DEF Numbering, Init
<1>4. Covered
    BY DEF Covered, Received, Init
<1> QED
    BY <1>3, <1>4, TypeInvInit DEF OnceInv, AtMostOnce, Init

\* enqueue_message_with_flags() numbers its frames in step with the messages.
LEMMA EnqueueNumbering ==
    ASSUME TypeInv, TypeInv', Numbering, NEW stream \in Streams, NEW meta \in Metas,
           NEW count \in 1 .. SentFragments, Enqueue(stream, meta, count)
    PROVE  Numbering'
<1> DEFINE frames == Fragments(stream, meta, count)
<1>1. /\ frames \in Seq(Frames) /\ Len(frames) = count /\ count \in Nat
      /\ \A k \in 1 .. count : frames[k].id = nextId /\ frames[k].sequence = nextSequence
    BY FragmentsType, LinkAssumption, ReassemblerAssumption
<1> HIDE DEF frames
<1>2. /\ queue \in Seq(Frames) /\ nextId \in Int /\ nextSequence \in Serials
      /\ aired \in Int /\ nextSequence \in Int
    BY LinkAssumption, ReassemblerAssumption DEF TypeInv, TypeOK, Ids, Serials
<1>3. queue' = queue \o frames
    BY DEF Enqueue, frames
<1>4. Len(queue') = Len(queue) + count /\ Len(queue) \in Nat
    BY <1>1, <1>2, <1>3, ConcatProperties, LenProperties
<1>5. \A k \in 1 .. Len(queue') :
         IF k <= Len(queue) THEN queue'[k] = queue[k]
         ELSE k - Len(queue) \in 1 .. count /\ queue'[k] = frames[k - Len(queue)]
    BY <1>1, <1>2, <1>3, <1>4, ConcatProperties
<1>6. nextId' = nextId + 1 /\ aired' = aired /\ air' = air
    BY DEF Enqueue, airVars
<1>7. Cong(nextId', nextSequence')
    BY <1>2, <1>6, IncCong DEF Enqueue, Numbering
<1>8. \A k \in 1 .. Len(queue) : queue[k].id \in Int
    <2>1. \A f \in Frames : f.id \in Int
        BY LinkAssumption, ReassemblerAssumption DEF Frames, Ids, Serials
    <2>2. \A k \in 1 .. Len(queue) : queue[k] \in Frames
        BY <1>2, ElementOfSeq
    <2> QED
        BY <2>1, <2>2
<1>9. ASSUME NEW k \in 1 .. Len(queue')
      PROVE  /\ Cong(queue'[k].id, queue'[k].sequence)
             /\ aired <= queue'[k].id /\ queue'[k].id <= nextId'
             /\ queue'[k].id <= nextId
    <2>1. CASE k <= Len(queue)
        <3>1. k \in 1 .. Len(queue) /\ queue'[k] = queue[k]
            BY <1>4, <1>5, <2>1
        <3> QED
            BY <1>2, <1>6, <1>8, <3>1 DEF Numbering
    <2>2. CASE ~(k <= Len(queue))
        <3>1. queue'[k].id = nextId /\ queue'[k].sequence = nextSequence
            BY <1>1, <1>5, <2>2
        <3> QED
            BY <1>2, <1>6, <3>1 DEF Numbering
    <2> QED
        BY <2>1, <2>2
<1>10. ASSUME NEW j \in 1 .. Len(queue'), NEW k \in 1 .. Len(queue'), j <= k
       PROVE  queue'[j].id <= queue'[k].id
    <2>1. CASE k <= Len(queue)
        <3>1. /\ j \in 1 .. Len(queue) /\ k \in 1 .. Len(queue)
              /\ queue'[j] = queue[j] /\ queue'[k] = queue[k]
            BY <1>4, <1>5, <1>10, <2>1
        <3> QED
            BY <1>10, <3>1 DEF Numbering
    <2>2. CASE ~(k <= Len(queue))
        <3>1. queue'[k].id = nextId
            BY <1>1, <1>5, <2>2
        <3> QED
            BY <1>9, <3>1
    <2> QED
        BY <2>1, <2>2
<1> QED
    BY <1>2, <1>6, <1>7, <1>9, <1>10 DEF Numbering

\* The queue loses its head, whether or not the frame reaches the air.
LEMMA DequeueNumbering ==
    ASSUME TypeInv, Numbering, queue # <<>>, queue' = Tail(queue)
    PROVE  /\ Head(queue) \in Frames /\ Head(queue) = queue[1]
           /\ Len(queue) >= 1
           /\ \A k \in 1 .. Len(queue') :
                 k + 1 \in 1 .. Len(queue) /\ queue'[k] = queue[k + 1]
<1>1. queue \in Seq(Frames)
    BY DEF TypeInv, TypeOK
<1> QED
    BY <1>1, HeadTailProperties, EmptySeq, LenProperties

\* next_transmission() moves the newest message forward and drops from the air
\* what is more than Lag older.
LEMMA TransmitNumbering ==
    ASSUME TypeInv, Numbering, Transmit
    PROVE  Numbering' /\ aired <= aired'
<1> DEFINE head == Head(queue)
<1>1. queue # <<>> /\ queue' = Tail(queue) /\ aired' = head.id
      /\ air' = {f \in air : head.id - f.id <= Lag} \cup {head}
      /\ nextId' = nextId /\ nextSequence' = nextSequence
    BY DEF Transmit
<1>2. /\ head \in Frames /\ head = queue[1] /\ Len(queue) >= 1 /\ Len(queue) \in Nat
      /\ \A k \in 1 .. Len(queue') :
            k + 1 \in 1 .. Len(queue) /\ queue'[k] = queue[k + 1]
    BY <1>1, DequeueNumbering DEF TypeInv, TypeOK
<1>3. /\ nextId \in Int /\ aired \in Int /\ Lag \in Nat
      /\ \A f \in Frames : f.id \in Int
      /\ air \subseteq Frames /\ head.id \in Int
    <2>1. Ids \subseteq Int /\ Lag \in Nat
        BY LinkAssumption, ReassemblerAssumption DEF Ids, Serials
    <2>2. \A f \in Frames : f.id \in Int
        BY <2>1 DEF Frames
    <2>3. head \in Frames
        BY <1>2
    <2> QED
        BY <2>1, <2>2, <2>3 DEF TypeInv, TypeOK
<1>4. /\ Cong(head.id, head.sequence) /\ aired <= head.id /\ head.id <= nextId
      /\ \A k \in 1 .. Len(queue) : head.id <= queue[k].id
    BY <1>2 DEF Numbering
<1> HIDE DEF head
<1>5. ASSUME NEW k \in 1 .. Len(queue')
      PROVE  /\ Cong(queue'[k].id, queue'[k].sequence)
             /\ head.id <= queue'[k].id /\ queue'[k].id <= nextId
    <2>1. k + 1 \in 1 .. Len(queue) /\ queue'[k] = queue[k + 1]
        BY <1>2
    <2> QED
        BY <1>4, <2>1 DEF Numbering
<1>7. ASSUME NEW j \in 1 .. Len(queue'), NEW k \in 1 .. Len(queue'), j <= k
      PROVE  queue'[j].id <= queue'[k].id
    <2>1. /\ j + 1 \in 1 .. Len(queue) /\ queue'[j] = queue[j + 1]
          /\ k + 1 \in 1 .. Len(queue) /\ queue'[k] = queue[k + 1]
        BY <1>2
    <2>2. j + 1 <= k + 1
        BY <1>7, <2>1
    <2> QED
        BY <2>1, <2>2 DEF Numbering
<1>6. \A f \in air' : /\ Cong(f.id, f.sequence)
                     /\ head.id - Lag <= f.id /\ f.id <= head.id
    <2>1. ASSUME NEW f \in air, head.id - f.id <= Lag
          PROVE  Cong(f.id, f.sequence) /\ head.id - Lag <= f.id /\ f.id <= head.id
        <3>1. f.id \in Int /\ f.id <= aired /\ Cong(f.id, f.sequence)
            BY <1>3 DEF Numbering
        <3> QED
            BY <1>3, <1>4, <2>1, <3>1
    <2>2. head.id - Lag <= head.id
        BY <1>3
    <2> QED
        BY <1>1, <1>3, <1>4, <2>1, <2>2
<1> QED
    BY <1>1, <1>3, <1>4, <1>5, <1>6, <1>7 DEF Numbering

\* The heart of the matter: a returned message was not returned before, and
\* the window of its stream covers it afterwards.
LEMMA DeliverCovers ==
    ASSUME OnceInv, NEW f \in air, NEW v \in BOOLEAN, Deliver(f, v), aired' = aired
    PROVE  /\ f.id \notin Received(f.stream)
           /\ Covered'
           /\ AtMostOnce'
<1> DEFINE stream == f.stream
           window == WindowOf(f)
<1>1. /\ stream \in Streams /\ f.id \in Ids /\ f.id \in Int /\ f.sequence \in Serials
      /\ aired \in Int /\ WindowSize \in Nat /\ WindowSize >= 1
      /\ f.id \in Ids
    BY LinkAssumption, ReassemblerAssumption, SerialAssumption DEF OnceInv, TypeInv, TypeOK, Frames, Ids, Serials
<1>2. Cong(f.id, f.sequence) /\ aired - Lag <= f.id /\ f.id <= aired
    BY DEF OnceInv, Numbering
<1>3. \A s \in Streams : Received(s) \subseteq Int
    BY LinkAssumption, ReassemblerAssumption DEF Received, Ids, Serials
<1>4. \A s \in Streams \ {stream} :
          /\ Received(s)' = Received(s)
          /\ s \in DOMAIN replay' <=> s \in DOMAIN replay
          /\ s \in DOMAIN replay => replay'[s] = replay[s]
    BY <1>1 DEF Deliver, Message, Received, Committed
<1>5. /\ Received(stream)' \subseteq Received(stream) \cup {f.id}
      /\ stream \in DOMAIN replay'
      /\ replay'[stream] = Commit(window, f.sequence)
    BY <1>1 DEF Deliver, Message, Received, Committed
<1>6. window \in Windows
    BY NewWindowType DEF WindowOf, OnceInv, TypeInv, TypeOK
<1>7. Commit(window, f.sequence).initialized
    BY <1>1, <1>6, CommitType
<1>8. /\ f.id \notin Received(stream)
      /\ \E u \in Int : /\ u < aired + WindowSize
                       /\ Covers(Commit(window, f.sequence), u, Received(stream) \cup {f.id})
    <2>1. CASE stream \in DOMAIN replay
        <3>1. window = replay[stream] /\ window.initialized
            BY <1>1, <2>1 DEF WindowOf, OnceInv, Covered
        <3>2. PICK t \in Int : t < aired + WindowSize /\ Covers(window, t, Received(stream))
            BY <1>1, <2>1, <3>1 DEF OnceInv, Covered
        <3>3. Classify(window, f.sequence) = "Accept"
            BY <2>1 DEF Deliver, Verdict, WindowOf
        <3>4. Received(stream) \in SUBSET Int
            BY <1>1, <1>3
        <3>5. Lag \in Nat /\ WindowSize + Lag <= HalfRange + 1
            BY LinkAssumption, MediumAssumption
        <3> HIDE DEF window, stream
        <3> QED
            BY <1>1, <1>2, <1>6, <3>1, <3>2, <3>3, <3>4, <3>5, CommitCovers
    <2>2. CASE stream \notin DOMAIN replay
        <3>1. Received(stream) = {} /\ window = NewWindow
            BY <1>1, <2>2 DEF OnceInv, Covered, WindowOf
        <3>2. Covers(Commit(window, f.sequence), f.id, Received(stream) \cup {f.id})
            BY <1>1, <1>2, <3>1, FirstCommitCovers
        <3> QED
            BY <1>1, <1>2, <3>1, <3>2
    <2> QED
        BY <2>1, <2>2
<1>9. Covered'
    <2>1. ASSUME NEW s \in Streams, s # stream
          PROVE  IF s \in DOMAIN replay'
                 THEN /\ replay'[s].initialized
                      /\ \E t \in Int : t < aired' + WindowSize
                                       /\ Covers(replay'[s], t, Received(s)')
                 ELSE Received(s)' = {}
        BY <1>4, <2>1 DEF OnceInv, Covered
    <2>2. \E t \in Int : t < aired' + WindowSize
                       /\ Covers(replay'[stream], t, Received(stream)')
        BY <1>5, <1>8 DEF Covers
    <2> QED
        BY <1>5, <1>7, <2>1, <2>2 DEF Covered
<1>10. AtMostOnce'
    <2>1. Message(f) \notin delivered
        BY <1>1, <1>8 DEF Message, Received
    <2> QED
        BY <2>1 DEF Deliver, OnceInv, AtMostOnce
<1> QED
    BY <1>8, <1>9, <1>10

\* A bound on the windows of all streams stays one when messages go on the air.
LEMMA BoundRelaxes ==
    ASSUME NEW low \in Int, NEW high \in Int, NEW width \in Int, low <= high
    PROVE  \A t \in Int : t < low + width => t < high + width
OBVIOUS

\* Every step numbers the frames in step with the messages, and the newest
\* message on the air gets no older.
LEMMA NumberingStep ==
    ASSUME TypeInv, Numbering, [Next]_vars
    PROVE  /\ TypeInv' /\ Numbering'
           /\ aired <= aired' /\ aired' \in Int
<1> USE DEF txVars, airVars, rxVars, ghosts
<1>0. TypeInv' /\ aired \in Int /\ aired' \in Int
    <2>1. TypeInv'
        BY TypeInvStep
    <2>2. Ids \subseteq Int
        BY LinkAssumption, ReassemblerAssumption DEF Ids, Serials
    <2> QED
        BY <2>1, <2>2 DEF TypeInv, TypeOK
<1>1. ASSUME NEW stream \in Streams, NEW meta \in Metas,
             NEW count \in 1 .. SentFragments, Enqueue(stream, meta, count)
      PROVE  Numbering' /\ aired <= aired'
    <2>1. Numbering'
        BY <1>0, <1>1, EnqueueNumbering
    <2>2. aired' = aired
        BY <1>1 DEF Enqueue
    <2> QED
        BY <1>0, <2>1, <2>2
<1>2. CASE Transmit
    BY <1>0, <1>2, TransmitNumbering
<1>3. CASE TransmitFails
    <2>1. /\ Len(queue) >= 1
          /\ \A k \in 1 .. Len(queue') :
                 k + 1 \in 1 .. Len(queue) /\ queue'[k] = queue[k + 1]
        BY <1>3, DequeueNumbering DEF TransmitFails
    <2>2. \A j, k \in 1 .. Len(queue') : j <= k => j + 1 <= k + 1
        OBVIOUS
    <2>3. Numbering'
        BY <1>3, <2>1, <2>2 DEF TransmitFails, Numbering
    <2>4. aired' = aired
        BY <1>3 DEF TransmitFails
    <2> QED
        BY <1>0, <2>3, <2>4
<1>4. ASSUME NEW f \in air, NEW verifier \in EntryPoints, Ingest(f, verifier)
      PROVE  Numbering' /\ aired <= aired'
    <2>1. Numbering' /\ aired' = aired
        BY <1>4 DEF Ingest, Numbering
    <2> QED
        BY <1>0, <2>1
<1>5. CASE IngestForeign
    <2>1. Numbering' /\ aired' = aired
        BY <1>5 DEF IngestForeign, Numbering
    <2> QED
        BY <1>0, <2>1
<1>6. CASE UNCHANGED vars
    <2>1. Numbering' /\ aired' = aired
        BY <1>6 DEF vars, Numbering
    <2> QED
        BY <1>0, <2>1
<1> QED
    BY <1>0, <1>1, <1>2, <1>3, <1>4, <1>5, <1>6 DEF Next

\* No step of the link returns a message twice: the strengthened invariant is
\* inductive.
LEMMA OnceStep == OnceInv /\ [Next]_vars => OnceInv'
<1> SUFFICES ASSUME OnceInv, [Next]_vars PROVE OnceInv'
    OBVIOUS
<1> USE DEF txVars, airVars, rxVars, ghosts
<1>1. TypeInv' /\ Numbering' /\ aired <= aired' /\ aired' \in Int
    BY NumberingStep DEF OnceInv
<1>2. aired \in Int /\ WindowSize \in Int
    <2>1. Ids \subseteq Int /\ WindowSize \in Int
        BY LinkAssumption, ReassemblerAssumption, SerialAssumption DEF Ids, Serials
    <2> QED
        BY <2>1 DEF OnceInv, TypeInv, TypeOK
\* The windows and what they cover do not change, and the air gets no older.
<1>3. CASE replay' = replay /\ delivered' = delivered /\ repeated' = repeated
    <2>1. \A s : Received(s)' = Received(s)
        BY <1>3 DEF Received
    <2>2. \A t \in Int : t < aired + WindowSize => t < aired' + WindowSize
        BY <1>1, <1>2, BoundRelaxes
    <2> QED
        BY <1>1, <1>3, <2>1, <2>2 DEF OnceInv, Covered, AtMostOnce
<1>4. ASSUME NEW f \in air, NEW verifier \in EntryPoints, Ingest(f, verifier)
      PROVE  OnceInv'
    <2>1. verifier \in BOOLEAN /\ aired' = aired
        BY <1>4, LinkAssumption, ReassemblerAssumption DEF Ingest
    <2>2. CASE Deliver(f, verifier)
        BY <1>1, <2>1, <2>2, DeliverCovers DEF OnceInv
    <2>3. CASE ~Deliver(f, verifier)
        BY <1>3, <1>4, <2>3
           DEF Ingest, RefuseUnverified, RefuseReplay, RefusePush, KeepFragment,
               RefuseOversized, StoreFragment, RefuseMessage
    <2> QED
        BY <2>2, <2>3
<1>5. CASE ~(\E f \in air, verifier \in EntryPoints : Ingest(f, verifier))
    BY <1>3, <1>5 DEF Next, vars, Enqueue, Transmit, TransmitFails, IngestForeign
<1> QED
    BY <1>4, <1>5

\* No message is returned twice, for every size of the number space, window
\* and tables, as long as the medium keeps to MediumAssumption.
THEOREM ReturnedAtMostOnce == Spec => []AtMostOnce
<1>1. OnceInv => AtMostOnce
    BY DEF OnceInv
<1> QED
    BY <1>1, OnceInit, OnceStep, PTL DEF Spec
-----------------------------------------------------------------------------
(* What the in-flight exemption of the replay check leaves in the table *)

\* A window in the table has committed something and holds nothing its width
\* does not cover.
WindowsTight ==
    \A stream \in DOMAIN replay :
        /\ replay[stream].initialized
        /\ \A x \in replay[stream].seen :
              WrappingSub(replay[stream].highest, x) < WindowSize

\* No context waits for the rest of a message that was committed.
TableUncommitted ==
    \A key \in DOMAIN contexts :
        key[1] \in DOMAIN replay => key[2] \notin replay[key[1]].seen

UncommittedInv == TypeInv /\ WindowsTight /\ TableUncommitted

\* A frame that passes the replay check was not committed before.
LEMMA PassedUncommitted ==
    ASSUME UncommittedInv, NEW f \in Frames, PassesReplay(f), f.stream \in DOMAIN replay
    PROVE  f.sequence \notin replay[f.stream].seen
<1>1. CASE Verdict(f) = "Accept"
    <2>1. replay[f.stream] \in Windows /\ f.sequence \in Serials
        BY DEF UncommittedInv, TypeInv, TypeOK, Frames
    <2> QED
        BY <1>1, <2>1, AcceptedUnseen DEF UncommittedInv, WindowsTight, Verdict
<1>2. CASE InFlight(Key(f))
    BY <1>2 DEF UncommittedInv, TableUncommitted, InFlight, Key
<1> QED
    BY <1>1, <1>2 DEF PassesReplay

\* A context is opened or continued only for a message that was not committed.
LEMMA PlacedUncommitted ==
    ASSUME UncommittedInv, NEW f \in Frames, NEW v \in BOOLEAN, NEW c, Placed(f, v),
           contexts' = WithContext(Key(f), c), replay' = replay
    PROVE  WindowsTight' /\ TableUncommitted'
<1>1. DOMAIN contexts' = DOMAIN contexts \cup {Key(f)}
    BY DEF WithContext
<1>2. f.stream \in DOMAIN replay => f.sequence \notin replay[f.stream].seen
    BY PassedUncommitted DEF Placed, Admitted
<1> QED
    BY <1>1, <1>2 DEF UncommittedInv, WindowsTight, TableUncommitted, Key

\* Whatever is delivered, its own context is gone and no other one is for the
\* sequence number that was committed.
LEMMA DeliverUncommitted ==
    ASSUME UncommittedInv, NEW f \in Frames, NEW v \in BOOLEAN, Deliver(f, v)
    PROVE  WindowsTight' /\ TableUncommitted'
<1> DEFINE window == WindowOf(f)
           next   == Commit(window, f.sequence)
<1>1. /\ window \in Windows /\ f.sequence \in Serials
      /\ f.stream \in DOMAIN replay => window = replay[f.stream]
      /\ f.stream \notin DOMAIN replay => window = NewWindow
    BY NewWindowType DEF WindowOf, UncommittedInv, TypeInv, TypeOK, Frames
<1>2. /\ DOMAIN replay' = DOMAIN replay \cup {f.stream}
      /\ replay'[f.stream] = next
      /\ \A s \in DOMAIN replay \ {f.stream} : replay'[s] = replay[s]
    BY DEF Deliver, Committed
<1>3. next \in Windows /\ next.initialized
    BY <1>1, CommitType
<1>4. WrappingSub(next.highest, f.sequence) < WindowSize
    <2>1. CASE next.highest = f.sequence
        BY <1>1, <2>1, SerialAssumption DEF WrappingSub, Serials
    <2>2. CASE next.highest # f.sequence
        <3>1. /\ window.initialized /\ next.highest = window.highest
              /\ ~(WrappingSub(f.sequence, window.highest) \in 1 .. HalfRange - 1)
            BY <1>1, <2>2, CommitTight
        <3>2. Classify(window, f.sequence) = "Accept"
            BY <1>1, <3>1 DEF Deliver, Verdict, NewWindow
        <3>3. WrappingSub(window.highest, f.sequence) \in Int
            BY <1>1, SubCong DEF Windows, Serials
        <3> HIDE DEF window, next
        <3> QED
            BY <3>1, <3>2, <3>3, SerialAssumption DEF Classify
    <2> QED
        BY <2>1, <2>2
<1>5. WindowsTight'
    <2>1. \A x \in next.seen : WrappingSub(next.highest, x) < WindowSize
        BY <1>1, <1>4, CommitTight
    <2> HIDE DEF next
    <2> QED
        BY <1>2, <1>3, <2>1 DEF UncommittedInv, WindowsTight
<1>6. TableUncommitted'
    <2>1. DOMAIN contexts' = DOMAIN contexts \ {Key(f)} /\ DOMAIN contexts \subseteq Keys
        BY DEF Deliver, WithoutContext, UncommittedInv, TypeInv, TypeOK
    <2>2. ASSUME NEW key \in DOMAIN contexts', key[1] \in DOMAIN replay'
          PROVE  key[2] \notin replay'[key[1]].seen
        <3>1. CASE key[1] = f.stream
            <4>1. key[2] # f.sequence
                BY <2>1, <3>1 DEF Keys, Key
            <4>2. key[2] \notin window.seen
                BY <1>1, <2>1, <3>1 DEF UncommittedInv, TableUncommitted, NewWindow
            <4>3. next.seen \subseteq window.seen \cup {f.sequence}
                BY <1>1, CommitTight
            <4> QED
                BY <1>2, <3>1, <4>1, <4>2, <4>3
        <3>2. CASE key[1] # f.stream
            BY <1>2, <2>1, <2>2, <3>2 DEF UncommittedInv, TableUncommitted
        <3> QED
            BY <3>1, <3>2
    <2> QED
        BY <2>2 DEF TableUncommitted
<1> QED
    BY <1>5, <1>6

\* No step of the link leaves a committed message in the table.
LEMMA UncommittedStep == UncommittedInv /\ [Next]_vars => UncommittedInv'
<1> SUFFICES ASSUME UncommittedInv, [Next]_vars PROVE UncommittedInv'
    OBVIOUS
<1> USE DEF txVars, airVars, rxVars, ghosts
<1>1. TypeInv /\ TypeInv'
    BY TypeInvStep DEF UncommittedInv
<1>2. ASSUME DOMAIN contexts' \subseteq DOMAIN contexts, replay' = replay
      PROVE  UncommittedInv'
    BY <1>1, <1>2 DEF UncommittedInv, WindowsTight, TableUncommitted
<1>3. ASSUME NEW f \in air, NEW v \in EntryPoints, Ingest(f, v)
      PROVE  UncommittedInv'
    <2>1. f \in Frames /\ v \in BOOLEAN
        BY <1>1, LinkAssumption DEF TypeInv, TypeOK
    <2>2. CASE RefuseUnverified(f, v) \/ RefuseMessage(f, v)
        <3>1. DOMAIN contexts' \subseteq DOMAIN contexts /\ replay' = replay
            BY <2>2 DEF RefuseUnverified, RefuseMessage, WithoutContext
        <3> QED
            BY <3>1, <1>2
    <2>3. CASE RefuseReplay(f, v) \/ RefusePush(f, v) \/ KeepFragment(f, v)
        <3>1. contexts' = contexts /\ replay' = replay
            BY <2>3 DEF RefuseReplay, RefusePush, KeepFragment
        <3> QED
            BY <3>1, <1>2
    <2>4. CASE RefuseOversized(f, v)
        BY <1>1, <2>1, <2>4, PlacedUncommitted DEF RefuseOversized, UncommittedInv
    <2>5. CASE StoreFragment(f, v)
        BY <1>1, <2>1, <2>5, PlacedUncommitted DEF StoreFragment, Stored, UncommittedInv
    <2>6. CASE Deliver(f, v)
        BY <1>1, <2>1, <2>6, DeliverUncommitted DEF UncommittedInv
    <2> QED
        BY <1>3, <2>2, <2>3, <2>4, <2>5, <2>6 DEF Ingest
<1>4. CASE ~(\E f \in air, v \in EntryPoints : Ingest(f, v))
    <2>1. contexts' = contexts /\ replay' = replay
        BY <1>4 DEF Next, vars, Enqueue, Transmit, TransmitFails, IngestForeign
    <2> QED
        BY <2>1, <1>2
<1> QED
    BY <1>3, <1>4

\* The exemption for messages in flight never lets a frame of a message that
\* was returned back into the table, for any size of window and tables and with
\* no assumption on how long a frame stays on the air.
THEOREM InFlightAlwaysUncommitted == Spec => []InFlightUncommitted
<1>1. Init => UncommittedInv
    BY TypeInvInit DEF Init, UncommittedInv, WindowsTight, TableUncommitted
<1>2. UncommittedInv => InFlightUncommitted
    BY DEF UncommittedInv, TableUncommitted, InFlightUncommitted, Classify
<1> QED
    BY <1>1, <1>2, UncommittedStep, PTL DEF Spec
-----------------------------------------------------------------------------
(* As long as the messages have different sequence numbers *)

\* Every part in the table is numbered like the key of its context.
PartsNumbered ==
    \A key \in DOMAIN contexts : \A k \in DOMAIN contexts[key].parts :
        /\ contexts[key].parts[k] \in Ids
        /\ Cong(contexts[key].parts[k], key[2])

\* Message numbers are integers, at most MaxMessages apart.
LEMMA IdsClose ==
    /\ Ids \subseteq Int
    /\ \A i, j \in Ids : i - j <= MaxMessages
BY LinkAssumption, SerialAssumption DEF Ids, Serials

\* Fewer messages than sequence numbers: the number on the wire tells them apart.
LEMMA IdUnique ==
    ASSUME MaxMessages < SeqModulus, NEW i \in Ids, NEW j \in Ids, NEW s \in Serials,
           Cong(i, s), Cong(j, s)
    PROVE  i = j
<1>1. i \in Int /\ j \in Int /\ s \in Int /\ i - j <= MaxMessages /\ j - i <= MaxMessages
    BY IdsClose DEF Serials
<1>2. i - j \in Multiples
    BY <1>1, CongSymmetric, CongTransitive DEF Cong
<1> QED
    BY <1>1, <1>2, MultiplesSparse, ModulusPositive, LinkAssumption

\* push() stores a frame under the key of its own number.
LEMMA StoredNumbered ==
    ASSUME TypeInv, PartsNumbered, NEW f \in Frames, Cong(f.id, f.sequence)
    PROVE  /\ \A k \in DOMAIN Parts(f) :
                 Parts(f)[k] \in Ids /\ Cong(Parts(f)[k], f.sequence)
           /\ \A k \in DOMAIN StoredParts(f) :
                 StoredParts(f)[k] \in Ids /\ Cong(StoredParts(f)[k], f.sequence)
<1>1. ASSUME NEW k \in DOMAIN Parts(f)
      PROVE  Parts(f)[k] \in Ids /\ Cong(Parts(f)[k], f.sequence)
    <2>1. CASE InFlight(Key(f))
        <3>1. Parts(f) = contexts[Key(f)].parts /\ Key(f) \in DOMAIN contexts
            BY <2>1 DEF Parts, ContextOf, InFlight
        <3> QED
            BY <3>1 DEF PartsNumbered, Key
    <2>2. CASE ~InFlight(Key(f))
        BY <2>2 DEF Parts, ContextOf, NewContext, NoParts
    <2> QED
        BY <2>1, <2>2
<1> QED
    BY <1>1 DEF StoredParts, Frames

\* Before the numbers wrap, a message that is complete is whole.
LEMMA CompleteIsWhole ==
    ASSUME MaxMessages < SeqModulus, TypeInv, PartsNumbered, NEW f \in Frames,
           Cong(f.id, f.sequence)
    PROVE  Whole(f)
<1>1. \A k \in DOMAIN StoredParts(f) :
         StoredParts(f)[k] \in Ids /\ Cong(StoredParts(f)[k], f.sequence)
    BY StoredNumbered
<1>2. f.id \in Ids /\ f.sequence \in Serials
    BY DEF Frames
<1> QED
    BY <1>1, <1>2, IdUnique DEF Whole

\* A context that is put into the table holds parts of its own number only.
LEMMA WithContextNumbered ==
    ASSUME PartsNumbered, NEW f \in Frames, NEW c, contexts' = WithContext(Key(f), c),
           \A k \in DOMAIN c.parts : c.parts[k] \in Ids /\ Cong(c.parts[k], f.sequence)
    PROVE  PartsNumbered'
<1>1. ASSUME NEW key \in DOMAIN contexts', key = Key(f)
      PROVE  /\ contexts'[key] = c
             /\ key[2] = f.sequence
    BY <1>1 DEF WithContext, Key
<1>2. ASSUME NEW key \in DOMAIN contexts', key # Key(f)
      PROVE  key \in DOMAIN contexts /\ contexts'[key] = contexts[key]
    BY <1>2 DEF WithContext
<1> QED
    BY <1>1, <1>2 DEF PartsNumbered

\* ingest_frame_inner() keeps the table numbered.
LEMMA IngestNumbered ==
    ASSUME TypeInv, PartsNumbered, NEW f \in Frames, NEW v \in BOOLEAN, Ingest(f, v),
           Cong(f.id, f.sequence)
    PROVE  PartsNumbered'
<1>1. /\ \A k \in DOMAIN Parts(f) :
             Parts(f)[k] \in Ids /\ Cong(Parts(f)[k], f.sequence)
      /\ \A k \in DOMAIN StoredParts(f) :
             StoredParts(f)[k] \in Ids /\ Cong(StoredParts(f)[k], f.sequence)
    BY StoredNumbered
<1>2. ASSUME contexts' = WithoutContext(Key(f)) PROVE PartsNumbered'
    BY <1>2 DEF WithoutContext, PartsNumbered
<1>3. ASSUME contexts' = contexts PROVE PartsNumbered'
    BY <1>3 DEF PartsNumbered
<1>4. CASE RefuseOversized(f, v)
    BY <1>1, <1>4, WithContextNumbered DEF RefuseOversized, Parts
<1>5. CASE StoreFragment(f, v)
    <2>1. StoredContext(f).parts = StoredParts(f)
        <3>1. ContextOf(f) \in Contexts
            BY ContextOfType
        <3> QED
            BY <3>1 DEF StoredContext, Contexts
    <2> QED
        BY <1>1, <1>5, <2>1, WithContextNumbered DEF StoreFragment
<1> QED
    BY <1>2, <1>3, <1>4, <1>5
       DEF Ingest, RefuseUnverified, RefuseReplay, RefusePush, KeepFragment,
           RefuseMessage, Deliver

\* The table is numbered, whatever wraps.
MixingInv == TypeInv /\ Numbering /\ PartsNumbered /\ MixedOnlyAcrossWrap

\* Two messages with the same number on the wire are a number space apart.
LEMMA SameNumberApart ==
    ASSUME NEW i \in Ids, NEW j \in Ids, NEW s \in Serials, Cong(i, s), Cong(j, s), i < j
    PROVE  j - i >= SeqModulus
<1>1. i \in Int /\ j \in Int /\ s \in Int
    BY IdsClose DEF Serials
<1>2. j - i \in Multiples
    BY <1>1, CongSymmetric, CongTransitive DEF Cong
<1> QED
    BY <1>1, <1>2, MultiplesSparse, ModulusPositive

\* What push() puts together has one number.
LEMMA SourcesApart ==
    ASSUME TypeInv, PartsNumbered, NEW f \in Frames, Cong(f.id, f.sequence)
    PROVE  \A i, j \in MixedFrom(f) : i < j => j - i >= SeqModulus
<1>1. \A i \in MixedFrom(f) : i \in Ids /\ Cong(i, f.sequence)
    BY StoredNumbered DEF MixedFrom
<1>2. f.sequence \in Serials
    BY DEF Frames
<1> QED
    BY <1>1, <1>2, SameNumberApart

\* Every step keeps the parts in the table under their own number, and the
\* sources of what is returned apart.
LEMMA MixingStep == ASSUME MixingInv, [Next]_vars PROVE MixingInv'
<1> USE DEF txVars, airVars, rxVars, ghosts
<1>1. TypeInv' /\ Numbering'
    BY NumberingStep DEF MixingInv
<1>2. ASSUME NEW f \in air, NEW v \in EntryPoints, Ingest(f, v)
      PROVE  PartsNumbered' /\ MixedOnlyAcrossWrap'
    <2>1. f \in Frames /\ v \in BOOLEAN /\ TypeInv /\ Cong(f.id, f.sequence)
        BY LinkAssumption DEF MixingInv, TypeInv, TypeOK, Numbering
    <2>2. PartsNumbered'
        BY <1>2, <2>1, IngestNumbered DEF MixingInv
    <2>3. CASE Deliver(f, v)
        <3>1. mixed' = mixed \/ mixed' = mixed \cup {MixedFrom(f)}
            BY <2>3 DEF Deliver
        <3>2. \A i, j \in MixedFrom(f) : i < j => j - i >= SeqModulus
            BY <2>1, SourcesApart DEF MixingInv
        <3> QED
            BY <2>2, <3>1, <3>2 DEF MixingInv, MixedOnlyAcrossWrap
    <2>4. CASE ~Deliver(f, v)
        <3>1. mixed' = mixed
            BY <1>2, <2>4
               DEF Ingest, RefuseUnverified, RefuseReplay, RefusePush, KeepFragment,
                   RefuseOversized, StoreFragment, RefuseMessage
        <3> QED
            BY <2>2, <3>1 DEF MixingInv, MixedOnlyAcrossWrap
    <2> QED
        BY <2>3, <2>4
<1>3. ASSUME ~(\E f \in air, v \in EntryPoints : Ingest(f, v))
      PROVE  PartsNumbered' /\ MixedOnlyAcrossWrap'
    <2>1. contexts' = contexts /\ mixed' = mixed
        BY <1>3 DEF Next, vars, Enqueue, Transmit, TransmitFails, IngestForeign
    <2> QED
        BY <2>1 DEF MixingInv, PartsNumbered, MixedOnlyAcrossWrap
<1> QED
    BY <1>1, <1>2, <1>3 DEF MixingInv

(* fragment.rs:162: push() finds a context by stream and sequence number, and *)
(* nothing in the table expires.  What it puts together from two messages is  *)
(* from messages at least a whole number space apart: neither a refused       *)
(* enqueue nor lost fragments ever give two closer ones the same context.     *)
THEOREM MixedOnlyEverAcrossWrap == Spec => []MixedOnlyAcrossWrap
<1>1. Init => MixingInv
    BY OnceInit DEF Init, OnceInv, MixingInv, PartsNumbered, MixedOnlyAcrossWrap
<1>2. MixingInv /\ [Next]_vars => MixingInv'
    BY MixingStep
<1>3. MixingInv => MixedOnlyAcrossWrap
    BY DEF MixingInv
<1> QED
    BY <1>1, <1>2, <1>3, PTL DEF Spec

\* Nothing is put together from two messages before the numbers wrap.
NumberedInv == OnceInv /\ PartsNumbered /\ mixed = {}

\* The table is empty and nothing is blended at the start.
LEMMA NumberedInit == Init => NumberedInv
BY OnceInit DEF Init, NumberedInv, PartsNumbered

\* Every step keeps the parts in the table under their own number, and
\* what is returned free of blends.
LEMMA NumberedStep ==
    ASSUME MaxMessages < SeqModulus, NumberedInv, [Next]_vars
    PROVE  NumberedInv'
<1> USE DEF txVars, airVars, rxVars, ghosts
<1>1. OnceInv'
    BY OnceStep DEF NumberedInv
<1>2. ASSUME NEW f \in air, NEW v \in EntryPoints, Ingest(f, v)
      PROVE  PartsNumbered' /\ mixed' = {}
    <2>1. f \in Frames /\ v \in BOOLEAN /\ TypeInv /\ Cong(f.id, f.sequence)
        BY LinkAssumption DEF NumberedInv, OnceInv, TypeInv, TypeOK, Numbering
    <2>2. PartsNumbered'
        BY <1>2, <2>1, IngestNumbered DEF NumberedInv
    <2>3. ASSUME Deliver(f, v) PROVE mixed' = {}
        BY <2>1, <2>3, CompleteIsWhole DEF Deliver, NumberedInv
    <2>4. ASSUME ~Deliver(f, v) PROVE mixed' = {}
        BY <1>2, <2>4
           DEF Ingest, RefuseUnverified, RefuseReplay, RefusePush, KeepFragment,
               RefuseOversized, StoreFragment, RefuseMessage, NumberedInv
    <2> QED
        BY <2>2, <2>3, <2>4
<1>3. ASSUME ~(\E f \in air, v \in EntryPoints : Ingest(f, v))
      PROVE  PartsNumbered' /\ mixed' = {}
    <2>1. contexts' = contexts /\ mixed' = mixed
        BY <1>3 DEF Next, vars, Enqueue, Transmit, TransmitFails, IngestForeign
    <2> QED
        BY <2>1 DEF NumberedInv, PartsNumbered
<1> QED
    BY <1>1, <1>2, <1>3 DEF NumberedInv

\* The window of a stream stands at a message that was on the air, and what it
\* has seen are messages of the stream that were returned.
SeenReturned ==
    \A stream \in DOMAIN replay :
        /\ \E t \in Ids : t <= aired /\ Cong(t, replay[stream].highest)
        /\ \A x \in replay[stream].seen : \E i \in Received(stream) : Cong(i, x)

FreshInv == NumberedInv /\ SeenReturned

\* Only a message that is returned enters a window.
LEMMA DeliverSeen ==
    ASSUME MaxMessages < SeqModulus, FreshInv, NEW f \in air, NEW v \in BOOLEAN,
           Deliver(f, v), aired' = aired
    PROVE  SeenReturned'
<1> DEFINE window == WindowOf(f)
           next   == Commit(window, f.sequence)
<1>1. /\ f \in Frames /\ TypeInv /\ Cong(f.id, f.sequence) /\ f.id <= aired
      /\ f.id \in Ids /\ f.sequence \in Serials /\ f.stream \in Streams
    BY DEF FreshInv, NumberedInv, OnceInv, TypeInv, TypeOK, Numbering, Frames
<1>2. Whole(f)
    BY <1>1, CompleteIsWhole DEF FreshInv, NumberedInv
<1>3. /\ delivered' = delivered \cup {<<f.stream, f.id>>}
      /\ DOMAIN replay' = DOMAIN replay \cup {f.stream}
      /\ replay'[f.stream] = next
      /\ \A s \in DOMAIN replay \ {f.stream} : replay'[s] = replay[s]
    BY <1>2 DEF Deliver, Committed, Message
<1>4. /\ f.id \in Received(f.stream)'
      /\ \A s : Received(s) \subseteq Received(s)'
    BY <1>1, <1>3 DEF Received
<1>5. /\ window \in Windows
      /\ f.stream \in DOMAIN replay => window = replay[f.stream]
      /\ f.stream \notin DOMAIN replay => window = NewWindow
    BY <1>1, NewWindowType DEF WindowOf, TypeInv, TypeOK
<1>6. \E t \in Ids : t <= aired /\ Cong(t, next.highest)
    <2>1. CASE next.highest = f.sequence
        BY <1>1, <2>1
    <2>2. CASE next.highest # f.sequence
        <3>1. next.highest = window.highest /\ window.initialized
            BY <1>1, <1>5, <2>2, CommitTight
        <3>2. f.stream \in DOMAIN replay
            BY <1>5, <3>1 DEF NewWindow
        <3> HIDE DEF next, window
        <3> QED
            BY <1>5, <3>1, <3>2 DEF FreshInv, SeenReturned
    <2> QED
        BY <2>1, <2>2
<1>7. \A x \in next.seen : \E i \in Received(f.stream)' : Cong(i, x)
    <2>1. next.seen \subseteq window.seen \cup {f.sequence}
        BY <1>1, <1>5, CommitTight
    <2>2. \A x \in window.seen : \E i \in Received(f.stream) : Cong(i, x)
        BY <1>5 DEF FreshInv, SeenReturned, NewWindow
    <2> HIDE DEF next, window
    <2> QED
        BY <1>1, <1>4, <2>1, <2>2
<1> HIDE DEF next, window
<1>8. ASSUME NEW s \in DOMAIN replay', s # f.stream
      PROVE  /\ \E t \in Ids : t <= aired' /\ Cong(t, replay'[s].highest)
             /\ \A x \in replay'[s].seen : \E i \in Received(s)' : Cong(i, x)
    <2>1. s \in DOMAIN replay /\ replay'[s] = replay[s]
        BY <1>3, <1>8
    <2> QED
        BY <1>4, <2>1 DEF FreshInv, SeenReturned
<1> QED
    BY <1>3, <1>6, <1>7, <1>8 DEF SeenReturned

\* Every step keeps the windows made of what was returned.
LEMMA FreshStep ==
    ASSUME MaxMessages < SeqModulus, FreshInv, [Next]_vars
    PROVE  FreshInv'
<1> USE DEF txVars, airVars, rxVars, ghosts
<1>1. NumberedInv' /\ NumberedInv
    BY NumberedStep DEF FreshInv
<1>2. /\ Ids \subseteq Int /\ aired \in Ids /\ aired' \in Ids
      /\ TypeInv /\ Numbering
    BY <1>1, IdsClose DEF NumberedInv, OnceInv, TypeInv, TypeOK
<1>3. ASSUME replay' = replay, delivered' = delivered, aired <= aired'
      PROVE  SeenReturned'
    <2>1. \A s : Received(s)' = Received(s)
        BY <1>3 DEF Received
    <2>2. ASSUME NEW t \in Ids, t <= aired PROVE t <= aired'
        BY <1>2, <1>3, <2>2
    <2> QED
        BY <1>3, <2>1, <2>2 DEF FreshInv, SeenReturned
<1>4. ASSUME NEW f \in air, NEW v \in EntryPoints, Ingest(f, v)
      PROVE  SeenReturned'
    <2>1. v \in BOOLEAN /\ aired' = aired /\ aired <= aired'
        BY <1>2, <1>4, LinkAssumption DEF Ingest
    <2>2. CASE Deliver(f, v)
        BY <2>1, <2>2, DeliverSeen
    <2>3. CASE ~Deliver(f, v)
        <3>1. replay' = replay /\ delivered' = delivered
            BY <1>4, <2>3
               DEF Ingest, RefuseUnverified, RefuseReplay, RefusePush, KeepFragment,
                   RefuseOversized, StoreFragment, RefuseMessage
        <3> QED
            BY <1>3, <2>1, <3>1
    <2> QED
        BY <2>2, <2>3
<1>5. ASSUME Transmit PROVE SeenReturned'
    <2>1. aired <= aired'
        BY <1>2, <1>5, TransmitNumbering
    <2> QED
        BY <1>3, <1>5, <2>1 DEF Transmit
<1>6. ASSUME ~Transmit, ~(\E f \in air, v \in EntryPoints : Ingest(f, v))
      PROVE  SeenReturned'
    <2>1. replay' = replay /\ delivered' = delivered /\ aired' = aired
        BY <1>6 DEF Next, vars, Enqueue, TransmitFails, IngestForeign
    <2> QED
        BY <1>2, <1>3, <2>1
<1> QED
    BY <1>1, <1>4, <1>5, <1>6 DEF FreshInv

\* A frame of a message not returned yet, no further behind the newest one than
\* the window is wide, is accepted.
LEMMA FreshNotRefused ==
    ASSUME MaxMessages < HalfRange, FreshInv
    PROVE  FreshAccepted
<1> SUFFICES ASSUME NEW f \in air, Message(f) \notin delivered, aired - f.id < WindowSize,
                    f.stream \in DOMAIN replay
             PROVE  Verdict(f) = "Accept"
    BY DEF FreshAccepted, Verdict
<1> DEFINE window == replay[f.stream]
<1>1. /\ f \in Frames /\ TypeInv /\ Cong(f.id, f.sequence) /\ f.id \in Ids
      /\ f.sequence \in Serials /\ f.stream \in Streams /\ window \in Windows
      /\ aired \in Ids /\ f.id \in Int /\ aired \in Int
    BY IdsClose DEF FreshInv, NumberedInv, OnceInv, TypeInv, TypeOK, Numbering, Frames
<1>2. PICK t \in Ids : t <= aired /\ Cong(t, window.highest)
    BY DEF FreshInv, SeenReturned
<1>3. /\ window.highest \in Serials /\ t \in Int /\ t - f.id <= MaxMessages
      /\ f.id - t <= MaxMessages /\ SeqModulus \in Nat /\ HalfRange \in Nat
      /\ SeqModulus = HalfRange + HalfRange /\ MaxMessages \in Nat
      /\ WindowSize \in Nat /\ MaxMessages < SeqModulus
    BY <1>1, IdsClose, SerialAssumption, LinkAssumption DEF Windows
<1>4. f.sequence \notin window.seen
    <2>1. SUFFICES ASSUME f.sequence \in window.seen PROVE FALSE
        OBVIOUS
    <2>2. PICK i \in Received(f.stream) : Cong(i, f.sequence)
        BY <2>1 DEF FreshInv, SeenReturned
    <2>3. i = f.id
        BY <1>1, <1>3, <2>2, IdUnique DEF Received
    <2> QED
        BY <2>2, <2>3 DEF Received, Message
<1> HIDE DEF window
<1>5. CASE f.id > t
    <2>1. WrappingSub(f.sequence, window.highest) = f.id - t
        BY <1>1, <1>2, <1>3, <1>5, SubIsDistance
    <2>2. WrappingSub(f.sequence, window.highest) \in 1 .. HalfRange - 1
        BY <1>1, <1>3, <1>5, <2>1
    <2> QED
        BY <2>2 DEF Verdict, Classify, window
<1>6. CASE ~(f.id > t)
    <2>1. WrappingSub(window.highest, f.sequence) = t - f.id
        BY <1>1, <1>2, <1>3, <1>6, SubIsDistance
    <2>2. ~(WrappingSub(window.highest, f.sequence) >= WindowSize)
        BY <1>1, <1>2, <1>3, <2>1
    <2> QED
        BY <1>4, <2>2 DEF Verdict, Classify, window
<1> QED
    BY <1>5, <1>6

\* No false alarm, for every window and table size: while fewer than HalfRange
\* messages were sent, the replay check refuses no message that was not returned
\* and is one of the last WindowSize on the air.
THEOREM FreshAlwaysAccepted ==
    ASSUME MaxMessages < HalfRange
    PROVE  Spec => []FreshAccepted
<1>1. MaxMessages < SeqModulus
    BY SerialAssumption, LinkAssumption
<1>2. Init => FreshInv
    BY NumberedInit DEF Init, FreshInv, SeenReturned
<1>3. FreshInv /\ [Next]_vars => FreshInv'
    BY <1>1, FreshStep
<1>4. FreshInv => FreshAccepted
    BY FreshNotRefused
<1> QED
    BY <1>2, <1>3, <1>4, PTL DEF Spec
-----------------------------------------------------------------------------
(* The link implements the at-most-once service *)

\* Every stream and message that occurs at the sender, on the air or among what
\* was returned.
Sources ==
    {<<queue[k].stream, queue[k].id>> : k \in 1 .. Len(queue)}
    \cup {<<f.stream, f.id>> : f \in air}
    \cup delivered

\* Messages are numbered across the streams: each has one stream and was sent.
OneStream ==
    /\ \A p, q \in Sources : p[2] = q[2] => p[1] = q[1]
    /\ \A p \in Sources : p[2] \in Ids /\ p[2] < nextId

ServiceInv == NumberedInv /\ OneStream

\* Fewer sources and more messages keep the streams apart.
LEMMA FewerSources ==
    ASSUME OneStream, TypeInv, TypeInv', Sources' \subseteq Sources, nextId <= nextId'
    PROVE  OneStream'
<1>1. nextId \in Int /\ nextId' \in Int /\ Ids \subseteq Int
    BY IdsClose DEF TypeInv, TypeOK
<1>2. ASSUME NEW p \in Sources' PROVE p[2] \in Ids /\ p[2] < nextId'
    <2>1. p[2] \in Ids /\ p[2] < nextId
        BY <1>2 DEF OneStream
    <2>2. p[2] \in Int
        BY <1>1, <2>1
    <2> HIDE DEF Sources
    <2> QED
        BY <1>1, <2>1, <2>2
<1> QED
    BY <1>2 DEF OneStream

\* A new message has a number that no source has.
LEMMA EnqueueSources ==
    ASSUME TypeInv, TypeInv', OneStream, NEW stream \in Streams, NEW meta \in Metas,
           NEW count \in 1 .. SentFragments, Enqueue(stream, meta, count)
    PROVE  OneStream'
<1> DEFINE frames == Fragments(stream, meta, count)
           new    == <<stream, nextId>>
<1>1. /\ frames \in Seq(Frames) /\ Len(frames) = count
      /\ \A k \in 1 .. count : frames[k].id = nextId /\ frames[k].stream = stream
    BY FragmentsType DEF Fragments
<1>2. /\ nextId \in Ids /\ nextId \in Int /\ nextId' = nextId + 1
      /\ air' = air /\ delivered' = delivered
      /\ queue \in Seq(Frames) /\ queue' = queue \o frames
    BY IdsClose DEF TypeInv, TypeOK, Enqueue, airVars, ghosts
<1> HIDE DEF frames
<1>3. ASSUME NEW k \in 1 .. Len(queue')
      PROVE  <<queue'[k].stream, queue'[k].id>> \in Sources \cup {new}
    <2>1. CASE k <= Len(queue)
        <3>1. k \in 1 .. Len(queue) /\ queue'[k] = queue[k]
            BY <1>1, <1>2, <2>1, ConcatProperties, LenProperties
        <3> QED
            BY <3>1 DEF Sources
    <2>2. CASE ~(k <= Len(queue))
        <3>1. k - Len(queue) \in 1 .. count /\ queue'[k] = frames[k - Len(queue)]
            BY <1>1, <1>2, <2>2, ConcatProperties, LenProperties
        <3> QED
            BY <1>1, <3>1
    <2> QED
        BY <2>1, <2>2
<1>4. Sources' \subseteq Sources \cup {new}
    BY <1>2, <1>3 DEF Sources
<1>5. \A p \in Sources : p[2] \in Ids /\ p[2] \in Int /\ p[2] < nextId
    BY IdsClose DEF OneStream
<1>6. new[1] = stream /\ new[2] = nextId
    OBVIOUS
<1> HIDE DEF new
<1>7. \A p, q \in Sources \cup {new} : p[2] = q[2] => p[1] = q[1]
    <2>1. \A p \in Sources : p[2] # nextId
        BY <1>2, <1>5
    <2> QED
        BY <1>6, <2>1 DEF OneStream
<1>8. \A p \in Sources \cup {new} : p[2] \in Ids /\ p[2] < nextId'
    BY <1>2, <1>5, <1>6
<1> QED
    BY <1>4, <1>7, <1>8 DEF OneStream

\* Every step keeps what the mapping to the service needs.
LEMMA ServiceStep ==
    ASSUME MaxMessages < SeqModulus, ServiceInv, [Next]_vars
    PROVE  ServiceInv'
<1> USE DEF txVars, airVars, rxVars, ghosts
<1>1. NumberedInv' /\ TypeInv /\ TypeInv' /\ nextId \in Int
    BY NumberedStep, IdsClose DEF ServiceInv, NumberedInv, OnceInv, TypeInv, TypeOK
<1>2. ASSUME Sources' \subseteq Sources, nextId' = nextId PROVE OneStream'
    BY <1>1, <1>2, FewerSources DEF ServiceInv
<1>3. ASSUME NEW stream \in Streams, NEW meta \in Metas,
             NEW count \in 1 .. SentFragments, Enqueue(stream, meta, count)
      PROVE  OneStream'
    BY <1>1, <1>3, EnqueueSources DEF ServiceInv
<1>4. ASSUME Transmit \/ TransmitFails PROVE OneStream'
    <2>1. /\ Head(queue) = queue[1] /\ Len(queue) >= 1 /\ 1 \in 1 .. Len(queue)
          /\ \A k \in 1 .. Len(queue') :
                 k + 1 \in 1 .. Len(queue) /\ queue'[k] = queue[k + 1]
        <3>1. queue # <<>> /\ queue' = Tail(queue) /\ Numbering
            BY <1>4 DEF Transmit, TransmitFails, ServiceInv, NumberedInv, OnceInv
        <3>2. Len(queue) \in Nat
            BY <1>1 DEF TypeInv, TypeOK
        <3> QED
            BY <1>1, <3>1, <3>2, DequeueNumbering
    <2>2. air' \subseteq air \cup {queue[1]} /\ delivered' = delivered /\ nextId' = nextId
        BY <1>4, <2>1 DEF Transmit, TransmitFails
    <2>3. Sources' \subseteq Sources
        BY <2>1, <2>2 DEF Sources
    <2> QED
        BY <1>2, <2>2, <2>3
<1>5. ASSUME NEW f \in air, NEW v \in EntryPoints, Ingest(f, v)
      PROVE  OneStream'
    <2>1. delivered' \subseteq delivered \cup {<<f.stream, f.id>>}
        BY <1>5 DEF Ingest, RefuseUnverified, RefuseReplay, RefusePush, KeepFragment,
                    RefuseOversized, StoreFragment, RefuseMessage, Deliver, Message
    <2>2. queue' = queue /\ air' = air /\ nextId' = nextId
        BY <1>5 DEF Ingest
    <2>3. Sources' \subseteq Sources
        BY <2>1, <2>2 DEF Sources
    <2> QED
        BY <1>2, <2>2, <2>3
<1>6. ASSUME IngestForeign \/ UNCHANGED vars PROVE OneStream'
    <2>1. queue' = queue /\ air' = air /\ nextId' = nextId /\ delivered' = delivered
        BY <1>6 DEF IngestForeign, vars
    <2> QED
        BY <1>2, <2>1 DEF Sources
<1> QED
    BY <1>1, <1>3, <1>4, <1>5, <1>6 DEF Next, ServiceInv

\* Every step of the link is one of the service or leaves it as it was.
LEMMA StepServes ==
    ASSUME MaxMessages < SeqModulus, ServiceInv, [Next]_vars
    PROVE  [Service!Next]_(Service!vars)
<1> USE DEF txVars, airVars, rxVars, ghosts
<1>1. /\ NumberedInv /\ OnceInv /\ TypeInv /\ Numbering /\ OneStream
      /\ repeated = {} /\ mixed = {}
    BY DEF ServiceInv, NumberedInv, OnceInv, AtMostOnce
<1>2. repeated' = {} /\ mixed' = {}
    BY ServiceStep DEF ServiceInv, NumberedInv, OnceInv, AtMostOnce
<1>3. ASSUME nextId' = nextId, delivered' = delivered
      PROVE  UNCHANGED Service!vars
    BY <1>1, <1>2, <1>3 DEF Service!vars
<1>4. ASSUME NEW stream \in Streams, NEW meta \in Metas,
             NEW count \in 1 .. SentFragments, Enqueue(stream, meta, count)
      PROVE  Service!Send
    <2>1. /\ nextId' = nextId + 1 /\ nextId \in Int /\ InitialSequence \in Int
          /\ InitialSequence <= nextId /\ delivered' = delivered
        BY <1>1, <1>4, LinkAssumption DEF Enqueue, TypeInv, TypeOK, Ids, Serials
    <2>2. InitialSequence .. nextId' - 1 = (InitialSequence .. nextId - 1) \cup {nextId}
        BY <2>1
    <2>3. nextId \in (InitialSequence .. nextId' - 1) \ (InitialSequence .. nextId - 1)
        BY <2>1
    <2> QED
        BY <1>1, <1>2, <2>1, <2>2, <2>3 DEF Service!Send
<1>5. ASSUME NEW f \in air, NEW v \in EntryPoints, Deliver(f, v), Ingest(f, v)
      PROVE  Service!Return
    <2>1. /\ f \in Frames /\ v \in BOOLEAN /\ Cong(f.id, f.sequence) /\ nextId' = nextId
          /\ aired' = aired /\ f.id \in Ids /\ f.stream \in Streams
        BY <1>1, <1>5, LinkAssumption DEF Ingest, TypeInv, TypeOK, Numbering, Frames
    <2>2. Whole(f)
        BY <1>1, <2>1, CompleteIsWhole DEF NumberedInv
    <2>3. delivered' = delivered \cup {<<f.stream, f.id>>}
        BY <1>5, <2>2 DEF Deliver, Message
    <2>4. f.id \notin Received(f.stream)
        BY <1>1, <1>5, <2>1, DeliverCovers
    <2>5. f.id \notin {m[2] : m \in delivered}
        <3>1. SUFFICES ASSUME NEW m \in delivered, m[2] = f.id PROVE FALSE
            OBVIOUS
        <3>2. m \in Streams \X Ids
            BY <1>1 DEF TypeInv, TypeOK
        <3>3. m[1] = f.stream
            <4>1. m \in Sources /\ <<f.stream, f.id>> \in Sources
                BY DEF Sources
            <4> QED
                BY <1>1, <3>1, <4>1 DEF OneStream
        <3>4. m = <<f.stream, f.id>>
            BY <3>1, <3>2, <3>3
        <3> QED
            BY <2>1, <2>4, <3>4 DEF Received
    <2>6. f.id \in InitialSequence .. nextId - 1
        <3>1. <<f.stream, f.id>> \in Sources
            BY DEF Sources
        <3>2. f.id < nextId
            BY <1>1, <3>1 DEF OneStream
        <3> QED
            BY <1>1, <2>1, <3>2, LinkAssumption DEF TypeInv, TypeOK, Ids, Serials
    <2>7. {m[2] : m \in delivered'} = {m[2] : m \in delivered} \cup {f.id}
        <3>1. <<f.stream, f.id>>[2] = f.id
            OBVIOUS
        <3> DEFINE new == <<f.stream, f.id>>
        <3> HIDE DEF new
        <3>2. new[2] = f.id /\ delivered' = delivered \cup {new}
            BY <2>3, <3>1 DEF new
        <3> QED
            BY <3>2
    <2> QED
        BY <1>1, <1>2, <2>1, <2>5, <2>6, <2>7 DEF Service!Return
<1>6. ASSUME NEW f \in air, NEW v \in EntryPoints, ~Deliver(f, v), Ingest(f, v)
      PROVE  UNCHANGED Service!vars
    <2>1. nextId' = nextId /\ delivered' = delivered
        BY <1>6 DEF Ingest, RefuseUnverified, RefuseReplay, RefusePush, KeepFragment,
                    RefuseOversized, StoreFragment, RefuseMessage
    <2> QED
        BY <1>3, <2>1
<1>7. ASSUME Transmit \/ TransmitFails \/ IngestForeign \/ UNCHANGED vars
      PROVE  UNCHANGED Service!vars
    <2>1. nextId' = nextId /\ delivered' = delivered
        BY <1>7 DEF Transmit, TransmitFails, IngestForeign, vars
    <2> QED
        BY <1>3, <2>1
<1> QED
    BY <1>4, <1>5, <1>6, <1>7 DEF Next, Service!Next

\* While the sequence numbers tell the messages apart, transmitter, medium and
\* receiver together are a service that returns what was sent, each message at
\* most once, and nothing put together from two messages.
THEOREM LinkServes ==
    ASSUME MaxMessages < SeqModulus
    PROVE  Spec => ServiceSpec
<1>1. Init => ServiceInv
    <2> SUFFICES ASSUME Init PROVE ServiceInv
        OBVIOUS
    <2>1. Sources = {}
        BY DEF Init, Sources
    <2> QED
        BY <2>1, NumberedInit DEF ServiceInv, OneStream
<1>2. Init => Service!Init
    <2> SUFFICES ASSUME Init PROVE Service!Init
        OBVIOUS
    <2>1. InitialSequence .. nextId - 1 = {}
        BY LinkAssumption DEF Init, Serials
    <2> QED
        BY <2>1 DEF Init, Service!Init
<1>3. ServiceInv /\ [Next]_vars => ServiceInv'
    BY ServiceStep
<1>4. ServiceInv /\ [Next]_vars => [Service!Next]_(Service!vars)
    BY StepServes
<1> QED
    BY <1>1, <1>2, <1>3, <1>4, PTL DEF Spec, ServiceSpec, Service!Spec
=============================================================================
