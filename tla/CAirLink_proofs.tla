---------------------------- MODULE CAirLink_proofs ---------------------------
(***************************************************************************)
(* Proofs about CAirLink, for every number of streams, messages, slots and *)
(* fragments and every size of the tables: slots stay coherent, a message  *)
(* is handed over at most once while frames do not lag behind more than    *)
(* the window allows, and the core implements the at-most-once service as  *)
(* long as emit does not fail.                                             *)
(***************************************************************************)
EXTENDS CAirLink, SerialWindow_proofs, SequenceTheorems

\* Without one element, the others keep their order.
LEMMA RemoveAtProperties ==
    ASSUME NEW S, NEW s \in Seq(S), NEW k \in 1 .. Len(s)
    PROVE  /\ RemoveAt(s, k) \in Seq(S)
           /\ Len(RemoveAt(s, k)) = Len(s) - 1
           /\ \A i \in 1 .. Len(s) - 1 :
                 RemoveAt(s, k)[i] = s[IF i < k THEN i ELSE i + 1]
<1> DEFINE left == SubSeq(s, 1, k - 1)
           right == SubSeq(s, k + 1, Len(s))
<1>0. Len(s) \in Nat /\ k \in Nat
    OBVIOUS
<1>1. left \in Seq(S) /\ Len(left) = k - 1 /\ \A i \in 1 .. k - 1 : left[i] = s[i]
    <2>1. \A i \in 1 .. k - 1 : s[i] \in S
        BY <1>0, ElementOfSeq
    <2> QED
        BY <1>0, <2>1, SubSeqProperties
<1>2. /\ right \in Seq(S) /\ Len(right) = Len(s) - k
      /\ \A i \in 1 .. Len(s) - k : right[i] = s[k + i]
    <2>1. \A i \in k + 1 .. Len(s) : s[i] \in S
        BY <1>0, ElementOfSeq
    <2> QED
        BY <1>0, <2>1, SubSeqProperties
<1> HIDE DEF left, right
<1>3. RemoveAt(s, k) = left \o right
    BY DEF RemoveAt, left, right
<1>4. /\ left \o right \in Seq(S) /\ Len(left \o right) = Len(s) - 1
      /\ \A i \in 1 .. Len(s) - 1 :
            (left \o right)[i] = IF i <= k - 1 THEN left[i] ELSE right[i - (k - 1)]
    <2>1. Len(left) + Len(right) = Len(s) - 1
        BY <1>0, <1>1, <1>2
    <2>2. /\ left \o right \in Seq(S)
          /\ Len(left \o right) = Len(left) + Len(right)
          /\ \A i \in 1 .. Len(left) + Len(right) :
                (left \o right)[i] = IF i <= Len(left) THEN left[i] ELSE right[i - Len(left)]
        BY <1>1, <1>2, ConcatProperties
    <2> QED
        BY <1>1, <2>1, <2>2
<1>5. ASSUME NEW i \in 1 .. Len(s) - 1
      PROVE (left \o right)[i] = s[IF i < k THEN i ELSE i + 1]
    <2>1. CASE i < k
        BY <1>0, <1>1, <1>4, <2>1
    <2>2. CASE ~(i < k)
        <3>1. i - (k - 1) \in 1 .. Len(s) - k /\ k + (i - (k - 1)) = i + 1 /\ ~(i <= k - 1)
            BY <1>0, <2>2
        <3> QED
            BY <1>2, <1>4, <2>2, <3>1
    <2> QED BY <2>1, <2>2
<1> QED
    BY <1>3, <1>4, <1>5

\* r lists the entries of s at the places K, each of them once.
Selects(r, s, K) ==
    \E e \in [DOMAIN r -> K] :
       /\ \A i \in DOMAIN r : r[i] = s[e[i]]
       /\ \A i, j \in DOMAIN r : e[i] = e[j] => i = j
       /\ \A k \in K : \E i \in DOMAIN r : e[i] = k

\* Without one element, what is left selects the other positions.
LEMMA RemoveAtSelects ==
    ASSUME NEW S, NEW s \in Seq(S), NEW k \in DOMAIN s
    PROVE  /\ RemoveAt(s, k) \in Seq(S)
           /\ Len(RemoveAt(s, k)) = Len(s) - 1
           /\ Selects(RemoveAt(s, k), s, DOMAIN s \ {k})
<1> DEFINE r == RemoveAt(s, k)
           e == [i \in DOMAIN r |-> IF i < k THEN i ELSE i + 1]
<1>1. DOMAIN s = 1 .. Len(s) /\ Len(s) \in Nat /\ k \in Nat
    OBVIOUS
<1>2. /\ r \in Seq(S) /\ Len(r) = Len(s) - 1
      /\ \A i \in 1 .. Len(s) - 1 : r[i] = s[IF i < k THEN i ELSE i + 1]
    BY <1>1, RemoveAtProperties
<1> HIDE DEF r
<1>3. DOMAIN r = 1 .. Len(s) - 1
    BY <1>2
<1>4. /\ e \in [DOMAIN r -> DOMAIN s \ {k}]
      /\ \A i \in DOMAIN r : r[i] = s[e[i]]
    BY <1>1, <1>2, <1>3
<1>5. \A i, j \in DOMAIN r : e[i] = e[j] => i = j
    BY <1>1, <1>3
<1>6. ASSUME NEW n \in DOMAIN s \ {k} PROVE \E i \in DOMAIN r : e[i] = n
    <2>1. CASE n < k
        <3>1. n \in DOMAIN r /\ e[n] = n
            BY <1>1, <1>3, <2>1
        <3> QED BY <3>1
    <2>2. CASE ~(n < k)
        <3>1. n - 1 \in DOMAIN r /\ e[n - 1] = n
            BY <1>1, <1>3, <2>2
        <3> QED BY <3>1
    <2> QED BY <2>1, <2>2
<1>7. Selects(r, s, DOMAIN s \ {k})
    BY <1>4, <1>5, <1>6 DEF Selects
<1> QED
    BY <1>2, <1>7 DEF r

\* Without the first element, what is left selects the positions behind it.
LEMMA TailSelects ==
    ASSUME NEW S, NEW s \in Seq(S), s # << >>
    PROVE  /\ Tail(s) \in Seq(S)
           /\ Len(Tail(s)) = Len(s) - 1
           /\ Selects(Tail(s), s, DOMAIN s \ {1})
<1> DEFINE r == Tail(s)
           e == [i \in DOMAIN r |-> i + 1]
<1>1. DOMAIN s = 1 .. Len(s) /\ Len(s) \in Nat
    OBVIOUS
<1>2. /\ r \in Seq(S) /\ Len(r) = Len(s) - 1
      /\ \A i \in 1 .. Len(s) - 1 : r[i] = s[i + 1]
    BY <1>1, HeadTailProperties
<1> HIDE DEF r
<1>3. DOMAIN r = 1 .. Len(s) - 1
    BY <1>2
<1>4. /\ e \in [DOMAIN r -> DOMAIN s \ {1}]
      /\ \A i \in DOMAIN r : r[i] = s[e[i]]
    BY <1>1, <1>2, <1>3
<1>5. \A i, j \in DOMAIN r : e[i] = e[j] => i = j
    BY <1>1, <1>3
<1>6. ASSUME NEW n \in DOMAIN s \ {1} PROVE \E i \in DOMAIN r : e[i] = n
    <2>1. n - 1 \in DOMAIN r /\ e[n - 1] = n
        BY <1>1, <1>3
    <2> QED BY <2>1
<1>7. Selects(r, s, DOMAIN s \ {1})
    BY <1>4, <1>5, <1>6 DEF Selects
<1> QED
    BY <1>2, <1>7 DEF r

\* A table that is left alone selects all its positions.
LEMMA AllSelected ==
    ASSUME NEW S, NEW s \in Seq(S)
    PROVE  Selects(s, s, DOMAIN s)
<1> DEFINE e == [i \in DOMAIN s |-> i]
<1>1. /\ e \in [DOMAIN s -> DOMAIN s]
      /\ \A i \in DOMAIN s : s[i] = s[e[i]]
      /\ \A i, j \in DOMAIN s : e[i] = e[j] => i = j
      /\ \A k \in DOMAIN s : \E i \in DOMAIN s : e[i] = k
    OBVIOUS
<1> QED
    BY <1>1 DEF Selects

\* What Front and Last return of a sequence something was appended to.
LEMMA AppendFront ==
    ASSUME NEW S, NEW s \in Seq(S), NEW x \in S
    PROVE  /\ Append(s, x) \in Seq(S)
           /\ Front(Append(s, x)) = s /\ Last(Append(s, x)) = x
<1>1. /\ Append(s, x) \in Seq(S) /\ Len(Append(s, x)) = Len(s) + 1
      /\ \A i \in 1 .. Len(s) : Append(s, x)[i] = s[i]
      /\ Append(s, x)[Len(s) + 1] = x
    OBVIOUS
<1>2. Last(Append(s, x)) = x
    BY <1>1 DEF Last
<1>3. Front(Append(s, x)) = s
    <2> DEFINE front == SubSeq(Append(s, x), 1, Len(s))
    <2>1. Len(s) \in Nat /\ \A i \in 1 .. Len(s) : Append(s, x)[i] \in S
        BY <1>1, ElementOfSeq
    <2>2. /\ front \in Seq(S)
          /\ Len(front) = IF 1 <= Len(s) THEN Len(s) - 1 + 1 ELSE 0
          /\ \A i \in 1 .. Len(s) - 1 + 1 : front[i] = Append(s, x)[1 + i - 1]
        BY <2>1, SubSeqProperties
    <2> HIDE DEF front
    <2>3. Len(front) = Len(s) /\ \A i \in 1 .. Len(s) : front[i] = s[i]
        BY <1>1, <2>1, <2>2
    <2>4. front = s
        BY <2>2, <2>3, SeqEqual
    <2>5. Front(Append(s, x)) = front
        BY <1>1, <2>1 DEF Front, front
    <2> QED
        BY <2>4, <2>5
<1> QED
    BY <1>1, <1>2, <1>3

-----------------------------------------------------------------------------
ReplayEntries == [stream : Streams, window : Windows]

Transmitters == [phase : Phases, nextSequence : Serials,
                 message : Messages \cup {NoMessage}, fragmentIndex : Nat]

\* What the transmitter is sending is a message of its stream, and it has a
\* fragment left to send.
Sending(stream) ==
    /\ tx[stream].message \in Messages
    /\ tx[stream].message.stream = stream
    /\ tx[stream].fragmentIndex \in 1 .. tx[stream].message.count

TypeInv ==
    /\ tx \in [Streams -> Transmitters]
    /\ \A stream \in Streams : tx[stream].phase = "EMITTING" => Sending(stream)
    /\ begun \in 0 .. MaxMessages
    /\ failures \in Nat /\ resets \in Nat /\ aired \in Nat
    /\ air \subseteq Frames
    /\ slots \in Seq(SlotRecords)
    /\ replay \in Seq(ReplayEntries)
    /\ delivered \subseteq Streams \X Ids
    /\ forgotten \subseteq Streams \X Ids
    /\ repeated \subseteq Streams \X Ids
    /\ mixed \subseteq Metas

\* What the assumptions say of the sizes.
LEMMA SizesPositive ==
    /\ MaxFragments \in Nat /\ MaxFragments >= 1
    /\ Slots \in Nat /\ Slots >= 1
    /\ ReplayStreams \in Nat /\ ReplayStreams >= 1
    /\ Lag \in Nat /\ MaxMessages \in Nat
    /\ InitialSequence \in Serials
BY CoreAssumption

\* The number after a sequence number is one.
LEMMA IncType ==
    ASSUME NEW n \in Serials PROVE WrappingInc(n) \in Serials
BY ModulusPositive DEF WrappingInc, Serials

\* The part of the table a message uses: with a slot of its own it takes that
\* one out, otherwise the oldest one goes when the table is full.
LEMMA SlotsForMessage ==
    ASSUME slots \in Seq(SlotRecords), Len(slots) <= Slots, NEW m \in Messages
    PROVE  /\ Others(m) \in Seq(SlotRecords) /\ Len(Others(m)) < Slots
           /\ Len(Others(m)) <= Len(slots)
           /\ \/ \E k \in SlotIndex(m) :
                    SlotOf(m) = slots[k] /\ Selects(Others(m), slots, DOMAIN slots \ {k})
              \/ /\ SlotIndex(m) = {} /\ SlotOf(m) = NewSlot(m)
                 /\ \E K \in SUBSET DOMAIN slots : Selects(Others(m), slots, K)
<1>0. /\ Len(slots) \in Nat /\ DOMAIN slots = 1 .. Len(slots)
      /\ Slots \in Nat /\ Slots >= 1
    BY SizesPositive
<1>1. CASE SlotIndex(m) # {}
    <2> DEFINE k == CHOOSE k \in SlotIndex(m) : TRUE
               rest == RemoveAt(slots, k)
    <2>1. k \in SlotIndex(m) /\ k \in DOMAIN slots
        BY <1>1 DEF SlotIndex
    <2>2. rest \in Seq(SlotRecords) /\ Len(rest) = Len(slots) - 1
          /\ Selects(rest, slots, DOMAIN slots \ {k})
        BY <2>1, RemoveAtSelects
    <2>3. Touched(m) = Append(rest, slots[k])
        BY <1>1 DEF Touched
    <2>4. slots[k] \in SlotRecords
        BY <1>0, <2>1, ElementOfSeq
    <2>5. Others(m) = rest /\ SlotOf(m) = slots[k]
        <3> HIDE DEF rest, k
        <3> QED
            BY <2>2, <2>3, <2>4, AppendFront DEF Others, SlotOf
    <2>6. \E n \in SlotIndex(m) :
             SlotOf(m) = slots[n] /\ Selects(Others(m), slots, DOMAIN slots \ {n})
        <3> HIDE DEF k
        <3> QED
            BY <2>1, <2>2, <2>5
    <2>7. /\ Others(m) \in Seq(SlotRecords) /\ Len(Others(m)) < Slots
          /\ Len(Others(m)) <= Len(slots)
        <3> HIDE DEF rest, k
        <3> QED
            BY <1>0, <2>2, <2>5
    <2> QED
        BY <2>6, <2>7
<1>2. CASE SlotIndex(m) = {}
    <2> DEFINE rest == IF Len(slots) = Slots THEN Tail(slots) ELSE slots
    <2>1. /\ rest \in Seq(SlotRecords) /\ Len(rest) < Slots /\ Len(rest) <= Len(slots)
          /\ \E K \in SUBSET DOMAIN slots : Selects(rest, slots, K)
        <3>1. CASE Len(slots) = Slots
            <4>1. slots # << >>
                BY <1>0, <3>1, EmptySeq
            <4>2. /\ rest \in Seq(SlotRecords) /\ Len(rest) = Len(slots) - 1
                  /\ Selects(rest, slots, DOMAIN slots \ {1})
                BY <3>1, <4>1, TailSelects
            <4>3. DOMAIN slots \ {1} \in SUBSET DOMAIN slots
                OBVIOUS
            <4> HIDE DEF rest
            <4> QED
                BY <1>0, <3>1, <4>2, <4>3
        <3>2. CASE Len(slots) # Slots
            <4>1. rest = slots /\ Selects(slots, slots, DOMAIN slots)
                BY <3>2, AllSelected
            <4>2. DOMAIN slots \in SUBSET DOMAIN slots
                OBVIOUS
            <4>3. Len(slots) < Slots
                <5> HIDE DEF rest
                <5> DEFINE n == Len(slots)
                <5>1. n \in Nat /\ Slots \in Nat /\ n <= Slots /\ n # Slots
                    BY <1>0, <3>2
                <5> HIDE DEF n
                <5>2. n < Slots
                    BY <5>1
                <5> QED
                    BY <5>2 DEF n
            <4> HIDE DEF rest
            <4>4. \E K \in SUBSET DOMAIN slots : Selects(rest, slots, K)
                BY <4>1, <4>2
            <4> QED
                BY <1>0, <4>1, <4>3, <4>4
        <3> QED BY <3>1, <3>2
    <2>2. NewSlot(m) \in SlotRecords
        <3>1. [k \in {} |-> 0] \in [{} -> Ids]
            OBVIOUS
        <3>2. [k \in {} |-> 0] \in Parts
            BY <3>1 DEF Parts
        <3> QED
            BY <3>2 DEF NewSlot, SlotRecords, Messages
    <2>3. Touched(m) = Append(rest, NewSlot(m))
        BY <1>2 DEF Touched
    <2> HIDE DEF rest
    <2>4. Others(m) = rest /\ SlotOf(m) = NewSlot(m)
        BY <2>1, <2>2, <2>3, AppendFront DEF Others, SlotOf
    <2> QED
        BY <1>2, <2>1, <2>4
<1> QED
    BY <1>1, <1>2

DistinctSlots(table) ==
    \A j, k \in DOMAIN table :
       table[j].stream = table[k].stream /\ table[j].sequence = table[k].sequence
       => j = k

DistinctStreams(table) ==
    \A j, k \in DOMAIN table : table[j].stream = table[k].stream => j = k

\* The slots that a message leaves alone are slots of other messages, each of
\* them once; the one it uses carries its stream and its sequence number.
LEMMA OtherSlots ==
    ASSUME slots \in Seq(SlotRecords), Len(slots) <= Slots, DistinctSlots(slots),
           NEW m \in Messages
    PROVE  /\ \A j \in DOMAIN Others(m) :
                 \E k \in DOMAIN slots \ SlotIndex(m) : Others(m)[j] = slots[k]
           /\ DistinctSlots(Others(m))
           /\ SlotOf(m) \in SlotRecords
           /\ SlotOf(m).stream = m.stream /\ SlotOf(m).sequence = m.sequence
           /\ SlotOf(m) = NewSlot(m) \/ \E k \in DOMAIN slots : SlotOf(m) = slots[k]
<1>1. ASSUME NEW K \in SUBSET DOMAIN slots, Selects(Others(m), slots, K),
             K \cap SlotIndex(m) = {}
      PROVE  /\ \A j \in DOMAIN Others(m) :
                   \E k \in DOMAIN slots \ SlotIndex(m) : Others(m)[j] = slots[k]
             /\ DistinctSlots(Others(m))
    <2>1. PICK e \in [DOMAIN Others(m) -> K] :
             /\ \A i \in DOMAIN Others(m) : Others(m)[i] = slots[e[i]]
             /\ \A i, j \in DOMAIN Others(m) : e[i] = e[j] => i = j
        BY <1>1 DEF Selects
    <2> QED
        BY <1>1, <2>1 DEF DistinctSlots
<1>2. CASE \E k \in SlotIndex(m) :
              SlotOf(m) = slots[k] /\ Selects(Others(m), slots, DOMAIN slots \ {k})
    <2>1. PICK k \in SlotIndex(m) :
             SlotOf(m) = slots[k] /\ Selects(Others(m), slots, DOMAIN slots \ {k})
        BY <1>2
    <2>2. k \in DOMAIN slots /\ slots[k].stream = m.stream
          /\ slots[k].sequence = m.sequence
        BY DEF SlotIndex
    <2>3. SlotIndex(m) = {k}
        BY <2>2 DEF SlotIndex, DistinctSlots
    <2>4. slots[k] \in SlotRecords
        BY <2>2, ElementOfSeq
    <2> QED
        BY <1>1, <2>1, <2>2, <2>3, <2>4
<1>3. CASE /\ SlotIndex(m) = {} /\ SlotOf(m) = NewSlot(m)
           /\ \E K \in SUBSET DOMAIN slots : Selects(Others(m), slots, K)
    <2>1. [k \in {} |-> 0] \in Parts
        <3>1. [k \in {} |-> 0] \in [{} -> Ids]
            OBVIOUS
        <3> QED
            BY <3>1 DEF Parts
    <2>2. NewSlot(m) \in SlotRecords
          /\ NewSlot(m).stream = m.stream /\ NewSlot(m).sequence = m.sequence
        BY <2>1 DEF NewSlot, SlotRecords, Messages
    <2> QED
        BY <1>1, <1>3, <2>2
<1> QED
    BY <1>2, <1>3, SlotsForMessage

\* The entry that commit_replay() writes for m.
CommittedEntry(m, window) ==
    [stream |-> m.stream, window |-> Commit(window, m.sequence)]

\* The table commit_replay() leaves: the entry of the stream of m with its
\* window after the commit, and the entries of the others, of which at most the
\* oldest had to go.
LEMMA CommittedTable ==
    ASSUME replay \in Seq(ReplayEntries), Len(replay) <= ReplayStreams,
           DistinctStreams(replay), NEW m \in Messages
    PROVE  \E others \in Seq(ReplayEntries), entry \in ReplayEntries :
             /\ Committed(m) = Append(others, entry)
             /\ Len(others) < ReplayStreams
             /\ \/ \E k \in WindowIndex(m.stream) :
                      /\ entry = CommittedEntry(m, replay[k].window)
                      /\ Selects(others, replay, DOMAIN replay \ {k})
                \/ /\ WindowIndex(m.stream) = {}
                   /\ entry = CommittedEntry(m, NewWindow)
                   /\ IF Len(replay) = ReplayStreams
                      THEN Selects(others, replay, DOMAIN replay \ {1})
                      ELSE Selects(others, replay, DOMAIN replay)
<1>0. /\ Len(replay) \in Nat /\ DOMAIN replay = 1 .. Len(replay)
      /\ ReplayStreams \in Nat /\ ReplayStreams >= 1 /\ Len(replay) <= ReplayStreams
      /\ m.stream \in Streams /\ m.sequence \in Serials
    BY SizesPositive DEF Messages
<1>1. CASE WindowIndex(m.stream) # {}
    <2> DEFINE k == CHOOSE k \in WindowIndex(m.stream) : TRUE
               others == RemoveAt(replay, k)
               entry == CommittedEntry(m, replay[k].window)
    <2>1. k \in WindowIndex(m.stream) /\ k \in DOMAIN replay
          /\ replay[k].stream = m.stream
        BY <1>1 DEF WindowIndex
    <2>2. others \in Seq(ReplayEntries) /\ Len(others) = Len(replay) - 1
          /\ Selects(others, replay, DOMAIN replay \ {k})
        BY <2>1, RemoveAtSelects
    <2>3. replay[k] \in ReplayEntries
        BY <1>0, <2>1, ElementOfSeq
    <2>4. entry \in ReplayEntries
        BY <1>0, <2>3, CommitType DEF ReplayEntries, CommittedEntry
    <2>5. entry = [replay[k] EXCEPT !.window = Commit(@, m.sequence)]
        BY <2>1, <2>3 DEF ReplayEntries, CommittedEntry
    <2>6. Committed(m) = Append(others, entry)
        BY <1>1, <2>5 DEF Committed
    <2>7. Len(others) < ReplayStreams
        <3> HIDE DEF others
        <3> QED
            BY <1>0, <2>2
    <2>8. \E n \in WindowIndex(m.stream) :
             /\ entry = CommittedEntry(m, replay[n].window)
             /\ Selects(others, replay, DOMAIN replay \ {n})
        <3> HIDE DEF k
        <3> QED
            BY <2>1, <2>2
    <2> HIDE DEF others, entry, k
    <2> QED
        BY <2>2, <2>4, <2>6, <2>7, <2>8
<1>2. CASE WindowIndex(m.stream) = {}
    <2> DEFINE others == IF Len(replay) = ReplayStreams THEN Tail(replay) ELSE replay
               entry == CommittedEntry(m, NewWindow)
    <2>1. entry \in ReplayEntries
        BY <1>0, CommitType, NewWindowType DEF ReplayEntries, CommittedEntry
    <2>2. Committed(m) = Append(others, entry)
        BY <1>2 DEF Committed, CommittedEntry
    <2>3. CASE Len(replay) = ReplayStreams
        <3>1. replay # << >>
            BY <1>0, <2>3, EmptySeq
        <3>2. others \in Seq(ReplayEntries) /\ Len(others) = Len(replay) - 1
              /\ Selects(others, replay, DOMAIN replay \ {1})
            BY <2>3, <3>1, TailSelects
        <3> HIDE DEF others, entry
        <3>3. Len(others) < ReplayStreams
            BY <1>0, <3>2
        <3> QED
            BY <1>2, <2>1, <2>2, <2>3, <3>2, <3>3 DEF entry
    <2>4. CASE Len(replay) # ReplayStreams
        <3>1. others \in Seq(ReplayEntries) /\ others = replay
              /\ Selects(others, replay, DOMAIN replay)
            BY <2>4, AllSelected
        <3> HIDE DEF others, entry
        <3>2. Len(others) < ReplayStreams
            <4> DEFINE n == Len(replay)
            <4>1. n \in Nat /\ ReplayStreams \in Nat /\ n <= ReplayStreams /\ n # ReplayStreams
                BY <1>0, <2>4
            <4> HIDE DEF n
            <4>2. n < ReplayStreams
                BY <4>1
            <4> QED
                BY <3>1, <4>2 DEF n
        <3> QED
            BY <1>2, <2>1, <2>2, <2>4, <3>1, <3>2 DEF entry
    <2> QED
        BY <2>3, <2>4
<1> QED
    BY <1>1, <1>2

\* commit_replay() takes over the oldest entry for the stream of m.
TakesOldest(m) == WindowIndex(m.stream) = {} /\ Len(replay) = ReplayStreams

\* Entry by entry: every entry after commit_replay() is the one written for m or
\* an old one of another stream, and the old ones of other streams remain, apart
\* from the oldest when it is taken over.
LEMMA CommittedEntries ==
    ASSUME replay \in Seq(ReplayEntries), Len(replay) <= ReplayStreams,
           DistinctStreams(replay), NEW m \in Messages
    PROVE  /\ Committed(m) \in Seq(ReplayEntries)
           /\ Len(Committed(m)) <= ReplayStreams
           /\ DistinctStreams(Committed(m))
           /\ \A j \in DOMAIN Committed(m) :
                 Committed(m)[j].stream # m.stream =>
                    \E k \in DOMAIN replay : Committed(m)[j] = replay[k]
           /\ \A j \in DOMAIN Committed(m) :
                 Committed(m)[j].stream = m.stream =>
                    \/ \E k \in WindowIndex(m.stream) :
                          Committed(m)[j].window = Commit(replay[k].window, m.sequence)
                    \/ /\ WindowIndex(m.stream) = {}
                       /\ Committed(m)[j].window = Commit(NewWindow, m.sequence)
           /\ \E j \in DOMAIN Committed(m) : Committed(m)[j].stream = m.stream
           /\ \A k \in DOMAIN replay :
                 replay[k].stream # m.stream /\ ~(TakesOldest(m) /\ k = 1) =>
                    \E j \in DOMAIN Committed(m) : Committed(m)[j] = replay[k]
<1> DEFINE new == Committed(m)
<1>1. PICK others \in Seq(ReplayEntries), entry \in ReplayEntries :
         /\ Committed(m) = Append(others, entry)
         /\ Len(others) < ReplayStreams
         /\ \/ \E k \in WindowIndex(m.stream) :
                  /\ entry = CommittedEntry(m, replay[k].window)
                  /\ Selects(others, replay, DOMAIN replay \ {k})
            \/ /\ WindowIndex(m.stream) = {}
               /\ entry = CommittedEntry(m, NewWindow)
               /\ IF Len(replay) = ReplayStreams
                  THEN Selects(others, replay, DOMAIN replay \ {1})
                  ELSE Selects(others, replay, DOMAIN replay)
    BY CommittedTable
<1>2. /\ Len(others) \in Nat /\ ReplayStreams \in Nat
      /\ DOMAIN others = 1 .. Len(others)
    BY SizesPositive
<1>3. /\ new \in Seq(ReplayEntries) /\ Len(new) = Len(others) + 1
      /\ DOMAIN new = 1 .. Len(others) + 1
      /\ \A j \in DOMAIN others : new[j] = others[j]
      /\ new[Len(others) + 1] = entry
    BY <1>1, <1>2
<1> HIDE DEF new
<1>4. Len(new) <= ReplayStreams
    BY <1>1, <1>2, <1>3
<1>15. \A w : /\ CommittedEntry(m, w).stream = m.stream
              /\ CommittedEntry(m, w).window = Commit(w, m.sequence)
    BY DEF CommittedEntry
<1>5. entry.stream = m.stream
    <2>1. \E w : entry = CommittedEntry(m, w)
        BY <1>1, Zenon
    <2> QED
        BY <1>15, <2>1
<1>6. PICK K \in SUBSET DOMAIN replay :
         /\ Selects(others, replay, K)
         /\ \A k \in K : replay[k].stream # m.stream
         /\ \A k \in DOMAIN replay \ K :
               replay[k].stream = m.stream \/ (TakesOldest(m) /\ k = 1)
    <2>1. CASE \E k \in WindowIndex(m.stream) :
                  Selects(others, replay, DOMAIN replay \ {k})
        <3>1. PICK k \in WindowIndex(m.stream) :
                 Selects(others, replay, DOMAIN replay \ {k})
            BY <2>1
        <3>2. k \in DOMAIN replay /\ replay[k].stream = m.stream
            BY DEF WindowIndex
        <3>3. \A n \in DOMAIN replay \ {k} : replay[n].stream # m.stream
            BY <3>2 DEF DistinctStreams
        <3> QED
            BY <3>1, <3>2, <3>3
    <2>2. CASE WindowIndex(m.stream) = {}
        <3>1. \A n \in DOMAIN replay : replay[n].stream # m.stream
            BY <2>2 DEF WindowIndex
        <3>2. CASE Selects(others, replay, DOMAIN replay)
            BY <3>1, <3>2
        <3>3. CASE Len(replay) = ReplayStreams /\ Selects(others, replay, DOMAIN replay \ {1})
            BY <2>2, <3>1, <3>3 DEF TakesOldest
        <3>4. ~(\E k \in WindowIndex(m.stream) : TRUE)
            BY <2>2
        <3> QED
            BY <1>1, <3>2, <3>3, <3>4
    <2> QED
        BY <1>1, <2>1, <2>2
<1>7. PICK e \in [DOMAIN others -> K] :
         /\ \A i \in DOMAIN others : others[i] = replay[e[i]]
         /\ \A i, j \in DOMAIN others : e[i] = e[j] => i = j
         /\ \A k \in K : \E i \in DOMAIN others : e[i] = k
    BY <1>6 DEF Selects
<1>8. \A j \in DOMAIN new : j \in DOMAIN others \/ j = Len(others) + 1
    BY <1>2, <1>3
<1>9. \A j \in DOMAIN others :
         /\ e[j] \in DOMAIN replay /\ new[j] = replay[e[j]]
         /\ new[j].stream # m.stream
    BY <1>3, <1>6, <1>7
<1>10. DistinctStreams(new)
    <2>1. ASSUME NEW i \in DOMAIN others, NEW j \in DOMAIN others,
                 new[i].stream = new[j].stream
          PROVE  i = j
        <3>1. e[i] = e[j]
            BY <1>9, <2>1 DEF DistinctStreams
        <3> QED
            BY <1>7, <3>1
    <2> QED
        BY <1>3, <1>5, <1>8, <1>9, <2>1 DEF DistinctStreams
<1>11. \A j \in DOMAIN new : new[j].stream # m.stream =>
          \E k \in DOMAIN replay : new[j] = replay[k]
    BY <1>3, <1>5, <1>8, <1>9
<1>12. ASSUME NEW j \in DOMAIN new, new[j].stream = m.stream
       PROVE  \/ \E k \in WindowIndex(m.stream) :
                    new[j].window = Commit(replay[k].window, m.sequence)
              \/ /\ WindowIndex(m.stream) = {}
                 /\ new[j].window = Commit(NewWindow, m.sequence)
    <2>1. new[j] = entry
        BY <1>3, <1>8, <1>9, <1>12
    <2> QED
        BY <1>1, <1>15, <2>1
<1>13. \E j \in DOMAIN new : new[j].stream = m.stream
    <2>1. Len(others) + 1 \in DOMAIN new
        BY <1>2, <1>3
    <2> QED
        BY <1>3, <1>5, <2>1
<1>14. ASSUME NEW k \in DOMAIN replay, replay[k].stream # m.stream,
              ~(TakesOldest(m) /\ k = 1)
       PROVE  \E j \in DOMAIN new : new[j] = replay[k]
    <2>1. k \in K
        BY <1>6, <1>14
    <2>2. PICK i \in DOMAIN others : e[i] = k
        BY <1>7, <2>1
    <2>3. i \in DOMAIN new
        BY <1>2, <1>3
    <2> QED
        BY <1>9, <2>2, <2>3
<1> QED
    BY <1>3, <1>4, <1>10, <1>11, <1>12, <1>13, <1>14 DEF new

-----------------------------------------------------------------------------
\* A tight window has seen nothing that lies WindowSize or more behind it.
Tight(window) ==
    /\ window.initialized
    /\ \A x \in window.seen : WrappingSub(window.highest, x) < WindowSize

\* The tables of the receiver: bounded, one slot per message sequence and one
\* window per stream, no slot complete, every window tight, and no slot kept
\* for a sequence number its window has seen.
TableInv ==
    /\ Len(slots) <= Slots /\ DistinctSlots(slots)
    /\ Len(replay) <= ReplayStreams /\ DistinctStreams(replay)
    /\ \A k \in DOMAIN slots : DOMAIN slots[k].parts \notin {{}, 1 .. slots[k].count}
    /\ \A k \in DOMAIN replay : Tight(replay[k].window)
    /\ \A j \in DOMAIN slots, k \in DOMAIN replay :
          slots[j].stream = replay[k].stream
          => slots[j].sequence \notin replay[k].window.seen

CoreInv == TypeInv /\ TableInv

\* The frame on the air is one of the message being sent.
LEMMA CurrentFrameType ==
    ASSUME TypeInv, NEW stream \in Streams, tx[stream].phase = "EMITTING"
    PROVE  /\ CurrentFrame(stream) \in Frames
           /\ CurrentFrame(stream).message = tx[stream].message
<1>1. Sending(stream)
    BY DEF TypeInv
<1>2. tx[stream].fragmentIndex \in 1 .. MaxFragments
    BY <1>1, SizesPositive DEF Sending, Messages
<1> QED
    BY <1>1, <1>2 DEF Sending, CurrentFrame, Frames

\* What lm_air_tx_poll() leaves is a transmitter.
LEMMA PolledType ==
    ASSUME TypeInv, NEW stream \in Streams, NEW phase \in Phases
    PROVE  /\ Polled(stream, phase) \in Transmitters
           /\ Polled(stream, phase).phase = phase
           /\ Polled(stream, phase).message = tx[stream].message
           /\ Polled(stream, phase).fragmentIndex = tx[stream].fragmentIndex + 1
<1>1. tx[stream] \in Transmitters
    BY DEF TypeInv
<1>2. WrappingInc(tx[stream].nextSequence) \in Serials
    BY <1>1, IncType DEF Transmitters
<1> QED
    <2> DEFINE next == IF LastFragment(stream) THEN WrappingInc(tx[stream].nextSequence)
                       ELSE tx[stream].nextSequence
    <2>1. next \in Serials
        <3>1. tx[stream].nextSequence \in Serials
            BY <1>1 DEF Transmitters
        <3> QED
            BY <1>2, <3>1
    <2>2. Polled(stream, phase) =
             [tx[stream] EXCEPT !.phase = phase, !.fragmentIndex = @ + 1,
                                !.nextSequence = next]
        BY DEF Polled
    <2> HIDE DEF next
    <2>3. Polled(stream, phase) =
             [phase |-> phase, nextSequence |-> next, message |-> tx[stream].message,
              fragmentIndex |-> tx[stream].fragmentIndex + 1]
        BY <1>1, <2>2 DEF Transmitters
    <2>4. /\ tx[stream].message \in Messages \cup {NoMessage}
          /\ tx[stream].fragmentIndex + 1 \in Nat
        BY <1>1 DEF Transmitters
    <2> QED
        BY <2>1, <2>3, <2>4 DEF Transmitters

\* The steps of the transmitters keep the types.
LEMMA BeginType ==
    ASSUME TypeInv, NEW stream \in Streams, NEW meta \in Metas,
           NEW count \in 1 .. MaxFragments, Begin(stream, meta, count)
    PROVE  TypeInv'
<1> DEFINE m == [id |-> begun', stream |-> stream, count |-> count,
                 sequence |-> tx[stream].nextSequence, meta |-> meta]
<1>1. tx[stream] \in Transmitters /\ tx \in [Streams -> Transmitters]
    BY DEF TypeInv
<1>2. begun' \in 0 .. MaxMessages /\ begun' \in Ids
    BY SizesPositive DEF TypeInv, Begin, Ids
<1>3. m \in Messages
    BY <1>1, <1>2 DEF Messages, Transmitters
<1>4. tx' = [tx EXCEPT ![stream] =
                [@ EXCEPT !.phase = "EMITTING", !.fragmentIndex = 1, !.message = m]]
    BY <1>1 DEF Begin
<1>5. [tx[stream] EXCEPT !.phase = "EMITTING", !.fragmentIndex = 1, !.message = m]
         \in Transmitters
    BY <1>1, <1>3 DEF Transmitters, Phases
<1>6. tx' \in [Streams -> Transmitters]
    BY <1>1, <1>4, <1>5
<1>7. ASSUME NEW s \in Streams, tx'[s].phase = "EMITTING" PROVE Sending(s)'
    <2>1. CASE s = stream
        <3>1. tx'[s].message = m /\ tx'[s].fragmentIndex = 1
            BY <1>1, <1>4, <2>1 DEF Transmitters
        <3>2. m.stream = stream /\ 1 \in 1 .. m.count
            BY SizesPositive
        <3> QED
            BY <1>3, <2>1, <3>1, <3>2 DEF Sending
    <2>2. CASE s # stream
        <3>1. tx'[s] = tx[s]
            BY <1>1, <1>4, <2>2
        <3> QED
            BY <1>7, <3>1 DEF TypeInv, Sending
    <2> QED BY <2>1, <2>2
<1> QED
    BY <1>2, <1>6, <1>7 DEF TypeInv, Begin, airVars, rxVars, ghosts

\* A poll moves one transmitter, to the next fragment or out of the message.
LEMMA PollStepType ==
    ASSUME TypeInv, NEW stream \in Streams, NEW phase \in Phases,
           tx[stream].phase = "EMITTING",
           phase = "EMITTING" => ~LastFragment(stream),
           tx' = [tx EXCEPT ![stream] = Polled(stream, phase)]
    PROVE  /\ tx' \in [Streams -> Transmitters]
           /\ \A s \in Streams : tx'[s].phase = "EMITTING" => Sending(s)'
<1>1. Sending(stream) /\ tx \in [Streams -> Transmitters]
    BY DEF TypeInv
<1>2. ASSUME NEW s \in Streams, tx'[s].phase = "EMITTING" PROVE Sending(s)'
    <2>1. CASE s = stream
        <3>1. tx'[s] = Polled(stream, phase)
            BY <1>1, <2>1
        <3>2. ~LastFragment(stream)
            BY <1>2, <3>1, PolledType
        <3>3. tx[stream].message.count \in Nat
            BY <1>1, SizesPositive DEF Sending, Messages
        <3>4. tx[stream].fragmentIndex + 1 \in 1 .. tx[stream].message.count
            BY <1>1, <3>2, <3>3 DEF Sending, LastFragment
        <3> QED
            BY <1>1, <2>1, <3>1, <3>4, PolledType DEF Sending
    <2>2. CASE s # stream
        <3>1. tx'[s] = tx[s]
            BY <1>1, <2>2
        <3> QED
            BY <1>2, <3>1 DEF TypeInv, Sending
    <2> QED BY <2>1, <2>2
<1> QED
    BY <1>1, <1>2, PolledType

\* What is put on the air is a frame.
LEMMA HearType ==
    ASSUME TypeInv, NEW stream \in Streams, tx[stream].phase = "EMITTING",
           Hear(CurrentFrame(stream))
    PROVE  aired' \in Nat /\ air' \subseteq Frames
<1>1. CurrentFrame(stream) \in Frames
    BY CurrentFrameType
<1> QED
    BY <1>1 DEF Hear, TypeInv, Frames, Messages, Ids

\* A step of lm_air_tx_send() keeps the types.
LEMMA SenderType ==
    ASSUME TypeInv, NEW stream \in Streams,
           \/ BeginFails(stream) \/ SendFragment(stream) \/ EmitFails(stream)
    PROVE  TypeInv'
<1>1. CASE BeginFails(stream)
    <2>1. tx \in [Streams -> Transmitters] /\ "FAILED" \in Phases
        BY DEF TypeInv, Phases
    <2>2. tx' = [tx EXCEPT ![stream] = [@ EXCEPT !.phase = "FAILED"]]
        BY <1>1 DEF BeginFails
    <2>3. [tx[stream] EXCEPT !.phase = "FAILED"] \in Transmitters
        BY <2>1 DEF Transmitters
    <2>4. tx' \in [Streams -> Transmitters]
        BY <2>1, <2>2, <2>3
    <2>5. ASSUME NEW s \in Streams, tx'[s].phase = "EMITTING" PROVE Sending(s)'
        <3>1. s # stream
            BY <2>1, <2>2, <2>5 DEF Transmitters
        <3>2. tx'[s] = tx[s]
            BY <2>1, <2>2, <3>1
        <3> QED
            BY <2>5, <3>2 DEF TypeInv, Sending
    <2> QED
        BY <1>1, <2>4, <2>5 DEF TypeInv, BeginFails, airVars, rxVars, ghosts
<1>2. CASE SendFragment(stream)
    <2> DEFINE phase == IF LastFragment(stream) THEN "DONE" ELSE "EMITTING"
    <2>1. phase \in Phases /\ (phase = "EMITTING" => ~LastFragment(stream))
        BY DEF Phases
    <2>2. tx' = [tx EXCEPT ![stream] = Polled(stream, phase)]
          /\ tx[stream].phase = "EMITTING" /\ Hear(CurrentFrame(stream))
        BY <1>2 DEF SendFragment
    <2> HIDE DEF phase
    <2>3. /\ tx' \in [Streams -> Transmitters]
          /\ \A s \in Streams : tx'[s].phase = "EMITTING" => Sending(s)'
          /\ aired' \in Nat /\ air' \subseteq Frames
        BY <2>1, <2>2, PollStepType, HearType
    <2> QED
        BY <1>2, <2>3 DEF TypeInv, SendFragment, rxVars, ghosts
<1>3. CASE EmitFails(stream)
    <2>1. "FAILED" \in Phases /\ ~("FAILED" = "EMITTING")
        BY DEF Phases
    <2>2. tx' = [tx EXCEPT ![stream] = Polled(stream, "FAILED")]
          /\ tx[stream].phase = "EMITTING"
          /\ (Hear(CurrentFrame(stream)) \/ UNCHANGED airVars)
        BY <1>3 DEF EmitFails
    <2>3. /\ tx' \in [Streams -> Transmitters]
          /\ \A s \in Streams : tx'[s].phase = "EMITTING" => Sending(s)'
        BY <2>1, <2>2, PollStepType
    <2>4. aired' \in Nat /\ air' \subseteq Frames
        BY <2>2, HearType DEF airVars, TypeInv
    <2>5. failures' \in Nat
        BY <1>3 DEF EmitFails, TypeInv
    <2> QED
        BY <1>3, <2>3, <2>4, <2>5 DEF TypeInv, EmitFails, rxVars, ghosts
<1> QED
    BY <1>1, <1>2, <1>3

\* What the stream's window accepts it has not seen.
LEMMA AcceptedIsUnseen ==
    ASSUME CoreInv, NEW m \in Messages, ~IsReplay(m), NEW k \in DOMAIN replay,
           replay[k].stream = m.stream
    PROVE  /\ Classify(replay[k].window, m.sequence) = "Accept"
           /\ replay[k].window \in Windows /\ Tight(replay[k].window)
           /\ m.sequence \notin replay[k].window.seen
<1>1. k \in WindowIndex(m.stream)
    BY DEF WindowIndex
<1>2. Classify(replay[k].window, m.sequence) = "Accept"
    BY <1>1 DEF IsReplay
<1>3. replay[k] \in ReplayEntries
    BY ElementOfSeq DEF CoreInv, TypeInv
<1>4. replay[k].window \in Windows /\ Tight(replay[k].window)
    BY <1>3 DEF ReplayEntries, CoreInv, TableInv
<1>5. m.sequence \in Serials
    BY DEF Messages
<1> QED
    BY <1>2, <1>4, <1>5, AcceptedUnseen DEF Tight

\* commit() of a number the window accepts keeps the window tight.
LEMMA CommitStaysTight ==
    ASSUME NEW w \in Windows, Tight(w), NEW s \in Serials, Classify(w, s) = "Accept"
    PROVE  Tight(Commit(w, s))
<1>1. Commit(w, s).initialized
    BY CommitType
<1>2. w.initialized /\ w.highest \in Serials
    BY DEF Tight, Windows
<1>3. WrappingSub(Commit(w, s).highest, s) < WindowSize
    <2>1. CASE Commit(w, s).highest = s
        BY <2>1, SerialAssumption DEF WrappingSub, Serials
    <2>2. CASE Commit(w, s).highest # s
        <3>1. /\ Commit(w, s).highest = w.highest
              /\ ~(WrappingSub(s, w.highest) \in 1 .. HalfRange - 1)
            BY <2>2, CommitTight
        <3>2. ~(WrappingSub(w.highest, s) >= WindowSize)
            BY <1>2, <3>1 DEF Classify
        <3>3. WrappingSub(w.highest, s) \in Int
            BY <1>2, SubCong DEF Serials
        <3> QED
            BY <3>1, <3>2, <3>3, SerialAssumption
    <2> QED BY <2>1, <2>2
<1>4. \A x \in Commit(w, s).seen : WrappingSub(Commit(w, s).highest, x) < WindowSize
    BY <1>3, CommitTight
<1> QED
    BY <1>1, <1>4 DEF Tight

\* The same for the first commit of a stream.
LEMMA FirstCommitTight ==
    ASSUME NEW s \in Serials PROVE Tight(Commit(NewWindow, s))
<1>1. /\ Commit(NewWindow, s).initialized /\ Commit(NewWindow, s).highest = s
      /\ Commit(NewWindow, s).seen = {s}
    BY DEF Commit, NewWindow
<1>2. WrappingSub(s, s) < WindowSize
    BY SerialAssumption DEF WrappingSub, Serials
<1> QED
    BY <1>1, <1>2 DEF Tight

\* The slot of the message of f with the payload of f in it.
Extended(f) == [SlotOf(f.message) EXCEPT !.parts = PartsWith(f)]

\* The slot with the payload in it is that of the message of the frame.
LEMMA ExtendedSlot ==
    ASSUME CoreInv, NEW f \in Frames, Stored(f)
    PROVE  /\ Extended(f) \in SlotRecords
           /\ Extended(f).stream = f.message.stream
           /\ Extended(f).sequence = f.message.sequence
           /\ Extended(f).count = f.message.count
           /\ Extended(f).parts = PartsWith(f)
           /\ f.index \in DOMAIN PartsWith(f)
           /\ f.message \in Messages
<1> DEFINE slot == SlotOf(f.message)
<1>1. f.message \in Messages /\ f.index \in 1 .. MaxFragments /\ f.message.id \in Ids
    BY DEF Frames, Messages
<1>2. slot \in SlotRecords /\ slot.stream = f.message.stream
      /\ slot.sequence = f.message.sequence
    BY <1>1, OtherSlots DEF CoreInv, TypeInv, TableInv
<1>3. slot.count = f.message.count
    BY DEF Stored, Inconsistent
<1> HIDE DEF slot
<1>4. PICK P \in SUBSET (1 .. MaxFragments) : slot.parts \in [P -> Ids]
    BY <1>2 DEF SlotRecords, Parts
<1>5. PartsWith(f) = [k \in P \cup {f.index} |->
                         IF k = f.index THEN f.message.id ELSE slot.parts[k]]
    BY <1>4 DEF PartsWith, slot
<1>6. PartsWith(f) \in [P \cup {f.index} -> Ids]
    BY <1>1, <1>4, <1>5
<1>7. PartsWith(f) \in Parts /\ f.index \in DOMAIN PartsWith(f)
    BY <1>1, <1>6 DEF Parts
<1>8. Extended(f) = [slot EXCEPT !.parts = PartsWith(f)]
    BY DEF Extended, slot
<1> QED
    BY <1>1, <1>2, <1>3, <1>7, <1>8 DEF SlotRecords

\* A table of slots of other messages, and with the slot of m appended to it.
LEMMA OthersCoherent ==
    ASSUME CoreInv, NEW m \in Messages
    PROVE  /\ Others(m) \in Seq(SlotRecords) /\ Len(Others(m)) < Slots
           /\ DistinctSlots(Others(m))
           /\ \A j \in DOMAIN Others(m) :
                 \E k \in DOMAIN slots : /\ Others(m)[j] = slots[k]
                                         /\ ~(/\ slots[k].stream = m.stream
                                              /\ slots[k].sequence = m.sequence)
<1>1. slots \in Seq(SlotRecords) /\ Len(slots) <= Slots /\ DistinctSlots(slots)
    BY DEF CoreInv, TypeInv, TableInv
<1>2. Others(m) \in Seq(SlotRecords) /\ Len(Others(m)) < Slots
    BY <1>1, SlotsForMessage
<1>3. /\ DistinctSlots(Others(m))
      /\ \A j \in DOMAIN Others(m) :
            \E k \in DOMAIN slots \ SlotIndex(m) : Others(m)[j] = slots[k]
    BY <1>1, OtherSlots
<1> QED
    BY <1>2, <1>3 DEF SlotIndex

\* A step that only clears the slot of m.
LEMMA ClearedCoherent ==
    ASSUME CoreInv, NEW m \in Messages, slots' = Others(m), replay' = replay
    PROVE  slots' \in Seq(SlotRecords) /\ TableInv'
<1>1. Len(Others(m)) \in Nat /\ Slots \in Nat
    BY OthersCoherent, SizesPositive
<1> QED
    BY <1>1, OthersCoherent DEF CoreInv, TableInv

\* A fragment that does not complete its message is stored.
LEMMA StoreCoherent ==
    ASSUME CoreInv, NEW f \in Frames, StoreFragment(f)
    PROVE  slots' \in Seq(SlotRecords) /\ TableInv'
<1> DEFINE m == f.message
           others == Others(m)
           slot == Extended(f)
<1>1. Stored(f) /\ ~Complete(f) /\ slots' = Append(others, slot) /\ replay' = replay
    BY DEF StoreFragment, Extended
<1>2. /\ slot \in SlotRecords /\ slot.stream = m.stream /\ slot.sequence = m.sequence
      /\ slot.count = m.count /\ slot.parts = PartsWith(f)
      /\ f.index \in DOMAIN PartsWith(f) /\ m \in Messages
    BY <1>1, ExtendedSlot
<1>3. /\ others \in Seq(SlotRecords) /\ Len(others) < Slots /\ DistinctSlots(others)
      /\ \A j \in DOMAIN others :
            \E k \in DOMAIN slots : /\ others[j] = slots[k]
                                    /\ ~(/\ slots[k].stream = m.stream
                                         /\ slots[k].sequence = m.sequence)
    BY <1>2, OthersCoherent
<1>4. DOMAIN slot.parts \notin {{}, 1 .. slot.count}
    BY <1>1, <1>2 DEF Complete
<1>5. \A k \in DOMAIN replay :
         replay[k].stream = m.stream => m.sequence \notin replay[k].window.seen
    BY <1>1, <1>2, AcceptedIsUnseen DEF Stored
<1> HIDE DEF m, others, slot
<1>6. Len(others) \in Nat /\ Slots \in Nat /\ DOMAIN others = 1 .. Len(others)
    BY <1>3, SizesPositive
<1>7. /\ slots' \in Seq(SlotRecords) /\ Len(slots') = Len(others) + 1
      /\ DOMAIN slots' = 1 .. Len(others) + 1
      /\ \A j \in DOMAIN others : slots'[j] = others[j]
      /\ slots'[Len(others) + 1] = slot
    BY <1>1, <1>2, <1>3, <1>6
<1>8. \A j \in DOMAIN slots' : j \in DOMAIN others \/ j = Len(others) + 1
    BY <1>6, <1>7
<1>9. Len(slots') <= Slots
    BY <1>3, <1>6, <1>7
<1>10. DistinctSlots(slots')
    BY <1>2, <1>3, <1>7, <1>8 DEF DistinctSlots
<1>11. \A k \in DOMAIN slots' : DOMAIN slots'[k].parts \notin {{}, 1 .. slots'[k].count}
    BY <1>3, <1>4, <1>7, <1>8 DEF CoreInv, TableInv
<1>12. \A j \in DOMAIN slots', k \in DOMAIN replay :
          slots'[j].stream = replay[k].stream
          => slots'[j].sequence \notin replay[k].window.seen
    <2>1. TAKE j \in DOMAIN slots', k \in DOMAIN replay
    <2>2. HAVE slots'[j].stream = replay[k].stream
    <2>3. CASE j = Len(others) + 1
        BY <1>2, <1>5, <1>7, <2>2, <2>3
    <2>4. CASE j \in DOMAIN others
        <3>1. PICK i \in DOMAIN slots : slots'[j] = slots[i]
            BY <1>3, <1>7, <2>4
        <3> QED
            BY <2>2, <3>1 DEF CoreInv, TableInv
    <2> QED BY <1>8, <2>3, <2>4
<1> QED
    BY <1>1, <1>7, <1>9, <1>10, <1>11, <1>12 DEF CoreInv, TableInv

\* A message is delivered: its sequence number is committed, its slot cleared.
LEMMA DeliverCoherent ==
    ASSUME CoreInv, NEW f \in Frames, Deliver(f)
    PROVE  slots' \in Seq(SlotRecords) /\ replay' \in Seq(ReplayEntries) /\ TableInv'
<1> DEFINE m == f.message
<1>1. /\ ~IsReplay(m) /\ slots' = Others(m) /\ replay' = Committed(m)
    BY DEF Deliver, Stored, Cleared
<1>2. m \in Messages /\ m.sequence \in Serials
    BY DEF Frames, Messages
<1> HIDE DEF m
<1>3. /\ slots' \in Seq(SlotRecords) /\ Len(slots') < Slots /\ DistinctSlots(slots')
      /\ \A j \in DOMAIN slots' :
            \E k \in DOMAIN slots : /\ slots'[j] = slots[k]
                                    /\ ~(/\ slots[k].stream = m.stream
                                         /\ slots[k].sequence = m.sequence)
    BY <1>1, <1>2, OthersCoherent
<1>4. /\ replay' \in Seq(ReplayEntries) /\ Len(replay') <= ReplayStreams
      /\ DistinctStreams(replay')
      /\ \A j \in DOMAIN replay' :
            replay'[j].stream # m.stream => \E k \in DOMAIN replay : replay'[j] = replay[k]
      /\ \A j \in DOMAIN replay' :
            replay'[j].stream = m.stream =>
               \/ \E k \in WindowIndex(m.stream) :
                     replay'[j].window = Commit(replay[k].window, m.sequence)
               \/ replay'[j].window = Commit(NewWindow, m.sequence)
    <2>1. /\ replay \in Seq(ReplayEntries) /\ Len(replay) <= ReplayStreams
          /\ DistinctStreams(replay)
        BY DEF CoreInv, TypeInv, TableInv
    <2> QED
        BY <1>1, <1>2, <2>1, CommittedEntries
<1>5. ASSUME NEW j \in DOMAIN replay', replay'[j].stream = m.stream
      PROVE  /\ Tight(replay'[j].window)
             /\ \A k \in DOMAIN slots' :
                   slots'[k].stream = m.stream
                   => slots'[k].sequence \notin replay'[j].window.seen
    <2>1. CASE replay'[j].window = Commit(NewWindow, m.sequence)
        <3>1. Commit(NewWindow, m.sequence).seen = {m.sequence}
            BY DEF Commit, NewWindow
        <3> QED
            BY <1>2, <1>3, <2>1, <3>1, FirstCommitTight
    <2>2. CASE \E k \in WindowIndex(m.stream) :
                  replay'[j].window = Commit(replay[k].window, m.sequence)
        <3>1. PICK k \in WindowIndex(m.stream) :
                 replay'[j].window = Commit(replay[k].window, m.sequence)
            BY <2>2
        <3>2. k \in DOMAIN replay /\ replay[k].stream = m.stream
            BY DEF WindowIndex
        <3>3. /\ Classify(replay[k].window, m.sequence) = "Accept"
              /\ replay[k].window \in Windows /\ Tight(replay[k].window)
            BY <1>1, <1>2, <3>2, AcceptedIsUnseen
        <3>4. Tight(replay'[j].window)
            BY <1>2, <3>1, <3>3, CommitStaysTight
        <3>5. replay'[j].window.seen \subseteq replay[k].window.seen \cup {m.sequence}
            BY <1>2, <3>1, <3>3, CommitTight
        <3> QED
            BY <1>3, <3>2, <3>4, <3>5 DEF CoreInv, TableInv
    <2> QED
        BY <1>4, <1>5, <2>1, <2>2
<1>6. \A j \in DOMAIN replay' : Tight(replay'[j].window)
    BY <1>4, <1>5 DEF CoreInv, TableInv
<1>7. \A j \in DOMAIN slots', k \in DOMAIN replay' :
         slots'[j].stream = replay'[k].stream
         => slots'[j].sequence \notin replay'[k].window.seen
    <2>1. TAKE j \in DOMAIN slots', k \in DOMAIN replay'
    <2>2. HAVE slots'[j].stream = replay'[k].stream
    <2>3. CASE replay'[k].stream = m.stream
        BY <1>5, <2>2, <2>3
    <2>4. CASE replay'[k].stream # m.stream
        <3>1. PICK n \in DOMAIN replay : replay'[k] = replay[n]
            BY <1>4, <2>4
        <3>2. PICK i \in DOMAIN slots : slots'[j] = slots[i]
            BY <1>3
        <3> QED
            BY <2>2, <3>1, <3>2 DEF CoreInv, TableInv
    <2> QED BY <2>3, <2>4
<1>8. \A k \in DOMAIN slots' : DOMAIN slots'[k].parts \notin {{}, 1 .. slots'[k].count}
    BY <1>3 DEF CoreInv, TableInv
<1>9. Len(slots') <= Slots
    <2>1. Len(slots') \in Nat /\ Slots \in Nat
        BY <1>3, SizesPositive
    <2> QED
        BY <1>3, <2>1
<1> QED
    BY <1>3, <1>4, <1>6, <1>7, <1>8, <1>9 DEF TableInv

\* A step that leaves the receiver alone keeps its tables coherent.
LEMMA TablesUntouched ==
    ASSUME TableInv, slots' = slots, replay' = replay PROVE TableInv'
BY DEF TableInv

\* The tables are empty at the start.
LEMMA CoreInit == Init => CoreInv
<1> SUFFICES ASSUME Init PROVE CoreInv
    OBVIOUS
<1>1. /\ slots = << >> /\ replay = << >> /\ DOMAIN slots = {} /\ DOMAIN replay = {}
      /\ Len(slots) = 0 /\ Len(replay) = 0
    BY DEF Init
<1>2. slots \in Seq(SlotRecords) /\ replay \in Seq(ReplayEntries)
    BY <1>1
<1>3. TableInv
    BY <1>1, SizesPositive DEF TableInv, DistinctSlots, DistinctStreams
<1>4. tx \in [Streams -> Transmitters]
      /\ \A stream \in Streams : tx[stream].phase = "IDLE"
    BY SizesPositive DEF Init, Transmitters, Phases
<1> QED
    BY <1>2, <1>3, <1>4, SizesPositive DEF Init, CoreInv, TypeInv

\* What ingest_frame() does keeps the types and the tables.
LEMMA IngestCore ==
    ASSUME CoreInv, NEW f \in air, Ingest(f) PROVE CoreInv'
<1>1. f \in Frames /\ f.message \in Messages /\ f.message.stream \in Streams
      /\ f.message.id \in Ids /\ f.message.meta \in Metas
    BY DEF CoreInv, TypeInv, Frames, Messages
<1>2. tx' = tx /\ begun' = begun /\ failures' = failures /\ aired' = aired /\ air' = air
    BY DEF Ingest, txVars, airVars
<1>3. CASE RefuseReplay(f) \/ RefuseInconsistent(f) \/ RefuseDuplicate(f)
    <2>1. UNCHANGED <<rxVars, ghosts>>
        BY <1>3 DEF RefuseReplay, RefuseInconsistent, RefuseDuplicate
    <2> QED
        BY <1>2, <2>1, TablesUntouched DEF CoreInv, TypeInv, Sending, rxVars, ghosts
<1>4. CASE StoreFragment(f)
    <2>1. slots' \in Seq(SlotRecords) /\ TableInv'
        BY <1>1, <1>4, StoreCoherent
    <2> QED
        BY <1>2, <1>4, <2>1 DEF StoreFragment, CoreInv, TypeInv, Sending, ghosts
<1>5. CASE RefuseMessage(f)
    <2>1. slots' \in Seq(SlotRecords) /\ TableInv'
        BY <1>1, <1>5, ClearedCoherent DEF RefuseMessage, Cleared
    <2> QED
        BY <1>2, <1>5, <2>1 DEF RefuseMessage, CoreInv, TypeInv, Sending, ghosts
<1>6. CASE Deliver(f)
    <2>1. slots' \in Seq(SlotRecords) /\ replay' \in Seq(ReplayEntries) /\ TableInv'
        BY <1>1, <1>6, DeliverCoherent
    <2>2. Evicted(f.message) \subseteq Streams \X Ids
        BY DEF Evicted, CoreInv, TypeInv
    <2>3. /\ delivered' \subseteq Streams \X Ids /\ forgotten' \subseteq Streams \X Ids
          /\ repeated' \subseteq Streams \X Ids /\ mixed' \subseteq Metas
        <3>1. CASE HandOver(f.message)
            BY <1>1, <2>2, <3>1 DEF HandOver, CoreInv, TypeInv
        <3>2. CASE HandOverBlend(f.message)
            BY <1>1, <2>2, <3>2 DEF HandOverBlend, CoreInv, TypeInv
        <3> QED
            BY <1>6, <3>1, <3>2 DEF Deliver
    <2>4. resets' = resets
        BY <1>6 DEF Deliver
    <2> QED
        BY <1>2, <2>1, <2>3, <2>4 DEF CoreInv, TypeInv, Sending
<1> QED
    BY <1>3, <1>4, <1>5, <1>6 DEF Ingest

\* Every step keeps the types and the tables.
LEMMA CoreStep == CoreInv /\ [Next]_vars => CoreInv'
<1> SUFFICES ASSUME CoreInv, [Next]_vars PROVE CoreInv'
    OBVIOUS
<1>1. ASSUME NEW stream \in Streams, NEW meta \in Metas, NEW count \in 1 .. MaxFragments,
             Begin(stream, meta, count)
      PROVE  CoreInv'
    BY <1>1, BeginType, TablesUntouched DEF CoreInv, Begin, rxVars
<1>2. ASSUME NEW stream \in Streams,
             BeginFails(stream) \/ SendFragment(stream) \/ EmitFails(stream)
      PROVE  CoreInv'
    <2>1. TypeInv'
        BY <1>2, SenderType DEF CoreInv
    <2>2. slots' = slots /\ replay' = replay
        BY <1>2 DEF BeginFails, SendFragment, EmitFails, rxVars
    <2> QED
        BY <2>1, <2>2, TablesUntouched DEF CoreInv
<1>3. ASSUME NEW f \in air, Ingest(f) PROVE CoreInv'
    BY <1>3, IngestCore
<1>4. CASE Reset
    <2>1. /\ slots' = << >> /\ replay' = << >> /\ DOMAIN slots' = {} /\ DOMAIN replay' = {}
          /\ Len(slots') = 0 /\ Len(replay') = 0
        BY <1>4 DEF Reset
    <2>2. slots' \in Seq(SlotRecords) /\ replay' \in Seq(ReplayEntries)
        BY <2>1
    <2>3. TableInv'
        BY <2>1, SizesPositive DEF TableInv, DistinctSlots, DistinctStreams
    <2>4. TypeInv'
        BY <1>4, <2>2 DEF Reset, CoreInv, TypeInv, Sending, txVars, airVars
    <2> QED
        BY <2>3, <2>4 DEF CoreInv
<1>5. CASE UNCHANGED vars
    BY <1>5, TablesUntouched
       DEF CoreInv, TypeInv, Sending, vars, txVars, airVars, rxVars, ghosts
<1> QED
    BY <1>1, <1>2, <1>3, <1>4, <1>5 DEF Next

\* The types, and what the tables of the receiver look like.
LEMMA CoreInvariant == Spec => []CoreInv
<1> QED
    BY CoreInit, CoreStep, PTL DEF Spec

\* What a tight window has not seen it does not call a duplicate.
LEMMA UnseenNotDuplicate ==
    ASSUME NEW w, NEW s, s \notin w.seen
    PROVE  Classify(w, s) # "Duplicate"
BY DEF Classify

\* lm_air_rx_t: the fixed tables are never outgrown, a slot belongs to one
\* message sequence, none is kept for a committed sequence number, and a
\* complete one is cleared at once.
THEOREM SlotsAlwaysCoherent == Spec => []SlotsCoherent
<1>1. CoreInv => SlotsCoherent
    <2> SUFFICES ASSUME CoreInv PROVE SlotsCoherent
        OBVIOUS
    <2>1. \A k \in DOMAIN slots : \A w \in WindowIndex(slots[k].stream) :
             Classify(replay[w].window, slots[k].sequence) # "Duplicate"
        <3>1. TAKE k \in DOMAIN slots
        <3>2. TAKE w \in WindowIndex(slots[k].stream)
        <3>3. slots[k].sequence \notin replay[w].window.seen
            BY DEF WindowIndex, CoreInv, TableInv
        <3> QED
            BY <3>3, UnseenNotDuplicate
    <2>2. \A k \in DOMAIN slots : DOMAIN slots[k].parts \notin {{}, 1 .. slots[k].count}
        BY DEF CoreInv, TableInv
    <2> QED
        BY <2>1, <2>2 DEF SlotsCoherent, CoreInv, TableInv, DistinctSlots
<1> QED
    BY <1>1, CoreInvariant, PTL

-----------------------------------------------------------------------------
(* At most once.  A stream numbers its sequence numbers before they wrap:   *)
(* message `id` carries num[id], the next one to advance carries top, and   *)
(* the newest one heard so far is `heard`.  Messages that follow a send     *)
(* given up half way carry the same number again.                           *)

Emitting(stream) == tx[stream].phase = "EMITTING"

\* The messages on the air and in the hands of the application were begun.
IdsBegun ==
    /\ \A f \in air : f.message.id <= begun
    /\ \A d \in delivered : d[2] <= begun
    /\ \A stream \in Streams : Emitting(stream) => tx[stream].message.id <= begun

\* The newest message the transmitter may have given a number to.
NewestId(stream) == IF Emitting(stream) THEN tx[stream].message.id ELSE begun + 1

AirOf(stream) == {f \in air : f.message.stream = stream}

SenderNumbers(stream, num, top, heard) ==
    /\ heard <= top
    /\ Cong(top, tx[stream].nextSequence)
    /\ Emitting(stream) =>
          /\ num[tx[stream].message.id] = top
          /\ tx[stream].message.sequence = tx[stream].nextSequence
    /\ \A f \in AirOf(stream) :
          /\ Cong(num[f.message.id], f.message.sequence)
          /\ heard - Lag <= num[f.message.id] /\ num[f.message.id] <= heard
          /\ top - num[f.message.id] <= NewestId(stream) - f.message.id

\* Deliveries of the stream that the receiver still remembers.
Remembered(stream) == {d \in delivered \ forgotten : d[1] = stream}

RememberedNumbers(stream, num) == {num[d[2]] : d \in Remembered(stream)}

ReceiverNumbers(stream, num, heard) ==
    /\ \A k \in WindowIndex(stream) :
          \E t \in Int : /\ t < heard + WindowSize
                         /\ Covers(replay[k].window, t, RememberedNumbers(stream, num))
    /\ WindowIndex(stream) = {} => Remembered(stream) = {}

StreamInv(stream) ==
    \E num \in [Ids -> Int], top \in Int, heard \in Int :
       /\ SenderNumbers(stream, num, top, heard)
       /\ ReceiverNumbers(stream, num, heard)

OnceInv ==
    /\ CoreInv
    /\ IdsBegun
    /\ \A stream \in Streams : StreamInv(stream)
    /\ repeated = {}

\* A window that covers some messages covers fewer of them.
LEMMA CoversFewer ==
    ASSUME NEW w, NEW t, NEW D, NEW E \in SUBSET D, Covers(w, t, D)
    PROVE  Covers(w, t, E)
BY DEF Covers

\* At the start every stream numbers from its initial sequence number.
LEMMA OnceInit == Init => OnceInv
<1> SUFFICES ASSUME Init PROVE OnceInv
    OBVIOUS
<1>1. CoreInv
    BY CoreInit
<1>2. IdsBegun
    BY DEF Init, IdsBegun, Emitting
<1>3. ASSUME NEW stream \in Streams PROVE StreamInv(stream)
    <2> DEFINE num == [id \in Ids |-> 0]
    <2>1. num \in [Ids -> Int] /\ InitialSequence \in Int
        BY SizesPositive DEF Serials
    <2>2. SenderNumbers(stream, num, InitialSequence, InitialSequence)
        <3>1. Cong(InitialSequence, InitialSequence)
            BY <2>1, TrivialMultiples DEF Cong
        <3>2. /\ ~Emitting(stream) /\ AirOf(stream) = {}
              /\ tx[stream].nextSequence = InitialSequence
            BY DEF Init, Emitting, AirOf
        <3> QED
            BY <2>1, <3>1, <3>2 DEF SenderNumbers
    <2>3. ReceiverNumbers(stream, num, InitialSequence)
        BY DEF Init, ReceiverNumbers, WindowIndex, Remembered
    <2> HIDE DEF num
    <2> QED
        BY <2>1, <2>2, <2>3 DEF StreamInv
<1> QED
    BY <1>1, <1>2, <1>3 DEF OnceInv, Init

\* The receiver's side of a stream depends on its tables and on deliveries only.
LEMMA ReceiverUntouched ==
    ASSUME NEW stream, NEW num, NEW heard, ReceiverNumbers(stream, num, heard),
           UNCHANGED <<replay, delivered, forgotten>>
    PROVE  ReceiverNumbers(stream, num, heard)'
BY DEF ReceiverNumbers, WindowIndex, RememberedNumbers, Remembered

\* A stream that another one's transmitter or a failed begin leaves alone.
LEMMA StreamUntouched ==
    ASSUME CoreInv, NEW stream \in Streams, StreamInv(stream),
           UNCHANGED <<replay, delivered, forgotten>>,
           tx'[stream].nextSequence = tx[stream].nextSequence,
           Emitting(stream) => tx'[stream] = tx[stream],
           Emitting(stream)' => tx'[stream] = tx[stream],
           AirOf(stream)' \subseteq AirOf(stream),
           begun' \in Nat, begun' >= begun
    PROVE  StreamInv(stream)'
<1>1. PICK num \in [Ids -> Int], top \in Int, heard \in Int :
         /\ SenderNumbers(stream, num, top, heard)
         /\ ReceiverNumbers(stream, num, heard)
    BY DEF StreamInv
<1>2. begun \in Nat /\ (tx[stream].message.id \in Int \/ ~Emitting(stream))
    BY SizesPositive DEF CoreInv, TypeInv, Sending, Emitting, Messages, Ids
<1>3. NewestId(stream)' >= NewestId(stream)
      /\ NewestId(stream) \in Int /\ NewestId(stream)' \in Int
    BY <1>2 DEF NewestId, Emitting
<1>4. \A f \in AirOf(stream)' : num[f.message.id] \in Int /\ f.message.id \in Int
    BY DEF CoreInv, TypeInv, AirOf, Frames, Messages, Ids
<1>5. SenderNumbers(stream, num, top, heard)'
    <2>1. ASSUME NEW f \in AirOf(stream)'
          PROVE  /\ Cong(num[f.message.id], f.message.sequence)
                 /\ heard - Lag <= num[f.message.id] /\ num[f.message.id] <= heard
                 /\ top - num[f.message.id] <= NewestId(stream)' - f.message.id
        <3>1. top - num[f.message.id] <= NewestId(stream) - f.message.id
            BY <1>1, <2>1 DEF SenderNumbers
        <3>2. top - num[f.message.id] <= NewestId(stream)' - f.message.id
            BY <1>3, <1>4, <3>1
        <3> QED
            BY <1>1, <2>1, <3>2 DEF SenderNumbers
    <2>2. Emitting(stream)' =>
             /\ num[tx'[stream].message.id] = top
             /\ tx'[stream].message.sequence = tx'[stream].nextSequence
        BY <1>1 DEF SenderNumbers, Emitting
    <2>3. heard <= top /\ Cong(top, tx'[stream].nextSequence)
        BY <1>1 DEF SenderNumbers
    <2> QED
        BY <2>1, <2>2, <2>3 DEF SenderNumbers
<1>6. ReceiverNumbers(stream, num, heard)'
    BY <1>1, ReceiverUntouched
<1> QED
    BY <1>5, <1>6 DEF StreamInv

\* The messages of a stream keep their numbers when the next one gets its own.
LEMMA StreamBegins ==
    ASSUME CoreInv, IdsBegun, NEW stream \in Streams, StreamInv(stream),
           NEW meta \in Metas, NEW count \in 1 .. MaxFragments,
           Begin(stream, meta, count)
    PROVE  StreamInv(stream)'
<1>1. PICK num \in [Ids -> Int], top \in Int, heard \in Int :
         /\ SenderNumbers(stream, num, top, heard)
         /\ ReceiverNumbers(stream, num, heard)
    BY DEF StreamInv
<1>2. /\ begun \in Nat /\ begun' = begun + 1 /\ begun' \in Ids
      /\ ~Emitting(stream) /\ UNCHANGED <<air, replay, delivered, forgotten>>
    BY SizesPositive DEF Begin, CoreInv, TypeInv, Ids, Emitting, airVars, rxVars, ghosts
<1>3. tx[stream] \in Transmitters /\ tx \in [Streams -> Transmitters]
    BY DEF CoreInv, TypeInv
<1>4. /\ tx'[stream].phase = "EMITTING"
      /\ tx'[stream].nextSequence = tx[stream].nextSequence
      /\ tx'[stream].message.id = begun'
      /\ tx'[stream].message.sequence = tx[stream].nextSequence
    BY <1>3 DEF Begin, Transmitters
<1>5. PICK numbered \in [Ids -> Int] :
         /\ numbered[begun'] = top
         /\ \A id \in Ids : id <= begun => numbered[id] = num[id]
    <2>1. /\ [num EXCEPT ![begun'] = top] \in [Ids -> Int]
          /\ [num EXCEPT ![begun'] = top][begun'] = top
          /\ \A id \in Ids : id <= begun => [num EXCEPT ![begun'] = top][id] = num[id]
        BY <1>2
    <2> QED
        BY <2>1
<1>6. NewestId(stream)' = begun + 1 /\ NewestId(stream) = begun + 1
    BY <1>2, <1>4 DEF NewestId, Emitting
<1>7. AirOf(stream)' = AirOf(stream)
    BY <1>2 DEF AirOf
<1>8. \A f \in AirOf(stream) : numbered[f.message.id] = num[f.message.id]
    BY <1>5 DEF CoreInv, TypeInv, IdsBegun, AirOf, Frames, Messages
<1>9. SenderNumbers(stream, numbered, top, heard)'
    <2>1. \A f \in AirOf(stream)' :
             /\ Cong(numbered[f.message.id], f.message.sequence)
             /\ heard - Lag <= numbered[f.message.id] /\ numbered[f.message.id] <= heard
             /\ top - numbered[f.message.id] <= NewestId(stream)' - f.message.id
        BY <1>1, <1>6, <1>7, <1>8 DEF SenderNumbers
    <2> QED
        BY <1>1, <1>4, <1>5, <2>1 DEF SenderNumbers, Emitting
<1>10. RememberedNumbers(stream, numbered) = RememberedNumbers(stream, num)
    <2>1. \A d \in Remembered(stream) : numbered[d[2]] = num[d[2]]
        BY <1>5 DEF CoreInv, TypeInv, IdsBegun, Remembered
    <2> QED
        BY <2>1 DEF RememberedNumbers
<1>11. ReceiverNumbers(stream, numbered, heard)
    BY <1>1, <1>10 DEF ReceiverNumbers
<1>12. ReceiverNumbers(stream, numbered, heard)'
    BY <1>2, <1>11, ReceiverUntouched
<1> QED
    BY <1>5, <1>9, <1>12 DEF StreamInv

\* The next fragment, on the air or lost in a failed emit: the newest message
\* heard is then the one being sent, and its number is the newest one.
LEMMA StreamPolled ==
    ASSUME CoreInv, IdsBegun, NEW stream \in Streams, StreamInv(stream),
           Emitting(stream), NEW phase \in Phases,
           tx' = [tx EXCEPT ![stream] = Polled(stream, phase)],
           phase = "EMITTING" => ~LastFragment(stream),
           Hear(CurrentFrame(stream)) \/ UNCHANGED airVars,
           begun' = begun, UNCHANGED <<replay, delivered, forgotten>>
    PROVE  StreamInv(stream)'
<1>1. PICK num \in [Ids -> Int], top \in Int, heard \in Int :
         /\ SenderNumbers(stream, num, top, heard)
         /\ ReceiverNumbers(stream, num, heard)
    BY DEF StreamInv
<1> DEFINE m == tx[stream].message
           last == LastFragment(stream)
<1>0. PICK next \in Int : next = IF last THEN top + 1 ELSE top
    OBVIOUS
<1>2. /\ tx[stream] \in Transmitters /\ tx \in [Streams -> Transmitters]
      /\ m \in Messages /\ m.stream = stream
    BY DEF CoreInv, TypeInv, Emitting, Sending
<1>3. m.id \in Ids /\ m.id <= begun /\ begun \in Nat /\ m.id \in Nat
    BY <1>2, SizesPositive DEF Messages, IdsBegun, CoreInv, TypeInv, Ids
<1>4. /\ num[m.id] = top /\ m.sequence = tx[stream].nextSequence
      /\ Cong(top, tx[stream].nextSequence) /\ heard <= top
      /\ \A f \in AirOf(stream) :
            /\ Cong(num[f.message.id], f.message.sequence)
            /\ heard - Lag <= num[f.message.id] /\ num[f.message.id] <= heard
            /\ top - num[f.message.id] <= m.id - f.message.id
    BY <1>1 DEF SenderNumbers, NewestId
<1>5. /\ tx'[stream].phase = phase /\ tx'[stream].message = m
      /\ tx'[stream].nextSequence = IF last THEN WrappingInc(tx[stream].nextSequence)
                                    ELSE tx[stream].nextSequence
    <2>1. tx'[stream] = Polled(stream, phase)
        BY <1>2
    <2>2. Polled(stream, phase).nextSequence =
             IF last THEN WrappingInc(tx[stream].nextSequence) ELSE tx[stream].nextSequence
        BY <1>2 DEF Polled, Transmitters
    <2> QED
        BY <2>1, <2>2, PolledType DEF CoreInv
<1>6. tx[stream].nextSequence \in Serials
    BY <1>2 DEF Transmitters
<1>7. next \in Int /\ next >= top /\ Cong(next, tx'[stream].nextSequence)
    <2>1. CASE last
        BY <1>4, <1>5, <1>6, <1>0, <2>1, IncCong
    <2>2. CASE ~last
        BY <1>4, <1>5, <1>0, <2>2
    <2> QED BY <2>1, <2>2
<1>8. /\ NewestId(stream)' \in Nat /\ NewestId(stream)' >= m.id
      /\ last => NewestId(stream)' >= m.id + 1
    <2>1. CASE phase = "EMITTING"
        BY <1>3, <1>5, <2>1 DEF NewestId, Emitting
    <2>2. CASE phase # "EMITTING"
        <3>1. NewestId(stream)' = begun + 1
            BY <1>5, <2>2 DEF NewestId, Emitting
        <3> QED
            BY <1>3, <3>1
    <2> QED BY <2>1, <2>2
<1>9. Emitting(stream)' =>
         /\ num[tx'[stream].message.id] = next
         /\ tx'[stream].message.sequence = tx'[stream].nextSequence
    BY <1>0, <1>4, <1>5 DEF Emitting
<1>10. \A f \in AirOf(stream) : f.message.id \in Int /\ num[f.message.id] \in Int
    BY DEF CoreInv, TypeInv, AirOf, Frames, Messages, Ids
<1>11. ASSUME NEW f \in AirOf(stream)
       PROVE  next - num[f.message.id] <= NewestId(stream)' - f.message.id
    <2>1. top - num[f.message.id] <= m.id - f.message.id
        BY <1>4, <1>11
    <2>2. f.message.id \in Int /\ num[f.message.id] \in Int
        BY <1>10, <1>11
    <2>3. next - top <= NewestId(stream)' - m.id
        BY <1>3, <1>8, <1>0
    <2> HIDE DEF last, m
    <2> QED
        BY <1>3, <1>7, <1>8, <2>1, <2>2, <2>3 DEF m
<1>12. CASE UNCHANGED airVars
    <2>1. AirOf(stream)' = AirOf(stream)
        BY <1>12 DEF airVars, AirOf
    <2>2. heard <= next
        BY <1>4, <1>7
    <2>3. SenderNumbers(stream, num, next, heard)'
        BY <1>4, <1>7, <1>9, <1>11, <2>1, <2>2 DEF SenderNumbers
    <2>4. ReceiverNumbers(stream, num, heard)'
        BY <1>1, ReceiverUntouched
    <2> QED
        BY <1>7, <2>3, <2>4 DEF StreamInv
<1>13. CASE Hear(CurrentFrame(stream))
    <2>1. \A f \in AirOf(stream)' :
             \/ f = CurrentFrame(stream)
             \/ f \in AirOf(stream) /\ m.id - f.message.id <= Lag
        BY <1>13, CurrentFrameType DEF Hear, AirOf, CoreInv, Emitting
    <2>2. CurrentFrame(stream).message = m
        BY CurrentFrameType DEF CoreInv, Emitting
    <2> HIDE DEF m, last
    <2>3. ASSUME NEW f \in AirOf(stream)'
          PROVE  /\ Cong(num[f.message.id], f.message.sequence)
                 /\ top - Lag <= num[f.message.id] /\ num[f.message.id] <= top
                 /\ next - num[f.message.id] <= NewestId(stream)' - f.message.id
        <3>1. CASE f = CurrentFrame(stream)
            <4>1. f.message = m
                BY <2>2, <3>1
            <4>2. next - top <= NewestId(stream)' - m.id
                BY <1>3, <1>7, <1>8, <1>0
            <4> QED
                BY <1>4, <4>1, <4>2, SizesPositive
        <3>2. CASE f \in AirOf(stream) /\ m.id - f.message.id <= Lag
            <4>1. /\ Cong(num[f.message.id], f.message.sequence)
                  /\ num[f.message.id] <= heard
                  /\ top - num[f.message.id] <= m.id - f.message.id
                  /\ num[f.message.id] \in Int /\ f.message.id \in Int
                BY <1>4, <1>10, <3>2
            <4>2. top - Lag <= num[f.message.id] /\ num[f.message.id] <= top
                BY <1>3, <1>4, <3>2, <4>1, SizesPositive
            <4> QED
                BY <1>11, <3>2, <4>1, <4>2
        <3> QED BY <2>1, <2>3, <3>1, <3>2
    <2>4. top <= next
        BY <1>7
    <2>5. SenderNumbers(stream, num, next, top)'
        BY <1>7, <1>9, <2>3, <2>4 DEF SenderNumbers
    <2>6. ReceiverNumbers(stream, num, top)
        <3>1. ASSUME NEW k \in WindowIndex(stream)
              PROVE  \E t \in Int : /\ t < top + WindowSize
                                    /\ Covers(replay[k].window, t,
                                              RememberedNumbers(stream, num))
            <4>1. PICK t \in Int : /\ t < heard + WindowSize
                                   /\ Covers(replay[k].window, t,
                                             RememberedNumbers(stream, num))
                BY <1>1 DEF ReceiverNumbers
            <4>2. t < top + WindowSize
                BY <1>4, <4>1, SerialAssumption
            <4> QED
                BY <4>1, <4>2
        <3> QED
            BY <1>1, <3>1 DEF ReceiverNumbers
    <2>7. ReceiverNumbers(stream, num, top)'
        BY <2>6, ReceiverUntouched
    <2> QED
        BY <1>7, <2>5, <2>7 DEF StreamInv
<1> QED
    BY <1>12, <1>13

\* What ingest_frame() does to the deliveries and the tables.
Handing(m) == HandOver(m) /\ replay' = Committed(m)

Committing(m) ==
    /\ forgotten' = forgotten \cup Evicted(m)
    /\ UNCHANGED <<delivered, repeated>>
    /\ replay' = Committed(m)

\* The deliveries the receiver remembers of other streams, after a commit of m.
LEMMA RememberedOfOthers ==
    ASSUME CoreInv, NEW m \in Messages, Handing(m) \/ Committing(m),
           NEW stream \in Streams, stream # m.stream
    PROVE  /\ Remembered(stream)' \subseteq Remembered(stream)
           /\ TakesOldest(m) /\ stream = Head(replay).stream => Remembered(stream)' = {}
<1>1. TakesOldest(m) => Evicted(m) = {d \in delivered : d[1] = Head(replay).stream}
    BY DEF TakesOldest, Evicted
<1>2. <<m.stream, m.id>>[1] = m.stream
    OBVIOUS
<1> QED
    BY <1>1, <1>2 DEF Handing, Committing, HandOver, Remembered

\* Of its own stream, handing m over adds m; without the hand-over nothing is
\* added.  The entry of a stream is never taken over by the stream itself.
LEMMA RememberedOfSender ==
    ASSUME CoreInv, NEW m \in Messages
    PROVE  /\ Handing(m) => Remembered(m.stream)' =
                               Remembered(m.stream) \cup {<<m.stream, m.id>>}
           /\ Committing(m) => Remembered(m.stream)' = Remembered(m.stream)
<1>1. \A d \in Evicted(m) : d[1] # m.stream
    <2>1. CASE TakesOldest(m)
        <3>1. Len(replay) \in Nat /\ Len(replay) >= 1 /\ DOMAIN replay = 1 .. Len(replay)
            BY <2>1, SizesPositive DEF TakesOldest, CoreInv, TypeInv
        <3>2. Head(replay) = replay[1] /\ 1 \in DOMAIN replay
            BY <3>1 DEF CoreInv, TypeInv
        <3>3. Head(replay).stream # m.stream
            BY <2>1, <3>2 DEF TakesOldest, WindowIndex
        <3> QED
            BY <3>3 DEF Evicted
    <2>2. CASE ~TakesOldest(m)
        BY <2>2 DEF TakesOldest, Evicted
    <2> QED BY <2>1, <2>2
<1>2. <<m.stream, m.id>>[1] = m.stream
    OBVIOUS
<1> QED
    BY <1>1, <1>2 DEF Handing, Committing, HandOver, Remembered

\* A commit of m leaves the windows of other streams covering what they covered.
LEMMA OthersReceive ==
    ASSUME CoreInv, NEW m \in Messages, Handing(m) \/ Committing(m),
           NEW stream \in Streams, stream # m.stream,
           NEW num, NEW heard, ReceiverNumbers(stream, num, heard)
    PROVE  ReceiverNumbers(stream, num, heard)'
<1>1. /\ replay' = Committed(m) /\ replay \in Seq(ReplayEntries)
      /\ Len(replay) <= ReplayStreams /\ DistinctStreams(replay)
    BY DEF Handing, Committing, CoreInv, TypeInv, TableInv
<1>2. /\ \A j \in DOMAIN replay' :
            replay'[j].stream # m.stream => \E k \in DOMAIN replay : replay'[j] = replay[k]
      /\ \A k \in DOMAIN replay :
            replay[k].stream # m.stream /\ ~(TakesOldest(m) /\ k = 1) =>
               \E j \in DOMAIN replay' : replay'[j] = replay[k]
    BY <1>1, CommittedEntries
<1>3. RememberedNumbers(stream, num)' \subseteq RememberedNumbers(stream, num)
    BY RememberedOfOthers DEF RememberedNumbers
<1>4. ASSUME NEW j \in WindowIndex(stream)'
      PROVE  \E t \in Int : /\ t < heard + WindowSize
                            /\ Covers(replay'[j].window, t, RememberedNumbers(stream, num)')
    <2>1. j \in DOMAIN replay' /\ replay'[j].stream = stream
        BY DEF WindowIndex
    <2>2. PICK k \in DOMAIN replay : replay'[j] = replay[k]
        BY <1>2, <2>1
    <2>3. k \in WindowIndex(stream)
        BY <2>1, <2>2 DEF WindowIndex
    <2>4. PICK t \in Int : /\ t < heard + WindowSize
                           /\ Covers(replay[k].window, t, RememberedNumbers(stream, num))
        BY <2>3 DEF ReceiverNumbers
    <2>5. Covers(replay[k].window, t, RememberedNumbers(stream, num)')
        BY <1>3, <2>4, CoversFewer
    <2> QED
        BY <2>2, <2>4, <2>5
<1>5. ASSUME WindowIndex(stream)' = {} PROVE Remembered(stream)' = {}
    <2>1. CASE WindowIndex(stream) = {}
        BY <2>1, RememberedOfOthers DEF ReceiverNumbers
    <2>2. CASE WindowIndex(stream) # {}
        <3>1. PICK k \in DOMAIN replay : replay[k].stream = stream
            BY <2>2 DEF WindowIndex
        <3>2. TakesOldest(m) /\ k = 1
            BY <1>2, <1>5, <3>1 DEF WindowIndex
        <3>3. Head(replay) = replay[1]
            BY <1>1, <3>1, <3>2
        <3> QED
            BY <3>1, <3>2, <3>3, RememberedOfOthers
    <2> QED BY <2>1, <2>2
<1> QED
    BY <1>4, <1>5 DEF ReceiverNumbers

\* A commit of m, which no window of its stream refused: m was not remembered,
\* and the window covers it from now on.
LEMMA SenderReceives ==
    ASSUME WindowSize + Lag <= HalfRange + 1,
           CoreInv, NEW m \in Messages, Handing(m) \/ Committing(m), ~IsReplay(m),
           NEW num \in [Ids -> Int], NEW heard \in Int,
           ReceiverNumbers(m.stream, num, heard),
           Cong(num[m.id], m.sequence),
           heard - Lag <= num[m.id], num[m.id] <= heard
    PROVE  /\ <<m.stream, m.id>> \notin delivered \ forgotten
           /\ ReceiverNumbers(m.stream, num, heard)'
<1> DEFINE i == num[m.id]
           D == RememberedNumbers(m.stream, num)
           added == Remembered(m.stream) \cup {<<m.stream, m.id>>}
<1>1. /\ replay' = Committed(m) /\ replay \in Seq(ReplayEntries)
      /\ Len(replay) <= ReplayStreams /\ DistinctStreams(replay)
    BY DEF Handing, Committing, CoreInv, TypeInv, TableInv
<1>2. m.id \in Ids /\ m.sequence \in Serials /\ m.stream \in Streams /\ i \in Int
    BY DEF Messages
<1>3. D \in SUBSET Int
    BY DEF RememberedNumbers, Remembered, CoreInv, TypeInv
<1>4. RememberedNumbers(m.stream, num)' \subseteq D \cup {i}
    <2>1. Remembered(m.stream)' \subseteq added
        BY RememberedOfSender
    <2>2. <<m.stream, m.id>>[2] = m.id
        OBVIOUS
    <2> QED
        BY <2>1, <2>2 DEF RememberedNumbers
<1>5. <<m.stream, m.id>> \in delivered \ forgotten =>
         /\ <<m.stream, m.id>> \in Remembered(m.stream)
         /\ i \in D
    <2>1. <<m.stream, m.id>>[1] = m.stream /\ <<m.stream, m.id>>[2] = m.id
        OBVIOUS
    <2> QED
        BY <2>1 DEF Remembered, RememberedNumbers
<1>6. \E j \in DOMAIN replay' : replay'[j].stream = m.stream
    BY <1>1, CommittedEntries
<1>7. WindowIndex(m.stream)' # {}
    BY <1>6 DEF WindowIndex
<1>8. \A j \in WindowIndex(m.stream)' :
         \/ \E k \in WindowIndex(m.stream) :
               replay'[j].window = Commit(replay[k].window, m.sequence)
         \/ /\ WindowIndex(m.stream) = {}
            /\ replay'[j].window = Commit(NewWindow, m.sequence)
    BY <1>1, CommittedEntries DEF WindowIndex
<1> HIDE DEF i, D, added
<1>9. CASE WindowIndex(m.stream) = {}
    <2>1. Remembered(m.stream) = {} /\ D = {}
        BY <1>9 DEF ReceiverNumbers, D, RememberedNumbers
    <2>2. Covers(Commit(NewWindow, m.sequence), i, {i})
        BY <1>2, FirstCommitCovers DEF i
    <2>3. i < heard + WindowSize
        BY <1>2, SerialAssumption DEF i
    <2>4. RememberedNumbers(m.stream, num)' \in SUBSET {i}
        BY <1>4, <2>1
    <2>5. Covers(Commit(NewWindow, m.sequence), i, RememberedNumbers(m.stream, num)')
        BY <2>2, <2>4, CoversFewer
    <2>6. ReceiverNumbers(m.stream, num, heard)'
        BY <1>2, <1>7, <1>8, <1>9, <2>3, <2>5 DEF ReceiverNumbers
    <2> QED
        BY <1>5, <2>1, <2>6
<1>10. CASE WindowIndex(m.stream) # {}
    <2>1. ASSUME NEW k \in WindowIndex(m.stream)
          PROVE  /\ i \notin D
                 /\ \E u \in Int : /\ u < heard + WindowSize
                                   /\ Covers(Commit(replay[k].window, m.sequence), u,
                                             RememberedNumbers(m.stream, num)')
        <3>1. k \in DOMAIN replay /\ replay[k].stream = m.stream
            BY DEF WindowIndex
        <3>2. /\ Classify(replay[k].window, m.sequence) = "Accept"
              /\ replay[k].window \in Windows /\ replay[k].window.initialized
            BY <3>1, AcceptedIsUnseen DEF Tight
        <3>3. PICK t \in Int : /\ t < heard + WindowSize
                               /\ Covers(replay[k].window, t, D)
            BY DEF ReceiverNumbers, D
        <3>4. Lag \in Nat /\ Cong(i, m.sequence) /\ heard - Lag <= i /\ i <= heard
            BY SizesPositive DEF i
        <3>5. /\ i \notin D
              /\ \E u \in Int : /\ u < heard + WindowSize
                                /\ Covers(Commit(replay[k].window, m.sequence), u, D \cup {i})
            BY <1>2, <1>3, <3>2, <3>3, <3>4, CommitCovers
        <3>6. PICK u \in Int : /\ u < heard + WindowSize
                               /\ Covers(Commit(replay[k].window, m.sequence), u, D \cup {i})
            BY <3>5
        <3>7. Covers(Commit(replay[k].window, m.sequence), u,
                     RememberedNumbers(m.stream, num)')
            BY <1>4, <3>6, CoversFewer
        <3> QED
            BY <3>5, <3>6, <3>7
    <2>2. i \notin D
        BY <1>10, <2>1
    <2>3. ReceiverNumbers(m.stream, num, heard)'
        BY <1>7, <1>8, <1>10, <2>1 DEF ReceiverNumbers
    <2> QED
        BY <1>5, <2>2, <2>3
<1> QED
    BY <1>9, <1>10

\* A delivery, whatever becomes of it.
LEMMA DeliverOnce ==
    ASSUME WindowSize + Lag <= HalfRange + 1,
           OnceInv, NEW f \in air, Handing(f.message) \/ Committing(f.message),
           ~IsReplay(f.message), UNCHANGED <<txVars, airVars>>
    PROVE  /\ \A stream \in Streams : StreamInv(stream)'
           /\ <<f.message.stream, f.message.id>> \notin delivered \ forgotten
<1>1. CoreInv /\ \A stream \in Streams : StreamInv(stream)
    BY DEF OnceInv
<1>2. f.message \in Messages /\ f.message.stream \in Streams /\ f \in AirOf(f.message.stream)
    BY <1>1 DEF CoreInv, TypeInv, Frames, Messages, AirOf
<1>3. \A stream, num, top, heard :
         SenderNumbers(stream, num, top, heard) => SenderNumbers(stream, num, top, heard)'
    BY DEF SenderNumbers, AirOf, Emitting, NewestId, txVars, airVars
<1>4. ASSUME NEW stream \in Streams
      PROVE  /\ StreamInv(stream)'
             /\ stream = f.message.stream =>
                   <<f.message.stream, f.message.id>> \notin delivered \ forgotten
    <2>1. PICK num \in [Ids -> Int], top \in Int, heard \in Int :
             /\ SenderNumbers(stream, num, top, heard)
             /\ ReceiverNumbers(stream, num, heard)
        BY <1>1 DEF StreamInv
    <2>2. CASE stream = f.message.stream
        <3>1. /\ Cong(num[f.message.id], f.message.sequence)
              /\ heard - Lag <= num[f.message.id] /\ num[f.message.id] <= heard
            BY <1>2, <2>1, <2>2 DEF SenderNumbers
        <3>2. /\ <<f.message.stream, f.message.id>> \notin delivered \ forgotten
              /\ ReceiverNumbers(stream, num, heard)'
            BY <1>1, <1>2, <2>1, <2>2, <3>1, SenderReceives
        <3> QED
            BY <1>3, <2>1, <3>2 DEF StreamInv
    <2>3. CASE stream # f.message.stream
        <3>1. ReceiverNumbers(stream, num, heard)'
            BY <1>1, <1>2, <2>1, <2>3, OthersReceive
        <3> QED
            BY <1>3, <2>1, <2>3, <3>1 DEF StreamInv
    <2> QED BY <2>2, <2>3
<1> QED
    BY <1>2, <1>4

\* The transmitters' steps keep every stream's numbers.
LEMMA SenderOnce ==
    ASSUME OnceInv, NEW sender \in Streams,
           \/ \E meta \in Metas, count \in 1 .. MaxFragments : Begin(sender, meta, count)
           \/ BeginFails(sender) \/ SendFragment(sender) \/ EmitFails(sender)
    PROVE  IdsBegun' /\ (\A stream \in Streams : StreamInv(stream)')
<1>1. CoreInv /\ IdsBegun /\ \A stream \in Streams : StreamInv(stream)
    BY DEF OnceInv
<1>2. /\ tx \in [Streams -> Transmitters] /\ begun \in Nat /\ air \subseteq Frames
      /\ tx[sender] \in Transmitters
    BY <1>1 DEF CoreInv, TypeInv
<1>3. UNCHANGED <<replay, delivered, forgotten>>
    BY DEF Begin, BeginFails, SendFragment, EmitFails, rxVars, ghosts
<1>4. begun' \in Nat /\ begun' >= begun
    BY <1>2 DEF Begin, BeginFails, SendFragment, EmitFails
<1>5. \A stream \in Streams \ {sender} : tx'[stream] = tx[stream]
    BY <1>2 DEF Begin, BeginFails, SendFragment, EmitFails
<1>6. \/ air' = air
      \/ /\ Emitting(sender)
         /\ air' \subseteq air \cup {CurrentFrame(sender)}
         /\ CurrentFrame(sender).message = tx[sender].message
         /\ tx[sender].message.stream = sender
    <2>1. ASSUME Emitting(sender), Hear(CurrentFrame(sender))
          PROVE  /\ air' \subseteq air \cup {CurrentFrame(sender)}
                 /\ CurrentFrame(sender).message = tx[sender].message
                 /\ tx[sender].message.stream = sender
        BY <1>1, <2>1, CurrentFrameType
           DEF Hear, CoreInv, TypeInv, Emitting, Sending
    <2> QED
        BY <2>1 DEF Begin, BeginFails, SendFragment, EmitFails, airVars, Emitting
<1>7. \A stream \in Streams \ {sender} : AirOf(stream)' \subseteq AirOf(stream)
    BY <1>6 DEF AirOf
<1>8. ASSUME NEW stream \in Streams \ {sender} PROVE StreamInv(stream)'
    <2>1. tx'[stream] = tx[stream]
        BY <1>5
    <2> QED
        BY <1>1, <1>3, <1>4, <1>7, <2>1, StreamUntouched
<1>9. CASE \E meta \in Metas, count \in 1 .. MaxFragments : Begin(sender, meta, count)
    <2>1. PICK meta \in Metas, count \in 1 .. MaxFragments : Begin(sender, meta, count)
        BY <1>9
    <2>2. StreamInv(sender)'
        BY <1>1, <2>1, StreamBegins
    <2>3. tx'[sender].message.id = begun' /\ air' = air /\ delivered' = delivered
        BY <1>2, <2>1 DEF Begin, Transmitters, airVars, ghosts
    <2>4. IdsBegun'
        <3>1. \A f \in air' : f.message.id <= begun'
            BY <1>1, <1>2, <1>4, <2>3 DEF IdsBegun, Frames, Messages, Ids
        <3>2. \A d \in delivered' : d[2] <= begun'
            BY <1>1, <1>2, <1>4, <2>3 DEF IdsBegun, CoreInv, TypeInv, Ids
        <3>3. \A stream \in Streams : Emitting(stream)' => tx'[stream].message.id <= begun'
            <4>1. TAKE stream \in Streams
            <4>2. HAVE Emitting(stream)'
            <4>3. CASE stream = sender
                BY <1>4, <2>3, <4>3
            <4>4. CASE stream # sender
                <5>1. tx'[stream] = tx[stream]
                    BY <1>5, <4>4
                <5>2. Emitting(stream) /\ Sending(stream)
                    BY <1>1, <4>2, <5>1 DEF Emitting, CoreInv, TypeInv
                <5>3. tx[stream].message.id <= begun /\ tx[stream].message.id \in Int
                    BY <1>1, <5>2 DEF IdsBegun, Sending, Messages, Ids
                <5> QED
                    BY <1>2, <1>4, <5>1, <5>3
            <4> QED BY <4>3, <4>4
        <3> QED
            BY <3>1, <3>2, <3>3 DEF IdsBegun
    <2> QED
        BY <1>8, <2>2, <2>4
<1>10. CASE BeginFails(sender)
    <2>1. /\ tx'[sender].phase = "FAILED" /\ ~Emitting(sender)
          /\ tx'[sender].nextSequence = tx[sender].nextSequence
          /\ air' = air /\ begun' = begun
        BY <1>2, <1>10 DEF BeginFails, Emitting, Transmitters, airVars
    <2>2. StreamInv(sender)'
        <3>1. AirOf(sender)' \subseteq AirOf(sender) /\ ~Emitting(sender)'
            BY <2>1 DEF AirOf, Emitting
        <3> QED
            BY <1>1, <1>3, <1>4, <2>1, <3>1, StreamUntouched
    <2>3. IdsBegun'
        BY <1>1, <1>3, <1>5, <2>1 DEF IdsBegun, Emitting
    <2> QED
        BY <1>8, <2>2, <2>3
<1>11. CASE SendFragment(sender) \/ EmitFails(sender)
    <2>1. PICK phase \in Phases :
             /\ tx' = [tx EXCEPT ![sender] = Polled(sender, phase)]
             /\ phase = "EMITTING" => ~LastFragment(sender)
        <3>1. CASE SendFragment(sender)
            <4>1. /\ tx' = [tx EXCEPT ![sender] = Polled(sender,
                               IF LastFragment(sender) THEN "DONE" ELSE "EMITTING")]
                  /\ {"DONE", "EMITTING"} \subseteq Phases
                BY <3>1 DEF SendFragment, Phases
            <4> QED BY <4>1
        <3>2. CASE EmitFails(sender)
            BY <3>2 DEF EmitFails, Phases
        <3> QED BY <1>11, <3>1, <3>2
    <2>2. /\ Emitting(sender) /\ begun' = begun
          /\ (Hear(CurrentFrame(sender)) \/ UNCHANGED airVars)
        BY <1>11 DEF SendFragment, EmitFails, Emitting
    <2>3. StreamInv(sender)'
        BY <1>1, <1>3, <2>1, <2>2, StreamPolled
    <2>4. tx'[sender].message = tx[sender].message
        BY <1>1, <1>2, <2>1, PolledType DEF CoreInv
    <2>5. IdsBegun'
        <3>1. \A f \in air' : f.message.id <= begun
            BY <1>1, <1>6 DEF IdsBegun
        <3>2. \A stream \in Streams : Emitting(stream)' => tx'[stream].message.id <= begun
            BY <1>1, <1>5, <2>2, <2>4 DEF IdsBegun, Emitting
        <3> QED
            BY <1>1, <1>3, <2>2, <3>1, <3>2 DEF IdsBegun
    <2> QED
        BY <1>8, <2>3, <2>5
<1> QED
    BY <1>9, <1>10, <1>11

\* A step that leaves the senders, the air and the deliveries alone.
LEMMA OnceUntouched ==
    ASSUME OnceInv, UNCHANGED <<txVars, airVars, replay, delivered, forgotten, repeated>>
    PROVE  /\ IdsBegun' /\ repeated' = {}
           /\ \A stream \in Streams : StreamInv(stream)'
<1>1. \A stream, num, top, heard :
         SenderNumbers(stream, num, top, heard) => SenderNumbers(stream, num, top, heard)'
    BY DEF SenderNumbers, AirOf, Emitting, NewestId, txVars, airVars
<1>2. \A stream, num, heard :
         ReceiverNumbers(stream, num, heard) => ReceiverNumbers(stream, num, heard)'
    BY DEF ReceiverNumbers, WindowIndex, RememberedNumbers, Remembered
<1>3. \A stream \in Streams : StreamInv(stream)'
    BY <1>1, <1>2 DEF OnceInv, StreamInv
<1> QED
    BY <1>3 DEF OnceInv, IdsBegun, Emitting, txVars, airVars

\* Every step keeps the streams' numbers, and nothing is handed over again.
LEMMA OnceStep ==
    ASSUME WindowSize + Lag <= HalfRange + 1, OnceInv, [Next]_vars
    PROVE  OnceInv'
<1>1. CoreInv'
    BY CoreStep DEF OnceInv
<1>2. ASSUME NEW sender \in Streams,
             \/ \E meta \in Metas, count \in 1 .. MaxFragments : Begin(sender, meta, count)
             \/ BeginFails(sender) \/ SendFragment(sender) \/ EmitFails(sender)
      PROVE  OnceInv'
    <2>1. repeated' = repeated
        BY <1>2 DEF Begin, BeginFails, SendFragment, EmitFails, ghosts
    <2> QED
        BY <1>1, <1>2, <2>1, SenderOnce DEF OnceInv
<1>3. ASSUME NEW f \in air, Deliver(f), UNCHANGED <<txVars, airVars>>
      PROVE  OnceInv'
    <2>1. ~IsReplay(f.message) /\ replay' = Committed(f.message)
        BY <1>3 DEF Deliver, Stored
    <2>2. f.message.id <= begun /\ \A d \in delivered : d[2] <= begun
        BY DEF OnceInv, IdsBegun
    <2>3. CASE HandOver(f.message)
        <3>1. Handing(f.message)
            BY <2>1, <2>3 DEF Handing
        <3>2. /\ \A stream \in Streams : StreamInv(stream)'
              /\ <<f.message.stream, f.message.id>> \notin delivered \ forgotten
            BY <1>3, <2>1, <3>1, DeliverOnce
        <3>3. repeated' = {}
            BY <2>3, <3>2 DEF HandOver, OnceInv
        <3>4. \A d \in delivered' : d[2] <= begun
            <4>1. <<f.message.stream, f.message.id>>[2] = f.message.id
                OBVIOUS
            <4> QED
                BY <2>2, <2>3, <4>1 DEF HandOver
        <3>5. IdsBegun'
            BY <1>3, <3>4 DEF OnceInv, IdsBegun, Emitting, txVars, airVars
        <3> QED
            BY <1>1, <3>2, <3>3, <3>5 DEF OnceInv
    <2>4. CASE HandOverBlend(f.message)
        <3>1. Committing(f.message)
            BY <2>1, <2>4 DEF HandOverBlend, Committing
        <3>2. \A stream \in Streams : StreamInv(stream)'
            BY <1>3, <2>1, <3>1, DeliverOnce
        <3>3. IdsBegun' /\ repeated' = {}
            BY <1>3, <2>4 DEF HandOverBlend, OnceInv, IdsBegun, Emitting, txVars, airVars
        <3> QED
            BY <1>1, <3>2, <3>3 DEF OnceInv
    <2> QED
        BY <1>3, <2>3, <2>4 DEF Deliver
<1>4. ASSUME NEW f \in air, Ingest(f) PROVE OnceInv'
    <2>1. UNCHANGED <<txVars, airVars>>
        BY <1>4 DEF Ingest
    <2>2. CASE UNCHANGED <<replay, delivered, forgotten, repeated>>
        BY <1>1, <2>1, <2>2, OnceUntouched DEF OnceInv, txVars, airVars
    <2> QED
        BY <1>3, <1>4, <2>1, <2>2
           DEF Ingest, RefuseReplay, RefuseInconsistent, RefuseDuplicate,
               StoreFragment, RefuseMessage, rxVars, ghosts
<1>5. CASE Reset
    <2>1. /\ replay' = << >> /\ forgotten' = delivered /\ delivered' = delivered
          /\ repeated' = repeated /\ UNCHANGED <<txVars, airVars>>
        BY <1>5 DEF Reset
    <2>2. ASSUME NEW stream \in Streams PROVE StreamInv(stream)'
        <3>1. PICK num \in [Ids -> Int], top \in Int, heard \in Int :
                 SenderNumbers(stream, num, top, heard)
            BY DEF OnceInv, StreamInv
        <3>2. SenderNumbers(stream, num, top, heard)'
            BY <2>1, <3>1 DEF SenderNumbers, AirOf, Emitting, NewestId, txVars, airVars
        <3>3. ReceiverNumbers(stream, num, heard)'
            BY <2>1 DEF ReceiverNumbers, WindowIndex, Remembered
        <3> QED
            BY <3>2, <3>3 DEF StreamInv
    <2>3. IdsBegun'
        BY <2>1 DEF OnceInv, IdsBegun, Emitting, txVars, airVars
    <2> QED
        BY <1>1, <2>1, <2>2, <2>3 DEF OnceInv
<1>6. CASE UNCHANGED vars
    <2>1. UNCHANGED <<txVars, airVars, replay, delivered, forgotten, repeated>>
        BY <1>6 DEF vars, rxVars, ghosts
    <2> QED
        BY <1>1, <2>1, OnceUntouched DEF OnceInv
<1> QED
    BY <1>2, <1>4, <1>5, <1>6 DEF Next

\* c/README.md: the receiver rejects delivered message replays.  While the
\* receiver keeps the entry of its stream, a message reaches the application at
\* most once, as long as no frame stays on the air while the numbers go round:
\* a frame may be Lag messages late, the window takes WindowSize more.
THEOREM DeliveredAtMostOnce ==
    ASSUME WindowSize + Lag <= HalfRange + 1
    PROVE  Spec => []AtMostOnce
<1>1. OnceInv /\ [Next]_vars => OnceInv'
    BY OnceStep
<1>2. OnceInv => AtMostOnce
    BY DEF OnceInv, AtMostOnce
<1> QED
    BY <1>1, <1>2, OnceInit, PTL DEF Spec

-----------------------------------------------------------------------------
(* No mixture, and with it the at-most-once service, while every send        *)
(* succeeds and the numbers do not wrap: a sequence number then belongs to   *)
(* one message, `used` are the messages of the stream.                       *)

\* Every payload of a slot is one of a message that carries its sequence number.
SlotNumbers(stream, used, num) ==
    \A k \in DOMAIN slots : slots[k].stream = stream =>
       \A n \in DOMAIN slots[k].parts :
          /\ slots[k].parts[n] \in used
          /\ Cong(num[slots[k].parts[n]], slots[k].sequence)

UsedNumbers(stream, used, num, first, top) ==
    /\ Cong(top, tx[stream].nextSequence)
    /\ first <= top
    /\ top - first <= IF Emitting(stream) THEN begun - 1 ELSE begun
    /\ Emitting(stream) =>
          /\ tx[stream].message.id \in used
          /\ num[tx[stream].message.id] = top
          /\ tx[stream].message.sequence = tx[stream].nextSequence
    /\ \A id \in used :
          /\ id <= begun
          /\ first <= num[id] /\ num[id] <= top
          /\ num[id] = top => Emitting(stream)
    /\ \A i, j \in used : num[i] = num[j] => i = j
    /\ \A f \in AirOf(stream) :
          f.message.id \in used /\ Cong(num[f.message.id], f.message.sequence)

WholeInv(stream) ==
    \E used \in SUBSET Ids, num \in [Ids -> Int], first \in Int, top \in Int :
       UsedNumbers(stream, used, num, first, top) /\ SlotNumbers(stream, used, num)

ServiceInv ==
    /\ OnceInv
    /\ \A stream \in Streams : WholeInv(stream)
    /\ mixed = {}

\* No slot is in use and nothing was sent at the start.
LEMMA ServiceInit == Init => ServiceInv
<1> SUFFICES ASSUME Init PROVE ServiceInv
    OBVIOUS
<1>1. ASSUME NEW stream \in Streams PROVE WholeInv(stream)
    <2>1. PICK num : num = [id \in Ids |-> 0]
        OBVIOUS
    <2>2. num \in [Ids -> Int] /\ InitialSequence \in Int /\ {} \in SUBSET Ids
        BY <2>1, SizesPositive DEF Serials
    <2>3. /\ ~Emitting(stream) /\ AirOf(stream) = {} /\ DOMAIN slots = {} /\ begun = 0
          /\ tx[stream].nextSequence = InitialSequence
        BY DEF Init, Emitting, AirOf
    <2>4. Cong(InitialSequence, InitialSequence)
        BY <2>2, TrivialMultiples DEF Cong
    <2>5. UsedNumbers(stream, {}, num, InitialSequence, InitialSequence)
        BY <2>2, <2>3, <2>4 DEF UsedNumbers
    <2>6. SlotNumbers(stream, {}, num)
        BY <2>3 DEF SlotNumbers
    <2> QED
        BY <2>2, <2>5, <2>6 DEF WholeInv
<1> QED
    BY <1>1, OnceInit DEF ServiceInv, Init

\* A stream that another transmitter or a failed begin leaves alone.
LEMMA WholeUntouched ==
    ASSUME NEW stream \in Streams, WholeInv(stream), slots' = slots,
           tx'[stream].nextSequence = tx[stream].nextSequence,
           Emitting(stream) => tx'[stream] = tx[stream],
           Emitting(stream)' => tx'[stream] = tx[stream],
           AirOf(stream)' \subseteq AirOf(stream),
           begun \in Nat, begun' \in Nat, begun' >= begun
    PROVE  WholeInv(stream)'
<1>1. PICK used \in SUBSET Ids, num \in [Ids -> Int], first \in Int, top \in Int :
         UsedNumbers(stream, used, num, first, top) /\ SlotNumbers(stream, used, num)
    BY DEF WholeInv
<1>2. Emitting(stream)' = Emitting(stream)
    BY DEF Emitting
<1>3. \A id \in used : id \in Int
    BY SizesPositive DEF Ids
<1>4. /\ \A id \in used : id <= begun'
      /\ top - first <= IF Emitting(stream) THEN begun' - 1 ELSE begun'
    <2>1. \A id \in used : id <= begun
        BY <1>1 DEF UsedNumbers
    <2>2. top - first <= IF Emitting(stream) THEN begun - 1 ELSE begun
        BY <1>1 DEF UsedNumbers
    <2>3. \A id \in used : id <= begun'
        BY <1>3, <2>1
    <2>4. top - first <= IF Emitting(stream) THEN begun' - 1 ELSE begun'
        <3>1. CASE Emitting(stream)
            BY <2>2, <3>1
        <3>2. CASE ~Emitting(stream)
            BY <2>2, <3>2
        <3> QED BY <3>1, <3>2
    <2> QED
        BY <2>3, <2>4
<1>5. UsedNumbers(stream, used, num, first, top)'
    BY <1>1, <1>2, <1>4 DEF UsedNumbers
<1>6. SlotNumbers(stream, used, num)'
    BY <1>1 DEF SlotNumbers
<1> QED
    BY <1>5, <1>6 DEF WholeInv

\* A message begun is the first to carry the next number.
LEMMA WholeBegins ==
    ASSUME CoreInv, NEW stream \in Streams, WholeInv(stream),
           NEW meta \in Metas, NEW count \in 1 .. MaxFragments,
           Begin(stream, meta, count)
    PROVE  WholeInv(stream)'
<1>1. PICK used \in SUBSET Ids, num \in [Ids -> Int], first \in Int, top \in Int :
         UsedNumbers(stream, used, num, first, top) /\ SlotNumbers(stream, used, num)
    BY DEF WholeInv
<1>2. /\ begun \in Nat /\ begun' = begun + 1 /\ begun' \in Ids
      /\ ~Emitting(stream) /\ air' = air /\ slots' = slots
    BY SizesPositive DEF Begin, CoreInv, TypeInv, Ids, Emitting, airVars, rxVars
<1>3. tx[stream] \in Transmitters /\ tx \in [Streams -> Transmitters]
    BY DEF CoreInv, TypeInv
<1>4. /\ tx'[stream].phase = "EMITTING"
      /\ tx'[stream].nextSequence = tx[stream].nextSequence
      /\ tx'[stream].message.id = begun'
      /\ tx'[stream].message.sequence = tx[stream].nextSequence
    BY <1>3 DEF Begin, Transmitters
<1>5. \A id \in used : id \in Ids /\ id <= begun /\ id \in Int
    BY <1>1, SizesPositive DEF UsedNumbers, Ids
<1>6. PICK all \in SUBSET Ids : all = used \cup {begun'}
    BY <1>2
<1>7. PICK numbered \in [Ids -> Int] :
         numbered[begun'] = top /\ \A id \in used : numbered[id] = num[id]
    <2>1. /\ [num EXCEPT ![begun'] = top] \in [Ids -> Int]
          /\ [num EXCEPT ![begun'] = top][begun'] = top
          /\ \A id \in used : [num EXCEPT ![begun'] = top][id] = num[id]
        BY <1>2, <1>5
    <2> QED
        BY <2>1
<1>8. UsedNumbers(stream, all, numbered, first, top)'
    <2>1. Cong(top, tx'[stream].nextSequence) /\ first <= top /\ top - first <= begun' - 1
        BY <1>1, <1>2, <1>4 DEF UsedNumbers
    <2>2. \A id \in all : /\ id <= begun'
                          /\ first <= numbered[id] /\ numbered[id] <= top
        BY <1>1, <1>2, <1>5, <1>6, <1>7, <2>1 DEF UsedNumbers
    <2>3. \A id \in used : numbered[id] # top /\ id # begun'
        BY <1>1, <1>2, <1>5, <1>7 DEF UsedNumbers
    <2>4. \A i, j \in all : numbered[i] = numbered[j] => i = j
        BY <1>1, <1>6, <1>7, <2>3 DEF UsedNumbers
    <2>5. \A f \in AirOf(stream)' :
             f.message.id \in all /\ Cong(numbered[f.message.id], f.message.sequence)
        BY <1>1, <1>2, <1>6, <1>7 DEF UsedNumbers, AirOf
    <2>6. Emitting(stream)'
        BY <1>4 DEF Emitting
    <2> QED
        BY <1>4, <1>6, <1>7, <2>1, <2>2, <2>4, <2>5, <2>6 DEF UsedNumbers
<1>9. SlotNumbers(stream, all, numbered)'
    BY <1>1, <1>2, <1>6, <1>7 DEF SlotNumbers
<1> QED
    BY <1>8, <1>9 DEF WholeInv

\* The last fragment of a message takes its number out of use.
LEMMA WholeSends ==
    ASSUME CoreInv, NEW stream \in Streams, WholeInv(stream), SendFragment(stream)
    PROVE  WholeInv(stream)'
<1>1. PICK used \in SUBSET Ids, num \in [Ids -> Int], first \in Int, top \in Int :
         UsedNumbers(stream, used, num, first, top) /\ SlotNumbers(stream, used, num)
    BY DEF WholeInv
<1> DEFINE m == tx[stream].message
           last == LastFragment(stream)
           phase == IF last THEN "DONE" ELSE "EMITTING"
<1>2. /\ tx[stream] \in Transmitters /\ tx \in [Streams -> Transmitters]
      /\ begun \in Nat /\ Emitting(stream) /\ begun' = begun /\ slots' = slots
    BY DEF CoreInv, TypeInv, SendFragment, Emitting, rxVars
<1>3. /\ tx'[stream].phase = phase /\ tx'[stream].message = m
      /\ tx'[stream].nextSequence = IF last THEN WrappingInc(tx[stream].nextSequence)
                                    ELSE tx[stream].nextSequence
    <2>1. tx'[stream] = Polled(stream, phase) /\ phase \in Phases
        BY <1>2 DEF SendFragment, Phases
    <2>2. Polled(stream, phase).nextSequence =
             IF last THEN WrappingInc(tx[stream].nextSequence) ELSE tx[stream].nextSequence
        BY <1>2 DEF Polled, Transmitters
    <2> HIDE DEF phase
    <2> QED
        BY <2>1, <2>2, PolledType DEF CoreInv
<1>4. \A f \in AirOf(stream)' :
         f.message.id \in used /\ Cong(num[f.message.id], f.message.sequence)
    <2>1. \A f \in AirOf(stream)' : f = CurrentFrame(stream) \/ f \in AirOf(stream)
        BY DEF SendFragment, Hear, AirOf
    <2>2. CurrentFrame(stream).message = m
        BY <1>2, CurrentFrameType DEF CoreInv, Emitting
    <2>3. m.id \in used /\ Cong(num[m.id], m.sequence)
        BY <1>1, <1>2 DEF UsedNumbers
    <2> HIDE DEF m
    <2> QED
        BY <1>1, <2>1, <2>2, <2>3 DEF UsedNumbers
<1>5. SlotNumbers(stream, used, num)'
    BY <1>1, <1>2 DEF SlotNumbers
<1>6. CASE last
    <2>1. ~Emitting(stream)' /\ tx'[stream].nextSequence = WrappingInc(tx[stream].nextSequence)
        BY <1>3, <1>6 DEF Emitting
    <2>2. tx[stream].nextSequence \in Serials /\ Cong(top, tx[stream].nextSequence)
        BY <1>1, <1>2 DEF Transmitters, UsedNumbers
    <2>3. Cong(top + 1, tx'[stream].nextSequence)
        BY <2>1, <2>2, IncCong
    <2>4. /\ first <= top + 1 /\ top + 1 - first <= begun'
          /\ \A id \in used : /\ id <= begun' /\ first <= num[id]
                              /\ num[id] <= top + 1 /\ num[id] # top + 1
          /\ \A i, j \in used : num[i] = num[j] => i = j
        <3>1. first <= top /\ top - first <= begun - 1
            BY <1>1, <1>2 DEF UsedNumbers
        <3>2. first <= top + 1 /\ top + 1 - first <= begun'
            BY <1>2, <3>1
        <3>3. ASSUME NEW id \in used
              PROVE  id <= begun' /\ first <= num[id] /\ num[id] <= top + 1 /\ num[id] # top + 1
            <4>1. num[id] \in Int /\ id <= begun /\ first <= num[id] /\ num[id] <= top
                BY <1>1 DEF UsedNumbers
            <4> QED
                BY <1>2, <4>1
        <3> QED
            BY <1>1, <3>2, <3>3 DEF UsedNumbers
    <2>5. UsedNumbers(stream, used, num, first, top + 1)'
        BY <1>4, <2>1, <2>3, <2>4 DEF UsedNumbers
    <2> QED
        BY <1>5, <2>5 DEF WholeInv
<1>7. CASE ~last
    <2>1. Emitting(stream)' /\ tx'[stream].nextSequence = tx[stream].nextSequence
          /\ tx'[stream].message = tx[stream].message
        BY <1>3, <1>7 DEF Emitting
    <2>2. UsedNumbers(stream, used, num, first, top)'
        BY <1>1, <1>2, <1>4, <2>1 DEF UsedNumbers
    <2> QED
        BY <1>5, <2>2 DEF WholeInv
<1> QED
    BY <1>6, <1>7

\* A message that is complete is put together from its own payloads: another one
\* in the slot would carry a number that differs by a multiple of SeqModulus.
LEMMA StoredIsWhole ==
    ASSUME MaxMessages <= SeqModulus, CoreInv,
           NEW f \in air, Stored(f), WholeInv(f.message.stream)
    PROVE  Whole(f)
<1> DEFINE m == f.message
           slot == SlotOf(f.message)
<1>1. PICK used \in SUBSET Ids, num \in [Ids -> Int], first \in Int, top \in Int :
         UsedNumbers(m.stream, used, num, first, top) /\ SlotNumbers(m.stream, used, num)
    BY DEF WholeInv
<1>2. /\ m \in Messages /\ f \in Frames /\ f \in AirOf(m.stream)
      /\ m.id \in Ids /\ m.sequence \in Serials
      /\ begun \in 0 .. MaxMessages /\ MaxMessages \in Nat
    BY SizesPositive DEF CoreInv, TypeInv, Frames, Messages, AirOf
<1>3. m.id \in used /\ Cong(num[m.id], m.sequence)
    BY <1>1, <1>2 DEF UsedNumbers
<1>4. /\ slot.stream = m.stream /\ slot.sequence = m.sequence
      /\ slot = NewSlot(m) \/ \E k \in DOMAIN slots : slot = slots[k]
    BY <1>2, OtherSlots DEF CoreInv, TypeInv, TableInv
<1>5. ASSUME NEW n \in DOMAIN slot.parts PROVE slot.parts[n] = m.id
    <2>1. slot # NewSlot(m)
        BY <1>5 DEF NewSlot
    <2>2. PICK k \in DOMAIN slots : slot = slots[k]
        BY <1>4, <2>1
    <2> DEFINE id == slot.parts[n]
    <2>3. id \in used /\ Cong(num[id], m.sequence)
        BY <1>1, <1>4, <1>5, <2>2 DEF SlotNumbers
    <2>4. num[id] \in Int /\ num[m.id] \in Int
        BY <1>3, <2>3
    <2>5. Cong(num[id], num[m.id])
        <3>1. Cong(m.sequence, num[m.id]) /\ m.sequence \in Int
            BY <1>2, <1>3, <2>4, CongSymmetric DEF Serials
        <3> HIDE DEF id, m
        <3> QED
            BY <2>3, <2>4, <3>1, CongTransitive
    <2> HIDE DEF id, m
    <2>6. /\ first <= num[id] /\ num[id] <= top
          /\ first <= num[m.id] /\ num[m.id] <= top
        BY <1>1, <1>3, <2>3 DEF UsedNumbers
    <2>7. PICK b \in Int : num[id] <= b /\ num[m.id] <= b /\ b - first < SeqModulus
        <3>1. CASE Emitting(m.stream)
            <4>1. top - first <= begun - 1
                BY <1>1, <3>1 DEF UsedNumbers
            <4> QED
                BY <1>2, <2>6, <4>1, ModulusPositive
        <3>2. CASE ~Emitting(m.stream)
            <4>1. top - first <= begun /\ num[m.id] # top /\ num[id] # top
                BY <1>1, <1>3, <2>3, <3>2 DEF UsedNumbers
            <4>2. num[id] <= top - 1 /\ num[m.id] <= top - 1 /\ top - 1 - first < SeqModulus
                BY <1>2, <2>4, <2>6, <4>1, ModulusPositive
            <4> QED
                BY <4>2
        <3> QED BY <3>1, <3>2
    <2>8. num[id] = num[m.id]
        <3>1. num[id] - num[m.id] \in Multiples
            BY <2>5 DEF Cong
        <3>2. /\ num[id] - num[m.id] < SeqModulus /\ num[id] - num[m.id] > -SeqModulus
              /\ num[id] - num[m.id] \in Int
            BY <2>4, <2>6, <2>7, ModulusPositive
        <3>3. num[id] - num[m.id] = 0
            <4> DEFINE gap == num[id] - num[m.id]
            <4> HIDE DEF gap
            <4>1. gap \in Multiples /\ gap < SeqModulus /\ gap > -SeqModulus /\ gap \in Int
                BY <3>1, <3>2 DEF gap
            <4>2. gap = 0
                BY <4>1, MultiplesSparse, ModulusPositive
            <4> QED
                BY <4>2 DEF gap
        <3> QED
            BY <2>4, <3>3
    <2> QED
        BY <1>1, <1>3, <2>3, <2>8 DEF UsedNumbers, id
<1>6. \A n \in DOMAIN PartsWith(f) : PartsWith(f)[n] = m.id
    BY <1>5 DEF PartsWith
<1> QED
    BY <1>6 DEF Whole

\* The slots after a step of the receiver hold payloads of slots before it, and
\* the one of the fragment stored.
LEMMA IngestWhole ==
    ASSUME CoreInv, NEW f \in air, Ingest(f), UNCHANGED <<txVars, airVars>>,
           NEW stream \in Streams, WholeInv(stream)
    PROVE  WholeInv(stream)'
<1>1. PICK used \in SUBSET Ids, num \in [Ids -> Int], first \in Int, top \in Int :
         UsedNumbers(stream, used, num, first, top) /\ SlotNumbers(stream, used, num)
    BY DEF WholeInv
<1> DEFINE m == f.message
<1>2. m \in Messages /\ f \in Frames
    BY DEF CoreInv, TypeInv, Frames
<1>3. UsedNumbers(stream, used, num, first, top)'
    BY <1>1 DEF UsedNumbers, AirOf, Emitting, txVars, airVars
<1> HIDE DEF m
<1>4. ASSUME NEW k \in DOMAIN Others(m), Others(m)[k].stream = stream,
             NEW n \in DOMAIN Others(m)[k].parts
      PROVE  /\ Others(m)[k].parts[n] \in used
             /\ Cong(num[Others(m)[k].parts[n]], Others(m)[k].sequence)
    <2>1. PICK j \in DOMAIN slots : Others(m)[k] = slots[j]
        BY <1>2, OthersCoherent
    <2> QED
        BY <1>1, <1>4, <2>1 DEF SlotNumbers
<1>5. CASE slots' = slots
    <2>1. SlotNumbers(stream, used, num)'
        BY <1>1, <1>5 DEF SlotNumbers
    <2> QED
        BY <1>3, <2>1 DEF WholeInv
<1>6. CASE slots' = Others(m)
    <2>1. SlotNumbers(stream, used, num)'
        BY <1>4, <1>6 DEF SlotNumbers
    <2> QED
        BY <1>3, <2>1 DEF WholeInv
<1>7. CASE Stored(f) /\ slots' = Append(Others(m), Extended(f))
    <2> DEFINE others == Others(m)
               slot == Extended(f)
    <2>1. /\ slot \in SlotRecords /\ slot.stream = m.stream /\ slot.sequence = m.sequence
          /\ slot.parts = PartsWith(f)
        BY <1>2, <1>7, ExtendedSlot DEF m
    <2>2. others \in Seq(SlotRecords)
        BY <1>2, OthersCoherent
    <2>3. ASSUME m.stream = stream, NEW n \in DOMAIN slot.parts
          PROVE  slot.parts[n] \in used /\ Cong(num[slot.parts[n]], m.sequence)
        <3>1. m.id \in used /\ Cong(num[m.id], m.sequence)
            BY <1>1, <2>3 DEF UsedNumbers, AirOf, m
        <3>2. \/ slot.parts[n] = m.id
              \/ n \in DOMAIN SlotOf(m).parts /\ slot.parts[n] = SlotOf(m).parts[n]
            BY <2>1, <2>3 DEF PartsWith, m
        <3>3. ASSUME n \in DOMAIN SlotOf(m).parts
              PROVE  /\ SlotOf(m).parts[n] \in used
                     /\ Cong(num[SlotOf(m).parts[n]], m.sequence)
            <4>1. /\ SlotOf(m).stream = m.stream /\ SlotOf(m).sequence = m.sequence
                  /\ SlotOf(m) = NewSlot(m) \/ \E k \in DOMAIN slots : SlotOf(m) = slots[k]
                BY <1>2, OtherSlots DEF CoreInv, TypeInv, TableInv
            <4>2. SlotOf(m) # NewSlot(m)
                BY <3>3 DEF NewSlot
            <4> QED
                BY <1>1, <2>3, <3>3, <4>1, <4>2 DEF SlotNumbers
        <3> QED
            BY <3>1, <3>2, <3>3
    <2> HIDE DEF others, slot
    <2>4. /\ Len(others) \in Nat /\ DOMAIN others = 1 .. Len(others)
          /\ DOMAIN slots' = 1 .. Len(others) + 1
          /\ \A j \in DOMAIN others : slots'[j] = others[j]
          /\ slots'[Len(others) + 1] = slot
        BY <1>7, <2>1, <2>2 DEF others, slot
    <2>5. \A j \in DOMAIN slots' : j \in DOMAIN others \/ j = Len(others) + 1
        BY <2>4
    <2>6. SlotNumbers(stream, used, num)'
        <3>1. ASSUME NEW k \in DOMAIN slots', slots'[k].stream = stream,
                     NEW n \in DOMAIN slots'[k].parts
              PROVE  /\ slots'[k].parts[n] \in used
                     /\ Cong(num[slots'[k].parts[n]], slots'[k].sequence)
            <4>1. CASE k \in DOMAIN others
                BY <1>4, <2>4, <3>1, <4>1 DEF others
            <4>2. CASE k = Len(others) + 1
                BY <2>1, <2>3, <2>4, <3>1, <4>2
            <4> QED BY <2>5, <4>1, <4>2
        <3> QED
            BY <3>1 DEF SlotNumbers
    <2> QED
        BY <1>3, <2>6 DEF WholeInv
<1> QED
    BY <1>5, <1>6, <1>7
       DEF Ingest, RefuseReplay, RefuseInconsistent, RefuseDuplicate, StoreFragment,
           RefuseMessage, Deliver, Cleared, Extended, rxVars, m

\* Every step keeps the messages apart.
LEMMA ServiceStep ==
    ASSUME WindowSize + Lag <= HalfRange + 1, MaxMessages <= SeqModulus,
           MaxEmitFailures = 0, ServiceInv, [Next]_vars
    PROVE  ServiceInv'
<1>1. OnceInv' /\ OnceInv /\ CoreInv
    BY OnceStep DEF ServiceInv, OnceInv
<1>2. ASSUME NEW sender \in Streams,
             \/ \E meta \in Metas, count \in 1 .. MaxFragments : Begin(sender, meta, count)
             \/ BeginFails(sender) \/ SendFragment(sender)
      PROVE  ServiceInv'
    <2>1. /\ tx \in [Streams -> Transmitters] /\ begun \in Nat
          /\ tx[sender] \in Transmitters
        BY <1>1 DEF CoreInv, TypeInv
    <2>2. slots' = slots /\ mixed' = mixed
        BY <1>2 DEF Begin, BeginFails, SendFragment, rxVars, ghosts
    <2>3. begun' \in Nat /\ begun' >= begun
        BY <1>2, <2>1 DEF Begin, BeginFails, SendFragment
    <2>4. \A stream \in Streams \ {sender} :
             tx'[stream] = tx[stream] /\ AirOf(stream)' \subseteq AirOf(stream)
        <3>1. ASSUME SendFragment(sender)
              PROVE  /\ air' \subseteq air \cup {CurrentFrame(sender)}
                     /\ CurrentFrame(sender).message.stream = sender
            BY <1>1, <3>1, CurrentFrameType
               DEF SendFragment, Hear, CoreInv, TypeInv, Sending
        <3>2. \A stream \in Streams \ {sender} : AirOf(stream)' \subseteq AirOf(stream)
            BY <1>2, <3>1 DEF Begin, BeginFails, airVars, AirOf
        <3>3. \A stream \in Streams \ {sender} : tx'[stream] = tx[stream]
            BY <1>2, <2>1 DEF Begin, BeginFails, SendFragment
        <3> QED
            BY <3>2, <3>3
    <2>5. ASSUME NEW stream \in Streams \ {sender} PROVE WholeInv(stream)'
        BY <2>1, <2>2, <2>3, <2>4, WholeUntouched DEF ServiceInv
    <2>6. WholeInv(sender)'
        <3>1. CASE BeginFails(sender)
            <4>1. /\ ~Emitting(sender) /\ ~Emitting(sender)'
                  /\ tx'[sender].nextSequence = tx[sender].nextSequence
                  /\ AirOf(sender)' \subseteq AirOf(sender)
                BY <2>1, <3>1 DEF BeginFails, Emitting, Transmitters, airVars, AirOf
            <4> QED
                BY <2>1, <2>2, <2>3, <4>1, WholeUntouched DEF ServiceInv
        <3> QED
            BY <1>1, <1>2, <3>1, WholeBegins, WholeSends DEF ServiceInv
    <2> QED
        BY <1>1, <2>2, <2>5, <2>6 DEF ServiceInv
<1>3. ASSUME NEW stream \in Streams, EmitFails(stream) PROVE FALSE
    BY <1>1, <1>3 DEF EmitFails, CoreInv, TypeInv
<1>4. ASSUME NEW f \in air, Ingest(f) PROVE ServiceInv'
    <2>1. UNCHANGED <<txVars, airVars>>
        BY <1>4 DEF Ingest
    <2>2. \A stream \in Streams : WholeInv(stream)'
        BY <1>1, <1>4, <2>1, IngestWhole DEF ServiceInv
    <2>3. ASSUME Stored(f) PROVE Whole(f)
        <3>1. f.message.stream \in Streams
            BY <1>1 DEF CoreInv, TypeInv, Frames, Messages
        <3> QED
            BY <1>1, <2>3, <3>1, StoredIsWhole DEF ServiceInv
    <2>4. mixed' = mixed
        BY <1>4, <2>3
           DEF Ingest, RefuseReplay, RefuseInconsistent, RefuseDuplicate, StoreFragment,
               RefuseMessage, Deliver, HandOver, ghosts
    <2> QED
        BY <1>1, <2>2, <2>4 DEF ServiceInv
<1>5. ASSUME (slots' = slots \/ slots' = << >>), mixed' = mixed, UNCHANGED <<txVars, airVars>>
      PROVE  ServiceInv'
    <2>1. ASSUME NEW stream \in Streams PROVE WholeInv(stream)'
        <3>1. PICK used \in SUBSET Ids, num \in [Ids -> Int], first \in Int, top \in Int :
                 UsedNumbers(stream, used, num, first, top) /\ SlotNumbers(stream, used, num)
            BY DEF WholeInv, ServiceInv
        <3>2. UsedNumbers(stream, used, num, first, top)'
            BY <1>5, <3>1 DEF UsedNumbers, AirOf, Emitting, txVars, airVars
        <3>3. SlotNumbers(stream, used, num)'
            BY <1>5, <3>1 DEF SlotNumbers
        <3> QED
            BY <3>2, <3>3 DEF WholeInv
    <2> QED
        BY <1>1, <1>5, <2>1 DEF ServiceInv
<1>6. CASE Reset
    BY <1>5, <1>6 DEF Reset
<1>7. CASE UNCHANGED vars
    BY <1>5, <1>7 DEF vars, rxVars, ghosts
<1> QED
    BY <1>2, <1>3, <1>4, <1>6, <1>7 DEF Next

\* The core implements the at-most-once service of MessageService while every
\* send succeeds: a begun message may be returned, as sent, and no other; one
\* that is returned again had its commit evicted or reset.  A send given up half
\* way is excluded: the next message uses its sequence number again.
THEOREM CoreServes ==
    ASSUME WindowSize + Lag <= HalfRange + 1, MaxMessages <= SeqModulus,
           MaxEmitFailures = 0
    PROVE  Spec => ServiceSpec
<1>1. Init => Service!Init
    BY DEF Init, Service!Init
<1>2. ASSUME ServiceInv, [Next]_vars
      PROVE  [Service!Next]_(Service!vars)
    <2>1. /\ CoreInv /\ repeated = {} /\ mixed = {} /\ repeated' = {} /\ mixed' = {}
          /\ IdsBegun /\ begun \in Nat
        BY <1>2, ServiceStep DEF ServiceInv, OnceInv, CoreInv, TypeInv
    <2>2. ASSUME begun' = begun, delivered' = delivered
          PROVE  UNCHANGED Service!vars
        BY <2>1, <2>2 DEF Service!vars
    <2>3. ASSUME NEW stream \in Streams, NEW meta \in Metas, NEW count \in 1 .. MaxFragments,
                 Begin(stream, meta, count)
          PROVE  Service!Send
        <3>1. begun' = begun + 1 /\ delivered' = delivered
            BY <2>3 DEF Begin, ghosts
        <3>2. /\ 1 .. begun' = (1 .. begun) \cup {begun + 1}
              /\ begun + 1 \in (1 .. begun') \ (1 .. begun)
            BY <2>1, <3>1
        <3> QED
            BY <2>1, <3>1, <3>2 DEF Service!Send
    <2>4. ASSUME NEW f \in air, HandOver(f.message), begun' = begun
          PROVE  Service!Return \/ UNCHANGED Service!vars
        <3> DEFINE m == f.message
                   ids == {d[2] : d \in delivered}
        <3>1. m.id \in Ids /\ m.id <= begun
            BY <2>1 DEF CoreInv, TypeInv, Frames, Messages, IdsBegun
        <3>2. m.id \in 1 .. begun
            BY <2>1, <3>1 DEF Ids
        <3>3. {d[2] : d \in delivered'} = ids \cup {m.id}
            <4>1. delivered' = delivered \cup {<<m.stream, m.id>>}
                BY <2>4 DEF HandOver
            <4>2. <<m.stream, m.id>>[2] = m.id
                OBVIOUS
            <4> QED
                BY <4>1, <4>2
        <3> HIDE DEF m
        <3>4. CASE m.id \in ids
            BY <2>1, <2>4, <3>3, <3>4 DEF Service!vars
        <3>5. CASE m.id \notin ids
            BY <2>1, <2>4, <3>2, <3>3, <3>5 DEF Service!Return
        <3> QED BY <3>4, <3>5
    <2>5. ASSUME NEW f \in air, Ingest(f)
          PROVE  Service!Return \/ UNCHANGED Service!vars
        <3>1. begun' = begun
            BY <2>5 DEF Ingest, txVars
        <3>2. HandOver(f.message) \/ delivered' = delivered
            BY <2>5 DEF Ingest, RefuseReplay, RefuseInconsistent, RefuseDuplicate,
                        StoreFragment, RefuseMessage, Deliver, HandOverBlend, ghosts
        <3> QED
            BY <2>2, <2>4, <3>1, <3>2
    <2>6. ASSUME NEW stream \in Streams,
                 BeginFails(stream) \/ SendFragment(stream) \/ EmitFails(stream)
          PROVE  UNCHANGED Service!vars
        BY <2>2, <2>6 DEF BeginFails, SendFragment, EmitFails, ghosts
    <2>7. CASE Reset \/ UNCHANGED vars
        BY <2>2, <2>7 DEF Reset, vars, txVars, ghosts
    <2> QED
        BY <1>2, <2>3, <2>5, <2>6, <2>7 DEF Next, Service!Next
<1>3. ServiceInv /\ [Next]_vars => ServiceInv'
    BY ServiceStep
<1>4. ServiceInv /\ [Next]_vars => [Service!Next]_(Service!vars)
    BY <1>2
<1> QED
    BY <1>1, <1>3, <1>4, ServiceInit, PTL DEF Spec, ServiceSpec, Service!Spec
===============================================================================
