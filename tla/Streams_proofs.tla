--------------------------- MODULE Streams_proofs ---------------------------
(* What is cut up, sent and put together again: the frames of a latent       *)
(* stream, of a Meshtastic device and of a KISS port, semantic state by      *)
(* deltas, and packets over BLE.  The components share no state; a section   *)
(* proves about one of them.                                                 *)
EXTENDS StreamCodec, StateSync, BleFragments, DeviceFraming, KissPort,
        SequenceTheorems, FiniteSetTheorems, WellFoundedInduction, TLAPS

-----------------------------------------------------------------------------
(* The bytes of a latent stream *)

\* The declared length of a frame is a number.
LEMMA DeclaredType ==
    ASSUME NEW bytes \in Seq(WireBytes), Len(bytes) >= LengthPrefixBytes
    PROVE  Declared(bytes) \in Nat
<1>1. bytes[1] \in WireBytes /\ bytes[2] \in WireBytes /\ WireRadix \in Nat
  BY ElementOfSeq, CodecAssumption DEF LengthPrefixBytes
<1>2. PICK high \in Nat, low \in Nat : high = bytes[1] /\ low = bytes[2]
  BY <1>1 DEF WireBytes
<1>3. high * WireRadix \in Nat
  BY <1>1
<1> QED BY <1>2, <1>3 DEF Declared

\* A chunk is bytes.
LEMMA ChunkType == ASSUME NEW chunk \in Chunks PROVE chunk \in Seq(WireBytes)
<1>1. PICK n \in 1 .. MaxChunk : chunk \in [1 .. n -> WireBytes]
  BY DEF Chunks
<1>2. n \in Nat
  BY <1>1, CodecAssumption
<1> QED BY <1>1, <1>2, SeqDef

-----------------------------------------------------------------------------
(* Whatever the links lose or reorder, a receiver of deltas holds a state    *)
(* the sender was in: for any fields, values and limit of a state, and for   *)
(* behaviours of any length.                                                 *)

(* Every delta under way is between two states of the history, and the       *)
(* receiver holds the one behind the delta it applied last.                  *)
SyncInv ==
    /\ history \in Seq(States) /\ history # <<>>
    /\ wire \in Seq(1 .. Len(history) - 1)
    /\ applied \in 0 .. Len(history) - 1
    /\ orderly \in BOOLEAN
    /\ HeldWasPublished

\* A delta that is taken out leaves the others.
LEMMA RemoveAtType ==
    ASSUME NEW S, NEW s \in Seq(S), NEW k \in 1 .. Len(s)
    PROVE  RemoveAt(s, k) \in Seq(S)
<1>1. SubSeq(s, 1, k - 1) \in Seq(S)
  <2>1. \A i \in 1 .. k - 1 : s[i] \in S
    BY ElementOfSeq
  <2> QED BY <2>1, SubSeqProperties
<1>2. SubSeq(s, k + 1, Len(s)) \in Seq(S)
  <2>1. \A i \in k + 1 .. Len(s) : s[i] \in S
    BY ElementOfSeq
  <2> QED BY <2>1, SubSeqProperties
<1> QED BY <1>1, <1>2, ConcatProperties DEF RemoveAt

\* Whichever delta arrives, it is on the wire.
LEMMA ArrivalsOnWire == ASSUME SyncInv, NEW k \in Arrivals PROVE k \in 1 .. Len(wire)
<1>1. wire \in Seq(1 .. Len(history) - 1) /\ DOMAIN wire = 1 .. Len(wire) /\ Len(wire) \in Nat
  BY DEF SyncInv
<1>2. wire # <<>> => 1 \in 1 .. Len(wire)
  BY <1>1
<1> QED BY <1>1, <1>2 DEF Arrivals

\* Sender and receiver begin with the same state.
LEMMA SyncInit == Init => SyncInv
<1> SUFFICES ASSUME Init PROVE SyncInv
  OBVIOUS
<1>1. NoState \in States
  <2>1. {} \in SUBSET Fields /\ Cardinality({}) = 0
    BY FS_EmptySet
  <2>2. NoState \in [{} -> Values]
    BY DEF NoState
  <2> QED BY <2>1, <2>2, StateAssumption DEF States
<1>2. history \in Seq(States) /\ history # <<>> /\ Len(history) = 1 /\ history[1] = NoState
  BY <1>1 DEF Init
<1>3. wire \in Seq(1 .. Len(history) - 1) /\ applied \in 0 .. Len(history) - 1
  BY <1>2 DEF Init
<1> QED BY <1>2, <1>3 DEF Init, SyncInv, HeldWasPublished

\* A new state at the end of the history moves none of the earlier ones.
LEMMA PublishSync ==
    ASSUME SyncInv, NEW latest \in States, Publish(latest)
    PROVE  SyncInv'
<1>1. /\ history \in Seq(States) /\ Len(history) \in Nat /\ Len(history) >= 1
      /\ wire \in Seq(1 .. Len(history) - 1) /\ applied \in 0 .. Len(history) - 1
      /\ history' = Append(history, latest) /\ wire' = Append(wire, Len(history))
      /\ UNCHANGED <<held, applied, orderly>>
  BY EmptySeq DEF SyncInv, Publish
<1>2. /\ history' \in Seq(States) /\ history' # <<>> /\ Len(history') = Len(history) + 1
      /\ \A i \in 1 .. Len(history) : history'[i] = history[i]
  BY <1>1, AppendProperties
<1>3. wire \in Seq(1 .. Len(history') - 1) /\ Len(history) \in 1 .. Len(history') - 1
  <2>1. 1 .. Len(history) - 1 \subseteq 1 .. Len(history') - 1
    BY <1>1, <1>2
  <2> QED BY <1>1, <1>2, <2>1
<1>4. wire' \in Seq(1 .. Len(history') - 1)
  BY <1>1, <1>3, AppendProperties
<1>5. applied' \in 0 .. Len(history') - 1 /\ orderly' \in BOOLEAN
  BY <1>1, <1>2 DEF SyncInv
<1>6. HeldWasPublished'
  BY <1>1, <1>2 DEF SyncInv, HeldWasPublished
<1> QED BY <1>2, <1>4, <1>5, <1>6 DEF SyncInv

\* apply() answers nothing but the state that the delta leads to.
LEMMA AppliedIsResult ==
    ASSUME NEW n, NEW base, Apply(Delta(n), base) # Refused
    PROVE  Apply(Delta(n), base) = history[n + 1]
<1>1. Delta(n).result = history[n + 1]
  BY DEF Delta, Between
<1> QED BY <1>1 DEF Apply, Checks

\* A delta that is applied leads from the state held to the one behind it.
LEMMA ReceiveSync ==
    ASSUME SyncInv, NEW k \in Arrivals, ReceiveApplied(k) \/ ReceiveRefused(k)
    PROVE  SyncInv'
<1>1. k \in 1 .. Len(wire)
  BY ArrivalsOnWire
<1>2. wire \in Seq(1 .. Len(history) - 1) /\ Len(history) \in Nat
  BY DEF SyncInv
<1>3. wire[k] \in 1 .. Len(history) - 1
  BY <1>1, <1>2, ElementOfSeq
<1>4. wire' \in Seq(1 .. Len(history) - 1)
  BY <1>1, <1>2, RemoveAtType DEF ReceiveApplied, ReceiveRefused
<1>5. CASE ReceiveApplied(k)
  <2>1. held' = history[wire[k] + 1]
    BY <1>5, AppliedIsResult DEF ReceiveApplied
  <2>2. applied' = wire[k] /\ UNCHANGED <<history, orderly>>
    BY <1>5 DEF ReceiveApplied
  <2>3. applied' \in 0 .. Len(history) - 1
    BY <1>2, <1>3, <2>2
  <2> QED BY <1>4, <2>1, <2>2, <2>3 DEF SyncInv, HeldWasPublished
<1>6. CASE ReceiveRefused(k)
  BY <1>4, <1>6 DEF ReceiveRefused, SyncInv, HeldWasPublished
<1> QED BY <1>5, <1>6

\* A lost delta changes nothing at the receiver.
LEMMA LoseSync == ASSUME SyncInv, Lose PROVE SyncInv'
<1>1. PICK k \in DOMAIN wire : wire' = RemoveAt(wire, k)
  BY DEF Lose
<1>2. wire \in Seq(1 .. Len(history) - 1) /\ k \in 1 .. Len(wire)
  BY DEF SyncInv
<1>3. wire' \in Seq(1 .. Len(history) - 1)
  BY <1>1, <1>2, RemoveAtType
<1> QED BY <1>3 DEF Lose, SyncInv, HeldWasPublished

\* Every step keeps the invariant.
LEMMA SyncStep == ASSUME SyncInv, [Next]_vars PROVE SyncInv'
<1>1. CASE \E latest \in States : Publish(latest)
  BY <1>1, PublishSync
<1>2. CASE Receive
  BY <1>2, ReceiveSync DEF Receive
<1>3. CASE Lose
  BY <1>3, LoseSync
<1>4. CASE UNCHANGED vars
  BY <1>4 DEF vars, SyncInv, HeldWasPublished
<1> QED BY <1>1, <1>2, <1>3, <1>4 DEF Next

(* Lost and reordered deltas never leave a receiver with a blend of two      *)
(* states: apply() (semantic.rs) checks the state before and the state after *)
(* by their critical hashes, so what the receiver holds is always the state  *)
(* the sender published with the delta applied last.                         *)
THEOREM HeldWasAlwaysPublished == Spec => []HeldWasPublished
<1>1. SyncInv /\ [Next]_vars => SyncInv'
  BY SyncStep
<1>2. SyncInv => HeldWasPublished
  BY DEF SyncInv
<1> QED BY <1>1, <1>2, SyncInit, PTL DEF Spec

-----------------------------------------------------------------------------
(* No header makes the BLE reassembly write where the announced message does *)
(* not reach, for any packets, capacities and headers of foreign senders.    *)

\* The reassembly in hand, and the fragments that may come.
BleInv ==
    /\ StaysInMessage
    /\ DOMAIN written = DOMAIN Blank
    /\ ~active => written = Blank
    /\ \A f \in air : f.index \in Nat /\ f.size \in Int

\* A division that rounds up has a natural number for a result.
LEMMA CeilingDivType ==
    ASSUME NEW a \in Nat, NEW b \in Nat, b # 0
    PROVE  CeilingDiv(a, b) \in Nat
BY DEF CeilingDiv

\* The fragments a sender cuts have numbers and sizes.
LEMMA FragmentNumbers ==
    ASSUME NEW packet \in Packets, NEW id, NEW capacity \in Capacities,
           NEW f \in FragmentsOf(packet, id, capacity)
    PROVE  f.index \in Nat /\ f.size \in Int
<1>1. PICK length, count, unit :
         /\ length \in Nat /\ length = LengthOf[packet] /\ count = FragmentCount(length, capacity)
         /\ unit = UnitOf(length, count, capacity)
  BY BleAssumption
<1>2. PICK i \in 0 .. count - 1 :
         /\ f.index = i
         /\ f.size = IF length - i * unit < unit THEN length - i * unit ELSE unit
  BY <1>1 DEF FragmentsOf
<1>3. count \in Nat
  BY <1>1, BleAssumption, CeilingDivType DEF FragmentCount
<1>4. i \in Nat /\ count # 0
  BY <1>2, <1>3
<1>5. unit \in Nat
  BY <1>1, <1>3, <1>4, CeilingDivType DEF UnitOf
<1> QED BY <1>1, <1>2, <1>4, <1>5

\* A chunk that is taken lies within the message it announces.
LEMMA TakenWithin ==
    ASSUME BleInv, NEW f \in air, Accepts(f)
    PROVE  /\ \A i \in DOMAIN Blank : Overlaid(f)[i] # NoPacket => i < f.total
           /\ f.index \in 0 .. f.count - 1
           /\ Gathered(f) \subseteq 0 .. f.count - 1
           /\ DOMAIN Overlaid(f) = DOMAIN Blank
<1>1. /\ f.count \in Nat \ {0} /\ f.total \in Nat /\ f.index \in Nat /\ f.size \in Int
      /\ f.index < f.count
  BY DEF BleInv, Accepts, Plausible
<1>2. CeilingDiv(f.total, f.count) \in Nat
  BY <1>1, CeilingDivType
<1>3. Offset(f) \in Nat
  BY <1>1, <1>2 DEF Offset
<1>4. PICK start \in Nat, size \in Int, total \in Nat :
         start = Offset(f) /\ size = f.size /\ total = f.total
  BY <1>1, <1>3
<1>5. start + size <= total
  BY <1>4 DEF Accepts, FitsIn
<1>6. ASSUME NEW i \in DOMAIN Blank, Overlaid(f)[i] # NoPacket PROVE i < f.total
  <2>1. CASE i \in start .. start + size - 1
    BY <1>4, <1>5, <2>1
  <2>2. CASE i \notin start .. start + size - 1
    <3>1. ~Starts(f) /\ written[i] # NoPacket
      BY <1>4, <1>6, <2>2 DEF Overlaid
    <3>2. header = HeaderOf(f) /\ header.total = f.total
      BY <3>1 DEF Accepts, HeaderOf
    <3> QED BY <3>1, <3>2 DEF BleInv, StaysInMessage
  <2> QED BY <2>1, <2>2
<1>7. Gathered(f) \subseteq 0 .. f.count - 1
  <2>1. CASE Starts(f)
    BY <1>1, <2>1 DEF Gathered
  <2>2. CASE ~Starts(f)
    <3>1. header.count = f.count /\ active
      BY <2>2 DEF Accepts, HeaderOf, Starts
    <3> QED BY <1>1, <2>2, <3>1 DEF Gathered, BleInv, StaysInMessage
  <2> QED BY <2>1, <2>2
<1> QED BY <1>1, <1>6, <1>7 DEF Overlaid

\* Every step keeps the reassembly within the message in hand.
LEMMA BleStep ==
    BleInv /\ [BleNext]_bleVars => BleInv'
<1> SUFFICES ASSUME BleInv, [BleNext]_bleVars PROVE BleInv'
  OBVIOUS
<1>0. \A i \in DOMAIN Blank : Blank[i] = NoPacket
  BY DEF Blank
<1>1. ASSUME NEW packet \in Packets, NEW capacity \in Capacities, SendMessage(packet, capacity)
      PROVE  BleInv'
  <2>1. \A f \in air' : f.index \in Nat /\ f.size \in Int
    BY <1>1, FragmentNumbers DEF SendMessage, BleInv
  <2> QED BY <1>1, <2>1 DEF SendMessage, BleInv, StaysInMessage
<1>2. ASSUME NEW packet \in Packets, NEW id \in 0 .. IdSpace - 1, NEW h \in ForeignHeaders,
             NEW size \in 1 .. MaxPacketSize, SendForeign(packet, id, h, size)
      PROVE  BleInv'
  <2>1. h.index \in Nat /\ size \in Int
    BY BleAssumption
  <2>2. \A f \in air' : f.index \in Nat /\ f.size \in Int
    BY <1>2, <2>1 DEF SendForeign, BleInv
  <2> QED BY <1>2, <2>2 DEF SendForeign, BleInv, StaysInMessage
<1>3. ASSUME Cleared, air' \subseteq air PROVE BleInv'
  BY <1>0, <1>3 DEF Cleared, BleInv, StaysInMessage
<1>4. ASSUME NEW f \in air, Ingest(f) PROVE BleInv'
  <2>1. CASE Cleared
    BY <1>3, <1>4, <2>1 DEF Ingest
  <2>2. CASE ~Cleared
    <3>1. /\ Accepts(f) /\ active' = TRUE /\ header' = HeaderOf(f)
          /\ received' = Gathered(f) /\ written' = Overlaid(f) /\ air' = air
      BY <1>4, <2>2 DEF Ingest
    <3>2. header'.total = f.total /\ header'.count = f.count
      BY <3>1 DEF HeaderOf
    <3>3. received' # {} /\ received' \subseteq 0 .. header'.count - 1
      BY <3>1, <3>2, TakenWithin DEF Gathered
    <3>4. \A i \in DOMAIN written' : written'[i] # NoPacket => i < header'.total
      BY <3>1, <3>2, TakenWithin
    <3> QED BY <3>1, <3>3, <3>4, TakenWithin DEF BleInv, StaysInMessage
  <2> QED BY <2>1, <2>2
<1>5. CASE Disconnect
  BY <1>3, <1>5 DEF Disconnect
<1>6. CASE UNCHANGED bleVars
  BY <1>6 DEF bleVars, BleInv, StaysInMessage
<1> QED BY <1>1, <1>2, <1>4, <1>5, <1>6 DEF BleNext

\* lm_air_ble_reassembly_ingest(): no header makes it write behind the end of
\* the message it announces, however unevenly its total divides by its count.
THEOREM AlwaysStaysInMessage ==
    BleSpec => []StaysInMessage
<1>1. BleInit => BleInv
  BY BleAssumption DEF BleInit, BleInv, StaysInMessage, Blank
<1>2. BleInv => StaysInMessage
  BY DEF BleInv
<1> QED BY <1>1, <1>2, BleStep, PTL DEF BleSpec
-----------------------------------------------------------------------------
\* Rounding up, stated without division.
LEMMA CeilingDivBounds ==
    ASSUME NEW a \in Nat, NEW b \in Nat, b # 0, NEW c, c = CeilingDiv(a, b)
    PROVE  /\ c \in Nat /\ a <= c * b /\ (c - 1) * b < a
           /\ \A m \in Nat : a <= m * b => c <= m
<1>1. PICK n \in Nat : n = a + b - 1
  OBVIOUS
<1>2. PICK r \in 0 .. b - 1 : n = b * (n \div b) + r
  <2>1. n % b \in 0 .. b - 1 /\ n = b * (n \div b) + (n % b)
    BY <1>1
  <2> QED BY <2>1
<1>3. c = n \div b /\ c \in Nat
  BY <1>1 DEF CeilingDiv
<1>4. a + b - 1 = b * c + r
  BY <1>1, <1>2, <1>3
<1>5. a <= c * b
  BY <1>3, <1>4
<1>6. (c - 1) * b = c * b - b
  BY <1>3
<1>7. (c - 1) * b < a
  BY <1>3, <1>4, <1>6
<1>8. ASSUME NEW m \in Nat, a <= m * b PROVE c <= m
  <2>1. (c - 1) * b < m * b
    <3>1. PICK x \in Int, y \in Int : x = (c - 1) * b /\ y = m * b
      BY <1>3
    <3> QED BY <1>7, <1>8, <3>1
  <2>2. c - 1 < m
    <3> SUFFICES ASSUME m <= c - 1 PROVE FALSE
      BY <1>3
    <3>1. PICK d \in Nat : c - 1 = m + d
      BY <1>3
    <3>2. (c - 1) * b = m * b + d * b /\ d * b \in Nat
      BY <3>1
    <3>3. PICK x \in Int, y \in Int, z \in Nat :
             x = (c - 1) * b /\ y = m * b /\ z = d * b
      BY <1>3, <3>2
    <3> QED BY <2>1, <3>2, <3>3
  <2> QED BY <1>3, <2>2
<1> QED BY <1>3, <1>5, <1>7, <1>8

\* A smaller factor, a smaller product.
LEMMA ProductGrows ==
    ASSUME NEW x \in Nat, NEW y \in Nat, x <= y, NEW z \in Nat
    PROVE  x * z <= y * z /\ z * x <= z * y
<1>1. PICK d \in Nat : y = x + d
  OBVIOUS
<1>2. y * z = x * z + d * z /\ d * z \in Nat /\ z * y = z * x + z * d /\ z * d \in Nat
  BY <1>1
<1>3. PICK p \in Nat, q \in Nat, r \in Nat, s \in Nat :
         p = x * z /\ q = d * z /\ r = z * x /\ s = z * d
  BY <1>2
<1> QED BY <1>2, <1>3

\* What the receiver asks of a fragment, whatever is in hand.
Fitting(f) ==
    /\ f.count \in 1 .. MaxFragments /\ f.index \in 0 .. f.count - 1
    /\ f.total \in 1 .. MaxPacketSize /\ f.crc \in Packets
    /\ FitsIn(f)

\* The sender's chunks are where the receiver looks for them, for every length
\* of a packet and every capacity: both divide by the number of fragments.
LEMMA CutFits ==
    ASSUME NEW packet \in Packets, NEW id, NEW capacity \in Capacities,
           NEW f \in FragmentsOf(packet, id, capacity)
    PROVE  Fitting(f)
<1>1. PICK length, count, unit :
         /\ length \in 1 .. MaxPacketSize /\ length = LengthOf[packet] /\ count = FragmentCount(length, capacity)
         /\ unit = UnitOf(length, count, capacity)
  BY BleAssumption
<1>2. PICK i \in 0 .. count - 1 :
         /\ f.index = i /\ f.total = length /\ f.count = count /\ f.crc = packet
         /\ f.size = IF length - i * unit < unit THEN length - i * unit ELSE unit
  BY <1>1 DEF FragmentsOf
<1>3. capacity \in Nat /\ length \in Nat
  BY <1>1, BleAssumption
<1>4. count \in Nat
  BY <1>1, <1>3, CeilingDivType DEF FragmentCount
<1>5. i \in Nat /\ count # 0 /\ i <= count - 1
  BY <1>2, <1>4
<1>6. /\ capacity # 0 /\ count = CeilingDiv(length, capacity)
      /\ ~(count > MaxFragments)
  BY <1>1, <1>3, <1>5 DEF FragmentCount
<1>7. unit = CeilingDiv(length, count) /\ unit \in Nat
  BY <1>1, <1>3, <1>4, <1>5, CeilingDivType DEF UnitOf
<1>8. length <= count * capacity /\ (count - 1) * capacity < length
  BY <1>3, <1>6, CeilingDivBounds
<1>9. /\ length <= unit * count
      /\ \A m \in Nat : length <= m * count => unit <= m
  BY <1>3, <1>4, <1>5, <1>7, CeilingDivBounds
<1>10. unit <= capacity
  <2>1. count * capacity = capacity * count
    BY <1>3, <1>4
  <2> QED BY <1>3, <1>8, <1>9, <2>1
<1>11. (count - 1) * unit < length
  <2>1. count - 1 \in Nat
    BY <1>4, <1>5
  <2>2. (count - 1) * unit <= (count - 1) * capacity
    BY <1>3, <1>7, <1>10, <2>1, ProductGrows
  <2>3. PICK x \in Int, y \in Int : x = (count - 1) * unit /\ y = (count - 1) * capacity
    BY <1>3, <1>7, <2>1
  <2> QED BY <1>3, <1>8, <2>2, <2>3
<1>12. PICK start \in Nat : start = i * unit
  BY <1>5, <1>7
<1>13. Offset(f) = start /\ CeilingDiv(f.total, f.count) = unit
  BY <1>2, <1>7, <1>12 DEF Offset
<1>14. start < length
  <2>1. i * unit <= (count - 1) * unit
    BY <1>4, <1>5, <1>7, ProductGrows
  <2>2. PICK x \in Int : x = (count - 1) * unit
    BY <1>4, <1>7
  <2> QED BY <1>3, <1>11, <1>12, <2>1, <2>2
<1>15. CASE i + 1 = count
  <2>1. length <= start + unit
    <3>1. unit * count = i * unit + unit
      BY <1>5, <1>7, <1>15
    <3>2. PICK x \in Int : x = unit * count
      BY <1>4, <1>7
    <3> QED BY <1>3, <1>7, <1>9, <1>12, <3>1, <3>2
  <2>2. f.size = length - start
    BY <1>2, <1>3, <1>7, <1>12, <2>1
  <2>3. ExpectedSize(f) = length - start
    BY <1>2, <1>13, <1>15 DEF ExpectedSize
  <2>4. FitsIn(f)
    BY <1>2, <1>3, <1>12, <1>13, <1>14, <2>2, <2>3 DEF FitsIn
  <2> QED BY <1>1, <1>2, <1>4, <1>5, <1>6, <2>4, BleAssumption DEF Fitting
<1>16. CASE i + 1 # count
  <2>1. start + unit <= length
    <3>1. i + 1 <= count - 1 /\ i + 1 \in Nat /\ count - 1 \in Nat
      BY <1>4, <1>5, <1>16
    <3>2. (i + 1) * unit <= (count - 1) * unit
      BY <1>7, <3>1, ProductGrows
    <3>3. (i + 1) * unit = i * unit + unit
      BY <1>5, <1>7
    <3>4. PICK x \in Int : x = (count - 1) * unit
      BY <1>4, <1>7
    <3> QED BY <1>3, <1>7, <1>11, <1>12, <3>2, <3>3, <3>4
  <2>2. f.size = unit
    BY <1>2, <1>3, <1>7, <1>12, <2>1
  <2>3. ExpectedSize(f) = unit
    BY <1>2, <1>13, <1>16 DEF ExpectedSize
  <2>4. FitsIn(f)
    BY <1>2, <1>3, <1>7, <1>12, <1>13, <1>14, <2>1, <2>2, <2>3 DEF FitsIn
  <2> QED BY <1>1, <1>2, <1>4, <1>5, <1>6, <2>4, BleAssumption DEF Fitting
<1> QED BY <1>15, <1>16

\* What a quotient is, stated without division.
LEMMA QuotientBounds ==
    ASSUME NEW b \in Nat, NEW u \in Nat, u # 0
    PROVE  /\ b \div u \in Nat
           /\ u * (b \div u) <= b /\ b < u * (b \div u) + u
<1>1. b % u \in 0 .. u - 1 /\ b = u * (b \div u) + (b % u) /\ b \div u \in Nat
  OBVIOUS
<1>2. PICK q \in Nat, r \in Nat : q = u * (b \div u) /\ r = b % u
  BY <1>1
<1> QED BY <1>1, <1>2

\* The number of the chunk that a byte of a message of so many is in.
ChunkOf(b, total, count) == b \div CeilingDiv(total, count)

\* Every byte of a message is in one of its chunks, and lies there.
LEMMA ChunksCover ==
    ASSUME NEW total \in Nat \ {0}, NEW count \in Nat \ {0}, NEW b \in 0 .. total - 1,
           NEW unit, unit = CeilingDiv(total, count)
    PROVE  /\ ChunkOf(b, total, count) \in 0 .. count - 1
           /\ unit * ChunkOf(b, total, count) <= b
           /\ b < unit * ChunkOf(b, total, count) + unit
<1>1. unit \in Nat /\ total <= unit * count
  BY CeilingDivBounds
<1>2. unit # 0 /\ unit \in Nat \ {0} /\ b \in Nat
  BY <1>1
<1>3. PICK k \in Nat : k = b \div unit
  BY <1>2, QuotientBounds
<1>4. unit * k <= b /\ b < unit * k + unit
  BY <1>2, <1>3, QuotientBounds
<1>5. k < count
  <2> SUFFICES ASSUME count <= k PROVE FALSE
    OBVIOUS
  <2>1. unit * count <= unit * k
    BY <1>1, ProductGrows
  <2>2. PICK x \in Int, y \in Int : x = unit * count /\ y = unit * k
    BY <1>1
  <2> QED BY <1>1, <1>4, <2>1, <2>2
<1> QED BY <1>3, <1>4, <1>5 DEF ChunkOf
\* As long as no foreign fragment came under the header in hand, what came of a
\* message is in the reassembly, and every chunk of it is the packet's.
StretchInv ==
    /\ stretch = [header |-> stretch.header, got |-> stretch.got]
    /\ \A f \in air : f.crc \in Packets /\ (f.genuine => Fitting(f))
    /\ active => /\ stretch.header = header
                 /\ header.count \in Nat \ {0} /\ header.total \in Nat \ {0}
    /\ Spoilt \notin stretch.got =>
          /\ stretch.got # {} => active /\ stretch.got \subseteq received
          /\ active => \A b \in 0 .. header.total - 1 :
                          ChunkOf(b, header.total, header.count) \in received
                          => written[b] = header.crc

\* A genuine fragment that counts for its message is taken.
LEMMA GenuineTaken ==
    ASSUME BleInv, StretchInv, NEW f \in air, Spoilt \notin StretchWith(f).got,
           StretchWith(f).got # {}
    PROVE  f.genuine /\ Accepts(f) /\ StretchWith(f).got \subseteq Gathered(f)
<1>1. f.genuine
  BY DEF StretchWith
<1>2. Fitting(f) /\ Plausible(f)
  <2>1. Fitting(f)
    BY <1>1 DEF StretchInv
  <2> QED BY <2>1 DEF Fitting, Plausible
<1>3. CASE stretch.header = HeaderOf(f)
  <2>1. StretchWith(f).got = stretch.got \union {f.index}
    BY <1>1, <1>3 DEF StretchWith, StretchInv
  <2>2. stretch.got # {} => active /\ stretch.got \subseteq received
    BY <2>1 DEF StretchInv
  <2>3. active => header = HeaderOf(f) /\ ~Starts(f)
    BY <1>3 DEF StretchInv, Starts, HeaderOf
  <2>4. ~active => Starts(f)
    BY DEF Starts
  <2> QED BY <1>1, <1>2, <2>1, <2>2, <2>3, <2>4 DEF Accepts, Fitting, Gathered
<1>4. CASE stretch.header # HeaderOf(f)
  <2>1. /\ StretchWith(f).got = {f.index}
        /\ ~(stretch.header.id = f.id /\ stretch # Interrupted)
    BY <1>1, <1>4 DEF StretchWith
  <2>2. active => stretch # Interrupted
    BY DEF StretchInv, Interrupted, NoHeader
  <2>3. Starts(f)
    BY <2>1, <2>2 DEF StretchInv, Starts
  <2> QED BY <1>1, <1>2, <2>1, <2>3 DEF Accepts, Fitting, Gathered
<1> QED BY <1>3, <1>4

\* Every byte of a chunk that is there is the packet's.
LEMMA BytesGenuine ==
    ASSUME BleInv, StretchInv, NEW f \in air, Spoilt \notin StretchWith(f).got, Accepts(f),
           NEW b \in 0 .. f.total - 1, ChunkOf(b, f.total, f.count) \in Gathered(f)
    PROVE  Overlaid(f)[b] = f.crc
<1>1. f.genuine
  BY DEF StretchWith
<1>2. /\ Fitting(f) /\ f.total \in Nat \ {0} /\ f.count \in Nat \ {0} /\ f.index \in Nat
      /\ b \in Nat /\ b \in DOMAIN Blank
  <2>1. Fitting(f)
    BY <1>1 DEF StretchInv
  <2>2. f.total \in 1 .. MaxPacketSize /\ f.count \in Nat \ {0} /\ f.index \in Nat
    BY <2>1, BleAssumption DEF Fitting
  <2>3. b \in 0 .. MaxPacketSize - 1
    BY <2>2, BleAssumption
  <2> QED BY <2>1, <2>2, <2>3 DEF Blank
<1>3. PICK unit \in Nat : unit = CeilingDiv(f.total, f.count)
  BY <1>2, CeilingDivType
<1>4. PICK k \in Nat : k = ChunkOf(b, f.total, f.count) /\ unit * k <= b /\ b < unit * k + unit
  BY <1>2, <1>3, ChunksCover
<1>5. CASE k = f.index
  <2>1. PICK start \in Nat : start = Offset(f) /\ start = unit * k
    <3>1. f.index * unit = unit * k /\ unit * k \in Nat
      BY <1>2, <1>3, <1>5
    <3> QED BY <1>3, <3>1 DEF Offset
  <2>2. /\ f.size = ExpectedSize(f)
        /\ ExpectedSize(f) = IF f.index + 1 = f.count THEN f.total - start ELSE unit
    BY <1>2, <1>3, <2>1 DEF Fitting, FitsIn, ExpectedSize
  <2>3. b \in start .. start + f.size - 1
    BY <1>2, <1>4, <2>1, <2>2
  <2> QED BY <1>1, <1>2, <2>1, <2>3 DEF Overlaid
<1>6. CASE k # f.index
  <2>1. ~Starts(f) /\ k \in received
    BY <1>4, <1>6 DEF Gathered
  <2>2. /\ active /\ header = HeaderOf(f) /\ stretch.header = HeaderOf(f)
        /\ header.total = f.total /\ header.count = f.count /\ header.crc = f.crc
    BY <2>1 DEF Starts, Accepts, StretchInv, HeaderOf
  <2>3. Spoilt \notin stretch.got
    BY <1>1, <2>2 DEF StretchWith, StretchInv
  <2>4. written[b] = f.crc
    BY <1>4, <2>1, <2>2, <2>3 DEF StretchInv
  <2> QED BY <1>1, <1>2, <2>1, <2>4 DEF Overlaid
<1> QED BY <1>5, <1>6

\* With all chunks of a message there, its packet is handed over.
LEMMA AllHanded ==
    ASSUME BleInv, StretchInv, NEW f \in air, Spoilt \notin StretchWith(f).got,
           Accepts(f), AllThere(f)
    PROVE  Handed(f) = f.crc /\ f.crc # NoPacket
<1>1. f.genuine
  BY DEF StretchWith
<1>2. f.total \in Nat \ {0} /\ f.count \in Nat \ {0}
  <2>1. Fitting(f)
    BY <1>1 DEF StretchInv
  <2> QED BY <2>1, BleAssumption DEF Fitting
<1>3. ASSUME NEW b \in 0 .. f.total - 1 PROVE Overlaid(f)[b] = f.crc
  <2>1. ChunkOf(b, f.total, f.count) \in Gathered(f)
    BY <1>2, ChunksCover DEF AllThere
  <2> QED BY <2>1, BytesGenuine
<1> QED BY <1>3, BleAssumption DEF Handed, CrcHolds, StretchInv

\* All fragments came: the packet is handed over.
LEMMA ArrivedHanded ==
    ASSUME BleInv, StretchInv, NEW f \in air, StretchWith(f).got = 0 .. f.count - 1
    PROVE  Accepts(f) /\ AllThere(f) /\ Handed(f) = f.crc
<1>1. Spoilt \notin StretchWith(f).got
  BY DEF Spoilt
<1>2. f.genuine
  BY <1>1 DEF StretchWith
<1>3. f.count \in Nat \ {0}
  <2>1. Fitting(f)
    BY <1>2 DEF StretchInv
  <2> QED BY <2>1, BleAssumption DEF Fitting
<1>4. 0 \in StretchWith(f).got
  BY <1>3
<1>5. Accepts(f) /\ 0 .. f.count - 1 \subseteq Gathered(f)
  BY <1>1, <1>4, GenuineTaken
<1>6. AllThere(f)
  BY <1>5, TakenWithin DEF AllThere
<1> QED BY <1>1, <1>5, <1>6, AllHanded

\* Taking in a fragment keeps the account of its message.
LEMMA IngestStretch ==
    ASSUME BleInv, StretchInv, NEW f \in air, Ingest(f)
    PROVE  StretchInv' /\ FragmentsMakePacket'
<1>1. /\ air' = air
      /\ stretch' = IF StretchWith(f).got = 0 .. f.count - 1 \/ Handed(f) # NoPacket
                    THEN Interrupted ELSE StretchWith(f)
      /\ outcome' = [arrived |-> IF StretchWith(f).got = 0 .. f.count - 1 THEN f.crc
                                 ELSE NoPacket,
                     handed |-> Handed(f)]
  BY DEF Ingest
<1>2. FragmentsMakePacket'
  BY <1>1, ArrivedHanded DEF FragmentsMakePacket
<1>3. \A g \in air' : g.crc \in Packets /\ (g.genuine => Fitting(g))
  BY <1>1 DEF StretchInv
<1>4. CASE StretchWith(f).got = 0 .. f.count - 1 \/ Handed(f) # NoPacket
  <2>1. Accepts(f) /\ AllThere(f)
    BY <1>4, ArrivedHanded DEF Handed
  <2>2. active' = FALSE /\ stretch' = Interrupted
    BY <1>1, <1>4, <2>1 DEF Ingest, Cleared
  <2> QED BY <1>2, <1>3, <2>2 DEF StretchInv, Interrupted
<1>5. CASE ~(StretchWith(f).got = 0 .. f.count - 1 \/ Handed(f) # NoPacket)
  <2>1. /\ stretch' = StretchWith(f) /\ stretch'.header = HeaderOf(f)
        /\ stretch' = [header |-> stretch'.header, got |-> stretch'.got]
    BY <1>1, <1>5 DEF StretchWith, StretchInv
  <2>2. CASE Cleared
    <3>1. Spoilt \notin stretch'.got => stretch'.got = {}
      <4> SUFFICES ASSUME Spoilt \notin StretchWith(f).got, StretchWith(f).got # {} PROVE FALSE
        BY <2>1
      <4>1. Accepts(f)
        BY GenuineTaken
      <4>2. AllThere(f)
        BY <2>2, <4>1 DEF Ingest, Cleared
      <4> QED BY <1>5, <4>1, <4>2, AllHanded
    <3>2. active' = FALSE
      BY <2>2 DEF Cleared
    <3> QED BY <1>2, <1>3, <2>1, <3>1, <3>2 DEF StretchInv
  <2>3. CASE ~Cleared
    <3>1. /\ Accepts(f) /\ active' = TRUE /\ header' = HeaderOf(f)
          /\ received' = Gathered(f) /\ written' = Overlaid(f)
      BY <2>3 DEF Ingest
    <3>2. /\ header'.total = f.total /\ header'.count = f.count /\ header'.crc = f.crc
          /\ f.total \in Nat \ {0} /\ f.count \in Nat \ {0}
      BY <3>1, BleAssumption DEF HeaderOf, Accepts, Plausible
    <3>3. Spoilt \notin stretch'.got => stretch'.got \subseteq received'
      BY <2>1, <3>1, GenuineTaken
    <3>4. ASSUME Spoilt \notin stretch'.got, NEW b \in 0 .. header'.total - 1,
                 ChunkOf(b, header'.total, header'.count) \in received'
          PROVE  written'[b] = header'.crc
      BY <2>1, <3>1, <3>2, <3>4, BytesGenuine
    <3> QED BY <1>2, <1>3, <2>1, <3>1, <3>2, <3>3, <3>4 DEF StretchInv
  <2> QED BY <2>2, <2>3
<1> QED BY <1>4, <1>5

\* Every step keeps the account of the fragments that came.
LEMMA StretchStep ==
    BleInv /\ StretchInv /\ FragmentsMakePacket /\ [BleNext]_bleVars
    => StretchInv' /\ FragmentsMakePacket'
<1> SUFFICES ASSUME BleInv, StretchInv, FragmentsMakePacket, [BleNext]_bleVars
             PROVE  StretchInv' /\ FragmentsMakePacket'
  OBVIOUS
<1>1. ASSUME UNCHANGED <<active, header, received, written, stretch, outcome>>,
             \A f \in air' \ air : f.crc \in Packets /\ (f.genuine => Fitting(f))
      PROVE  StretchInv' /\ FragmentsMakePacket'
  BY <1>1 DEF StretchInv, FragmentsMakePacket
<1>2. ASSUME NEW packet \in Packets, NEW capacity \in Capacities, SendMessage(packet, capacity)
      PROVE  StretchInv' /\ FragmentsMakePacket'
  <2>1. \A f \in air' \ air : Fitting(f)
    BY <1>2, CutFits DEF SendMessage
  <2> QED BY <1>1, <1>2, <2>1 DEF SendMessage, Fitting
<1>3. ASSUME NEW packet \in Packets, NEW id \in 0 .. IdSpace - 1, NEW h \in ForeignHeaders,
             NEW size \in 1 .. MaxPacketSize, SendForeign(packet, id, h, size)
      PROVE  StretchInv' /\ FragmentsMakePacket'
  BY <1>1, <1>3 DEF SendForeign
<1>4. ASSUME NEW f \in air, Ingest(f) PROVE StretchInv' /\ FragmentsMakePacket'
  BY <1>4, IngestStretch
<1>5. CASE Disconnect
  <2>1. active' = FALSE /\ air' = {} /\ stretch' = Interrupted /\ outcome' = Nothing
    BY <1>5 DEF Disconnect, Cleared
  <2> QED BY <2>1 DEF StretchInv, FragmentsMakePacket, Interrupted, Nothing
<1>6. CASE UNCHANGED bleVars
  BY <1>1, <1>6 DEF bleVars
<1> QED BY <1>2, <1>3, <1>4, <1>5, <1>6 DEF BleNext

\* The BLE link of the firmware: when all fragments of a message have come, in
\* any order and any number of times, for any length of a packet and any MTU,
\* and no other message came in between, the packet is handed over with the
\* last of them.
THEOREM FragmentsAlwaysMakePacket ==
    BleSpec => []FragmentsMakePacket
<1>1. BleInit => BleInv /\ StretchInv /\ FragmentsMakePacket
  BY BleAssumption DEF BleInit, BleInv, StaysInMessage, Blank, StretchInv, Interrupted,
                       FragmentsMakePacket, Nothing
<1>2. BleInv /\ StretchInv /\ FragmentsMakePacket /\ [BleNext]_bleVars
      => (BleInv /\ StretchInv /\ FragmentsMakePacket)'
  BY BleStep, StretchStep
<1> QED BY <1>1, <1>2, PTL DEF BleSpec

-----------------------------------------------------------------------------
(* Reading from the end *)

\* Numbers have a least one.
LEMMA LeastExists ==
    ASSUME NEW R \in SUBSET Nat, R # {}
    PROVE  \E x \in R : \A y \in R : x <= y
<1> DEFINE Less == OpToRel(<, Nat)
<1>1. IsWellFoundedOn(Less, Nat)
  BY NatLessThanWellFounded
<1>2. PICK x \in R : \A y \in R : ~ (<<y, x>> \in Less)
  BY <1>1, WFMin
<1>3. \A y \in R : ~ (y < x)
  BY <1>2 DEF OpToRel
<1> QED BY <1>3

\* Upwards from 0.
LEMMA Upwards ==
    ASSUME NEW P, 0 \in P, \A n \in Nat : n \in P => n + 1 \in P
    PROVE  \A n \in Nat : n \in P
<1> SUFFICES ASSUME NEW n \in Nat, n \notin P PROVE FALSE
  OBVIOUS
<1> DEFINE R == {m \in Nat : m \notin P}
<1>1. PICK x \in R : \A y \in R : x <= y
  BY LeastExists
<1>2. x # 0 /\ x - 1 \in Nat /\ x - 1 \in P
  BY <1>1
<1>3. (x - 1) + 1 \in P
  BY <1>2
<1> QED BY <1>1, <1>3

\* What holds of a position when it holds of all behind it holds of every one.
LEMMA Backwards ==
    ASSUME NEW N \in Nat, NEW P,
           \A i \in 1 .. N : (\A j \in i + 1 .. N : j \in P) => i \in P
    PROVE  \A i \in 1 .. N : i \in P
<1> SUFFICES ASSUME NEW i \in 1 .. N, i \notin P PROVE FALSE
  OBVIOUS
<1> DEFINE R == {m \in Nat : N - m \in (1 .. N) \ P}
<1>1. N - i \in R
  OBVIOUS
<1>2. PICK m \in R : \A k \in R : m <= k
  <2> HIDE DEF R
  <2>1. R \subseteq Nat
    BY DEF R
  <2> QED BY <1>1, <2>1, LeastExists
<1>3. ASSUME NEW j \in N - m + 1 .. N PROVE j \in P
  <2> SUFFICES ASSUME j \notin P PROVE FALSE
    OBVIOUS
  <2>1. N - j \in R /\ ~(m <= N - j)
    BY <1>2
  <2> QED BY <1>2, <2>1
<1> QED BY <1>2, <1>3

\* A reading of N positions: at each it stops, skips something or takes a piece,
\* and then goes on further behind.
Reads(g, N, stop, skip, piece, next) ==
    \A i \in 1 .. N : g[i] = IF stop[i] THEN <<>>
                            ELSE IF skip[i] THEN g[next[i]] ELSE piece[i] \o g[next[i]]

\* There is such a reading.
LEMMA ReadingExists ==
    ASSUME NEW N \in Nat, NEW stop, NEW skip, NEW piece, NEW next,
           \A i \in 1 .. N : ~stop[i] => next[i] \in i + 1 .. N
    PROVE  \E g : DOMAIN g = 1 .. N /\ g = [i \in 1 .. N |-> g[i]] /\ Reads(g, N, stop, skip, piece, next)
<1> DEFINE Is(g, i) == \A j \in i .. N : g[j] = IF stop[j] THEN <<>>
                                           ELSE IF skip[j] THEN g[next[j]] ELSE piece[j] \o g[next[j]]
           P == {i \in 1 .. N : \E g : Is(g, i)}
<1>1. ASSUME NEW i \in 1 .. N, \A j \in i + 1 .. N : j \in P PROVE i \in P
  <2>1. PICK g : Is(g, i + 1)
    <3>1. CASE i = N
      <4>1. Is(<<>>, i + 1)
        BY <3>1
      <4> QED BY <4>1
    <3>2. CASE i # N
      <4>1. i + 1 \in P
        <5>1. i + 1 \in i + 1 .. N
          BY <3>2
        <5> HIDE DEF P
        <5> QED BY <1>1, <5>1
      <4> QED BY <4>1
    <3> QED BY <3>1, <3>2
  <2> DEFINE h == [j \in i .. N |-> IF j # i THEN g[j]
                                    ELSE IF stop[i] THEN <<>>
                                    ELSE IF skip[i] THEN g[next[i]] ELSE piece[i] \o g[next[i]]]
  <2>2. ASSUME NEW j \in i .. N 
      PROVE  h[j] = IF stop[j] THEN <<>>
                    ELSE IF skip[j] THEN h[next[j]] ELSE piece[j] \o h[next[j]]
    <3>1. ~stop[j] => next[j] \in j + 1 .. N /\ next[j] \in i + 1 .. N
      OBVIOUS
    <3>2. ~stop[j] => h[next[j]] = g[next[j]]
      BY <3>1
    <3>3. CASE j = i
      BY <3>2, <3>3
    <3>4. CASE j # i
      BY <2>1, <3>2, <3>4
    <3> QED BY <3>3, <3>4
  <2>3. Is(h, i)
    BY <2>2
  <2> HIDE DEF Is, h
  <2> QED BY <2>3
<1>2. \E g : Is(g, 1)
  <2>1. CASE N = 0
    <3>1. Is(<<>>, 1)
      BY <2>1
    <3> QED BY <3>1
  <2>2. CASE N # 0
    <3>1. 1 \in P
      <4>1. \A i \in 1 .. N : i \in P
        <5> HIDE DEF P
        <5> QED BY <1>1, Backwards
      <4>2. 1 \in 1 .. N
        BY <2>2
      <4> HIDE DEF P
      <4> QED BY <4>1, <4>2
    <3> QED BY <3>1
  <2> QED BY <2>1, <2>2
<1>3. PICK g : Is(g, 1)
  BY <1>2
<1> DEFINE h == [i \in 1 .. N |-> g[i]]
<1>4. Reads(h, N, stop, skip, piece, next)
  BY <1>3 DEF Reads
<1>5. DOMAIN h = 1 .. N /\ h = [i \in 1 .. N |-> h[i]]
  OBVIOUS
<1> HIDE DEF h
<1> QED BY <1>4, <1>5

\* What is read is a sequence of what the pieces are made of.
LEMMA ReadingType ==
    ASSUME NEW N \in Nat, NEW stop, NEW skip, NEW piece, NEW next, NEW T, NEW g,
           \A i \in 1 .. N : ~stop[i] => next[i] \in i + 1 .. N /\ (~skip[i] => piece[i] \in Seq(T)),
           Reads(g, N, stop, skip, piece, next)
    PROVE  \A i \in 1 .. N : g[i] \in Seq(T)
<1> DEFINE P == {i \in 1 .. N : g[i] \in Seq(T)}
<1>1. ASSUME NEW i \in 1 .. N, \A j \in i + 1 .. N : j \in P PROVE i \in P
  <2>1. CASE stop[i]
    BY <2>1, EmptySeq DEF Reads
  <2>2. CASE ~stop[i] /\ skip[i]
    <3>1. g[i] = g[next[i]] /\ g[next[i]] \in Seq(T)
      BY <1>1, <2>2 DEF Reads
    <3> QED BY <3>1
  <2>3. CASE ~stop[i] /\ ~skip[i]
    <3>1. g[i] = piece[i] \o g[next[i]]
      BY <2>3 DEF Reads
    <3>2. piece[i] \in Seq(T) /\ g[next[i]] \in Seq(T)
      BY <1>1, <2>3
    <3> QED BY <3>1, <3>2, ConcatProperties
  <2> QED BY <2>1, <2>2, <2>3
<1>2. \A i \in 1 .. N : i \in P
  <2> HIDE DEF P
  <2> QED BY <1>1, Backwards
<1> QED BY <1>2
-----------------------------------------------------------------------------
(* The frames of a stream, whatever the chunks *)

RestOf(bytes, i) == SubSeq(bytes, i, Len(bytes))

\* What is left from some position on.
LEMMA RestType ==
    ASSUME NEW bytes \in Seq(WireBytes), NEW i \in 1 .. Len(bytes) + 1
    PROVE  /\ RestOf(bytes, i) \in Seq(WireBytes)
           /\ Len(RestOf(bytes, i)) = Len(bytes) - i + 1
<1>1. Len(bytes) \in Nat
  BY LenProperties
<1>2. \A k \in i .. Len(bytes) : bytes[k] \in WireBytes
  BY ElementOfSeq
<1> QED BY <1>1, <1>2, SubSeqProperties DEF RestOf

\* A frame in front is a frame of what is left: it ends within it.
LEMMA DecodesBounds ==
    ASSUME NEW bytes \in Seq(WireBytes), Decodes(bytes)
    PROVE  /\ Len(bytes) >= LengthPrefixBytes /\ Declared(bytes) \in Nat
           /\ Consumed(bytes) \in 2 .. Len(bytes)
           /\ BodyOf(bytes) \in Seq(WireBytes)
<1>1. ~(Len(bytes) < LengthPrefixBytes) /\ Len(bytes) \in Nat
  BY LenProperties DEF Decodes, NeedsMore
<1>2. Declared(bytes) \in Nat
  BY <1>1, DeclaredType DEF LengthPrefixBytes
<1>3. ~(Len(bytes) < LengthPrefixBytes + Declared(bytes))
  BY DEF Decodes, NeedsMore
<1>4. BodyOf(bytes) \in Seq(WireBytes)
  BY CodecAssumption DEF Decodes
<1> QED BY <1>1, <1>2, <1>3, <1>4 DEF Consumed, LengthPrefixBytes

\* The frames from a position on: the one there, if it is good, and those
\* behind it.
LEMMA FramesFromDef ==
    ASSUME NEW bytes \in Seq(WireBytes), NEW i \in 1 .. Len(bytes) + 1
    PROVE  /\ FramesFrom(bytes)[i] =
                IF Decodes(RestOf(bytes, i))
                THEN <<BodyOf(RestOf(bytes, i))>> \o FramesFrom(bytes)[i + Consumed(RestOf(bytes, i))]
                ELSE <<>>
           /\ FramesFrom(bytes)[i] \in Seq(Seq(WireBytes))
<1> DEFINE N == Len(bytes) + 1
           stop == [j \in 1 .. N |-> ~Decodes(RestOf(bytes, j))]
           skip == [j \in 1 .. N |-> FALSE]
           piece == [j \in 1 .. N |-> <<BodyOf(RestOf(bytes, j))>>]
           next == [j \in 1 .. N |-> j + Consumed(RestOf(bytes, j))]
           Literal(g, j) ==
                LET rest == SubSeq(bytes, j, Len(bytes))
                    size == LengthPrefixBytes + Declared(rest) IN
                IF Len(rest) < LengthPrefixBytes \/ Len(rest) < size THEN <<>>
                ELSE IF Declared(rest) > MaxFrameBytes THEN <<>>
                ELSE LET frame == SubSeq(rest, LengthPrefixBytes + 1, size) IN
                     IF frame \in WellFormed THEN <<frame>> \o g[j + size] ELSE <<>>
           Is(g) == g = [j \in 1 .. N |-> Literal(g, j)]
<1>1. N \in Nat
  BY LenProperties
<1>2. ASSUME NEW j \in 1 .. N, ~stop[j]
      PROVE  next[j] \in j + 1 .. N /\ piece[j] \in Seq(Seq(WireBytes))
  <2>1. Decodes(RestOf(bytes, j))
    BY <1>2
  <2>2. RestOf(bytes, j) \in Seq(WireBytes) /\ Len(RestOf(bytes, j)) = Len(bytes) - j + 1
    BY RestType
  <2>3. /\ Consumed(RestOf(bytes, j)) \in 2 .. Len(RestOf(bytes, j))
        /\ BodyOf(RestOf(bytes, j)) \in Seq(WireBytes)
    BY <2>1, <2>2, DecodesBounds
  <2>4. next[j] \in j + 1 .. N
    BY <1>1, <2>2, <2>3
  <2>5. piece[j] \in Seq(Seq(WireBytes))
    BY <2>3
  <2> QED BY <2>4, <2>5
<1>3. ASSUME NEW g
      PROVE  Is(g) <=> (g = [j \in 1 .. N |-> IF stop[j] THEN <<>>
                                              ELSE IF skip[j] THEN g[next[j]]
                                              ELSE piece[j] \o g[next[j]]])
  <2>1. ASSUME NEW j \in 1 .. N
        PROVE  Literal(g, j) = IF stop[j] THEN <<>>
                               ELSE IF skip[j] THEN g[next[j]] ELSE piece[j] \o g[next[j]]
    <3>1. PICK rest, size : rest = RestOf(bytes, j) /\ size = LengthPrefixBytes + Declared(rest)
      OBVIOUS
    <3>2. Literal(g, j) =
            IF Len(rest) < LengthPrefixBytes \/ Len(rest) < size THEN <<>>
            ELSE IF Declared(rest) > MaxFrameBytes THEN <<>>
            ELSE IF BodyOf(rest) \in WellFormed THEN <<BodyOf(rest)>> \o g[j + size] ELSE <<>>
      BY <3>1 DEF RestOf, BodyOf
    <3>3. stop[j] = ~Decodes(rest) /\ ~skip[j] /\ piece[j] = <<BodyOf(rest)>> /\ next[j] = j + size
      BY <3>1 DEF Consumed
    <3>4. Len(rest) \in Nat /\ rest \in Seq(WireBytes)
      BY <3>1, RestType, LenProperties
    <3>5. Decodes(rest) <=> /\ ~(Len(rest) < LengthPrefixBytes \/ Len(rest) < size)
                            /\ ~(Declared(rest) > MaxFrameBytes)
                            /\ BodyOf(rest) \in WellFormed
      BY <3>1, <3>4 DEF Decodes, NeedsMore, TooLarge, LengthPrefixBytes
    <3> HIDE DEF stop, skip, piece, next, Literal
    <3> QED BY <3>2, <3>3, <3>5
  <2> HIDE DEF stop, skip, piece, next, Literal
  <2> QED BY <2>1
<1> HIDE DEF stop, skip, piece, next, Literal, Is
<1>4. PICK g : g = [j \in 1 .. N |-> g[j]] /\ Reads(g, N, stop, skip, piece, next)
  BY <1>1, <1>2, ReadingExists
<1>5. Is(g)
  BY <1>3, <1>4 DEF Reads
<1>6. FramesFrom(bytes) = CHOOSE f : Is(f)
  BY DEF FramesFrom, Is, Literal
<1>7. Is(FramesFrom(bytes))
  BY <1>5, <1>6
<1>8. Reads(FramesFrom(bytes), N, stop, skip, piece, next)
  BY <1>3, <1>7 DEF Reads
<1>9. FramesFrom(bytes)[i] \in Seq(Seq(WireBytes))
  BY <1>1, <1>2, <1>8, ReadingType
<1> QED BY <1>8, <1>9 DEF Reads, stop, skip, piece, next

\* The bytes of the rest are those of the stream, further behind.
LEMMA RestElements ==
    ASSUME NEW bytes \in Seq(WireBytes), NEW i \in 1 .. Len(bytes) + 1
    PROVE  \A k \in 1 .. Len(bytes) - i + 1 : RestOf(bytes, i)[k] = bytes[i + k - 1]
<1>1. Len(bytes) \in Nat /\ \A k \in i .. Len(bytes) : bytes[k] \in WireBytes
  BY LenProperties, ElementOfSeq
<1> QED BY <1>1, SubSeqProperties DEF RestOf

\* More bytes at the end of a stream are more bytes at the end of its rest.
LEMMA RestExtended ==
    ASSUME NEW bytes \in Seq(WireBytes), NEW more \in Seq(WireBytes), NEW i \in 1 .. Len(bytes) + 1
    PROVE  /\ bytes \o more \in Seq(WireBytes) /\ i \in 1 .. Len(bytes \o more) + 1
           /\ RestOf(bytes \o more, i) = RestOf(bytes, i) \o more
<1>0. Len(bytes) \in Nat /\ Len(more) \in Nat
  BY LenProperties
<1>1. /\ bytes \o more \in Seq(WireBytes) /\ Len(bytes \o more) = Len(bytes) + Len(more)
      /\ \A k \in 1 .. Len(bytes) + Len(more) :
            (bytes \o more)[k] = IF k <= Len(bytes) THEN bytes[k] ELSE more[k - Len(bytes)]
  BY ConcatProperties
<1>2. i \in 1 .. Len(bytes \o more) + 1
  BY <1>0, <1>1
<1>3. /\ RestOf(bytes, i) \in Seq(WireBytes) /\ Len(RestOf(bytes, i)) = Len(bytes) - i + 1
      /\ \A k \in 1 .. Len(bytes) - i + 1 : RestOf(bytes, i)[k] = bytes[i + k - 1]
  BY RestType, RestElements
<1>4. /\ RestOf(bytes \o more, i) \in Seq(WireBytes)
      /\ Len(RestOf(bytes \o more, i)) = Len(bytes \o more) - i + 1
      /\ \A k \in 1 .. Len(bytes \o more) - i + 1 :
            RestOf(bytes \o more, i)[k] = (bytes \o more)[i + k - 1]
  BY <1>1, <1>2, RestType, RestElements
<1>5. Len(RestOf(bytes, i)) + Len(more) = Len(bytes \o more) - i + 1
  BY <1>0, <1>1, <1>3
<1>6. /\ RestOf(bytes, i) \o more \in Seq(WireBytes)
      /\ Len(RestOf(bytes, i) \o more) = Len(RestOf(bytes, i)) + Len(more)
      /\ \A k \in 1 .. Len(RestOf(bytes, i)) + Len(more) :
            (RestOf(bytes, i) \o more)[k] = IF k <= Len(RestOf(bytes, i)) THEN RestOf(bytes, i)[k]
                                            ELSE more[k - Len(RestOf(bytes, i))]
  BY <1>3, ConcatProperties
<1>7. \A k \in 1 .. Len(bytes) + Len(more) - i + 1 :
         RestOf(bytes \o more, i)[k] = (RestOf(bytes, i) \o more)[k]
  <2> DEFINE n == Len(bytes) m == Len(more)
  <2>1. n \in Nat /\ m \in Nat /\ i \in 1 .. n + 1
    BY <1>0
  <2>2. \A k \in 1 .. n + m : (bytes \o more)[k] = IF k <= n THEN bytes[k] ELSE more[k - n]
    BY <1>1
  <2>3. \A k \in 1 .. n - i + 1 : RestOf(bytes, i)[k] = bytes[i + k - 1]
    BY <1>3
  <2>4. \A k \in 1 .. n + m - i + 1 : RestOf(bytes \o more, i)[k] = (bytes \o more)[i + k - 1]
    BY <1>1, <1>4
  <2>5. \A k \in 1 .. n + m - i + 1 :
           (RestOf(bytes, i) \o more)[k] = IF k <= n - i + 1 THEN RestOf(bytes, i)[k]
                                           ELSE more[k - (n - i + 1)]
    BY <1>1, <1>3, <1>5, <1>6
  <2> HIDE DEF n, m
  <2>6. \A k \in 1 .. n + m - i + 1 : RestOf(bytes \o more, i)[k] = (RestOf(bytes, i) \o more)[k]
    <3> SUFFICES ASSUME NEW k \in 1 .. n + m - i + 1
                 PROVE  RestOf(bytes \o more, i)[k] = (RestOf(bytes, i) \o more)[k]
      OBVIOUS
    <3>1. PICK x \in 1 .. n + m : x = i + k - 1
      BY <2>1
    <3>2. RestOf(bytes \o more, i)[k] = (bytes \o more)[x]
      BY <2>4, <3>1
    <3>3. CASE k <= n - i + 1
      <4>1. x <= n /\ k \in 1 .. n - i + 1
        BY <2>1, <3>1, <3>3
      <4>2. (bytes \o more)[x] = bytes[x] /\ (RestOf(bytes, i) \o more)[k] = RestOf(bytes, i)[k]
        BY <2>2, <2>5, <3>1, <3>3, <4>1
      <4> QED BY <2>3, <3>1, <3>2, <4>1, <4>2
    <3>4. CASE ~(k <= n - i + 1)
      <4>1. ~(x <= n) /\ x - n = k - (n - i + 1)
        BY <2>1, <3>1, <3>4
      <4>2. (bytes \o more)[x] = more[x - n]
        BY <2>2, <4>1
      <4>3. (RestOf(bytes, i) \o more)[k] = more[k - (n - i + 1)]
        BY <2>5, <3>4
      <4> QED BY <3>2, <4>1, <4>2, <4>3
    <3> QED BY <3>3, <3>4
  <2> QED BY <2>6 DEF n, m
<1>8. RestOf(bytes \o more, i) = RestOf(bytes, i) \o more
  <2>1. Len(RestOf(bytes \o more, i)) = Len(RestOf(bytes, i) \o more)
    BY <1>4, <1>5, <1>6
  <2>2. \A k \in 1 .. Len(RestOf(bytes \o more, i)) :
           RestOf(bytes \o more, i)[k] = (RestOf(bytes, i) \o more)[k]
    <3>1. Len(RestOf(bytes \o more, i)) = Len(bytes) + Len(more) - i + 1
      BY <1>1, <1>4
    <3> QED BY <1>7, <3>1
  <2> QED BY <1>4, <1>6, <2>1, <2>2, SeqEqual
<1> QED BY <1>1, <1>2, <1>8

\* The rest of a rest begins further behind.
LEMMA RestOfRest ==
    ASSUME NEW bytes \in Seq(WireBytes), NEW i \in 1 .. Len(bytes) + 1,
           NEW n \in 0 .. Len(bytes) - i + 1
    PROVE  /\ i + n \in 1 .. Len(bytes) + 1
           /\ RestOf(RestOf(bytes, i), n + 1) = RestOf(bytes, i + n)
<1>1. Len(bytes) \in Nat /\ i + n \in 1 .. Len(bytes) + 1
  BY LenProperties
<1>2. /\ RestOf(bytes, i) \in Seq(WireBytes) /\ Len(RestOf(bytes, i)) = Len(bytes) - i + 1
      /\ RestOf(bytes, i + n) \in Seq(WireBytes) /\ Len(RestOf(bytes, i + n)) = Len(bytes) - i - n + 1
  BY <1>1, RestType
<1>3. /\ n + 1 \in 1 .. Len(RestOf(bytes, i)) + 1
      /\ RestOf(RestOf(bytes, i), n + 1) \in Seq(WireBytes)
      /\ Len(RestOf(RestOf(bytes, i), n + 1)) = Len(bytes) - i - n + 1
  <2>1. n + 1 \in 1 .. Len(RestOf(bytes, i)) + 1
    BY <1>1, <1>2
  <2>2. Len(RestOf(RestOf(bytes, i), n + 1)) = Len(RestOf(bytes, i)) - (n + 1) + 1
    BY <1>2, <2>1, RestType
  <2> QED BY <1>1, <1>2, <2>1, <2>2, RestType
<1>4. \A k \in 1 .. Len(bytes) - i + 1 : RestOf(bytes, i)[k] = bytes[i + k - 1]
  BY <1>1, ElementOfSeq, SubSeqProperties DEF RestOf
<1>5. \A k \in 1 .. Len(bytes) - i - n + 1 : RestOf(bytes, i + n)[k] = bytes[i + n + k - 1]
  BY <1>1, ElementOfSeq, SubSeqProperties DEF RestOf
<1>6. ASSUME NEW k \in 1 .. Len(bytes) - i - n + 1
      PROVE  RestOf(RestOf(bytes, i), n + 1)[k] = RestOf(bytes, i + n)[k]
  <2>1. RestOf(RestOf(bytes, i), n + 1)[k] = RestOf(bytes, i)[n + 1 + k - 1]
    <3>1. PICK s \in Seq(WireBytes) : s = RestOf(bytes, i)
      BY <1>2
    <3>2. \A m \in n + 1 .. Len(s) : s[m] \in WireBytes
      BY <1>1, ElementOfSeq
    <3>3. k \in 1 .. Len(s) - (n + 1) + 1 /\ Len(s) \in Nat
      BY <1>1, <1>2, <3>1
    <3>4. SubSeq(s, n + 1, Len(s))[k] = s[n + 1 + k - 1]
      BY <3>2, <3>3, SubSeqProperties
    <3> QED BY <3>1, <3>4 DEF RestOf
  <2>2. n + 1 + k - 1 \in 1 .. Len(bytes) - i + 1 /\ i + (n + 1 + k - 1) - 1 = i + n + k - 1
    BY <1>1
  <2> QED BY <1>4, <1>5, <2>1, <2>2
<1> QED BY <1>1, <1>2, <1>3, <1>6, SeqEqual

\* What follows a frame does not change it.
LEMMA DecodesExtended ==
    ASSUME NEW bytes \in Seq(WireBytes), NEW more \in Seq(WireBytes), Decodes(bytes)
    PROVE  /\ Decodes(bytes \o more) /\ BodyOf(bytes \o more) = BodyOf(bytes)
           /\ Consumed(bytes \o more) = Consumed(bytes)
<1>1. /\ Len(bytes) >= LengthPrefixBytes /\ Declared(bytes) \in Nat
      /\ Consumed(bytes) \in 2 .. Len(bytes)
  BY DecodesBounds
<1>2. /\ Len(bytes) \in Nat /\ Len(more) \in Nat
      /\ bytes \o more \in Seq(WireBytes) /\ Len(bytes \o more) = Len(bytes) + Len(more)
      /\ \A k \in 1 .. Len(bytes) : (bytes \o more)[k] = bytes[k]
  BY LenProperties, ConcatProperties
<1>3. Declared(bytes \o more) = Declared(bytes)
  BY <1>1, <1>2 DEF Declared, LengthPrefixBytes
<1>4. BodyOf(bytes \o more) = BodyOf(bytes)
  <2>1. PICK m \in Nat : m = Declared(bytes) /\ 2 + m <= Len(bytes)
    BY <1>1 DEF Consumed, LengthPrefixBytes
  <2>2. SubSeq(bytes \o more, 3, 2 + m) = SubSeq(bytes, 3, 2 + m)
    <3>1. /\ \A k \in 3 .. 2 + m : bytes[k] \in WireBytes
          /\ \A k \in 3 .. 2 + m : (bytes \o more)[k] \in WireBytes /\ (bytes \o more)[k] = bytes[k]
      BY <1>2, <2>1, ElementOfSeq
    <3>2. /\ SubSeq(bytes, 3, 2 + m) \in Seq(WireBytes) /\ Len(SubSeq(bytes, 3, 2 + m)) = m
          /\ \A k \in 1 .. m : SubSeq(bytes, 3, 2 + m)[k] = bytes[k + 2]
      BY <2>1, <3>1, SubSeqProperties
    <3>3. /\ SubSeq(bytes \o more, 3, 2 + m) \in Seq(WireBytes)
          /\ Len(SubSeq(bytes \o more, 3, 2 + m)) = m
          /\ \A k \in 1 .. m : SubSeq(bytes \o more, 3, 2 + m)[k] = (bytes \o more)[k + 2]
      BY <2>1, <3>1, SubSeqProperties
    <3>4. \A k \in 1 .. m : k + 2 \in 3 .. 2 + m
      BY <2>1
    <3>5. \A k \in 1 .. m : SubSeq(bytes \o more, 3, 2 + m)[k] = SubSeq(bytes, 3, 2 + m)[k]
      BY <3>1, <3>2, <3>3, <3>4
    <3> QED BY <3>2, <3>3, <3>5, SeqEqual
  <2> QED BY <1>3, <2>1, <2>2 DEF BodyOf, LengthPrefixBytes
<1>5. Decodes(bytes \o more)
  BY <1>1, <1>2, <1>3, <1>4 DEF Decodes, NeedsMore, TooLarge, LengthPrefixBytes
<1> QED BY <1>3, <1>4, <1>5 DEF Consumed

\* What was answered are the frames up to the place where the buffer begins,
\* whatever bytes are still to come.
At(p) ==
    /\ buffer = RestOf(sent, p)
    /\ \A more \in Seq(WireBytes) :
          FramesOf(sent \o more) = delivered \o FramesFrom(sent \o more)[p]

PlaceInv ==
    /\ buffer \in Seq(WireBytes) /\ sent \in Seq(WireBytes)
    /\ delivered \in Seq(Seq(WireBytes))
    /\ intact => \E p \in 1 .. Len(sent) + 1 : At(p)

\* It does not matter which two of three are joined first.
LEMMA Joined ==
    ASSUME NEW T, NEW s \in Seq(T), NEW t \in Seq(T), NEW u \in Seq(T)
    PROVE  s \o (t \o u) = (s \o t) \o u
BY ConcatAssociative

\* A frame, as a member of a sequence.
Frame == Seq(WireBytes)

\* The same, of sequences of the members of one set.
LEMMA FramesJoined ==
    ASSUME NEW s \in Seq(Frame), NEW t \in Seq(Frame), NEW u \in Seq(Frame)
    PROVE  s \o (t \o u) = (s \o t) \o u
BY Joined

\* Nor does it matter for sequences of frames.
LEMMA JoinedFrames ==
    ASSUME NEW s \in Seq(Seq(WireBytes)), NEW t \in Seq(Seq(WireBytes)), NEW u \in Seq(Seq(WireBytes))
    PROVE  s \o (t \o u) = (s \o t) \o u
BY FramesJoined DEF Frame

\* A chunk moves the end of the stream, not the place in it.
LEMMA PushPlace ==
    ASSUME PlaceInv, NEW chunk \in Chunks, Push(chunk) PROVE PlaceInv'
<1>1. chunk \in Seq(WireBytes) /\ sent' = sent \o chunk /\ sent' \in Seq(WireBytes)
  BY ChunkType, ConcatProperties DEF Push, PlaceInv
<1>2. delivered' = delivered
  BY DEF Push
<1>3. (buffer' = <<>> /\ intact' = FALSE) \/ (buffer' = buffer \o chunk /\ intact' = intact)
  BY DEF Push
<1>4. buffer' \in Seq(WireBytes)
  <2>1. <<>> \in Seq(WireBytes) /\ buffer \o chunk \in Seq(WireBytes)
    BY <1>1, EmptySeq, ConcatProperties DEF PlaceInv
  <2> QED BY <1>3, <2>1
<1>5. ASSUME intact' PROVE \E p \in 1 .. Len(sent') + 1 : At(p)'
  <2>1. intact /\ buffer' = buffer \o chunk
    BY <1>3, <1>5
  <2>2. PICK p \in 1 .. Len(sent) + 1 : At(p)
    BY <2>1 DEF PlaceInv
  <2>3. p \in 1 .. Len(sent') + 1 /\ RestOf(sent', p) = RestOf(sent, p) \o chunk
    BY <1>1, RestExtended DEF PlaceInv
  <2>4. ASSUME NEW more \in Seq(WireBytes)
        PROVE  FramesOf(sent' \o more) = delivered' \o FramesFrom(sent' \o more)[p]
    <3>1. sent' \o more = sent \o (chunk \o more)
      <4>1. sent \in Seq(WireBytes)
        BY DEF PlaceInv
      <4> QED BY <1>1, <4>1, Joined
    <3>2. chunk \o more \in Seq(WireBytes)
      BY <1>1, ConcatProperties
    <3>3. FramesOf(sent \o (chunk \o more)) = delivered \o FramesFrom(sent \o (chunk \o more))[p]
      BY <2>2, <3>2 DEF At
    <3> QED BY <1>2, <3>1, <3>3
  <2>5. At(p)'
    BY <2>1, <2>2, <2>3, <2>4 DEF At, RestOf
  <2> QED BY <2>3, <2>5
<1> QED BY <1>1, <1>2, <1>4, <1>5 DEF PlaceInv

\* The frame that is answered is the one at the place, which moves behind it.
LEMMA NextFramePlace ==
    ASSUME PlaceInv, NextFrame PROVE PlaceInv'
<1>1. /\ buffer \in Seq(WireBytes) /\ sent \in Seq(WireBytes) /\ Decodes(buffer)
      /\ delivered \in Seq(Seq(WireBytes))
      /\ buffer' = RestOf(buffer, Consumed(buffer) + 1)
      /\ delivered' = Append(delivered, BodyOf(buffer))
      /\ sent' = sent /\ intact' = intact
  BY DEF PlaceInv, NextFrame, RestOf
<1>2. Consumed(buffer) \in 2 .. Len(buffer) /\ BodyOf(buffer) \in Seq(WireBytes) /\ Len(buffer) \in Nat
  BY <1>1, DecodesBounds, LenProperties
<1>3. buffer' \in Seq(WireBytes) /\ delivered' \in Seq(Seq(WireBytes))
  <2>1. Consumed(buffer) + 1 \in 1 .. Len(buffer) + 1
    BY <1>2
  <2> QED BY <1>1, <1>2, <2>1, RestType, AppendProperties
<1>4. ASSUME intact' PROVE \E q \in 1 .. Len(sent) + 1 : At(q)'
  <2>1. PICK p \in 1 .. Len(sent) + 1 : At(p)
    BY <1>1, <1>4 DEF PlaceInv
  <2>2. buffer = RestOf(sent, p) /\ Len(buffer) = Len(sent) - p + 1 /\ Len(sent) \in Nat
    BY <1>1, <2>1, RestType, LenProperties DEF At
  <2>3. PICK n \in Nat : n = Consumed(buffer) /\ n \in 0 .. Len(sent) - p + 1
    BY <1>2, <2>2
  <2>4. p + n \in 1 .. Len(sent) + 1 /\ buffer' = RestOf(sent, p + n)
    BY <1>1, <2>2, <2>3, RestOfRest
  <2>5. ASSUME NEW more \in Seq(WireBytes)
        PROVE  FramesOf(sent \o more) = delivered' \o FramesFrom(sent \o more)[p + n]
    <3>1. /\ sent \o more \in Seq(WireBytes) /\ p \in 1 .. Len(sent \o more) + 1
          /\ RestOf(sent \o more, p) = buffer \o more
      BY <1>1, <2>2, RestExtended
    <3>2. /\ Decodes(buffer \o more) /\ BodyOf(buffer \o more) = BodyOf(buffer)
          /\ Consumed(buffer \o more) = n
      BY <1>1, <2>3, DecodesExtended
    <3>3. FramesFrom(sent \o more)[p] = <<BodyOf(buffer)>> \o FramesFrom(sent \o more)[p + n]
      BY <3>1, <3>2, FramesFromDef
    <3>4. p + n \in 1 .. Len(sent \o more) + 1
      BY <1>1, <2>4, RestExtended
    <3>5. FramesFrom(sent \o more)[p + n] \in Seq(Seq(WireBytes))
      BY <3>1, <3>4, FramesFromDef
    <3>6. FramesOf(sent \o more) = delivered \o (<<BodyOf(buffer)>> \o FramesFrom(sent \o more)[p + n])
      BY <2>1, <3>3 DEF At
    <3>7. FramesOf(sent \o more) = (delivered \o <<BodyOf(buffer)>>) \o FramesFrom(sent \o more)[p + n]
      <4>1. <<BodyOf(buffer)>> \in Seq(Seq(WireBytes))
        BY <1>2
      <4>2. PICK rest \in Seq(Seq(WireBytes)) : rest = FramesFrom(sent \o more)[p + n]
        BY <3>5
      <4>3. delivered \o (<<BodyOf(buffer)>> \o rest) = (delivered \o <<BodyOf(buffer)>>) \o rest
        <5>1. PICK one \in Seq(Seq(WireBytes)) : one = <<BodyOf(buffer)>>
          BY <4>1
        <5>2. delivered \in Seq(Seq(WireBytes))
          BY <1>1
        <5>3. delivered \o (one \o rest) = (delivered \o one) \o rest
          BY <5>2, JoinedFrames
        <5> QED BY <5>1, <5>3
      <4> QED BY <3>6, <4>2, <4>3
    <3>8. delivered' = delivered \o <<BodyOf(buffer)>>
      BY <1>1, <1>2, AppendIsConcat
    <3> QED BY <3>7, <3>8
  <2>6. At(p + n)'
    BY <1>1, <2>4, <2>5 DEF At, RestOf
  <2> QED BY <2>4, <2>6
<1> QED BY <1>1, <1>3, <1>4 DEF PlaceInv

\* FrameDecoder: until a push fails, what next_frame() answers are the frames of
\* the stream in order, all of them once it asks for more, for every stream in
\* every chunking, whatever bodies parse.
THEOREM FramesAlwaysInOrder ==
    CodecSpec => []FramesInOrder
<1>1. CodecInit => PlaceInv
  <2> SUFFICES ASSUME CodecInit PROVE PlaceInv
    OBVIOUS
  <2>1. buffer = <<>> /\ sent = <<>> /\ delivered = <<>> /\ Len(sent) = 0
    BY EmptySeq DEF CodecInit
  <2>2. sent \in Seq(WireBytes) /\ 1 \in 1 .. Len(sent) + 1
    BY <2>1, EmptySeq
  <2>3. buffer = RestOf(sent, 1)
    <3>1. RestOf(sent, 1) \in Seq(WireBytes) /\ Len(RestOf(sent, 1)) = Len(sent) - 1 + 1
      BY <2>2, RestType
    <3>2. Len(RestOf(sent, 1)) = 0
      BY <2>1, <3>1
    <3> QED BY <2>1, <3>1, <3>2, EmptySeq
  <2>4. ASSUME NEW more \in Seq(WireBytes)
        PROVE  FramesOf(sent \o more) = delivered \o FramesFrom(sent \o more)[1]
    <3>1. sent \o more = more
      BY <2>1, ConcatEmptySeq
    <3>2. 1 \in 1 .. Len(more) + 1
      BY LenProperties
    <3>3. FramesFrom(more)[1] \in Seq(Seq(WireBytes))
      BY <3>2, FramesFromDef
    <3> QED BY <2>1, <3>1, <3>3, ConcatEmptySeq DEF FramesOf
  <2>5. At(1)
    BY <2>3, <2>4 DEF At
  <2> QED BY <2>1, <2>2, <2>5, EmptySeq DEF PlaceInv
<1>2. PlaceInv /\ [CodecNext]_codecVars => PlaceInv'
  <2> SUFFICES ASSUME PlaceInv, [CodecNext]_codecVars PROVE PlaceInv'
    OBVIOUS
  <2>1. CASE UNCHANGED codecVars
    BY <2>1 DEF codecVars, PlaceInv, At, RestOf
  <2> QED BY <2>1, PushPlace, NextFramePlace DEF CodecNext, NoFrame
<1>3. PlaceInv => FramesInOrder
  <2> SUFFICES ASSUME PlaceInv, intact
               PROVE  /\ Sequence!IsPrefix(delivered, FramesOf(sent))
                      /\ ~Decodes(buffer) => delivered = FramesOf(sent)
    BY DEF FramesInOrder
  <2>1. PICK p \in 1 .. Len(sent) + 1 : At(p)
    BY DEF PlaceInv
  <2>2. PICK tail \in Seq(Seq(WireBytes)) : tail = FramesFrom(sent)[p]
    BY FramesFromDef DEF PlaceInv
  <2>3. FramesOf(sent) = delivered \o tail
    <3>1. <<>> \in Seq(WireBytes) /\ sent \o <<>> = sent
      BY EmptySeq, ConcatEmptySeq DEF PlaceInv
    <3>2. FramesOf(sent \o <<>>) = delivered \o FramesFrom(sent \o <<>>)[p]
      BY <2>1, <3>1 DEF At
    <3> QED BY <2>2, <3>1, <3>2
  <2>4. ~Decodes(buffer) => tail = <<>>
    BY <2>1, <2>2, FramesFromDef DEF At, PlaceInv
  <2>5. delivered \in Seq(Seq(WireBytes))
    BY DEF PlaceInv
  <2>6. ~Decodes(buffer) => delivered = FramesOf(sent)
    BY <2>3, <2>4, <2>5, ConcatEmptySeq
  <2>7. Sequence!IsPrefix(delivered, delivered \o tail)
    <3>1. /\ delivered \o tail \in Seq(Seq(WireBytes))
          /\ Len(delivered \o tail) = Len(delivered) + Len(tail)
          /\ Len(delivered) \in Nat /\ Len(tail) \in Nat
          /\ \A k \in 1 .. Len(delivered) : (delivered \o tail)[k] = delivered[k]
      BY <2>5, ConcatProperties, LenProperties
    <3>2. /\ SubSeq(delivered, 1, Len(delivered)) = delivered
          /\ SubSeq(delivered \o tail, 1, Len(delivered)) = delivered
      <4>1. \A k \in 1 .. Len(delivered) : delivered[k] \in Seq(WireBytes)
        BY <2>5, ElementOfSeq
      <4>2. /\ SubSeq(delivered, 1, Len(delivered)) \in Seq(Seq(WireBytes))
            /\ Len(SubSeq(delivered, 1, Len(delivered))) = Len(delivered)
            /\ \A k \in 1 .. Len(delivered) : SubSeq(delivered, 1, Len(delivered))[k] = delivered[k]
        BY <3>1, <4>1, SubSeqProperties
      <4>3. /\ SubSeq(delivered \o tail, 1, Len(delivered)) \in Seq(Seq(WireBytes))
            /\ Len(SubSeq(delivered \o tail, 1, Len(delivered))) = Len(delivered)
            /\ \A k \in 1 .. Len(delivered) : SubSeq(delivered \o tail, 1, Len(delivered))[k] = delivered[k]
        BY <3>1, <4>1, SubSeqProperties
      <4> QED BY <2>5, <4>2, <4>3, SeqEqual
    <3> QED BY <3>1, <3>2 DEF Sequence!IsPrefix
  <2> QED BY <2>3, <2>6, <2>7
<1> QED BY <1>1, <1>2, <1>3, PTL DEF CodecSpec

-----------------------------------------------------------------------------
(* Where the frames of a stream stop, and what the caller loses *)

\* Going on from position to position until one at which to stop.
Skips(g, N, stop, next) == \A i \in 1 .. N : g[i] = IF stop[i] THEN i ELSE g[next[i]]

LEMMA SkippingExists ==
    ASSUME NEW N \in Nat, NEW stop, NEW next,
           \A i \in 1 .. N : ~stop[i] => next[i] \in i + 1 .. N
    PROVE  \E g : g = [i \in 1 .. N |-> g[i]] /\ Skips(g, N, stop, next)
<1> DEFINE Is(g, i) == \A j \in i .. N : g[j] = IF stop[j] THEN j ELSE g[next[j]]
           P == {i \in 1 .. N : \E g : Is(g, i)}
<1>1. Is(<<>>, N + 1)
  OBVIOUS
<1>2. ASSUME NEW i \in 1 .. N, \A j \in i + 1 .. N : j \in P PROVE i \in P
  <2>1. PICK g : Is(g, i + 1)
    <3>1. CASE i = N
      BY <1>1, <3>1
    <3>2. CASE i # N
      <4>1. i + 1 \in P
        <5>1. i + 1 \in i + 1 .. N
          BY <3>2
        <5> HIDE DEF P
        <5> QED BY <1>2, <5>1
      <4> QED BY <4>1
    <3> QED BY <3>1, <3>2
  <2> DEFINE h == [j \in i .. N |-> IF j # i THEN g[j] ELSE IF stop[i] THEN i ELSE g[next[i]]]
  <2>2. ASSUME NEW j \in i .. N PROVE h[j] = IF stop[j] THEN j ELSE h[next[j]]
    <3>1. ~stop[j] => next[j] \in j + 1 .. N /\ next[j] \in i + 1 .. N
      OBVIOUS
    <3>2. ~stop[j] => h[next[j]] = g[next[j]]
      BY <3>1
    <3>3. CASE j = i
      BY <3>2, <3>3
    <3>4. CASE j # i
      BY <2>1, <3>2, <3>4
    <3> QED BY <3>3, <3>4
  <2>3. Is(h, i)
    BY <2>2
  <2> HIDE DEF Is, h
  <2> QED BY <2>3
<1>3. \A i \in 1 .. N : i \in P
  <2> HIDE DEF P
  <2> QED BY <1>2, Backwards
<1>4. \E g : Is(g, 1)
  <2>1. CASE N = 0
    BY <1>1, <2>1
  <2>2. CASE N # 0
    <3>1. 1 \in P
      <4>1. 1 \in 1 .. N
        BY <2>2
      <4> HIDE DEF P
      <4> QED BY <1>3, <4>1
    <3> QED BY <3>1
  <2> QED BY <2>1, <2>2
<1>5. PICK g : Is(g, 1)
  BY <1>4
<1> DEFINE h == [i \in 1 .. N |-> g[i]]
<1>6. Skips(h, N, stop, next)
  BY <1>5 DEF Skips
<1>7. h = [i \in 1 .. N |-> h[i]]
  OBVIOUS
<1> HIDE DEF h
<1> QED BY <1>6, <1>7

\* The frame in front is there and within the limit, whether it parses or not.
Passes(bytes) == ~NeedsMore(bytes) /\ ~TooLarge(bytes)

\* The frames stop at a position, or where those behind the frame there stop.
LEMMA StopFromDef ==
    ASSUME NEW bytes \in Seq(WireBytes), NEW i \in 1 .. Len(bytes) + 1
    PROVE  StopFrom(bytes)[i] = IF Passes(RestOf(bytes, i))
                                THEN StopFrom(bytes)[i + Consumed(RestOf(bytes, i))] ELSE i
<1> DEFINE N == Len(bytes) + 1
           stop == [j \in 1 .. N |-> ~Passes(RestOf(bytes, j))]
           next == [j \in 1 .. N |-> j + Consumed(RestOf(bytes, j))]
           Literal(g, j) ==
                LET rest == SubSeq(bytes, j, Len(bytes))
                    size == LengthPrefixBytes + Declared(rest) IN
                IF Len(rest) < LengthPrefixBytes \/ Declared(rest) > MaxFrameBytes \/ Len(rest) < size
                  THEN j ELSE g[j + size]
           Is(g) == g = [j \in 1 .. N |-> Literal(g, j)]
<1>1. N \in Nat
  BY LenProperties
<1>2. ASSUME NEW j \in 1 .. N
      PROVE  /\ stop[j] <=> \/ Len(RestOf(bytes, j)) < LengthPrefixBytes
                            \/ Declared(RestOf(bytes, j)) > MaxFrameBytes
                            \/ Len(RestOf(bytes, j)) < LengthPrefixBytes + Declared(RestOf(bytes, j))
             /\ ~stop[j] => next[j] \in j + 1 .. N
  <2>1. PICK rest \in Seq(WireBytes) : rest = RestOf(bytes, j) /\ Len(rest) = Len(bytes) - j + 1
    BY RestType
  <2>2. Len(rest) \in Nat /\ (Len(rest) >= LengthPrefixBytes => Declared(rest) \in Nat)
    BY LenProperties, DeclaredType
  <2>3. Passes(rest) <=> /\ Len(rest) >= LengthPrefixBytes
                         /\ ~(Declared(rest) > MaxFrameBytes)
                         /\ ~(Len(rest) < LengthPrefixBytes + Declared(rest))
    BY <2>2 DEF Passes, NeedsMore, TooLarge, LengthPrefixBytes
  <2>4. Passes(rest) => Consumed(rest) \in 2 .. Len(rest)
    BY <2>2, <2>3 DEF Consumed, LengthPrefixBytes
  <2>5. stop[j] = ~Passes(rest) /\ next[j] = j + Consumed(rest)
    BY <2>1
  <2>6. ~stop[j] => next[j] \in j + 1 .. N
    <3> SUFFICES ASSUME ~stop[j] PROVE next[j] \in j + 1 .. N
      OBVIOUS
    <3> HIDE DEF stop, next
    <3>0. Passes(rest) /\ Len(rest) \in Nat
      BY <2>2, <2>5
    <3>1. PICK n \in Nat : n = Consumed(rest) /\ n \in 2 .. Len(rest)
      BY <2>4, <3>0
    <3>2. Len(bytes) \in Nat /\ next[j] = j + n
      BY <2>5, <3>1, LenProperties
    <3> QED BY <2>1, <3>1, <3>2
  <2> HIDE DEF stop, next
  <2>7. stop[j] <=> \/ Len(rest) < LengthPrefixBytes
                    \/ Declared(rest) > MaxFrameBytes
                    \/ Len(rest) < LengthPrefixBytes + Declared(rest)
    <3>1. ~(Len(rest) >= 2) <=> Len(rest) < 2
      BY <2>2
    <3> QED BY <2>3, <2>5, <3>1 DEF LengthPrefixBytes
  <2> QED BY <2>1, <2>6, <2>7
<1>3. ASSUME NEW g
      PROVE  Is(g) <=> (g = [j \in 1 .. N |-> IF stop[j] THEN j ELSE g[next[j]]])
  <2>1. ASSUME NEW j \in 1 .. N PROVE Literal(g, j) = IF stop[j] THEN j ELSE g[next[j]]
    <3>1. next[j] = j + (LengthPrefixBytes + Declared(RestOf(bytes, j)))
      BY DEF Consumed
    <3>2. Literal(g, j) =
            IF \/ Len(RestOf(bytes, j)) < LengthPrefixBytes
               \/ Declared(RestOf(bytes, j)) > MaxFrameBytes
               \/ Len(RestOf(bytes, j)) < LengthPrefixBytes + Declared(RestOf(bytes, j))
            THEN j ELSE g[j + (LengthPrefixBytes + Declared(RestOf(bytes, j)))]
      BY DEF RestOf
    <3> HIDE DEF stop, next, Literal
    <3> QED BY <1>2, <3>1, <3>2
  <2> HIDE DEF stop, next, Literal
  <2> QED BY <2>1
<1> HIDE DEF stop, next, Literal, Is
<1>4. PICK g : g = [j \in 1 .. N |-> g[j]] /\ Skips(g, N, stop, next)
  BY <1>1, <1>2, SkippingExists
<1>5. Is(g)
  BY <1>3, <1>4 DEF Skips
<1>6. StopFrom(bytes) = CHOOSE f : Is(f)
  BY DEF StopFrom, Is, Literal
<1>7. Is(StopFrom(bytes))
  BY <1>5, <1>6
<1>8. Skips(StopFrom(bytes), N, stop, next)
  BY <1>3, <1>7 DEF Skips
<1> QED BY <1>8 DEF Skips, stop, next

\* More bytes do not make less of what a frame declares.
LEMMA TooLargeExtended ==
    ASSUME NEW bytes \in Seq(WireBytes), NEW more \in Seq(WireBytes), TooLarge(bytes)
    PROVE  TooLarge(bytes \o more)
<1>1. /\ Len(bytes) \in Nat /\ Len(more) \in Nat /\ Len(bytes \o more) = Len(bytes) + Len(more)
      /\ \A k \in 1 .. Len(bytes) : (bytes \o more)[k] = bytes[k]
  BY LenProperties, ConcatProperties
<1>2. Len(bytes) >= 2 /\ Declared(bytes) > MaxFrameBytes
  BY DEF TooLarge, LengthPrefixBytes
<1>3. Declared(bytes \o more) = Declared(bytes)
  BY <1>1, <1>2 DEF Declared
<1> QED BY <1>1, <1>2, <1>3 DEF TooLarge, LengthPrefixBytes

\* As long as no push fails the buffer begins at a place that the frames of the
\* stream pass; and where a prompt caller lost it, they stop.
Reached(p) ==
    /\ buffer = RestOf(sent, p)
    /\ \A more \in Seq(WireBytes) : StopFrom(sent \o more)[1] = StopFrom(sent \o more)[p]

Lost(p) ==
    /\ TooLarge(RestOf(sent, p))
    /\ \A more \in Seq(WireBytes) : StopFrom(sent \o more)[1] = p

StopInv ==
    /\ buffer \in Seq(WireBytes) /\ sent \in Seq(WireBytes)
    /\ intact => \E p \in 1 .. Len(sent) + 1 : Reached(p)
    /\ prompt /\ ~intact => \E p \in 1 .. Len(sent) + 1 : Lost(p)

\* When more is asked for, less than a frame is buffered.
LEMMA LessThanAFrame ==
    ASSUME buffer \in Seq(WireBytes), NeedsMore(buffer)
    PROVE  Len(buffer) < LengthPrefixBytes + MaxFrameBytes
<1>1. Len(buffer) \in Nat /\ MaxFrameBytes \in Nat \ {0}
  BY LenProperties, CodecAssumption
<1>2. CASE Len(buffer) < LengthPrefixBytes
  BY <1>1, <1>2 DEF LengthPrefixBytes
<1>3. CASE Len(buffer) >= LengthPrefixBytes
  <2>1. Declared(buffer) \in Nat
    BY <1>3, DeclaredType
  <2>2. Len(buffer) < LengthPrefixBytes + Declared(buffer) /\ ~(Declared(buffer) > MaxFrameBytes)
    BY <1>1, <1>3 DEF NeedsMore, TooLarge, LengthPrefixBytes
  <2> QED BY <1>1, <2>1, <2>2 DEF LengthPrefixBytes
<1> QED BY <1>1, <1>2, <1>3 DEF LengthPrefixBytes

\* A place that frames have reached they have reached still when more comes.
LEMMA ReachedExtended ==
    ASSUME NEW s \in Seq(WireBytes), NEW chunk \in Seq(WireBytes), NEW p,
           \A more \in Seq(WireBytes) : StopFrom(s \o more)[1] = StopFrom(s \o more)[p]
    PROVE  \A more \in Seq(WireBytes) :
              StopFrom((s \o chunk) \o more)[1] = StopFrom((s \o chunk) \o more)[p]
<1> SUFFICES ASSUME NEW more \in Seq(WireBytes)
             PROVE  StopFrom((s \o chunk) \o more)[1] = StopFrom((s \o chunk) \o more)[p]
  OBVIOUS
<1>1. (s \o chunk) \o more = s \o (chunk \o more) /\ chunk \o more \in Seq(WireBytes)
  BY Joined, ConcatProperties
<1> QED BY <1>1

\* A prompt caller meets only the other ground of push().
LEMMA PushStop ==
    ASSUME MaxChunk <= MaxFrameBytes + LengthPrefixBytes,
           StopInv, NEW chunk \in Chunks, Push(chunk)
    PROVE  StopInv'
<1>1. chunk \in Seq(WireBytes) /\ sent' = sent \o chunk /\ sent' \in Seq(WireBytes)
  BY ChunkType, ConcatProperties DEF Push, StopInv
<1>2. buffer \o chunk \in Seq(WireBytes) /\ <<>> \in Seq(WireBytes)
  BY <1>1, EmptySeq, ConcatProperties DEF StopInv
<1>3. \/ buffer' = <<>> /\ intact' = FALSE
         /\ (Len(buffer) + Len(chunk) > MaxBuffered \/ TooLarge(buffer \o chunk))
      \/ buffer' = buffer \o chunk /\ intact' = intact
  BY DEF Push
<1>4. prompt' = (prompt /\ NeedsMore(buffer))
  BY DEF Push
<1>5. ASSUME NEW p \in 1 .. Len(sent) + 1
      PROVE  p \in 1 .. Len(sent') + 1 /\ RestOf(sent', p) = RestOf(sent, p) \o chunk
  BY <1>1, RestExtended DEF StopInv
<1>6. ASSUME intact' PROVE \E p \in 1 .. Len(sent') + 1 : Reached(p)'
  <2>1. intact /\ buffer' = buffer \o chunk
    BY <1>3, <1>6
  <2>2. PICK p \in 1 .. Len(sent) + 1 : Reached(p)
    BY <2>1 DEF StopInv
  <2>3. \A more \in Seq(WireBytes) : StopFrom(sent' \o more)[1] = StopFrom(sent' \o more)[p]
    BY <1>1, <2>2, ReachedExtended DEF Reached, StopInv
  <2>4. Reached(p)'
    BY <1>5, <2>1, <2>2, <2>3 DEF Reached, RestOf
  <2> QED BY <1>5, <2>4
<1>7. ASSUME prompt', ~intact' PROVE \E p \in 1 .. Len(sent') + 1 : Lost(p)'
  <2>1. PICK p \in 1 .. Len(sent) + 1 :
          /\ TooLarge(RestOf(sent, p) \o chunk)
          /\ \A more \in Seq(WireBytes) : StopFrom(sent' \o more)[1] = p
    <3>1. CASE ~intact
      <4>1. PICK p \in 1 .. Len(sent) + 1 : Lost(p)
        BY <1>4, <1>7, <3>1 DEF StopInv
      <4>2. TooLarge(RestOf(sent, p) \o chunk)
        <5>1. RestOf(sent, p) \in Seq(WireBytes)
          BY RestType DEF StopInv
        <5> QED BY <1>1, <4>1, <5>1, TooLargeExtended DEF Lost
      <4>3. ASSUME NEW more \in Seq(WireBytes) PROVE StopFrom(sent' \o more)[1] = p
        <5>1. sent' \o more = sent \o (chunk \o more) /\ chunk \o more \in Seq(WireBytes)
          BY <1>1, Joined, ConcatProperties DEF StopInv
        <5> QED BY <4>1, <5>1 DEF Lost
      <4> QED BY <4>2, <4>3
    <3>2. CASE intact
      <4>1. PICK p \in 1 .. Len(sent) + 1 : Reached(p)
        BY <3>2 DEF StopInv
      <4>2. TooLarge(buffer \o chunk)
        <5>1. Len(buffer) < LengthPrefixBytes + MaxFrameBytes
          BY <1>4, <1>7, LessThanAFrame DEF StopInv
        <5>2. Len(chunk) \in 1 .. MaxChunk /\ Len(buffer) \in Nat
          <6>1. PICK n \in 1 .. MaxChunk : chunk \in [1 .. n -> WireBytes]
            BY DEF Chunks
          <6>2. n \in Nat
            BY CodecAssumption
          <6>3. Len(chunk) = n
            BY <6>1, <6>2
          <6> QED BY <6>3, LenProperties DEF StopInv
        <5>3. MaxChunk \in Nat /\ MaxFrameBytes \in Nat
          BY CodecAssumption
        <5>4. ~(Len(buffer) + Len(chunk) > MaxBuffered)
          BY <5>1, <5>2, <5>3 DEF MaxBuffered, LengthPrefixBytes
        <5> QED BY <1>3, <1>7, <3>2, <5>4
      <4>3. ASSUME NEW more \in Seq(WireBytes) PROVE StopFrom(sent' \o more)[1] = p
        <5>1. StopFrom(sent' \o more)[1] = StopFrom(sent' \o more)[p]
          BY <1>1, <4>1, ReachedExtended DEF Reached, StopInv
        <5>2. /\ sent' \o more \in Seq(WireBytes) /\ p \in 1 .. Len(sent' \o more) + 1
              /\ RestOf(sent' \o more, p) = (buffer \o chunk) \o more
          <6>1. sent' \in Seq(WireBytes) /\ p \in 1 .. Len(sent') + 1
            BY <1>1, <1>5
          <6>2. /\ sent' \o more \in Seq(WireBytes) /\ p \in 1 .. Len(sent' \o more) + 1
                /\ RestOf(sent' \o more, p) = RestOf(sent', p) \o more
            BY ONLY <6>1, more \in Seq(WireBytes), RestExtended
          <6>3. RestOf(sent', p) = buffer \o chunk
            BY <1>5, <4>1 DEF Reached
          <6> QED BY ONLY <6>2, <6>3
        <5>3. TooLarge((buffer \o chunk) \o more)
          BY <1>2, <4>2, TooLargeExtended
        <5> QED BY <5>1, <5>2, <5>3, StopFromDef DEF Passes
      <4> QED BY <4>1, <4>2, <4>3 DEF Reached
    <3> QED BY <3>1, <3>2
  <2>2. Lost(p)'
    BY <1>5, <2>1 DEF Lost, RestOf
  <2> QED BY <1>5, <2>2
<1>8. buffer' \in Seq(WireBytes)
  BY <1>2, <1>3
<1> QED BY <1>1, <1>6, <1>7, <1>8 DEF StopInv

\* A frame that is answered is one that the stream passes.
LEMMA NextFrameStop ==
    ASSUME StopInv, NextFrame PROVE StopInv'
<1>1. /\ buffer \in Seq(WireBytes) /\ sent \in Seq(WireBytes) /\ Decodes(buffer)
      /\ buffer' = RestOf(buffer, Consumed(buffer) + 1)
      /\ sent' = sent /\ intact' = intact /\ prompt' = prompt
  BY DEF StopInv, NextFrame, RestOf
<1>2. Consumed(buffer) \in 2 .. Len(buffer) /\ Len(buffer) \in Nat
  BY <1>1, DecodesBounds, LenProperties
<1>3. buffer' \in Seq(WireBytes)
  <2>1. Consumed(buffer) + 1 \in 1 .. Len(buffer) + 1
    BY <1>2
  <2> QED BY <1>1, <2>1, RestType
<1>4. ASSUME intact' PROVE \E q \in 1 .. Len(sent) + 1 : Reached(q)'
  <2>1. PICK p \in 1 .. Len(sent) + 1 : Reached(p)
    BY <1>1, <1>4 DEF StopInv
  <2>2. buffer = RestOf(sent, p) /\ Len(buffer) = Len(sent) - p + 1 /\ Len(sent) \in Nat
    BY <1>1, <2>1, RestType, LenProperties DEF Reached
  <2>3. PICK n \in Nat : n = Consumed(buffer) /\ n \in 0 .. Len(sent) - p + 1
    BY <1>2, <2>2
  <2>4. p + n \in 1 .. Len(sent) + 1 /\ buffer' = RestOf(sent, p + n)
    BY <1>1, <2>2, <2>3, RestOfRest
  <2>5. ASSUME NEW more \in Seq(WireBytes)
        PROVE  StopFrom(sent \o more)[1] = StopFrom(sent \o more)[p + n]
    <3>1. /\ sent \o more \in Seq(WireBytes) /\ p \in 1 .. Len(sent \o more) + 1
          /\ RestOf(sent \o more, p) = buffer \o more
      BY <1>1, <2>2, RestExtended
    <3>2. Passes(buffer \o more) /\ Consumed(buffer \o more) = n
      BY <1>1, <2>3, DecodesExtended DEF Decodes, Passes
    <3>3. StopFrom(sent \o more)[p] = StopFrom(sent \o more)[p + n]
      BY <3>1, <3>2, StopFromDef
    <3> QED BY <2>1, <3>3 DEF Reached
  <2>6. Reached(p + n)'
    BY <1>1, <2>4, <2>5 DEF Reached, RestOf
  <2> QED BY <2>4, <2>6
<1>5. ASSUME prompt', ~intact' PROVE \E q \in 1 .. Len(sent) + 1 : Lost(q)'
  <2>1. PICK p \in 1 .. Len(sent) + 1 : Lost(p)
    BY <1>1, <1>5 DEF StopInv
  <2>2. Lost(p)'
    BY <1>1, <2>1 DEF Lost, RestOf
  <2> QED BY <2>2
<1> QED BY <1>1, <1>3, <1>4, <1>5 DEF StopInv

\* FrameDecoder: a caller that pushes no more than a frame, and only when
\* next_frame() has asked for more, loses its place nowhere but at a frame of
\* the stream that declares too much: never to the bound of the buffer.  For
\* every stream in every chunking, whatever bodies parse.
THEOREM PlaceAlwaysKept ==
    ASSUME MaxChunk <= MaxFrameBytes + LengthPrefixBytes
    PROVE  CodecSpec => []KeepsItsPlace
<1>1. CodecInit => StopInv
  <2> SUFFICES ASSUME CodecInit PROVE StopInv
    OBVIOUS
  <2>1. buffer = <<>> /\ sent = <<>> /\ Len(sent) = 0 /\ intact = TRUE
    BY EmptySeq DEF CodecInit
  <2>2. sent \in Seq(WireBytes) /\ 1 \in 1 .. Len(sent) + 1
    BY <2>1, EmptySeq
  <2>3. buffer = RestOf(sent, 1)
    <3>1. RestOf(sent, 1) \in Seq(WireBytes) /\ Len(RestOf(sent, 1)) = Len(sent) - 1 + 1
      BY <2>2, RestType
    <3>2. Len(RestOf(sent, 1)) = 0
      BY <2>1, <3>1
    <3> QED BY <2>1, <3>1, <3>2, EmptySeq
  <2>4. Reached(1)
    BY <2>3 DEF Reached
  <2> QED BY <2>1, <2>2, <2>4, EmptySeq DEF StopInv
<1>2. StopInv /\ [CodecNext]_codecVars => StopInv'
  <2> SUFFICES ASSUME StopInv, [CodecNext]_codecVars PROVE StopInv'
    OBVIOUS
  <2>1. CASE UNCHANGED codecVars
    BY <2>1 DEF codecVars, StopInv, Reached, Lost, RestOf
  <2> QED BY <2>1, PushStop, NextFrameStop DEF CodecNext, NoFrame
<1>3. StopInv => KeepsItsPlace
  <2> SUFFICES ASSUME StopInv, prompt, ~intact
               PROVE  TooLarge(RestOf(sent, StopFrom(sent)[1]))
    BY DEF KeepsItsPlace, TooLarge, RestOf
  <2>1. PICK p \in 1 .. Len(sent) + 1 : Lost(p)
    BY DEF StopInv
  <2>2. <<>> \in Seq(WireBytes) /\ sent \o <<>> = sent
    BY EmptySeq, ConcatEmptySeq DEF StopInv
  <2>3. StopFrom(sent)[1] = p
    BY <2>1, <2>2 DEF Lost
  <2> QED BY <2>1, <2>3 DEF Lost
<1> QED BY <1>1, <1>2, <1>3, PTL DEF CodecSpec

-----------------------------------------------------------------------------
(* The bodies a device frame decoder makes ready, and those read_frame()     *)
(* returns                                                                   *)

\* Two bytes make a number.
LEMMA LengthType ==
    ASSUME NEW bytes \in Seq(Bytes), NEW at \in 1 .. Len(bytes), at + 1 <= Len(bytes)
    PROVE  LengthAt(bytes, at) \in Nat
<1>1. Len(bytes) \in Nat /\ Radix \in Nat
  BY LenProperties, FramingAssumption
<1>2. bytes[at] \in Bytes /\ bytes[at + 1] \in Bytes
  BY <1>1, ElementOfSeq
<1>3. PICK high \in Nat, low \in Nat : high = bytes[at] /\ low = bytes[at + 1]
  BY <1>2 DEF Bytes
<1>4. high * Radix \in Nat
  BY <1>1
<1> QED BY <1>3, <1>4 DEF LengthAt

\* The first marker is one, and no other comes before it.
LEMMA FirstMarkerFirst ==
    ASSUME NEW bytes \in Seq(Bytes), NEW i \in 1 .. Len(bytes) + 1, Markers(bytes, i) # {}
    PROVE  /\ FirstMarker(bytes, i) \in Markers(bytes, i)
           /\ FirstMarker(bytes, i) \in i + 2 .. Len(bytes) + 1
           /\ \A m \in Markers(bytes, i) : FirstMarker(bytes, i) <= m
<1>1. Markers(bytes, i) \in SUBSET Nat
  BY LenProperties DEF Markers
<1>2. \E k \in Markers(bytes, i) : \A m \in Markers(bytes, i) : k <= m
  <2> HIDE DEF Markers
  <2> QED BY <1>1, LeastExists
<1>3. /\ FirstMarker(bytes, i) \in Markers(bytes, i)
      /\ \A m \in Markers(bytes, i) : FirstMarker(bytes, i) <= m
  BY <1>2 DEF FirstMarker
<1> QED BY <1>3 DEF Markers

\* read_frame() finds nothing from a position on.
Dry(bytes, i) ==
    \/ Markers(bytes, i) = {}
    \/ FirstMarker(bytes, i) + 1 > Len(bytes)
    \/ LET at == FirstMarker(bytes, i) IN
       LengthAt(bytes, at) <= MaxLength /\ at + 1 + LengthAt(bytes, at) > Len(bytes)

Corrupt(bytes, i) == LengthAt(bytes, FirstMarker(bytes, i)) > MaxLength

BodyFrom(bytes, i) ==
    LET at == FirstMarker(bytes, i) IN SubSeq(bytes, at + 2, at + 1 + LengthAt(bytes, at))

Behind(bytes, i) ==
    LET at == FirstMarker(bytes, i) IN
    IF Corrupt(bytes, i) THEN at + 2 ELSE at + 2 + LengthAt(bytes, at)

\* What it reads from a position on.
LEMMA ReadFromDef ==
    ASSUME NEW bytes \in Seq(Bytes), NEW i \in 1 .. Len(bytes) + 1
    PROVE  /\ ReadFrom(bytes)[i] = IF Dry(bytes, i) THEN <<>>
                                   ELSE IF Corrupt(bytes, i) THEN ReadFrom(bytes)[Behind(bytes, i)]
                                   ELSE <<BodyFrom(bytes, i)>> \o ReadFrom(bytes)[Behind(bytes, i)]
           /\ ReadFrom(bytes)[i] \in Seq(Seq(Bytes))
           /\ ~Dry(bytes, i) => Behind(bytes, i) \in 1 .. Len(bytes) + 1
<1> DEFINE N == Len(bytes) + 1
           stop == [j \in 1 .. N |-> Dry(bytes, j)]
           skip == [j \in 1 .. N |-> Corrupt(bytes, j)]
           piece == [j \in 1 .. N |-> <<BodyFrom(bytes, j)>>]
           next == [j \in 1 .. N |-> Behind(bytes, j)]
           Literal(g, j) ==
               IF Markers(bytes, j) = {} THEN <<>>
               ELSE LET at  == FirstMarker(bytes, j)
                        len == LengthAt(bytes, at)
                    IN  IF at + 1 > Len(bytes) THEN <<>>
                        ELSE IF len > MaxLength THEN g[at + 2]
                        ELSE IF at + 1 + len > Len(bytes) THEN <<>>
                        ELSE <<SubSeq(bytes, at + 2, at + 1 + len)>> \o g[at + 2 + len]
           Is(g) == g = [j \in 1 .. Len(bytes) + 1 |-> Literal(g, j)]
<1>1. N \in Nat /\ Len(bytes) \in Nat /\ MaxLength \in Nat
  BY LenProperties, FramingAssumption
<1>2. ASSUME NEW j \in 1 .. N, ~stop[j]
      PROVE  next[j] \in j + 1 .. N /\ (~skip[j] => piece[j] \in Seq(Seq(Bytes)))
  <2>1. PICK at : at = FirstMarker(bytes, j)
    OBVIOUS
  <2>2. at \in j + 2 .. Len(bytes) + 1 /\ at + 1 <= Len(bytes)
    BY <1>1, <1>2, <2>1, FirstMarkerFirst DEF Dry
  <2>3. PICK len \in Nat : len = LengthAt(bytes, at)
    <3>1. at \in 1 .. Len(bytes)
      BY <1>1, <2>2
    <3> QED BY <2>2, <3>1, LengthType
  <2>4. len > MaxLength \/ at + 1 + len <= Len(bytes)
    BY <1>1, <1>2, <2>1, <2>2, <2>3 DEF Dry
  <2>5. next[j] = IF len > MaxLength THEN at + 2 ELSE at + 2 + len
    BY <2>1, <2>3 DEF Behind, Corrupt
  <2>6. next[j] \in j + 1 .. N
    BY <1>1, <2>2, <2>4, <2>5
  <2>7. ASSUME ~skip[j] PROVE piece[j] \in Seq(Seq(Bytes))
    <3>1. at + 1 + len <= Len(bytes)
      BY <2>1, <2>3, <2>4, <2>7 DEF Corrupt
    <3>2. piece[j] = <<SubSeq(bytes, at + 2, at + 1 + len)>>
      BY <2>1, <2>3 DEF BodyFrom
    <3>3. SubSeq(bytes, at + 2, at + 1 + len) \in Seq(Bytes)
      <4>1. \A k \in at + 2 .. at + 1 + len : bytes[k] \in Bytes
        BY <1>1, <2>2, <3>1, ElementOfSeq
      <4>2. at + 2 \in Nat /\ at + 1 + len \in Nat
        BY <1>1, <2>2
      <4> QED BY <4>1, <4>2, SubSeqProperties
    <3>4. PICK f \in Seq(Bytes) : piece[j] = <<f>>
      BY <3>2, <3>3
    <3>5. <<f>> \in Seq(Seq(Bytes))
      OBVIOUS
    <3> QED BY <3>4, <3>5
  <2> QED BY <2>6, <2>7
<1>3. ASSUME NEW g
      PROVE  Is(g) <=> (g = [j \in 1 .. N |-> IF stop[j] THEN <<>>
                                              ELSE IF skip[j] THEN g[next[j]]
                                              ELSE piece[j] \o g[next[j]]])
  <2>1. ASSUME NEW j \in 1 .. N
        PROVE  Literal(g, j) = IF stop[j] THEN <<>>
                               ELSE IF skip[j] THEN g[next[j]] ELSE piece[j] \o g[next[j]]
    <3>1. PICK at, len : at = FirstMarker(bytes, j) /\ len = LengthAt(bytes, at)
      OBVIOUS
    <3>2. Literal(g, j) =
               IF Markers(bytes, j) = {} \/ at + 1 > Len(bytes) THEN <<>>
               ELSE IF len > MaxLength THEN g[at + 2]
               ELSE IF at + 1 + len > Len(bytes) THEN <<>>
               ELSE <<SubSeq(bytes, at + 2, at + 1 + len)>> \o g[at + 2 + len]
      BY <3>1
    <3>3. /\ skip[j] <=> len > MaxLength
          /\ piece[j] = <<SubSeq(bytes, at + 2, at + 1 + len)>>
          /\ next[j] = IF len > MaxLength THEN at + 2 ELSE at + 2 + len
      BY <3>1 DEF Corrupt, BodyFrom, Behind
    <3>4. stop[j] <=> \/ Markers(bytes, j) = {} \/ at + 1 > Len(bytes)
                      \/ len <= MaxLength /\ at + 1 + len > Len(bytes)
      BY <3>1 DEF Dry
    <3>5. Markers(bytes, j) = {} \/ at + 1 > Len(bytes) \/ (len \in Nat /\ at \in Nat)
      <4> SUFFICES ASSUME Markers(bytes, j) # {}, ~(at + 1 > Len(bytes)) PROVE len \in Nat /\ at \in Nat
        OBVIOUS
      <4>1. at \in 1 .. Len(bytes) /\ at + 1 <= Len(bytes)
        BY <1>1, <3>1, FirstMarkerFirst
      <4> QED BY <1>1, <3>1, <4>1, LengthType
    <3> HIDE DEF stop, skip, piece, next, Literal
    <3> QED BY <1>1, <3>2, <3>3, <3>4, <3>5
  <2> HIDE DEF stop, skip, piece, next, Literal
  <2> QED BY <2>1
<1> HIDE DEF stop, skip, piece, next, Literal, Is
<1>4. PICK g : g = [j \in 1 .. N |-> g[j]] /\ Reads(g, N, stop, skip, piece, next)
  BY <1>1, <1>2, ReadingExists
<1>5. Is(g)
  BY <1>3, <1>4 DEF Reads
<1>6. ReadFrom(bytes) = CHOOSE f : Is(f)
  BY DEF ReadFrom, Is, Literal
<1>7. Is(ReadFrom(bytes))
  BY <1>5, <1>6
<1>8. Reads(ReadFrom(bytes), N, stop, skip, piece, next)
  BY <1>3, <1>7 DEF Reads
<1>9. ReadFrom(bytes)[i] \in Seq(Seq(Bytes))
  BY <1>1, <1>2, <1>8, ReadingType
<1>10. ~Dry(bytes, i) => Behind(bytes, i) \in 1 .. Len(bytes) + 1
  <2>1. ~stop[i] => next[i] \in i + 1 .. N
    BY <1>2
  <2> QED BY <1>1, <2>1 DEF stop, next
<1> QED BY <1>8, <1>9, <1>10 DEF Reads, stop, skip, piece, next

\* It reads alike from two positions with the same markers ahead.
LEMMA SameMarkers ==
    ASSUME NEW bytes \in Seq(Bytes), NEW i \in 1 .. Len(bytes) + 1, NEW j \in 1 .. Len(bytes) + 1,
           Markers(bytes, i) = Markers(bytes, j)
    PROVE  ReadFrom(bytes)[i] = ReadFrom(bytes)[j]
<1>1. FirstMarker(bytes, i) = FirstMarker(bytes, j)
  BY DEF FirstMarker
<1>2. Dry(bytes, i) = Dry(bytes, j) /\ Corrupt(bytes, i) = Corrupt(bytes, j)
  BY <1>1 DEF Dry, Corrupt
<1>3. Behind(bytes, i) = Behind(bytes, j) /\ BodyFrom(bytes, i) = BodyFrom(bytes, j)
  BY <1>1, <1>2 DEF Behind, BodyFrom
<1> QED BY <1>2, <1>3, ReadFromDef

\* It passes over a byte that begins no marker.
LEMMA PassedOver ==
    ASSUME NEW bytes \in Seq(Bytes), NEW i \in 1 .. Len(bytes),
           bytes[i] # START1 \/ (i + 1 <= Len(bytes) /\ bytes[i + 1] # START2)
    PROVE  ReadFrom(bytes)[i] = ReadFrom(bytes)[i + 1]
<1>1. Len(bytes) \in Nat
  BY LenProperties
<1>2. Markers(bytes, i) = Markers(bytes, i + 1)
  <2>1. \A k : k \in i + 2 .. Len(bytes) + 1 <=> \/ k = i + 2 /\ k <= Len(bytes) + 1
                                                \/ k \in i + 3 .. Len(bytes) + 1
    BY <1>1
  <2>2. i + 2 - 2 = i /\ i + 2 - 1 = i + 1 /\ i + 1 + 2 = i + 3
    BY <1>1
  <2>3. i + 2 \notin Markers(bytes, i)
    <3>1. CASE bytes[i] # START1
      BY <2>2, <3>1 DEF Markers
    <3>2. CASE bytes[i + 1] # START2
      BY <2>2, <3>2 DEF Markers
    <3> QED BY <3>1, <3>2
  <2> QED BY <2>1, <2>2, <2>3 DEF Markers
<1> QED BY <1>1, <1>2, SameMarkers

\* A marker where it looks is the first.
LEMMA MarkerHere ==
    ASSUME NEW bytes \in Seq(Bytes), NEW i \in 1 .. Len(bytes), i + 1 <= Len(bytes),
           bytes[i] = START1, bytes[i + 1] = START2
    PROVE  Markers(bytes, i) # {} /\ FirstMarker(bytes, i) = i + 2
<1>1. Len(bytes) \in Nat
  BY LenProperties
<1>2. i + 2 - 2 = i /\ i + 2 - 1 = i + 1 /\ i + 2 \in i + 2 .. Len(bytes) + 1
  BY <1>1
<1>3. i + 2 \in Markers(bytes, i)
  BY <1>2 DEF Markers
<1>4. i \in 1 .. Len(bytes) + 1
  BY <1>1
<1>5. FirstMarker(bytes, i) <= i + 2 /\ FirstMarker(bytes, i) \in i + 2 .. Len(bytes) + 1
  BY <1>3, <1>4, FirstMarkerFirst
<1> QED BY <1>1, <1>3, <1>5

\* A stream begins with what has been pushed.
Begins(start, bytes) ==
    Len(start) <= Len(bytes) /\ \A k \in 1 .. Len(start) : bytes[k] = start[k]

\* What the state of the decoder says of the last bytes, from the position on
\* where read_frame() would look.
InMarker(p) == input[p] = START1 /\ input[p + 1] = START2

Collecting(p, left) ==
    /\ InMarker(p) /\ p + 3 <= Len(input) /\ LengthAt(input, p + 2) <= MaxLength
    /\ left \in 1 .. LengthAt(input, p + 2)
    /\ Len(input) = p + 3 + LengthAt(input, p + 2) - left
    /\ body \in Seq(Bytes) /\ Len(body) = LengthAt(input, p + 2) - left
    /\ \A k \in 1 .. Len(body) : body[k] = input[p + 3 + k]

Looking(p) ==
    \/ state = SeekingStart1 /\ p = Len(input) + 1
    \/ state = SeekingStart2 /\ p = Len(input) /\ input[p] = START1
    \/ state = ReadingLenHigh /\ p = Len(input) - 1 /\ InMarker(p)
    \/ \E h \in Bytes : /\ state = ReadingLenLow(h) /\ p = Len(input) - 2
                        /\ InMarker(p) /\ input[p + 2] = h
    \/ \E left \in Nat : state = ReadingBody(left) /\ Collecting(p, left)

\* Whatever is still to come, read_frame() returns what is ready, and goes on
\* where the decoder is.
Agree(p) == \A bytes \in Seq(Bytes) :
    Begins(input, bytes) => ReadFrom(bytes)[1] = ready \o ReadFrom(bytes)[p]

AgreeInv ==
    /\ input \in Seq(Bytes) /\ ready \in Seq(Seq(Bytes))
    /\ \E p \in 1 .. Len(input) + 1 : Looking(p) /\ Agree(p)

\* A byte more.
LEMMA OneMore ==
    ASSUME input \in Seq(Bytes), NEW byte \in Bytes, input' = Append(input, byte)
    PROVE  /\ Len(input) \in Nat /\ input' \in Seq(Bytes) /\ Len(input') = Len(input) + 1
           /\ input'[Len(input) + 1] = byte
           /\ \A k \in 1 .. Len(input) : input'[k] = input[k]
BY AppendProperties, LenProperties

\* A stream that begins with the byte more begins with what was there, and then
\* the byte.
LEMMA BeginsLess ==
    ASSUME input \in Seq(Bytes), NEW byte \in Bytes, input' = Append(input, byte),
           NEW bytes \in Seq(Bytes), Begins(input', bytes)
    PROVE  /\ Begins(input, bytes) /\ Len(bytes) \in Nat /\ Len(input) + 1 <= Len(bytes)
           /\ bytes[Len(input) + 1] = byte
           /\ \A k \in 1 .. Len(input) : bytes[k] = input[k]
<1>1. Len(bytes) \in Nat
  BY LenProperties
<1>2. /\ Len(input) \in Nat /\ Len(input') = Len(input) + 1 /\ input'[Len(input) + 1] = byte
      /\ \A k \in 1 .. Len(input) : input'[k] = input[k]
  BY OneMore
<1>3. /\ Len(input) + 1 <= Len(bytes) 
      /\ \A k \in 1 .. Len(input) + 1 : bytes[k] = input'[k]
  BY <1>2 DEF Begins
<1>4. Len(input) + 1 \in 1 .. Len(input) + 1 /\ \A k \in 1 .. Len(input) : k \in 1 .. Len(input) + 1
  BY <1>2
<1>5. bytes[Len(input) + 1] = byte /\ \A k \in 1 .. Len(input) : bytes[k] = input[k]
  BY <1>2, <1>3, <1>4
<1> QED BY <1>1, <1>2, <1>3, <1>5 DEF Begins

\* Nothing is ready, and read_frame() gets from one position to the other
\* without returning anything.
LEMMA MovesOn ==
    ASSUME input \in Seq(Bytes), NEW byte \in Bytes, input' = Append(input, byte),
           ready' = ready, NEW p, NEW q, Agree(p),
           \A bytes \in Seq(Bytes) : Begins(input', bytes) => ReadFrom(bytes)[p] = ReadFrom(bytes)[q]
    PROVE  Agree(q)'
<1> SUFFICES ASSUME NEW bytes \in Seq(Bytes), Begins(input', bytes)
             PROVE  ReadFrom(bytes)[1] = ready' \o ReadFrom(bytes)[q]
  BY DEF Agree, Begins, ReadFrom, FirstMarker, Markers, LengthAt
<1>1. Begins(input, bytes)
  BY BeginsLess
<1>2. ReadFrom(bytes)[1] = ready \o ReadFrom(bytes)[p]
  BY <1>1 DEF Agree
<1> QED BY <1>2

\* The body of a device frame, as a member of a sequence.
DeviceBody == Seq(Bytes)

\* A body in front of others that are joined is one more that they are joined to.
LEMMA DeviceBodiesJoined ==
    ASSUME NEW s \in Seq(DeviceBody), NEW e \in DeviceBody, NEW t \in Seq(DeviceBody)
    PROVE  s \o (<<e>> \o t) = Append(s, e) \o t
<1>1. PICK u : u = <<e>>
  OBVIOUS
<1>2. u \in Seq(DeviceBody)
  BY <1>1
<1>3. Append(s, e) = s \o u
  BY <1>1, AppendIsConcat
<1>4. s \o (u \o t) = (s \o u) \o t
  BY <1>2, Joined
<1> QED BY <1>1, <1>3, <1>4

\* A body is ready, and it is the one that read_frame() returns between the two
\* positions.
LEMMA ReturnsBody ==
    ASSUME input \in Seq(Bytes), NEW byte \in Bytes, input' = Append(input, byte),
           ready \in Seq(Seq(Bytes)), NEW frame \in Seq(Bytes), ready' = Append(ready, frame),
           NEW p, NEW q \in 1 .. Len(input') + 1, Agree(p),
           \A bytes \in Seq(Bytes) :
              Begins(input', bytes) => ReadFrom(bytes)[p] = <<frame>> \o ReadFrom(bytes)[q]
    PROVE  Agree(q)'
<1> SUFFICES ASSUME NEW bytes \in Seq(Bytes), Begins(input', bytes)
             PROVE  ReadFrom(bytes)[1] = ready' \o ReadFrom(bytes)[q]
  BY DEF Agree, Begins, ReadFrom, FirstMarker, Markers, LengthAt
<1>1. Begins(input, bytes) /\ Len(input) + 1 <= Len(bytes) /\ Len(bytes) \in Nat /\ Len(input) \in Nat
  BY BeginsLess, LenProperties
<1>2. ReadFrom(bytes)[1] = ready \o ReadFrom(bytes)[p]
  BY <1>1 DEF Agree
<1>3. ReadFrom(bytes)[p] = <<frame>> \o ReadFrom(bytes)[q]
  OBVIOUS
<1>4. q \in 1 .. Len(bytes) + 1
  BY <1>1, OneMore
<1>5. PICK rest \in Seq(DeviceBody) : rest = ReadFrom(bytes)[q]
  BY <1>4, ReadFromDef DEF DeviceBody
<1>6. ready \in Seq(DeviceBody) /\ frame \in DeviceBody
  BY DEF DeviceBody
<1>7. ready \o (<<frame>> \o rest) = Append(ready, frame) \o rest
  BY <1>5, <1>6, DeviceBodiesJoined
<1> QED BY <1>2, <1>3, <1>5, <1>7

\* The marker's first byte is looked for, or is not followed by the second.
LEMMA SeekStart1Agrees ==
    ASSUME AgreeInv, NEW byte \in Bytes, input' = Append(input, byte), SeekStart1(byte)
    PROVE  AgreeInv'
<1>0. input \in Seq(Bytes) /\ ready \in Seq(Seq(Bytes)) /\ ready' = ready
  BY DEF AgreeInv, SeekStart1
<1>1. PICK p \in 1 .. Len(input) + 1 : Looking(p) /\ Agree(p)
  BY DEF AgreeInv
<1>2. /\ Len(input) \in Nat /\ input' \in Seq(Bytes) /\ Len(input') = Len(input) + 1
      /\ input'[Len(input) + 1] = byte
  BY <1>0, OneMore
<1>3. p = Len(input) + 1
  BY <1>1 DEF SeekStart1, Looking, SeekingStart1, SeekingStart2, ReadingLenHigh, ReadingLenLow,
              ReadingBody
<1>4. CASE byte = START1
  <2>1. state' = SeekingStart2 /\ p = Len(input') /\ input'[p] = START1
    BY <1>2, <1>3, <1>4 DEF SeekStart1
  <2>2. Looking(p)'
    BY <2>1 DEF Looking
  <2>3. Agree(p)'
    BY <1>0, <1>1, MovesOn
  <2> QED BY <1>0, <1>2, <1>3, <2>2, <2>3 DEF AgreeInv
<1>5. CASE byte # START1
  <2>1. state' = SeekingStart1 /\ p + 1 = Len(input') + 1
    BY <1>2, <1>3, <1>5 DEF SeekStart1
  <2>2. Looking(p + 1)'
    BY <2>1 DEF Looking
  <2>3. ASSUME NEW bytes \in Seq(Bytes), Begins(input', bytes)
        PROVE  ReadFrom(bytes)[p] = ReadFrom(bytes)[p + 1]
    <3>1. bytes[p] = byte /\ p \in 1 .. Len(bytes)
      BY <1>0, <1>2, <1>3, <2>3, BeginsLess
    <3> QED BY <1>5, <3>1, PassedOver
  <2>4. Agree(p + 1)'
    BY <1>0, <1>1, <2>3, MovesOn
  <2>5. p + 1 \in 1 .. Len(input') + 1
    BY <1>2, <1>3
  <2> QED BY <1>0, <1>2, <2>2, <2>4, <2>5 DEF AgreeInv
<1> QED BY <1>4, <1>5

\* Behind the first byte of the marker comes the second, another first or neither.
LEMMA SeekStart2Agrees ==
    ASSUME AgreeInv, NEW byte \in Bytes, input' = Append(input, byte), SeekStart2(byte)
    PROVE  AgreeInv'
<1>0. input \in Seq(Bytes) /\ ready \in Seq(Seq(Bytes)) /\ ready' = ready
  BY DEF AgreeInv, SeekStart2
<1>1. PICK p \in 1 .. Len(input) + 1 : Looking(p) /\ Agree(p)
  BY DEF AgreeInv
<1>2. /\ Len(input) \in Nat /\ input' \in Seq(Bytes) /\ Len(input') = Len(input) + 1
      /\ input'[Len(input) + 1] = byte /\ \A k \in 1 .. Len(input) : input'[k] = input[k]
  BY <1>0, OneMore
<1>3. p = Len(input) /\ input[p] = START1
  BY <1>1 DEF SeekStart2, Looking, SeekingStart1, SeekingStart2, ReadingLenHigh, ReadingLenLow,
              ReadingBody
<1>4. ASSUME NEW bytes \in Seq(Bytes), Begins(input', bytes)
      PROVE  /\ bytes[p] = START1 /\ bytes[p + 1] = byte
             /\ p \in 1 .. Len(bytes) /\ p + 1 \in 1 .. Len(bytes) /\ p + 1 <= Len(bytes)
  BY <1>0, <1>2, <1>3, <1>4, BeginsLess
<1>5. CASE byte = START2
  <2>1. state' = ReadingLenHigh /\ p = Len(input') - 1
    BY <1>2, <1>3, <1>5, FramingAssumption DEF SeekStart2, NextOfStart2
  <2>2. InMarker(p)'
    BY <1>2, <1>3, <1>5 DEF InMarker
  <2>3. Looking(p)'
    BY <2>1, <2>2 DEF Looking
  <2>4. Agree(p)'
    BY <1>0, <1>1, MovesOn
  <2> QED BY <1>0, <1>2, <1>3, <2>3, <2>4 DEF AgreeInv
<1>6. CASE byte = START1
  <2>1. state' = SeekingStart2 /\ p + 1 = Len(input') /\ input'[p + 1] = START1
    BY <1>2, <1>3, <1>6, FramingAssumption DEF SeekStart2, NextOfStart2
  <2>2. Looking(p + 1)'
    BY <2>1 DEF Looking
  <2>3. Agree(p + 1)'
    <3>1. ASSUME NEW bytes \in Seq(Bytes), Begins(input', bytes)
          PROVE  ReadFrom(bytes)[p] = ReadFrom(bytes)[p + 1]
      <4>1. bytes[p + 1] # START2
        BY <1>4, <1>6, <3>1, FramingAssumption
      <4> QED BY <1>4, <3>1, <4>1, PassedOver
    <3> QED BY <1>0, <1>1, <3>1, MovesOn
  <2>4. p + 1 \in 1 .. Len(input') + 1
    BY <1>2, <1>3
  <2> QED BY <1>0, <1>2, <2>2, <2>3, <2>4 DEF AgreeInv
<1>7. CASE byte # START1 /\ byte # START2
  <2>1. state' = SeekingStart1 /\ p + 2 = Len(input') + 1
    BY <1>2, <1>3, <1>7 DEF SeekStart2, NextOfStart2
  <2>2. Looking(p + 2)'
    BY <2>1 DEF Looking
  <2>3. Agree(p + 2)'
    <3>1. ASSUME NEW bytes \in Seq(Bytes), Begins(input', bytes)
          PROVE  ReadFrom(bytes)[p] = ReadFrom(bytes)[p + 2]
      <4>1. ReadFrom(bytes)[p] = ReadFrom(bytes)[p + 1]
        BY <1>4, <1>7, <3>1, PassedOver
      <4>2. ReadFrom(bytes)[p + 1] = ReadFrom(bytes)[p + 1 + 1]
        BY <1>4, <1>7, <3>1, PassedOver
      <4>3. p + 1 + 1 = p + 2
        BY <1>2, <1>3
      <4> QED BY <4>1, <4>2, <4>3
    <3> QED BY <1>0, <1>1, <3>1, MovesOn
  <2>4. p + 2 \in 1 .. Len(input') + 1
    BY <1>2, <1>3
  <2> QED BY <1>0, <1>2, <2>2, <2>3, <2>4 DEF AgreeInv
<1> QED BY <1>5, <1>6, <1>7

\* The high byte of the length is one byte more behind the marker.
LEMMA ReadLenHighAgrees ==
    ASSUME AgreeInv, NEW byte \in Bytes, input' = Append(input, byte), ReadLenHigh(byte)
    PROVE  AgreeInv'
<1>0. input \in Seq(Bytes) /\ ready \in Seq(Seq(Bytes)) /\ ready' = ready
  BY DEF AgreeInv, ReadLenHigh
<1>1. PICK p \in 1 .. Len(input) + 1 : Looking(p) /\ Agree(p)
  BY DEF AgreeInv
<1>2. /\ Len(input) \in Nat /\ input' \in Seq(Bytes) /\ Len(input') = Len(input) + 1
      /\ input'[Len(input) + 1] = byte /\ \A k \in 1 .. Len(input) : input'[k] = input[k]
  BY <1>0, OneMore
<1>3. p = Len(input) - 1 /\ InMarker(p)
  BY <1>1 DEF ReadLenHigh, Looking, SeekingStart1, SeekingStart2, ReadingLenHigh, ReadingLenLow,
              ReadingBody
<1>4. InMarker(p)' /\ input'[p + 2] = byte /\ p = Len(input') - 2
  <2>1. p \in 1 .. Len(input) /\ p + 1 \in 1 .. Len(input) /\ p + 2 = Len(input) + 1
    BY <1>2, <1>3
  <2> QED BY <1>2, <1>3, <2>1 DEF InMarker
<1>5. Looking(p)'
  BY <1>4 DEF Looking, ReadLenHigh
<1>6. Agree(p)'
  BY <1>0, <1>1, MovesOn
<1>7. p \in 1 .. Len(input') + 1
  BY <1>2, <1>3
<1> QED BY <1>0, <1>2, <1>5, <1>6, <1>7 DEF AgreeInv

\* The length is known, with the same marker ahead of it in every stream that
\* begins so: nothing, a corrupt length or a body comes behind it.
LEMMA ReadLenLowAgrees ==
    ASSUME AgreeInv, NEW byte \in Bytes, input' = Append(input, byte), ReadLenLow(byte)
    PROVE  AgreeInv'
<1>0. input \in Seq(Bytes) /\ ready \in Seq(Seq(Bytes)) /\ MaxLength \in Nat /\ Radix \in Nat
  BY FramingAssumption DEF AgreeInv
<1>1. PICK p \in 1 .. Len(input) + 1 : Looking(p) /\ Agree(p)
  BY DEF AgreeInv
<1>2. /\ Len(input) \in Nat /\ input' \in Seq(Bytes) /\ Len(input') = Len(input) + 1
      /\ input'[Len(input) + 1] = byte /\ \A k \in 1 .. Len(input) : input'[k] = input[k]
  BY <1>0, OneMore
<1>3. PICK h \in Bytes : /\ state = ReadingLenLow(h) /\ p = Len(input) - 2
                         /\ InMarker(p) /\ input[p + 2] = h
  BY <1>1 DEF ReadLenLow, Looking, SeekingStart1, SeekingStart2, ReadingLenHigh, ReadingLenLow,
              ReadingBody
<1>4. PICK len : len = h * Radix + byte
  OBVIOUS
<1>5. state.high = h
  BY <1>3 DEF ReadingLenLow
<1>6. len \in Nat
  <2>1. PICK high \in Nat, low \in Nat : high = h /\ low = byte
    BY <1>0 DEF Bytes
  <2>2. high * Radix \in Nat
    BY <1>0
  <2> QED BY <1>4, <2>1, <2>2
<1>7. /\ p \in 1 .. Len(input) /\ p + 1 \in 1 .. Len(input) /\ p + 2 \in 1 .. Len(input)
      /\ p + 3 = Len(input) + 1 /\ p + 2 + 1 = p + 3
  BY <1>2, <1>3
<1>8. ASSUME NEW bytes \in Seq(Bytes), Begins(input', bytes)
      PROVE  /\ p \in 1 .. Len(bytes) + 1 /\ p + 3 <= Len(bytes) /\ Len(bytes) \in Nat
             /\ Markers(bytes, p) # {} /\ FirstMarker(bytes, p) = p + 2
             /\ LengthAt(bytes, p + 2) = len
  <2>1. /\ Len(bytes) \in Nat /\ p + 3 <= Len(bytes) /\ bytes[p + 3] = byte
        /\ bytes[p] = START1 /\ bytes[p + 1] = START2 /\ bytes[p + 2] = h
    BY <1>0, <1>3, <1>7, <1>8, BeginsLess DEF InMarker
  <2>2. p \in 1 .. Len(bytes) /\ p + 1 <= Len(bytes)
    BY <1>7, <2>1
  <2>3. Markers(bytes, p) # {} /\ FirstMarker(bytes, p) = p + 2
    BY <2>1, <2>2, MarkerHere
  <2>4. LengthAt(bytes, p + 2) = len
    BY <1>4, <1>7, <2>1 DEF LengthAt
  <2> QED BY <2>1, <2>2, <2>3, <2>4
<1>9. CASE len = 0
  <2>1. ready' = Append(ready, <<>>) /\ state' = SeekingStart1
    BY <1>0, <1>4, <1>5, <1>9 DEF ReadLenLow, Fits
  <2>2. p + 4 = Len(input') + 1 /\ p + 4 \in 1 .. Len(input') + 1
    BY <1>2, <1>7
  <2>3. ASSUME NEW bytes \in Seq(Bytes), Begins(input', bytes)
        PROVE  ReadFrom(bytes)[p] = << <<>> >> \o ReadFrom(bytes)[p + 4]
    <3>1. ~Dry(bytes, p) /\ ~Corrupt(bytes, p)
      BY <1>0, <1>7, <1>8, <1>9, <2>3 DEF Dry, Corrupt
    <3>2. Behind(bytes, p) = p + 4
      BY <1>7, <1>8, <1>9, <2>3, <3>1 DEF Behind
    <3>3. BodyFrom(bytes, p) = <<>>
      <4>1. BodyFrom(bytes, p) = SubSeq(bytes, p + 4, p + 3)
        BY <1>7, <1>8, <1>9, <2>3 DEF BodyFrom
      <4>2. SubSeq(bytes, p + 4, p + 3) \in Seq(Bytes) /\ Len(SubSeq(bytes, p + 4, p + 3)) = 0
        <5>1. p + 4 \in Nat /\ p + 3 \in Nat /\ \A k \in p + 4 .. p + 3 : bytes[k] \in Bytes
          BY <1>7
        <5>2. p + 4 > p + 3
          BY <1>7
        <5> QED BY <5>1, <5>2, SubSeqProperties
      <4> QED BY <4>1, <4>2, EmptySeq
    <3> QED BY <1>8, <2>3, <3>1, <3>2, <3>3, ReadFromDef
  <2>4. Agree(p + 4)'
    <3>1. <<>> \in Seq(Bytes)
      BY EmptySeq
    <3> QED BY <1>0, <1>1, <2>1, <2>2, <2>3, <3>1, ReturnsBody
  <2>5. ready' \in Seq(Seq(Bytes))
    BY <1>0, <2>1, EmptySeq, AppendProperties
  <2>6. Looking(p + 4)'
    BY <2>1, <2>2 DEF Looking
  <2> QED BY <1>2, <2>2, <2>4, <2>5, <2>6 DEF AgreeInv
<1>10. CASE len > MaxLength
  <2>1. ready' = ready /\ state' = SeekingStart1
    BY <1>0, <1>4, <1>5, <1>6, <1>10 DEF ReadLenLow, Fits
  <2>2. p + 4 = Len(input') + 1 /\ p + 4 \in 1 .. Len(input') + 1
    BY <1>2, <1>7
  <2>3. ASSUME NEW bytes \in Seq(Bytes), Begins(input', bytes)
        PROVE  ReadFrom(bytes)[p] = ReadFrom(bytes)[p + 4]
    <3>1. ~Dry(bytes, p) /\ Corrupt(bytes, p)
      BY <1>0, <1>6, <1>7, <1>8, <1>10, <2>3 DEF Dry, Corrupt
    <3>2. Behind(bytes, p) = p + 4
      BY <1>7, <1>8, <2>3, <3>1 DEF Behind
    <3> QED BY <1>8, <2>3, <3>1, <3>2, ReadFromDef
  <2>4. Agree(p + 4)'
    BY <1>0, <1>1, <2>1, <2>3, MovesOn
  <2>5. Looking(p + 4)'
    BY <2>1, <2>2 DEF Looking
  <2> QED BY <1>0, <1>2, <2>1, <2>2, <2>4, <2>5 DEF AgreeInv
<1>11. CASE len # 0 /\ len <= MaxLength
  <2>1. ready' = ready /\ state' = ReadingBody(len) /\ body' = <<>>
    BY <1>0, <1>4, <1>5, <1>6, <1>11 DEF ReadLenLow, Fits
  <2>2. Agree(p)'
    BY <1>0, <1>1, <2>1, MovesOn
  <2>3. Collecting(p, len)'
    <3>1. InMarker(p)'
      BY <1>2, <1>3, <1>7 DEF InMarker
    <3>2. LengthAt(input', p + 2) = len
      BY <1>2, <1>3, <1>4, <1>7 DEF LengthAt
    <3>3. body' \in Seq(Bytes) /\ Len(body') = 0
      BY <2>1, EmptySeq
    <3>4. p + 3 <= Len(input') /\ Len(input') = p + 3 + len - len /\ len \in 1 .. len /\ len - len = 0
      BY <1>2, <1>6, <1>7, <1>11
    <3> QED BY <1>11, <3>1, <3>2, <3>3, <3>4 DEF Collecting, InMarker, LengthAt
  <2>4. Looking(p)'
    BY <1>6, <2>1, <2>3 DEF Looking
  <2>5. p \in 1 .. Len(input') + 1
    BY <1>2
  <2> QED BY <1>0, <1>2, <2>1, <2>2, <2>4, <2>5 DEF AgreeInv
<1> QED BY <1>0, <1>6, <1>9, <1>10, <1>11

\* The body grows by the byte; its last completes what read_frame() returns.
LEMMA ReadBodyAgrees ==
    ASSUME AgreeInv, NEW byte \in Bytes, input' = Append(input, byte), ReadBody(byte)
    PROVE  AgreeInv'
<1>0. input \in Seq(Bytes) /\ ready \in Seq(Seq(Bytes)) /\ MaxLength \in Nat
  BY FramingAssumption DEF AgreeInv
<1>1. PICK p \in 1 .. Len(input) + 1 : Looking(p) /\ Agree(p)
  BY DEF AgreeInv
<1>2. /\ Len(input) \in Nat /\ input' \in Seq(Bytes) /\ Len(input') = Len(input) + 1
      /\ input'[Len(input) + 1] = byte /\ \A k \in 1 .. Len(input) : input'[k] = input[k]
  BY <1>0, OneMore
<1>3. PICK left \in Nat : state = ReadingBody(left) /\ Collecting(p, left)
  BY <1>1 DEF ReadBody, Looking, SeekingStart1, SeekingStart2, ReadingLenHigh, ReadingLenLow,
              ReadingBody
<1>4. state.remaining = left
  BY <1>3 DEF ReadingBody
<1>5. PICK len \in Nat : len = LengthAt(input, p + 2)
  <2>1. p + 2 \in 1 .. Len(input) /\ p + 2 + 1 <= Len(input)
    BY <1>2, <1>3 DEF Collecting
  <2> QED BY <1>0, <2>1, LengthType
<1>6. /\ InMarker(p) /\ p + 3 <= Len(input) /\ len <= MaxLength /\ left \in 1 .. len
      /\ Len(input) = p + 3 + len - left
      /\ body \in Seq(Bytes) /\ Len(body) = len - left
      /\ \A k \in 1 .. Len(body) : body[k] = input[p + 3 + k]
  BY <1>3, <1>5 DEF Collecting
<1>6a. left \in 1 .. len /\ p + 3 <= Len(input) /\ Len(input) = p + 3 + len - left
  BY <1>6
<1>7. /\ p \in 1 .. Len(input) /\ p + 1 \in 1 .. Len(input) /\ p + 2 \in 1 .. Len(input)
      /\ p + 3 \in 1 .. Len(input) /\ p + 2 + 1 = p + 3
  BY <1>2, <1>6
<1>8. PICK more \in Seq(Bytes) : /\ more = Append(body, byte) /\ Len(more) = len - left + 1
                                 /\ \A k \in 1 .. len - left + 1 : more[k] = input'[p + 3 + k]
  <2>1. PICK more : more = Append(body, byte)
    OBVIOUS
  <2>2. /\ more \in Seq(Bytes) /\ Len(more) = len - left + 1
        /\ \A k \in 1 .. len - left : more[k] = body[k]
        /\ more[len - left + 1] = byte
    <3>1. /\ more \in Seq(Bytes) /\ Len(more) = Len(body) + 1
          /\ \A k \in 1 .. Len(body) : more[k] = body[k]
          /\ more[Len(body) + 1] = byte
      <4>1. body \in Seq(Bytes)
        BY <1>6
      <4> QED BY <2>1, <4>1, AppendProperties
    <3>2. Len(body) = len - left
      BY <1>6
    <3> QED BY <3>1, <3>2
  <2>3. ASSUME NEW k \in 1 .. len - left + 1 PROVE more[k] = input'[p + 3 + k]
    <3>1. CASE k = len - left + 1
      <4>1. p + 3 + k = Len(input) + 1
        BY <1>2, <1>6, <3>1
      <4> QED BY <1>2, <2>2, <3>1, <4>1
    <3>2. CASE k # len - left + 1
      <4>1. k \in 1 .. len - left /\ p + 3 + k \in 1 .. Len(input)
        BY <1>2, <1>6, <3>2
      <4> QED BY <1>2, <1>6, <2>2, <4>1
    <3> QED BY <3>1, <3>2
  <2> QED BY <2>1, <2>2, <2>3
<1>9. InMarker(p)' /\ LengthAt(input', p + 2) = len
  BY <1>2, <1>5, <1>6, <1>7 DEF InMarker, LengthAt
<1>10. CASE left = 1
  <2>1. ready' = Append(ready, more) /\ state' = SeekingStart1
    BY <1>4, <1>8, <1>10 DEF ReadBody
  <2>2. PICK q : q = p + 4 + len /\ q = Len(input') + 1 /\ q \in 1 .. Len(input') + 1
    BY <1>2, <1>6, <1>10
  <2>3. ASSUME NEW bytes \in Seq(Bytes), Begins(input', bytes)
        PROVE  ReadFrom(bytes)[p] = <<more>> \o ReadFrom(bytes)[q]
    <3>1. /\ Len(bytes) \in Nat /\ p + 3 + len <= Len(bytes)
          /\ \A k \in 1 .. p + 3 + len : bytes[k] = input'[k]
      <4>1. Len(input') = p + 3 + len
        BY <1>2, <1>6, <1>10
      <4>2. Len(bytes) \in Nat
        BY LenProperties
      <4> QED BY <2>3, <4>1, <4>2 DEF Begins
    <3>2. bytes[p] = START1 /\ bytes[p + 1] = START2 /\ LengthAt(bytes, p + 2) = len
      <4>1. p \in 1 .. p + 3 + len /\ p + 1 \in 1 .. p + 3 + len
            /\ p + 2 \in 1 .. p + 3 + len /\ p + 2 + 1 \in 1 .. p + 3 + len
        BY <1>7
      <4> QED BY <1>9, <3>1, <4>1 DEF InMarker, LengthAt
    <3>3. p \in 1 .. Len(bytes) /\ p + 1 <= Len(bytes) /\ p \in 1 .. Len(bytes) + 1
      BY <1>7, <3>1
    <3>4. Markers(bytes, p) # {} /\ FirstMarker(bytes, p) = p + 2
      BY <3>2, <3>3, MarkerHere
    <3>5. ~Dry(bytes, p) /\ ~Corrupt(bytes, p)
      BY <1>0, <1>6, <1>7, <3>1, <3>2, <3>4 DEF Dry, Corrupt
    <3>6. Behind(bytes, p) = q
      <4>1. p + 2 + 2 + len = q
        BY <1>7, <2>2
      <4> QED BY <3>2, <3>4, <3>5, <4>1 DEF Behind
    <3>7. BodyFrom(bytes, p) = more
      <4>1. p + 2 + 2 = p + 4 /\ p + 2 + 1 + len = p + 3 + len
        BY <1>7
      <4>2. BodyFrom(bytes, p) = SubSeq(bytes, p + 4, p + 3 + len)
        BY <3>2, <3>4, <4>1 DEF BodyFrom
      <4>3. /\ SubSeq(bytes, p + 4, p + 3 + len) \in Seq(Bytes)
            /\ Len(SubSeq(bytes, p + 4, p + 3 + len)) = len
            /\ \A k \in 1 .. len : SubSeq(bytes, p + 4, p + 3 + len)[k] = bytes[p + 4 + k - 1]
        <5>1. \A k \in p + 4 .. p + 3 + len : bytes[k] \in Bytes
          <6>1. \A k \in p + 4 .. p + 3 + len : k \in 1 .. Len(bytes)
            BY <1>7, <3>1
          <6> QED BY <6>1, ElementOfSeq
        <5>2. p + 4 \in Nat /\ p + 3 + len \in Nat /\ p + 3 + len - (p + 4) + 1 = len
          BY <1>7
        <5>3. /\ SubSeq(bytes, p + 4, p + 3 + len) \in Seq(Bytes)
              /\ Len(SubSeq(bytes, p + 4, p + 3 + len)) =
                    IF p + 4 <= p + 3 + len THEN p + 3 + len - (p + 4) + 1 ELSE 0
              /\ \A k \in 1 .. p + 3 + len - (p + 4) + 1 :
                    SubSeq(bytes, p + 4, p + 3 + len)[k] = bytes[p + 4 + k - 1]
          BY <5>1, <5>2, SubSeqProperties
        <5>4. p + 4 <= p + 3 + len
          BY <1>7, <1>6a
        <5> QED BY <5>2, <5>3, <5>4
      <4>4. Len(more) = len
        BY <1>6, <1>8, <1>10
      <4>5. ASSUME NEW k \in 1 .. len PROVE bytes[p + 4 + k - 1] = more[k]
        <5>1. p + 4 + k - 1 = p + 3 + k /\ p + 3 + k \in 1 .. p + 3 + len /\ k \in 1 .. len - left + 1
          BY <1>6, <1>7, <1>10
        <5> QED BY <1>8, <3>1, <5>1
      <4> QED BY <4>2, <4>3, <4>4, <4>5, SeqEqual
    <3> QED BY <3>3, <3>5, <3>6, <3>7, ReadFromDef
  <2>4. Agree(q)'
    BY <1>0, <1>1, <2>1, <2>2, <2>3, ReturnsBody
  <2>5. ready' \in Seq(Seq(Bytes))
    BY <1>0, <2>1, AppendProperties
  <2>6. Looking(q)'
    BY <2>1, <2>2 DEF Looking
  <2> QED BY <1>2, <2>2, <2>4, <2>5, <2>6 DEF AgreeInv
<1>11. CASE left # 1
  <2>1. ready' = ready /\ state' = ReadingBody(left - 1) /\ body' = more
    BY <1>4, <1>8, <1>11 DEF ReadBody
  <2>2. Agree(p)'
    BY <1>0, <1>1, <2>1, MovesOn
  <2>3. Collecting(p, left - 1)'
    <3>1. /\ p + 3 <= Len(input') /\ left - 1 \in 1 .. len
          /\ Len(input') = p + 3 + len - (left - 1) /\ len - (left - 1) = len - left + 1
      <4>1. Len(input) \in Nat /\ Len(input') = Len(input) + 1
        BY <1>2
      <4> QED BY <1>11, <1>6a, <4>1
    <3> QED BY <1>6, <1>8, <1>9, <2>1, <3>1 DEF Collecting, InMarker, LengthAt
  <2>4. Looking(p)'
    <3>1. left - 1 \in Nat
      BY <1>6
    <3> QED BY <2>1, <2>3, <3>1 DEF Looking
  <2>5. p \in 1 .. Len(input') + 1
    BY <1>2
  <2> QED BY <1>0, <1>2, <2>1, <2>2, <2>4, <2>5 DEF AgreeInv
<1> QED BY <1>10, <1>11

\* FrameDecoder: on any bytes, the decoder that is pushed a byte at a time has
\* the bodies ready that read_frame() returns for the same bytes, for every
\* radix, pair of start bytes and largest length.
THEOREM DecoderAlwaysAgrees ==
    FramingSpec => []AgreesWithReadFrame
<1>1. FramingInit => AgreeInv
  <2> SUFFICES ASSUME FramingInit PROVE AgreeInv
    OBVIOUS
  <2>1. /\ state = SeekingStart1 /\ ready = <<>> /\ input = <<>>
        /\ input \in Seq(Bytes) /\ ready \in Seq(Seq(Bytes)) /\ Len(input) = 0
    BY EmptySeq DEF FramingInit
  <2>2. Looking(1) /\ 1 \in 1 .. Len(input) + 1
    BY <2>1 DEF Looking
  <2>3. ASSUME NEW bytes \in Seq(Bytes)
        PROVE  ReadFrom(bytes)[1] = ready \o ReadFrom(bytes)[1]
    <3>1. 1 \in 1 .. Len(bytes) + 1
      BY LenProperties
    <3>2. ReadFrom(bytes)[1] \in Seq(Seq(Bytes))
      BY <3>1, ReadFromDef
    <3> QED BY <2>1, <3>2, ConcatEmptySeq
  <2> QED BY <2>1, <2>2, <2>3 DEF AgreeInv, Agree
<1>2. AgreeInv /\ [FramingNext]_framingVars => AgreeInv'
  <2> SUFFICES ASSUME AgreeInv, [FramingNext]_framingVars PROVE AgreeInv'
    OBVIOUS
  <2>1. CASE UNCHANGED framingVars
    <3>1. state' = state /\ body' = body /\ ready' = ready /\ input' = input
      BY <2>1 DEF framingVars
    <3>2. ASSUME NEW p, Looking(p) PROVE Looking(p)'
      BY <3>1, <3>2 DEF Looking, Collecting, InMarker, LengthAt
    <3>3. ASSUME NEW p, Agree(p) PROVE Agree(p)'
      BY <3>1, <3>3 DEF Agree, Begins, ReadFrom, FirstMarker, Markers, LengthAt
    <3> QED BY <3>1, <3>2, <3>3 DEF AgreeInv
  <2>2. CASE FramingNext
    BY <2>2, SeekStart1Agrees, SeekStart2Agrees, ReadLenHighAgrees, ReadLenLowAgrees,
       ReadBodyAgrees DEF FramingNext, PushByte
  <2> QED BY <2>1, <2>2
<1>3. AgreeInv => AgreesWithReadFrame
  <2> SUFFICES ASSUME AgreeInv PROVE ready = ReadFrom(input)[1]
    BY DEF AgreesWithReadFrame, BlockingFrames
  <2>1. PICK p \in 1 .. Len(input) + 1 : Looking(p) /\ Agree(p)
    BY DEF AgreeInv
  <2>2. input \in Seq(Bytes) /\ ready \in Seq(Seq(Bytes)) /\ Len(input) \in Nat
    BY LenProperties DEF AgreeInv
  <2>3. Begins(input, input)
    BY <2>2 DEF Begins
  <2>4. ReadFrom(input)[1] = ready \o ReadFrom(input)[p]
    BY <2>1, <2>2, <2>3 DEF Agree
  <2>5. Dry(input, p)
    <3>1. CASE p + 1 >= Len(input)
      <4>1. CASE Markers(input, p) = {}
        BY <4>1 DEF Dry
      <4>2. CASE Markers(input, p) # {}
        <5>1. FirstMarker(input, p) \in p + 2 .. Len(input) + 1
          BY <2>2, <4>2, FirstMarkerFirst
        <5> QED BY <2>2, <3>1, <5>1 DEF Dry
      <4> QED BY <4>1, <4>2
    <3>2. CASE p + 2 = Len(input) /\ InMarker(p)
      <4>1. p \in 1 .. Len(input) /\ p + 1 <= Len(input) /\ p + 2 + 1 > Len(input)
        BY <2>2, <3>2
      <4>2. FirstMarker(input, p) = p + 2
        BY <2>2, <3>2, <4>1, MarkerHere DEF InMarker
      <4> QED BY <4>1, <4>2 DEF Dry
    <3>3. ASSUME NEW left \in Nat, Collecting(p, left) PROVE Dry(input, p)
      <4>1. p \in 1 .. Len(input) /\ p + 1 <= Len(input) /\ p + 2 \in 1 .. Len(input)
            /\ p + 2 + 1 <= Len(input)
        BY <2>2, <3>3 DEF Collecting
      <4>2. FirstMarker(input, p) = p + 2
        BY <2>2, <3>3, <4>1, MarkerHere DEF Collecting, InMarker
      <4>3. PICK len \in Nat : len = LengthAt(input, p + 2)
        BY <2>2, <4>1, LengthType
      <4>4. len <= MaxLength /\ p + 2 + 1 + len > Len(input)
        BY <2>2, <3>3, <4>3 DEF Collecting
      <4> QED BY <4>2, <4>3, <4>4 DEF Dry
    <3> QED BY <2>1, <2>2, <3>1, <3>2, <3>3 DEF Looking
  <2>6. ReadFrom(input)[p] = <<>>
    BY <2>2, <2>5, ReadFromDef
  <2> QED BY <2>2, <2>4, <2>6, ConcatEmptySeq
<1> QED BY <1>1, <1>2, <1>3, PTL DEF FramingSpec

-----------------------------------------------------------------------------
(* The next frame through the KISS decoder                                   *)

\* A set given by five names has at most five elements.
LEMMA AtMostFive ==
    ASSUME NEW a, NEW b, NEW c, NEW d, NEW e
    PROVE  Cardinality({a, b, c, d, e}) # 6
<1> DEFINE One == {a}
           Two == One \cup {b}
           Three == Two \cup {c}
           Four == Three \cup {d}
           Five == Four \cup {e}
<1>2. IsFiniteSet(One) /\ Cardinality(One) \in 0 .. 1
  <2>1. \A x : IsFiniteSet({x}) /\ Cardinality({x}) = 1
    BY FS_Singleton
  <2>2. IsFiniteSet(One) /\ Cardinality(One) = 1
    BY <2>1
  <2> HIDE DEF One
  <2> QED BY <2>2
<1> HIDE DEF One
<1>3. IsFiniteSet(Two) /\ Cardinality(Two) \in 0 .. 2
  BY <1>2, FS_AddElement
<1> HIDE DEF Two
<1>4. IsFiniteSet(Three) /\ Cardinality(Three) \in 0 .. 3
  BY <1>3, FS_AddElement
<1> HIDE DEF Three
<1>5. IsFiniteSet(Four) /\ Cardinality(Four) \in 0 .. 4
  BY <1>4, FS_AddElement
<1> HIDE DEF Four
<1>6. IsFiniteSet(Five) /\ Cardinality(Five) \in 0 .. 5
  BY <1>5, FS_AddElement
<1>7. {a, b, c, d, e} = Five
  BY DEF One, Two, Three, Four, Five
<1> QED BY <1>6, <1>7

\* The bytes with a meaning differ.
LEMMA KissBytesDiffer ==
    /\ FEND # FESC /\ FEND # TFEND /\ FEND # TFESC /\ FEND # DataCommand
    /\ FESC # DataCommand /\ TFEND # TFESC
<1>0. Cardinality(KissBytes) = 6
  BY KissAssumption
<1>1. FEND # FESC
  <2> SUFFICES ASSUME FEND = FESC PROVE FALSE
    OBVIOUS
  <2>1. KissBytes = {FEND, TFEND, TFESC, DataCommand, Other}
    BY DEF KissBytes
  <2> QED BY <1>0, <2>1, AtMostFive
<1>2. FEND # TFEND
  <2> SUFFICES ASSUME FEND = TFEND PROVE FALSE
    OBVIOUS
  <2>1. KissBytes = {FEND, FESC, TFESC, DataCommand, Other}
    BY DEF KissBytes
  <2> QED BY <1>0, <2>1, AtMostFive
<1>3. FEND # TFESC
  <2> SUFFICES ASSUME FEND = TFESC PROVE FALSE
    OBVIOUS
  <2>1. KissBytes = {FEND, FESC, TFEND, DataCommand, Other}
    BY DEF KissBytes
  <2> QED BY <1>0, <2>1, AtMostFive
<1>4. FEND # DataCommand
  <2> SUFFICES ASSUME FEND = DataCommand PROVE FALSE
    OBVIOUS
  <2>1. KissBytes = {FEND, FESC, TFEND, TFESC, Other}
    BY DEF KissBytes
  <2> QED BY <1>0, <2>1, AtMostFive
<1>5. FESC # DataCommand
  <2> SUFFICES ASSUME FESC = DataCommand PROVE FALSE
    OBVIOUS
  <2>1. KissBytes = {FEND, FESC, TFEND, TFESC, Other}
    BY DEF KissBytes
  <2> QED BY <1>0, <2>1, AtMostFive
<1>6. TFEND # TFESC
  <2> SUFFICES ASSUME TFEND = TFESC PROVE FALSE
    OBVIOUS
  <2>1. KissBytes = {FEND, FESC, TFEND, DataCommand, Other}
    BY DEF KissBytes
  <2> QED BY <1>0, <2>1, AtMostFive
<1> QED BY <1>1, <1>2, <1>3, <1>4, <1>5, <1>6

\* A byte becomes one or two.
LEMMA EscapedType ==
    ASSUME NEW byte \in KissBytes
    PROVE  Escaped(byte) \in Seq(KissBytes) /\ Len(Escaped(byte)) \in 1 .. 2
<1>1. Escaped(byte) \in {<<FESC, TFEND>>, <<FESC, TFESC>>, <<byte>>}
  BY DEF Escaped
<1>2. FESC \in KissBytes /\ TFEND \in KissBytes /\ TFESC \in KissBytes
  BY DEF KissBytes
<1>3. /\ <<FESC, TFEND>> \in Seq(KissBytes) /\ Len(<<FESC, TFEND>>) = 2
      /\ <<FESC, TFESC>> \in Seq(KissBytes) /\ Len(<<FESC, TFESC>>) = 2
      /\ <<byte>> \in Seq(KissBytes) /\ Len(<<byte>>) = 1
  BY <1>2
<1>4. CASE Escaped(byte) = <<FESC, TFEND>>
  BY <1>3, <1>4
<1>5. CASE Escaped(byte) = <<FESC, TFESC>>
  BY <1>3, <1>5
<1>6. CASE Escaped(byte) = <<byte>>
  BY <1>3, <1>6
<1> QED BY <1>1, <1>4, <1>5, <1>6

\* What the first n bytes of a payload become.
LEMMA EscapedBytesDef ==
    ASSUME NEW payload \in Seq(KissBytes)
    PROVE  /\ EscapedBytes(payload)[0] = <<>>
           /\ \A n \in 1 .. Len(payload) :
                EscapedBytes(payload)[n] = EscapedBytes(payload)[n - 1] \o Escaped(payload[n])
           /\ \A n \in 0 .. Len(payload) : EscapedBytes(payload)[n] \in Seq(KissBytes)
<1> DEFINE K == Len(payload)
           Literal(g, n) == IF n = 0 THEN <<>> ELSE g[n - 1] \o Escaped(payload[n])
           Is(g) == g = [n \in 0 .. K |-> Literal(g, n)]
           UpTo(g, n) == \A m \in 0 .. n : g[m] = Literal(g, m)
           P == {n \in Nat : \E g : UpTo(g, n)}
<1>1. K \in Nat
  BY LenProperties
<1>2. 0 \in P
  <2> DEFINE g == [m \in 0 .. 0 |-> <<>>]
  <2>1. UpTo(g, 0)
    OBVIOUS
  <2> HIDE DEF g, UpTo
  <2> QED BY <2>1
<1>3. ASSUME NEW n \in Nat, n \in P PROVE n + 1 \in P
  <2>1. PICK g : UpTo(g, n)
    BY <1>3
  <2> DEFINE h == [m \in 0 .. n + 1 |-> IF m = n + 1 THEN g[n] \o Escaped(payload[n + 1]) ELSE g[m]]
  <2>2. ASSUME NEW m \in 0 .. n + 1 PROVE h[m] = Literal(h, m)
    <3>1. CASE m = n + 1
      <4>1. m - 1 = n /\ n \in 0 .. n + 1 /\ n # n + 1 /\ m # 0
        BY <3>1
      <4>2. h[m] = g[n] \o Escaped(payload[m]) /\ h[m - 1] = g[n]
        BY <3>1, <4>1
      <4> HIDE DEF h
      <4> QED BY <4>1, <4>2
    <3>2. CASE m # n + 1
      <4>1. m \in 0 .. n /\ h[m] = g[m] /\ (m # 0 => m - 1 \in 0 .. n + 1 /\ h[m - 1] = g[m - 1])
        BY <3>2
      <4> QED BY <2>1, <4>1
    <3> QED BY <3>1, <3>2
  <2>3. UpTo(h, n + 1)
    BY <2>2
  <2> HIDE DEF h, UpTo
  <2> QED BY <2>3
<1>4. \A n \in Nat : n \in P
  <2> HIDE DEF P
  <2> QED BY <1>2, <1>3, Upwards
<1>5. PICK g : UpTo(g, K)
  BY <1>1, <1>4
<1> DEFINE h == [n \in 0 .. K |-> g[n]]
<1>6. Is(h)
  <2>1. ASSUME NEW n \in 0 .. K PROVE h[n] = Literal(h, n)
    <3>1. n # 0 => n - 1 \in 0 .. K
      BY <1>1
    <3> QED BY <1>5, <3>1
  <2> HIDE DEF Literal
  <2> QED BY <2>1
<1>7. EscapedBytes(payload) = CHOOSE f : Is(f)
  BY DEF EscapedBytes
<1>8. Is(EscapedBytes(payload))
  <2> HIDE DEF Is, h
  <2> QED BY <1>6, <1>7
<1>9. \A n \in 0 .. K : EscapedBytes(payload)[n] = Literal(EscapedBytes(payload), n)
  <2> HIDE DEF Literal
  <2> QED BY <1>8
<1>10. EscapedBytes(payload)[0] = <<>>
  BY <1>1, <1>9
<1>11. ASSUME NEW n \in 1 .. K
       PROVE  EscapedBytes(payload)[n] = EscapedBytes(payload)[n - 1] \o Escaped(payload[n])
  <2>1. n \in 0 .. K /\ n # 0
    BY <1>1
  <2>2. EscapedBytes(payload)[n] = Literal(EscapedBytes(payload), n)
    BY <1>9, <2>1
  <2> QED BY <2>1, <2>2
<1> DEFINE Q == {n \in Nat : n <= K => EscapedBytes(payload)[n] \in Seq(KissBytes)}
<1>12. 0 \in Q
  BY <1>10, EmptySeq
<1>13. ASSUME NEW n \in Nat, n \in Q PROVE n + 1 \in Q
  <2> SUFFICES ASSUME n + 1 <= K PROVE EscapedBytes(payload)[n + 1] \in Seq(KissBytes)
    OBVIOUS
  <2>1. EscapedBytes(payload)[n] \in Seq(KissBytes)
    BY <1>1, <1>13
  <2>2. n + 1 \in 1 .. K /\ n + 1 - 1 = n
    BY <1>1
  <2>3. Escaped(payload[n + 1]) \in Seq(KissBytes)
    BY <2>2, ElementOfSeq, EscapedType
  <2>4. EscapedBytes(payload)[n + 1] = EscapedBytes(payload)[n] \o Escaped(payload[n + 1])
    <3>1. PICK m \in 1 .. K : m = n + 1 /\ m - 1 = n
      BY <2>2
    <3>2. EscapedBytes(payload)[m] = EscapedBytes(payload)[m - 1] \o Escaped(payload[m])
      BY <1>11
    <3> QED BY <3>1, <3>2
  <2>5. EscapedBytes(payload)[n] \o Escaped(payload[n + 1]) \in Seq(KissBytes)
    BY <2>1, <2>3, ConcatProperties
  <2> QED BY <2>4, <2>5
<1>14. \A n \in Nat : n \in Q
  <2> HIDE DEF Q
  <2> QED BY <1>12, <1>13, Upwards
<1>15. \A n \in 0 .. K : EscapedBytes(payload)[n] \in Seq(KissBytes)
  BY <1>1, <1>14
<1> QED BY <1>10, <1>11, <1>15

\* What is left of the frame behind the first bytes of the payload, for each
\* number of them: position n + 1 for n.
IsRests(payload, rests) ==
    /\ rests[Len(payload) + 1] = <<FEND>>
    /\ \A i \in 1 .. Len(payload) : rests[i] = Escaped(payload[i]) \o rests[i + 1]

Rests(payload) == CHOOSE rests : IsRests(payload, rests)

\* There is such a rest for each.
LEMMA RestsDef ==
    ASSUME NEW payload \in Seq(KissBytes)
    PROVE  /\ Rests(payload)[Len(payload) + 1] = <<FEND>>
           /\ \A i \in 1 .. Len(payload) :
                Rests(payload)[i] = Escaped(payload[i]) \o Rests(payload)[i + 1]
           /\ \A i \in 1 .. Len(payload) + 1 : Rests(payload)[i] \in Seq(KissBytes)
<1> DEFINE K == Len(payload)
           N == K + 2
           stop == [i \in 1 .. N |-> i = K + 2]
           skip == [i \in 1 .. N |-> FALSE]
           piece == [i \in 1 .. N |-> IF i = K + 1 THEN <<FEND>> ELSE Escaped(payload[i])]
           next == [i \in 1 .. N |-> i + 1]
<1>1. K \in Nat /\ N \in Nat /\ <<FEND>> \in Seq(KissBytes)
  <2>1. FEND \in KissBytes
    BY DEF KissBytes
  <2>2. K \in Nat
    BY LenProperties
  <2> QED BY <2>1, <2>2
<1>2. ASSUME NEW i \in 1 .. N, ~stop[i]
      PROVE  next[i] \in i + 1 .. N /\ (~skip[i] => piece[i] \in Seq(KissBytes))
  <2>0. i # K + 2
    BY <1>2, Zenon
  <2>1. i \in 1 .. K + 1
    BY <1>1, <2>0
  <2>2. next[i] \in i + 1 .. N
    BY <1>1, <2>1
  <2>3. CASE i = K + 1
    BY <1>1, <2>2, <2>3
  <2>4. CASE i # K + 1
    <3>1. i \in 1 .. K
      BY <1>1, <2>1, <2>4
    <3>2. Escaped(payload[i]) \in Seq(KissBytes)
      BY <3>1, ElementOfSeq, EscapedType
    <3> QED BY <2>2, <2>4, <3>2
  <2> QED BY <2>3, <2>4
<1>a. ASSUME NEW i \in 1 .. N PROVE (stop[i] <=> i = K + 2) /\ ~skip[i]
  BY Zenon
<1>b. K + 1 \in 1 .. N /\ K + 2 \in 1 .. N /\ K + 1 # K + 2 /\ K + 1 + 1 = K + 2
  BY <1>1
<1>3. ~stop[K + 1] /\ ~skip[K + 1] /\ piece[K + 1] = <<FEND>> /\ next[K + 1] = K + 2 /\ stop[K + 2]
  <2>1. piece[K + 1] = <<FEND>> /\ next[K + 1] = K + 2
    BY <1>b
  <2> HIDE DEF N, stop, skip, piece, next
  <2> QED BY <1>a, <1>b, <2>1
<1>4. ASSUME NEW i \in 1 .. K
      PROVE  i \in 1 .. N /\ ~stop[i] /\ ~skip[i] /\ piece[i] = Escaped(payload[i]) /\ next[i] = i + 1
  <2>1. i \in 1 .. N /\ i # K + 2 /\ i # K + 1
    BY <1>1
  <2>2. piece[i] = Escaped(payload[i]) /\ next[i] = i + 1
    BY <2>1
  <2> HIDE DEF N, stop, skip, piece, next
  <2> QED BY <1>a, <2>1, <2>2
<1>5. PICK g : Reads(g, N, stop, skip, piece, next)
  <2> HIDE DEF N, stop, skip, piece, next
  <2> QED BY <1>1, <1>2, ReadingExists
<1>6. \A i \in 1 .. N : g[i] \in Seq(KissBytes)
  <2> HIDE DEF N, stop, skip, piece, next
  <2> QED BY <1>1, <1>2, <1>5, ReadingType
<1>7. g[K + 1] = <<FEND>>
  <2>1. g[K + 1] = <<FEND>> \o g[K + 2] /\ g[K + 2] = <<>>
    <3> HIDE DEF N, stop, skip, piece, next
    <3> QED BY <1>3, <1>5, <1>b DEF Reads
  <2> QED BY <1>1, <2>1, ConcatEmptySeq
<1>8. \A i \in 1 .. K : g[i] = Escaped(payload[i]) \o g[i + 1]
  <2> HIDE DEF N, stop, skip, piece, next
  <2> QED BY <1>4, <1>5 DEF Reads
<1>9. IsRests(payload, Rests(payload))
  BY <1>7, <1>8 DEF IsRests, Rests
<1> DEFINE r == Rests(payload)
           P == {i \in 1 .. K + 1 : r[i] \in Seq(KissBytes)}
<1>10. ASSUME NEW i \in 1 .. K + 1, \A j \in i + 1 .. K + 1 : j \in P PROVE i \in P
  <2>1. CASE i = K + 1
    BY <1>1, <1>9, <2>1 DEF IsRests
  <2>2. CASE i # K + 1
    <3>1. i \in 1 .. K /\ i + 1 \in i + 1 .. K + 1
      BY <1>1, <2>2
    <3>2. r[i] = Escaped(payload[i]) \o r[i + 1] /\ r[i + 1] \in Seq(KissBytes)
      BY <1>9, <1>10, <3>1 DEF IsRests
    <3>3. Escaped(payload[i]) \in Seq(KissBytes)
      BY <3>1, ElementOfSeq, EscapedType
    <3> QED BY <3>2, <3>3, ConcatProperties
  <2> QED BY <2>1, <2>2
<1>11. \A i \in 1 .. K + 1 : i \in P
  <2>1. K + 1 \in Nat
    BY <1>1
  <2> HIDE DEF P
  <2> QED BY <1>10, <2>1, Backwards
<1> QED BY <1>9, <1>11 DEF IsRests

\* It does not matter which two of three are joined first.
LEMMA KissJoined ==
    ASSUME NEW s \in Seq(KissBytes), NEW t \in Seq(KissBytes), NEW u \in Seq(KissBytes)
    PROVE  s \o (t \o u) = (s \o t) \o u
BY Joined

\* The same, of four.
LEMMA FourJoined ==
    ASSUME NEW s \in Seq(KissBytes), NEW t \in Seq(KissBytes), NEW u \in Seq(KissBytes),
           NEW v \in Seq(KissBytes)
    PROVE  ((s \o t) \o u) \o v = s \o (t \o (u \o v))
<1>1. PICK w \in Seq(KissBytes) : w = u \o v
  BY ConcatProperties
<1>2. PICK x \in Seq(KissBytes) : x = s \o t
  BY ConcatProperties
<1>3. x \o (u \o v) = (x \o u) \o v
  BY KissJoined
<1>4. s \o (t \o w) = (s \o t) \o w
  BY KissJoined
<1> QED BY <1>1, <1>2, <1>3, <1>4

\* The delimiter and the command come first, whatever follows them.
LEMMA FrameJoined ==
    ASSUME NEW e \in Seq(KissBytes)
    PROVE  <<FEND, DataCommand>> \o e \o <<FEND>>
             = <<FEND>> \o (<<DataCommand>> \o (e \o <<FEND>>))
<1>1. FEND \in KissBytes /\ DataCommand \in KissBytes
  BY DEF KissBytes
<1>2. <<FEND>> \in Seq(KissBytes) /\ <<DataCommand>> \in Seq(KissBytes)
  BY <1>1
<1>3. PICK s \in Seq(KissBytes), t \in Seq(KissBytes) : s = <<FEND>> /\ t = <<DataCommand>>
  BY <1>2
<1>4. s \o t = <<FEND, DataCommand>>
  <2>1. <<FEND, DataCommand>> = <<FEND>> \o <<DataCommand>>
    OBVIOUS
  <2> QED BY <1>3, <2>1
<1>5. ((s \o t) \o e) \o s = s \o (t \o (e \o s))
  BY FourJoined
<1> QED BY <1>3, <1>4, <1>5

\* The frame is its beginning and the rest.
LEMMA EncodedFrame ==
    ASSUME NEW payload \in Seq(KissBytes), Encode(payload) # <<>>
    PROVE  Encode(payload) = <<FEND>> \o (<<DataCommand>> \o Rests(payload)[1])
<1> DEFINE K == Len(payload)
           E == EscapedBytes(payload)
           R == Rests(payload)
           P == {i \in 1 .. K + 1 : E[i - 1] \o R[i] = E[K] \o <<FEND>>}
<1>1. /\ K \in Nat
      /\ R[K + 1] = <<FEND>> /\ \A i \in 1 .. K : R[i] = Escaped(payload[i]) \o R[i + 1]
      /\ \A i \in 1 .. K + 1 : R[i] \in Seq(KissBytes)
  BY LenProperties, RestsDef
<1>2. /\ E[0] = <<>> /\ \A n \in 1 .. K : E[n] = E[n - 1] \o Escaped(payload[n])
      /\ \A n \in 0 .. K : E[n] \in Seq(KissBytes)
  BY EscapedBytesDef
<1>3. ASSUME NEW i \in 1 .. K + 1, \A j \in i + 1 .. K + 1 : j \in P PROVE i \in P
  <2>1. CASE i = K + 1
    <3>1. i - 1 = K
      BY <1>1, <2>1
    <3> QED BY <1>1, <2>1, <3>1
  <2>2. CASE i # K + 1
    <3>1. /\ i \in 1 .. K /\ i + 1 \in i + 1 .. K + 1 /\ i + 1 - 1 = i
          /\ i - 1 \in 0 .. K /\ i + 1 \in 1 .. K + 1
      BY <1>1, <2>2
    <3>2. E[i] \o R[i + 1] = E[K] \o <<FEND>>
      <4>1. PICK j \in i + 1 .. K + 1 : j = i + 1 /\ j - 1 = i
        BY <3>1
      <4>2. j \in P
        BY <1>3
      <4>3. E[j - 1] \o R[j] = E[K] \o <<FEND>>
        BY <4>2
      <4> QED BY <4>1, <4>3
    <3>3. PICK e \in Seq(KissBytes), s \in Seq(KissBytes), r \in Seq(KissBytes) :
             e = E[i - 1] /\ s = Escaped(payload[i]) /\ r = R[i + 1]
      BY <1>1, <1>2, <3>1, ElementOfSeq, EscapedType
    <3>4. E[i] = e \o s /\ R[i] = s \o r
      BY <1>1, <1>2, <3>1, <3>3
    <3>5. e \o (s \o r) = (e \o s) \o r
      BY KissJoined
    <3>6. E[i - 1] \o R[i] = E[K] \o <<FEND>>
      BY <3>2, <3>3, <3>4, <3>5
    <3> QED BY <3>6
  <2> QED BY <2>1, <2>2
<1>4. \A i \in 1 .. K + 1 : i \in P
  <2>1. K + 1 \in Nat
    BY <1>1
  <2> HIDE DEF P
  <2> QED BY <1>3, <2>1, Backwards
<1>5. R[1] = E[K] \o <<FEND>>
  <2>1. 1 \in 1 .. K + 1 /\ 1 - 1 = 0 /\ R[1] \in Seq(KissBytes)
    BY <1>1
  <2>2. E[0] \o R[1] = E[K] \o <<FEND>>
    <3>1. 1 \in P
      <4> HIDE DEF P
      <4> QED BY <1>4, <2>1
    <3> QED BY <2>1, <3>1
  <2> QED BY <1>2, <2>1, <2>2, ConcatEmptySeq
<1>6. Encode(payload) = <<FEND, DataCommand>> \o E[K] \o <<FEND>>
  BY DEF Encode
<1>7. PICK e \in Seq(KissBytes) : e = E[K]
  BY <1>1, <1>2
<1>8. <<FEND, DataCommand>> \o e \o <<FEND>> = <<FEND>> \o (<<DataCommand>> \o (e \o <<FEND>>))
  BY FrameJoined
<1> QED BY <1>5, <1>6, <1>7, <1>8

\* What is received first is the head.
LEMMA HeadAndTail ==
    ASSUME NEW byte \in KissBytes, NEW rest \in Seq(KissBytes)
    PROVE  /\ <<byte>> \o rest \in Seq(KissBytes) /\ <<byte>> \o rest # <<>>
           /\ Head(<<byte>> \o rest) = byte /\ Tail(<<byte>> \o rest) = rest
<1>1. PICK one \in Seq(KissBytes) : one = <<byte>> /\ Len(one) = 1 /\ one[1] = byte
  <2>1. <<byte>> \in Seq(KissBytes) /\ Len(<<byte>>) = 1 /\ <<byte>>[1] = byte
    OBVIOUS
  <2> QED BY <2>1
<1>2. PICK all \in Seq(KissBytes) : all = one \o rest
  BY ConcatProperties
<1>3. Len(rest) \in Nat
  BY LenProperties
<1>4. /\ Len(all) = 1 + Len(rest)
      /\ \A k \in 1 .. 1 + Len(rest) : all[k] = IF k <= 1 THEN one[k] ELSE rest[k - 1]
  BY <1>1, <1>2, ConcatProperties
<1>5. all # <<>> /\ all[1] = byte
  <2>1. Len(all) # 0
    BY <1>3, <1>4
  <2>2. 1 \in 1 .. 1 + Len(rest)
    BY <1>3
  <2> QED BY <1>1, <1>4, <2>1, <2>2, EmptySeq
<1>6. /\ Head(all) = byte /\ Tail(all) \in Seq(KissBytes) /\ Len(Tail(all)) = Len(all) - 1
      /\ \A k \in 1 .. Len(Tail(all)) : Tail(all)[k] = all[k + 1]
  BY <1>5, HeadTailProperties
<1>7. Tail(all) = rest
  <2>1. Len(Tail(all)) = Len(rest)
    BY <1>3, <1>4, <1>6
  <2>2. ASSUME NEW k \in 1 .. Len(rest) PROVE Tail(all)[k] = rest[k]
    <3>1. k + 1 \in 1 .. 1 + Len(rest) /\ ~(k + 1 <= 1) /\ k + 1 - 1 = k
      BY <1>3
    <3> QED BY <1>4, <1>6, <2>1, <3>1
  <2> QED BY <1>6, <2>1, <2>2, SeqEqual
<1> QED BY <1>1, <1>2, <1>5, <1>6, <1>7

\* A rest begins with the byte, or with the escape and what stands for it.
LEMMA RestBegins ==
    ASSUME NEW payload \in Seq(KissBytes), NEW i \in 1 .. Len(payload)
    PROVE  LET rest == Rests(payload)[i] then == Rests(payload)[i + 1] IN
           /\ payload[i] \notin {FEND, FESC} => rest = <<payload[i]>> \o then
           /\ payload[i] = FEND => rest = <<FESC>> \o (<<TFEND>> \o then)
           /\ payload[i] = FESC => rest = <<FESC>> \o (<<TFESC>> \o then)
<1>1. Len(payload) \in Nat
  BY LenProperties
<1>2. PICK then \in Seq(KissBytes) :
         then = Rests(payload)[i + 1] /\ Rests(payload)[i] = Escaped(payload[i]) \o then
  <2>1. i + 1 \in 1 .. Len(payload) + 1
    BY <1>1
  <2> QED BY <2>1, RestsDef
<1>3. /\ payload[i] \notin {FEND, FESC} => Escaped(payload[i]) = <<payload[i]>>
      /\ payload[i] = FEND => Escaped(payload[i]) = <<FESC, TFEND>>
      /\ payload[i] = FESC => Escaped(payload[i]) = <<FESC, TFESC>>
  BY KissBytesDiffer DEF Escaped
<1>4. ASSUME NEW b \in KissBytes PROVE <<FESC, b>> \o then = <<FESC>> \o (<<b>> \o then)
  <2>1. FESC \in KissBytes
    BY DEF KissBytes
  <2>2. PICK one \in Seq(KissBytes), two \in Seq(KissBytes) : one = <<FESC>> /\ two = <<b>>
    <3>1. <<FESC>> \in Seq(KissBytes) /\ <<b>> \in Seq(KissBytes)
      BY <2>1
    <3> QED BY <3>1
  <2>3. <<FESC, b>> = one \o two
    BY <2>2
  <2>4. (one \o two) \o then = one \o (two \o then)
    BY KissJoined
  <2> QED BY <2>2, <2>3, <2>4
<1>5. TFEND \in KissBytes /\ TFESC \in KissBytes
  BY DEF KissBytes
<1>6. /\ <<FESC, TFEND>> \o then = <<FESC>> \o (<<TFEND>> \o then)
      /\ <<FESC, TFESC>> \o then = <<FESC>> \o (<<TFESC>> \o then)
  BY <1>4, <1>5
<1> QED BY <1>2, <1>3, <1>6

\* The beginnings of a sequence.
LEMMA Beginnings ==
    ASSUME NEW s \in Seq(KissBytes), NEW n \in 0 .. Len(s)
    PROVE  /\ SubSeq(s, 1, n) \in Seq(KissBytes) /\ Len(SubSeq(s, 1, n)) = n
           /\ n < Len(s) => SubSeq(s, 1, n + 1) = Append(SubSeq(s, 1, n), s[n + 1])
           /\ n = Len(s) => SubSeq(s, 1, n) = s
<1>1. Len(s) \in Nat /\ \A k \in 1 .. Len(s) : s[k] \in KissBytes
  BY LenProperties, ElementOfSeq
<1>2. ASSUME NEW m \in 0 .. Len(s)
      PROVE  /\ SubSeq(s, 1, m) \in Seq(KissBytes) /\ Len(SubSeq(s, 1, m)) = m
             /\ \A k \in 1 .. m : SubSeq(s, 1, m)[k] = s[k]
  <2>1. m \in Nat /\ \A k \in 1 .. m : s[k] \in KissBytes
    BY <1>1
  <2>2. /\ SubSeq(s, 1, m) \in Seq(KissBytes)
        /\ Len(SubSeq(s, 1, m)) = IF 1 <= m THEN m - 1 + 1 ELSE 0
        /\ \A k \in 1 .. m - 1 + 1 : SubSeq(s, 1, m)[k] = s[1 + k - 1]
    BY <2>1, SubSeqProperties
  <2>3. m - 1 + 1 = m /\ \A k \in 1 .. m : 1 + k - 1 = k
    BY <2>1
  <2>4. (IF 1 <= m THEN m ELSE 0) = m
    BY <2>1
  <2> QED BY <2>2, <2>3, <2>4
<1>3. ASSUME n < Len(s) PROVE SubSeq(s, 1, n + 1) = Append(SubSeq(s, 1, n), s[n + 1])
  <2>1. PICK m \in 0 .. Len(s) : m = n + 1 /\ m \in 1 .. Len(s)
    BY <1>1, <1>3
  <2>2. PICK t \in Seq(KissBytes) : t = SubSeq(s, 1, n) /\ Len(t) = n /\ \A k \in 1 .. n : t[k] = s[k]
    BY <1>2
  <2>3. s[m] \in KissBytes
    BY <1>1, <2>1
  <2>4. PICK u \in Seq(KissBytes) : /\ u = Append(t, s[m]) /\ Len(u) = n + 1
                                    /\ \A k \in 1 .. n : u[k] = t[k]
                                    /\ u[n + 1] = s[m]
    <3>1. PICK u : u = Append(t, s[m])
      OBVIOUS
    <3>2. /\ u \in Seq(KissBytes) /\ Len(u) = Len(t) + 1
          /\ \A k \in 1 .. Len(t) : u[k] = t[k]
          /\ u[Len(t) + 1] = s[m]
      BY <2>2, <2>3, <3>1, AppendProperties
    <3> QED BY <2>2, <3>1, <3>2
  <2>5. PICK v \in Seq(KissBytes) : v = SubSeq(s, 1, m) /\ Len(v) = m /\ \A k \in 1 .. m : v[k] = s[k]
    BY <1>2
  <2>6. ASSUME NEW k \in 1 .. m PROVE v[k] = u[k]
    <3>1. k = m \/ k \in 1 .. n
      BY <2>1
    <3> QED BY <2>1, <2>2, <2>4, <2>5, <3>1
  <2>7. v = u
    BY <2>1, <2>4, <2>5, <2>6, SeqEqual
  <2> QED BY <2>1, <2>2, <2>4, <2>5, <2>7
<1>4. ASSUME n = Len(s) PROVE SubSeq(s, 1, n) = s
  BY <1>2, <1>4, SeqEqual
<1> QED BY <1>2, <1>3, <1>4

\* The decoder that has collected the first n bytes of the payload.
Collected(n, escaped) ==
    [in_frame |-> TRUE, escaped |-> escaped, overflow |-> FALSE,
     command |-> <<DataCommand>>, data |-> SubSeq(encoded, 1, n)]

\* Where an unbroken frame is: not begun, opened, collected up to some byte or
\* into an escape, or handed over.
NotBegun == line = Encode(encoded)
Begun == decoder = Opened /\ line = <<DataCommand>> \o Rests(encoded)[1]
Amid(n) == decoder = Collected(n, FALSE) /\ line = Rests(encoded)[n + 1]
InEscape(n) ==
    /\ n < Len(encoded) /\ decoder = Collected(n, TRUE)
    /\ \/ encoded[n + 1] = FEND /\ line = <<TFEND>> \o Rests(encoded)[n + 2]
       \/ encoded[n + 1] = FESC /\ line = <<TFESC>> \o Rests(encoded)[n + 2]
Over == line = <<>> /\ handed = encoded

Underway ==
    NotBegun \/ Begun \/ (\E n \in 0 .. Len(encoded) : Amid(n) \/ InEscape(n)) \/ Over

KissDecoders == [in_frame : BOOLEAN, escaped : BOOLEAN, overflow : BOOLEAN,
                 command : Seq(KissBytes), data : Seq(KissBytes)]

KissInv ==
    /\ decoder \in KissDecoders /\ Len(decoder.data) <= MaxPacket
    /\ line \in Seq(KissBytes)
    /\ encoded # <<>> => /\ encoded \in Seq(KissBytes) /\ Len(encoded) \in 1 .. MaxPacket
                         /\ Encode(encoded) # <<>>
                         /\ Underway

\* With whatever content byte, the decoder does not outgrow its array.
LEMMA ContentBounded ==
    ASSUME NEW byte \in KissBytes, decoder \in KissDecoders, Len(decoder.data) <= MaxPacket
    PROVE  Content(byte) \in KissDecoders /\ Len(Content(byte).data) <= MaxPacket
<1>1. <<byte>> \in Seq(KissBytes)
  OBVIOUS
<1>2. decoder.data \in Seq(KissBytes) /\ Len(decoder.data) \in Nat /\ MaxPacket \in Nat
  BY LenProperties, KissAssumption DEF KissDecoders
<1>3. PICK more : more = Append(decoder.data, byte)
  OBVIOUS
<1>4. more \in Seq(KissBytes) /\ Len(more) = Len(decoder.data) + 1
  BY <1>2, <1>3, AppendProperties
<1>5. CASE decoder.command = <<>>
  <2>1. Content(byte) = [decoder EXCEPT !.command = <<byte>>, !.escaped = FALSE]
    BY <1>5 DEF Content
  <2> QED BY <1>1, <2>1 DEF KissDecoders
<1>6. CASE decoder.command # <<>> /\ Full
  <2>1. Content(byte) = [decoder EXCEPT !.overflow = TRUE, !.escaped = FALSE]
    BY <1>6 DEF Content
  <2> QED BY <2>1 DEF KissDecoders
<1>7. CASE decoder.command # <<>> /\ ~Full
  <2>1. Content(byte) = [decoder EXCEPT !.data = more, !.escaped = FALSE]
    BY <1>3, <1>7 DEF Content
  <2>2. Len(more) <= MaxPacket
    BY <1>2, <1>4, <1>7 DEF Full
  <2> QED BY <1>4, <2>1, <2>2 DEF KissDecoders
<1> QED BY <1>5, <1>6, <1>7

\* Nor with the delimiter, the escape and what follows it.
LEMMA FeedBounded ==
    ASSUME NEW byte \in KissBytes, decoder \in KissDecoders, Len(decoder.data) <= MaxPacket,
           Feed(byte)
    PROVE  decoder' \in KissDecoders /\ Len(decoder'.data) <= MaxPacket
<1>1. Opened \in KissDecoders /\ Opened.data = <<>> /\ Len(<<>>) = 0 /\ MaxPacket \in Nat
  BY EmptySeq, KissAssumption DEF Opened, Reset, KissDecoders
<1>2. FEND \in KissBytes /\ FESC \in KissBytes
  BY DEF KissBytes
<1>3. [decoder EXCEPT !.escaped = TRUE] \in KissDecoders
      /\ [decoder EXCEPT !.escaped = TRUE].data = decoder.data
  BY DEF KissDecoders
<1>4. [decoder EXCEPT !.escaped = FALSE, !.overflow = TRUE] \in KissDecoders
      /\ [decoder EXCEPT !.escaped = FALSE, !.overflow = TRUE].data = decoder.data
  BY DEF KissDecoders
<1>5. Unescape(byte) \in KissDecoders /\ Len(Unescape(byte).data) <= MaxPacket
  <2>1. Unescape(byte) \in {Content(FEND), Content(FESC),
                            [decoder EXCEPT !.escaped = FALSE, !.overflow = TRUE]}
    BY DEF Unescape
  <2> QED BY <1>2, <1>4, <2>1, ContentBounded
<1>6. decoder' \in {Opened, decoder, Unescape(byte), [decoder EXCEPT !.escaped = TRUE], Content(byte)}
  BY DEF Feed, Delimit
<1>7. Content(byte) \in KissDecoders /\ Len(Content(byte).data) <= MaxPacket
  BY ContentBounded
<1>8. CASE decoder' = Opened
  <2>1. Len(Opened.data) = 0 /\ 0 <= MaxPacket
    BY <1>1
  <2> QED BY <1>1, <1>8, <2>1
<1>9. CASE decoder' = [decoder EXCEPT !.escaped = TRUE]
  BY <1>3, <1>9
<1> QED BY <1>5, <1>6, <1>7, <1>8, <1>9

\* FEND opens a frame, and hands over what was collected when it is all.
LEMMA FeedEnd ==
    ASSUME Feed(FEND)
    PROVE  /\ decoder' = Opened
           /\ \A n \in 0 .. Len(encoded) :
                decoder = Collected(n, FALSE) /\ SubSeq(encoded, 1, n) # <<>>
                   => handed' = SubSeq(encoded, 1, n)
<1>1. Delimit
  BY DEF Feed
<1>2. ASSUME NEW n \in 0 .. Len(encoded), decoder = Collected(n, FALSE), SubSeq(encoded, 1, n) # <<>>
      PROVE  handed' = SubSeq(encoded, 1, n)
  <2>1. /\ decoder.in_frame = TRUE /\ decoder.overflow = FALSE
        /\ decoder.data = SubSeq(encoded, 1, n) /\ decoder.command = <<DataCommand>>
    BY <1>2 DEF Collected
  <2>2. Finishes
    BY <1>2, <2>1 DEF Finishes, DataCommands
  <2> QED BY <1>1, <2>1, <2>2 DEF Delimit
<1> QED BY <1>1, <1>2 DEF Delimit

\* The command is taken from the first byte of a frame.
LEMMA FeedCommand ==
    ASSUME decoder = Opened, encoded \in Seq(KissBytes), Feed(DataCommand)
    PROVE  decoder' = Collected(0, FALSE)
<1>1. Opened = [in_frame |-> TRUE, escaped |-> FALSE, overflow |-> FALSE,
                command |-> <<>>, data |-> <<>>]
  <2>1. /\ Opened \in KissDecoders /\ Opened.in_frame = TRUE /\ Opened.escaped = FALSE
        /\ Opened.overflow = FALSE /\ Opened.command = <<>> /\ Opened.data = <<>>
    BY EmptySeq DEF Opened, Reset, KissDecoders
  <2> QED BY <2>1 DEF KissDecoders
<1>2. decoder.in_frame = TRUE /\ decoder.escaped = FALSE /\ decoder.overflow = FALSE /\ decoder.command = <<>>
  BY <1>1
<1>3. decoder' = Content(DataCommand)
  BY <1>2, KissBytesDiffer DEF Feed
<1>4. decoder' = [decoder EXCEPT !.command = <<DataCommand>>, !.escaped = FALSE]
  BY <1>2, <1>3 DEF Content
<1>5. decoder' = [in_frame |-> TRUE, escaped |-> FALSE, overflow |-> FALSE,
                  command |-> <<DataCommand>>, data |-> <<>>]
  BY <1>1, <1>4
<1>6. SubSeq(encoded, 1, 0) = <<>>
  <2>1. 0 \in 0 .. Len(encoded)
    BY LenProperties
  <2>2. SubSeq(encoded, 1, 0) \in Seq(KissBytes) /\ Len(SubSeq(encoded, 1, 0)) = 0
    BY <2>1, Beginnings
  <2> QED BY <2>2, EmptySeq
<1> QED BY <1>5, <1>6 DEF Collected

\* A byte of the payload is collected behind the others, while there is room.
LEMMA ContentCollects ==
    ASSUME encoded \in Seq(KissBytes), Len(encoded) \in 1 .. MaxPacket,
           NEW n \in 0 .. Len(encoded), n < Len(encoded), NEW escaped \in BOOLEAN,
           decoder = Collected(n, escaped)
    PROVE  Content(encoded[n + 1]) = Collected(n + 1, FALSE)
<1>1. /\ SubSeq(encoded, 1, n + 1) = Append(SubSeq(encoded, 1, n), encoded[n + 1])
      /\ Len(SubSeq(encoded, 1, n)) = n
  BY Beginnings
<1>2. /\ decoder.command = <<DataCommand>> /\ <<DataCommand>> # <<>>
      /\ decoder.data = SubSeq(encoded, 1, n)
  BY DEF Collected
<1>3. ~Full
  <2>1. MaxPacket \in Nat /\ n \in Nat /\ n < MaxPacket
    BY KissAssumption, LenProperties
  <2> QED BY <1>1, <1>2, <2>1 DEF Full
<1>4. Content(encoded[n + 1]) = [decoder EXCEPT !.data = Append(@, encoded[n + 1]), !.escaped = FALSE]
  BY <1>2, <1>3 DEF Content
<1> QED BY <1>1, <1>4 DEF Collected

\* A byte that stands for itself, the escape, and what stands for a byte.
LEMMA FeedCollects ==
    ASSUME encoded \in Seq(KissBytes), Len(encoded) \in 1 .. MaxPacket,
           NEW n \in 0 .. Len(encoded), n < Len(encoded)
    PROVE  /\ decoder = Collected(n, FALSE) /\ encoded[n + 1] \notin {FEND, FESC} /\ Feed(encoded[n + 1])
                => decoder' = Collected(n + 1, FALSE)
           /\ decoder = Collected(n, FALSE) /\ Feed(FESC) => decoder' = Collected(n, TRUE)
           /\ decoder = Collected(n, TRUE) /\ encoded[n + 1] = FEND /\ Feed(TFEND)
                => decoder' = Collected(n + 1, FALSE)
           /\ decoder = Collected(n, TRUE) /\ encoded[n + 1] = FESC /\ Feed(TFESC)
                => decoder' = Collected(n + 1, FALSE)
<1>1. ASSUME NEW escaped \in BOOLEAN, decoder = Collected(n, escaped)
      PROVE  decoder.in_frame = TRUE /\ decoder.escaped = escaped /\ decoder.overflow = FALSE
  BY <1>1 DEF Collected
<1>2. ASSUME decoder = Collected(n, FALSE), encoded[n + 1] \notin {FEND, FESC}, Feed(encoded[n + 1])
      PROVE  decoder' = Collected(n + 1, FALSE)
  <2>1. decoder' = Content(encoded[n + 1])
    BY <1>1, <1>2 DEF Feed
  <2> QED BY <1>2, <2>1, ContentCollects
<1>3. ASSUME decoder = Collected(n, FALSE), Feed(FESC) PROVE decoder' = Collected(n, TRUE)
  <2>1. decoder' = [decoder EXCEPT !.escaped = TRUE]
    BY <1>1, <1>3, KissBytesDiffer DEF Feed
  <2> QED BY <1>3, <2>1 DEF Collected
<1>4. ASSUME decoder = Collected(n, TRUE), encoded[n + 1] = FEND, Feed(TFEND)
      PROVE  decoder' = Collected(n + 1, FALSE)
  <2>1. decoder' = Unescape(TFEND)
    BY <1>1, <1>4, KissBytesDiffer DEF Feed
  <2>2. Unescape(TFEND) = Content(FEND)
    BY KissBytesDiffer DEF Unescape
  <2> QED BY <1>4, <2>1, <2>2, ContentCollects
<1>5. ASSUME decoder = Collected(n, TRUE), encoded[n + 1] = FESC, Feed(TFESC)
      PROVE  decoder' = Collected(n + 1, FALSE)
  <2>1. decoder' = Unescape(TFESC)
    BY <1>1, <1>5, KissBytesDiffer DEF Feed
  <2>2. Unescape(TFESC) = Content(FESC)
    BY KissBytesDiffer DEF Unescape
  <2> QED BY <1>5, <2>1, <2>2, ContentCollects
<1> QED BY <1>2, <1>3, <1>4, <1>5

\* A frame that is begun is one the decoder can be opened with.
LEMMA TransmitUnderway ==
    ASSUME KissInv, NEW payload \in KissPayloads, Transmit(payload) PROVE KissInv'
<1>1. PICK n \in 1 .. MaxPacket : payload \in [1 .. n -> {FEND, FESC, TFEND, Other}]
  BY DEF KissPayloads
<1>2. n \in Nat /\ {FEND, FESC, TFEND, Other} \subseteq KissBytes
  BY <1>1, KissAssumption DEF KissBytes
<1>3. payload \in Seq(KissBytes) /\ Len(payload) = n
  <2>1. payload \in [1 .. n -> KissBytes]
    BY <1>1, <1>2
  <2> QED BY <1>2, <2>1
<1>4. /\ encoded' = payload /\ line' = Encode(payload) /\ Encode(payload) # <<>>
      /\ decoder' = decoder
  BY DEF Transmit
<1>5. line' \in Seq(KissBytes)
  <2>1. FEND \in KissBytes /\ DataCommand \in KissBytes
    BY DEF KissBytes
  <2>2. Rests(payload)[1] \in Seq(KissBytes)
    <3>1. 1 \in 1 .. Len(payload) + 1
      BY <1>2, <1>3
    <3> QED BY <1>3, <3>1, RestsDef
  <2>3. <<DataCommand>> \o Rests(payload)[1] \in Seq(KissBytes)
    BY <2>1, <2>2, HeadAndTail
  <2>4. <<FEND>> \o (<<DataCommand>> \o Rests(payload)[1]) \in Seq(KissBytes)
    BY <2>1, <2>3, HeadAndTail
  <2> QED BY <1>3, <1>4, <2>4, EncodedFrame
<1>6. Underway'
  BY <1>4 DEF Underway, NotBegun
<1>7. (encoded \in Seq(KissBytes) /\ Len(encoded) \in 1 .. MaxPacket /\ Encode(encoded) # <<>>)'
  BY <1>1, <1>3, <1>4
<1> QED BY <1>4, <1>5, <1>6, <1>7 DEF KissInv

\* Noise breaks the frame.
LEMMA NoiseBreaks ==
    ASSUME KissInv, NEW byte \in KissBytes, Noise(byte) PROVE KissInv'
<1>1. decoder' \in KissDecoders /\ Len(decoder'.data) <= MaxPacket
  BY FeedBounded DEF Noise, KissInv
<1>2. encoded' = <<>> /\ line' = line
  BY DEF Noise
<1> QED BY <1>1, <1>2 DEF KissInv

\* Each byte of an unbroken frame brings the decoder a step further.
LEMMA ReceiveUnderway ==
    ASSUME KissInv, ReceiveByte, encoded # <<>> PROVE Underway'
<1>1. /\ encoded \in Seq(KissBytes) /\ Len(encoded) \in 1 .. MaxPacket
      /\ Encode(encoded) # <<>> /\ Len(encoded) \in Nat
  BY LenProperties DEF KissInv
<1>2. line # <<>> /\ Feed(Head(line)) /\ line' = Tail(line) /\ encoded' = encoded
  BY DEF ReceiveByte
<1>3. \A i \in 1 .. Len(encoded) + 1 : Rests(encoded)[i] \in Seq(KissBytes)
  BY <1>1, RestsDef
<1>4. FEND \in KissBytes /\ FESC \in KissBytes /\ TFEND \in KissBytes /\ TFESC \in KissBytes
      /\ DataCommand \in KissBytes
  BY DEF KissBytes
<1>5. ASSUME NEW n \in 0 .. Len(encoded), decoder' = Collected(n, FALSE), line' = Rests(encoded)[n + 1]
      PROVE  Underway'
  <2>1. Amid(n)'
    BY <1>2, <1>5 DEF Amid, Collected
  <2> QED BY <1>2, <2>1 DEF Underway
<1>6. CASE NotBegun
  <2>1. 1 \in 1 .. Len(encoded) + 1
    BY <1>1
  <2>2. PICK rest \in Seq(KissBytes) : rest = <<DataCommand>> \o Rests(encoded)[1]
    BY <1>3, <1>4, <2>1, HeadAndTail
  <2>3. line = <<FEND>> \o rest
    BY <1>1, <1>6, <2>2, EncodedFrame DEF NotBegun
  <2>4. Head(line) = FEND /\ line' = rest
    BY <1>2, <1>4, <2>3, HeadAndTail
  <2>5. decoder' = Opened
    BY <1>2, <2>4, FeedEnd
  <2>6. Begun'
    BY <1>2, <2>2, <2>4, <2>5 DEF Begun, Rests, IsRests
  <2> QED BY <2>6 DEF Underway
<1>7. CASE Begun
  <2>1. 1 \in 1 .. Len(encoded) + 1 /\ 0 \in 0 .. Len(encoded) /\ 0 + 1 = 1
    BY <1>1
  <2>2. Head(line) = DataCommand /\ line' = Rests(encoded)[1]
    BY <1>2, <1>3, <1>4, <1>7, <2>1, HeadAndTail DEF Begun
  <2>3. decoder' = Collected(0, FALSE)
    BY <1>1, <1>2, <1>7, <2>2, FeedCommand DEF Begun
  <2> QED BY <1>5, <2>1, <2>2, <2>3
<1>8. ASSUME NEW n \in 0 .. Len(encoded), Amid(n) PROVE Underway'
  <2>1. CASE n = Len(encoded)
    <3>1. line = <<FEND>> /\ SubSeq(encoded, 1, n) = encoded
      BY <1>1, <1>8, <2>1, RestsDef, Beginnings DEF Amid
    <3>2. Head(line) = FEND /\ line' = <<>>
      BY <1>2, <3>1
    <3>3. handed' = encoded
      <4>1. decoder = Collected(n, FALSE)
        BY <1>8 DEF Amid
      <4>2. Feed(FEND)
        BY <1>2, <3>2
      <4> QED BY <3>1, <4>1, <4>2, FeedEnd
    <3>4. Over'
      BY <1>2, <3>2, <3>3 DEF Over
    <3> QED BY <3>4 DEF Underway
  <2>2. CASE n # Len(encoded)
    <3>1. PICK m \in 1 .. Len(encoded) : m = n + 1 /\ m + 1 = n + 2 /\ n < Len(encoded)
      BY <1>1, <2>2
    <3>2. m \in 0 .. Len(encoded) /\ m + 1 \in 1 .. Len(encoded) + 1
      BY <1>1
    <3>3. PICK then \in Seq(KissBytes) : then = Rests(encoded)[m + 1]
      BY <1>3, <3>2
    <3>4. line = Rests(encoded)[m] /\ decoder = Collected(n, FALSE)
      BY <1>8, <3>1 DEF Amid
    <3>5. /\ encoded[m] \notin {FEND, FESC} => line = <<encoded[m]>> \o then
          /\ encoded[m] = FEND => line = <<FESC>> \o (<<TFEND>> \o then)
          /\ encoded[m] = FESC => line = <<FESC>> \o (<<TFESC>> \o then)
      BY <1>1, <3>3, <3>4, RestBegins
    <3>6. CASE encoded[m] \notin {FEND, FESC}
      <4>1. encoded[m] \in KissBytes
        BY <1>1, ElementOfSeq
      <4>2. Head(line) = encoded[m] /\ line' = then
        BY <1>2, <3>5, <3>6, <4>1, HeadAndTail
      <4>3. decoder' = Collected(n + 1, FALSE)
        BY <1>1, <1>2, <3>1, <3>4, <3>6, <4>2, FeedCollects
      <4> QED BY <1>5, <3>1, <3>2, <3>3, <4>2, <4>3
    <3>7. CASE encoded[m] \in {FEND, FESC}
      <4>1. <<TFEND>> \o then \in Seq(KissBytes) /\ <<TFESC>> \o then \in Seq(KissBytes)
        BY <1>4, HeadAndTail
      <4>2. /\ Head(line) = FESC
            /\ encoded[m] = FEND => line' = <<TFEND>> \o then
            /\ encoded[m] = FESC => line' = <<TFESC>> \o then
        <5>1. CASE encoded[m] = FEND
          BY <1>2, <1>4, <3>5, <4>1, <5>1, HeadAndTail, KissBytesDiffer
        <5>2. CASE encoded[m] = FESC
          BY <1>2, <1>4, <3>5, <4>1, <5>2, HeadAndTail, KissBytesDiffer
        <5> QED BY <3>7, <5>1, <5>2
      <4>3. decoder' = Collected(n, TRUE)
        BY <1>1, <1>2, <3>1, <3>4, <4>2, FeedCollects
      <4>4. InEscape(n)'
        BY <1>2, <3>1, <3>3, <3>7, <4>2, <4>3 DEF InEscape, Collected, Rests, IsRests
      <4> QED BY <1>2, <4>4 DEF Underway
    <3> QED BY <3>6, <3>7
  <2> QED BY <2>1, <2>2
<1>9. ASSUME NEW n \in 0 .. Len(encoded), InEscape(n) PROVE Underway'
  <2>1. PICK m \in 1 .. Len(encoded) : m = n + 1 /\ m + 1 = n + 2 /\ n < Len(encoded)
    BY <1>1, <1>9 DEF InEscape
  <2>2. m \in 0 .. Len(encoded) /\ m + 1 \in 1 .. Len(encoded) + 1
    BY <1>1
  <2>3. PICK then \in Seq(KissBytes) : then = Rests(encoded)[m + 1]
    BY <1>3, <2>2
  <2>4. /\ decoder = Collected(n, TRUE)
        /\ \/ encoded[n + 1] = FEND /\ line = <<TFEND>> \o then
           \/ encoded[n + 1] = FESC /\ line = <<TFESC>> \o then
    BY <1>9, <2>1, <2>3 DEF InEscape
  <2>5. CASE encoded[n + 1] = FEND /\ line = <<TFEND>> \o then
    <3>1. Head(line) = TFEND /\ line' = then
      BY <1>2, <1>4, <2>5, HeadAndTail
    <3>2. decoder' = Collected(n + 1, FALSE)
      BY <1>1, <1>2, <2>1, <2>4, <2>5, <3>1, FeedCollects
    <3> QED BY <1>5, <2>1, <2>2, <2>3, <3>1, <3>2
  <2>6. CASE encoded[n + 1] = FESC /\ line = <<TFESC>> \o then
    <3>1. Head(line) = TFESC /\ line' = then
      BY <1>2, <1>4, <2>6, HeadAndTail
    <3>2. decoder' = Collected(n + 1, FALSE)
      BY <1>1, <1>2, <2>1, <2>4, <2>6, <3>1, FeedCollects
    <3> QED BY <1>5, <2>1, <2>2, <2>3, <3>1, <3>2
  <2> QED BY <2>4, <2>5, <2>6
<1>10. ~Over
  BY <1>2 DEF Over
<1>11. Underway
  BY DEF KissInv
<1> QED BY <1>6, <1>7, <1>8, <1>9, <1>10, <1>11 DEF Underway

\* The largest packet, were all its bytes escaped, takes twice its size and three
\* bytes more.
LEMMA LargestFits ==
    ASSUME NEW n \in 1 .. MaxPacket
    PROVE  Encode([i \in 1 .. n |-> FEND]) # <<>>
<1> DEFINE payload == [i \in 1 .. n |-> FEND]
           E == EscapedBytes(payload)
           P == {m \in Nat : m <= n => Len(E[m]) = m + m}
<1>1. n \in Nat /\ n # 0 /\ MaxPacket \in Nat /\ n <= MaxPacket
  BY KissAssumption
<1>2. FEND \in KissBytes /\ FESC \in KissBytes /\ TFEND \in KissBytes /\ DataCommand \in KissBytes
  BY DEF KissBytes
<1>3. payload \in Seq(KissBytes) /\ Len(payload) = n /\ payload # <<>> /\ \A i \in 1 .. n : payload[i] = FEND
  <2>1. payload \in [1 .. n -> KissBytes]
    BY <1>2
  <2>2. payload \in Seq(KissBytes) /\ Len(payload) = n
    BY <1>1, <2>1
  <2> QED BY <1>1, <2>2, EmptySeq
<1> HIDE DEF payload
<1>4. /\ E[0] = <<>> /\ \A m \in 1 .. n : E[m] = E[m - 1] \o Escaped(payload[m])
      /\ \A m \in 0 .. n : E[m] \in Seq(KissBytes)
  BY <1>3, EscapedBytesDef
<1> HIDE DEF E
<1>5. 0 \in P
  BY <1>4, EmptySeq
<1>6. ASSUME NEW m \in Nat, m \in P PROVE m + 1 \in P
  <2> SUFFICES ASSUME m + 1 <= n PROVE Len(E[m + 1]) = m + 1 + (m + 1)
    OBVIOUS
  <2>1. PICK k \in 1 .. n : k = m + 1 /\ k - 1 = m /\ m \in 0 .. n
    BY <1>1
  <2>2. E[k] = E[k - 1] \o Escaped(payload[k]) /\ payload[k] = FEND
    BY <1>3, <1>4
  <2>3. Escaped(FEND) = <<FESC, TFEND>>
    BY KissBytesDiffer DEF Escaped
  <2>4. PICK two \in Seq(KissBytes) : two = <<FESC, TFEND>> /\ Len(two) = 2
    <3>1. <<FESC, TFEND>> \in Seq(KissBytes) /\ Len(<<FESC, TFEND>>) = 2
      BY <1>2
    <3> QED BY <3>1
  <2>5. E[k] = E[m] \o two
    BY <2>1, <2>2, <2>3, <2>4
  <2>6. E[m] \in Seq(KissBytes) /\ Len(E[m]) = m + m
    BY <1>4, <1>6, <2>1
  <2>7. Len(E[k]) = Len(E[m]) + Len(two)
    BY <2>5, <2>6, ConcatProperties
  <2> QED BY <2>1, <2>4, <2>6, <2>7
<1>7. Len(E[n]) = n + n
  <2>1. \A m \in Nat : m \in P
    <3> HIDE DEF P
    <3> QED BY <1>5, <1>6, Upwards
  <2> QED BY <1>1, <2>1
<1>8. PICK bytes : bytes = <<FEND, DataCommand>> \o E[n] \o <<FEND>>
  OBVIOUS
<1>9. Len(bytes) = 2 + (n + n) + 1
  <2>1. PICK both \in Seq(KissBytes), end \in Seq(KissBytes) :
           both = <<FEND, DataCommand>> /\ end = <<FEND>> /\ Len(both) = 2 /\ Len(end) = 1
    <3>1. /\ <<FEND, DataCommand>> \in Seq(KissBytes) /\ Len(<<FEND, DataCommand>>) = 2
          /\ <<FEND>> \in Seq(KissBytes) /\ Len(<<FEND>>) = 1
      BY <1>2
    <3> QED BY <3>1
  <2>2. n \in 0 .. n
    BY <1>1
  <2>3. PICK start \in Seq(KissBytes) : start = both \o E[n] /\ Len(start) = Len(both) + Len(E[n])
    <3>1. PICK e \in Seq(KissBytes) : e = E[n]
      BY <1>4, <2>2
    <3>2. both \o e \in Seq(KissBytes) /\ Len(both \o e) = Len(both) + Len(e)
      BY ConcatProperties
    <3> QED BY <3>1, <3>2
  <2>4. bytes = start \o end /\ Len(start \o end) = Len(start) + Len(end)
    BY <1>8, <2>1, <2>3, ConcatProperties
  <2> QED BY <1>1, <1>7, <2>1, <2>3, <2>4
<1>10. bytes # <<>> /\ Len(bytes) <= EncodeBuffer
  <2>1. Len(bytes) # 0 /\ Len(bytes) <= EncodeBuffer
    BY <1>1, <1>9 DEF EncodeBuffer
  <2> QED BY <2>1, EmptySeq
<1>11. Encode(payload) = IF payload = <<>> \/ Len(bytes) > EncodeBuffer THEN <<>> ELSE bytes
  BY <1>3, <1>8 DEF Encode, E
<1>12. ~(Len(bytes) > EncodeBuffer)
  BY <1>1, <1>9, <1>10 DEF EncodeBuffer
<1>13. Encode(payload) # <<>>
  BY <1>3, <1>10, <1>11, <1>12
<1> QED BY <1>13 DEF payload

\* lm_kiss_decoder_feed() after lm_kiss_encode(): the next frame that comes
\* through unbroken is handed over as it was encoded, whatever came before it; no
\* packet outgrows its array, and each of up to the maximum fits the buffer it is
\* encoded in, for every six bytes and every maximum.
THEOREM NextFrameAlwaysArrives ==
    KissSpec => []NextFrameArrives
<1>1. KissInit => KissInv
  <2> SUFFICES ASSUME KissInit PROVE KissInv
    OBVIOUS
  <2>1. Reset \in KissDecoders /\ Reset.data = <<>> /\ Len(<<>>) = 0
    BY EmptySeq DEF Reset, KissDecoders
  <2>2. decoder = Reset /\ line = <<>> /\ encoded = <<>>
    BY DEF KissInit
  <2>3. Len(decoder.data) = 0 /\ 0 <= MaxPacket
    BY <2>1, <2>2, KissAssumption
  <2> QED BY <2>1, <2>2, <2>3, EmptySeq DEF KissInv
<1>2. KissInv /\ [KissNext]_kissVars => KissInv'
  <2> SUFFICES ASSUME KissInv, [KissNext]_kissVars PROVE KissInv'
    OBVIOUS
  <2>1. CASE ReceiveByte
    <3>1. line # <<>> /\ Feed(Head(line)) /\ line' = Tail(line) /\ encoded' = encoded
      BY <2>1 DEF ReceiveByte
    <3>2. line \in Seq(KissBytes)
      BY DEF KissInv
    <3>3. Head(line) \in KissBytes /\ line' \in Seq(KissBytes)
      BY <3>1, <3>2, HeadTailProperties
    <3>4. decoder' \in KissDecoders /\ Len(decoder'.data) <= MaxPacket
      BY <3>1, <3>3, FeedBounded DEF KissInv
    <3>5. encoded # <<>> => Underway'
      BY <2>1, ReceiveUnderway
    <3> QED BY <3>1, <3>3, <3>4, <3>5 DEF KissInv
  <2>2. CASE UNCHANGED kissVars
    BY <2>2 DEF kissVars, KissInv, Underway, NotBegun, Begun, Amid, InEscape, Over, Collected,
                Rests, IsRests
  <2> QED BY <2>1, <2>2, TransmitUnderway, NoiseBreaks DEF KissNext
<1>3. KissInv => NextFrameArrives
  <2> SUFFICES ASSUME KissInv, encoded # <<>>, line = <<>> PROVE handed = encoded
    BY LargestFits DEF NextFrameArrives, KissInv
  <2>1. encoded \in Seq(KissBytes) /\ Len(encoded) \in Nat /\ Encode(encoded) # <<>> /\ Underway
    BY LenProperties DEF KissInv
  <2>2. FEND \in KissBytes /\ FESC \in KissBytes /\ TFEND \in KissBytes /\ TFESC \in KissBytes
        /\ DataCommand \in KissBytes
    BY DEF KissBytes
  <2>3. \A i \in 1 .. Len(encoded) + 1 : Rests(encoded)[i] \in Seq(KissBytes)
    BY <2>1, RestsDef
  <2>4. ~NotBegun
    BY <2>1 DEF NotBegun
  <2>5. ~Begun
    <3>1. 1 \in 1 .. Len(encoded) + 1
      BY <2>1
    <3> QED BY <2>2, <2>3, <3>1, HeadAndTail DEF Begun
  <2>6. ASSUME NEW n \in 0 .. Len(encoded) PROVE ~Amid(n)
    <3>1. CASE n = Len(encoded)
      <4>1. Rests(encoded)[n + 1] = <<FEND>>
        BY <2>1, <3>1, RestsDef
      <4>2. <<FEND>> # <<>>
        OBVIOUS
      <4> QED BY <4>1, <4>2 DEF Amid
    <3>2. CASE n # Len(encoded)
      <4>1. n + 1 \in 1 .. Len(encoded) /\ n + 1 + 1 \in 1 .. Len(encoded) + 1
        BY <2>1, <3>2
      <4>2. PICK e \in Seq(KissBytes), then \in Seq(KissBytes) :
               e = Escaped(encoded[n + 1]) /\ then = Rests(encoded)[n + 1 + 1] /\ Len(e) \in 1 .. 2
        BY <2>1, <2>3, <4>1, ElementOfSeq, EscapedType
      <4>3. Rests(encoded)[n + 1] = e \o then
        BY <2>1, <4>1, <4>2, RestsDef
      <4>4. e \o then # <<>>
        <5>1. Len(e \o then) = Len(e) + Len(then) /\ Len(then) \in Nat
          BY ConcatProperties, LenProperties
        <5>2. PICK size \in 1 .. 2, rest \in Nat :
                 size = Len(e) /\ rest = Len(then) /\ Len(e \o then) = size + rest
          BY <4>2, <5>1
        <5>3. size + rest # 0
          OBVIOUS
        <5> QED BY <5>2, <5>3, EmptySeq
      <4> QED BY <4>3, <4>4 DEF Amid
    <3> QED BY <3>1, <3>2
  <2>7. ASSUME NEW n \in 0 .. Len(encoded) PROVE ~InEscape(n)
    <3>1. CASE n < Len(encoded)
      <4>1. n + 2 \in 1 .. Len(encoded) + 1
        BY <2>1, <3>1
      <4> QED BY <2>2, <2>3, <4>1, HeadAndTail DEF InEscape
    <3>2. CASE ~(n < Len(encoded))
      BY <3>2 DEF InEscape
    <3> QED BY <3>1, <3>2
  <2> QED BY <2>1, <2>4, <2>5, <2>6, <2>7 DEF Underway, Over
<1> QED BY <1>1, <1>2, <1>3, PTL DEF KissSpec
-----------------------------------------------------------------------------
(* A delta leads from its base to its result, when there is room for all     *)
(* fields; on an orderly link no delta is refused then.                       *)

Ascending(order) == \A i, j \in DOMAIN order : i < j => order[i] < order[j]

\* Every set of field identifiers has an ascending order: the least one comes
\* before those of the others.
LEMMA OrderExists ==
    ASSUME NEW S \in SUBSET Nat, IsFiniteSet(S)
    PROVE  \E order \in SetToSeqs(S) : Ascending(order)
<1> DEFINE P == {n \in Nat : \A T \in SUBSET Nat : IsFiniteSet(T) /\ Cardinality(T) = n =>
                                \E order \in [1 .. n -> T] : Ascending(order)}
<1>1. 0 \in P
  <2> SUFFICES ASSUME NEW T \in SUBSET Nat, IsFiniteSet(T), Cardinality(T) = 0
               PROVE  \E order \in [1 .. 0 -> T] : Ascending(order)
    OBVIOUS
  <2> DEFINE none == [i \in 1 .. 0 |-> 0]
  <2>1. none \in [1 .. 0 -> T] /\ Ascending(none)
    BY DEF Ascending
  <2> QED BY <2>1
<1>2. ASSUME NEW n \in Nat, n \in P PROVE n + 1 \in P
  <2> SUFFICES ASSUME NEW T \in SUBSET Nat, IsFiniteSet(T), Cardinality(T) = n + 1
               PROVE  \E order \in [1 .. n + 1 -> T] : Ascending(order)
    OBVIOUS
  <2>1. T # {}
    BY FS_EmptySet
  <2>2. PICK m \in T : \A x \in T : m <= x
    BY <2>1, LeastExists
  <2>3. IsFiniteSet(T \ {m}) /\ Cardinality(T \ {m}) = n /\ T \ {m} \in SUBSET Nat
    BY FS_RemoveElement
  <2>4. PICK rest \in [1 .. n -> T \ {m}] : Ascending(rest)
    BY <1>2, <2>3
  <2> DEFINE order == [i \in 1 .. n + 1 |-> IF i = 1 THEN m ELSE rest[i - 1]]
  <2>5. \A i \in 1 .. n + 1 : i # 1 => i - 1 \in 1 .. n
    OBVIOUS
  <2>6. \A i \in 1 .. n : rest[i] \in T /\ m < rest[i]
    <3>1. \A i \in 1 .. n : rest[i] \in T /\ rest[i] # m
      OBVIOUS
    <3>2. \A x \in T : x # m => m < x
      BY <2>2
    <3> QED BY <3>1, <3>2
  <2>7. order \in [1 .. n + 1 -> T]
    BY <2>5, <2>6
  <2>8. ASSUME NEW i \in 1 .. n + 1, NEW j \in 1 .. n + 1, i < j PROVE order[i] < order[j]
    <3>1. j # 1 /\ j - 1 \in 1 .. n /\ order[j] = rest[j - 1]
      BY <2>8
    <3>2. CASE i = 1
      BY <2>6, <3>1, <3>2
    <3>3. CASE i # 1
      <4>1. i - 1 \in 1 .. n /\ i - 1 < j - 1 /\ order[i] = rest[i - 1]
        BY <2>8, <3>3
      <4> QED BY <2>4, <3>1, <4>1 DEF Ascending
    <3> QED BY <3>2, <3>3
  <2>9. Ascending(order)
    BY <2>8 DEF Ascending
  <2> HIDE DEF order
  <2> QED BY <2>7, <2>9
<1>3. Cardinality(S) \in P
  <2> HIDE DEF P
  <2> QED BY <1>1, <1>2, Upwards, FS_CardinalityType
<1>4. PICK order \in [1 .. Cardinality(S) -> S] : Ascending(order)
  BY <1>3
<1>5. ASSUME NEW i \in 1 .. Cardinality(S), NEW j \in 1 .. Cardinality(S), i # j
      PROVE  order[i] # order[j]
  <2>1. Cardinality(S) \in Nat /\ DOMAIN order = 1 .. Cardinality(S)
    BY FS_CardinalityType
  <2>2. order[i] \in Nat /\ order[j] \in Nat
    OBVIOUS
  <2>3. CASE i < j
    BY <1>4, <2>1, <2>2, <2>3 DEF Ascending
  <2>4. CASE j < i
    BY <1>4, <2>1, <2>2, <2>4 DEF Ascending
  <2> QED BY <1>5, <2>1, <2>3, <2>4
<1> QED BY <1>4, <1>5 DEF SetToSeqs

\* It lists every field, and none of them twice.
LEMMA OrderLists ==
    ASSUME NEW S \in SUBSET Nat, IsFiniteSet(S), NEW order, order = InOrder(S)
    PROVE  /\ DOMAIN order = 1 .. Cardinality(S)
           /\ \A i \in DOMAIN order : order[i] \in S
           /\ \A i, j \in DOMAIN order : i # j => order[i] # order[j]
           /\ \A field \in S : \E i \in DOMAIN order : order[i] = field
<1>1. order \in SetToSeqs(S)
  BY OrderExists DEF InOrder, Ascending
<1>2. /\ order \in [1 .. Cardinality(S) -> S] /\ Cardinality(S) \in Nat
      /\ \A i, j \in 1 .. Cardinality(S) : i # j => order[i] # order[j]
  BY <1>1, FS_CardinalityType DEF SetToSeqs
<1>3. order \in Injection(1 .. Cardinality(S), S)
  BY <1>2 DEF Injection, IsInjective
<1>4. Cardinality(1 .. Cardinality(S)) = Cardinality(S)
  BY <1>2, FS_Interval
<1>5. order \in Surjection(1 .. Cardinality(S), S)
  BY <1>3, <1>4, FS_Injection
<1> QED BY <1>2, <1>5 DEF Surjection

\* The fold of apply(), over sets of positions.
FoldsOn(g, base, seq, D) ==
    g = [s \in D |-> IF s = {} THEN base
                     ELSE Updating(g[s \ {Max(s)}], seq[Max(s)])]

\* What apply() makes of a state.
Made(base, seq) == FoldLeft(Updating, base, seq)

\* The largest position of some, if it is one of them.
LEMMA MaxIs ==
    ASSUME NEW n \in Nat, NEW s \in SUBSET (1 .. n + 1), n + 1 \in s
    PROVE  Max(s) = n + 1
<1>1. \A y \in s : n + 1 >= y
  OBVIOUS
<1>2. \E x \in s : \A y \in s : x >= y
  BY <1>1
<1>3. Max(s) \in s /\ \A y \in s : Max(s) >= y
  BY <1>2 DEF Max
<1>4. Max(s) \in 1 .. n + 1 /\ Max(s) >= n + 1
  BY <1>3
<1> QED BY <1>4

\* The fold exists, one position after the other.
LEMMA FoldExists ==
    ASSUME NEW n \in Nat, NEW base, NEW seq
    PROVE  \E g : FoldsOn(g, base, seq, SUBSET (1 .. n))
<1> DEFINE P == {k \in Nat : \E g : FoldsOn(g, base, seq, SUBSET (1 .. k))}
<1>1. 0 \in P
  <2>1. \A s \in SUBSET (1 .. 0) : s = {}
    OBVIOUS
  <2>2. FoldsOn([s \in SUBSET (1 .. 0) |-> base], base, seq, SUBSET (1 .. 0))
    BY <2>1 DEF FoldsOn
  <2> QED BY <2>2
<1>2. ASSUME NEW k \in Nat, k \in P PROVE k + 1 \in P
  <2>1. PICK g : FoldsOn(g, base, seq, SUBSET (1 .. k))
    BY <1>2
  <2> DEFINE h == [s \in SUBSET (1 .. k + 1) |->
                     IF s = {} THEN base
                     ELSE IF k + 1 \in s THEN Updating(g[s \ {k + 1}], seq[k + 1])
                     ELSE g[s]]
  <2>2. ASSUME NEW s \in SUBSET (1 .. k) PROVE s \in SUBSET (1 .. k + 1) /\ h[s] = g[s]
    <3>1. s \in SUBSET (1 .. k + 1) /\ k + 1 \notin s
      OBVIOUS
    <3>2. s = {} => g[s] = base
      BY <2>1 DEF FoldsOn
    <3> QED BY <3>1, <3>2
  <2>3. ASSUME NEW s \in SUBSET (1 .. k + 1), s # {}
        PROVE  h[s] = Updating(h[s \ {Max(s)}], seq[Max(s)])
    <3>1. CASE k + 1 \in s
      <4>1. Max(s) = k + 1
        BY <3>1, MaxIs
      <4>2. s \ {k + 1} \in SUBSET (1 .. k)
        OBVIOUS
      <4>3. h[s \ {k + 1}] = g[s \ {k + 1}]
        BY <2>2, <4>2
      <4> QED BY <2>3, <3>1, <4>1, <4>3
    <3>2. CASE k + 1 \notin s
      <4>1. s \in SUBSET (1 .. k) /\ s \ {Max(s)} \in SUBSET (1 .. k)
        <5>1. \A i \in s : i \in 1 .. k + 1 /\ i # k + 1
          BY <3>2
        <5>2. \A i \in s : i \in 1 .. k
          BY <5>1
        <5> QED BY <5>2
      <4>2. h[s] = g[s] /\ h[s \ {Max(s)}] = g[s \ {Max(s)}]
        BY <2>2, <4>1
      <4>3. g[s] = Updating(g[s \ {Max(s)}], seq[Max(s)])
        BY <2>1, <2>3, <4>1 DEF FoldsOn
      <4> QED BY <4>2, <4>3
    <3> QED BY <3>1, <3>2
  <2>4. h[{}] = base
    OBVIOUS
  <2>5. h = [s \in SUBSET (1 .. k + 1) |-> h[s]]
    OBVIOUS
  <2>6. FoldsOn(h, base, seq, SUBSET (1 .. k + 1))
    <3> HIDE DEF h
    <3> QED BY <2>3, <2>4, <2>5 DEF FoldsOn
  <2> QED BY <2>6
<1> HIDE DEF P
<1>3. n \in P
  BY <1>1, <1>2, Upwards
<1> QED BY <1>3 DEF P

\* What apply() makes of a state, update by update.
LEMMA FoldByUpdates ==
    ASSUME NEW n \in Nat, NEW base, NEW seq, DOMAIN seq = 1 .. n
    PROVE  \E made : /\ made[0] = base
                     /\ \A k \in 1 .. n : made[k] = Updating(made[k - 1], seq[k])
                     /\ Made(base, seq) = made[n]
<1> DEFINE Folded == CHOOSE g : FoldsOn(g, base, seq, SUBSET (1 .. n))
           made == [k \in 0 .. n |-> Folded[1 .. k]]
<1>1. FoldsOn(Folded, base, seq, SUBSET (1 .. n))
  BY FoldExists
<1>2. Made(base, seq) = Folded[1 .. n]
  BY DEF Made, FoldLeft, MapThenFoldSet, FoldsOn
<1> HIDE DEF Folded
<1>3. made[0] = base
  <2>1. 1 .. 0 = {} /\ {} \in SUBSET (1 .. n)
    OBVIOUS
  <2> QED BY <1>1, <2>1 DEF FoldsOn
<1>4. ASSUME NEW k \in 1 .. n PROVE made[k] = Updating(made[k - 1], seq[k])
  <2>1. 1 .. k \in SUBSET (1 .. n) /\ 1 .. k # {}
    <3>1. k \in 1 .. k /\ \A i \in 1 .. k : i \in 1 .. n
      OBVIOUS
    <3> QED BY <3>1
  <2>2. Max(1 .. k) = k
    <3>1. k - 1 \in Nat /\ (k - 1) + 1 = k /\ k \in 1 .. k
      OBVIOUS
    <3> QED BY <3>1, MaxIs
  <2>3. (1 .. k) \ {k} = 1 .. k - 1
    OBVIOUS
  <2>4. Folded[1 .. k] = Updating(Folded[1 .. k - 1], seq[k])
    BY <1>1, <2>1, <2>2, <2>3 DEF FoldsOn
  <2> QED BY <2>4
<1> HIDE DEF made
<1>5. Made(base, seq) = made[n]
  BY <1>2 DEF made
<1> QED BY <1>3, <1>4, <1>5

(* Halfway through the updates of a delta: the fields done have their new    *)
(* values, or are gone, and the others are as they were.                     *)
Halfway(before, after, done) ==
    [field \in (DOMAIN before \ done) \cup (DOMAIN after \cap done) |->
        IF field \in done THEN after[field] ELSE before[field]]

\* One update more is one field more, as long as there is room for it.
LEMMA UpdatingOne ==
    ASSUME NEW before \in States, NEW after \in States, IsFiniteSet(Fields),
           Cardinality(DOMAIN before \cup DOMAIN after) <= MaxFields,
           NEW done \in SUBSET Fields, NEW field \in Fields \ done
    PROVE  Updating(Halfway(before, after, done), Update(field, after))
             = Halfway(before, after, done \cup {field})
<1> DEFINE half == Halfway(before, after, done)
           more == Halfway(before, after, done \cup {field})
           B == DOMAIN before
           A == DOMAIN after
<1>1. A \subseteq Fields /\ B \subseteq Fields
  BY DEF States
<1>2. DOMAIN half = (B \ done) \cup (A \cap done) /\ 0 \notin DOMAIN half
  BY <1>1, StateAssumption DEF Halfway
<1>3. half # Refused
  <2>1. DOMAIN Refused = {0}
    BY DEF Refused
  <2> QED BY <1>2, <2>1
<1>4. DOMAIN more = (B \ (done \cup {field})) \cup (A \cap (done \cup {field}))
  BY DEF Halfway
<1>5. \A f \in DOMAIN half : half[f] = IF f \in done THEN after[f] ELSE before[f]
  BY DEF Halfway
<1>6. more = [f \in DOMAIN more |-> IF f \in done \cup {field} THEN after[f] ELSE before[f]]
  BY DEF Halfway
<1>7. /\ Update(field, after).field = field
      /\ Update(field, after).value = IF field \in A THEN {after[field]} ELSE {}
  BY DEF Update
<1>8. CASE field \notin A
  <2>1. Updating(half, Update(field, after)) = RemoveField(half, field)
    BY <1>3, <1>7, <1>8 DEF Updating
  <2>2. DOMAIN more = DOMAIN half \ {field}
    BY <1>2, <1>4, <1>8
  <2>3. \A f \in DOMAIN more : half[f] = IF f \in done \cup {field} THEN after[f] ELSE before[f]
    BY <1>5, <2>2
  <2> HIDE DEF half, more
  <2>4. RemoveField(half, field) = [f \in DOMAIN more |-> half[f]]
    BY <2>2 DEF RemoveField
  <2>5. RemoveField(half, field) = more
    BY <1>6, <2>3, <2>4
  <2> QED BY <2>1, <2>5 DEF half, more
<1>9. CASE field \in A
  <2>1. Updating(half, Update(field, after)) = SetField(half, field, after[field])
    <3>1. Update(field, after).value # {} /\ (CHOOSE v \in {after[field]} : TRUE) = after[field]
      BY <1>7, <1>9
    <3>2. (CHOOSE v \in Update(field, after).value : TRUE) = after[field]
      BY <1>7, <1>9, <3>1
    <3> HIDE DEF half
    <3> QED BY <1>3, <1>7, <3>1, <3>2 DEF Updating
  <2>2. ~ (field \notin DOMAIN half /\ Cardinality(DOMAIN half) = MaxFields)
    <3> SUFFICES ASSUME field \notin DOMAIN half PROVE Cardinality(DOMAIN half) # MaxFields
      OBVIOUS
    <3>1. DOMAIN half \cup {field} \subseteq A \cup B
      BY <1>2, <1>9
    <3>2. IsFiniteSet(A \cup B) /\ IsFiniteSet(DOMAIN half)
      <4>1. A \cup B \subseteq Fields /\ DOMAIN half \subseteq Fields
        BY <1>1, <1>2
      <4> HIDE DEF half, A, B
      <4> QED BY <4>1, FS_Subset
    <3>3. Cardinality(DOMAIN half \cup {field}) = Cardinality(DOMAIN half) + 1
      BY <3>2, FS_AddElement
    <3>4. Cardinality(DOMAIN half \cup {field}) <= Cardinality(A \cup B)
      <4> HIDE DEF half, A, B
      <4> QED BY <3>1, <3>2, FS_Subset
    <3>5. A \cup B = B \cup A
      OBVIOUS
    <3>6. Cardinality(A \cup B) <= MaxFields /\ Cardinality(A \cup B) \in Nat
      BY <3>2, <3>5, FS_CardinalityType
    <3>7. Cardinality(DOMAIN half) \in Nat
      BY <3>2, FS_CardinalityType
    <3> HIDE DEF half, A, B
    <3> QED BY <3>3, <3>4, <3>6, <3>7, StateAssumption
  <2>3. SetField(half, field, after[field])
          = [f \in DOMAIN half \cup {field} |-> IF f = field THEN after[field] ELSE half[f]]
    <3> HIDE DEF half
    <3> QED BY <2>2 DEF SetField
  <2>4. DOMAIN more = DOMAIN half \cup {field}
    BY <1>2, <1>4, <1>9
  <2>5. \A f \in DOMAIN more : (IF f = field THEN after[field] ELSE half[f])
                               = IF f \in done \cup {field} THEN after[f] ELSE before[f]
    BY <1>5, <2>4
  <2> HIDE DEF half, more
  <2>6. SetField(half, field, after[field]) = more
    BY <1>6, <2>3, <2>4, <2>5
  <2> QED BY <2>1, <2>6 DEF half, more
<1> QED BY <1>8, <1>9

\* What between() makes of two states, apply() turns the first one back into
\* the second with, if there is room for the fields of both.
LEMMA AppliesWithRoom ==
    ASSUME NEW before \in States, NEW after \in States,
           Cardinality(DOMAIN before \cup DOMAIN after) <= MaxFields
    PROVE  Apply(Between(before, after), before) = after
<1> DEFINE U == Updated(before, after)
           order == InOrder(U)
           delta == Between(before, after)
           n == Cardinality(U)
           Done(k) == {order[i] : i \in 1 .. k}
<1>1. DOMAIN after \subseteq Fields /\ DOMAIN before \subseteq Fields
  BY DEF States
<1>2. U \subseteq DOMAIN before \cup DOMAIN after
  BY DEF Updated, Deleted, Assigned
<1>3. U \in SUBSET Nat /\ IsFiniteSet(U) /\ n \in Nat /\ n <= MaxFields
  <2>1. IsFiniteSet(DOMAIN before \cup DOMAIN after)
    BY <1>1, FS_Subset, StateAssumption, DOMAIN before \cup DOMAIN after \subseteq Fields
  <2>2. IsFiniteSet(U) /\ n <= Cardinality(DOMAIN before \cup DOMAIN after)
    <3> HIDE DEF U
    <3> QED BY <1>2, <2>1, FS_Subset
  <2>3. n \in Nat /\ Cardinality(DOMAIN before \cup DOMAIN after) \in Nat
    BY <2>1, <2>2, FS_CardinalityType
  <2>4. U \in SUBSET Nat
    BY <1>1, <1>2, StateAssumption
  <2> HIDE DEF U, n
  <2> QED BY <2>2, <2>3, <2>4, StateAssumption
<1>4. /\ DOMAIN order = 1 .. n
      /\ \A i \in 1 .. n : order[i] \in U
      /\ \A i, j \in 1 .. n : i # j => order[i] # order[j]
      /\ \A field \in U : \E i \in 1 .. n : order[i] = field
  BY <1>3, OrderLists
<1>5. /\ delta.base = before /\ delta.result = after
      /\ delta.updates = [k \in 1 .. n |-> Update(order[k], after)]
  BY <1>4 DEF Between
<1>6. PICK made : /\ made[0] = before
                  /\ \A k \in 1 .. n : made[k] = Updating(made[k - 1], delta.updates[k])
                  /\ Made(before, delta.updates) = made[n]
  <2>1. DOMAIN delta.updates = 1 .. n
    BY <1>5
  <2>2. PICK seq : seq = delta.updates
    OBVIOUS
  <2>3. DOMAIN seq = 1 .. n /\ n \in Nat
    BY <1>3, <2>1, <2>2
  <2> HIDE DEF delta, n, U
  <2>4. \E made : /\ made[0] = before
                  /\ \A k \in 1 .. n : made[k] = Updating(made[k - 1], seq[k])
                  /\ Made(before, seq) = made[n]
    BY <2>3, FoldByUpdates
  <2> QED BY <2>2, <2>4
<1> HIDE DEF order, delta, n
<1> DEFINE P == {k \in Nat : k <= n => made[k] = Halfway(before, after, Done(k))}
<1>7. 0 \in P
  <2>1. Done(0) = {}
    OBVIOUS
  <2>2. Halfway(before, after, {}) = before
    <3>1. before = [field \in DOMAIN before |-> before[field]]
      BY DEF States
    <3> QED BY <3>1 DEF Halfway
  <2> QED BY <1>6, <2>1, <2>2
<1>8. ASSUME NEW k \in Nat, k \in P PROVE k + 1 \in P
  <2> SUFFICES ASSUME k + 1 <= n PROVE made[k + 1] = Halfway(before, after, Done(k + 1))
    OBVIOUS
  <2>1. /\ k <= n /\ k + 1 \in 1 .. n /\ (k + 1) - 1 = k
        /\ \A i \in 1 .. k : i \in 1 .. n /\ i # k + 1
    BY <1>3
  <2>2. made[k] = Halfway(before, after, Done(k))
    BY <1>8, <2>1
  <2>3. made[k + 1] = Updating(made[k], Update(order[k + 1], after))
    BY <1>5, <1>6, <2>1
  <2>4. Done(k) \in SUBSET Fields /\ order[k + 1] \in Fields \ Done(k)
    <3>1. U \subseteq Fields
      BY <1>1, <1>2
    <3>2. \A i \in 1 .. k : order[i] \in Fields /\ order[i] # order[k + 1]
      BY <1>4, <2>1, <3>1
    <3> QED BY <1>4, <2>1, <3>1, <3>2
  <2>5. Done(k + 1) = Done(k) \cup {order[k + 1]}
    <3>1. 1 .. k + 1 = 1 .. k \cup {k + 1}
      OBVIOUS
    <3> QED BY <3>1
  <2> HIDE DEF Done
  <2>6. Updating(Halfway(before, after, Done(k)), Update(order[k + 1], after))
          = Halfway(before, after, Done(k) \cup {order[k + 1]})
    <3>1. /\ before \in States /\ after \in States /\ IsFiniteSet(Fields)
          /\ Cardinality(DOMAIN before \cup DOMAIN after) <= MaxFields
      BY StateAssumption
    <3>2. PICK done \in SUBSET Fields, field \in Fields :
             done = Done(k) /\ field = order[k + 1] /\ field \notin done
      BY <2>4
    <3>3. Updating(Halfway(before, after, done), Update(field, after))
            = Halfway(before, after, done \cup {field})
      BY ONLY <3>1, <3>2, UpdatingOne
    <3> QED BY <3>2, <3>3
  <2> QED BY ONLY <2>2, <2>3, <2>5, <2>6
<1>9. made[n] = Halfway(before, after, Done(n))
  <2>1. n \in P
    <3> HIDE DEF P
    <3> QED BY <1>3, <1>7, <1>8, Upwards
  <2> QED BY <1>3, <2>1
<1>10. Done(n) = U
  BY <1>4
<1>11. Halfway(before, after, U) = after
  <2>1. after = [field \in DOMAIN after |-> after[field]]
    BY DEF States
  <2>2. (DOMAIN before \ U) \cup (DOMAIN after \cap U) = DOMAIN after
    BY DEF Updated, Deleted, Assigned
  <2>3. \A field \in DOMAIN after \ U : before[field] = after[field]
    BY DEF Updated, Deleted, Assigned
  <2> HIDE DEF U
  <2>4. Halfway(before, after, U)
          = [field \in DOMAIN after |-> IF field \in U THEN after[field] ELSE before[field]]
    BY <2>2 DEF Halfway
  <2> QED BY <2>1, <2>3, <2>4
<1>12. Len(delta.updates) = n
  BY <1>3, <1>5
<1> HIDE DEF U
<1> QED BY <1>3, <1>5, <1>6, <1>9, <1>10, <1>11, <1>12
        DEF Apply, Valid, Matches, Checks, Made, delta

\* A delta of the history applies to the state it starts from, if it fits.
LEMMA DeltaApplies ==
    ASSUME SyncInv, NEW k \in 1 .. Len(wire), held = history[wire[k]], FitsInOne(wire[k])
    PROVE  /\ Apply(Delta(wire[k]), held) = history[wire[k] + 1]
           /\ Apply(Delta(wire[k]), held) # Refused
<1>1. wire \in Seq(1 .. Len(history) - 1) /\ history \in Seq(States) /\ Len(history) \in Nat
  BY DEF SyncInv
<1>2. wire[k] \in 1 .. Len(history) - 1
  BY <1>1, ElementOfSeq
<1>3. wire[k] \in 1 .. Len(history) /\ wire[k] + 1 \in 1 .. Len(history)
  BY <1>1, <1>2
<1>4. history[wire[k]] \in States /\ history[wire[k] + 1] \in States
  BY <1>1, <1>3, ElementOfSeq
<1>5. Apply(Between(history[wire[k]], history[wire[k] + 1]), history[wire[k]])
         = history[wire[k] + 1]
  BY <1>4, AppliesWithRoom DEF FitsInOne
<1>6. 0 \notin DOMAIN history[wire[k] + 1] /\ DOMAIN Refused = {0}
  BY <1>4, StateAssumption DEF States, Refused
<1> QED BY <1>5, <1>6 DEF Delta

\* No state needs more room than there is.
RoomForAll == Cardinality(Fields) <= MaxFields

\* With room for every field, every delta fits.
LEMMA AllFit ==
    ASSUME RoomForAll, SyncInv, NEW n \in 1 .. Len(history) - 1
    PROVE  FitsInOne(n)
<1>1. history \in Seq(States) /\ n \in 1 .. Len(history) /\ n + 1 \in 1 .. Len(history)
  BY DEF SyncInv
<1>2. history[n] \in States /\ history[n + 1] \in States
  BY <1>1, ElementOfSeq
<1>3. PICK both : both = DOMAIN history[n] \cup DOMAIN history[n + 1] /\ both \subseteq Fields
  BY <1>2 DEF States
<1>4. Cardinality(both) <= Cardinality(Fields)
  BY <1>3, FS_Subset, StateAssumption
<1>5. Cardinality(both) \in Nat /\ Cardinality(Fields) \in Nat
  BY <1>3, FS_Subset, FS_CardinalityType, StateAssumption
<1> QED BY <1>3, <1>4, <1>5, StateAssumption DEF FitsInOne, RoomForAll

(* semantic.rs:505, which the run StateSyncFull refutes for states that are  *)
(* full: with room for every field, each delta that between() made turns the *)
(* state it was made from into the one it was made to.                       *)
THEOREM DeltasApplyWithRoom == ASSUME RoomForAll PROVE Spec => []AppliesToItsBase
<1>1. SyncInv /\ [Next]_vars => SyncInv'
  BY SyncStep
<1>2. SyncInv => AppliesToItsBase
  <2> SUFFICES ASSUME SyncInv, NEW k \in DOMAIN wire, held = history[wire[k]]
               PROVE  Apply(Delta(wire[k]), held) = history[wire[k] + 1]
    BY DEF AppliesToItsBase
  <2>1. k \in 1 .. Len(wire) /\ wire \in Seq(1 .. Len(history) - 1)
    BY DEF SyncInv
  <2>2. wire[k] \in 1 .. Len(history) - 1
    BY <2>1, ElementOfSeq
  <2> QED BY <2>1, <2>2, AllFit, DeltaApplies
<1> QED BY <1>1, <1>2, SyncInit, PTL DEF Spec

(* On an orderly link the deltas under way are those behind the delivered    *)
(* ones, in order and to the end of the history.                             *)
InLine ==
    /\ applied <= Delivered
    /\ \A k \in 1 .. Len(wire) : wire[k] = Delivered + k

OrderlyInv == SyncInv /\ FollowsInOrder /\ (orderly => InLine)

\* How many deltas there are, and how many were delivered.
LEMMA LineNumbers ==
    ASSUME OrderlyInv, orderly
    PROVE  /\ history \in Seq(States) /\ Len(history) \in Nat
           /\ wire \in Seq(1 .. Len(history) - 1) /\ wire \in Seq(Nat) /\ Len(wire) \in Nat
           /\ applied \in Nat /\ applied <= Delivered
           /\ Delivered \in Nat /\ Len(history) = Delivered + Len(wire) + 1
           /\ \A k \in 1 .. Len(wire) : wire[k] = Delivered + k
<1>1. wire \in Seq(1 .. Len(history) - 1) /\ Len(history) \in Nat /\ history \in Seq(States)
  BY DEF OrderlyInv, SyncInv
<1>2. wire \in Seq(Nat) /\ Len(wire) \in Nat
  BY <1>1, ElementOfSeq
<1>3. applied \in Nat /\ applied <= Delivered /\ \A k \in 1 .. Len(wire) : wire[k] = Delivered + k
  BY <1>1 DEF OrderlyInv, InLine, SyncInv
<1>4. Delivered = Len(history) - 1 - Len(wire) /\ Delivered \in Nat
  BY <1>1, <1>2, <1>3 DEF Delivered
<1> QED BY <1>1, <1>2, <1>3, <1>4

\* Without its first, a sequence is one shorter, and the others move up.
LEMMA WithoutFirst ==
    ASSUME NEW S, NEW s \in Seq(S), s # <<>>
    PROVE  /\ Len(s) \in Nat /\ Len(s) >= 1
           /\ RemoveAt(s, 1) \in Seq(S) /\ Len(RemoveAt(s, 1)) = Len(s) - 1
           /\ \A k \in 1 .. Len(s) - 1 : RemoveAt(s, 1)[k] = s[k + 1]
<1>1. Len(s) \in Nat /\ Len(s) >= 1
  BY EmptySeq
<1>2. RemoveAt(s, 1) = SubSeq(s, 1, 0) \o SubSeq(s, 2, Len(s))
  BY DEF RemoveAt
<1>3. SubSeq(s, 1, 0) = <<>>
  BY <1>1
<1>4. \A i \in 2 .. Len(s) : s[i] \in S
  BY <1>1, ElementOfSeq
<1>5. PICK t : t = SubSeq(s, 2, Len(s))
  OBVIOUS
<1>6. /\ t \in Seq(S) /\ Len(t) = Len(s) - 1
      /\ \A k \in 1 .. Len(s) - 1 : t[k] = s[k + 1]
  <2>1. PICK n : n = Len(s)
    OBVIOUS
  <2>2. n \in Nat /\ n >= 1 /\ \A i \in 2 .. n : s[i] \in S
    BY <1>1, <1>4, <2>1
  <2>3. t = [i \in 1 .. n - 1 |-> s[i + 1]]
    BY <1>5, <2>1, <2>2
  <2>4. \A i \in 1 .. n - 1 : t[i] = s[i + 1] /\ s[i + 1] \in S
    <3>1. \A i \in 1 .. n - 1 : i + 1 \in 2 .. n
      BY <2>2
    <3> QED BY <2>2, <2>3, <3>1
  <2>5. t \in Seq(S) /\ Len(t) = n - 1
    <3>1. n - 1 \in Nat
      BY <2>2
    <3> QED BY <2>2, <2>3, <2>4, <3>1
  <2> QED BY <2>1, <2>4, <2>5
<1>7. <<>> \o t = t
  BY <1>6, ConcatEmptySeq
<1>8. RemoveAt(s, 1) = t
  BY <1>2, <1>3, <1>5, <1>7
<1> QED BY <1>1, <1>6, <1>8

\* A new state and its delta come at the end of both.
LEMMA PublishOrderly ==
    ASSUME OrderlyInv, NEW latest \in States, Publish(latest), orderly
    PROVE  InLine' /\ FollowsInOrder'
<1>1. /\ history \in Seq(States) /\ Len(history) \in Nat
      /\ wire \in Seq(Nat) /\ Len(wire) \in Nat
      /\ applied \in Nat /\ applied <= Delivered
      /\ Delivered \in Nat /\ Len(history) = Delivered + Len(wire) + 1
      /\ \A k \in 1 .. Len(wire) : wire[k] = Delivered + k
  BY LineNumbers
<1>2. /\ history' = Append(history, latest) /\ wire' = Append(wire, Len(history))
      /\ applied' = applied
  BY DEF Publish
<1>3. Len(history') = Len(history) + 1 /\ \A i \in 1 .. Len(history) : history'[i] = history[i]
  <2>1. history \in Seq(States) /\ latest \in States /\ history' = Append(history, latest)
    BY <1>1, <1>2
  <2> QED BY ONLY <2>1, AppendProperties
<1>4. /\ Len(wire') = Len(wire) + 1 /\ wire'[Len(wire) + 1] = Len(history)
      /\ \A k \in 1 .. Len(wire) : wire'[k] = wire[k]
  BY <1>1, <1>2, AppendProperties
<1>5. Delivered' = Delivered
  BY <1>1, <1>3, <1>4 DEF Delivered
<1>6. ASSUME NEW k \in 1 .. Len(wire') PROVE wire'[k] = Delivered' + k
  <2>1. CASE k = Len(wire) + 1
    BY <1>1, <1>4, <1>5, <2>1
  <2>2. CASE k # Len(wire) + 1
    <3>1. k \in 1 .. Len(wire)
      BY <1>1, <1>4, <2>2
    <3> QED BY <1>1, <1>4, <1>5, <3>1
  <2> QED BY <2>1, <2>2
<1>7. FollowsInOrder'
  <2>1. CASE applied = Delivered
    BY <1>2, <1>5, <2>1 DEF FollowsInOrder
  <2>2. CASE applied # Delivered
    <3>1. applied + 1 \in 1 .. Len(history) /\ applied + 1 + 1 \in 1 .. Len(history)
      BY <1>1, <2>2
    <3>2. FitsInOne(applied + 1)' = FitsInOne(applied + 1)
      BY <1>2, <1>3, <3>1 DEF FitsInOne
    <3> QED BY <2>2, <3>2 DEF OrderlyInv, FollowsInOrder
  <2> QED BY <2>1, <2>2
<1> QED BY <1>1, <1>2, <1>5, <1>6, <1>7 DEF InLine

\* What arrives on an orderly link is the delta behind the delivered ones: it is
\* applied, if the receiver was not behind and it fits.
LEMMA ReceiveOrderly ==
    ASSUME OrderlyInv, orderly, NEW k \in Arrivals,
           ReceiveApplied(k) \/ ReceiveRefused(k)
    PROVE  InLine' /\ FollowsInOrder'
<1>1. k = 1 /\ wire # <<>>
  BY DEF Arrivals
<1>2. /\ history \in Seq(States) /\ Len(history) \in Nat
      /\ wire \in Seq(Nat) /\ Len(wire) \in Nat
      /\ applied \in Nat /\ applied <= Delivered
      /\ Delivered \in Nat /\ Len(history) = Delivered + Len(wire) + 1
      /\ \A j \in 1 .. Len(wire) : wire[j] = Delivered + j
  BY LineNumbers
<1>3. wire' = RemoveAt(wire, 1) /\ history' = history
  BY <1>1 DEF ReceiveApplied, ReceiveRefused
<1>4. /\ Len(wire) >= 1 /\ Len(wire') = Len(wire) - 1
      /\ \A j \in 1 .. Len(wire) - 1 : wire'[j] = wire[j + 1]
  BY <1>1, <1>2, <1>3, WithoutFirst
<1>5. Delivered' = Delivered + 1 /\ wire[1] = Delivered + 1
  <2>1. /\ Len(wire') = Len(wire) - 1 /\ Len(history') = Len(history)
        /\ Len(wire) \in Nat /\ Len(history) \in Nat /\ 1 \in 1 .. Len(wire)
    BY <1>2, <1>3, <1>4
  <2>2. Delivered' = Delivered + 1
    BY ONLY <2>1 DEF Delivered
  <2> QED BY <1>2, <2>1, <2>2
<1>6. ASSUME NEW j \in 1 .. Len(wire') PROVE wire'[j] = Delivered' + j
  <2>1. j \in 1 .. Len(wire) - 1 /\ j + 1 \in 1 .. Len(wire)
    BY <1>2, <1>4
  <2> QED BY <1>2, <1>4, <1>5, <2>1
<1>7. CASE ReceiveApplied(1)
  <2>1. applied' = Delivered'
    BY <1>5, <1>7 DEF ReceiveApplied
  <2> QED BY <1>2, <1>5, <1>6, <2>1 DEF InLine, FollowsInOrder
<1>8. CASE ReceiveRefused(1)
  <2>1. applied' = applied /\ Apply(Delta(wire[1]), held) = Refused
    BY <1>8 DEF ReceiveRefused
  <2>2. FitsInOne(applied + 1)' = FitsInOne(applied + 1)
    BY <1>3, <2>1 DEF FitsInOne
  <2>3. ~FitsInOne(applied + 1)
    <3>1. CASE applied = Delivered
      <4>1. held = history[wire[1]] /\ 1 \in 1 .. Len(wire)
        BY <1>2, <1>4, <1>5, <3>1 DEF OrderlyInv, SyncInv, HeldWasPublished
      <4>2. ~FitsInOne(wire[1])
        BY <2>1, <4>1, DeltaApplies DEF OrderlyInv
      <4> QED BY <1>5, <3>1, <4>2
    <3>2. CASE applied # Delivered
      BY <3>2 DEF OrderlyInv, FollowsInOrder
    <3> QED BY <3>1, <3>2
  <2>4. FollowsInOrder'
    BY <2>2, <2>3 DEF FollowsInOrder
  <2> QED BY <1>2, <1>5, <1>6, <2>1, <2>4 DEF InLine
<1> QED BY <1>1, <1>7, <1>8

\* The order is kept for as long as the link is orderly.
LEMMA OrderlyStep == ASSUME OrderlyInv, [Next]_vars PROVE OrderlyInv'
<1>1. SyncInv'
  BY SyncStep DEF OrderlyInv
<1>2. orderly' = orderly
  BY DEF Next, Publish, Receive, ReceiveApplied, ReceiveRefused, Lose, vars
<1>3. CASE ~orderly
  BY <1>1, <1>2, <1>3 DEF OrderlyInv, FollowsInOrder
<1>4. CASE orderly
  <2>1. CASE \E latest \in States : Publish(latest)
    BY <1>1, <1>4, <2>1, PublishOrderly DEF OrderlyInv
  <2>2. CASE Receive
    BY <1>1, <1>4, <2>2, ReceiveOrderly DEF OrderlyInv, Receive
  <2>3. CASE Lose
    BY <1>4, <2>3 DEF Lose
  <2>4. CASE UNCHANGED vars
    BY <1>1, <2>4 DEF OrderlyInv, vars, InLine, Delivered, FollowsInOrder, FitsInOne
  <2> QED BY <2>1, <2>2, <2>3, <2>4 DEF Next
<1> QED BY <1>3, <1>4

(* An orderly link carries the receiver of deltas (semantic.rs, apply())     *)
(* through every state of the sender up to the first delta whose two states  *)
(* have no room in one, as set() refuses a new field while the state is      *)
(* full: a receiver that is behind is so since such a delta.                 *)
THEOREM OrderlyAlwaysFollows == Spec => []FollowsInOrder
<1>1. Init => OrderlyInv
  <2> SUFFICES ASSUME Init PROVE OrderlyInv
    OBVIOUS
  <2>1. wire = <<>> /\ applied = 0 /\ Len(history) = 1 /\ Len(wire) = 0
    BY DEF Init
  <2>2. Delivered = 0
    <3>1. Len(history) = 1 /\ Len(wire) = 0
      BY <2>1
    <3> QED BY ONLY <3>1 DEF Delivered
  <2> QED BY <2>1, <2>2, SyncInit DEF OrderlyInv, InLine, FollowsInOrder
<1>2. OrderlyInv /\ [Next]_vars => OrderlyInv'
  BY OrderlyStep
<1>3. OrderlyInv => FollowsInOrder
  BY DEF OrderlyInv
<1> QED BY <1>1, <1>2, <1>3, PTL DEF Spec
=============================================================================
