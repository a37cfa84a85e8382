---------------------------- MODULE BleFragments -----------------------------
(* The BLE link of the firmware: a packet is cut into chunks of equal size   *)
(* that may arrive in any order, and one reassembly collects them.  The CRC  *)
(* is taken to tell packets apart.                                           *)
EXTENDS Integers, Sequences

CONSTANTS Packets,         \* packet contents
          LengthOf,        \* of a packet
          MaxPacketSize,   \* LM_AIR_MAX_FRAME_SIZE
          MaxFragments,    \* LM_AIR_BLE_MAX_FRAGMENTS
          Capacities,      \* what the negotiated MTUs leave for the payload
          IdSpace,         \* message identifiers, 2^16 in the code
          ForeignHeaders,  \* [index, count, total] of peers that cut in another way
          MaxSends         \* bound of the model

NoPacket == "no packet"
Foreign == "foreign"
Spoilt == -1

ASSUME BleAssumption == /\ {MaxPacketSize, MaxFragments, IdSpace} \subseteq Nat \ {0}
                        /\ LengthOf \in [Packets -> 1 .. MaxPacketSize]
                        /\ {NoPacket, Foreign} \intersect Packets = {}
                        /\ Capacities \subseteq Nat
                        /\ ForeignHeaders \subseteq [index : Nat, count : Nat, total : Nat]

VARIABLES active, header,   \* lm_air_ble_reassembly_t: [id, total, crc, count]
          received,         \* received_bitmap, as a set
          written,          \* packet.data: the packet each byte is of, NoPacket after a reset
          air,              \* fragments of the connection, seen any number of times
          message_id,       \* of the peer's sender
          sends,            \* fragments and messages sent
          stretch,          \* history: the message of the last fragments, and which came
          outcome           \* history: what the last fragment completed, and what was handed over

bleVars == <<active, header, received, written, air, message_id, sends, stretch, outcome>>

NoHeader == [id |-> 0, total |-> 0, crc |-> NoPacket, count |-> 0]
Blank == [i \in 0 .. MaxPacketSize - 1 |-> NoPacket]
Interrupted == [header |-> NoHeader, got |-> {}]
Nothing == [arrived |-> NoPacket, handed |-> NoPacket]

BleInit == /\ active = FALSE /\ header = NoHeader /\ received = {} /\ written = Blank
           /\ air = {} /\ message_id = 0 /\ sends = 0
           /\ stretch = Interrupted /\ outcome = Nothing

CeilingDiv(a, b) == (a + b - 1) \div b

\* lm_air_ble_fragment_count(); 0 for a packet that does not go.
FragmentCount(length, capacity) ==
    IF capacity = 0 \/ CeilingDiv(length, capacity) > MaxFragments THEN 0
    ELSE CeilingDiv(length, capacity)

\* The chunks of a packet.  Mutant: as large as the MTU allows.
UnitOfMtu(length, count, capacity) == capacity
UnitOf(length, count, capacity) == CeilingDiv(length, count)

HeaderOf(f) == [id |-> f.id, total |-> f.total, crc |-> f.crc, count |-> f.count]

\* lm_air_ble_make_fragment(), for every index.
FragmentsOf(packet, id, capacity) ==
    LET length == LengthOf[packet]
        count  == FragmentCount(length, capacity)
        unit   == UnitOf(length, count, capacity) IN
    {[id |-> id, total |-> length, crc |-> packet, count |-> count, index |-> i,
      size |-> IF length - i * unit < unit THEN length - i * unit ELSE unit,
      genuine |-> TRUE] : i \in 0 .. count - 1}

\* notify_task() of a peer: a message under the next identifier.
SendMessage(packet, capacity) ==
    /\ sends < MaxSends
    /\ message_id' = (message_id + 1) % IdSpace
    /\ air' = air \union FragmentsOf(packet, message_id', capacity)
    /\ sends' = sends + 1
    /\ UNCHANGED <<active, header, received, written, stretch, outcome>>

\* A write of anything else under the header of a fragment.
SendForeign(packet, id, h, size) ==
    /\ sends < MaxSends
    /\ air' = air \union {[id |-> id, total |-> h.total, crc |-> packet, count |-> h.count,
                           index |-> h.index, size |-> size, genuine |-> FALSE]}
    /\ sends' = sends + 1
    /\ UNCHANGED <<active, header, received, written, message_id, stretch, outcome>>

-----------------------------------------------------------------------------
(* lm_air_ble_reassembly_ingest() *)

Plausible(f) == /\ f.count \in 1 .. MaxFragments /\ f.index < f.count
                /\ f.total \in 1 .. MaxPacketSize

\* A message of another identifier takes the place of the one in hand.
Starts(f) == ~active \/ header.id # f.id

Offset(f) == f.index * CeilingDiv(f.total, f.count)

ExpectedSize(f) == IF f.index + 1 = f.count THEN f.total - Offset(f)
                   ELSE CeilingDiv(f.total, f.count)

\* The chunk lies where its header puts it.  Mutant: the end is not looked at.
FitsAtStart(f) == Offset(f) < f.total /\ f.size = ExpectedSize(f)
FitsIn(f) == /\ Offset(f) < f.total
             /\ f.size = ExpectedSize(f)
             /\ Offset(f) + f.size <= f.total

Accepts(f) == Plausible(f) /\ (Starts(f) \/ header = HeaderOf(f)) /\ FitsIn(f)

Gathered(f) == (IF Starts(f) THEN {} ELSE received) \union {f.index}
AllThere(f) == Gathered(f) = 0 .. f.count - 1

\* The bytes in hand with those of the chunk over them.
Overlaid(f) == [i \in DOMAIN Blank |->
                   IF i \in Offset(f) .. Offset(f) + f.size - 1
                   THEN IF f.genuine THEN f.crc ELSE Foreign
                   ELSE IF Starts(f) THEN NoPacket ELSE written[i]]

CrcHolds(f) == \A i \in 0 .. f.total - 1 : Overlaid(f)[i] = f.crc

Cleared == /\ active' = FALSE /\ header' = NoHeader
           /\ received' = {} /\ written' = Blank

Handed(f) == IF Accepts(f) /\ AllThere(f) /\ CrcHolds(f) THEN f.crc ELSE NoPacket

\* Which fragments of a message came without one of another message between
\* them; the first is not counted when its identifier was in use just before, and
\* none behind a foreign one of the same header.
StretchWith(f) ==
    IF ~f.genuine THEN [header |-> HeaderOf(f), got |-> {Spoilt}]
    ELSE IF stretch.header = HeaderOf(f) THEN [stretch EXCEPT !.got = @ \union {f.index}]
    ELSE [header |-> HeaderOf(f), got |-> IF stretch.header.id = f.id /\ stretch # Interrupted
                                          THEN {} ELSE {f.index}]

Ingest(f) ==
    /\ \/ ~Accepts(f) /\ Cleared
       \/ Accepts(f) /\ AllThere(f) /\ Cleared
       \/ /\ Accepts(f) /\ ~AllThere(f)
          /\ active' = TRUE /\ header' = HeaderOf(f)
          /\ received' = Gathered(f) /\ written' = Overlaid(f)
    /\ LET all == StretchWith(f).got = 0 .. f.count - 1 IN
         /\ stretch' = IF all \/ Handed(f) # NoPacket THEN Interrupted ELSE StretchWith(f)
         /\ outcome' = [arrived |-> IF all THEN f.crc ELSE NoPacket, handed |-> Handed(f)]
    /\ UNCHANGED <<air, message_id, sends>>

\* BLE_GAP_EVENT_DISCONNECT; what was on the air is gone.
Disconnect == /\ Cleared /\ air' = {}
              /\ stretch' = Interrupted /\ outcome' = Nothing
              /\ UNCHANGED <<message_id, sends>>

BleNext == \/ \E p \in Packets :
                  \/ \E capacity \in Capacities : SendMessage(p, capacity)
                  \/ \E id \in 0 .. IdSpace - 1, h \in ForeignHeaders,
                        size \in 1 .. MaxPacketSize : SendForeign(p, id, h, size)
           \/ \E f \in air : Ingest(f)
           \/ Disconnect
BleSpec == BleInit /\ [][BleNext]_bleVars

-----------------------------------------------------------------------------
(* No header makes the reassembly write behind the end of the message it     *)
(* announces, however unevenly its total divides by its count.               *)
StaysInMessage ==
    /\ \A i \in DOMAIN written : written[i] # NoPacket => i < header.total
    /\ active => received # {} /\ received \subseteq 0 .. header.count - 1

(* When all fragments of a message have come, in any order and any number of *)
(* times, for any MTU of the sender, and no other message came in between,   *)
(* the packet that was cut up is handed over with the last of them.          *)
FragmentsMakePacket == outcome.arrived # NoPacket => outcome.handed = outcome.arrived
=============================================================================
