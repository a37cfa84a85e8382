---------------------------- MODULE FirmwareNode ----------------------------
(***************************************************************************)
(* The ESP32 node: the applications of TxPipeline and the three tasks that *)
(* empty its queues.  udp_task waits for the station to be connected,      *)
(* notify_task cuts a packet into BLE notifications for whoever is         *)
(* connected, and kiss_tx_task lets a packet through to the external radio *)
(* if the policy allows it.  Stations and peers come and go between any    *)
(* two steps, and so does the level of the transmit interlock.             *)
(***************************************************************************)
EXTENDS TxPipeline, Functions

CONSTANTS
    Wifi, Ble, Kiss,     \* links of lm_air_link_t
    Notifications,       \* fragments a packet may need at the peer's MTU;
                         \* 0 when the MTU is too small
    CallsignInterval,    \* policy.callsign_interval_ms
    InterlockLevels,     \* levels the interlock pin takes
    NoPacket,
    MaxClock             \* bound: the clock stops

\* A packet with what the policy and the properties ask of it.
Packets == [id : Nat, part : Nat, sequence : Nat, permitted : BOOLEAN,
            identification : BOOLEAN]

ASSUME FirmwareAssumption ==
    /\ {Wifi, Ble, Kiss} \subseteq Links
    /\ Cardinality({Wifi, Ble, Kiss}) = 3
    /\ Notifications \subseteq Nat
    /\ CallsignInterval \in Nat \ {0}
    /\ InterlockLevels \subseteq {0, 1}
    /\ NoPacket \notin [packet : Packets, at : Nat] \cup [packet : Packets, left : Nat]
    /\ MaxClock \in Nat

VARIABLES
    connected,   \* the bit CONNECTED of s_events
    udp,         \* udp_task: "wait" for the bit, or "receive" from the queue
    peer,        \* s_conn_handle and s_subscribed
    notifying,   \* notify_task: packet in hand, notifications left
    writing,     \* kiss_tx_task: packet in hand, and when it was allowed
    interlock,   \* level of CONFIG_LM_RF_TX_INTERLOCK_GPIO
    s_policy,    \* hardware_interlock_asserted, the rest is as configured
    runtime,     \* s_policy_runtime
    aired,       \* when the last identification on the air was allowed, or -1
    now          \* esp_timer_get_time()

tasks == <<udp, notifying, writing, runtime, aired>>
world == <<connected, peer, interlock, now>>
vars  == <<pipelineVars, metrics, tasks, world, s_policy>>

Nobody == [connected |-> FALSE, subscribed |-> FALSE]

Init ==
    /\ PipelineInit
    /\ connected = FALSE
    /\ udp = "wait"
    /\ peer = Nobody
    /\ notifying = NoPacket
    /\ writing = NoPacket
    /\ interlock \in InterlockLevels
    /\ s_policy = [interlock |-> interlock = 1]  \* lm_air_policy_from_config()
    /\ runtime = [seen |-> FALSE, last |-> 0]
    /\ aired = -1
    /\ now = 0

Dequeue(l) == queue' = [queue EXCEPT ![l] = Tail(@)]
OnlyQueue  == UNCHANGED <<owner, call, calls, s_tx, s_next_sequence, history>>

\* Mutant: the branch of the failure has no metric.
CountSent(l, ok) == IF ok THEN [metrics EXCEPT !.tx[l] = @ + 1] ELSE metrics

Count(l, ok) ==
    IF ok THEN [metrics EXCEPT !.tx[l] = @ + 1]
          ELSE DropCounted

-----------------------------------------------------------------------------
\* xEventGroupWaitBits() returns; the bit may be cleared again before the
\* task has looked into its queue.
UdpReady ==
    /\ udp = "wait"
    /\ connected
    /\ udp' = "receive"
    /\ UNCHANGED <<pipelineVars, notifying, writing, runtime, aired, metrics, world, s_policy>>

\* A packet within 20 ms; sendto() takes it or fails.
UdpSend(ok) ==
    /\ udp = "receive"
    /\ queue[Wifi] # <<>>
    /\ Dequeue(Wifi)
    /\ metrics' = Count(Wifi, ok)
    /\ udp' = "wait"
    /\ OnlyQueue
    /\ UNCHANGED <<notifying, writing, runtime, aired, world, s_policy>>

UdpNothing ==
    /\ udp = "receive"
    /\ queue[Wifi] = <<>>
    /\ udp' = "wait"
    /\ UNCHANGED <<pipelineVars, notifying, writing, runtime, aired, metrics, world, s_policy>>

-----------------------------------------------------------------------------
Reachable == peer.connected /\ peer.subscribed

\* Mutant: the packet waits until somebody has subscribed.
NeverUnreachable == FALSE

Unreachable == ~Reachable

NotifyUnreachable ==
    /\ notifying = NoPacket
    /\ queue[Ble] # <<>>
    /\ Unreachable
    /\ Dequeue(Ble)
    /\ metrics' = Count(Ble, FALSE)
    /\ OnlyQueue
    /\ UNCHANGED <<udp, notifying, writing, runtime, aired, world, s_policy>>

NotifyBegin(count) ==
    /\ notifying = NoPacket
    /\ queue[Ble] # <<>>
    /\ Reachable
    /\ Dequeue(Ble)
    /\ metrics' = IF count = 0 THEN Count(Ble, FALSE) ELSE metrics
    /\ notifying' = IF count = 0 THEN NoPacket
                    ELSE [packet |-> Head(queue[Ble]), left |-> count]
    /\ OnlyQueue
    /\ UNCHANGED <<udp, writing, runtime, aired, world, s_policy>>

\* The connection is looked up anew for every notification, the subscription
\* is not.
Notify ==
    /\ notifying # NoPacket
    /\ peer.connected
    /\ IF notifying.left = 1
       THEN notifying' = NoPacket /\ metrics' = Count(Ble, TRUE)
       ELSE notifying' = [notifying EXCEPT !.left = @ - 1] /\ UNCHANGED metrics
    /\ UNCHANGED <<pipelineVars, udp, writing, runtime, aired, world, s_policy>>

\* No connection, no buffer, or an error of the host.
NotifyFails ==
    /\ notifying # NoPacket
    /\ notifying' = NoPacket
    /\ metrics' = Count(Ble, FALSE)
    /\ UNCHANGED <<pipelineVars, udp, writing, runtime, aired, world, s_policy>>

-----------------------------------------------------------------------------
\* Mutant: the end of the interval still counts as inside it.
DueAfter == ~runtime.seen \/ now - runtime.last > CallsignInterval

Due == ~runtime.seen \/ now - runtime.last >= CallsignInterval

\* lm_air_policy_check() and lm_air_policy_allow_packet().
Allowed(packet) ==
    /\ s_policy.interlock
    /\ packet.permitted
    /\ Due => packet.identification

RuntimeAfter(packet) ==
    IF packet.identification THEN [seen |-> TRUE, last |-> now] ELSE runtime

KissBlock ==
    /\ writing = NoPacket
    /\ queue[Kiss] # <<>>
    /\ ~Allowed(Head(queue[Kiss]))
    /\ Dequeue(Kiss)
    /\ metrics' = [metrics EXCEPT !.blocked = @ + 1]
    /\ OnlyQueue
    /\ UNCHANGED <<udp, notifying, writing, runtime, aired, world, s_policy>>

KissAllow ==
    /\ writing = NoPacket
    /\ queue[Kiss] # <<>>
    /\ Allowed(Head(queue[Kiss]))
    /\ Dequeue(Kiss)
    /\ writing' = [packet |-> Head(queue[Kiss]), at |-> now]
    /\ runtime' = RuntimeAfter(Head(queue[Kiss]))
    /\ OnlyQueue
    /\ UNCHANGED <<udp, notifying, aired, metrics, world, s_policy>>

\* uart_write_bytes() waits for room, so the packet goes out some time after
\* it was allowed.  Its error branch needs a driver that is not installed.
KissWrite ==
    /\ writing # NoPacket
    /\ writing' = NoPacket
    /\ aired' = IF writing.packet.identification THEN writing.at ELSE aired
    /\ metrics' = Count(Kiss, TRUE)
    /\ UNCHANGED <<pipelineVars, udp, notifying, runtime, world, s_policy>>

-----------------------------------------------------------------------------
WifiEvent ==
    /\ connected' = ~connected
    /\ UNCHANGED <<peer, interlock, now>>

GapEvent ==
    /\ \/ ~peer.connected /\ peer' = [peer EXCEPT !.connected = TRUE]
       \/ peer.connected /\ peer' = Nobody
       \/ peer.connected /\ peer' = [peer EXCEPT !.subscribed = ~@]
    /\ UNCHANGED <<connected, interlock, now>>

InterlockMoves ==
    /\ interlock' \in InterlockLevels \ {interlock}
    /\ UNCHANGED <<connected, peer, now>>

Tick ==
    /\ now < MaxClock
    /\ now' = now + 1
    /\ UNCHANGED <<connected, peer, interlock>>

World ==
    /\ WifiEvent \/ GapEvent \/ InterlockMoves \/ Tick
    /\ UNCHANGED <<pipelineVars, metrics, tasks, s_policy>>

UdpTask    == UdpReady \/ UdpNothing \/ \E ok \in BOOLEAN : UdpSend(ok)
NotifyTask == \/ NotifyUnreachable \/ Notify \/ NotifyFails
              \/ \E count \in Notifications : NotifyBegin(count)
KissTask   == KissBlock \/ KissAllow \/ KissWrite

Next ==
    \/ PipelineNext /\ UNCHANGED <<tasks, world, s_policy>>
    \/ UdpTask \/ NotifyTask \/ KissTask
    \/ World

Spec == Init /\ [][Next]_vars

\* The scheduler lets every task that can run take its next step.
LiveSpec ==
    /\ Spec
    /\ \A t \in Tasks : WF_vars(Proceed(t) /\ UNCHANGED <<tasks, world, s_policy>>)
    /\ WF_vars(NotifyTask)
    /\ WF_vars(KissTask)

-----------------------------------------------------------------------------
Total(f) == FoldFunction(+, 0, f)
InHand   == Cardinality({h \in {<<1, notifying>>, <<2, writing>>} : h[2] # NoPacket})

\* Every packet that lm_air_pipeline_send() published is in a queue, in the
\* hands of its task, or counted once: as sent, as dropped, whether for want of
\* room in the queue or on the link, or as blocked; and a queue keeps its depth.
EveryPacketCounted ==
    /\ \A l \in Links : Len(queue[l]) <= QueueDepth
    /\ Total([l \in Links |-> Len(published[l])]) + Cardinality(cut)
       = Total([l \in Links |-> Len(queue[l])]) + InHand
         + Total(metrics.tx) + metrics.dropped + metrics.blocked

OnAir == writing # NoPacket /\ writing' = NoPacket

\* What goes out to the external radio is permitted, and names the station or
\* follows, within the interval, a packet on the air that did.
IdentifiedOnAir ==
    [][OnAir =>
         /\ writing.packet.permitted
         /\ \/ writing.packet.identification
            \/ aired >= 0 /\ writing.at - aired < CallsignInterval]_vars

\* Nothing is let through to the external radio while the interlock is open.
NeverUnarmed == [][KissAllow => interlock = 1]_vars

\* BLE and KISS packets do not stay, connected or not.
Drains == \A l \in {Ble, Kiss} : queue[l] # <<>> ~> queue[l] = <<>>
=============================================================================
