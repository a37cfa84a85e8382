----------------------------- MODULE TxPipeline -----------------------------
(***************************************************************************)
(* lm_air_pipeline_send() of the ESP32 firmware and the radio bus below    *)
(* it: application tasks send messages over several links through one      *)
(* static transmitter, s_tx, guarded by a mutex, into one bounded queue    *)
(* per link.  Both waits have a timeout, so a full queue gives up the rest *)
(* of a message and a long send gives up the next one.                     *)
(***************************************************************************)
EXTENDS Integers, Sequences, FiniteSets

CONSTANTS
    Tasks,         \* application tasks that call lm_air_pipeline_send()
    Links,         \* 0 .. LM_AIR_LINK_COUNT - 1
    EnabledLinks,  \* the links compiled in
    Parts,         \* fragments of a message on a link, by its profile
    QueueDepth,    \* CONFIG_LM_QUEUE_DEPTH
    Kinds,         \* messages: permitted by their policy flags?  the fragment
                   \* that identifies the station, or 0; the links for which
                   \* it is too long, or all when there is no key to sign it
    Masks,         \* link masks the applications ask for
    NoTask,
    MaxSends       \* bound: calls in a behaviour

ASSUME PipelineAssumption ==
    /\ Links \subseteq Nat /\ IsFiniteSet(Links)
    /\ EnabledLinks \subseteq Links
    /\ Parts \in [EnabledLinks -> Nat \ {0}]
    /\ QueueDepth \in Nat \ {0}
    /\ Masks \subseteq (SUBSET Links) \ {{}}
    /\ Kinds \subseteq [permitted : BOOLEAN, callsign : Nat, refusedOn : SUBSET Links]
    /\ NoTask \notin Tasks
    /\ MaxSends \in Nat

VARIABLES
    owner,           \* holder of s_tx_mutex
    call,            \* the call each task is in
    calls,           \* calls so far; a message is the number of its call
    s_tx,            \* the message the static transmitter works on
    s_next_sequence, \* by link
    queue,           \* the transmit queue of each link
    published,       \* what each queue ever accepted, in order
    unbegun,         \* <<link, message>> that lm_air_tx_begin() refused
    cut,             \* <<link, message>> given up because the queue was full
    metrics          \* s_metrics: packets sent by link, dropped, and blocked

history == <<published, unbegun, cut>>

\* All but the metrics, which the tasks that empty the queues share.
pipelineVars == <<owner, call, calls, s_tx, s_next_sequence, queue, history>>

Idle == [pc |-> "idle"]

Fragment(t) ==
    [id |-> s_tx.id, part |-> s_tx.part, sequence |-> s_tx.sequence,
     permitted |-> call[t].kind.permitted,
     identification |-> call[t].kind.callsign = s_tx.part]

\* The first link of the mask that the loop has not tried, if any.
Untried(t) == {l \in call[t].mask : l >= call[t].link}
NextOf(t)  == CHOOSE l \in Untried(t) : \A k \in Untried(t) : l <= k

PipelineInit ==
    /\ owner = NoTask
    /\ call = [t \in Tasks |-> Idle]
    /\ calls = 0
    /\ s_tx = [id |-> 0, sequence |-> 0, part |-> 1, count |-> 0]
    /\ s_next_sequence = [l \in Links |-> 1]
    /\ queue = [l \in Links |-> <<>>]
    /\ published = [l \in Links |-> <<>>]
    /\ unbegun = {}
    /\ cut = {}
    /\ metrics = [tx |-> [l \in Links |-> 0], dropped |-> 0, blocked |-> 0]

-----------------------------------------------------------------------------
Call(t, mask, kind) ==
    /\ call[t].pc = "idle"
    /\ calls < MaxSends
    /\ calls' = calls + 1
    /\ call' = [call EXCEPT ![t] = [pc |-> "take", id |-> calls + 1, mask |-> mask,
                                    kind |-> kind, link |-> 0, result |-> "OK"]]
    /\ UNCHANGED <<owner, s_tx, s_next_sequence, queue, history, metrics>>

\* Mutant: the mutex is not looked at.
FreeAlways == TRUE

Free == owner = NoTask

\* xSemaphoreTake(), for at most a second.
Take(t) ==
    /\ call[t].pc = "take"
    /\ Free
    /\ owner' = t
    /\ call' = [call EXCEPT ![t].pc = "link"]
    /\ UNCHANGED <<calls, s_tx, s_next_sequence, queue, history, metrics>>

TakeTimesOut(t) ==
    /\ call[t].pc = "take"
    /\ ~Free
    /\ call' = [call EXCEPT ![t] = Idle]
    /\ UNCHANGED <<owner, calls, s_tx, s_next_sequence, queue, history, metrics>>

\* Mutant: the result is that of the link tried last.
ResultOfLast(old, new) == new

\* A link that works does not make good for one that did not.
Worse(old, new) == IF new = "OK" THEN old ELSE new

\* `continue`: the loop goes on behind the link just tried.
LinkAfter(t, result) == NextOf(t) + 1

Continue(t, result) ==
    call' = [call EXCEPT ![t].pc = "link", ![t].link = LinkAfter(t, result),
                         ![t].result = Worse(@, result)]

NotSupported(t) ==
    /\ call[t].pc = "link"
    /\ Untried(t) # {}
    /\ NextOf(t) \notin EnabledLinks
    /\ Continue(t, "NOT_SUPPORTED")
    /\ UNCHANGED <<owner, calls, s_tx, s_next_sequence, queue, history, metrics>>

\* lm_air_tx_init() and lm_air_tx_begin().
Begin(t) ==
    /\ call[t].pc = "link"
    /\ Untried(t) # {}
    /\ NextOf(t) \in EnabledLinks \ call[t].kind.refusedOn
    /\ s_tx' = [id |-> call[t].id, sequence |-> s_next_sequence[NextOf(t)],
                part |-> 1, count |-> Parts[NextOf(t)]]
    /\ call' = [call EXCEPT ![t].pc = "emit", ![t].link = NextOf(t)]
    /\ UNCHANGED <<owner, calls, s_next_sequence, queue, history, metrics>>

\* lm_air_tx_begin() finds the message too long or has no key to sign it with.
BeginRefused(t) ==
    /\ call[t].pc = "link"
    /\ Untried(t) # {}
    /\ NextOf(t) \in EnabledLinks \cap call[t].kind.refusedOn
    /\ Continue(t, "FAIL")
    /\ unbegun' = unbegun \cup {<<NextOf(t), call[t].id>>}
    /\ UNCHANGED <<owner, calls, s_tx, s_next_sequence, queue, published, cut, metrics>>

HasRoom(l) == Len(queue[l]) < QueueDepth

NumberAfter == s_tx.sequence + 1

\* One turn of lm_air_tx_send(): poll, and the queue takes the fragment.  The
\* number moves on when the queue has taken the last one.
Emit(t) ==
    LET l    == call[t].link
        last == s_tx.part >= s_tx.count
    IN  /\ call[t].pc = "emit"
        /\ HasRoom(l)
        /\ queue' = [queue EXCEPT ![l] = Append(@, Fragment(t))]
        /\ published' = [published EXCEPT ![l] = Append(@, Fragment(t))]
        /\ s_tx' = [s_tx EXCEPT !.part = @ + 1]
        /\ IF last
           THEN /\ Continue(t, "OK")
                /\ s_next_sequence' = [s_next_sequence EXCEPT ![l] = NumberAfter]
           ELSE UNCHANGED <<call, s_next_sequence>>
        /\ UNCHANGED <<owner, calls, unbegun, cut, metrics>>

\* Mutant: publish waits for room, as long as it takes.
NeverTooLong(l) == FALSE

WaitedTooLong(l) == ~HasRoom(l)

\* Mutant: what the queue does not take is not counted.
DropUncounted == metrics
DropCounted == [metrics EXCEPT !.dropped = @ + 1]

\* The queue stays full for 100 ms: lm_air_radio_publish() counts the packet as
\* dropped, the rest of the message is given up, and s_next_sequence keeps the
\* number of the fragments already queued.
EmitTimesOut(t) ==
    /\ call[t].pc = "emit"
    /\ WaitedTooLong(call[t].link)
    /\ cut' = cut \cup {<<call[t].link, call[t].id>>}
    /\ metrics' = DropCounted
    /\ Continue(t, "FAIL")
    /\ UNCHANGED <<owner, calls, s_tx, s_next_sequence, queue, published, unbegun>>

Return(t) ==
    /\ call[t].pc = "link"
    /\ Untried(t) = {}
    /\ owner' = NoTask
    /\ call' = [call EXCEPT ![t] = Idle]
    /\ UNCHANGED <<calls, s_tx, s_next_sequence, queue, history, metrics>>

\* A step of a call that was made.
Proceed(t) ==
    \/ Take(t) \/ TakeTimesOut(t)
    \/ NotSupported(t) \/ Begin(t) \/ BeginRefused(t)
    \/ Emit(t) \/ EmitTimesOut(t) \/ Return(t)

PipelineNext ==
    \E t \in Tasks :
        \/ \E mask \in Masks, kind \in Kinds : Call(t, mask, kind)
        \/ Proceed(t)

-----------------------------------------------------------------------------
\* Fragments of message id that the queue of link l accepted.
Accepted(l, id) == {i \in 1 .. Len(published[l]) : published[l][i].id = id}

Whole(l, id) == Cardinality(Accepted(l, id)) = Parts[l]

\* Two tasks share s_tx: on no link do fragments of two messages come between
\* one another, or out of order.  Two messages on one link have the same number
\* only if the first was cut short by a full queue; a message that is whole
\* keeps its number to itself.
MessagesStayTogether ==
    \A l \in Links : \A i, j \in 1 .. Len(published[l]) :
        IF published[l][i].id = published[l][j].id
        THEN published[l][j].part - published[l][i].part = j - i
        ELSE /\ l \in EnabledLinks /\ i < j
             /\ published[l][i].sequence = published[l][j].sequence
             => ~Whole(l, published[l][i].id)

Returns(t) == call[t].pc = "link" /\ call'[t].pc = "idle"

\* lm_air_pipeline_send() returns ESP_OK just when every link that was asked
\* for has the whole message in its queue; a later link that works does not
\* cover up for an earlier one that did not.  A link whose queue is full takes
\* only its own share: each other link has the message, or a reason of its own.
ResultTellsTruth ==
    [][\A t \in Tasks : Returns(t) =>
         /\ call[t].result = "OK"
            <=> \A l \in call[t].mask : l \in EnabledLinks /\ Whole(l, call[t].id)
         /\ \A l \in call[t].mask \cap EnabledLinks :
               Whole(l, call[t].id) \/ <<l, call[t].id>> \in unbegun \cup cut]_pipelineVars

\* Every call comes back, whatever the links and the other tasks do.
SendReturns == \A t \in Tasks : call[t].pc # "idle" ~> call[t].pc = "idle"
=============================================================================
