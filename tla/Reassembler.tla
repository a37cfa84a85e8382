---------------------------- MODULE Reassembler -----------------------------
(***************************************************************************)
(* The Reassembler of latentmesh-air-core (fragment.rs), which AirReceiver *)
(* and MeshtasticAdapter both keep: a table of contexts that never evicts  *)
(* and never expires.  A frame is a record [id, stream, sequence, index,   *)
(* count, meta]; `id` numbers messages and is unknown to the code, and the *)
(* payload of fragment k of message id is the pair <<id, k>>, one byte     *)
(* long, so that two messages never have equal fragments.                  *)
(***************************************************************************)
EXTENDS SerialWindow, FiniteSets

CONSTANTS
    Streams,        \* stream identifiers in use
    Metas,          \* the metadata of messages: [class, signed]
    MaxFragments,   \* ReassemblerConfig.max_fragments
    MaxContexts,    \* ReassemblerConfig.max_contexts
    MaxBytes        \* ReassemblerConfig.max_message_bytes, one byte a fragment

\* Reassembler::new() refuses zero limits.
ASSUME ReassemblerAssumption ==
    {MaxFragments, MaxContexts, MaxBytes} \subseteq Nat \ {0}

VARIABLE contexts   \* Reassembler.contexts: <<stream, sequence>> -> Context

Keys == Streams \X Serials

\* Mutant: the reassembly table is searched by stream alone.
KeyOfStream(f) == <<f.stream, 0>>

Key(f) == <<f.stream, f.sequence>>

InFlight(key) == key \in DOMAIN contexts

WithContext(key, context) ==
    [k \in DOMAIN contexts \cup {key} |-> IF k = key THEN context ELSE contexts[k]]

WithoutContext(key) == [k \in DOMAIN contexts \ {key} |-> contexts[k]]

NoParts == [k \in {} |-> 0]

NewContext(f) == [meta |-> f.meta, count |-> f.count, bytes |-> 0, parts |-> NoParts]

\* The context the frame belongs to, or the one push() opens for it.
ContextOf(f) == IF InFlight(Key(f)) THEN contexts[Key(f)] ELSE NewContext(f)

Parts(f) == ContextOf(f).parts

\* The parts of the context once fragment f is stored, index -> id.
StoredParts(f) == [k \in DOMAIN Parts(f) \cup {f.index} |->
                      IF k = f.index THEN f.id ELSE Parts(f)[k]]

StoredContext(f) == [ContextOf(f) EXCEPT !.bytes = @ + 1, !.parts = StoredParts(f)]

-----------------------------------------------------------------------------
(* What push() finds out about a frame, in the order it asks. *)

\* LimitExceeded, before the table is searched.
TooManyFragments(f) == f.count > MaxFragments

\* Mutant: the bound is checked with > instead of ==.
TableOverfull(f) == ~InFlight(Key(f)) /\ Cardinality(DOMAIN contexts) > MaxContexts

\* ReassemblyFull: no context is evicted for a new message.
TableFull(f) == ~InFlight(Key(f)) /\ Cardinality(DOMAIN contexts) = MaxContexts

\* FragmentConflict: another message uses the context.
Mismatch(f) == ContextOf(f).meta # f.meta \/ ContextOf(f).count # f.count

\* The part is already there, with this payload or another.
Occupied(f) == f.index \in DOMAIN Parts(f)

\* LimitExceeded, after a new context was opened.
Oversized(f) == ContextOf(f).bytes + 1 > MaxBytes

\* This fragment is the last one missing.
Complete(f) == DOMAIN StoredParts(f) = 1 .. f.count

\* Every part of the message comes from the message of frame f.
Whole(f) == \A k \in DOMAIN StoredParts(f) : StoredParts(f)[k] = f.id
=============================================================================
