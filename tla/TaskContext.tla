----------------------------- MODULE TaskContext ----------------------------
(* The recurrent task context: a current checkpoint, the bounded history     *)
(* behind it, and the sequence number of the next one.  A hash is the        *)
(* position of the hashed content in hashed, the record of all contents that *)
(* were ever hashed: equal contents have equal hashes, different ones        *)
(* differ (collisions are outside the model).                                *)
EXTENDS Integers, Sequences

CONSTANTS Payloads,      \* what update() is called with: size, finite, confidence
          Zero,          \* the payload of genesis()
          MaxDim,        \* ContextCapacity.max_dim
          MaxHistory,    \* ContextCapacity.max_history
          MaxUpdates     \* bound of the model: updates in a behaviour

\* update() refuses, and changes nothing, otherwise; confidence is in per cent.
Acceptable(p) == p.size <= MaxDim /\ p.finite /\ p.confidence \in 0 .. 100

Accepted == {p \in Payloads : Acceptable(p)}

ASSUME ContextAssumption == /\ MaxHistory \in Nat
                            /\ Acceptable(Zero)

VARIABLES current,         \* hash of the checkpoint in force
          history,         \* hashes of the checkpoints behind it, oldest first
          next_sequence,
          hashed,          \* history: contents by hash
          discarded        \* history: hashes given up by a rollback

contextVars == <<current, history, next_sequence, hashed, discarded>>

Genesis == [sequence |-> 0, payload |-> Zero, parent |-> 0]

ContextInit == /\ hashed = <<Genesis>>
               /\ current = 1
               /\ history = <<>>
               /\ next_sequence = 1
               /\ discarded = {}

Known(content) == \E h \in DOMAIN hashed : hashed[h] = content

\* checkpoint_hash()
HashOf(content) == IF Known(content) THEN CHOOSE h \in DOMAIN hashed : hashed[h] = content
                                     ELSE Len(hashed) + 1

\* pop_front() while the history is too long.
Trimmed(s) == IF Len(s) > MaxHistory THEN SubSeq(s, Len(s) - MaxHistory + 1, Len(s)) ELSE s

\* What a new checkpoint names as the one it came from.  Mutant: the oldest kept.
ParentOldest == IF history = <<>> THEN current ELSE history[1]
Parent == current

Update(p) ==
    /\ next_sequence <= MaxUpdates
    /\ Acceptable(p)
    /\ LET content == [sequence |-> next_sequence, payload |-> p, parent |-> Parent] IN
         /\ hashed' = IF Known(content) THEN hashed ELSE Append(hashed, content)
         /\ current' = HashOf(content)
    /\ history' = Trimmed(Append(history, current))
    /\ next_sequence' = next_sequence + 1
    /\ UNCHANGED discarded

\* A rollback does not give sequence numbers back.  Mutant: it does.
SequenceRewound(k) == hashed[history[k]].sequence + 1
SequenceAfter(k) == next_sequence

\* The k-th checkpoint of the history becomes current, the newer ones are gone.
Restore(k) == /\ current' = history[k]
              /\ history' = SubSeq(history, 1, k - 1)
              /\ next_sequence' = SequenceAfter(k)
              /\ discarded' = discarded \union {current}
                                  \union {history[i] : i \in k + 1 .. Len(history)}
              /\ UNCHANGED hashed

Rollback == history # <<>> /\ Restore(Len(history))

\* rollback_to(): nothing happens for the current or an unknown checkpoint.
RollbackTo(h) == /\ h # current
                 /\ \E k \in 1 .. Len(history) :
                        /\ history[k] = h
                        /\ \A i \in 1 .. k - 1 : history[i] # h
                        /\ Restore(k)

ContextNext == \/ \E p \in Payloads : Update(p)
               \/ Rollback
               \/ \E h \in DOMAIN hashed : RollbackTo(h)

ContextSpec == ContextInit /\ [][ContextNext]_contextVars

-----------------------------------------------------------------------------
Live == Append(history, current)

Hashes == 1 .. Len(hashed)

Content == [sequence : Nat, payload : Accepted \union {Zero}, parent : Nat]

(* Nothing over the capacity was ever made a checkpoint, and the history is  *)
(* never longer than max_history, on any path of update() and rollback.      *)
ContextTypeOK ==
    /\ hashed \in Seq(Content)
    /\ current \in Hashes
    /\ history \in Seq(Hashes)
    /\ Len(history) <= MaxHistory
    /\ next_sequence \in Nat
    /\ discarded \subseteq Hashes

(* The history is the line of ancestors of the current checkpoint, without a *)
(* gap: each checkpoint names the one before it as parent_hash, after any    *)
(* mixture of updates, evictions and rollbacks.                              *)
LineageIntact == \A i \in 1 .. Len(history) : hashed[Live[i + 1]].parent = Live[i]

(* A checkpoint that a rollback gave up is never current again and never in  *)
(* the history, although updates may repeat what led to it: the sequence     *)
(* number in its hash is not used twice.                                     *)
DiscardedStaysAway == \A i \in 1 .. Len(Live) : Live[i] \notin discarded

(* The context is a bounded undo stack of hashes that never come twice.      *)
Undo == INSTANCE BoundedUndo WITH top <- current, below <- history,
                                  used <- Hashes, Depth <- MaxHistory
UndoStack == Undo!UndoSpec
=============================================================================
