---------------------------- MODULE Agents_proofs ---------------------------
(* The agents' planes, each for every value of its constants and for         *)
(* behaviours of any length: the recurrent context, the representation       *)
(* router, the compute budget, the rules, the topology, the memory and the   *)
(* latent stream.  The components share no state; a section proves about one *)
(* of them.                                                                  *)
EXTENDS TaskContext, RepresentationRouter, BudgetSession, RuleFederation,
        TopologyEvolution, MemoryStore, LatentStream, TLAPS

-----------------------------------------------------------------------------
(* Proofs about TaskContext, for every capacity, payload and number of       *)
(* updates: the type invariant, the lineage of the history, and that it      *)
(* implements BoundedUndo.                                                   *)

\* No content hashed so far has the sequence number of the next checkpoint.
SequencesUsed == \A h \in Hashes : hashed[h].sequence < next_sequence

\* The hashes of the live checkpoints grow with their age, and none is given up.
LiveGrows == \A i, j \in 1 .. Len(Live) : i < j => Live[i] < Live[j]

ContextInv == /\ ContextTypeOK
              /\ SequencesUsed
              /\ LiveGrows
              /\ LineageIntact
              /\ DiscardedStaysAway

\* The live checkpoints are the history and, behind it, the current one.
LEMMA LiveElements ==
    ASSUME ContextTypeOK
    PROVE  /\ Live \in Seq(Hashes)
           /\ Len(Live) = Len(history) + 1
           /\ \A i \in 1 .. Len(history) : Live[i] = history[i]
           /\ Live[Len(history) + 1] = current
  BY DEF ContextTypeOK, Live

\* What the bound on the history keeps is the newer end of it.
LEMMA TrimmedKeepsEnd ==
    ASSUME MaxHistory \in Nat, NEW S, NEW s \in Seq(S)
    PROVE  /\ Trimmed(s) \in Seq(S)
           /\ Len(Trimmed(s)) <= MaxHistory
           /\ Len(Trimmed(s)) <= Len(s)
           /\ \A i \in 1 .. Len(Trimmed(s)) :
                  Trimmed(s)[i] = s[Len(s) - Len(Trimmed(s)) + i]
<1>1. CASE Len(s) > MaxHistory
  <2>1. Trimmed(s) = SubSeq(s, Len(s) - MaxHistory + 1, Len(s))
    BY <1>1 DEF Trimmed
  <2>2. PICK n \in Nat : n = Len(s) /\ n > MaxHistory
    BY <1>1
  <2>3. PICK first \in Nat : first = n - MaxHistory + 1
    BY <2>2
  <2>4. /\ Trimmed(s) = SubSeq(s, first, n) /\ first \in 1 .. n + 1
    BY <2>1, <2>2, <2>3
  <2>5. /\ Trimmed(s) \in Seq(S) /\ Len(Trimmed(s)) = n - first + 1
        /\ \A i \in 1 .. n - first + 1 : Trimmed(s)[i] = s[first + i - 1]
    BY <2>2, <2>4
  <2>6. n - first + 1 = MaxHistory
    BY <2>2, <2>3
  <2> QED BY <2>2, <2>3, <2>5, <2>6
<1>2. CASE ~(Len(s) > MaxHistory)
  BY <1>2 DEF Trimmed
<1> QED BY <1>1, <1>2

\* An update always makes a content that was not hashed before.
LEMMA UpdateIsFresh ==
    ASSUME ContextTypeOK, SequencesUsed, NEW p \in Payloads, Update(p)
    PROVE  /\ p \in Accepted
           /\ hashed' = Append(hashed, [sequence |-> next_sequence, payload |-> p,
                                        parent |-> current])
           /\ current' = Len(hashed) + 1
           /\ history' = Trimmed(Live)
           /\ next_sequence' = next_sequence + 1
           /\ discarded' = discarded
<1> DEFINE content == [sequence |-> next_sequence, payload |-> p, parent |-> current]
<1>1. ~Known(content)
  <2> SUFFICES ASSUME NEW h \in DOMAIN hashed, hashed[h] = content PROVE FALSE
    BY DEF Known
  <2>1. h \in Hashes
    BY DEF ContextTypeOK, Hashes
  <2>2. hashed[h].sequence < next_sequence
    BY <2>1 DEF SequencesUsed
  <2> QED BY <2>2 DEF ContextTypeOK
<1>2. HashOf(content) = Len(hashed) + 1
  BY <1>1 DEF HashOf
<1> QED BY <1>1, <1>2 DEF Update, Accepted, Live, Parent

\* Both ways back restore a checkpoint of the history.
LEMMA StepKinds ==
    ASSUME ContextTypeOK, ContextNext
    PROVE  \/ \E p \in Payloads : Update(p)
           \/ \E k \in 1 .. Len(history) : Restore(k)
<1>1. CASE Rollback
  <2>1. Len(history) \in 1 .. Len(history)
    BY <1>1 DEF Rollback, ContextTypeOK
  <2> QED BY <1>1, <2>1 DEF Rollback
<1>2. ASSUME NEW h \in DOMAIN hashed, RollbackTo(h)
      PROVE  \E k \in 1 .. Len(history) : Restore(k)
  BY <1>2 DEF RollbackTo
<1> QED BY <1>1, <1>2 DEF ContextNext

\* An update puts a fresh checkpoint on top of the live ones.
LEMMA UpdateKeepsInv ==
    ASSUME ContextInv, NEW p \in Payloads, Update(p)
    PROVE  ContextInv'
<1> USE ContextAssumption
<1>1. /\ ContextTypeOK
      /\ SequencesUsed
      /\ LiveGrows
      /\ LineageIntact
      /\ DiscardedStaysAway
  BY DEF ContextInv
<1> DEFINE content == [sequence |-> next_sequence, payload |-> p, parent |-> current]
           n == Len(history')
           d == Len(Live) - n
<1>2. /\ p \in Accepted
      /\ hashed' = Append(hashed, content)
      /\ current' = Len(hashed) + 1
      /\ history' = Trimmed(Live)
      /\ next_sequence' = next_sequence + 1
      /\ discarded' = discarded
  BY <1>1, UpdateIsFresh
<1>3. /\ Live \in Seq(Hashes)
      /\ Len(Live) = Len(history) + 1
      /\ Live[Len(Live)] = current
  BY <1>1, LiveElements
<1>4. /\ history' \in Seq(Hashes)
      /\ n <= MaxHistory
      /\ n <= Len(Live)
      /\ \A i \in 1 .. n : history'[i] = Live[d + i]
  BY <1>2, <1>3, TrimmedKeepsEnd
<1>5. content \in Content
  BY <1>1, <1>2 DEF ContextTypeOK, Content, Hashes
<1>6. /\ hashed' \in Seq(Content)
      /\ Len(hashed') = Len(hashed) + 1
      /\ \A h \in Hashes : hashed'[h] = hashed[h]
      /\ hashed'[Len(hashed) + 1] = content
  BY <1>1, <1>2, <1>5 DEF ContextTypeOK, Content, Hashes
<1>7. ContextTypeOK'
  <2>1. Hashes \subseteq Hashes' /\ current' \in Hashes'
    BY <1>1, <1>2, <1>6 DEF Hashes, ContextTypeOK
  <2>2. history' \in Seq(Hashes')
    BY <1>4, <2>1
  <2>3. next_sequence' \in Nat /\ discarded' \subseteq Hashes'
    BY <1>1, <1>2, <2>1 DEF ContextTypeOK
  <2> QED BY <1>4, <1>6, <2>1, <2>2, <2>3 DEF ContextTypeOK, Content
<1>8. /\ Len(Live') = n + 1
      /\ \A i \in 1 .. n : Live'[i] = Live[d + i]
      /\ Live'[n + 1] = Len(hashed) + 1
  <2>1. Live' = Append(history', current')
    BY DEF Live
  <2>2. history' \in Seq(Nat) /\ current' \in Nat
    BY <1>7 DEF ContextTypeOK, Hashes
  <2>3. /\ Len(Live') = n + 1
        /\ \A i \in 1 .. n : Live'[i] = history'[i]
        /\ Live'[n + 1] = current'
    BY <2>1, <2>2
  <2> QED BY <1>2, <1>4, <2>3
<1>9. SequencesUsed'
  <2> SUFFICES ASSUME NEW h \in Hashes' PROVE hashed'[h].sequence < next_sequence'
    BY DEF SequencesUsed
  <2>1. CASE h \in Hashes
    <3>1. hashed'[h].sequence < next_sequence
      BY <1>1, <1>6, <2>1 DEF SequencesUsed
    <3>2. hashed \in Seq(Content) /\ h \in 1 .. Len(hashed) /\ next_sequence \in Nat
      BY <1>1, <2>1 DEF ContextTypeOK, Hashes
    <3>3. hashed[h].sequence \in Nat
      <4>1. hashed[h] \in Content
        BY <3>2
      <4> QED BY <4>1 DEF Content
    <3>4. hashed'[h].sequence = hashed[h].sequence
      BY <1>6, <2>1
    <3> QED BY <1>2, <3>1, <3>2, <3>3, <3>4
  <2>2. CASE h = Len(hashed) + 1
    BY <1>1, <1>2, <1>6, <2>2 DEF ContextTypeOK
  <2> QED BY <1>1, <1>6, <2>1, <2>2 DEF Hashes, ContextTypeOK
<1>10. LiveGrows'
  <2> SUFFICES ASSUME NEW i \in 1 .. Len(Live'), NEW j \in 1 .. Len(Live'), i < j
               PROVE  Live'[i] < Live'[j]
    BY DEF LiveGrows
  <2>1. i \in 1 .. n /\ Live'[i] = Live[d + i] /\ d + i \in 1 .. Len(Live)
    BY <1>3, <1>4, <1>8
  <2>2. CASE j \in 1 .. n
    <3>1. Live'[j] = Live[d + j] /\ d + j \in 1 .. Len(Live) /\ d + i < d + j
      BY <1>3, <1>4, <1>8, <2>2
    <3> QED BY <1>1, <2>1, <3>1 DEF LiveGrows
  <2>3. CASE j = n + 1
    <3>1. Live[d + i] \in 1 .. Len(hashed)
      BY <1>3, <2>1 DEF Hashes
    <3>2. Live'[j] = Len(hashed) + 1
      BY <1>8, <2>3
    <3>3. Len(hashed) \in Nat
      BY <1>1 DEF ContextTypeOK
    <3> QED BY <2>1, <3>1, <3>2, <3>3
  <2>4. n \in Nat
    BY <1>4
  <2>5. j \in 1 .. n \/ j = n + 1
    <3>1. j \in 1 .. n + 1
      BY <1>8
    <3> HIDE DEF n
    <3> QED BY <2>4, <3>1
  <2> QED BY <2>2, <2>3, <2>5
<1>11. LineageIntact'
  <2> SUFFICES ASSUME NEW i \in 1 .. n
               PROVE  hashed'[Live'[i + 1]].parent = Live'[i]
    BY DEF LineageIntact
  <2>1. Live'[i] = Live[d + i] /\ d + i \in 1 .. Len(Live)
    BY <1>3, <1>4, <1>8
  <2>2. CASE i < n
    <3>1. Live'[i + 1] = Live[d + i + 1] /\ d + i \in 1 .. Len(history)
      BY <1>3, <1>4, <1>8, <2>2
    <3>2. Live[d + i + 1] \in Hashes
      BY <1>3, <3>1
    <3> QED BY <1>1, <1>6, <2>1, <3>1, <3>2 DEF LineageIntact
  <2>3. CASE i = n
    <3>1. Live'[i] = current
      BY <1>3, <1>4, <2>1, <2>3
    <3> QED BY <1>6, <1>8, <2>3, <3>1
  <2> QED BY <1>4, <2>2, <2>3
<1>12. DiscardedStaysAway'
  <2> SUFFICES ASSUME NEW i \in 1 .. Len(Live') PROVE Live'[i] \notin discarded
    BY <1>2 DEF DiscardedStaysAway
  <2>1. CASE i \in 1 .. n
    BY <1>1, <1>3, <1>4, <1>8, <2>1 DEF DiscardedStaysAway
  <2>2. CASE i = n + 1
    BY <1>1, <1>8, <2>2 DEF ContextTypeOK, Hashes
  <2> QED BY <1>4, <1>8, <2>1, <2>2
<1> QED BY <1>7, <1>9, <1>10, <1>11, <1>12 DEF ContextInv

\* A rollback takes an older checkpoint and drops the newer ones.
LEMMA RestoreKeepsInv ==
    ASSUME ContextInv, NEW k \in 1 .. Len(history), Restore(k)
    PROVE  ContextInv'
<1> USE ContextAssumption
<1>1. /\ ContextTypeOK
      /\ SequencesUsed
      /\ LiveGrows
      /\ LineageIntact
      /\ DiscardedStaysAway
  BY DEF ContextInv
<1>2. /\ current' = history[k]
      /\ history' = SubSeq(history, 1, k - 1)
      /\ next_sequence' = next_sequence
      /\ hashed' = hashed
      /\ discarded' = discarded \union {current}
                          \union {history[i] : i \in k + 1 .. Len(history)}
  BY DEF Restore, SequenceAfter
<1>3. /\ Len(Live) = Len(history) + 1
      /\ Live[Len(history) + 1] = current
      /\ \A i \in 1 .. Len(history) : Live[i] = history[i]
  BY <1>1, LiveElements
<1>4. /\ history' \in Seq(Hashes)
      /\ Len(history') = k - 1
      /\ \A i \in 1 .. k - 1 : history'[i] = history[i]
  BY <1>1, <1>2 DEF ContextTypeOK
<1>5. ContextTypeOK'
  <2>1. Hashes' = Hashes
    BY <1>2 DEF Hashes
  <2>2. current' \in Hashes
    BY <1>1, <1>2 DEF ContextTypeOK
  <2>3. discarded' \subseteq Hashes
    BY <1>1, <1>2 DEF ContextTypeOK
  <2> QED BY <1>1, <1>2, <1>4, <2>1, <2>2, <2>3 DEF ContextTypeOK
<1>6. Len(Live') = k /\ \A i \in 1 .. k : Live'[i] = Live[i]
  BY <1>2, <1>3, <1>4 DEF Live
<1>7. SequencesUsed'
  BY <1>1, <1>2 DEF SequencesUsed, Hashes
<1>8. LiveGrows'
  BY <1>1, <1>3, <1>6 DEF LiveGrows
<1>9. LineageIntact'
  <2> SUFFICES ASSUME NEW i \in 1 .. k - 1
               PROVE  hashed[Live'[i + 1]].parent = Live'[i]
    BY <1>2, <1>4 DEF LineageIntact
  <2> QED BY <1>1, <1>6 DEF LineageIntact
<1>10. DiscardedStaysAway'
  <2> SUFFICES ASSUME NEW i \in 1 .. k PROVE Live[i] \notin discarded'
    BY <1>6 DEF DiscardedStaysAway
  <2>1. Live[i] \notin discarded
    BY <1>1, <1>3 DEF DiscardedStaysAway
  <2>2. Live[i] # current
    <3>1. Live[i] < Live[Len(history) + 1]
      BY <1>1, <1>3 DEF LiveGrows, ContextTypeOK
    <3>2. current \in Nat
      BY <1>1 DEF ContextTypeOK, Hashes
    <3> QED BY <1>3, <3>1, <3>2
  <2>3. ASSUME NEW j \in k + 1 .. Len(history) PROVE Live[i] # history[j]
    <3>1. Live[i] < Live[j] /\ Live[j] = history[j]
      BY <1>1, <1>3 DEF LiveGrows
    <3>2. history[j] \in Hashes
      BY <1>1 DEF ContextTypeOK
    <3> QED BY <3>1, <3>2 DEF Hashes
  <2> QED BY <1>2, <2>1, <2>2, <2>3
<1> QED BY <1>5, <1>7, <1>8, <1>9, <1>10 DEF ContextInv

\* A new context has one checkpoint.
LEMMA InitHasInv == ContextInit => ContextInv
<1> USE ContextAssumption
<1> SUFFICES ASSUME ContextInit PROVE ContextInv
  OBVIOUS
<1>1. Genesis \in Content
  BY DEF Genesis, Content
<1>2. /\ hashed = <<Genesis>> /\ hashed \in Seq(Content)
      /\ Len(hashed) = 1 /\ Hashes = {1}
      /\ current = 1 /\ history = <<>> /\ next_sequence = 1 /\ discarded = {}
  BY <1>1 DEF ContextInit, Hashes
<1>3. ContextTypeOK
  BY <1>2 DEF ContextTypeOK, Content
<1>4. Len(Live) = 1 /\ Live[1] = 1
  BY <1>2 DEF Live
<1> QED BY <1>2, <1>3, <1>4
        DEF ContextInv, SequencesUsed, LiveGrows, LineageIntact, DiscardedStaysAway, Genesis

\* Every step keeps the invariant.
LEMMA StepKeepsInv == ContextInv /\ [ContextNext]_contextVars => ContextInv'
<1> SUFFICES ASSUME ContextInv, [ContextNext]_contextVars PROVE ContextInv'
  OBVIOUS
<1>1. CASE ContextNext
  <2>1. \/ \E p \in Payloads : Update(p)
        \/ \E k \in 1 .. Len(history) : Restore(k)
    BY <1>1, StepKinds DEF ContextInv
  <2> QED BY <2>1, UpdateKeepsInv, RestoreKeepsInv
<1>2. CASE UNCHANGED contextVars
  BY <1>2 DEF contextVars, ContextInv, ContextTypeOK, SequencesUsed, LiveGrows,
              LineageIntact, DiscardedStaysAway, Live, Hashes
<1> QED BY <1>1, <1>2

\* The invariant holds in every state.
LEMMA InvHolds == ContextSpec => []ContextInv
  BY InitHasInv, StepKeepsInv, PTL DEF ContextSpec

(* Every checkpoint was within the capacity and the history within its       *)
(* bound, on any path of update() and the two rollbacks.                     *)
THEOREM ContextTyped == ContextSpec => []ContextTypeOK
<1>1. ContextInv => ContextTypeOK
  BY DEF ContextInv
<1> QED BY <1>1, InvHolds, PTL

(* The history is the unbroken line of ancestors of the current checkpoint.  *)
THEOREM LineageProved == ContextSpec => []LineageIntact
<1>1. ContextInv => LineageIntact
  BY DEF ContextInv
<1> QED BY <1>1, InvHolds, PTL

(* What a rollback gave up does not come back by any later update.           *)
THEOREM DiscardedProved == ContextSpec => []DiscardedStaysAway
<1>1. ContextInv => DiscardedStaysAway
  BY DEF ContextInv
<1> QED BY <1>1, InvHolds, PTL

(* update() and the rollbacks implement a bounded undo stack whose tokens,   *)
(* the hashes, are never used twice.                                         *)
THEOREM ContextIsUndo == ContextSpec => UndoStack
<1> USE ContextAssumption
<1>1. ContextInit => Undo!UndoInit
  BY DEF ContextInit, Undo!UndoInit, Hashes
<1>2. ASSUME ContextInv, [ContextNext]_contextVars
      PROVE  [Undo!PushFresh \/ Undo!GoBack]_(Undo!undoVars)
  <2>1. ContextTypeOK /\ SequencesUsed
    BY <1>2 DEF ContextInv
  <2>2. ASSUME NEW p \in Payloads, Update(p) PROVE Undo!PushFresh
    <3>1. /\ hashed' = Append(hashed, [sequence |-> next_sequence, payload |-> p,
                                       parent |-> current])
          /\ current' = Len(hashed) + 1
          /\ history' = Trimmed(Live)
      BY <2>1, <2>2, UpdateIsFresh
    <3>2. Len(hashed') = Len(hashed) + 1 /\ Len(hashed) \in Nat
      BY <2>1, <3>1 DEF ContextTypeOK
    <3>3. current' \notin Hashes /\ Hashes' = Hashes \union {current'}
      BY <3>1, <3>2 DEF Hashes
    <3> QED BY <3>1, <3>3 DEF Undo!PushFresh, Undo!Newest, Trimmed, Live
  <2>3. ASSUME NEW k \in 1 .. Len(history), Restore(k) PROVE Undo!GoBack
    BY <2>3 DEF Restore, Undo!GoBack, Hashes
  <2>4. CASE ContextNext
    BY <2>1, <2>2, <2>3, <2>4, StepKinds
  <2>5. CASE UNCHANGED contextVars
    BY <2>5 DEF contextVars, Undo!undoVars, Hashes
  <2> QED BY <1>2, <2>4, <2>5
<1> QED BY <1>1, <1>2, InvHolds, PTL DEF ContextSpec, UndoStack, Undo!UndoSpec

-----------------------------------------------------------------------------
(* route() chooses what a comparison of all candidates would, for every set  *)
(* of modes, gains and costs and every resolution of the scores.             *)

RouterTypeOK == /\ candidates \in Seq(Candidates)
                /\ best_mode \in Modes \union {None}
                /\ best_score \in Int

Best == RouterTypeOK /\ RouteIsBest

\* The score of a tested candidate is an integer.
LEMMA DensityInt == \A c \in Candidates : Eligible(c) => Density(c) \in Int
<1> SUFFICES ASSUME NEW c \in Candidates, Eligible(c) PROVE Density(c) \in Int
  OBVIOUS
<1>1. c.gain \in Int /\ c.cost \in Int /\ c.cost > 0 /\ c.gain # Unmeasured
  BY RouterAssumption DEF Candidates, Eligible
<1>2. c.gain * Resolution \in Int
  BY <1>1, RouterAssumption
<1> QED BY <1>1, <1>2 DEF Density

\* The candidates before the new one stay, with their scores, and the new one
\* is tested if it is eligible.
LEMMA TestedAfter ==
    ASSUME RouterTypeOK, NEW c \in Candidates, Consider(c),
           NEW n \in Nat, n = Len(candidates) + 1
    PROVE  /\ Tested \subseteq 1 .. Len(candidates)
           /\ n \notin Tested
           /\ Tested' = Tested \union (IF Eligible(c) THEN {n} ELSE {})
           /\ \A i \in Tested : /\ candidates'[i] = candidates[i]
                                /\ Worth(i)' = Worth(i)
                                /\ Worth(i) \in Int
           /\ candidates'[n] = c
           /\ Worth(n)' = Density(c)
<1>1. /\ candidates' = Append(candidates, c)
      /\ candidates \in Seq(Candidates)
  BY DEF Consider, RouterTypeOK
<1>2. /\ DOMAIN candidates = 1 .. Len(candidates)
      /\ DOMAIN candidates' = 1 .. n
      /\ Len(candidates) \in Nat
      /\ candidates'[n] = c
      /\ \A i \in 1 .. Len(candidates) : candidates'[i] = candidates[i]
      /\ \A i \in 1 .. Len(candidates) : candidates[i] \in Candidates
  BY <1>1
<1>3. Tested \subseteq 1 .. Len(candidates)
  BY <1>2 DEF Tested
<1>4. Tested' = Tested \union (IF Eligible(c) THEN {n} ELSE {})
  BY <1>2 DEF Tested, Eligible
<1>5. \A i \in Tested : Eligible(candidates[i]) /\ candidates[i] \in Candidates
  BY <1>2 DEF Tested, Eligible
<1>6. \A i \in Tested : Worth(i)' = Worth(i) /\ Worth(i) \in Int
  BY <1>2, <1>3, <1>5, DensityInt DEF Worth
<1>7. Worth(n)' = Density(c)
  BY <1>2 DEF Worth
<1> QED BY <1>2, <1>3, <1>4, <1>6, <1>7

\* One more candidate leaves the choice the best of all.
LEMMA ConsiderKeepsBest == ASSUME Best, NEW c \in Candidates, Consider(c) PROVE Best'
<1> USE DEF Best
<1>0. RouterTypeOK /\ RouteIsBest
  OBVIOUS
<1>01. Len(candidates) + 1 \in Nat
  BY <1>0 DEF RouterTypeOK
<1>02. PICK n \in Nat : n = Len(candidates) + 1
  BY <1>01
<1>1. /\ Tested \subseteq 1 .. Len(candidates)
      /\ n \notin Tested
      /\ Tested' = Tested \union (IF Eligible(c) THEN {n} ELSE {})
      /\ \A i \in Tested : /\ candidates'[i] = candidates[i]
                           /\ Worth(i)' = Worth(i)
                           /\ Worth(i) \in Int
      /\ candidates'[n] = c
      /\ Worth(n)' = Density(c)
  BY <1>0, <1>02, TestedAfter
<1>2. RouterTypeOK'
  <2>1. candidates' \in Seq(Candidates)
    BY <1>0 DEF Consider, RouterTypeOK
  <2>2. best_mode' \in Modes \union {None} /\ best_score' \in Int
    BY <1>0, DensityInt DEF Consider, RouterTypeOK, Wins, Candidates
  <2> QED BY <2>1, <2>2 DEF RouterTypeOK
<1>3. Len(candidates) \in Nat /\ n = Len(candidates) + 1 /\ best_score \in Int
  BY <1>0, <1>02 DEF RouterTypeOK
<1>4. CASE Wins(c)
  <2>1. /\ best_mode' = c.mode /\ best_score' = Density(c)
        /\ Eligible(c) /\ Density(c) > best_score
        /\ Density(c) \in Int
    BY <1>4, DensityInt DEF Consider, Wins
  <2>2. best_score >= 0 /\ \A j \in Tested : Worth(j) <= best_score
    BY <1>0, <1>1, <1>3 DEF RouteIsBest
  <2>3. Tested' = Tested \union {n}
    BY <1>1, <2>1
  <2>4. \A j \in Tested' : Worth(j)' <= Density(c) /\ (j < n => Worth(j)' < Density(c))
    <3> SUFFICES ASSUME NEW j \in Tested' 
                 PROVE Worth(j)' <= Density(c) /\ (j < n => Worth(j)' < Density(c))
      OBVIOUS
    <3>1. CASE j = n
      BY <3>1, <1>1, <2>1
    <3>2. CASE j \in Tested
      BY <3>2, <1>1, <1>3, <2>1, <2>2
    <3> QED BY <3>1, <3>2, <2>3
  <2>5. /\ n \in Tested' /\ best_mode' = candidates'[n].mode
        /\ best_score' = Worth(n)' /\ Worth(n)' > 0
    BY <1>1, <1>3, <2>1, <2>2, <2>3
  <2>6. \A j \in Tested' : Worth(j)' <= Worth(n)' /\ (j < n => Worth(j)' < Worth(n)')
    BY <1>1, <2>4
  <2> QED BY <1>2, <2>5, <2>6 DEF RouteIsBest
<1>5. CASE ~Wins(c)
  <2>1. best_mode' = best_mode /\ best_score' = best_score
    BY <1>5 DEF Consider
  <2>2. Eligible(c) => Density(c) <= best_score /\ Density(c) \in Int
    BY <1>5, <1>3, DensityInt DEF Wins
  <2>3. CASE /\ best_mode = None /\ best_score = 0
             /\ \A i \in Tested : Worth(i) <= 0
    <3>1. \A i \in Tested' : Worth(i)' <= 0
      BY <1>1, <2>2, <2>3
    <3> QED BY <1>2, <2>1, <2>3, <3>1 DEF RouteIsBest
  <2>4. ASSUME NEW i \in Tested,
               best_mode = candidates[i].mode, best_score = Worth(i), Worth(i) > 0,
               \A j \in Tested : Worth(j) <= Worth(i) /\ (j < i => Worth(j) < Worth(i))
        PROVE  Best'
    <3>1. /\ i \in Tested' /\ i < n /\ i \in Nat
          /\ candidates'[i] = candidates[i] /\ Worth(i)' = Worth(i)
      BY <1>1, <1>3
    <3>2. \A j \in Tested' : Worth(j)' <= Worth(i)' /\ (j < i => Worth(j)' < Worth(i)')
      <4> SUFFICES ASSUME NEW j \in Tested'
                   PROVE Worth(j)' <= Worth(i)' /\ (j < i => Worth(j)' < Worth(i)')
        OBVIOUS
      <4>1. CASE j \in Tested
        BY <4>1, <1>1, <2>4
      <4>2. CASE j = n /\ Eligible(c)
        BY <4>2, <1>1, <1>3, <2>2, <2>4, <3>1
      <4> QED BY <4>1, <4>2, <1>1
    <3> QED BY <1>2, <2>1, <2>4, <3>1, <3>2 DEF RouteIsBest
  <2> QED BY <1>0, <2>3, <2>4 DEF RouteIsBest
<1> QED BY <1>4, <1>5

(* routing.rs:358: no order of candidates, no tie and no untested candidate  *)
(* leads route() past the best one, or past silence when none is worth it.   *)
THEOREM RouteAlwaysBest == RouterSpec => []RouteIsBest
<1>1. RouterInit => Best
  BY DEF RouterInit, Best, RouterTypeOK, RouteIsBest, Tested
<1>2. Best /\ [RouterNext]_routerVars => Best'
  <2> SUFFICES ASSUME Best, [RouterNext]_routerVars PROVE Best'
    OBVIOUS
  <2>1. CASE RouterNext
    BY <2>1, ConsiderKeepsBest DEF RouterNext
  <2>2. CASE UNCHANGED routerVars
    BY <2>2 DEF routerVars, Best, RouterTypeOK, RouteIsBest, Tested, Worth, Density
  <2> QED BY <2>1, <2>2
<1>3. Best => RouteIsBest
  BY DEF Best
<1> QED BY <1>1, <1>2, <1>3, PTL DEF RouterSpec

-----------------------------------------------------------------------------
(* A reasoning call ends within its routed budget and is never cut short of  *)
(* what its class guarantees, for every configuration, however its limits    *)
(* are ordered, and for every signal and measurement.                        *)

Outcomes == {"idle", "running", "Converged", "ComputeCeiling", "LatencyBudgetExceeded"}

BudgetTypeOK ==
    /\ outcome \in Outcomes
    /\ risk_class \in RiskClasses
    /\ signals \in [demand : Nat \union {NaN}, pressure : Nat]
    /\ budget \in [iterations : Nat, threshold : Int]
    /\ iteration \in Nat
    /\ last \in [converged : BOOLEAN, confidence : Int, policy_safe : BOOLEAN,
                 risk : Int, late : BOOLEAN]

(* What the invariants rest on: during a call the budget is the one route()  *)
(* computes from the signals, the call runs below it, and it ended for the   *)
(* reason that evaluate_step() gave at the last iterate.                     *)
BudgetInv ==
    /\ BudgetTypeOK
    /\ outcome # "idle" => budget = Budget(signals, risk_class)
    /\ outcome = "running" => iteration = 0 \/ iteration < budget.iterations
    /\ outcome \notin {"idle", "running"} =>
          /\ iteration >= 1 /\ outcome = Outcome(last, iteration)
          /\ iteration = 1 \/ iteration <= budget.iterations

\* Clamped to per cent, a score is a number that is not negative, or NaN.
LEMMA ScoreType ==
    ASSUME NEW s \in [demand : Nat \union {NaN}, pressure : Nat], NEW class \in RiskClasses
    PROVE  Score(s, class) \in Nat \union {NaN}
<1>1. s.demand \in Nat \union {NaN} /\ s.pressure \in Nat
  OBVIOUS
<1> QED BY <1>1 DEF Score, Clamp01, NaN

\* scale_u32() never answers less than the lower end of its range.
LEMMA ScaledFromFloor ==
    ASSUME NEW lo \in Nat, NEW hi \in Nat, NEW score \in Nat \union {NaN}
    PROVE  Scaled(lo, hi, score) \in Nat /\ Scaled(lo, hi, score) >= lo
<1>1. CASE hi <= lo \/ score = NaN
  BY <1>1 DEF Scaled
<1>2. CASE ~(hi <= lo \/ score = NaN)
  <2>1. hi - lo \in Nat /\ score \in Nat
    BY <1>2
  <2>2. PICK range \in Nat : range = hi - lo
    BY <2>1
  <2>3. 2 * range * score \in Nat
    BY <2>1, <2>2
  <2>4. PICK n \in Nat : n = 2 * range * score + 100
    BY <2>3
  <2>5. n \div 200 \in Nat
    BY <2>4
  <2>6. Scaled(lo, hi, score) = lo + n \div 200
    BY <1>2, <2>2, <2>4 DEF Scaled
  <2> QED BY <2>5, <2>6
<1> QED BY <1>1, <1>2

\* The threshold asked for, before any floor.
LEMMA ThresholdType == ASSUME NEW score \in Nat PROVE AskedThreshold(score) \in Int
<1>1. Config.min_threshold \in Int /\ Config.max_threshold \in Int
  BY BudgetAssumption
<1>2. PICK n \in Int : n = (Config.max_threshold - Config.min_threshold) * score
  BY <1>1
<1>3. n \div 100 \in Int
  BY <1>2
<1> QED BY <1>1, <1>2, <1>3 DEF AskedThreshold

\* route(): no budget is below the iterations a candidate needs, and none of a
\* protected class below its floors, not even with signals that are NaN.
LEMMA BudgetFloors ==
    ASSUME NEW s \in [demand : Nat \union {NaN}, pressure : Nat], NEW class \in RiskClasses
    PROVE  /\ Budget(s, class) \in [iterations : Nat, threshold : Int]
           /\ Budget(s, class).iterations >= Config.min_iterations
           /\ Protected(class) =>
                 /\ Budget(s, class).iterations >= Config.iteration_floor
                 /\ Budget(s, class).threshold >= Config.verification_floor
<1>1. PICK score : score = Score(s, class)
  OBVIOUS
<1>2. score \in Nat \union {NaN}
  BY <1>1, ScoreType
<1>3. /\ Config.min_iterations \in Nat /\ Config.max_iterations \in Nat
      /\ Config.iteration_floor \in Nat /\ Config.verification_floor \in Int
  BY BudgetAssumption
<1>4. PICK scaled \in Nat : /\ scaled = Scaled(Config.min_iterations, Config.max_iterations, score)
                            /\ scaled >= Config.min_iterations
  BY <1>2, <1>3, ScaledFromFloor
<1>5. /\ Budget(s, class).iterations = Floored(scaled, Config.iteration_floor, class)
      /\ Budget(s, class).threshold = RoutedThreshold(score, class)
      /\ Budget(s, class) = [iterations |-> Floored(scaled, Config.iteration_floor, class),
                             threshold |-> RoutedThreshold(score, class)]
  BY <1>1, <1>4 DEF Budget
<1>6. /\ RoutedThreshold(score, class) \in Int
      /\ Protected(class) => RoutedThreshold(score, class) >= Config.verification_floor
  <2>1. CASE score = NaN
    BY <1>3, <2>1 DEF RoutedThreshold, Unreachable
  <2>2. CASE score # NaN
    <3>1. PICK asked \in Int : asked = AskedThreshold(score)
      BY <1>2, <2>2, ThresholdType
    <3> QED BY <1>3, <2>2, <3>1 DEF RoutedThreshold, Floored, Greater
  <2> QED BY <2>1, <2>2
<1>7. /\ Floored(scaled, Config.iteration_floor, class) \in Nat
      /\ Floored(scaled, Config.iteration_floor, class) >= Config.min_iterations
      /\ Protected(class) =>
            Floored(scaled, Config.iteration_floor, class) >= Config.iteration_floor
  BY <1>3, <1>4 DEF Floored, Greater
<1> QED BY <1>5, <1>6, <1>7

\* No call has begun at the start.
LEMMA BudgetInvInit == BudgetInit => BudgetInv
BY DEF BudgetInit, BudgetInv, BudgetTypeOK, Outcomes, RiskClasses, NoMeasurement

\* route() answers a budget for the signals; the call has not stepped yet.
LEMMA RouteInv ==
    ASSUME BudgetInv, NEW s \in Signals, NEW class \in RiskClasses, Route(s, class)
    PROVE  BudgetInv'
<1>1. s \in [demand : Nat \union {NaN}, pressure : Nat]
  BY BudgetAssumption
<1>2. Budget(s, class) \in [iterations : Nat, threshold : Int]
  BY <1>1, BudgetFloors
<1>3. BudgetTypeOK'
  BY <1>1, <1>2 DEF BudgetInv, BudgetTypeOK, Route, Outcomes
<1> QED BY <1>3 DEF BudgetInv, Route

\* evaluate_step() goes on only below the budget, whatever was measured.
LEMMA IterateInv ==
    ASSUME BudgetInv, NEW m \in Measurements, Iterate(m)
    PROVE  BudgetInv'
<1>1. m \in [converged : BOOLEAN, confidence : Int, policy_safe : BOOLEAN,
             risk : Int, late : BOOLEAN]
  BY BudgetAssumption
<1>2. /\ Outcome(m, iteration') \in Outcomes \ {"idle"}
      /\ Outcome(m, iteration') = "running" => ~(iteration' >= budget.iterations)
  BY DEF Outcome, Outcomes
<1>3. /\ iteration \in Nat /\ iteration' = iteration + 1 /\ budget.iterations \in Nat
      /\ budget' = budget /\ risk_class' = risk_class /\ signals' = signals
      /\ outcome = "running" /\ outcome' = Outcome(m, iteration') /\ last' = m
      /\ iteration = 0 \/ iteration < budget.iterations
  BY DEF BudgetInv, BudgetTypeOK, Iterate
<1>4. BudgetTypeOK'
  BY <1>1, <1>2, <1>3 DEF BudgetInv, BudgetTypeOK
<1>5. (outcome # "idle" => budget = Budget(signals, risk_class))'
  BY <1>3 DEF BudgetInv
<1>6. outcome' = Outcome(last, iteration)'
  BY <1>3 DEF Outcome, Sufficient
<1>7. /\ outcome' = "running" => iteration' < budget'.iterations
      /\ iteration' >= 1
      /\ iteration' = 1 \/ iteration' <= budget'.iterations
  BY <1>2, <1>3
<1> QED BY <1>4, <1>5, <1>6, <1>7 DEF BudgetInv

\* Route and Iterate are all that happens.
LEMMA BudgetInvariant == BudgetSpec => []BudgetInv
<1>1. BudgetInv /\ [BudgetNext]_budgetVars => BudgetInv'
  <2> SUFFICES ASSUME BudgetInv, [BudgetNext]_budgetVars PROVE BudgetInv'
    OBVIOUS
  <2>1. CASE \E s \in Signals, class \in RiskClasses : Route(s, class)
    BY <2>1, RouteInv
  <2>2. CASE \E m \in Measurements : Iterate(m)
    BY <2>2, IterateInv
  <2>3. CASE UNCHANGED budgetVars
    BY <2>3 DEF budgetVars, BudgetInv, BudgetTypeOK, Outcome, Sufficient
  <2> QED BY <2>1, <2>2, <2>3 DEF BudgetNext
<1> QED BY <1>1, BudgetInvInit, PTL DEF BudgetSpec

\* What stopped a call: sufficiency came first, and the ceiling only at the budget.
LEMMA StopReasons ==
    ASSUME BudgetInv
    PROVE  /\ outcome = "Converged" => Sufficient(last)
           /\ outcome = "ComputeCeiling" =>
                 /\ iteration >= budget.iterations
                 /\ ~(iteration >= Config.min_iterations /\ Sufficient(last))
BY DEF BudgetInv, Outcome

(* A call ends within the iterations it was routed, and one that is told it  *)
(* hit the ceiling (evaluate_step(), budget.rs) had no sufficient candidate  *)
(* in hand: its budget was never below the iterations that candidate needs,  *)
(* not even where min_iterations is configured above max_iterations.         *)
THEOREM CeilingAlwaysHolds == BudgetSpec => []CeilingHolds
<1>1. BudgetInv => CeilingHolds
  <2> SUFFICES ASSUME BudgetInv PROVE CeilingHolds
    OBVIOUS
  <2>1. /\ iteration \in Nat /\ budget.iterations \in Nat /\ Config.min_iterations \in Nat
        /\ signals \in [demand : Nat \union {NaN}, pressure : Nat] /\ risk_class \in RiskClasses
    BY BudgetAssumption DEF BudgetInv, BudgetTypeOK
  <2>2. /\ outcome = "running" => iteration < Greater(1, budget.iterations)
        /\ outcome # "idle" => iteration <= Greater(1, budget.iterations)
    BY <2>1 DEF BudgetInv, Greater
  <2>3. ASSUME outcome = "ComputeCeiling" PROVE ~Sufficient(last)
    <3>1. budget.iterations >= Config.min_iterations
      BY <2>1, <2>3, BudgetFloors DEF BudgetInv
    <3> QED BY <2>1, <2>3, <3>1, StopReasons
  <2> QED BY <2>2, <2>3 DEF CeilingHolds
<1> QED BY <1>1, BudgetInvariant, PTL

(* Latency and energy pressure do not touch the budget of a safety-critical  *)
(* call (route(), budget.rs), and such a call is answered only above the     *)
(* verification floor, or given up only past the iteration floor.            *)
THEOREM VerificationAlwaysProtected == BudgetSpec => []VerificationProtected
<1>1. BudgetInv => VerificationProtected
  <2> SUFFICES ASSUME BudgetInv, risk_class = "SafetyCritical" PROVE
        /\ outcome = "Converged" => /\ last.confidence >= Config.verification_floor
                                    /\ last.risk <= Config.risk_ceiling["SafetyCritical"]
                                    /\ last.policy_safe
        /\ outcome = "ComputeCeiling" => iteration >= Config.iteration_floor
        /\ outcome # "idle" => budget = Budget([signals EXCEPT !.pressure = 0], risk_class)
    BY DEF VerificationProtected
  <2>1. /\ iteration \in Nat /\ budget.iterations \in Nat /\ budget.threshold \in Int
        /\ last.confidence \in Int
        /\ signals \in [demand : Nat \union {NaN}, pressure : Nat] /\ risk_class \in RiskClasses
        /\ Config.verification_floor \in Int /\ Config.iteration_floor \in Nat
    BY BudgetAssumption DEF BudgetInv, BudgetTypeOK
  <2>2. ASSUME outcome # "idle"
        PROVE  /\ budget.iterations >= Config.iteration_floor
               /\ budget.threshold >= Config.verification_floor
    BY <2>1, <2>2, BudgetFloors DEF BudgetInv, Protected
  <2>3. ASSUME outcome = "Converged"
        PROVE  /\ last.confidence >= Config.verification_floor
               /\ last.risk <= Config.risk_ceiling["SafetyCritical"]
               /\ last.policy_safe
    BY <2>1, <2>2, <2>3, StopReasons DEF Sufficient
  <2>4. ASSUME outcome = "ComputeCeiling" PROVE iteration >= Config.iteration_floor
    BY <2>1, <2>2, <2>4, StopReasons
  <2>5. Score(signals, risk_class) = Score([signals EXCEPT !.pressure = 0], risk_class)
    BY <2>1 DEF Score, Protected
  <2>6. ASSUME outcome # "idle"
        PROVE  budget = Budget([signals EXCEPT !.pressure = 0], risk_class)
    BY <2>5, <2>6 DEF BudgetInv, Budget
  <2> QED BY <2>3, <2>4, <2>6
<1> QED BY <1>1, BudgetInvariant, PTL

-----------------------------------------------------------------------------
(* The scopes of rules are kept for every set of nodes, keys and clusters,   *)
(* however often rules are offered, heard, installed and passed on.          *)

Installed == rulesOf \in [Nodes -> [Keys -> Rules \union {NoRule}]]

\* A rule may be in force at a node.
InForce(rule, n) == rule # NoRule => /\ rule.scope \in Clusters => rule.scope = ClusterOf[n]
                                     /\ rule.scope = "Private" => rule.origin = n

FederationInv == /\ Installed
                 /\ \A n \in Nodes, k \in Keys : InForce(rulesOf[n][k], n)
                 /\ air \subseteq Keys \X Rules
                 /\ \A e \in air : e[2].scope # "Private"

\* A rule that may be in force where it is installed leaves the rest alone.
LEMMA InstallKeeps ==
    ASSUME FederationInv, NEW n \in Nodes, NEW k \in Keys, NEW rule \in Rules \union {NoRule},
           InForce(rule, n), Install(n, k, rule)
    PROVE  Installed' /\ \A m \in Nodes, j \in Keys : InForce(rulesOf'[m][j], m)
<1>1. /\ rulesOf \in [Nodes -> [Keys -> Rules \union {NoRule}]]
      /\ rulesOf' = [rulesOf EXCEPT ![n][k] = rule]
  BY DEF FederationInv, Installed, Install
<1>2. Installed'
  <2>1. [rulesOf[n] EXCEPT ![k] = rule] \in [Keys -> Rules \union {NoRule}]
    BY <1>1
  <2> QED BY <1>1, <2>1 DEF Installed
<1>3. ASSUME NEW m \in Nodes, NEW j \in Keys PROVE InForce(rulesOf'[m][j], m)
  <2>1. InForce(rulesOf[m][j], m)
    BY DEF FederationInv
  <2>2. rulesOf'[m][j] = IF m = n /\ j = k THEN rule ELSE rulesOf[m][j]
    BY <1>1
  <2>3. CASE m = n /\ j = k
    BY <2>2, <2>3
  <2>4. CASE ~(m = n /\ j = k)
    BY <2>1, <2>2, <2>4
  <2> QED BY <2>3, <2>4
<1> QED BY <1>2, <1>3

\* No rule is in force at the start.
LEMMA InitScoped == FederationInit => FederationInv
  BY DEF FederationInit, FederationInv, Installed, InForce

\* Every step keeps the rules in force where their scopes allow.
LEMMA StepScoped == FederationInv /\ [FederationNext]_federationVars => FederationInv'
<1> SUFFICES ASSUME FederationInv, [FederationNext]_federationVars PROVE FederationInv'
  OBVIOUS
<1>0. /\ Installed
      /\ \A n \in Nodes, k \in Keys : InForce(rulesOf[n][k], n)
      /\ air \subseteq Keys \X Rules
      /\ \A e \in air : e[2].scope # "Private"
  BY DEF FederationInv
<1>1. ASSUME NEW n \in Nodes, NEW k \in Keys, NEW rule \in Rules, Learn(n, k, rule)
      PROVE  FederationInv'
  <2>1. /\ InForce(rule, n) /\ Install(n, k, rule) /\ air' = air
    BY <1>1 DEF Learn, InForce
  <2>2. Installed' /\ \A m \in Nodes, j \in Keys : InForce(rulesOf'[m][j], m)
    BY <2>1, InstallKeeps
  <2> QED BY <1>0, <2>1, <2>2 DEF FederationInv, InForce
<1>2. ASSUME NEW n \in Nodes, NEW k \in Keys, Remove(n, k) PROVE FederationInv'
  <2>1. /\ InForce(NoRule, n) /\ Install(n, k, NoRule) /\ air' = air
    BY <1>2 DEF Remove, InForce
  <2>2. Installed' /\ \A m \in Nodes, j \in Keys : InForce(rulesOf'[m][j], m)
    BY <2>1, InstallKeeps
  <2> QED BY <1>0, <2>1, <2>2 DEF FederationInv, InForce
<1>3. ASSUME NEW n \in Nodes, NEW k \in Keys, NEW p \in Posts, RecordHoldout(n, k, p)
      PROVE  FederationInv'
  BY <1>0, <1>3 DEF RecordHoldout, FederationInv, Installed, InForce
<1>4. ASSUME NEW n \in Nodes, NEW k \in Keys, NEW c \in Clusters, Offer(n, k, c)
      PROVE  FederationInv'
  <2>1. /\ rulesOf' = rulesOf
        /\ air' = air \union {<<k, rulesOf[n][k]>>}
        /\ rulesOf[n][k] # NoRule
        /\ OfferableTo(rulesOf[n][k], c)
    BY <1>4 DEF Offer
  <2>2. rulesOf[n][k] \in Rules
    BY <1>0, <2>1 DEF Installed
  <2>3. rulesOf[n][k].scope # "Private"
    BY <2>1, FederationAssumption DEF OfferableTo
  <2>4. <<k, rulesOf[n][k]>> \in Keys \X Rules
    BY <2>2
  <2>5. air' \subseteq Keys \X Rules /\ \A e \in air' : e[2].scope # "Private"
    BY <1>0, <2>1, <2>3, <2>4
  <2> QED BY <1>0, <2>1, <2>5 DEF FederationInv, Installed, InForce
<1>5. ASSUME NEW n \in Nodes, NEW k \in Keys, NEW e \in air, e[1] = k, Hear(n, k, e[2])
      PROVE  FederationInv'
  <2>1. /\ <<k, e[2]>> \in air /\ InScope(e[2], n)
        /\ Install(n, k, e[2]) /\ air' = air
    BY <1>5 DEF Hear
  <2>2. e[2] \in Rules /\ InForce(e[2], n)
    BY <1>0, <2>1 DEF InScope, InForce
  <2>3. Installed' /\ \A m \in Nodes, j \in Keys : InForce(rulesOf'[m][j], m)
    BY <2>1, <2>2, InstallKeeps
  <2> QED BY <1>0, <2>1, <2>3 DEF FederationInv, InForce
<1>6. CASE UNCHANGED federationVars
  BY <1>0, <1>6 DEF federationVars, FederationInv, Installed, InForce
<1> QED BY <1>1, <1>2, <1>3, <1>4, <1>5, <1>6 DEF FederationNext

(* rule.rs:102 and admission.rs:64: the sender keeps a private rule off the  *)
(* air and the receiver keeps other clusters' rules out, so no path through  *)
(* any number of nodes carries a rule out of its scope.                      *)
THEOREM ScopesAlwaysKept == FederationSpec => []ScopesKept
<1>1. FederationInv => ScopesKept
  BY DEF FederationInv, ScopesKept, InForce
<1> QED BY <1>1, InitScoped, StepScoped, PTL DEF FederationSpec

-----------------------------------------------------------------------------
(* Why the rules come to rest: every change of them climbs, and there is a    *)
(* top.  First counts the edits; between two edits the observations; and     *)
(* between two observations the evidence for the rules in force.             *)

\* How often the holdout of a node bears its rule for a key out.
Evidence(n, k) == Correct(n, k, rulesOf[n][k])

\* One edit more; one observation more at a node, and the same rules; or at one
\* node and key a rule with more evidence, while the rest stays.
ClimbStep ==
    \/ edits' = edits + 1
    \/ /\ UNCHANGED <<edits, rulesOf>>
       /\ \E n \in Nodes : observed' = [observed EXCEPT ![n] = @ + 1]
    \/ /\ UNCHANGED <<edits, observed>>
       /\ \E n \in Nodes, k \in Keys :
              /\ Evidence(n, k)' > Evidence(n, k)
              /\ \A m \in Nodes, j \in Keys : <<m, j>> # <<n, k>> => Evidence(m, j)' = Evidence(m, j)

\* As high as it goes.
BelowTheTop ==
    /\ edits \in 0 .. MaxEdits
    /\ observed \in [Nodes -> 0 .. MaxObserved]
    /\ \A n \in Nodes, k \in Keys : Evidence(n, k) \in 0 .. MaxObserved

\* A holdout has no more of a post than was observed.
ClimbInv ==
    /\ FederationInv
    /\ edits \in 0 .. MaxEdits
    /\ observed \in [Nodes -> 0 .. MaxObserved]
    /\ holdout \in [Nodes -> [Keys -> [Posts -> Nat]]]
    /\ \A n \in Nodes, k \in Keys, p \in Posts : holdout[n][k][p] <= observed[n]

\* Nothing is in the holdouts at the start.
LEMMA ClimbInit == FederationInit => ClimbInv
<1> SUFFICES ASSUME FederationInit PROVE ClimbInv
  OBVIOUS
<1>1. FederationInv
  BY InitScoped
<1>2. /\ edits = 0 /\ observed = [n \in Nodes |-> 0]
      /\ holdout = [n \in Nodes |-> [k \in Keys |-> [p \in Posts |-> 0]]]
  BY DEF FederationInit
<1> QED BY <1>1, <1>2, FederationAssumption DEF ClimbInv

\* One observation is one entry of one holdout.
LEMMA RecordClimbs ==
    ASSUME ClimbInv, NEW n \in Nodes, NEW k \in Keys, NEW p \in Posts, RecordHoldout(n, k, p)
    PROVE  /\ UNCHANGED <<edits, rulesOf>> /\ observed' = [observed EXCEPT ![n] = @ + 1]
           /\ observed' \in [Nodes -> 0 .. MaxObserved]
           /\ holdout' \in [Nodes -> [Keys -> [Posts -> Nat]]]
           /\ \A m \in Nodes, j \in Keys, q \in Posts : holdout'[m][j][q] <= observed'[m]
<1>1. /\ observed[n] < MaxObserved /\ UNCHANGED <<edits, rulesOf>>
      /\ observed' = [observed EXCEPT ![n] = @ + 1]
      /\ holdout' = [holdout EXCEPT ![n][k][p] = @ + 1]
  BY DEF RecordHoldout
<1>2. /\ observed \in [Nodes -> 0 .. MaxObserved]
      /\ holdout \in [Nodes -> [Keys -> [Posts -> Nat]]]
      /\ \A m \in Nodes, j \in Keys, q \in Posts : holdout[m][j][q] <= observed[m]
  BY DEF ClimbInv
<1>3. observed[n] + 1 \in 0 .. MaxObserved
  BY <1>1, <1>2, FederationAssumption
<1>4. observed' \in [Nodes -> 0 .. MaxObserved]
  BY <1>1, <1>2, <1>3
<1>5. holdout' \in [Nodes -> [Keys -> [Posts -> Nat]]]
  <2>1. holdout[n][k][p] + 1 \in Nat
    BY <1>2
  <2>2. [holdout[n] EXCEPT ![k][p] = holdout[n][k][p] + 1] \in [Keys -> [Posts -> Nat]]
    <3>1. [holdout[n][k] EXCEPT ![p] = holdout[n][k][p] + 1] \in [Posts -> Nat]
      BY <1>2, <2>1
    <3> QED BY <1>2, <3>1
  <2> QED BY <1>1, <1>2, <2>2
<1>6. ASSUME NEW m \in Nodes, NEW j \in Keys, NEW q \in Posts
      PROVE  holdout'[m][j][q] <= observed'[m]
  <2>1. /\ holdout[m][j][q] \in Nat /\ observed[m] \in Nat
        /\ holdout[m][j][q] <= observed[m]
    BY <1>2
  <2>2. observed'[m] = IF m = n THEN observed[m] + 1 ELSE observed[m]
    BY <1>1, <1>2
  <2>3. holdout'[m][j][q] = IF m = n /\ j = k /\ q = p THEN holdout[m][j][q] + 1
                                                        ELSE holdout[m][j][q]
    <3>1. holdout'[m] = IF m = n THEN [holdout[n] EXCEPT ![k][p] = @ + 1] ELSE holdout[m]
      BY <1>1, <1>2
    <3>2. [holdout[n] EXCEPT ![k][p] = @ + 1][j]
             = IF j = k THEN [holdout[n][k] EXCEPT ![p] = @ + 1] ELSE holdout[n][j]
      BY <1>2
    <3> QED BY <1>2, <3>1, <3>2
  <2> QED BY <2>1, <2>2, <2>3
<1> QED BY <1>1, <1>4, <1>5, <1>6

\* A rule is heard in place of one with less evidence, and of no other.
LEMMA HearClimbs ==
    ASSUME ClimbInv, NEW n \in Nodes, NEW k \in Keys, NEW rule, Hear(n, k, rule)
    PROVE  /\ UNCHANGED <<edits, observed, holdout>>
           /\ Evidence(n, k)' > Evidence(n, k)
           /\ \A m \in Nodes, j \in Keys : <<m, j>> # <<n, k>> => Evidence(m, j)' = Evidence(m, j)
<1>1. /\ UNCHANGED <<edits, observed, holdout>>
      /\ rulesOf' = [rulesOf EXCEPT ![n][k] = rule]
      /\ Correct(n, k, rule) > Correct(n, k, rulesOf[n][k])
  BY DEF Hear, Install, Gain
<1>2. rulesOf \in [Nodes -> [Keys -> Rules \union {NoRule}]]
  BY DEF ClimbInv, FederationInv, Installed
<1>3. \A m \in Nodes, j \in Keys :
         rulesOf'[m][j] = IF m = n /\ j = k THEN rule ELSE rulesOf[m][j]
  BY <1>1, <1>2
<1>4. \A m \in Nodes, j \in Keys : Evidence(m, j)' = Correct(m, j, rulesOf'[m][j])
  BY <1>1 DEF Evidence, Correct
<1>5. Evidence(n, k)' = Correct(n, k, rule)
  BY <1>3, <1>4
<1>6. ASSUME NEW m \in Nodes, NEW j \in Keys, <<m, j>> # <<n, k>>
      PROVE  Evidence(m, j)' = Evidence(m, j)
  <2>1. rulesOf'[m][j] = rulesOf[m][j]
    BY <1>3, <1>6
  <2> QED BY <1>4, <2>1 DEF Evidence
<1> QED BY <1>1, <1>5, <1>6 DEF Evidence

\* Every step climbs, or leaves rules, edits and observations alone.
LEMMA StepClimbs ==
    ASSUME ClimbInv, [FederationNext]_federationVars
    PROVE  ClimbInv' /\ (ClimbStep \/ UNCHANGED <<rulesOf, edits, observed>>)
<1>1. FederationInv'
  BY StepScoped DEF ClimbInv
<1>2. ASSUME NEW n \in Nodes, NEW k \in Keys,
             (\E rule \in Rules : Learn(n, k, rule)) \/ Remove(n, k)
      PROVE  ClimbInv' /\ edits' = edits + 1
  <2>1. edits < MaxEdits /\ edits' = edits + 1 /\ UNCHANGED <<holdout, observed>>
    BY <1>2 DEF Learn, Remove
  <2>2. edits' \in 0 .. MaxEdits
    BY <2>1, FederationAssumption DEF ClimbInv
  <2> QED BY <1>1, <2>1, <2>2 DEF ClimbInv
<1>3. ASSUME NEW n \in Nodes, NEW k \in Keys, NEW p \in Posts, RecordHoldout(n, k, p)
      PROVE  ClimbInv' /\ ClimbStep
  BY <1>1, <1>3, RecordClimbs DEF ClimbInv, ClimbStep
<1>4. ASSUME NEW n \in Nodes, NEW k \in Keys, NEW c \in Clusters, Offer(n, k, c)
      PROVE  ClimbInv' /\ UNCHANGED <<rulesOf, edits, observed>>
  BY <1>1, <1>4 DEF Offer, ClimbInv
<1>5. ASSUME NEW n \in Nodes, NEW k \in Keys, NEW e \in air, Hear(n, k, e[2])
      PROVE  ClimbInv' /\ ClimbStep
  <2>1. /\ UNCHANGED <<edits, observed, holdout>>
        /\ Evidence(n, k)' > Evidence(n, k)
        /\ \A m \in Nodes, j \in Keys : <<m, j>> # <<n, k>> => Evidence(m, j)' = Evidence(m, j)
    BY <1>5, HearClimbs
  <2>2. ClimbStep
    BY <2>1 DEF ClimbStep
  <2> QED BY <1>1, <2>1, <2>2 DEF ClimbInv
<1>6. CASE UNCHANGED federationVars
  BY <1>1, <1>6 DEF ClimbInv, federationVars
<1> QED BY <1>2, <1>3, <1>4, <1>5, <1>6 DEF FederationNext, ClimbStep

\* A node has no more evidence than observations.
LEMMA ClimbEnds == ClimbInv => BelowTheTop
<1> SUFFICES ASSUME ClimbInv, NEW n \in Nodes, NEW k \in Keys
             PROVE  Evidence(n, k) \in 0 .. MaxObserved
  BY DEF ClimbInv, BelowTheTop
<1>1. rulesOf[n][k] \in Rules \union {NoRule}
  BY DEF ClimbInv, FederationInv, Installed
<1>2. CASE rulesOf[n][k] = NoRule
  BY <1>2, FederationAssumption DEF Evidence, Correct
<1>3. CASE rulesOf[n][k] # NoRule
  <2>1. PICK p \in Posts : p = rulesOf[n][k].post
    BY <1>1, <1>3 DEF Rules
  <2>2. /\ Evidence(n, k) = holdout[n][k][p]
        /\ holdout[n][k][p] \in Nat /\ holdout[n][k][p] <= observed[n]
        /\ observed[n] \in 0 .. MaxObserved
    BY <1>3, <2>1 DEF Evidence, Correct, ClimbInv
  <2> QED BY <2>2, FederationAssumption
<1> QED BY <1>2, <1>3

(* The ranking behind RulesSettle: validate_candidate() admits a rule only   *)
(* for more evidence than the rule in force has, so that every change of the *)
(* rules of any node is an edit or a gain of evidence.  Only an edit or an   *)
(* observation can undo a gain, and none of the three exceeds its bound.     *)
THEOREM RulesOnlyClimb ==
    FederationSpec => []BelowTheTop /\ [][ClimbStep]_<<rulesOf, edits, observed>>
<1>1. ClimbInv /\ [FederationNext]_federationVars => ClimbInv'
  BY StepClimbs
<1>2. ClimbInv /\ [FederationNext]_federationVars => [ClimbStep]_<<rulesOf, edits, observed>>
  BY StepClimbs
<1> QED BY <1>1, <1>2, ClimbInit, ClimbEnds, PTL DEF FederationSpec

-----------------------------------------------------------------------------
(* The constitution holds for every set of agents and mandatory edges, every *)
(* cap, any number of mutations, generations, runs and records, and whatever *)
(* the fitness of the children is.                                           *)

\* The topologies no edge of which is over the cap.
Capped == [active : SUBSET Agents, authority : UNION {[E -> 0 .. Cap] : E \in SUBSET Edges}]

Lawful(t) == t \in Capped /\ Mandatory \subseteq LiveEdges(t)

Clean(t) == /\ Present(t) = LiveEdges(t)
            /\ t.active = Ends(Present(t))
            /\ Present(t) \subseteq Mandatory \union Verified

EvolutionInv == Lawful(best) /\ Lawful(child) /\ (phase = "audited" => Clean(best))

\* What makes a topology capped, and what a capped one has.
LEMMA CappedParts ==
    \A t \in Capped : /\ t.active \subseteq Agents
                      /\ Present(t) \subseteq Edges
                      /\ \A e \in Present(t) : t.authority[e] \in 0 .. Cap
                      /\ t.authority \in [Present(t) -> 0 .. Cap]
  BY DEF Capped, Present

\* A topology made of capped authorities is capped.
LEMMA CappedMade ==
    ASSUME NEW E \in SUBSET Edges, NEW f \in [E -> 0 .. Cap], NEW A \in SUBSET Agents
    PROVE  /\ [active |-> A, authority |-> f] \in Capped
           /\ Present([active |-> A, authority |-> f]) = E
<1>1. f \in UNION {[F -> 0 .. Cap] : F \in SUBSET Edges}
  OBVIOUS
<1> QED BY <1>1 DEF Capped, Present

\* Other capped authorities leave a topology capped.
LEMMA CappedAuthority ==
    ASSUME NEW t \in Capped, NEW E \in SUBSET Edges, NEW f \in [E -> 0 .. Cap]
    PROVE  /\ [t EXCEPT !.authority = f] \in Capped
           /\ [t EXCEPT !.authority = f].active = t.active
           /\ Present([t EXCEPT !.authority = f]) = E
<1>1. f \in UNION {[F -> 0 .. Cap] : F \in SUBSET Edges}
  OBVIOUS
<1> QED BY <1>1 DEF Capped, Present

\* Other active agents leave a topology capped.
LEMMA CappedActive ==
    ASSUME NEW t \in Capped, NEW A \in SUBSET Agents
    PROVE  /\ [t EXCEPT !.active = A] \in Capped
           /\ [t EXCEPT !.active = A].active = A
           /\ Present([t EXCEPT !.active = A]) = Present(t)
  BY DEF Capped, Present

\* A base topology of agents that include the ends of the mandatory edges.
LEMMA BaseLawful ==
    ASSUME NEW A \in SUBSET Agents, Ends(Mandatory) \subseteq A
    PROVE  Lawful(Base(A))
<1> DEFINE f == [e \in Edges |-> Lower(ContextInject, Cap)]
<1>1. f \in [Edges -> 0 .. Cap]
  BY EvolutionAssumption DEF Lower, ContextInject
<1>2. Base(A) = [active |-> A, authority |-> f]
  BY DEF Base
<1>3. Base(A) \in Capped /\ Present(Base(A)) = Edges /\ Base(A).active = A
  <2> HIDE DEF f
  <2> QED BY <1>1, <1>2, CappedMade
<1>4. Mandatory \subseteq LiveEdges(Base(A))
  BY <1>3, EvolutionAssumption DEF LiveEdges, Ends
<1> QED BY <1>3, <1>4 DEF Lawful

\* A change of the authorities that keeps the mandatory edges is lawful.
LEMMA AuthorityChange ==
    ASSUME NEW t, Lawful(t), NEW E \in SUBSET Edges, NEW f \in [E -> 0 .. Cap], Mandatory \subseteq E
    PROVE  Lawful([t EXCEPT !.authority = f])
<1> DEFINE u == [t EXCEPT !.authority = f]
<1>1. t \in Capped /\ Mandatory \subseteq LiveEdges(t)
  BY DEF Lawful
<1>2. u \in Capped /\ u.active = t.active /\ Present(u) = E
  BY <1>1, CappedAuthority
<1>3. Mandatory \subseteq LiveEdges(u)
  BY <1>1, <1>2 DEF LiveEdges
<1> QED BY <1>2, <1>3 DEF Lawful

\* Every mutation of a lawful topology, refused or not, gives a lawful one.
LEMMA ProposedLawful == ASSUME NEW t, Lawful(t), NEW u \in Proposed(t) PROVE Lawful(u)
<1>1. /\ t \in Capped /\ Mandatory \subseteq LiveEdges(t)
      /\ Present(t) \subseteq Edges
      /\ t.authority \in [Present(t) -> 0 .. Cap]
      /\ t.active \subseteq Agents
      /\ Mandatory \subseteq Present(t)
      /\ Cap \in 0 .. 3 /\ Mandatory \subseteq Edges
  BY CappedParts, EvolutionAssumption DEF Lawful, LiveEdges
<1>2. ASSUME NEW e \in Edges PROVE Lawful(AddEdge(t, e))
  <2>1. CASE e \in Present(t)
    BY <2>1 DEF AddEdge
  <2>2. CASE e \notin Present(t)
    <3> DEFINE f == [x \in Present(t) \union {e} |-> IF x = e THEN 0 ELSE t.authority[x]]
    <3>1. f \in [Present(t) \union {e} -> 0 .. Cap]
      BY <1>1
    <3>2. AddEdge(t, e) = [t EXCEPT !.authority = f]
      BY <2>2 DEF AddEdge
    <3> QED BY <1>1, <3>1, <3>2, AuthorityChange
  <2> QED BY <2>1, <2>2
<1>3. ASSUME NEW e \in Present(t) PROVE Lawful(RemoveEdge(t, e))
  <2>1. CASE e \in Mandatory
    BY <2>1 DEF RemoveEdge
  <2>2. CASE e \notin Mandatory
    <3> DEFINE f == [x \in Present(t) \ {e} |-> t.authority[x]]
    <3>1. f \in [Present(t) \ {e} -> 0 .. Cap]
      BY <1>1
    <3>2. RemoveEdge(t, e) = [t EXCEPT !.authority = f]
      BY <2>2 DEF RemoveEdge, WithEdges
    <3> QED BY <1>1, <2>2, <3>1, <3>2, AuthorityChange
  <2> QED BY <2>1, <2>2
<1>4. ASSUME NEW e \in Present(t), NEW g \in 0 .. Cap
      PROVE  Lawful([t EXCEPT !.authority = [t.authority EXCEPT ![e] = g]])
  <2>1. [t.authority EXCEPT ![e] = g] \in [Present(t) -> 0 .. Cap]
    BY <1>1
  <2> QED BY <1>1, <2>1, AuthorityChange
<1>5. ASSUME NEW e \in Present(t)
      PROVE  Lawful(RaiseAuthority(t, e)) /\ Lawful(LowerAuthority(t, e))
  <2>1. t.authority[e] \in 0 .. Cap
    BY <1>1
  <2>2. Lawful(RaiseAuthority(t, e))
    <3>1. CASE t.authority[e] + 1 <= Cap
      <4>1. t.authority[e] + 1 \in 0 .. Cap
        BY <1>1, <2>1, <3>1
      <4>2. RaiseAuthority(t, e)
              = [t EXCEPT !.authority = [t.authority EXCEPT ![e] = t.authority[e] + 1]]
        BY <3>1, <1>1 DEF RaiseAuthority, Capped
      <4> QED BY <1>4, <4>1, <4>2
    <3> QED BY <3>1 DEF RaiseAuthority
  <2>3. Lawful(LowerAuthority(t, e))
    <3>1. CASE t.authority[e] > 0
      <4>1. t.authority[e] - 1 \in 0 .. Cap
        BY <1>1, <2>1, <3>1
      <4>2. LowerAuthority(t, e)
              = [t EXCEPT !.authority = [t.authority EXCEPT ![e] = t.authority[e] - 1]]
        BY <3>1, <1>1 DEF LowerAuthority, Capped
      <4> QED BY <1>4, <4>1, <4>2
    <3> QED BY <3>1 DEF LowerAuthority
  <2> QED BY <2>2, <2>3
<1>6. ASSUME NEW A \in SUBSET Agents, \A e \in Mandatory : e[1] \in A /\ e[2] \in A
      PROVE  Lawful([t EXCEPT !.active = A])
  <2>1. /\ [t EXCEPT !.active = A] \in Capped
        /\ [t EXCEPT !.active = A].active = A
        /\ Present([t EXCEPT !.active = A]) = Present(t)
    BY <1>1, CappedActive
  <2> QED BY <1>1, <1>6, <2>1 DEF Lawful, LiveEdges
<1>7. \A e \in Mandatory : e[1] \in t.active /\ e[2] \in t.active
  BY <1>1 DEF LiveEdges
<1>8. ASSUME NEW a \in Agents PROVE Lawful(DeactivateAgent(t, a)) /\ Lawful(ReactivateAgent(t, a))
  <2>1. Lawful(DeactivateAgent(t, a))
    <3>1. CASE Anchors(t, a)
      BY <3>1 DEF DeactivateAgent
    <3>2. CASE ~Anchors(t, a)
      <4>1. \A e \in Mandatory : e[1] # a /\ e[2] # a
        BY <1>1, <3>2 DEF Anchors
      <4>2. DeactivateAgent(t, a) = [t EXCEPT !.active = t.active \ {a}]
        BY <3>2 DEF DeactivateAgent
      <4>3. t.active \ {a} \in SUBSET Agents
        BY <1>1
      <4> QED BY <1>6, <1>7, <4>1, <4>2, <4>3
    <3> QED BY <3>1, <3>2
  <2>2. Lawful(ReactivateAgent(t, a))
    <3>1. ReactivateAgent(t, a) = [t EXCEPT !.active = t.active \union {a}]
      BY DEF ReactivateAgent
    <3>2. t.active \union {a} \in SUBSET Agents
      BY <1>1
    <3> QED BY <1>6, <1>7, <3>1, <3>2
  <2> QED BY <2>1, <2>2
<1> QED BY <1>2, <1>3, <1>5, <1>8 DEF Proposed

\* The audit keeps to the law and leaves nothing over.
LEMMA AuditedClean == ASSUME NEW t, Lawful(t) PROVE Lawful(Audited(t)) /\ Clean(Audited(t))
<1> DEFINE R == Retained(t)
           f == [e \in R |-> t.authority[e]]
           A == t.active \intersect Ends(R)
<1>1. /\ t \in Capped /\ Mandatory \subseteq LiveEdges(t)
      /\ Present(t) \subseteq Edges
      /\ t.authority \in [Present(t) -> 0 .. Cap]
      /\ t.active \subseteq Agents
  BY CappedParts DEF Lawful
<1>2. /\ R \subseteq LiveEdges(t) /\ R \subseteq Present(t)
      /\ Mandatory \subseteq R
      /\ R \subseteq Mandatory \union Verified
  BY <1>1 DEF Retained, LiveEdges
<1>3. f \in [R -> 0 .. Cap] /\ R \in SUBSET Edges /\ A \in SUBSET Agents
  BY <1>1, <1>2
<1>4. Audited(t) = [active |-> A, authority |-> f]
  BY DEF Audited
<1>5. Audited(t) \in Capped /\ Audited(t).active = A /\ Present(Audited(t)) = R
  <2> HIDE DEF A, f, R
  <2>1. [active |-> A, authority |-> f] \in Capped /\ Present([active |-> A, authority |-> f]) = R
    BY <1>1, <1>3, CappedMade
  <2> QED BY <1>4, <2>1
<1>6. \A e \in R : e[1] \in A /\ e[2] \in A
  BY <1>2 DEF LiveEdges, Ends
<1>7. A = Ends(R)
  BY <1>6 DEF Ends
<1> QED BY <1>2, <1>5, <1>6, <1>7 DEF Lawful, Clean, LiveEdges

\* Both ends of every mandatory edge are agents.
LEMMA MandatoryEnds == Ends(Mandatory) \subseteq Agents
  BY EvolutionAssumption DEF Ends, Edges

\* The base topology is lawful.
LEMMA InitLawful == EvolutionInit => EvolutionInv
  BY BaseLawful, MandatoryEnds DEF EvolutionInit, EvolutionInv

\* Every step keeps what is held lawful.
LEMMA StepLawful == EvolutionInv /\ [EvolutionNext]_evolutionVars => EvolutionInv'
<1> SUFFICES ASSUME EvolutionInv, [EvolutionNext]_evolutionVars PROVE EvolutionInv'
  OBVIOUS
<1>0. Lawful(best) /\ Lawful(child) /\ (phase = "audited" => Clean(best))
  BY DEF EvolutionInv
<1> SUFFICES Lawful(best') /\ Lawful(child') /\ (phase' = "audited" => Clean(best'))
  BY DEF EvolutionInv, Lawful, Clean, Present, LiveEdges
<1>1. CASE Mutate
  BY <1>0, <1>1, ProposedLawful DEF Mutate
<1>2. CASE Select
  BY <1>0, <1>2 DEF Select
<1>3. CASE Audit
  BY <1>0, <1>3, AuditedClean DEF Audit
<1>4. CASE RememberTopology
  BY <1>0, <1>4 DEF RememberTopology
<1>5. ASSUME NEW agents \in ForeignRecords, StoreForeign(agents)
      PROVE  Lawful(best') /\ Lawful(child') /\ (phase' = "audited" => Clean(best'))
  BY <1>0, <1>5 DEF StoreForeign
<1>6. CASE RecordTopologyUse
  BY <1>0, <1>6 DEF RecordTopologyUse
<1>7. CASE Evolve
  <2>1. PICK record : Start(Base(IF record = {} THEN Agents
                                 ELSE Agents \intersect KeptActive(record)))
    BY <1>7 DEF Evolve
  <2> DEFINE A == IF record = {} THEN Agents ELSE Agents \intersect KeptActive(record)
  <2>2. A \in SUBSET Agents /\ Ends(Mandatory) \subseteq A
    BY MandatoryEnds DEF KeptActive
  <2>3. Lawful(Base(A))
    <3> HIDE DEF A
    <3> QED BY <2>2, BaseLawful
  <2> QED BY <2>1, <2>3 DEF Start
<1>8. CASE UNCHANGED evolutionVars
  BY <1>0, <1>8 DEF evolutionVars
<1> QED BY <1>1, <1>2, <1>3, <1>4, <1>5, <1>6, <1>7, <1>8 DEF EvolutionNext

\* The invariant holds in every state.
LEMMA InvAlways == EvolutionSpec => []EvolutionInv
  BY InitLawful, StepLawful, PTL DEF EvolutionSpec

(* darwin.rs:109: no edge is ever over its cap, in any candidate.            *)
LEMMA CapsHold == EvolutionSpec => []AuthorityCapped
<1>1. EvolutionInv => AuthorityCapped
  BY CappedParts, EvolutionAssumption DEF EvolutionInv, AuthorityCapped, Lawful
<1> QED BY <1>1, InvAlways, PTL

(* darwin.rs:148 and 276: no mutation, audit or warm start cuts a mandatory  *)
(* edge off.                                                                 *)
LEMMA MandatoryStaysLive == EvolutionSpec => []MandatoryLive
<1>1. EvolutionInv => MandatoryLive
  BY DEF EvolutionInv, MandatoryLive, Lawful
<1> QED BY <1>1, InvAlways, PTL

(* darwin.rs: the constitution holds of every topology, for every set of     *)
(* agents, cap and set of mandatory edges.                                   *)
THEOREM ConstitutionAlwaysKept == EvolutionSpec => []ConstitutionKept
<1>1. AuthorityCapped /\ MandatoryLive => ConstitutionKept
  BY DEF ConstitutionKept
<1> QED BY <1>1, CapsHold, MandatoryStaysLive, PTL

(* darwin.rs:340: an audit that is taken leaves no edge without its agents   *)
(* and no agent without an edge.                                             *)
THEOREM AuditsClean == EvolutionSpec => []AuditIsClean
<1>1. EvolutionInv => AuditIsClean
  BY DEF EvolutionInv, AuditIsClean, Clean
<1> QED BY <1>1, InvAlways, PTL

-----------------------------------------------------------------------------
(* Lineage and fading hold for every set of identifiers and causal values,   *)
(* whatever records callers store, in both backends, and for any number of   *)
(* failures of a replace.                                                    *)

\* The identifiers a record may name as its parents.
Names == Ids \union UNION {o.parents : o \in Offers}

Record == [fidelity : 0 .. 3, error : Nat, causal : Causals, parents : SUBSET Names,
           folded : BOOLEAN, born : Nat]

\* What a backend holds or is about to insert.
Versions == {[id |-> i, record |-> records[i]] : i \in Stored} \union replacing

\* What a record was folded from is held, and older, or was lost.
ParentsHeld(v) ==
    v.record.folded => \A p \in v.record.parents :
        \/ p \in lost
        \/ \E w \in Versions : w.id = p /\ (failures = 0 => w.record.born < v.record.born)

VersionOK(v) == /\ v.record \in Record /\ v.record.born < born
                /\ v.record.fidelity = Raw => ~BelowFloor(v.record.causal)
                /\ ParentsHeld(v)

\* One replace at a time, of a record that is not stored meanwhile.
ReplaceAlone == /\ \A r \in replacing : r.id \notin Stored
                /\ \A r, s \in replacing : r = s
                /\ backend = "memory" => replacing = {}

RulesHeld == /\ \A id \in rules : id \in Stored /\ records[id].fidelity = Rule
             /\ backend = "ruvector" => rules = {}

MemoryInv == /\ backend \in {"memory", "ruvector"}
             /\ born \in Nat /\ failures \in Nat
             /\ failures = 0 => lost = {}
             /\ \A v \in Versions : VersionOK(v)
             /\ ReplaceAlone
             /\ RulesHeld

\* The fields a caller fills in.
LEMMA OfferParts ==
    ASSUME NEW o \in Offers
    PROVE  o.fidelity \in 0 .. 3 /\ o.error \in Nat /\ o.parents \in SUBSET Names
<1>1. o \in [fidelity : 0 .. 3, error : Nat, parents : {o.parents}]
  BY MemoryAssumption
<1>2. o.parents \subseteq Names
  BY DEF Names
<1> QED BY <1>1, <1>2

\* What is stored after one record was added or changed, or taken away.
LEMMA WithParts ==
    \A id, record : /\ DOMAIN With(id, record) = Stored \union {id}
                    /\ With(id, record)[id] = record
                    /\ \A i \in Stored : i # id => With(id, record)[i] = records[i]
  BY DEF With, Stored

\* A deletion touches one record only.
LEMMA WithoutParts ==
    \A id : /\ DOMAIN Without(id) = Stored \ {id}
            /\ \A i \in Stored : i # id => Without(id)[i] = records[i]
  BY DEF Without, Stored

\* A version is stored, or is about to be.
LEMMA StoredVersion ==
    /\ \A i \in Stored : [id |-> i, record |-> records[i]] \in Versions
    /\ \A v \in Versions : (v.id \in Stored /\ v.record = records[v.id]) \/ v \in replacing
  BY DEF Versions

\* A lossy step changes fidelity and error.
LEMMA CoarserParts ==
    ASSUME NEW r \in Record, NEW target \in {Compressed, Prototype, Rule}
    PROVE  /\ Coarser(r, target) \in Record
           /\ Coarser(r, target).fidelity = target
           /\ Coarser(r, target).error = r.error + 1
           /\ Coarser(r, target).parents = r.parents
           /\ Coarser(r, target).causal = r.causal
           /\ Coarser(r, target).folded = r.folded
           /\ Coarser(r, target).born = r.born
<1>1. target \in 0 .. 3
  BY DEF Compressed, Prototype, Rule
<1>2. r.error + 1 \in Nat
  BY DEF Record
<1> QED BY <1>1, <1>2 DEF Coarser, Record

\* When every version that was held is held under the same identifier with the
\* same birth and parents, lineage stays as it was.
LEMMA LineageCarriesOver ==
    ASSUME MemoryInv, failures' = failures, lost \subseteq lost',
           \A w \in Versions : \E x \in Versions' : x.id = w.id /\ x.record.born = w.record.born,
           NEW v \in Versions, NEW u,
           u.record.parents = v.record.parents, u.record.born = v.record.born,
           u.record.folded = v.record.folded
    PROVE  ParentsHeld(u)'
<1> SUFFICES ASSUME NEW p \in u.record.parents, v.record.folded
             PROVE  \/ p \in lost'
                    \/ \E w \in Versions' : /\ w.id = p
                                            /\ failures' = 0 => w.record.born < u.record.born
  BY DEF ParentsHeld
<1>1. ParentsHeld(v)
  BY DEF MemoryInv, VersionOK
<1>2. CASE p \in lost
  BY <1>2
<1>3. CASE p \notin lost
  <2>1. PICK w \in Versions : w.id = p /\ (failures = 0 => w.record.born < v.record.born)
    BY <1>1, <1>3 DEF ParentsHeld
  <2>2. PICK x \in Versions' : x.id = w.id /\ x.record.born = w.record.born
    OBVIOUS
  <2> QED BY <2>1, <2>2
<1> QED BY <1>2, <1>3

\* store(), of a record that was folded from what is held, or of any other.
LEMMA StoreKeepsInv ==
    ASSUME MemoryInv, NEW id \in Ids, NEW record \in Record, StoreRecord(id, record),
           record.born = born, record.folded => record.parents \subseteq Stored
    PROVE  MemoryInv'
<1>1. /\ replacing = {} /\ id \notin Stored /\ Admits(record)
      /\ records' = With(id, record) /\ born' = born + 1 /\ lost' = lost \ {id}
      /\ backend' = backend /\ rules' = rules /\ replacing' = replacing /\ failures' = failures
  BY DEF StoreRecord
<1>2. /\ Stored' = Stored \union {id}
      /\ records'[id] = record
      /\ \A i \in Stored : records'[i] = records[i]
  <2>1. DOMAIN records' = Stored \union {id}
    BY <1>1, WithParts
  <2> QED BY <1>1, <2>1, WithParts DEF Stored
<1>3. Versions' = Versions \union {[id |-> id, record |-> record]}
  BY <1>1, <1>2 DEF Versions
<1>4. born \in Nat /\ failures \in Nat /\ (failures = 0 => lost = {})
  BY DEF MemoryInv
<1>5. ASSUME NEW v \in Versions PROVE VersionOK(v)'
  <2>1. VersionOK(v)
    BY DEF MemoryInv
  <2>2. ParentsHeld(v)'
    <3> SUFFICES ASSUME NEW p \in v.record.parents, v.record.folded
                 PROVE  \/ p \in lost'
                        \/ \E w \in Versions' : /\ w.id = p
                                                /\ failures' = 0 => w.record.born < v.record.born
      BY DEF ParentsHeld
    <3>1. CASE p \in lost
      <4>1. failures' # 0
        BY <1>1, <1>4, <3>1
      <4>2. CASE p = id
        <5>1. [id |-> id, record |-> record] \in Versions'
          BY <1>3
        <5> QED BY <4>1, <4>2, <5>1
      <4>3. CASE p # id
        BY <1>1, <3>1, <4>3
      <4> QED BY <4>2, <4>3
    <3>2. CASE p \notin lost
      <4>1. PICK w \in Versions : w.id = p /\ (failures = 0 => w.record.born < v.record.born)
        BY <2>1, <3>2 DEF VersionOK, ParentsHeld
      <4> QED BY <1>1, <1>3, <4>1
    <3> QED BY <3>1, <3>2
  <2>3. v.record.born < born'
    BY <1>1, <1>4, <2>1 DEF VersionOK, Record
  <2> QED BY <2>1, <2>2, <2>3 DEF VersionOK
<1>6. VersionOK([id |-> id, record |-> record])'
  <2> DEFINE v == [id |-> id, record |-> record]
  <2>1. ParentsHeld(v)'
    <3> SUFFICES ASSUME NEW p \in record.parents, record.folded
                 PROVE  \E w \in Versions' : w.id = p /\ w.record.born < record.born
      BY DEF ParentsHeld
    <3>1. [id |-> p, record |-> records[p]] \in Versions
      BY StoredVersion
    <3>2. records[p].born < born
      BY <3>1 DEF MemoryInv, VersionOK
    <3> QED BY <1>3, <3>1, <3>2
  <2>2. record.born < born'
    BY <1>1, <1>4
  <2>3. record.fidelity = Raw => ~BelowFloor(record.causal)
    BY <1>1 DEF Admits
  <2> QED BY <2>1, <2>2, <2>3 DEF VersionOK
<1>7. ReplaceAlone' /\ RulesHeld'
  BY <1>1, <1>2 DEF MemoryInv, ReplaceAlone, RulesHeld
<1> QED BY <1>1, <1>3, <1>4, <1>5, <1>6, <1>7 DEF MemoryInv

\* A lossy step on one record, in place.
LEMMA InPlaceKeepsInv ==
    ASSUME MemoryInv, NEW id \in Stored, NEW record \in Record,
           record.parents = records[id].parents, record.born = records[id].born,
           record.folded = records[id].folded,
           record.fidelity # Raw,
           records' = With(id, record), id \notin rules \/ record.fidelity = Rule,
           rules' = rules \/ (record.fidelity = Rule /\ backend = "memory" /\ rules' = rules \union {id}),
           UNCHANGED <<backend, replacing, born, failures, lost>>
    PROVE  MemoryInv'
<1>1. /\ Stored' = Stored
      /\ records'[id] = record
      /\ \A i \in Stored : i # id => records'[i] = records[i]
  <2>1. DOMAIN With(id, record) = Stored \union {id}
    BY WithParts
  <2>2. DOMAIN records' = Stored
    BY <2>1
  <2> QED BY <2>2, WithParts DEF Stored
<1>2. \A w \in Versions : \E x \in Versions' : x.id = w.id /\ x.record.born = w.record.born
  <2> SUFFICES ASSUME NEW w \in Versions
               PROVE  \E x \in Versions' : x.id = w.id /\ x.record.born = w.record.born
    OBVIOUS
  <2>1. CASE w \in replacing
    BY <2>1 DEF Versions
  <2>2. CASE w.id \in Stored /\ w.record = records[w.id]
    <3>1. [id |-> w.id, record |-> records'[w.id]] \in Versions'
      BY <1>1, <2>2 DEF Versions
    <3>2. records'[w.id].born = records[w.id].born
      BY <1>1, <2>2
    <3> QED BY <2>2, <3>1, <3>2
  <2> QED BY <2>1, <2>2, StoredVersion
<1>3. ASSUME NEW u \in Versions' PROVE VersionOK(u)'
  <2>1. CASE u \in Versions
    BY <1>2, <2>1, LineageCarriesOver DEF MemoryInv, VersionOK
  <2>2. CASE u.id = id /\ u.record = record
    <3> DEFINE v == [id |-> id, record |-> records[id]]
    <3>1. v \in Versions /\ VersionOK(v)
      BY StoredVersion DEF MemoryInv
    <3>2. ParentsHeld(u)'
      <4>1. /\ u.record.parents = v.record.parents /\ u.record.born = v.record.born
            /\ u.record.folded = v.record.folded
        BY <2>2
      <4>2. failures' = failures /\ lost \subseteq lost'
        OBVIOUS
      <4> HIDE DEF v
      <4> QED BY <1>2, <3>1, <4>1, <4>2, LineageCarriesOver
    <3> QED BY <2>2, <3>1, <3>2 DEF VersionOK
  <2>3. u \in Versions \/ (u.id = id /\ u.record = record)
    BY <1>1 DEF Versions
  <2> QED BY <2>1, <2>2, <2>3
<1>4. ReplaceAlone' /\ RulesHeld'
  BY <1>1 DEF MemoryInv, ReplaceAlone, RulesHeld
<1> QED BY <1>3, <1>4 DEF MemoryInv

\* A lossy step of the RuVector store: the delete, with the new version kept.
LEMMA DeleteKeepsInv ==
    ASSUME MemoryInv, NEW id \in Stored, NEW record \in Record, backend = "ruvector",
           replacing = {}, record.fidelity # Raw,
           record.parents = records[id].parents, record.born = records[id].born,
           record.folded = records[id].folded,
           records' = Without(id), replacing' = {[id |-> id, record |-> record]},
           UNCHANGED <<backend, rules, born, failures, lost>>
    PROVE  MemoryInv'
<1> DEFINE new == [id |-> id, record |-> record]
<1>1. /\ Stored' = Stored \ {id}
      /\ \A i \in Stored : i # id => records'[i] = records[i]
  <2>1. DOMAIN Without(id) = Stored \ {id}
    BY WithoutParts
  <2>2. DOMAIN records' = Stored \ {id}
    BY <2>1
  <2> QED BY <2>2, WithoutParts DEF Stored
<1>2. new \in Versions' /\ new.id = id /\ new.record = record
  BY DEF Versions
<1>3. \A w \in Versions : \E x \in Versions' : x.id = w.id /\ x.record.born = w.record.born
  <2> SUFFICES ASSUME NEW w \in Versions
               PROVE  \E x \in Versions' : x.id = w.id /\ x.record.born = w.record.born
    OBVIOUS
  <2>1. w.id \in Stored /\ w.record = records[w.id]
    BY StoredVersion
  <2>2. CASE w.id = id
    BY <1>2, <2>1, <2>2
  <2>3. CASE w.id # id
    <3>1. [id |-> w.id, record |-> records'[w.id]] \in Versions'
      BY <1>1, <2>1, <2>3 DEF Versions
    <3> QED BY <1>1, <2>1, <2>3, <3>1
  <2> QED BY <2>2, <2>3
<1>4. ASSUME NEW u \in Versions' PROVE VersionOK(u)'
  <2>1. CASE u \in Versions
    BY <1>3, <2>1, LineageCarriesOver DEF MemoryInv, VersionOK
  <2>2. CASE u = new
    <3> DEFINE v == [id |-> id, record |-> records[id]]
    <3>1. v \in Versions /\ VersionOK(v)
      BY StoredVersion DEF MemoryInv
    <3>2. ParentsHeld(u)'
      <4>1. /\ u.record.parents = v.record.parents /\ u.record.born = v.record.born
            /\ u.record.folded = v.record.folded
        BY <1>2, <2>2
      <4>2. failures' = failures /\ lost \subseteq lost'
        OBVIOUS
      <4> HIDE DEF v, new
      <4> QED BY <1>3, <3>1, <4>1, <4>2, LineageCarriesOver
    <3> QED BY <2>2, <3>1, <3>2 DEF VersionOK
  <2>3. u \in Versions \/ u = new
    BY <1>1 DEF Versions
  <2> QED BY <2>1, <2>2, <2>3
<1>5. ReplaceAlone' /\ RulesHeld'
  <2>1. rules = {} /\ backend # "memory"
    BY DEF MemoryInv, RulesHeld
  <2> QED BY <1>1, <2>1 DEF ReplaceAlone, RulesHeld
<1> QED BY <1>4, <1>5 DEF MemoryInv

\* The insert of the new version.
LEMMA InsertKeepsInv == ASSUME MemoryInv, Insert PROVE MemoryInv'
<1>1. PICK r \in replacing : records' = With(r.id, r.record)
  BY DEF Insert
<1>2. /\ replacing' = {}
      /\ UNCHANGED <<backend, rules, born, failures, lost>>
  BY DEF Insert
<1>3. /\ r.id \notin Stored /\ \A s \in replacing : s = r
      /\ backend = "ruvector" /\ rules = {}
  BY DEF MemoryInv, ReplaceAlone, RulesHeld
<1>4. /\ Stored' = Stored \union {r.id}
      /\ records'[r.id] = r.record
      /\ \A i \in Stored : records'[i] = records[i]
  <2>1. DOMAIN records' = Stored \union {r.id}
    BY <1>1, WithParts
  <2> QED BY <1>1, <1>3, <2>1, WithParts DEF Stored
<1>5. \A w \in Versions : \E x \in Versions' : x.id = w.id /\ x.record = w.record
  <2> SUFFICES ASSUME NEW w \in Versions
               PROVE  [id |-> w.id, record |-> w.record] \in Versions'
    OBVIOUS
  <2> QED BY <1>3, <1>4, StoredVersion DEF Versions
<1>6. \A u \in Versions' : \E v \in Versions : u.id = v.id /\ u.record = v.record
  <2> SUFFICES ASSUME NEW u \in Versions'
               PROVE  \E v \in Versions : u.id = v.id /\ u.record = v.record
    OBVIOUS
  <2>1. PICK i \in Stored' : u = [id |-> i, record |-> records'[i]]
    BY <1>2 DEF Versions
  <2>2. CASE i = r.id
    BY <1>4, <2>1, <2>2 DEF Versions
  <2>3. CASE i # r.id
    BY <1>4, <2>1, <2>3, StoredVersion
  <2> QED BY <2>2, <2>3
<1>7. ASSUME NEW u \in Versions' PROVE VersionOK(u)'
  <2>1. PICK v \in Versions : u.id = v.id /\ u.record = v.record
    BY <1>6
  <2>2. VersionOK(v)
    BY DEF MemoryInv
  <2>3. ParentsHeld(u)'
    BY <1>2, <1>5, <2>1, LineageCarriesOver
  <2> QED BY <1>2, <2>1, <2>2, <2>3 DEF VersionOK
<1>8. ReplaceAlone' /\ RulesHeld'
  BY <1>2, <1>3 DEF ReplaceAlone, RulesHeld
<1> QED BY <1>2, <1>7, <1>8 DEF MemoryInv

\* The insert that fails: the record is lost.
LEMMA FailureKeepsInv == ASSUME MemoryInv, InsertFails PROVE MemoryInv'
<1>1. PICK r \in replacing : lost' = lost \union {r.id}
  BY DEF InsertFails
<1>2. /\ replacing' = {} /\ failures' = failures + 1
      /\ UNCHANGED <<backend, records, rules, born>>
  BY DEF InsertFails
<1>3. /\ \A s \in replacing : s = r
      /\ failures \in Nat
  BY DEF MemoryInv, ReplaceAlone
<1>4. Stored' = Stored /\ failures' # 0 /\ failures' \in Nat
  BY <1>2, <1>3 DEF Stored
<1>5. Versions' \subseteq Versions
  BY <1>2, <1>4 DEF Versions
<1>6. ASSUME NEW v \in Versions' PROVE VersionOK(v)'
  <2>1. v \in Versions /\ VersionOK(v)
    BY <1>5 DEF MemoryInv
  <2>2. ParentsHeld(v)'
    <3> SUFFICES ASSUME NEW p \in v.record.parents, v.record.folded
                 PROVE  p \in lost' \/ \E w \in Versions' : w.id = p
      BY <1>4 DEF ParentsHeld
    <3>1. CASE p \in lost
      BY <1>1, <3>1
    <3>2. CASE p \notin lost
      <4>1. PICK w \in Versions : w.id = p
        BY <2>1, <3>2 DEF VersionOK, ParentsHeld
      <4>2. CASE w \in replacing
        BY <1>1, <1>3, <4>1, <4>2
      <4>3. CASE w.id \in Stored /\ w.record = records[w.id]
        <5>1. [id |-> w.id, record |-> records'[w.id]] \in Versions'
          BY <1>4, <4>3 DEF Versions
        <5> QED BY <4>1, <5>1
      <4> QED BY <4>2, <4>3, StoredVersion
    <3> QED BY <3>1, <3>2
  <2> QED BY <1>2, <2>1, <2>2 DEF VersionOK
<1>7. ReplaceAlone' /\ RulesHeld'
  BY <1>2, <1>4 DEF MemoryInv, ReplaceAlone, RulesHeld
<1> QED BY <1>2, <1>4, <1>6, <1>7 DEF MemoryInv

\* The memory is empty at the start.
LEMMA InitHolds == MemoryInit => MemoryInv
  BY DEF MemoryInit, MemoryInv, Versions, Stored, ReplaceAlone, RulesHeld

\* Every step keeps the invariant.
LEMMA StepHolds == MemoryInv /\ [MemoryNext]_memoryVars => MemoryInv'
<1> SUFFICES ASSUME MemoryInv, [MemoryNext]_memoryVars PROVE MemoryInv'
  OBVIOUS
<1>0. born \in Nat
  BY DEF MemoryInv
<1>1. ASSUME NEW id \in Ids, NEW c \in Causals, NEW offer \in Offers, Store(id, offer, c)
      PROVE  MemoryInv'
  <2> DEFINE record == New(offer.fidelity, offer.error, c, offer.parents, FALSE)
  <2>1. record \in Record /\ record.born = born /\ ~record.folded
    BY <1>0, OfferParts DEF New, Record
  <2>2. StoreRecord(id, record)
    BY <1>1 DEF Store
  <2> HIDE DEF record
  <2> QED BY <2>1, <2>2, StoreKeepsInv
<1>2. ASSUME NEW id \in Ids, NEW c \in Causals, NEW offer \in Offers, StoreCompressed(id, offer, c)
      PROVE  MemoryInv'
  <2> DEFINE record == New(Compressed, offer.error + 1, c, offer.parents, FALSE)
  <2>1. record \in Record /\ record.born = born /\ ~record.folded
    BY <1>0, OfferParts DEF New, Record, Compressed
  <2>2. StoreRecord(id, record)
    BY <1>2 DEF StoreCompressed
  <2> HIDE DEF record
  <2> QED BY <2>1, <2>2, StoreKeepsInv
<1>3. ASSUME NEW id \in Ids, NEW c \in Causals, NEW members \in SUBSET Ids,
             PromoteToPrototype(id, members, c)
      PROVE  MemoryInv'
  <2> DEFINE record == New(Prototype, 0, c, members, TRUE)
  <2>1. record \in Record /\ record.born = born /\ record.parents = members
    BY <1>0 DEF New, Record, Prototype, Names
  <2>2. members \subseteq Stored /\ StoreRecord(id, record)
    BY <1>3 DEF PromoteToPrototype, MembersKnown
  <2> HIDE DEF record
  <2> QED BY <2>1, <2>2, StoreKeepsInv
<1>4. ASSUME NEW id \in Stored PROVE records[id] \in Record
  BY StoredVersion DEF MemoryInv, VersionOK
<1>5. ASSUME NEW id \in Ids, NEW target \in {Compressed, Prototype, Rule}, CompressTo(id, target)
      PROVE  MemoryInv'
  <2> DEFINE record == Coarser(records[id], target)
  <2>1. id \in Stored /\ replacing = {} /\ target > records[id].fidelity
    BY <1>5 DEF CompressTo, Falls
  <2>2. records[id] \in Record
    BY <1>4, <2>1
  <2>3. /\ record \in Record /\ record.fidelity = target
        /\ record.parents = records[id].parents /\ record.born = records[id].born
        /\ record.folded = records[id].folded
    BY <2>2, CoarserParts
  <2>4. target # Raw
    BY DEF Compressed, Prototype, Rule, Raw
  <2>5. id \notin rules
    BY <2>1, <2>2 DEF MemoryInv, RulesHeld, Record, Compressed, Prototype, Rule
  <2>6. UNCHANGED <<backend, rules, born, failures, lost>>
    BY <1>5 DEF CompressTo
  <2>7. CASE backend = "memory"
    <3>1. records' = With(id, record) /\ replacing' = replacing
      BY <1>5, <2>7 DEF CompressTo
    <3> HIDE DEF record
    <3> QED BY <2>1, <2>3, <2>4, <2>5, <2>6, <3>1, InPlaceKeepsInv
  <2>8. CASE backend # "memory"
    <3>1. /\ records' = Without(id) /\ replacing' = {[id |-> id, record |-> record]}
          /\ backend = "ruvector"
      BY <1>5, <2>8 DEF CompressTo, MemoryInv
    <3> HIDE DEF record
    <3> QED BY <2>1, <2>3, <2>4, <2>6, <3>1, DeleteKeepsInv
  <2> QED BY <2>7, <2>8
<1>6. ASSUME NEW id \in Ids, NEW uses, PromoteToRule(id, uses) PROVE MemoryInv'
  <2> DEFINE record == AsRule(records[id])
  <2>1. /\ id \in Stored /\ backend = "memory" /\ records' = With(id, record)
        /\ rules' = rules \union {id}
        /\ UNCHANGED <<backend, replacing, born, failures, lost>>
    BY <1>6 DEF PromoteToRule
  <2>2. records[id] \in Record
    BY <1>4, <2>1
  <2>3. /\ record \in Record /\ record.fidelity = Rule /\ Rule # Raw
        /\ record.parents = records[id].parents /\ record.born = records[id].born
        /\ record.folded = records[id].folded
    BY <2>2 DEF AsRule, Record, Rule, Raw
  <2> HIDE DEF record
  <2> QED BY <2>1, <2>3, InPlaceKeepsInv
<1>7. CASE UNCHANGED memoryVars
  BY <1>7 DEF memoryVars, MemoryInv, Versions, VersionOK, ParentsHeld, Stored, ReplaceAlone, RulesHeld
<1> QED BY <1>1, <1>2, <1>3, <1>5, <1>6, <1>7, InsertKeepsInv, FailureKeepsInv DEF MemoryNext

\* The invariant holds in every state.
LEMMA MemoryHolds == MemorySpec => []MemoryInv
  BY InitHolds, StepHolds, PTL DEF MemorySpec

(* store.rs:326 and ruvector.rs:123: whatever parents callers store their     *)
(* records with, what a prototype was folded from is there as long as no      *)
(* replace fails, and folding makes no circle.                                *)
THEOREM LineageAlwaysHeld == MemorySpec => []LineageHeld
<1>1. MemoryInv => LineageHeld
  <2> SUFFICES ASSUME MemoryInv PROVE LineageHeld
    OBVIOUS
  <2>1. ASSUME NEW id \in Stored, records[id].folded, NEW p \in records[id].parents
        PROVE  \/ p \in Stored /\ (failures = 0 => records[p].born < records[id].born)
               \/ p \in lost
               \/ \E r \in replacing : r.id = p
    <3> DEFINE v == [id |-> id, record |-> records[id]]
    <3>1. v \in Versions /\ ParentsHeld(v)
      BY StoredVersion DEF MemoryInv, VersionOK
    <3>2. CASE p \notin lost
      <4>1. PICK w \in Versions : w.id = p /\ (failures = 0 => w.record.born < records[id].born)
        BY <2>1, <3>1, <3>2 DEF ParentsHeld
      <4> QED BY <4>1, StoredVersion
    <3> QED BY <3>2
  <2>2. ASSUME NEW id \in Stored, records[id].fidelity = Raw PROVE ~BelowFloor(records[id].causal)
    <3>1. VersionOK([id |-> id, record |-> records[id]])
      BY StoredVersion DEF MemoryInv
    <3> QED BY <2>2, <3>1 DEF VersionOK
  <2> QED BY <2>1, <2>2 DEF LineageHeld, MemoryInv, RulesHeld
<1> QED BY <1>1, MemoryHolds, PTL

(* store.rs:304: no call takes error off a record, makes it finer or cuts    *)
(* its lineage.                                                              *)
THEOREM MemoryOnlyFades == MemorySpec => OnlyFades
<1> DEFINE Fades ==
        \A id \in Stored :
           IF id \in DOMAIN records'
           THEN /\ records'[id].fidelity >= records[id].fidelity
                /\ records'[id].error >= records[id].error
                /\ records'[id].parents = records[id].parents
                /\ records'[id].causal = records[id].causal
           ELSE backend = "ruvector" /\ \E r \in replacing' : r.id = id /\ r.record.fidelity > records[id].fidelity
<1>1. MemoryInv /\ [MemoryNext]_memoryVars => [Fades]_memoryVars
  <2> SUFFICES ASSUME MemoryInv, MemoryNext, NEW id \in Stored
               PROVE  IF id \in DOMAIN records'
                      THEN /\ records'[id].fidelity >= records[id].fidelity
                           /\ records'[id].error >= records[id].error
                           /\ records'[id].parents = records[id].parents
                           /\ records'[id].causal = records[id].causal
                      ELSE /\ backend = "ruvector"
                           /\ \E r \in replacing' : /\ r.id = id
                                                   /\ r.record.fidelity > records[id].fidelity
    OBVIOUS
  <2>1. \A i \in Stored : records[i] \in Record
    BY StoredVersion DEF MemoryInv, VersionOK
  <2>2. CASE id \in DOMAIN records' /\ records'[id] = records[id]
    BY <2>1, <2>2 DEF Record
  <2>3. ASSUME NEW i, NEW record, records' = With(i, record), i \notin Stored
        PROVE  id \in DOMAIN records' /\ records'[id] = records[id]
    <3>1. DOMAIN records' = Stored \union {i}
      BY <2>3, WithParts
    <3> QED BY <2>3, <3>1, WithParts
  <2>4. ASSUME NEW i \in Ids, NEW c \in Causals,
               \/ \E offer \in Offers : Store(i, offer, c) \/ StoreCompressed(i, offer, c)
               \/ \E members \in SUBSET Ids : PromoteToPrototype(i, members, c)
        PROVE  id \in DOMAIN records' /\ records'[id] = records[id]
    BY <2>3, <2>4 DEF Store, StoreCompressed, PromoteToPrototype, StoreRecord
  <2>5. ASSUME NEW i \in Ids, NEW target \in {Compressed, Prototype, Rule}, CompressTo(i, target),
               ~(id \in DOMAIN records' /\ records'[id] = records[id])
        PROVE  IF id \in DOMAIN records'
               THEN /\ records'[id].fidelity >= records[id].fidelity
                    /\ records'[id].error >= records[id].error
                    /\ records'[id].parents = records[id].parents
                    /\ records'[id].causal = records[id].causal
               ELSE /\ backend = "ruvector"
                    /\ \E r \in replacing' : /\ r.id = id
                                            /\ r.record.fidelity > records[id].fidelity
    <3> DEFINE record == Coarser(records[i], target)
    <3>1. /\ record.fidelity = target /\ record.error = records[i].error + 1
          /\ record.parents = records[i].parents /\ record.causal = records[i].causal
          /\ i \in Stored /\ target > records[i].fidelity
      BY <2>1, <2>5, CoarserParts DEF CompressTo, Falls
    <3>2. CASE backend = "memory"
      <4>1. records' = With(i, record)
        BY <2>5, <3>2 DEF CompressTo
      <4>2. id = i /\ records'[id] = record /\ id \in DOMAIN records'
        <5>1. DOMAIN records' = Stored \union {i}
          BY <4>1, WithParts
        <5> HIDE DEF record
        <5> QED BY <2>5, <4>1, <5>1, WithParts
      <4> HIDE DEF record
      <4> QED BY <2>1, <3>1, <4>2 DEF Record, Compressed, Prototype, Rule
    <3>3. CASE backend # "memory"
      <4>1. /\ records' = Without(i) /\ replacing' = {[id |-> i, record |-> record]}
            /\ backend = "ruvector"
        BY <2>5, <3>3 DEF CompressTo, MemoryInv
      <4>2. id = i /\ id \notin DOMAIN records'
        <5>1. DOMAIN records' = Stored \ {i}
          BY <4>1, WithoutParts
        <5> HIDE DEF record
        <5> QED BY <2>5, <4>1, <5>1, WithoutParts
      <4> HIDE DEF record
      <4> QED BY <3>1, <4>1, <4>2
    <3> QED BY <3>2, <3>3
  <2>6. CASE Insert
    BY <2>2, <2>3, <2>6 DEF Insert, MemoryInv, ReplaceAlone
  <2>7. CASE InsertFails
    BY <2>2, <2>7 DEF InsertFails, Stored
  <2>8. ASSUME NEW i \in Ids, NEW uses, PromoteToRule(i, uses)
        PROVE  /\ id \in DOMAIN records'
               /\ records'[id].fidelity >= records[id].fidelity
               /\ records'[id].error >= records[id].error
               /\ records'[id].parents = records[id].parents
               /\ records'[id].causal = records[id].causal
    <3>1. records' = With(i, AsRule(records[i])) /\ i \in Stored
      BY <2>8 DEF PromoteToRule
    <3>2. DOMAIN records' = Stored \union {i}
      BY <3>1, WithParts
    <3>3. CASE id = i
      <4>1. records'[id] = AsRule(records[id])
        BY <3>1, <3>3, WithParts
      <4> QED BY <2>1, <3>2, <4>1 DEF AsRule, Record, Rule
    <3>4. CASE id # i
      <4>1. records'[id] = records[id]
        BY <3>1, <3>4, WithParts
      <4> QED BY <2>1, <3>2, <4>1 DEF Record
    <3> QED BY <3>3, <3>4
  <2> QED BY <2>2, <2>4, <2>5, <2>6, <2>7, <2>8 DEF MemoryNext
<1> QED BY <1>1, MemoryHolds, PTL DEF MemorySpec, OnlyFades

-----------------------------------------------------------------------------
(* Accounting and earned authority hold for every number space, policy,      *)
(* threshold and smoothing, and for frames that are filled in at will.       *)

Tracked == \/ nextExpected = {} /\ ingested = 0 /\ missing = 0
           \/ \E n \in 1 .. MaxSequence : /\ nextExpected = {n}
                                          /\ ingested \in Nat \ {0} /\ missing \in Nat
                                          /\ baseline \in Sequences
                                          /\ ingested + missing = n - baseline

\* The evidence at this rung counts too.
Earned == /\ level \in Authorities /\ framesAtRung \in 0 .. MinFrames
          /\ unbroken \in 0 .. ingested
          /\ level * MinFrames + framesAtRung <= unbroken

Supporting == /\ seenAny \in BOOLEAN /\ ema \in 0 .. 100 /\ effective \subseteq Authorities
              /\ ConfidenceSupportsRung

StreamInv == Tracked /\ Earned /\ Supporting

\* A frame is numbered within the number space.
LEMMA FrameParts == \A f \in Frames : /\ f.sequence \in Nat /\ f.sequence <= MaxSequence
                                      /\ f.confidence \in 0 .. 100
                                      /\ f.authority \in Authorities
<1> TAKE f \in Frames
<1>1. f.sequence \in Sequences /\ f.confidence \in Confidences /\ f.authority \in Authorities
  BY DEF Frames
<1>2. Confidences \subseteq 0 .. 100 /\ MaxSequence \in Nat
  BY StreamAssumption
<1>3. f.confidence \in 0 .. 100
  BY <1>1, <1>2
<1>4. f.sequence \in Nat /\ f.sequence <= MaxSequence
  BY <1>1, <1>2 DEF Sequences
<1> QED BY <1>1, <1>3, <1>4

\* The moving average of percentages is one.
LEMMA AverageIsPercentage ==
    ASSUME Supporting, NEW f \in Frames PROVE Average(f) \in 0 .. 100
<1>1. f.confidence \in 0 .. 100 /\ ema \in 0 .. 100 /\ Alpha \in 1 .. 100
  BY FrameParts, StreamAssumption DEF Supporting
<1> DEFINE a == Alpha * f.confidence
           b == (100 - Alpha) * ema
<1>2. a \in Nat /\ a <= Alpha * 100
  BY <1>1, SMT
<1>3. b \in Nat /\ b <= (100 - Alpha) * 100
  BY <1>1, SMT
<1>4. a + b \in Nat /\ a + b <= 10000
  <2> HIDE DEF a, b
  <2> QED BY <1>1, <1>2, <1>3
<1>5. (a + b) \div 100 \in 0 .. 100
  <2> HIDE DEF a, b
  <2> QED BY <1>4
<1> QED BY <1>1, <1>5 DEF Average

\* The loop that gives up rungs stops at the highest one the average supports.
LEMMA SupportedIsSupported ==
    ASSUME Supporting, Earned, NEW f \in Frames
    PROVE  /\ Supported(f) \in 0 .. RungBefore(f)
           /\ Average(f) >= Threshold(Supported(f))
<1> DEFINE Held(rung) == /\ Average(f) >= Threshold(rung)
                         /\ \A higher \in rung + 1 .. RungBefore(f) :
                                Average(f) < Threshold(higher)
<1>1. Average(f) \in 0 .. 100
  BY AverageIsPercentage
<1>2. /\ Threshold(0) = 0 /\ Threshold(1) \in 0 .. 100
      /\ Threshold(2) \in 0 .. 100 /\ Threshold(3) \in 0 .. 100
  BY StreamAssumption DEF Threshold, ObserveOnly
<1>3. RungBefore(f) \in 0 .. 3
  BY DEF RungBefore, Earned, Authorities, ObserveOnly
<1>4. \E rung \in 0 .. RungBefore(f) : Held(rung)
  <2>1. CASE RungBefore(f) >= 3 /\ Average(f) >= Threshold(3)
    <3>1. Held(3)
      BY <1>3, <2>1
    <3> QED BY <1>3, <2>1, <3>1
  <2>2. CASE /\ ~(RungBefore(f) >= 3 /\ Average(f) >= Threshold(3))
             /\ RungBefore(f) >= 2 /\ Average(f) >= Threshold(2)
    <3>1. \A higher \in 2 + 1 .. RungBefore(f) : higher = 3
      BY <1>3
    <3>2. Held(2)
      BY <1>1, <1>2, <1>3, <2>2, <3>1
    <3> QED BY <1>3, <2>2, <3>2
  <2>3. CASE /\ ~(RungBefore(f) >= 3 /\ Average(f) >= Threshold(3))
             /\ ~(RungBefore(f) >= 2 /\ Average(f) >= Threshold(2))
             /\ RungBefore(f) >= 1 /\ Average(f) >= Threshold(1)
    <3>1. \A higher \in 1 + 1 .. RungBefore(f) : higher = 3 \/ higher = 2
      BY <1>3
    <3>2. Held(1)
      BY <1>1, <1>2, <1>3, <2>3, <3>1
    <3> QED BY <1>3, <2>3, <3>2
  <2>4. CASE /\ ~(RungBefore(f) >= 3 /\ Average(f) >= Threshold(3))
             /\ ~(RungBefore(f) >= 2 /\ Average(f) >= Threshold(2))
             /\ ~(RungBefore(f) >= 1 /\ Average(f) >= Threshold(1))
    <3>1. \A higher \in 0 + 1 .. RungBefore(f) : higher = 3 \/ higher = 2 \/ higher = 1
      BY <1>3
    <3>2. Held(0)
      BY <1>1, <1>2, <1>3, <2>4, <3>1
    <3> QED BY <1>3, <3>2
  <2> QED BY <2>1, <2>2, <2>3, <2>4
<1>5. Supported(f) = CHOOSE rung \in 0 .. RungBefore(f) : Held(rung)
  BY DEF Supported
<1>6. Supported(f) \in 0 .. RungBefore(f) /\ Held(Supported(f))
  <2> HIDE DEF Held
  <2> QED BY <1>4, <1>5
<1> QED BY <1>6

\* A frame leaves every number accounted for.
LEMMA IngestKeepsTracked ==
    ASSUME Tracked, Earned, NEW f \in Frames, Ingest(f)
    PROVE  Tracked' /\ unbroken' \in 0 .. ingested'
<1>1. /\ nextExpected' = {f.sequence + 1}
      /\ ingested' = ingested + 1 /\ missing' = missing + Skipped(f)
      /\ baseline' = IF ingested = 0 THEN f.sequence ELSE baseline
      /\ unbroken' = IF Gap(f) THEN 1 ELSE unbroken + 1
      /\ Trackable(f)
  BY DEF Ingest
<1>2. /\ f.sequence \in Nat /\ f.sequence < MaxSequence
      /\ MaxSequence \in Nat
  BY <1>1, FrameParts, StreamAssumption DEF Trackable, Baseline, Forward
<1>3. f.sequence + 1 \in 1 .. MaxSequence /\ f.sequence \in Sequences
  BY <1>2 DEF Sequences
<1>4. CASE nextExpected = {} /\ ingested = 0 /\ missing = 0
  <2>1. Skipped(f) = 0
    BY <1>4 DEF Skipped
  <2>2. ingested' = 1 /\ missing' = 0 /\ baseline' = f.sequence
    BY <1>1, <1>4, <2>1
  <2>3. Tracked'
    BY <1>1, <1>2, <1>3, <2>2 DEF Tracked
  <2> QED BY <1>1, <1>4, <2>3 DEF Earned
<1>5. ASSUME NEW n \in 1 .. MaxSequence, nextExpected = {n},
             ingested \in Nat \ {0}, missing \in Nat, baseline \in Sequences,
             ingested + missing = n - baseline
      PROVE  Tracked' /\ unbroken' \in 0 .. ingested'
  <2>1. Skipped(f) = f.sequence - n
    BY <1>5 DEF Skipped
  <2>2. f.sequence >= n
    BY <1>1, <1>5 DEF Trackable, Baseline, Forward
  <2>3. /\ ingested' \in Nat \ {0} /\ missing' \in Nat /\ baseline' = baseline
        /\ ingested' + missing' = (f.sequence + 1) - baseline'
    BY <1>1, <1>2, <1>5, <2>1, <2>2 DEF Sequences
  <2>4. Tracked'
    BY <1>1, <1>3, <1>5, <2>3 DEF Tracked
  <2> QED BY <1>1, <1>5, <2>4 DEF Earned
<1> QED BY <1>4, <1>5 DEF Tracked

\* A rung is climbed only on MinFrames frames at the one below.
LEMMA IngestKeepsEarned ==
    ASSUME StreamInv, NEW f \in Frames, Ingest(f)
    PROVE  /\ level' \in Authorities /\ framesAtRung' \in 0 .. MinFrames
           /\ level' * MinFrames + framesAtRung' <= unbroken'
<1>1. /\ level' = Rung(f)
      /\ framesAtRung' = SmallerOf(IF Climbs(f) THEN 0 ELSE FramesAt(f), MinFrames)
      /\ unbroken' = IF Gap(f) THEN 1 ELSE unbroken + 1
  BY DEF Ingest
<1>2. /\ level \in 0 .. 3 /\ framesAtRung \in 0 .. MinFrames
      /\ unbroken \in Nat /\ MinFrames \in Nat /\ MinFrames >= 1
      /\ level * MinFrames + framesAtRung <= unbroken
      /\ ingested \in Nat
  BY StreamAssumption DEF StreamInv, Earned, Authorities, Tracked
<1>3. Supported(f) \in 0 .. RungBefore(f)
  BY SupportedIsSupported DEF StreamInv
<1> DEFINE before == RungBefore(f)
           frames == FramesBefore(f)
           s == Supported(f)
           at == FramesAt(f)
<1>4. /\ before \in 0 .. 3 /\ frames \in 0 .. MinFrames
      /\ before * MinFrames + frames + 1 <= unbroken'
  <2>1. CASE EvidenceKept(f)
    BY <1>1, <1>2, <2>1 DEF RungBefore, FramesBefore, EvidenceKept
  <2>2. CASE ~EvidenceKept(f)
    BY <1>1, <1>2, <2>2 DEF RungBefore, FramesBefore, ObserveOnly
  <2> QED BY <2>1, <2>2
<1>5. at = (IF s = before THEN frames + 1 ELSE 0)
  BY DEF FramesAt
<1>6. unbroken' \in Nat
  BY <1>1, <1>2
<1>7. Climbs(f) => at >= MinFrames /\ s < 3
  BY DEF Climbs
<1>8. Rung(f) = IF Climbs(f) THEN s + 1 ELSE s
  BY DEF Rung
<1> HIDE DEF before, frames, s, at
<1>9. s \in 0 .. before /\ s \in 0 .. 3 /\ before - s \in Nat
  BY <1>3, <1>4 DEF s, before
<1>10. framesAtRung' = SmallerOf(IF Climbs(f) THEN 0 ELSE at, MinFrames)
  BY <1>1 DEF at
<1>11. s * MinFrames + at <= unbroken'
  <2>1. CASE s = before
    <3>1. s * MinFrames = before * MinFrames /\ s * MinFrames \in Nat
      BY <1>2, <1>4, <1>9, <2>1, SMT
    <3>2. at = frames + 1 /\ at \in Nat
      BY <1>2, <1>4, <1>5, <2>1
    <3> QED BY <1>4, <1>6, <3>1, <3>2
  <2>2. CASE s # before
    <3>1. s * MinFrames <= before * MinFrames
      BY <1>2, <1>4, <1>9, SMT
    <3>2. s * MinFrames \in Nat /\ before * MinFrames \in Nat
      BY <1>2, <1>4, <1>9, SMT
    <3> QED BY <1>4, <1>5, <1>6, <2>2, <3>1, <3>2
  <2> QED BY <2>1, <2>2
<1>12. at \in Nat /\ s * MinFrames \in Nat /\ (s + 1) * MinFrames = s * MinFrames + MinFrames
  BY <1>2, <1>4, <1>5, <1>9, SMT
<1>13. CASE Climbs(f)
  <2>1. framesAtRung' = 0 /\ level' = s + 1 /\ s < 3 /\ at >= MinFrames
    BY <1>1, <1>2, <1>7, <1>8, <1>10, <1>13 DEF SmallerOf
  <2>2. (s + 1) * MinFrames <= unbroken'
    BY <1>2, <1>6, <1>11, <1>12, <2>1
  <2>3. (s + 1) * MinFrames \in Nat
    BY <1>2, <1>12
  <2>4. level' * MinFrames = (s + 1) * MinFrames
    BY <2>1
  <2>5. level' \in Authorities
    BY <1>9, <2>1 DEF Authorities
  <2> QED BY <1>2, <1>6, <2>1, <2>2, <2>3, <2>4, <2>5
<1>14. CASE ~Climbs(f)
  <2>1. /\ framesAtRung' \in 0 .. MinFrames /\ framesAtRung' <= at /\ level' = s
    BY <1>1, <1>2, <1>8, <1>10, <1>12, <1>14 DEF SmallerOf
  <2>2. level' * MinFrames = s * MinFrames
    BY <2>1
  <2>3. level' \in Authorities
    BY <1>9, <2>1 DEF Authorities
  <2>4. level' * MinFrames + framesAtRung' <= unbroken'
    BY <1>2, <1>6, <1>11, <1>12, <2>1, <2>2
  <2> QED BY <2>1, <2>3, <2>4
<1> QED BY <1>13, <1>14

\* The average supports the rung after every frame.
LEMMA IngestKeepsSupporting ==
    ASSUME StreamInv, NEW f \in Frames, Ingest(f), level' \in Authorities PROVE Supporting'
<1>1. /\ level' = Rung(f) /\ ema' = Average(f) /\ seenAny' = TRUE
      /\ effective' = {SmallerOf(Rung(f), f.authority)}
  BY DEF Ingest
<1>2. Average(f) \in 0 .. 100 /\ Average(f) >= Threshold(Supported(f))
  BY AverageIsPercentage, SupportedIsSupported DEF StreamInv
<1>3. Average(f) >= Threshold(Rung(f))
  BY <1>2 DEF Rung, Climbs
<1>4. effective' \subseteq Authorities
  BY <1>1, FrameParts DEF SmallerOf
<1>5. ConfidenceSupportsRung'
  BY <1>1, <1>3 DEF ConfidenceSupportsRung, Threshold
<1> QED BY <1>1, <1>2, <1>4, <1>5 DEF Supporting

\* Nothing has been ingested at the start.
LEMMA InitInv == StreamInit => StreamInv
<1> SUFFICES ASSUME StreamInit PROVE StreamInv
  OBVIOUS
<1>1. MinFrames \in Nat
  BY StreamAssumption
<1>2. 0 * MinFrames = 0
  BY <1>1, SMT
<1>3. Tracked
  BY DEF StreamInit, Tracked
<1>4. Earned
  <2>1. level = 0 /\ framesAtRung = 0 /\ unbroken = 0 /\ ingested = 0
    BY DEF StreamInit, ObserveOnly
  <2>2. level * MinFrames = 0
    BY <1>2, <2>1
  <2>3. level * MinFrames + framesAtRung <= unbroken
    BY <2>1, <2>2
  <2> QED BY <1>1, <2>1, <2>3 DEF Earned, Authorities
<1>5. Supporting
  <2>1. seenAny = FALSE /\ ema = 0 /\ effective = {}
    BY DEF StreamInit
  <2>2. ConfidenceSupportsRung
    BY <2>1, Zenon DEF ConfidenceSupportsRung
  <2>3. seenAny \in BOOLEAN
    BY <2>1
  <2>4. ema \in 0 .. 100 /\ effective \subseteq Authorities
    BY <2>1
  <2> QED BY <2>2, <2>3, <2>4 DEF Supporting
<1> QED BY <1>3, <1>4, <1>5 DEF StreamInv

\* Every frame keeps the invariant.
LEMMA StepInv == StreamInv /\ [StreamNext]_streamVars => StreamInv'
<1> SUFFICES ASSUME StreamInv, [StreamNext]_streamVars PROVE StreamInv'
  OBVIOUS
<1>1. ASSUME NEW f \in Frames, Ingest(f) PROVE StreamInv'
  <2>1. Tracked' /\ unbroken' \in 0 .. ingested'
    BY <1>1, IngestKeepsTracked DEF StreamInv
  <2>2. /\ level' \in Authorities /\ framesAtRung' \in 0 .. MinFrames
        /\ level' * MinFrames + framesAtRung' <= unbroken'
    BY <1>1, IngestKeepsEarned
  <2>3. Supporting'
    BY <1>1, <2>2, IngestKeepsSupporting
  <2> QED BY <2>1, <2>2, <2>3 DEF StreamInv, Earned
<1>2. CASE UNCHANGED streamVars
  BY <1>2 DEF streamVars, escalator, ghosts, StreamInv, Tracked, Earned, Supporting,
              ConfidenceSupportsRung, Threshold
<1> QED BY <1>1, <1>2 DEF StreamNext, Refuse

\* The invariant holds in every state.
LEMMA StreamHolds == StreamSpec => []StreamInv
  BY InitInv, StepInv, PTL DEF StreamSpec

(* sequence.rs, escalation.rs: the state of a stream stays within its types. *)
THEOREM StreamTyped == StreamSpec => []StreamTypeOK
<1>1. StreamInv => StreamTypeOK
  BY StreamAssumption DEF StreamInv, Tracked, Earned, Supporting, StreamTypeOK, Sequences
<1> QED BY <1>1, StreamHolds, PTL

(* sequence.rs:63: the frames ingested and the numbers reported missing add   *)
(* up to every number from the first frame on.                               *)
THEOREM AllAccounted == StreamSpec => []NothingUnaccounted
<1>1. StreamInv => NothingUnaccounted
  BY DEF StreamInv, Tracked, NothingUnaccounted
<1> QED BY <1>1, StreamHolds, PTL

(* escalation.rs:133: no rung without MinFrames unbroken frames for it and   *)
(* for each one below.                                                       *)
LEMMA RungsEarned == StreamSpec => []RungsAreEarned
<1>1. StreamInv => RungsAreEarned
  <2> SUFFICES ASSUME StreamInv PROVE level * MinFrames <= unbroken
    BY DEF RungsAreEarned
  <2>1. /\ level \in 0 .. 3 /\ MinFrames \in Nat /\ framesAtRung \in 0 .. MinFrames
        /\ level * MinFrames + framesAtRung <= unbroken /\ unbroken \in Int
    BY StreamAssumption DEF StreamInv, Earned, Authorities
  <2>2. level * MinFrames \in Nat
    BY <2>1, SMT
  <2> QED BY <2>1, <2>2
<1> QED BY <1>1, StreamHolds, PTL

(* escalation.rs:122: the average always supports the rung that is held.     *)
LEMMA RungsSupported == StreamSpec => []ConfidenceSupportsRung
<1>1. StreamInv => ConfidenceSupportsRung
  BY DEF StreamInv, Supporting
<1> QED BY <1>1, StreamHolds, PTL

(* escalation.rs: every rung that is held was earned and is supported.       *)
THEOREM RungsAlwaysStand == StreamSpec => []RungsStand
<1>1. RungsAreEarned /\ ConfidenceSupportsRung => RungsStand
  BY DEF RungsStand
<1> QED BY <1>1, RungsEarned, RungsSupported, PTL
=============================================================================
