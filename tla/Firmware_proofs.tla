--------------------------- MODULE Firmware_proofs --------------------------
(* lm_air_pipeline_send() for any number of tasks and links, any queue depth *)
(* and any cut of a message into fragments, while the other tasks empty the  *)
(* queues: what the queues accepted stays together, the caller is told the   *)
(* truth about it, and every packet is accounted for.                        *)
EXTENDS FirmwareNode, SequenceTheorems, FiniteSetTheorems, WellFoundedInduction, TLAPS

Fragments == Packets

\* The last fragment of a message is among those the queue accepted.
Finished(frags, parts, id) ==
    \E i \in 1 .. Len(frags) : frags[i].id = id /\ frags[i].part = parts

\* The fragments of one message lie next to one another, from the first on.
Together(frags, parts) ==
    /\ \A i \in 1 .. Len(frags) :
          /\ frags[i].part \in 1 .. parts /\ frags[i].part <= i
          /\ \A k \in 1 .. i : i - k < frags[i].part => frags[k].id = frags[i].id
    /\ \A i, j \in 1 .. Len(frags) :
          frags[i].id = frags[j].id => /\ frags[j].part - frags[i].part = j - i
                                       /\ frags[j].sequence = frags[i].sequence

\* A number is used again only behind a message that is not finished.
Numbered(frags, parts, next) ==
    /\ \A i \in 1 .. Len(frags) :
          /\ frags[i].sequence <= next
          /\ frags[i].part = parts => frags[i].sequence < next
    /\ \A i, j \in 1 .. Len(frags) :
          i < j /\ frags[i].id # frags[j].id /\ Finished(frags, parts, frags[i].id)
          => frags[i].sequence < frags[j].sequence

\* The fragment is the first of its message, or the one behind the last.
Following(frags, f) ==
    IF f.part = 1 THEN \A i \in 1 .. Len(frags) : frags[i].id # f.id
    ELSE /\ Len(frags) > 0
         /\ frags[Len(frags)].id = f.id
         /\ frags[Len(frags)].part = f.part - 1
         /\ frags[Len(frags)].sequence = f.sequence

\* What the queue accepted stays together when a task adds its next fragment.
LEMMA TogetherFollowing ==
    ASSUME NEW frags \in Seq(Fragments), NEW f \in Fragments, NEW parts \in Nat \ {0}
    PROVE  Together(frags, parts) /\ f.part \in 1 .. parts /\ Following(frags, f)
           => Together(Append(frags, f), parts)
<1>1. ASSUME Together(frags, parts), f.part \in 1 .. parts, Following(frags, f)
      PROVE  Together(Append(frags, f), parts)
  <2>0. PICK n \in Nat, p \in Nat, longer \in Seq(Fragments) :
           n = Len(frags) /\ p = f.part /\ longer = Append(frags, f)
    <3>1. Len(frags) \in Nat /\ f.part \in Nat
      BY LenProperties DEF Fragments, Packets
    <3>2. Append(frags, f) \in Seq(Fragments)
      BY AppendProperties
    <3> QED BY <3>1, <3>2
  <2>9. p \in 1 .. parts /\ p >= 1
    BY <1>1, <2>0
  <2>1. /\ Len(longer) = n + 1 /\ longer[n + 1] = f
        /\ \A i \in 1 .. n : longer[i] = frags[i]
        /\ \A i \in 1 .. n : frags[i] \in Fragments
    BY <2>0, AppendProperties, ElementOfSeq
  <2>2. \A i \in 1 .. n : frags[i].part \in Nat
    BY <2>1 DEF Fragments, Packets
  <2>3. ASSUME NEW i \in 1 .. n, frags[i].id = f.id
        PROVE  p - frags[i].part = n + 1 - i /\ f.sequence = frags[i].sequence
    <3>1. p # 1 /\ n > 0 /\ frags[n].id = f.id /\ frags[n].part = p - 1
          /\ frags[n].sequence = f.sequence
      BY <1>1, <2>0, <2>3 DEF Following
    <3>2. n \in 1 .. n
      BY <2>1, <3>1
    <3>3. frags[n].part - frags[i].part = n - i /\ frags[n].sequence = frags[i].sequence
      BY <1>1, <2>0, <2>3, <3>1, <3>2 DEF Together
    <3>4. n \in Nat /\ i \in Nat /\ p \in Nat /\ frags[n].part \in Nat /\ frags[i].part \in Nat
      BY <2>1, <2>2, <3>2
    <3> QED BY <3>1, <3>3, <3>4
  <2>4. /\ p <= n + 1
        /\ \A k \in 1 .. n + 1 : n + 1 - k < p => longer[k].id = f.id
    <3>1. CASE p = 1
      BY <2>1, <3>1
    <3>2. CASE p # 1
      <4>1. /\ n > 0 /\ n \in 1 .. n /\ frags[n].id = f.id /\ frags[n].part = p - 1
        BY <1>1, <2>0, <2>1, <3>2 DEF Following
      <4>2. /\ frags[n].part <= n
            /\ \A k \in 1 .. n : n - k < frags[n].part => frags[k].id = f.id
        BY <1>1, <2>0, <4>1 DEF Together
      <4>3. ASSUME NEW k \in 1 .. n + 1, n + 1 - k < p PROVE longer[k].id = f.id
        <5>1. CASE k = n + 1
          BY <2>1, <5>1
        <5>2. CASE k \in 1 .. n
          <6>1. n - k < p - 1
            BY <4>3, <5>2
          <6> QED BY <2>1, <4>1, <4>2, <5>2, <6>1
        <5> QED BY <5>1, <5>2
      <4> QED BY <2>0, <2>9, <4>1, <4>2, <4>3
    <3> QED BY <3>1, <3>2
  <2>5. ASSUME NEW i \in 1 .. n + 1
        PROVE  /\ longer[i].part \in 1 .. parts /\ longer[i].part <= i
               /\ \A k \in 1 .. i : i - k < longer[i].part => longer[k].id = longer[i].id
    <3>1. CASE i = n + 1
      <4>1. longer[i] = f
        BY <2>1, <3>1
      <4>2. /\ p \in 1 .. parts /\ p <= i
            /\ \A k \in 1 .. i : i - k < p => longer[k].id = f.id
        BY <2>4, <2>9, <3>1
      <4> QED BY <2>0, <4>1, <4>2
    <3>2. CASE i \in 1 .. n
      <4>1. /\ frags[i].part \in 1 .. parts /\ frags[i].part <= i
            /\ \A k \in 1 .. i : i - k < frags[i].part => frags[k].id = frags[i].id
        BY <1>1, <2>0, <3>2 DEF Together
      <4>2. \A k \in 1 .. i : k \in 1 .. n
        BY <3>2
      <4> QED BY <2>1, <3>2, <4>1, <4>2
    <3> QED BY <2>1, <3>1, <3>2
  <2>6. ASSUME NEW i \in 1 .. n + 1, NEW j \in 1 .. n + 1, longer[i].id = longer[j].id
        PROVE  /\ longer[j].part - longer[i].part = j - i
               /\ longer[j].sequence = longer[i].sequence
    <3>1. CASE i = n + 1 /\ j = n + 1
      BY <2>0, <2>1, <3>1
    <3>2. CASE i \in 1 .. n /\ j = n + 1
      BY <2>0, <2>1, <2>3, <2>6, <3>2
    <3>3. CASE i = n + 1 /\ j \in 1 .. n
      <4>1. p - frags[j].part = n + 1 - j /\ f.sequence = frags[j].sequence
        BY <2>1, <2>3, <2>6, <3>3
      <4>2. longer[i] = f /\ longer[j] = frags[j]
        BY <2>1, <3>3
      <4>3. n \in Nat /\ j \in Nat /\ p \in Nat /\ frags[j].part \in Nat
        BY <2>1, <2>2, <3>3
      <4> QED BY <2>0, <3>3, <4>1, <4>2, <4>3
    <3>4. CASE i \in 1 .. n /\ j \in 1 .. n
      <4>1. longer[i] = frags[i] /\ longer[j] = frags[j]
        BY <2>1, <3>4
      <4> QED BY <1>1, <2>0, <2>6, <3>4, <4>1 DEF Together
    <3> QED BY <2>1, <3>1, <3>2, <3>3, <3>4
  <2>7. Len(longer) = n + 1
    BY <2>1
  <2>8. Together(longer, parts)
    BY <1>1, <2>5, <2>6, <2>7 DEF Together
  <2> QED BY <2>8, <2>0
<1> QED BY <1>1

\* A fragment with the current number keeps the numbers in order; the number
\* moves on behind the last fragment of a message.
LEMMA NumberedFollowing ==
    ASSUME NEW frags \in Seq(Fragments), NEW f \in Fragments, NEW parts \in Nat \ {0}
    PROVE  Together(frags, parts) /\ f.part \in 1 .. parts /\ Following(frags, f)
           /\ Numbered(frags, parts, f.sequence)
           => Numbered(Append(frags, f), parts,
                    IF f.part = parts THEN f.sequence + 1 ELSE f.sequence)
<1>1. ASSUME Together(frags, parts), f.part \in 1 .. parts, Following(frags, f),
             Numbered(frags, parts, f.sequence)
      PROVE  Numbered(Append(frags, f), parts,
                    IF f.part = parts THEN f.sequence + 1 ELSE f.sequence)
  <2>0. PICK n \in Nat, p \in Nat, longer \in Seq(Fragments) :
           n = Len(frags) /\ p = f.part /\ longer = Append(frags, f)
    <3>1. Len(frags) \in Nat /\ f.part \in Nat
      BY LenProperties DEF Fragments, Packets
    <3>2. Append(frags, f) \in Seq(Fragments)
      BY AppendProperties
    <3> QED BY <3>1, <3>2
  <2>9. p \in 1 .. parts /\ p >= 1
    BY <1>1, <2>0
  <2>1. /\ Len(longer) = n + 1 /\ longer[n + 1] = f
        /\ \A i \in 1 .. n : longer[i] = frags[i]
        /\ \A i \in 1 .. n : frags[i] \in Fragments
    BY <2>0, AppendProperties, ElementOfSeq
  <2>2. /\ f.sequence \in Nat
        /\ \A i \in 1 .. n : frags[i].part \in Nat /\ frags[i].sequence \in Nat
    BY <2>1 DEF Fragments, Packets
  <2>21. PICK next \in Nat : next = IF f.part = parts THEN f.sequence + 1 ELSE f.sequence
    BY <2>2
  <2>3. Together(longer, parts)
    BY <1>1, <2>0, TogetherFollowing
  <2>31. /\ \A i \in 1 .. n + 1 : \A k \in 1 .. i :
                i - k < longer[i].part => longer[k].id = longer[i].id
         /\ \A i, j \in 1 .. n + 1 :
                longer[i].id = longer[j].id => longer[j].part - longer[i].part = j - i
    BY <2>1, <2>3 DEF Together
  <2>4. ASSUME NEW i \in 1 .. n + 1
        PROVE  /\ longer[i].sequence <= next
               /\ longer[i].part = parts => longer[i].sequence < next
    <3>1. CASE i = n + 1
      BY <2>0, <2>1, <2>2, <2>21, <3>1
    <3>2. CASE i \in 1 .. n
      <4>1. /\ frags[i].sequence <= f.sequence
            /\ frags[i].part = parts => frags[i].sequence < f.sequence
        BY <1>1, <2>0, <3>2 DEF Numbered
      <4> QED BY <2>0, <2>1, <2>2, <2>21, <3>2, <4>1
    <3> QED BY <2>1, <3>1, <3>2
  <2>5. ASSUME NEW i \in 1 .. n + 1, NEW j \in 1 .. n + 1, i < j,
               longer[i].id # longer[j].id, Finished(longer, parts, longer[i].id)
        PROVE  longer[i].sequence < longer[j].sequence
    <3>1. i \in 1 .. n /\ longer[i] = frags[i]
      BY <2>1, <2>5
    <3>2. PICK k \in 1 .. n + 1 : longer[k].id = longer[i].id /\ longer[k].part = parts
      BY <1>1, <2>1, <2>5 DEF Finished
    <3>3. CASE k \in 1 .. n
      <4>1. frags[k].id = frags[i].id /\ frags[k].part = parts
        BY <2>1, <3>1, <3>2, <3>3
      <4>2. Finished(frags, parts, frags[i].id)
        BY <1>1, <2>0, <3>3, <4>1 DEF Finished
      <4>3. CASE j \in 1 .. n
        BY <1>1, <2>0, <2>1, <2>5, <3>1, <4>2, <4>3 DEF Numbered
      <4>4. CASE j = n + 1
        <5>1. frags[k].sequence < f.sequence
          BY <1>1, <2>0, <3>3, <4>1 DEF Numbered
        <5>2. frags[k].sequence = frags[i].sequence
          BY <1>1, <2>0, <3>1, <3>3, <4>1 DEF Together
        <5> QED BY <2>1, <3>1, <4>4, <5>1, <5>2
      <4> QED BY <2>1, <4>3, <4>4
    <3>4. CASE k = n + 1
      \* Everything between i and the new fragment is of the same message.
      <4>1. longer[k] = f /\ f.id = longer[i].id /\ j # n + 1 /\ j \in 1 .. n
        BY <2>1, <2>5, <3>2, <3>4
      <4>2. p - frags[i].part = n + 1 - i
        <5>1. n + 1 \in 1 .. n + 1 /\ longer[n + 1].id = longer[i].id /\ longer[n + 1].part = p
          BY <2>0, <2>1, <3>4, <4>1
        <5>2. longer[n + 1].part - longer[i].part = n + 1 - i
          BY <2>31, <2>5, <5>1
        <5> QED BY <3>1, <5>1, <5>2
      <4>3. frags[i].part >= 1
        BY <1>1, <2>0, <2>2, <3>1 DEF Together
      <4>4. n + 1 \in 1 .. n + 1 /\ longer[n + 1].part = p /\ longer[n + 1].id = f.id
        BY <2>0, <2>1
      <4>5. j \in 1 .. n + 1 /\ n + 1 - j < p
        <5>1. i \in Nat /\ j \in Nat /\ frags[i].part \in Nat /\ i < j /\ j <= n
          BY <2>1, <2>2, <2>5, <3>1, <4>1
        <5> QED BY <4>2, <4>3, <5>1
      <4>6. longer[j].id = f.id
        <5>1. \A m \in 1 .. n + 1 : n + 1 - m < longer[n + 1].part => longer[m].id = longer[n + 1].id
          BY <2>31
        <5>2. n + 1 - j < longer[n + 1].part
          BY <4>4, <4>5
        <5> QED BY <4>4, <4>5, <5>1, <5>2
      <4> QED BY <2>5, <4>1, <4>6
    <3> QED BY <2>1, <3>3, <3>4
  <2>6. Numbered(longer, parts, next)
    BY <1>1, <2>1, <2>4, <2>5 DEF Numbered
  <2> QED BY <2>6, <2>0, <2>21
<1> QED BY <1>1

\* All the fragments of a message are there just when its last one is.
LEMMA WholeIsFinished ==
    ASSUME NEW frags \in Seq(Fragments), NEW parts \in Nat \ {0}, NEW id
    PROVE  Together(frags, parts)
           => (Cardinality({i \in 1 .. Len(frags) : frags[i].id = id}) = parts
            <=> Finished(frags, parts, id))
<1>1. ASSUME Together(frags, parts)
      PROVE  (Cardinality({i \in 1 .. Len(frags) : frags[i].id = id}) = parts
            <=> Finished(frags, parts, id))
  <2>0. PICK n \in Nat, less \in Nat : n = Len(frags) /\ less = parts - 1
    BY LenProperties
  <2> DEFINE all == {i \in 1 .. n : frags[i].id = id}
  <2>1. \A i \in 1 .. n : frags[i].part \in Nat
    <3>1. \A i \in 1 .. n : frags[i] \in Fragments
      BY <2>0, ElementOfSeq
    <3> QED BY <3>1, LenProperties DEF Fragments, Packets
  <2>2. ASSUME NEW i \in all, NEW j \in all PROVE frags[j].part - frags[i].part = j - i
    BY <1>1, <2>0 DEF Together
  <2>3. \A i \in all : frags[i].part \in 1 .. parts
    BY <1>1, <2>0 DEF Together
  <2>4. ASSUME Finished(frags, parts, id) PROVE Cardinality(all) = parts
    <3>1. PICK i \in 1 .. n : frags[i].id = id /\ frags[i].part = parts
      BY <1>1, <2>0, <2>4 DEF Finished
    <3>2. all = i - parts + 1 .. i
      <4>1. ASSUME NEW j \in all PROVE j \in i - parts + 1 .. i
        <5>1. frags[j].part - parts = j - i /\ frags[j].part \in 1 .. parts /\ j \in Int
          BY <2>2, <2>3, <3>1
        <5> QED BY <2>1, <3>1, <5>1
      <4>2. ASSUME NEW j \in i - parts + 1 .. i PROVE j \in all
        <5>1. /\ parts <= i
              /\ \A k \in 1 .. i : i - k < parts => frags[k].id = id
          BY <1>1, <2>0, <3>1 DEF Together
        <5>2. j \in 1 .. i /\ i - j < parts /\ j \in 1 .. n
          BY <3>1, <4>2, <5>1
        <5>3. frags[j].id = id
          BY <5>1, <5>2
        <5> QED BY <5>2, <5>3
      <4> QED BY <4>1, <4>2
    <3>3. i \in Int /\ i - parts + 1 \in Int
      BY <3>1
    <3>4. Cardinality(i - parts + 1 .. i) = i - (i - parts + 1) + 1
      BY <3>3, FS_Interval
    <3>5. i - (i - parts + 1) + 1 = parts
      BY <3>3
    <3> QED BY <3>2, <3>4, <3>5
  <2>5. ASSUME Cardinality(all) = parts PROVE Finished(frags, parts, id)
    <3> SUFFICES ASSUME ~Finished(frags, parts, id) PROVE FALSE
      OBVIOUS
    <3>1. \A i \in all : frags[i].part \in 1 .. less
      BY <1>1, <2>0, <2>1, <2>3 DEF Finished
    <3>2. all # {}
      BY <2>5, FS_EmptySet
    <3>3. PICK i \in all : TRUE
      BY <3>2
    <3>31. i \in Nat /\ frags[i].part \in Nat
      BY <2>1, <3>3
    <3>32. PICK p \in Nat : p = frags[i].part
      BY <3>31
    <3>4. PICK first \in Int, last \in Int : first = i - p + 1 /\ last = i - p + less
      BY <3>31
    <3>5. all \subseteq first .. last
      <4> SUFFICES ASSUME NEW j \in all PROVE j \in first .. last
        OBVIOUS
      <4>1. frags[j].part - frags[i].part = j - i /\ frags[j].part \in 1 .. less
            /\ j \in Int /\ i \in Int
        BY <2>2, <3>1, <3>3
      <4>2. PICK q \in Nat : q = frags[j].part
        BY <2>1
      <4>3. q - p = j - i /\ q \in 1 .. less /\ j \in Int /\ i \in Int
        BY <3>32, <4>1, <4>2
      <4>4. j \in i - p + 1 .. i - p + less
        BY <4>3
      <4> QED BY <3>4, <4>4
    <3>6. IsFiniteSet(first .. last) /\ Cardinality(first .. last) = less
      <4>1. /\ IsFiniteSet(first .. last)
            /\ Cardinality(first .. last) = IF first > last THEN 0 ELSE last - first + 1
        BY FS_Interval
      <4>2. last - first + 1 = less /\ (first > last => less = 0)
        BY <3>31, <3>4
      <4> QED BY <4>1, <4>2
    <3>7. Cardinality(all) <= less
      BY <3>5, <3>6, FS_Subset
    <3> QED BY <2>0, <2>5, <3>7
  <2> QED BY <2>0, <2>4, <2>5
<1> QED BY <1>1

-----------------------------------------------------------------------------
Results == {"OK", "NOT_SUPPORTED", "FAIL"}

CallRecords == [pc : {"take", "link", "emit"}, id : Nat, mask : SUBSET Links, kind : Kinds,
                link : Nat, result : Results]

PipelineType ==
    /\ owner \in Tasks \cup {NoTask}
    /\ calls \in Nat
    /\ call \in [Tasks -> {Idle} \cup CallRecords]
    /\ s_tx \in [id : Nat, sequence : Nat, part : Nat, count : Nat]
    /\ s_next_sequence \in [Links -> Nat]
    /\ published \in [Links -> Seq(Fragments)]

\* What the queue of a link accepted so far.
LinkInv(l) ==
    /\ \A i \in 1 .. Len(published[l]) : l \in EnabledLinks /\ published[l][i].id <= calls
    /\ l \in EnabledLinks => /\ Together(published[l], Parts[l])
                             /\ Numbered(published[l], Parts[l], s_next_sequence[l])

\* The links of the mask that the loop of a call is done with.
Tried(t) == {l \in call[t].mask : l < call[t].link}

\* The static transmitter holds the next fragment of the call.
EmitInv(t) ==
    /\ call[t].link \in call[t].mask \cap EnabledLinks
    /\ s_tx.id = call[t].id
    /\ s_tx.count = Parts[call[t].link]
    /\ s_tx.part \in 1 .. Parts[call[t].link]
    /\ s_tx.sequence = s_next_sequence[call[t].link]
    /\ Following(published[call[t].link], s_tx)

\* A call behind the mutex holds it; its result is true of the links it tried.
CallInv(t) ==
    call[t].pc # "idle" =>
        /\ call[t].id <= calls
        /\ call[t].pc # "take" => owner = t
        /\ call[t].pc = "take" => call[t].link = 0 /\ call[t].result = "OK"
        /\ \A l \in Links : \A i \in 1 .. Len(published[l]) :
              published[l][i].id = call[t].id
              => l < call[t].link \/ (call[t].pc = "emit" /\ l = call[t].link)
        /\ call[t].result = "OK"
           <=> \A l \in Tried(t) :
                  l \in EnabledLinks /\ Finished(published[l], Parts[l], call[t].id)
        /\ \A l \in Tried(t) \cap EnabledLinks :
              \/ Finished(published[l], Parts[l], call[t].id)
              \/ <<l, call[t].id>> \in unbegun \cup cut
        /\ call[t].pc = "emit" => EmitInv(t)

\* No two calls under way are the same message.
CallsDiffer ==
    \A t, u \in Tasks :
        t # u /\ call[t].pc # "idle" /\ call[u].pc # "idle" => call[t].id # call[u].id

PipelineInv ==
    /\ PipelineType
    /\ \A l \in Links : LinkInv(l)
    /\ \A t \in Tasks : CallInv(t)
    /\ CallsDiffer

\* The state of the pipeline without the queues, which other tasks empty.
coreVars == <<owner, call, calls, s_tx, s_next_sequence, published, unbegun, cut>>

-----------------------------------------------------------------------------
\* Links are numbered, so any of them that are left to try have a first.
LEMMA LeastExists ==
    ASSUME NEW S \in SUBSET Nat, S # {}
    PROVE  \E least \in S : \A k \in S : least <= k
<1> DEFINE R == {pair \in Nat \X Nat : pair[1] < pair[2]}
<1>1. IsWellFoundedOn(R, Nat)
  BY NatLessThanWellFounded, Zenon DEF OpToRel
<1>2. PICK x \in S : \A y \in S : ~ (<<y, x>> \in R)
  <2> HIDE DEF R
  <2> QED BY <1>1, WFMin
<1>3. ASSUME NEW y \in S PROVE x <= y
  <2>1. x \in Nat /\ y \in Nat
    OBVIOUS
  <2>2. <<y, x>> \in Nat \X Nat /\ <<y, x>>[1] = y /\ <<y, x>>[2] = x
    BY <2>1
  <2>3. ~(y < x)
    BY <1>2, <2>2
  <2> QED BY <2>1, <2>3
<1> QED BY <1>3

\* A call under way is a full record.
LEMMA CallUnderWay ==
    ASSUME PipelineType, NEW t \in Tasks, call[t].pc # "idle"
    PROVE  call[t] \in CallRecords
BY DEF PipelineType, Idle

\* The loop goes through the links of the mask upwards.
LEMMA NextIsLeast ==
    ASSUME NEW t \in Tasks, call[t] \in CallRecords, Untried(t) # {}
    PROVE  /\ NextOf(t) \in call[t].mask /\ NextOf(t) \in Links /\ NextOf(t) \in Nat
           /\ NextOf(t) >= call[t].link
           /\ \A k \in Untried(t) : NextOf(t) <= k
<1>1. Untried(t) \in SUBSET Nat /\ Untried(t) \subseteq call[t].mask /\ call[t].mask \subseteq Links
  BY PipelineAssumption DEF Untried, CallRecords
<1>2. \E l \in Untried(t) : \A k \in Untried(t) : l <= k
  BY <1>1, LeastExists
<1>3. NextOf(t) \in Untried(t) /\ \A k \in Untried(t) : NextOf(t) <= k
  BY <1>2 DEF NextOf
<1> QED BY <1>1, <1>3 DEF Untried

\* The link being sent on is the next one.
LEMMA EmittingIsNext ==
    ASSUME PipelineType, NEW t \in Tasks, call[t].pc = "emit", EmitInv(t)
    PROVE  Untried(t) # {} /\ NextOf(t) = call[t].link
<1>1. call[t] \in CallRecords
  BY CallUnderWay
<1>2. call[t].link \in Nat /\ call[t].link \in call[t].mask
  BY <1>1 DEF EmitInv, CallRecords
<1>3. call[t].link \in Untried(t)
  BY <1>2 DEF Untried
<1>4. NextOf(t) \in Nat /\ NextOf(t) >= call[t].link /\ NextOf(t) <= call[t].link
  BY <1>1, <1>3, NextIsLeast
<1> QED BY <1>2, <1>3, <1>4

\* `continue` changes the call's place and result, and nothing of other calls.
LEMMA ContinueEffect ==
    ASSUME PipelineType, NEW t \in Tasks, call[t] \in CallRecords, Untried(t) # {},
           NEW result \in Results, Continue(t, result)
    PROVE  /\ call' \in [Tasks -> {Idle} \cup CallRecords]
           /\ \A u \in Tasks \ {t} : call'[u] = call[u]
           /\ call'[t].pc = "link" /\ call'[t].link = NextOf(t) + 1
           /\ call'[t].result = Worse(call[t].result, result)
           /\ call'[t].id = call[t].id /\ call'[t].mask = call[t].mask
<1>1. NextOf(t) + 1 \in Nat /\ call[t].result \in Results
  BY NextIsLeast DEF CallRecords
<1>2. Worse(call[t].result, result) \in Results
  BY <1>1 DEF Worse
<1>3. PICK c : c = [call[t] EXCEPT !.pc = "link", !.link = NextOf(t) + 1,
                                   !.result = Worse(call[t].result, result)]
  OBVIOUS
<1>4. /\ c \in CallRecords /\ c.pc = "link" /\ c.link = NextOf(t) + 1
      /\ c.result = Worse(call[t].result, result) /\ c.id = call[t].id /\ c.mask = call[t].mask
  BY <1>1, <1>2, <1>3 DEF CallRecords
<1>5. call' = [call EXCEPT ![t] = c]
  BY <1>3 DEF Continue, LinkAfter, PipelineType
<1> QED BY <1>4, <1>5 DEF PipelineType

-----------------------------------------------------------------------------
\* Fragments in the queues are numbered.
LEMMA FragmentNumbers ==
    ASSUME PipelineType, NEW l \in Links
    PROVE  \A i \in 1 .. Len(published[l]) :
              published[l][i] \in Fragments /\ published[l][i].id \in Nat
<1>1. PICK frags \in Seq(Fragments) : frags = published[l]
  BY DEF PipelineType
<1>2. \A i \in 1 .. Len(frags) : frags[i] \in Fragments
  BY ElementOfSeq
<1> QED BY <1>1, <1>2 DEF Fragments, Packets

\* While a task holds the mutex, the other calls wait for it and have nothing
\* in any queue.
LEMMA OthersWait ==
    ASSUME PipelineInv, NEW t \in Tasks, owner = t, NEW u \in Tasks \ {t},
           call'[u] = call[u], calls' = calls,
           \A l \in Links : \A i \in 1 .. Len(published'[l]) :
               published'[l][i].id = call[u].id =>
               \E j \in 1 .. Len(published[l]) : published[l][j].id = call[u].id
    PROVE  CallInv(u)'
<1>1. CASE call[u].pc = "idle"
  BY <1>1 DEF CallInv
<1>2. CASE call[u].pc # "idle"
  <2>1. call[u] \in CallRecords /\ CallInv(u)
    BY <1>2, CallUnderWay DEF PipelineInv
  <2>2. /\ call[u].pc = "take" /\ call[u].link = 0 /\ call[u].result = "OK"
        /\ call[u].id <= calls
    BY <1>2, <2>1 DEF CallInv, CallRecords
  <2>3. call[u].mask \subseteq Links /\ Links \subseteq Nat
    BY <2>1, PipelineAssumption DEF CallRecords
  <2>4. \A l \in Links : \A i \in 1 .. Len(published[l]) : published[l][i].id # call[u].id
    BY <2>1, <2>2, <2>3 DEF CallInv
  <2>5. Tried(u)' = {}
    <3>1. Tried(u)' = {l \in call[u].mask : l < 0}
      BY <2>2 DEF Tried
    <3>2. \A l \in call[u].mask : l \in Nat
      BY <2>3
    <3> QED BY <3>1, <3>2
  <2> QED BY <2>2, <2>4, <2>5 DEF CallInv
<1> QED BY <1>1, <1>2

\* A step that touches no queue, number or message leaves the links as they are.
LEMMA LinksStay ==
    ASSUME PipelineInv, calls' \in Nat, calls' >= calls, UNCHANGED <<s_next_sequence, published>>
    PROVE  \A l \in Links : LinkInv(l)'
<1> SUFFICES ASSUME NEW l \in Links PROVE LinkInv(l)'
  OBVIOUS
<1>1. calls \in Nat /\ published[l] \in Seq(Fragments) /\ LinkInv(l)
  BY DEF PipelineInv, PipelineType
<1>2. \A i \in 1 .. Len(published[l]) : published[l][i].id \in Nat
  BY FragmentNumbers DEF PipelineInv
<1> QED BY <1>1, <1>2 DEF LinkInv

\* Steps that give no call a new message keep the calls apart.
LEMMA DifferenceStays ==
    ASSUME PipelineInv, NEW t \in Tasks, call[t].pc # "idle",
           \A u \in Tasks \ {t} : call'[u] = call[u],
           call'[t].pc = "idle" \/ call'[t].id = call[t].id
    PROVE  CallsDiffer'
BY DEF PipelineInv, CallsDiffer

\* A call gets a number of its own.
LEMMA CallKeeps ==
    ASSUME PipelineInv, NEW t \in Tasks, NEW mask \in Masks, NEW kind \in Kinds,
           Call(t, mask, kind)
    PROVE  PipelineInv'
<1> DEFINE c == [pc |-> "take", id |-> calls + 1, mask |-> mask,
                 kind |-> kind, link |-> 0, result |-> "OK"]
<1>1. /\ PipelineType /\ calls' = calls + 1 /\ calls \in Nat
      /\ call' = [call EXCEPT ![t] = c] /\ call[t].pc = "idle"
      /\ UNCHANGED <<owner, s_tx, s_next_sequence, published, unbegun, cut>>
  BY DEF PipelineInv, PipelineType, Call, history
<1>2. c \in CallRecords /\ mask \subseteq Links /\ Links \subseteq Nat
  <2>1. mask \in SUBSET Links
    BY PipelineAssumption
  <2> QED BY <1>1, <2>1, PipelineAssumption DEF CallRecords, Results
<1>3. PICK new : new = c
  OBVIOUS
<1>4. /\ call'[t] = new /\ \A u \in Tasks \ {t} : call'[u] = call[u]
      /\ new.pc = "take" /\ new.id = calls + 1 /\ new.mask = mask /\ new.link = 0
      /\ new.result = "OK"
  BY <1>1, <1>3 DEF PipelineType
<1> HIDE DEF c
<1>5. PipelineType'
  BY <1>1, <1>2, <1>3 DEF PipelineType
<1>6. \A l \in Links : LinkInv(l)'
  BY <1>1, LinksStay
<1>7. ASSUME NEW u \in Tasks PROVE CallInv(u)'
  <2>1. CASE u = t
    <3>1. \A l \in Links : \A i \in 1 .. Len(published[l]) : published[l][i].id # calls + 1
      <4> SUFFICES ASSUME NEW l \in Links, NEW i \in 1 .. Len(published[l])
                   PROVE  published[l][i].id # calls + 1
        OBVIOUS
      <4>1. published[l] \in Seq(Fragments) /\ published[l][i].id <= calls
        BY <1>1 DEF PipelineInv, LinkInv, PipelineType
      <4>2. published[l][i].id \in Nat
        BY <1>1, FragmentNumbers
      <4> QED BY <1>1, <4>1, <4>2
    <3>2. Tried(t)' = {}
      <4>1. Tried(t)' = {l \in mask : l < 0}
        BY <1>4 DEF Tried
      <4>2. \A l \in mask : l \in Nat
        BY <1>2
      <4> QED BY <4>1, <4>2
    <3> QED BY <1>1, <1>4, <2>1, <3>1, <3>2 DEF CallInv
  <2>2. CASE u # t
    <3>1. CallInv(u) /\ call'[u] = call[u] /\ call[u].pc # "idle" => call[u] \in CallRecords
      BY <1>1, <1>4, <2>2, CallUnderWay DEF PipelineInv
    <3>2. call[u].pc # "idle" => call[u].id \in Nat /\ call[u].id <= calls
      BY <2>2, <1>1, CallUnderWay DEF CallRecords, CallInv, PipelineInv
    <3>3. CallInv(u)
      BY DEF PipelineInv
    <3>4. Tried(u)' = Tried(u) /\ EmitInv(u)' = EmitInv(u)
      BY <1>1, <1>4, <2>2 DEF Tried, EmitInv, Following
    <3>5. call[u].pc # "idle" => call[u].id <= calls'
      BY <1>1, <3>2
    <3> QED BY <1>1, <1>4, <2>2, <3>3, <3>4, <3>5 DEF CallInv
  <2> QED BY <2>1, <2>2
<1>8. CallsDiffer'
  <2>1. \A u \in Tasks \ {t} : call[u].pc # "idle" => call[u].id \in Nat /\ call[u].id <= calls
    BY <1>1, CallUnderWay DEF CallRecords, CallInv, PipelineInv
  <2>2. \A u \in Tasks \ {t} : call[u].pc # "idle" => call[u].id # calls + 1
    BY <1>1, <2>1
  <2> QED BY <1>4, <2>2 DEF CallsDiffer, PipelineInv
<1> QED BY <1>5, <1>6, <1>7, <1>8 DEF PipelineInv

\* Taking the mutex, giving it up and returning change the place of one call.
LEMMA TakeKeeps ==
    ASSUME PipelineInv, NEW t \in Tasks, Take(t) \/ TakeTimesOut(t) \/ Return(t)
    PROVE  PipelineInv'
<1>1. /\ PipelineType /\ calls' = calls /\ calls \in Nat
      /\ UNCHANGED <<s_tx, s_next_sequence, published, unbegun, cut>>
  BY DEF PipelineInv, PipelineType, Take, TakeTimesOut, Return, history
<1>2. call[t].pc # "idle" /\ call[t] \in CallRecords
  BY <1>1, CallUnderWay DEF Take, TakeTimesOut, Return
<1>3. PICK c : c = [call[t] EXCEPT !.pc = "link"]
  OBVIOUS
<1>4. /\ c \in CallRecords /\ c.pc = "link" /\ c.id = call[t].id /\ c.mask = call[t].mask
      /\ c.link = call[t].link /\ c.result = call[t].result
  BY <1>2, <1>3 DEF CallRecords
<1>5. /\ \A u \in Tasks \ {t} : call'[u] = call[u]
      /\ Take(t) => call'[t] = c /\ call' = [call EXCEPT ![t] = c]
      /\ ~Take(t) => call'[t] = Idle /\ call' = [call EXCEPT ![t] = Idle]
  BY <1>1, <1>3 DEF PipelineType, Take, TakeTimesOut, Return
<1>6. PipelineType'
  BY <1>1, <1>4, <1>5 DEF PipelineType, Take, TakeTimesOut, Return
<1>7. \A l \in Links : LinkInv(l)'
  BY <1>1, LinksStay
<1>8. CallsDiffer'
  BY <1>2, <1>4, <1>5, DifferenceStays DEF Idle
<1>9. ASSUME NEW u \in Tasks PROVE CallInv(u)'
  <2>0. CallInv(u) /\ CallInv(t)
    BY DEF PipelineInv
  <2>1. CASE u = t /\ Take(t)
    <3>1. /\ owner' = t /\ call[t].pc = "take" /\ call'[t] = c
      BY <1>5, <2>1 DEF Take
    <3>2. Tried(t)' = Tried(t)
      BY <1>4, <3>1 DEF Tried
    <3> QED BY <1>1, <1>4, <2>0, <2>1, <3>1, <3>2 DEF CallInv
  <2>2. CASE u = t /\ ~Take(t)
    BY <1>5, <2>2 DEF CallInv, Idle
  <2>3. CASE u # t
    <3>1. call'[u] = call[u]
      BY <1>5, <2>3
    <3>2. call[u].pc \notin {"idle", "take"} => owner' = u
      <4>1. call[u].pc \notin {"idle", "take"} => owner = u /\ owner # NoTask
        BY <2>0, PipelineAssumption DEF CallInv
      <4>2. Return(t) => owner = t
        BY <2>0 DEF Return, CallInv
      <4> QED BY <2>3, <4>1, <4>2 DEF Take, Free, TakeTimesOut
    <3>3. Tried(u)' = Tried(u) /\ EmitInv(u)' = EmitInv(u)
      BY <1>1, <3>1 DEF Tried, EmitInv, Following
    <3> QED BY <1>1, <2>0, <3>1, <3>2, <3>3 DEF CallInv
  <2> QED BY <2>1, <2>2, <2>3
<1> QED BY <1>6, <1>7, <1>8, <1>9 DEF PipelineInv

\* A call behind the mutex is a full record that holds it.
LEMMA CallHolds ==
    ASSUME PipelineInv, NEW t \in Tasks, call[t].pc \in {"link", "emit"}
    PROVE  /\ PipelineType /\ CallInv(t) /\ call[t] \in CallRecords /\ owner = t
           /\ call[t].id <= calls
           /\ call[t].pc = "emit" => EmitInv(t) /\ Untried(t) # {} /\ NextOf(t) = call[t].link
<1>1. PipelineType /\ CallInv(t) /\ call[t] \in CallRecords
  BY CallUnderWay DEF PipelineInv
<1>2. owner = t /\ call[t].id <= calls /\ (call[t].pc = "emit" => EmitInv(t))
  BY <1>1 DEF CallInv
<1> QED BY <1>1, <1>2, EmittingIsNext

\* The result stays true when the loop is done with one more link, if what the
\* link adds to it is true.
LEMMA ContinueTruth ==
    ASSUME PipelineInv, NEW t \in Tasks, call[t].pc \in {"link", "emit"}, Untried(t) # {},
           NEW result \in Results, Continue(t, result),
           owner' = owner, calls' = calls, unbegun \subseteq unbegun', cut \subseteq cut',
           \A k \in Links \ {NextOf(t)} : published'[k] = published[k],
           result = "OK" <=> /\ NextOf(t) \in EnabledLinks
                             /\ Finished(published'[NextOf(t)], Parts[NextOf(t)], call[t].id),
           NextOf(t) \in EnabledLinks =>
               \/ Finished(published'[NextOf(t)], Parts[NextOf(t)], call[t].id)
               \/ <<NextOf(t), call[t].id>> \in unbegun' \cup cut'
    PROVE  CallInv(t)'
<1>1. /\ PipelineType /\ CallInv(t) /\ call[t] \in CallRecords /\ owner = t /\ call[t].id <= calls
      /\ call[t].pc = "emit" => NextOf(t) = call[t].link
  BY CallHolds
<1>2. PICK l : l = NextOf(t)
  OBVIOUS
<1>3. l \in call[t].mask /\ l \in Links /\ l \in Nat /\ l >= call[t].link
      /\ \A k \in Untried(t) : l <= k
  BY <1>1, <1>2, NextIsLeast
<1>4. /\ call'[t].pc = "link" /\ call'[t].link = l + 1
      /\ call'[t].result = Worse(call[t].result, result)
      /\ call'[t].id = call[t].id /\ call'[t].mask = call[t].mask
  BY <1>1, <1>2, ContinueEffect
<1>5. call[t].link \in Nat /\ call[t].mask \subseteq Links /\ Links \subseteq Nat
  BY <1>1, PipelineAssumption DEF CallRecords
<1>6. Tried(t)' = Tried(t) \cup {l} /\ \A k \in Tried(t) : k \in Links \ {l}
  <2>1. \A k \in call[t].mask : k \in Nat /\ (k >= call[t].link => k >= l)
    BY <1>3, <1>5 DEF Untried
  <2>2. \A k \in call[t].mask : k < l + 1 <=> k < call[t].link \/ k = l
    BY <1>3, <1>5, <2>1
  <2>3. \A k \in call[t].mask : k < call[t].link => k # l
    BY <1>3, <1>5, <2>1
  <2> QED BY <1>3, <1>4, <1>5, <2>2, <2>3 DEF Tried
<1>7. \A k \in Tried(t) : published'[k] = published[k]
  BY <1>2, <1>6
<1>8. ASSUME NEW k \in Links, NEW i \in 1 .. Len(published'[k]),
             published'[k][i].id = call[t].id
      PROVE  k < l + 1
  <2>1. CASE k = l
    BY <1>3, <2>1
  <2>2. CASE k # l
    <3>1. published'[k] = published[k]
      BY <1>2, <2>2
    <3>2. k < call[t].link \/ (call[t].pc = "emit" /\ k = call[t].link)
      BY <1>1, <1>8, <3>1 DEF CallInv
    <3>3. k \in Nat
      BY <1>5
    <3> QED BY <1>1, <1>2, <1>3, <1>5, <3>2, <3>3
  <2> QED BY <2>1, <2>2
<1>9. call'[t].result = "OK"
      <=> \A k \in Tried(t)' :
             k \in EnabledLinks /\ Finished(published'[k], Parts[k], call[t].id)
  <2>1. call'[t].result = "OK" <=> call[t].result = "OK" /\ result = "OK"
    BY <1>4 DEF Worse
  <2>2. call[t].result = "OK"
        <=> \A k \in Tried(t) :
               k \in EnabledLinks /\ Finished(published'[k], Parts[k], call[t].id)
    BY <1>1, <1>7 DEF CallInv
  <2> QED BY <1>2, <1>6, <2>1, <2>2
<1>10. \A k \in Tried(t)' \cap EnabledLinks :
          \/ Finished(published'[k], Parts[k], call[t].id)
          \/ <<k, call[t].id>> \in unbegun' \cup cut'
  <2>1. \A k \in Tried(t) \cap EnabledLinks :
          \/ Finished(published'[k], Parts[k], call[t].id)
          \/ <<k, call[t].id>> \in unbegun' \cup cut'
    BY <1>1, <1>7 DEF CallInv
  <2> QED BY <1>2, <1>6, <2>1
<1> QED BY <1>1, <1>4, <1>8, <1>9, <1>10 DEF CallInv

\* A message that a link has no part of, or not the last one, is not finished.
LEMMA NotFinished ==
    ASSUME PipelineInv, NEW t \in Tasks, call[t].pc \in {"link", "emit"}, Untried(t) # {},
           NextOf(t) \in EnabledLinks
    PROVE  ~Finished(published[NextOf(t)], Parts[NextOf(t)], call[t].id)
<1>1. /\ PipelineType /\ CallInv(t) /\ call[t] \in CallRecords
      /\ call[t].pc = "emit" => EmitInv(t) /\ NextOf(t) = call[t].link
  BY CallHolds
<1>2. PICK l : l = NextOf(t)
  OBVIOUS
<1>3. l \in Links /\ l \in Nat /\ l >= call[t].link /\ call[t].link \in Nat
  BY <1>1, <1>2, NextIsLeast DEF CallRecords
<1> SUFFICES ASSUME NEW i \in 1 .. Len(published[l]), published[l][i].id = call[t].id,
                    published[l][i].part = Parts[l]
             PROVE  FALSE
  BY <1>2 DEF Finished
<1>4. call[t].pc = "emit" /\ l = call[t].link /\ EmitInv(t)
  BY <1>1, <1>2, <1>3 DEF CallInv
<1>5. /\ s_tx.id = call[t].id /\ s_tx.part \in 1 .. Parts[l] /\ Following(published[l], s_tx)
      /\ Parts[l] \in Nat /\ Together(published[l], Parts[l])
  BY <1>2, <1>3, <1>4, PipelineAssumption DEF EmitInv, PipelineInv, LinkInv
<1>6. PICK n \in Nat, parts \in Nat : n = Len(published[l]) /\ parts = Parts[l]
  BY <1>1, <1>3, <1>5, LenProperties DEF PipelineType
<1>7. s_tx.part # 1 /\ published[l][n].id = s_tx.id /\ published[l][n].part = s_tx.part - 1
      /\ n \in 1 .. n
  BY <1>5, <1>6 DEF Following
<1>8. published[l][n].part - published[l][i].part = n - i
  BY <1>5, <1>6, <1>7 DEF Together
<1>9. PICK part \in Nat : part = s_tx.part /\ part <= parts
  BY <1>5, <1>6
<1>10. (part - 1) - parts = n - i /\ i <= n /\ i \in Nat
  BY <1>6, <1>7, <1>8, <1>9
<1> QED BY <1>6, <1>9, <1>10

\* A link that is not served, refuses the message or stays full: the loop goes
\* on, and the result says that not all is well.
LEMMA GiveUpKeeps ==
    ASSUME PipelineInv, NEW t \in Tasks, NotSupported(t) \/ BeginRefused(t) \/ EmitTimesOut(t)
    PROVE  PipelineInv'
<1>1. /\ call[t].pc \in {"link", "emit"} /\ call[t].pc # "idle"
      /\ UNCHANGED <<owner, calls, s_tx, s_next_sequence, published>>
      /\ unbegun \subseteq unbegun' /\ cut \subseteq cut'
  BY DEF NotSupported, BeginRefused, EmitTimesOut, history
<1>2. /\ PipelineType /\ CallInv(t) /\ call[t] \in CallRecords /\ owner = t
      /\ call[t].pc = "emit" => EmitInv(t) /\ Untried(t) # {} /\ NextOf(t) = call[t].link
  BY <1>1, CallHolds
<1>3. Untried(t) # {}
  BY <1>2 DEF NotSupported, BeginRefused, EmitTimesOut
<1>4. PICK result \in {"NOT_SUPPORTED", "FAIL"} : Continue(t, result)
  BY DEF NotSupported, BeginRefused, EmitTimesOut
<1>5. NextOf(t) \in EnabledLinks => <<NextOf(t), call[t].id>> \in unbegun' \cup cut'
  BY <1>2 DEF NotSupported, BeginRefused, EmitTimesOut
<1>6. NextOf(t) \in EnabledLinks =>
         ~Finished(published'[NextOf(t)], Parts[NextOf(t)], call[t].id)
  BY <1>1, <1>3, NotFinished
<1>7. result \in Results /\ result # "OK"
  BY <1>4 DEF Results
<1>8. CallInv(t)'
  BY <1>1, <1>2, <1>3, <1>4, <1>5, <1>6, <1>7, ContinueTruth
<1>9. /\ call' \in [Tasks -> {Idle} \cup CallRecords]
      /\ \A u \in Tasks \ {t} : call'[u] = call[u]
      /\ call'[t].id = call[t].id
  BY <1>2, <1>3, <1>4, <1>7, ContinueEffect
<1>10. PipelineType'
  BY <1>1, <1>2, <1>9 DEF PipelineType
<1>11. \A l \in Links : LinkInv(l)'
  BY <1>1, <1>2, LinksStay DEF PipelineType
<1>12. ASSUME NEW u \in Tasks PROVE CallInv(u)'
  BY <1>1, <1>2, <1>8, <1>9, OthersWait
<1>13. CallsDiffer'
  BY <1>1, <1>9, DifferenceStays
<1> QED BY <1>10, <1>11, <1>12, <1>13 DEF PipelineInv

\* A message that begins has no part on the link yet.
LEMMA BeginKeeps ==
    ASSUME PipelineInv, NEW t \in Tasks, Begin(t)
    PROVE  PipelineInv'
<1>1. /\ call[t].pc = "link" /\ call[t].pc # "idle" /\ Untried(t) # {}
      /\ NextOf(t) \in EnabledLinks
      /\ s_tx' = [id |-> call[t].id, sequence |-> s_next_sequence[NextOf(t)],
                  part |-> 1, count |-> Parts[NextOf(t)]]
      /\ call' = [call EXCEPT ![t].pc = "emit", ![t].link = NextOf(t)]
      /\ UNCHANGED <<owner, calls, s_next_sequence, published, unbegun, cut>>
  BY DEF Begin, history
<1>2. /\ PipelineType /\ CallInv(t) /\ call[t] \in CallRecords /\ owner = t
      /\ call[t].id <= calls
  BY <1>1, CallHolds
<1>3. PICK l : l = NextOf(t)
  OBVIOUS
<1>4. /\ l \in call[t].mask /\ l \in Links /\ l \in Nat /\ l >= call[t].link
      /\ \A k \in Untried(t) : l <= k
  BY <1>1, <1>2, <1>3, NextIsLeast
<1>5. PICK c : c = [call[t] EXCEPT !.pc = "emit", !.link = l]
  OBVIOUS
<1>6. /\ c \in CallRecords /\ c.pc = "emit" /\ c.link = l /\ c.id = call[t].id
      /\ c.mask = call[t].mask /\ c.result = call[t].result
  BY <1>2, <1>4, <1>5 DEF CallRecords
<1>7. call' = [call EXCEPT ![t] = c] /\ call'[t] = c
      /\ \A u \in Tasks \ {t} : call'[u] = call[u]
  BY <1>1, <1>2, <1>3, <1>5 DEF PipelineType
<1>8. Parts[l] \in Nat \ {0} /\ s_next_sequence[l] \in Nat /\ call[t].id \in Nat
      /\ call[t].link \in Nat /\ call[t].mask \subseteq Links /\ Links \subseteq Nat
  BY <1>1, <1>2, <1>3, <1>4, PipelineAssumption DEF PipelineType, CallRecords
<1>9. PipelineType'
  BY <1>1, <1>2, <1>3, <1>6, <1>7, <1>8 DEF PipelineType
<1>10. \A k \in Links : LinkInv(k)'
  BY <1>1, <1>2, LinksStay DEF PipelineType
<1>11. Tried(t)' = Tried(t)
  <2>1. \A k \in call[t].mask : k \in Nat /\ (k >= call[t].link => k >= l)
    BY <1>4, <1>8 DEF Untried
  <2>2. \A k \in call[t].mask : k < l <=> k < call[t].link
    BY <1>4, <1>8, <2>1
  <2> QED BY <1>6, <1>7, <2>2 DEF Tried
<1>12. EmitInv(t)'
  <2>1. Following(published[l], s_tx')
    <3>1. s_tx'.part = 1 /\ s_tx'.id = call[t].id
      BY <1>1
    <3>2. \A i \in 1 .. Len(published[l]) : published[l][i].id # call[t].id
      <4>1. ~(l < call[t].link)
        BY <1>4, <1>8
      <4> QED BY <1>1, <1>2, <1>4, <4>1 DEF CallInv
    <3> QED BY <3>1, <3>2 DEF Following
  <2>2. /\ s_tx'.id = call[t].id /\ s_tx'.count = Parts[l] /\ s_tx'.part \in 1 .. Parts[l]
        /\ s_tx'.sequence = s_next_sequence[l]
    BY <1>1, <1>3, <1>8
  <2> QED BY <1>1, <1>3, <1>4, <1>6, <1>7, <2>1, <2>2 DEF EmitInv
<1>13. CallInv(t)'
  <2>1. \A k \in Links : \A i \in 1 .. Len(published[k]) :
           published[k][i].id = call[t].id => k < l
    <3> SUFFICES ASSUME NEW k \in Links, NEW i \in 1 .. Len(published[k]),
                        published[k][i].id = call[t].id
                 PROVE  k < l
      OBVIOUS
    <3>1. k < call[t].link /\ k \in Nat
      BY <1>1, <1>2, <1>8 DEF CallInv
    <3> QED BY <1>4, <1>8, <3>1
  <2> QED BY <1>1, <1>2, <1>6, <1>7, <1>11, <1>12, <2>1 DEF CallInv
<1>14. ASSUME NEW u \in Tasks PROVE CallInv(u)'
  BY <1>1, <1>2, <1>7, <1>13, OthersWait
<1>15. CallsDiffer'
  BY <1>1, <1>6, <1>7, DifferenceStays
<1> QED BY <1>9, <1>10, <1>14, <1>15 DEF PipelineInv

\* What the queue takes from the transmitter is the next fragment of the call.
LEMMA EmitEffect ==
    ASSUME PipelineInv, NEW t \in Tasks, Emit(t), NEW l, l = call[t].link
    PROVE  /\ l \in Links /\ l \in EnabledLinks /\ Parts[l] \in Nat \ {0}
           /\ published[l] \in Seq(Fragments) /\ Fragment(t) \in Fragments
           /\ Fragment(t).id = call[t].id /\ Fragment(t).part = s_tx.part
           /\ Fragment(t).sequence = s_tx.sequence /\ s_tx.sequence = s_next_sequence[l]
           /\ s_tx.part \in 1 .. Parts[l] /\ s_tx.id = call[t].id
           /\ Following(published[l], Fragment(t))
           /\ published' = [published EXCEPT ![l] = Append(published[l], Fragment(t))]
           /\ s_tx' = [s_tx EXCEPT !.part = s_tx.part + 1]
           /\ IF s_tx.part = Parts[l]
              THEN /\ Continue(t, "OK")
                   /\ s_next_sequence' = [s_next_sequence EXCEPT ![l] = s_tx.sequence + 1]
              ELSE UNCHANGED <<call, s_next_sequence>>
           /\ UNCHANGED <<owner, calls, unbegun, cut>>
<1>1. call[t].pc = "emit"
  BY DEF Emit
<1>2. PipelineType /\ call[t] \in CallRecords /\ EmitInv(t)
  BY <1>1, CallHolds
<1>3. /\ l \in EnabledLinks /\ l \in Links /\ Parts[l] \in Nat \ {0}
      /\ s_tx.id = call[t].id /\ s_tx.count = Parts[l] /\ s_tx.part \in 1 .. Parts[l]
      /\ s_tx.sequence = s_next_sequence[l] /\ Following(published[l], s_tx)
  BY <1>2, PipelineAssumption DEF EmitInv
<1>4. /\ Fragment(t) \in Fragments
      /\ Fragment(t).id = s_tx.id /\ Fragment(t).part = s_tx.part
      /\ Fragment(t).sequence = s_tx.sequence
  <2>1. call[t].kind.permitted \in BOOLEAN
    BY <1>2, PipelineAssumption DEF CallRecords
  <2> QED BY <1>2, <2>1 DEF Fragment, Fragments, Packets, PipelineType
<1>5. Following(published[l], Fragment(t))
  BY <1>3, <1>4 DEF Following
<1>6. s_tx.part >= s_tx.count <=> s_tx.part = Parts[l]
  BY <1>3
<1> QED BY <1>2, <1>3, <1>4, <1>5, <1>6 DEF Emit, NumberAfter, PipelineType
\* The fragment that the queue takes keeps the link in order.
LEMMA EmitLink ==
    ASSUME PipelineInv, NEW t \in Tasks, Emit(t), NEW k \in Links
    PROVE  /\ LinkInv(k)' /\ published'[k] \in Seq(Fragments) /\ s_next_sequence'[k] \in Nat
           /\ \A i \in 1 .. Len(published'[k]) :
                 \/ published'[k][i].id = call[t].id /\ k = call[t].link
                 \/ i \in 1 .. Len(published[k]) /\ published'[k][i] = published[k][i]
<1>1. PICK l : l = call[t].link
  OBVIOUS
<1>2. PICK f : f = Fragment(t)
  OBVIOUS
<1>3. /\ l \in Links /\ l \in EnabledLinks /\ Parts[l] \in Nat \ {0}
      /\ published[l] \in Seq(Fragments) /\ f \in Fragments
      /\ f.id = call[t].id /\ f.part = s_tx.part
      /\ f.sequence = s_tx.sequence /\ s_tx.sequence = s_next_sequence[l]
      /\ s_tx.part \in 1 .. Parts[l]
      /\ Following(published[l], f)
      /\ published' = [published EXCEPT ![l] = Append(published[l], f)]
      /\ IF s_tx.part = Parts[l]
         THEN s_next_sequence' = [s_next_sequence EXCEPT ![l] = s_tx.sequence + 1]
         ELSE UNCHANGED s_next_sequence
      /\ calls' = calls
  BY <1>1, <1>2, EmitEffect
<1>4. call[t].pc = "emit"
  BY DEF Emit
<1>5. PipelineType /\ LinkInv(k) /\ LinkInv(l) /\ call[t].id <= calls
  BY <1>3, <1>4, CallHolds DEF PipelineInv
<1>6. published[k] \in Seq(Fragments) /\ s_next_sequence[k] \in Nat /\ s_next_sequence[l] \in Nat
      /\ \A i \in 1 .. Len(published[k]) : published[k][i].id <= calls
  BY <1>3, <1>5 DEF PipelineType, LinkInv
<1>7. CASE k # l
  <2>1. published'[k] = published[k] /\ s_next_sequence'[k] = s_next_sequence[k]
    BY <1>3, <1>5, <1>7 DEF PipelineType
  <2> QED BY <1>3, <1>5, <1>6, <2>1 DEF LinkInv
<1>8. CASE k = l
  <2>1. PICK longer : longer = Append(published[l], f)
    OBVIOUS
  <2>2. PICK next : next = IF f.part = Parts[l] THEN f.sequence + 1 ELSE f.sequence
    OBVIOUS
  <2>3. published'[l] = longer /\ s_next_sequence'[l] = next
    BY <1>3, <1>5, <2>1, <2>2 DEF PipelineType
  <2>4. Together(published[l], Parts[l]) /\ Numbered(published[l], Parts[l], f.sequence)
    BY <1>3, <1>5 DEF LinkInv
  <2>5. Together(longer, Parts[l])
    BY <1>3, <2>1, <2>4, TogetherFollowing
  <2>6. Numbered(longer, Parts[l], next)
    BY <1>3, <2>1, <2>2, <2>4, NumberedFollowing
  <2>7. /\ longer \in Seq(Fragments) /\ Len(longer) = Len(published[l]) + 1
        /\ longer[Len(published[l]) + 1] = f
        /\ \A i \in 1 .. Len(published[l]) : longer[i] = published[l][i]
    BY <1>3, <2>1, AppendProperties
  <2>8. next \in Nat
    BY <1>3, <1>6, <2>2
  <2>9. \A i \in 1 .. Len(longer) :
           \/ i = Len(published[l]) + 1 /\ longer[i] = f
           \/ i \in 1 .. Len(published[l]) /\ longer[i] = published[l][i]
    BY <1>3, <2>7, LenProperties
  <2>10. \A i \in 1 .. Len(longer) : longer[i].id <= calls
    BY <1>3, <1>5, <1>6, <1>8, <2>9
  <2>11. LinkInv(l)'
    BY <1>3, <2>3, <2>5, <2>6, <2>10 DEF LinkInv
  <2> QED BY <1>1, <1>3, <1>8, <2>3, <2>7, <2>8, <2>9, <2>11
<1> QED BY <1>7, <1>8

\* The transmitter's next fragment goes into the queue: in the middle of a
\* message the call stays where it is, at its end the loop goes on.
LEMMA EmitKeeps ==
    ASSUME PipelineInv, NEW t \in Tasks, Emit(t)
    PROVE  PipelineInv'
<1>0. call[t].pc = "emit" /\ call[t].pc # "idle" /\ call[t].pc \in {"link", "emit"}
  BY DEF Emit
<1>1. PICK l : l = call[t].link
  OBVIOUS
<1>2. PICK f : f = Fragment(t)
  OBVIOUS
<1>3. /\ l \in Links /\ l \in EnabledLinks /\ Parts[l] \in Nat \ {0}
      /\ published[l] \in Seq(Fragments) /\ f \in Fragments
      /\ f.id = call[t].id /\ f.part = s_tx.part
      /\ f.sequence = s_tx.sequence /\ s_tx.sequence = s_next_sequence[l]
      /\ s_tx.part \in 1 .. Parts[l] /\ s_tx.id = call[t].id
      /\ published' = [published EXCEPT ![l] = Append(published[l], f)]
      /\ s_tx' = [s_tx EXCEPT !.part = s_tx.part + 1]
      /\ IF s_tx.part = Parts[l]
         THEN /\ Continue(t, "OK")
              /\ s_next_sequence' = [s_next_sequence EXCEPT ![l] = s_tx.sequence + 1]
         ELSE UNCHANGED <<call, s_next_sequence>>
      /\ UNCHANGED <<owner, calls, unbegun, cut>>
  BY <1>1, <1>2, EmitEffect
<1>4. /\ PipelineType /\ CallInv(t) /\ call[t] \in CallRecords /\ owner = t
      /\ EmitInv(t) /\ Untried(t) # {} /\ NextOf(t) = l
  BY <1>0, <1>1, CallHolds
<1>5. /\ \A k \in Links : LinkInv(k)' /\ published'[k] \in Seq(Fragments)
                          /\ s_next_sequence'[k] \in Nat
      /\ \A k \in Links : \A i \in 1 .. Len(published'[k]) :
            \/ published'[k][i].id = call[t].id /\ k = l
            \/ i \in 1 .. Len(published[k]) /\ published'[k][i] = published[k][i]
  BY <1>1, EmitLink
<1>6. s_tx' \in [id : Nat, sequence : Nat, part : Nat, count : Nat]
      /\ s_tx'.part = s_tx.part + 1 /\ s_tx'.id = s_tx.id /\ s_tx'.count = s_tx.count
      /\ s_tx'.sequence = s_tx.sequence
  <2>1. PICK tx \in [id : Nat, sequence : Nat, part : Nat, count : Nat] : tx = s_tx
    BY <1>4 DEF PipelineType
  <2>2. PICK later : later = tx.part + 1
    OBVIOUS
  <2>3. later \in Nat /\ s_tx' = [tx EXCEPT !.part = later]
    BY <1>3, <2>1, <2>2
  <2> QED BY <2>1, <2>2, <2>3
<1>7. \A k \in Links \ {l} : published'[k] = published[k]
  BY <1>3, <1>4 DEF PipelineType
<1>8. published' \in [Links -> Seq(Fragments)] /\ s_next_sequence' \in [Links -> Nat]
  <2>1. DOMAIN published' = Links /\ published' = [k \in Links |-> published'[k]]
    BY <1>3, <1>4 DEF PipelineType
  <2>2. DOMAIN s_next_sequence' = Links /\ s_next_sequence' = [k \in Links |-> s_next_sequence'[k]]
    BY <1>3, <1>4 DEF PipelineType
  <2> QED BY <1>5, <2>1, <2>2
<1>9. PICK n \in Nat : n = Len(published[l])
  BY <1>3, LenProperties
<1>10. /\ published'[l] = Append(published[l], f) /\ Len(published'[l]) = n + 1
       /\ published'[l][n + 1] = f
  BY <1>3, <1>4, <1>9, AppendProperties DEF PipelineType
<1>11. /\ call' \in [Tasks -> {Idle} \cup CallRecords]
       /\ \A u \in Tasks \ {t} : call'[u] = call[u]
       /\ call'[t].id = call[t].id
       /\ CallInv(t)'
  <2>1. CASE s_tx.part = Parts[l]
    <3>1. Continue(t, "OK") /\ "OK" \in Results
      BY <1>3, <2>1 DEF Results
    <3>2. n + 1 \in 1 .. Len(published'[l])
      BY <1>10
    <3>3. Finished(published'[l], Parts[l], call[t].id)
      BY <1>3, <1>10, <2>1, <3>2 DEF Finished
    <3>4. CallInv(t)'
      <4>1. \A k \in Links \ {NextOf(t)} : published'[k] = published[k]
        BY <1>4, <1>7
      <4>2. /\ NextOf(t) \in EnabledLinks
            /\ Finished(published'[NextOf(t)], Parts[NextOf(t)], call[t].id)
        BY <1>3, <1>4, <3>3
      <4>3. unbegun \subseteq unbegun' /\ cut \subseteq cut' /\ owner' = owner /\ calls' = calls
        BY <1>3
      <4> QED BY <1>0, <1>4, <3>1, <4>1, <4>2, <4>3, ContinueTruth
    <3>5. /\ call' \in [Tasks -> {Idle} \cup CallRecords]
          /\ \A u \in Tasks \ {t} : call'[u] = call[u]
          /\ call'[t].id = call[t].id
      BY <1>4, <3>1, ContinueEffect
    <3> QED BY <3>4, <3>5
  <2>2. CASE s_tx.part # Parts[l]
    <3>1. call' = call /\ s_next_sequence' = s_next_sequence
      BY <1>3, <2>2
    <3>2. PICK p \in Nat, parts \in Nat : p = s_tx.part /\ parts = Parts[l]
      BY <1>3
    <3>3. p + 1 \in 1 .. parts /\ p + 1 # 1
      BY <1>3, <2>2, <3>2
    <3>4. Following(published'[l], s_tx')
      <4>1. /\ s_tx'.part # 1 /\ s_tx'.id = f.id /\ f.part = s_tx'.part - 1
            /\ f.sequence = s_tx'.sequence
        <5>1. s_tx'.part = p + 1 /\ f.part = p /\ f.part = (p + 1) - 1
          BY <1>3, <1>6, <3>2
        <5> QED BY <1>3, <1>6, <3>3, <5>1
      <4> QED BY <1>10, <4>1 DEF Following
    <3>5. EmitInv(t)'
      <4>1. /\ s_tx'.id = call[t].id /\ s_tx'.count = Parts[l] /\ s_tx'.part \in 1 .. Parts[l]
            /\ s_tx'.sequence = s_next_sequence[l]
        BY <1>1, <1>3, <1>4, <1>6, <3>2, <3>3 DEF EmitInv
      <4> QED BY <1>1, <1>4, <3>1, <3>4, <4>1 DEF EmitInv
    <3>6. Tried(t)' = Tried(t) /\ \A k \in Tried(t) : published'[k] = published[k]
      <4>1. Tried(t)' = Tried(t) /\ \A k \in Tried(t) : k \in Links /\ k < l
        BY <1>1, <1>4, <3>1 DEF Tried, CallRecords
      <4>2. l \in Nat
        BY <1>3, PipelineAssumption
      <4>3. \A k \in Tried(t) : k \in Links \ {l}
        BY <4>1, <4>2
      <4> QED BY <1>7, <4>1, <4>3
    <3>7. \A k \in Links : \A i \in 1 .. Len(published'[k]) :
             published'[k][i].id = call[t].id => k < l \/ k = l
      BY <1>0, <1>1, <1>4, <1>5 DEF CallInv
    <3>8. CallInv(t)'
      BY <1>0, <1>1, <1>3, <1>4, <3>1, <3>5, <3>6, <3>7 DEF CallInv
    <3> QED BY <1>4, <3>1, <3>8 DEF PipelineType
  <2> QED BY <2>1, <2>2
<1>12. ASSUME NEW u \in Tasks PROVE CallInv(u)'
  <2>1. CASE u = t
    BY <1>11, <2>1
  <2>2. CASE u # t /\ call[u].pc = "idle"
    BY <1>11, <2>2 DEF CallInv
  <2>3. CASE u # t /\ call[u].pc # "idle"
    <3>1. call[u].id # call[t].id
      BY <1>0, <2>3 DEF PipelineInv, CallsDiffer
    <3>2. \A k \in Links : \A i \in 1 .. Len(published'[k]) :
             published'[k][i].id = call[u].id =>
             \E j \in 1 .. Len(published[k]) : published[k][j].id = call[u].id
      BY <1>5, <3>1
    <3> QED BY <1>3, <1>4, <1>11, <2>3, <3>2, OthersWait
  <2> QED BY <2>1, <2>2, <2>3
<1>13. PipelineType'
  BY <1>3, <1>4, <1>6, <1>8, <1>11 DEF PipelineType
<1>14. CallsDiffer'
  BY <1>0, <1>11, DifferenceStays
<1> QED BY <1>5, <1>12, <1>13, <1>14 DEF PipelineInv
-----------------------------------------------------------------------------
\* Nothing is queued and nobody calls at the start.
LEMMA PipelineStarts ==
    PipelineInit => PipelineInv
<1> SUFFICES ASSUME PipelineInit PROVE PipelineInv
  OBVIOUS
<1>1. \A l \in Links : published[l] = <<>> /\ Len(published[l]) = 0 /\ published[l] \in Seq(Fragments)
  BY EmptySeq DEF PipelineInit
<1>2. PipelineType
  BY <1>1 DEF PipelineInit, PipelineType
<1>3. \A l \in Links : LinkInv(l)
  <2> SUFFICES ASSUME NEW l \in Links PROVE LinkInv(l)
    OBVIOUS
  <2>1. Len(published[l]) = 0 /\ 1 .. 0 = {}
    BY <1>1
  <2> QED BY <2>1 DEF LinkInv, Together, Numbered
<1>4. \A t \in Tasks : call[t].pc = "idle"
  BY DEF PipelineInit, Idle
<1> QED BY <1>2, <1>3, <1>4 DEF PipelineInv, CallInv, CallsDiffer

\* Every step of an application's call keeps the invariant.
LEMMA PipelineStep ==
    PipelineInv /\ PipelineNext => PipelineInv'
<1> SUFFICES ASSUME PipelineInv, PipelineNext PROVE PipelineInv'
  OBVIOUS
<1>1. PICK t \in Tasks : (\E mask \in Masks, kind \in Kinds : Call(t, mask, kind)) \/ Proceed(t)
  BY DEF PipelineNext
<1>2. CASE \E mask \in Masks, kind \in Kinds : Call(t, mask, kind)
  BY <1>2, CallKeeps
<1>3. CASE Take(t) \/ TakeTimesOut(t) \/ Return(t)
  BY <1>3, TakeKeeps
<1>4. CASE NotSupported(t) \/ BeginRefused(t) \/ EmitTimesOut(t)
  BY <1>4, GiveUpKeeps
<1>5. CASE Begin(t)
  BY <1>5, BeginKeeps
<1>6. CASE Emit(t)
  BY <1>6, EmitKeeps
<1> QED BY <1>1, <1>2, <1>3, <1>4, <1>5, <1>6 DEF Proceed

\* The tasks that empty the queues, and the world, are no part of a call.
LEMMA OthersOnlyEmpty ==
    [Next]_vars => PipelineNext \/ UNCHANGED coreVars
BY DEF Next, vars, pipelineVars, history, coreVars, OnlyQueue, UdpTask, UdpReady, UdpSend,
       UdpNothing, NotifyTask, NotifyUnreachable, NotifyBegin, Notify, NotifyFails,
       KissTask, KissBlock, KissAllow, KissWrite, World

\* The invariant says nothing of what is left in the queues.
LEMMA CoreStays ==
    PipelineInv /\ UNCHANGED coreVars => PipelineInv'
<1> SUFFICES ASSUME PipelineInv, UNCHANGED coreVars PROVE PipelineInv'
  OBVIOUS
<1>1. UNCHANGED <<owner, call, calls, s_tx, s_next_sequence, published, unbegun, cut>>
  BY DEF coreVars
<1>2. \A l \in Links : LinkInv(l)' = LinkInv(l)
  BY <1>1 DEF LinkInv
<1>3. \A t \in Tasks : CallInv(t)' = CallInv(t)
  BY <1>1 DEF CallInv, EmitInv, Tried
<1> QED BY <1>1, <1>2, <1>3 DEF PipelineInv, PipelineType, CallsDiffer

\* The invariant holds of the whole node.
LEMMA PipelineAlways ==
    Spec => []PipelineInv
<1>1. Init => PipelineInv
  BY PipelineStarts DEF Init
<1>2. PipelineInv /\ [Next]_vars => PipelineInv'
  BY PipelineStep, OthersOnlyEmpty, CoreStays
<1> QED BY <1>1, <1>2, PTL DEF Spec

\* A message is whole in a queue just when its last fragment got there.
LEMMA WholeMeansFinished ==
    ASSUME PipelineInv, NEW l \in EnabledLinks, NEW id
    PROVE  Whole(l, id) <=> Finished(published[l], Parts[l], id)
<1>1. l \in Links /\ Parts[l] \in Nat \ {0}
  BY PipelineAssumption
<1>2. published[l] \in Seq(Fragments) /\ Together(published[l], Parts[l])
  BY <1>1 DEF PipelineInv, PipelineType, LinkInv
<1> QED BY <1>1, <1>2, WholeIsFinished DEF Whole, Accepted

\* lm_air_pipeline_send() from any number of tasks: the queue of a link holds
\* the fragments of a message next to one another and in order, whatever the
\* other tasks send, and a number is used again only for a message that
\* follows one a full queue cut short.
THEOREM MessagesAlwaysStayTogether ==
    Spec => []MessagesStayTogether
<1>1. PipelineInv => MessagesStayTogether
  <2> SUFFICES ASSUME PipelineInv, NEW l \in Links, NEW i \in 1 .. Len(published[l]),
                      NEW j \in 1 .. Len(published[l])
               PROVE  IF published[l][i].id = published[l][j].id
                      THEN published[l][j].part - published[l][i].part = j - i
                      ELSE /\ l \in EnabledLinks /\ i < j
                           /\ published[l][i].sequence = published[l][j].sequence
                           => ~Whole(l, published[l][i].id)
    BY DEF MessagesStayTogether
  <2>1. /\ l \in EnabledLinks /\ Together(published[l], Parts[l])
        /\ Numbered(published[l], Parts[l], s_next_sequence[l])
    BY DEF PipelineInv, LinkInv
  <2>2. Whole(l, published[l][i].id) <=> Finished(published[l], Parts[l], published[l][i].id)
    BY <2>1, WholeMeansFinished
  <2>3. CASE published[l][i].id = published[l][j].id
    BY <2>1, <2>3 DEF Together
  <2>4. CASE published[l][i].id # published[l][j].id
    <3> SUFFICES ASSUME i < j, published[l][i].sequence = published[l][j].sequence,
                        Whole(l, published[l][i].id)
                 PROVE  FALSE
      BY <2>4
    <3>1. published[l][i].sequence < published[l][j].sequence
      BY <2>1, <2>2, <2>4 DEF Numbered
    <3>2. published[l][i].sequence \in Nat
      <4>1. published[l][i] \in Fragments
        BY FragmentNumbers DEF PipelineInv
      <4> QED BY <4>1 DEF Fragments, Packets
    <3> QED BY <3>1, <3>2
  <2> QED BY <2>3, <2>4
<1> QED BY <1>1, PipelineAlways, PTL

\* Only the end of the loop over the links makes a call return.
LEMMA OnlyReturnReturns ==
    ASSUME PipelineInv, [Next]_vars, NEW t \in Tasks, Returns(t)
    PROVE  Return(t) /\ published' = published /\ unbegun' = unbegun /\ cut' = cut
<1>1. PipelineType /\ call[t].pc = "link" /\ call'[t].pc = "idle" /\ call[t] \in CallRecords
  BY CallUnderWay DEF PipelineInv, Returns
<1>2. call' # call
  BY <1>1
<1>3. PipelineNext
  BY <1>2, OthersOnlyEmpty DEF coreVars
<1>4. PICK u \in Tasks : (\E mask \in Masks, kind \in Kinds : Call(u, mask, kind)) \/ Proceed(u)
  BY <1>3 DEF PipelineNext
<1>5. CASE u # t
  <2>1. \A v \in Tasks \ {u} : call'[v] = call[v]
    BY <1>1, <1>4 DEF PipelineType, Call, Proceed, Take, TakeTimesOut, NotSupported, Begin,
                      BeginRefused, Emit, EmitTimesOut, Return, Continue
  <2> QED BY <1>1, <1>5, <2>1
<1>6. CASE u = t
  <2>1. \A mask \in Masks, kind \in Kinds : ~Call(t, mask, kind)
    BY <1>1 DEF Call
  <2>2. ~Take(t) /\ ~TakeTimesOut(t) /\ ~Emit(t) /\ ~EmitTimesOut(t)
    BY <1>1 DEF Take, TakeTimesOut, Emit, EmitTimesOut
  <2>3. ~Begin(t)
    <3>1. PICK c : c = [call[t] EXCEPT !.pc = "emit", !.link = NextOf(t)]
      OBVIOUS
    <3>2. c.pc = "emit"
      BY <1>1, <3>1 DEF CallRecords
    <3>3. Begin(t) => call'[t] = c
      BY <1>1, <3>1 DEF Begin, PipelineType
    <3> QED BY <1>1, <3>2, <3>3
  <2>4. \A result \in Results : Untried(t) # {} => ~Continue(t, result)
    BY <1>1, ContinueEffect
  <2>5. ~NotSupported(t) /\ ~BeginRefused(t)
    BY <2>4 DEF NotSupported, BeginRefused, Results
  <2> QED BY <1>4, <1>6, <2>1, <2>2, <2>3, <2>5 DEF Proceed, Return, history
<1> QED BY <1>5, <1>6

\* lm_air_pipeline_send() returns ESP_OK just when every link that was asked
\* for has the whole message in its queue, and a link that has it not is one
\* that refused the message or whose own queue was full.
THEOREM ResultAlwaysTellsTruth ==
    Spec => ResultTellsTruth
<1> DEFINE Truth(t) ==
      /\ call[t].result = "OK"
         <=> \A l \in call[t].mask : l \in EnabledLinks /\ Whole(l, call[t].id)
      /\ \A l \in call[t].mask \cap EnabledLinks :
            Whole(l, call[t].id) \/ <<l, call[t].id>> \in unbegun \cup cut
<1>1. ASSUME PipelineInv, [Next]_vars, NEW t \in Tasks, Returns(t)
      PROVE  Truth(t)
  <2>1. Return(t)
    BY <1>1, OnlyReturnReturns
  <2>2. /\ call[t].pc = "link" /\ call[t].pc # "idle" /\ Untried(t) = {}
    BY <2>1 DEF Return
  <2>3. CallInv(t) /\ call[t] \in CallRecords
    BY <1>1, <2>2, CallHolds
  <2>4. Tried(t) = call[t].mask
    <3>1. call[t].mask \subseteq Nat /\ call[t].link \in Nat
      BY <2>3, PipelineAssumption DEF CallRecords
    <3> QED BY <2>2, <3>1 DEF Untried, Tried
  <2>5. \A l \in EnabledLinks :
           Whole(l, call[t].id) <=> Finished(published[l], Parts[l], call[t].id)
    BY <1>1, WholeMeansFinished
  <2> QED BY <2>2, <2>3, <2>4, <2>5 DEF CallInv
<1>2. PipelineInv /\ [Next]_vars => [\A t \in Tasks : Returns(t) => Truth(t)]_pipelineVars
  BY <1>1
<1> QED BY <1>2, PipelineAlways, PTL DEF Spec, ResultTellsTruth

-----------------------------------------------------------------------------
(* No message is given up twice on a link *)

\* The links on which a call under way gave its message up are behind it, and
\* the next message is none that was given up.
CutInv ==
    /\ IsFiniteSet(cut)
    /\ \A c \in cut : c[2] \in Nat /\ c[2] <= calls
    /\ \A t \in Tasks, l \in Links :
          call[t].pc # "idle" /\ <<l, call[t].id>> \in cut => l < call[t].link

\* Calls that go on to later links or to a new message keep it so.
LEMMA CutKept ==
    ASSUME PipelineInv, CutInv, cut' = cut, calls' \in Nat, calls' >= calls,
           \A u \in Tasks : \/ call'[u].pc = "idle"
                           \/ /\ call[u].pc # "idle" /\ call'[u].id = call[u].id
                              /\ call'[u].link \in Nat /\ call'[u].link >= call[u].link
                           \/ call'[u].id > calls
    PROVE  CutInv'
<1>1. calls \in Nat /\ Links \subseteq Nat /\ PipelineType
  BY PipelineAssumption DEF PipelineInv, PipelineType
<1>2. \A c \in cut' : c[2] \in Nat /\ c[2] <= calls'
  BY <1>1 DEF CutInv
<1>3. ASSUME NEW u \in Tasks, NEW l \in Links, call'[u].pc # "idle",
             <<l, call'[u].id>> \in cut'
      PROVE  l < call'[u].link
  <2>1. CASE call'[u].id > calls
    <3>1. <<l, call'[u].id>>[2] \in Nat /\ <<l, call'[u].id>>[2] <= calls
      BY <1>3 DEF CutInv
    <3>2. call'[u].id \in Nat /\ call'[u].id <= calls
      BY <3>1
    <3> QED BY <1>1, <2>1, <3>2
  <2>2. CASE ~(call'[u].id > calls)
    <3>1. /\ call[u].pc # "idle" /\ call'[u].id = call[u].id
          /\ call'[u].link \in Nat /\ call'[u].link >= call[u].link
      BY <1>3, <2>2
    <3>2. l < call[u].link /\ l \in Nat
      BY <1>1, <1>3, <3>1 DEF CutInv
    <3>3. call[u].link \in Nat
      BY <1>1, <3>1, CallUnderWay DEF CallRecords
    <3> QED BY <3>1, <3>2, <3>3
  <2> QED BY <2>1, <2>2
<1> QED BY <1>2, <1>3 DEF CutInv

\* What a full queue refuses was not given up there before.
LEMMA EmitTimesOutCuts ==
    ASSUME PipelineInv, CutInv, NEW t \in Tasks, EmitTimesOut(t)
    PROVE  /\ CutInv' /\ <<call[t].link, call[t].id>> \notin cut
           /\ cut' = cut \cup {<<call[t].link, call[t].id>>}
<1>1. /\ call[t].pc = "emit" /\ cut' = cut \cup {<<call[t].link, call[t].id>>}
      /\ Continue(t, "FAIL") /\ calls' = calls
  BY DEF EmitTimesOut
<1>2. /\ PipelineType /\ call[t] \in CallRecords /\ call[t].id <= calls
      /\ EmitInv(t) /\ Untried(t) # {} /\ NextOf(t) = call[t].link
  BY <1>1, CallHolds
<1>3. PICK l, n : l = call[t].link /\ n = call[t].id
  OBVIOUS
<1>4. l \in Links /\ l \in Nat /\ n \in Nat /\ calls \in Nat /\ Links \subseteq Nat
  BY <1>2, <1>3, PipelineAssumption DEF EmitInv, CallRecords, PipelineType
<1>5. <<l, n>> \notin cut
  BY <1>1, <1>3, <1>4 DEF CutInv
<1>6. /\ \A u \in Tasks \ {t} : call'[u] = call[u]
      /\ call'[t].link = l + 1 /\ call'[t].id = n
  BY <1>1, <1>2, <1>3, ContinueEffect DEF Results
<1>7. IsFiniteSet(cut')
  BY <1>1, FS_AddElement DEF CutInv
<1>8. \A c \in cut' : c[2] \in Nat /\ c[2] <= calls'
  BY <1>1, <1>2, <1>3, <1>4 DEF CutInv
<1>9. ASSUME NEW u \in Tasks, NEW k \in Links, call'[u].pc # "idle", <<k, call'[u].id>> \in cut'
      PROVE  k < call'[u].link
  <2>1. CASE u = t
    <3>1. <<k, n>> \in cut \/ k = l
      BY <1>1, <1>3, <1>6, <1>9, <2>1
    <3>2. <<k, n>> \in cut => k < l
      BY <1>1, <1>3 DEF CutInv
    <3>3. k \in Nat
      BY <1>4
    <3> QED BY <1>4, <1>6, <2>1, <3>1, <3>2, <3>3
  <2>2. CASE u # t
    <3>1. call'[u] = call[u] /\ call[u].pc # "idle"
      BY <1>6, <1>9, <2>2
    <3>2. call[u].id # call[t].id
      BY <1>1, <2>2, <3>1 DEF PipelineInv, CallsDiffer
    <3>3. <<k, call[u].id>> \in cut
      BY <1>1, <1>9, <3>1, <3>2
    <3> QED BY <3>1, <3>3 DEF CutInv
  <2> QED BY <2>1, <2>2
<1> QED BY <1>1, <1>3, <1>5, <1>7, <1>8, <1>9 DEF CutInv

\* Every step keeps what is said of the messages given up.
LEMMA CutStep ==
    PipelineInv /\ CutInv /\ [Next]_vars => CutInv'
<1> SUFFICES ASSUME PipelineInv, CutInv, [Next]_vars PROVE CutInv'
  OBVIOUS
<1>0. PipelineType /\ calls \in Nat /\ Links \subseteq Nat
  BY PipelineAssumption DEF PipelineInv, PipelineType
<1>1. ASSUME NEW t \in Tasks, NEW mask \in Masks, NEW kind \in Kinds, Call(t, mask, kind)
      PROVE  CutInv'
  <2>1. /\ cut' = cut /\ calls' = calls + 1 /\ \A u \in Tasks \ {t} : call'[u] = call[u]
        /\ call'[t].id = calls + 1
    BY <1>0, <1>1 DEF Call, history, PipelineType
  <2>2. \A u \in Tasks \ {t} : call[u].pc # "idle" => call[u].link \in Nat
    BY <1>0, CallUnderWay DEF CallRecords
  <2>3. ASSUME NEW u \in Tasks
        PROVE  \/ call'[u].pc = "idle"
               \/ /\ call[u].pc # "idle" /\ call'[u].id = call[u].id
                  /\ call'[u].link \in Nat /\ call'[u].link >= call[u].link
               \/ call'[u].id > calls
    <3>1. CASE u = t
      BY <1>0, <2>1, <3>1
    <3>2. CASE u # t
      BY <2>1, <2>2, <3>2
    <3> QED BY <3>1, <3>2
  <2>4. calls' \in Nat /\ calls' >= calls
    BY <1>0, <2>1
  <2> QED BY <2>1, <2>3, <2>4, CutKept
<1>2. ASSUME NEW t \in Tasks, cut' = cut, calls' = calls,
             \A u \in Tasks \ {t} : call'[u] = call[u],
             \/ call'[t].pc = "idle"
             \/ /\ call[t].pc # "idle" /\ call'[t].id = call[t].id
                /\ call'[t].link \in Nat /\ call'[t].link >= call[t].link
      PROVE  CutInv'
  <2>1. \A u \in Tasks \ {t} : call[u].pc # "idle" => call[u].link \in Nat
    BY <1>0, CallUnderWay DEF CallRecords
  <2>2. ASSUME NEW u \in Tasks
        PROVE  \/ call'[u].pc = "idle"
               \/ /\ call[u].pc # "idle" /\ call'[u].id = call[u].id
                  /\ call'[u].link \in Nat /\ call'[u].link >= call[u].link
               \/ call'[u].id > calls
    <3>1. CASE u = t
      BY <1>2, <3>1
    <3>2. CASE u # t
      BY <1>2, <2>1, <3>2
    <3> QED BY <3>1, <3>2
  <2> QED BY <1>0, <1>2, <2>2, CutKept
<1>3. ASSUME NEW t \in Tasks, Take(t) \/ TakeTimesOut(t) \/ Return(t)
      PROVE  CutInv'
  <2>1. call[t].pc # "idle" /\ call[t] \in CallRecords
    BY <1>0, <1>3, CallUnderWay DEF Take, TakeTimesOut, Return
  <2>2. PICK c : c = [call[t] EXCEPT !.pc = "link"]
    OBVIOUS
  <2>3. c.id = call[t].id /\ c.link = call[t].link /\ call[t].link \in Nat
    BY <2>1, <2>2 DEF CallRecords
  <2>4. /\ cut' = cut /\ calls' = calls /\ \A u \in Tasks \ {t} : call'[u] = call[u]
        /\ call'[t] = Idle \/ call'[t] = c
    BY <1>0, <1>3, <2>2 DEF Take, TakeTimesOut, Return, history, PipelineType
  <2>5. \/ call'[t].pc = "idle"
        \/ /\ call[t].pc # "idle" /\ call'[t].id = call[t].id
           /\ call'[t].link \in Nat /\ call'[t].link >= call[t].link
    BY <2>1, <2>3, <2>4 DEF Idle
  <2> QED BY <1>2, <2>4, <2>5
<1>4. ASSUME NEW t \in Tasks, call[t].pc \in {"link", "emit"}, Untried(t) # {}, cut' = cut,
             calls' = calls, NEW result \in Results, Continue(t, result)
      PROVE  CutInv'
  <2>1. call[t] \in CallRecords /\ call[t].link \in Nat /\ call[t].pc # "idle"
    BY <1>4, CallHolds DEF CallRecords
  <2>2. /\ NextOf(t) \in Nat /\ NextOf(t) >= call[t].link
        /\ \A u \in Tasks \ {t} : call'[u] = call[u]
        /\ call'[t].link = NextOf(t) + 1 /\ call'[t].id = call[t].id
    BY <1>0, <1>4, <2>1, ContinueEffect, NextIsLeast
  <2>3. call'[t].link \in Nat /\ call'[t].link >= call[t].link
    BY <2>1, <2>2
  <2> QED BY <1>2, <1>4, <2>1, <2>2, <2>3
<1>5. ASSUME NEW t \in Tasks, NotSupported(t) \/ BeginRefused(t) PROVE CutInv'
  BY <1>4, <1>5 DEF NotSupported, BeginRefused, Results, history
<1>6. ASSUME NEW t \in Tasks, Begin(t) PROVE CutInv'
  <2>1. /\ call[t].pc = "link" /\ Untried(t) # {} /\ cut' = cut /\ calls' = calls
        /\ call' = [call EXCEPT ![t].pc = "emit", ![t].link = NextOf(t)]
    BY <1>6 DEF Begin, history
  <2>2. call[t] \in CallRecords /\ NextOf(t) \in Nat /\ NextOf(t) >= call[t].link
    BY <2>1, CallHolds, NextIsLeast
  <2>3. PICK c : c = [call[t] EXCEPT !.pc = "emit", !.link = NextOf(t)]
    OBVIOUS
  <2>4. c.id = call[t].id /\ c.link = NextOf(t)
    BY <2>2, <2>3 DEF CallRecords
  <2>5. call'[t] = c /\ \A u \in Tasks \ {t} : call'[u] = call[u]
    BY <1>0, <2>1, <2>3 DEF PipelineType
  <2> QED BY <1>2, <2>1, <2>2, <2>4, <2>5
<1>7. ASSUME NEW t \in Tasks, Emit(t) PROVE CutInv'
  <2>1. call[t].pc = "emit" /\ cut' = cut /\ calls' = calls
    BY <1>7 DEF Emit
  <2>2. Untried(t) # {} /\ call[t] \in CallRecords /\ call[t].link \in Nat
    BY <2>1, CallHolds DEF CallRecords
  <2>3. Continue(t, "OK") \/ call' = call
    BY <1>7 DEF Emit
  <2>4. CASE call' = call
    BY <1>2, <2>1, <2>2, <2>4
  <2> QED BY <1>4, <2>1, <2>2, <2>3, <2>4 DEF Results
<1>8. CASE UNCHANGED coreVars
  BY <1>8 DEF coreVars, CutInv
<1>9. CASE PipelineNext
  <2>1. PICK t \in Tasks : (\E mask \in Masks, kind \in Kinds : Call(t, mask, kind)) \/ Proceed(t)
    BY <1>9 DEF PipelineNext
  <2> QED BY <1>1, <1>3, <1>5, <1>6, <1>7, <2>1, EmitTimesOutCuts DEF Proceed
<1> QED BY <1>8, <1>9, OthersOnlyEmpty

\* So it is in the whole node.
LEMMA CutAlways ==
    Spec => []CutInv
<1>1. Init => CutInv
  BY FS_EmptySet DEF Init, PipelineInit, CutInv
<1> QED BY <1>1, CutStep, PipelineAlways, PTL DEF Spec

-----------------------------------------------------------------------------
\* What is in hand for the external radio is permitted, and names the station
\* or follows the identification that the policy counted last; what it counted
\* last is on the air, unless it is what is in hand.
AirInv ==
    /\ now \in Nat
    /\ queue \in [Links -> Seq(Packets)]
    /\ runtime \in [seen : BOOLEAN, last : Nat]
    /\ writing \in {NoPacket} \cup [packet : Packets, at : Nat]
    /\ runtime.seen => aired = runtime.last \/ (writing # NoPacket /\ writing.packet.identification)
    /\ writing # NoPacket =>
          /\ writing.packet.permitted
          /\ runtime.seen
          /\ IF writing.packet.identification THEN writing.at = runtime.last
             ELSE writing.at - runtime.last < CallsignInterval

\* What the queues hold stays packets.
LEMMA QueueType ==
    ASSUME PipelineInv, queue \in [Links -> Seq(Packets)], [Next]_vars
    PROVE  queue' \in [Links -> Seq(Packets)]
<1>1. CASE \E l \in Links : queue[l] # <<>> /\ Dequeue(l)
  <2>1. PICK l \in Links : queue[l] # <<>> /\ queue' = [queue EXCEPT ![l] = Tail(@)]
    BY <1>1 DEF Dequeue
  <2>2. Tail(queue[l]) \in Seq(Packets)
    BY <2>1, HeadTailProperties
  <2> QED BY <2>1, <2>2
<1>2. CASE \E t \in Tasks : Emit(t)
  <2>1. PICK t, l : t \in Tasks /\ Emit(t) /\ l = call[t].link
    BY <1>2
  <2>2. l \in Links /\ Fragment(t) \in Packets
    BY <2>1, EmitEffect DEF Fragments
  <2>3. queue' = [queue EXCEPT ![l] = Append(queue[l], Fragment(t))]
    BY <2>1 DEF Emit
  <2>4. Append(queue[l], Fragment(t)) \in Seq(Packets)
    BY <2>2, AppendProperties
  <2> QED BY <2>2, <2>3, <2>4
<1>3. CASE UNCHANGED queue
  BY <1>3
<1>4. \/ \E l \in Links : queue[l] # <<>> /\ Dequeue(l)
      \/ \E t \in Tasks : Emit(t)
      \/ UNCHANGED queue
  <2>1. CASE UdpTask \/ NotifyTask \/ KissTask
    BY <2>1, FirmwareAssumption
       DEF UdpTask, UdpReady, UdpSend, UdpNothing, NotifyTask, NotifyUnreachable, NotifyBegin,
           Notify, NotifyFails, KissTask, KissBlock, KissAllow, KissWrite, pipelineVars
  <2>2. CASE World \/ UNCHANGED vars
    BY <2>2 DEF World, vars, pipelineVars
  <2>3. CASE PipelineNext
    BY <2>3 DEF PipelineNext, Proceed, Call, Take, TakeTimesOut, NotSupported, Begin,
                BeginRefused, EmitTimesOut, Return
  <2> QED BY <2>1, <2>2, <2>3 DEF Next
<1> QED BY <1>1, <1>2, <1>3, <1>4

\* Every step keeps what is said of the external radio.
LEMMA AirStep ==
    PipelineInv /\ AirInv /\ [Next]_vars => AirInv'
<1> SUFFICES ASSUME PipelineInv, AirInv, [Next]_vars PROVE AirInv'
  OBVIOUS
<1>1. queue' \in [Links -> Seq(Packets)]
  BY QueueType DEF AirInv
<1>2. CASE KissAllow
  <2>1. PICK packet : packet = Head(queue[Kiss])
    OBVIOUS
  <2>2. packet \in Packets
    <3>1. queue[Kiss] \in Seq(Packets) /\ queue[Kiss] # <<>>
      BY <1>2, FirmwareAssumption DEF AirInv, KissAllow
    <3> QED BY <2>1, <3>1, HeadTailProperties
  <2>3. /\ writing = NoPacket /\ packet.permitted /\ (Due => packet.identification)
        /\ writing' = [packet |-> packet, at |-> now]
        /\ runtime' = RuntimeAfter(packet)
        /\ aired' = aired /\ now' = now /\ now \in Nat
    BY <1>2, <2>1 DEF KissAllow, Allowed, world, AirInv
  <2>4. /\ writing' \in [packet : Packets, at : Nat] /\ writing' # NoPacket
        /\ writing'.packet = packet /\ writing'.at = now
    BY <2>2, <2>3, FirmwareAssumption
  <2>5. runtime \in [seen : BOOLEAN, last : Nat] /\ (runtime.seen => aired = runtime.last)
    BY <2>3 DEF AirInv
  <2>6. CASE packet.identification
    <3>1. runtime' = [seen |-> TRUE, last |-> now]
      BY <2>3, <2>6 DEF RuntimeAfter
    <3>2. runtime' \in [seen : BOOLEAN, last : Nat] /\ runtime'.seen /\ runtime'.last = now
      BY <2>3, <3>1
    <3> QED BY <1>1, <2>3, <2>4, <2>6, <3>2 DEF AirInv
  <2>7. CASE ~packet.identification
    <3>1. runtime' = runtime /\ runtime.seen /\ ~(now - runtime.last >= CallsignInterval)
      BY <2>3, <2>7 DEF RuntimeAfter, Due
    <3>2. runtime.last \in Nat /\ CallsignInterval \in Nat
      BY <2>5, FirmwareAssumption
    <3>3. now - runtime.last < CallsignInterval
      BY <2>3, <3>1, <3>2
    <3> QED BY <1>1, <2>3, <2>4, <2>5, <2>7, <3>1, <3>3 DEF AirInv
  <2> QED BY <2>6, <2>7
<1>3. CASE KissWrite
  <2>1. /\ writing # NoPacket /\ writing' = NoPacket /\ runtime' = runtime /\ now' = now
        /\ aired' = IF writing.packet.identification THEN writing.at ELSE aired
    BY <1>3 DEF KissWrite, world
  <2> QED BY <1>1, <2>1 DEF AirInv
<1>4. CASE UNCHANGED <<writing, runtime, aired>>
  <2>1. now' \in Nat
    <3>1. now' = now \/ now' = now + 1
      BY DEF Next, World, WifiEvent, GapEvent, InterlockMoves, Tick, world, vars,
             UdpTask, UdpReady, UdpSend, UdpNothing, NotifyTask, NotifyUnreachable, NotifyBegin,
             Notify, NotifyFails, KissTask, KissBlock, KissAllow, KissWrite
    <3>2. now \in Nat
      BY DEF AirInv
    <3> QED BY <3>1, <3>2
  <2> QED BY <1>1, <1>4, <2>1 DEF AirInv
<1>5. KissAllow \/ KissWrite \/ UNCHANGED <<writing, runtime, aired>>
  BY DEF Next, World, tasks, vars, UdpTask, UdpReady, UdpSend, UdpNothing, NotifyTask,
         NotifyUnreachable, NotifyBegin, Notify, NotifyFails, KissTask, KissBlock
<1> QED BY <1>2, <1>3, <1>4, <1>5

\* What is said of the external radio always holds.
LEMMA AirAlways ==
    Spec => []AirInv
<1>1. Init => AirInv
  <2> SUFFICES ASSUME Init PROVE AirInv
    OBVIOUS
  <2>1. /\ now = 0 /\ writing = NoPacket /\ runtime = [seen |-> FALSE, last |-> 0]
        /\ queue = [l \in Links |-> <<>>]
    BY DEF Init, PipelineInit
  <2>2. queue \in [Links -> Seq(Packets)]
    BY <2>1, EmptySeq
  <2> QED BY <2>1, <2>2 DEF AirInv
<1> QED BY <1>1, AirStep, PipelineAlways, PTL DEF Spec

\* kiss_tx_task: what goes out to the external radio is permitted, and names
\* the station or follows, within the interval, a packet on the air that did,
\* however long the write takes and whatever the clock and the links do.
THEOREM AirAlwaysIdentified ==
    Spec => IdentifiedOnAir
<1>3. ASSUME AirInv, OnAir
      PROVE  /\ writing.packet.permitted
             /\ \/ writing.packet.identification
                \/ aired >= 0 /\ writing.at - aired < CallsignInterval
  BY <1>3 DEF AirInv, OnAir
<1>4. AirInv /\ [Next]_vars =>
        [OnAir =>
           /\ writing.packet.permitted
           /\ \/ writing.packet.identification
              \/ aired >= 0 /\ writing.at - aired < CallsignInterval]_vars
  BY <1>3
<1> QED BY <1>4, AirAlways, PTL DEF Spec, IdentifiedOnAir
-----------------------------------------------------------------------------
(* Sums over the links *)

\* What Total() computes: the sum over every set of indices.
AnyOf(s) == CHOOSE x \in s : TRUE
SumsOn(g, f, D) == g = [s \in D |-> IF s = {} THEN 0 ELSE f[AnyOf(s)] + g[s \ {AnyOf(s)}]]
Sums(f) == CHOOSE g : SumsOn(g, f, SUBSET DOMAIN f)
UpTo(S, n) == {s \in SUBSET S : Cardinality(s) <= n}

\* Without the element that is added first, a set has one element less.
LEMMA WithoutAny ==
    ASSUME NEW S, IsFiniteSet(S), NEW s \in SUBSET S, s # {}
    PROVE  /\ AnyOf(s) \in s /\ s \ {AnyOf(s)} \in SUBSET S
           /\ Cardinality(s) \in Nat /\ Cardinality(s) >= 1
           /\ Cardinality(s \ {AnyOf(s)}) = Cardinality(s) - 1
<1>1. AnyOf(s) \in s
  BY DEF AnyOf
<1>2. IsFiniteSet(s)
  BY FS_Subset
<1>3. Cardinality(s \ {AnyOf(s)}) = Cardinality(s) - 1 /\ Cardinality(s) \in Nat
  BY <1>1, <1>2, FS_RemoveElement, FS_CardinalityType
<1>4. Cardinality(s) # 0
  BY <1>2, FS_EmptySet
<1> QED BY <1>1, <1>3, <1>4

\* A property of every subset, by the number of its elements.
LEMMA SubsetsOneByOne ==
    ASSUME NEW S, IsFiniteSet(S), NEW P, {} \in P,
           \A s \in SUBSET S : s # {} /\ s \ {AnyOf(s)} \in P => s \in P
    PROVE  SUBSET S \subseteq P
<1> SUFFICES ASSUME NEW b \in SUBSET S, b \notin P PROVE FALSE
  OBVIOUS
<1> DEFINE R == {Cardinality(s) : s \in (SUBSET S) \ P}
<1>1. R \subseteq Nat /\ R # {}
  BY FS_Subset, FS_CardinalityType
<1>2. PICK s \in (SUBSET S) \ P : \A t \in (SUBSET S) \ P : Cardinality(s) <= Cardinality(t)
  <2>1. PICK k \in R : \A j \in R : k <= j
    <3> HIDE DEF R
    <3> QED BY <1>1, LeastExists
  <2> QED BY <2>1
<1>3. s # {}
  BY <1>2
<1>4. /\ s \ {AnyOf(s)} \in SUBSET S /\ Cardinality(s) \in Nat
      /\ Cardinality(s \ {AnyOf(s)}) = Cardinality(s) - 1
  BY <1>3, WithoutAny
<1>5. s \ {AnyOf(s)} \in P
  <2>1. ~ (Cardinality(s) <= Cardinality(s \ {AnyOf(s)}))
    BY <1>4
  <2> QED BY <1>2, <1>4, <2>1
<1> QED BY <1>2, <1>3, <1>5

\* The sums exist, up to any number of elements.
LEMMA SumsUpTo ==
    ASSUME NEW S, IsFiniteSet(S), NEW f, NEW n \in Nat
    PROVE  \E g : SumsOn(g, f, UpTo(S, n))
<1> DEFINE R == {k \in Nat : ~ \E g : SumsOn(g, f, UpTo(S, k))}
<1> SUFFICES ASSUME R # {} PROVE FALSE
  OBVIOUS
<1>1. PICK k \in R : \A j \in R : k <= j
  BY LeastExists
<1>2. CASE k = 0
  <2>1. ASSUME NEW s \in UpTo(S, 0) PROVE s = {}
    <3>1. s \in SUBSET S /\ Cardinality(s) <= 0
      BY DEF UpTo
    <3>2. s # {} => Cardinality(s) >= 1 /\ Cardinality(s) \in Nat
      BY <3>1, WithoutAny
    <3> QED BY <3>1, <3>2
  <2>2. SumsOn([s \in UpTo(S, 0) |-> 0], f, UpTo(S, 0))
    BY <2>1 DEF SumsOn
  <2> QED BY <1>1, <1>2, <2>2
<1>3. CASE k # 0
  <2>1. k - 1 \in Nat /\ k - 1 \notin R
    BY <1>1, <1>3
  <2>2. PICK g : SumsOn(g, f, UpTo(S, k - 1))
    BY <2>1
  <2> DEFINE h == [s \in UpTo(S, k) |-> IF s = {} THEN 0 ELSE f[AnyOf(s)] + g[s \ {AnyOf(s)}]]
  <2>3. ASSUME NEW s \in UpTo(S, k - 1) PROVE s \in UpTo(S, k) /\ h[s] = g[s]
    <3>1. s \in UpTo(S, k)
      <4>1. Cardinality(s) \in Nat /\ Cardinality(s) <= k - 1
        BY <2>3, FS_Subset, FS_CardinalityType DEF UpTo
      <4> QED BY <2>1, <2>3, <4>1 DEF UpTo
    <3> QED BY <2>2, <3>1 DEF SumsOn
  <2>4. ASSUME NEW s \in UpTo(S, k), s # {} PROVE h[s \ {AnyOf(s)}] = g[s \ {AnyOf(s)}]
    <3>1. s \ {AnyOf(s)} \in UpTo(S, k - 1)
      <4>1. s \in SUBSET S /\ Cardinality(s) <= k
        BY DEF UpTo
      <4> QED BY <2>1, <2>4, <4>1, WithoutAny DEF UpTo
    <3> QED BY <2>3, <3>1
  <2>5. SumsOn(h, f, UpTo(S, k))
    BY <2>4 DEF SumsOn
  <2> QED BY <1>1, <2>5
<1> QED BY <1>2, <1>3

\* What Total() computes is such a sum.
LEMMA SumsDef ==
    ASSUME NEW f, IsFiniteSet(DOMAIN f)
    PROVE  SumsOn(Sums(f), f, SUBSET DOMAIN f)
<1>1. UpTo(DOMAIN f, Cardinality(DOMAIN f)) = SUBSET DOMAIN f
  BY FS_Subset DEF UpTo
<1>2. \E g : SumsOn(g, f, SUBSET DOMAIN f)
  <2>1. Cardinality(DOMAIN f) \in Nat
    BY FS_CardinalityType
  <2>2. \E g : SumsOn(g, f, UpTo(DOMAIN f, Cardinality(DOMAIN f)))
    BY <2>1, SumsUpTo
  <2> QED BY <1>1, <2>2
<1> QED BY <1>2 DEF Sums

\* The fold of the community modules, in the terms of the lemmas.
LEMMA TotalIsSum == ASSUME NEW f PROVE Total(f) = Sums(f)[DOMAIN f]
BY DEF Total, FoldFunction, FoldFunctionOnSet, MapThenFoldSet, Sums, SumsOn, AnyOf

\* One index more or less by some amount, and so the sum.
LEMMA TotalMoves ==
    ASSUME NEW S, IsFiniteSet(S), NEW f \in [S -> Int], NEW l \in S, NEW d \in Int,
           NEW h \in [S -> Int], h[l] = f[l] + d, \A k \in S \ {l} : h[k] = f[k]
    PROVE  Total(f) \in Int /\ Total(h) = Total(f) + d
<1>1. DOMAIN f = S /\ DOMAIN h = S
  OBVIOUS
<1>2. SumsOn(Sums(f), f, SUBSET S) /\ SumsOn(Sums(h), h, SUBSET S)
  BY <1>1, SumsDef
<1> DEFINE P == {s \in SUBSET S : /\ Sums(f)[s] \in Int
                                  /\ Sums(h)[s] = Sums(f)[s] + (IF l \in s THEN d ELSE 0)}
<1>3. {} \in P
  <2>1. {} \in SUBSET S
    OBVIOUS
  <2>2. Sums(f)[{}] = 0 /\ Sums(h)[{}] = 0
    BY <1>2, <2>1 DEF SumsOn
  <2> QED BY <2>1, <2>2
<1>4. ASSUME NEW s \in SUBSET S, s # {}, s \ {AnyOf(s)} \in P PROVE s \in P
  <2>1. PICK x \in s : x = AnyOf(s)
    BY <1>4, WithoutAny
  <2>2. /\ Sums(f)[s] = f[x] + Sums(f)[s \ {x}]
        /\ Sums(h)[s] = h[x] + Sums(h)[s \ {x}]
    BY <1>2, <1>4, <2>1 DEF SumsOn
  <2>3. /\ Sums(f)[s \ {x}] \in Int
        /\ Sums(h)[s \ {x}] = Sums(f)[s \ {x}] + (IF l \in s \ {x} THEN d ELSE 0)
    BY <1>4, <2>1
  <2>4. f[x] \in Int /\ h[x] = IF x = l THEN f[x] + d ELSE f[x]
    BY <2>1
  <2> QED BY <2>1, <2>2, <2>3, <2>4
<1>5. S \in P
  <2> HIDE DEF P
  <2> QED BY <1>3, <1>4, SubsetsOneByOne
<1> QED BY <1>1, <1>5, TotalIsSum

-----------------------------------------------------------------------------
(* Packets taken by the queues, and where they are *)

Metrics == [tx : [Links -> Nat], dropped : Nat, blocked : Nat]
Lengths(q) == [l \in Links |-> Len(q[l])]
Held(x) == IF x = NoPacket THEN 0 ELSE 1
Booked == Total(metrics.tx) + metrics.dropped + metrics.blocked

\* The packets that were published, whether the queue took them or not.
Offered == Total(Lengths(published)) + Cardinality(cut)

\* Every packet that was published is in one place; the tasks hold packets.
BookInv ==
    /\ notifying \in {NoPacket} \cup [packet : Packets, left : Nat \ {0}]
    /\ metrics \in Metrics
    /\ IsFiniteSet(cut)
    /\ EveryPacketCounted

\* Where every link has nothing, all of them together do.
LEMMA TotalOfNothing ==
    ASSUME NEW S, IsFiniteSet(S)
    PROVE  Total([l \in S |-> 0]) = 0
<1>1. PICK f : f = [l \in S |-> 0]
  OBVIOUS
<1>2. DOMAIN f = S /\ SumsOn(Sums(f), f, SUBSET S)
  BY <1>1, SumsDef
<1> DEFINE P == {s \in SUBSET S : Sums(f)[s] = 0}
<1>3. {} \in P
  <2>1. {} \in SUBSET S
    OBVIOUS
  <2> QED BY <1>2, <2>1 DEF SumsOn
<1>4. ASSUME NEW s \in SUBSET S, s # {}, s \ {AnyOf(s)} \in P PROVE s \in P
  <2>1. AnyOf(s) \in S
    BY <1>4, WithoutAny
  <2>2. Sums(f)[s] = f[AnyOf(s)] + Sums(f)[s \ {AnyOf(s)}]
    BY <1>2, <1>4 DEF SumsOn
  <2> QED BY <1>1, <1>4, <2>1, <2>2
<1>5. S \in P
  <2> HIDE DEF P
  <2> QED BY <1>3, <1>4, SubsetsOneByOne
<1> QED BY <1>1, <1>2, <1>5, TotalIsSum

\* Lengths that add up stay numbers that add up.
LEMMA TotalIsInt ==
    ASSUME NEW S, IsFiniteSet(S), NEW f \in [S -> Int]
    PROVE  Total(f) \in Int
<1>1. CASE S = {}
  <2>1. DOMAIN f = {} /\ {} \in SUBSET {}
    BY <1>1
  <2>2. SumsOn(Sums(f), f, SUBSET {})
    BY <2>1, SumsDef, FS_EmptySet
  <2>3. Sums(f)[{}] = 0
    BY <2>1, <2>2 DEF SumsOn
  <2> QED BY <2>1, <2>3, TotalIsSum
<1>2. CASE S # {}
  <2>1. PICK l \in S : TRUE
    BY <1>2
  <2>2. f[l] = f[l] + 0 /\ \A k \in S \ {l} : f[k] = f[k]
    OBVIOUS
  <2> QED BY <2>2, TotalMoves, 0 \in Int
<1> QED BY <1>1, <1>2

\* Sums over the links are finite.
LEMMA LinksFinite == IsFiniteSet(Links) /\ Links # {}
BY PipelineAssumption, FirmwareAssumption

\* The queues of all links, whose packets matter no more than their number.
Queues == [Links -> Seq(Packets)]

\* How many there are in each queue is a number, none of them negative.
LEMMA LengthsType ==
    ASSUME NEW q \in Queues
    PROVE  Lengths(q) \in [Links -> Int] /\ \A l \in Links : Lengths(q)[l] >= 0
BY LenProperties DEF Lengths, Queues

\* One queue of many gets longer or shorter, and so do all of them together.
LEMMA LengthsMove ==
    ASSUME NEW q \in Queues, NEW p \in Queues, NEW l \in Links, NEW d \in Int,
           Lengths(p)[l] = Lengths(q)[l] + d,
           \A k \in Links \ {l} : Lengths(p)[k] = Lengths(q)[k]
    PROVE  /\ Total(Lengths(q)) \in Int
           /\ Total(Lengths(p)) = Total(Lengths(q)) + d
<1>1. Lengths(q) \in [Links -> Int] /\ Lengths(p) \in [Links -> Int]
  BY LengthsType
<1>2. IsFiniteSet(Links)
  BY LinksFinite
<1> QED BY <1>1, <1>2, TotalMoves

\* The two hands of the tasks.
LEMMA InHandIs ==
    ASSUME NEW n, NEW w
    PROVE  Cardinality({h \in {<<1, n>>, <<2, w>>} : h[2] # NoPacket}) = Held(n) + Held(w)
<1>1. PICK H : H = {h \in {<<1, n>>, <<2, w>>} : h[2] # NoPacket}
  OBVIOUS
<1>6. /\ Cardinality({<<1, n>>}) = 1 /\ IsFiniteSet({<<1, n>>})
      /\ Cardinality({<<2, w>>}) = 1
  BY FS_Singleton
<1>2. CASE n = NoPacket /\ w = NoPacket
  <2>1. H = {}
    BY <1>1, <1>2
  <2> QED BY <1>1, <1>2, <2>1, FS_EmptySet DEF Held
<1>3. CASE n # NoPacket /\ w = NoPacket
  <2>1. H = {<<1, n>>}
    BY <1>1, <1>3
  <2> QED BY <1>1, <1>3, <1>6, <2>1 DEF Held
<1>4. CASE n = NoPacket /\ w # NoPacket
  <2>1. H = {<<2, w>>}
    BY <1>1, <1>4
  <2> QED BY <1>1, <1>4, <1>6, <2>1 DEF Held
<1>5. CASE n # NoPacket /\ w # NoPacket
  <2>1. H = {<<1, n>>} \cup {<<2, w>>} /\ <<2, w>> \notin {<<1, n>>}
    BY <1>1, <1>5
  <2>2. Cardinality(H) = Cardinality({<<1, n>>}) + 1
    BY <1>6, <2>1, FS_AddElement
  <2> QED BY <1>1, <1>5, <1>6, <2>2 DEF Held
<1> QED BY <1>2, <1>3, <1>4, <1>5

\* A metric counts one packet.
LEMMA CountOne ==
    ASSUME metrics \in Metrics, NEW l \in Links, NEW ok \in BOOLEAN,
           metrics' = Count(l, ok)
    PROVE  metrics' \in Metrics /\ Booked \in Int /\ Booked' = Booked + 1
<1>1. /\ metrics.tx \in [Links -> Int] /\ metrics.tx \in [Links -> Nat]
      /\ metrics.dropped \in Nat /\ metrics.blocked \in Nat
  BY DEF Metrics
<1>2. Total(metrics.tx) \in Int
  BY <1>1, LinksFinite, TotalIsInt
<1>3. CASE ok
  <2>1. metrics' = [metrics EXCEPT !.tx = [metrics.tx EXCEPT ![l] = metrics.tx[l] + 1]]
    BY <1>3 DEF Count, Metrics
  <2>2. /\ metrics' \in Metrics /\ metrics'.tx = [metrics.tx EXCEPT ![l] = @ + 1]
        /\ metrics'.dropped = metrics.dropped /\ metrics'.blocked = metrics.blocked
    BY <1>1, <2>1 DEF Metrics
  <2>3. Total(metrics'.tx) = Total(metrics.tx) + 1
    BY <1>1, <2>2, LinksFinite, TotalMoves, 1 \in Int
  <2> QED BY <1>1, <1>2, <2>2, <2>3 DEF Booked
<1>4. CASE ~ok
  <2>1. metrics' = [metrics EXCEPT !.dropped = metrics.dropped + 1]
    BY <1>4 DEF Count, DropCounted
  <2>2. /\ metrics' \in Metrics /\ metrics'.tx = metrics.tx
        /\ metrics'.dropped = metrics.dropped + 1 /\ metrics'.blocked = metrics.blocked
    BY <1>1, <2>1 DEF Metrics
  <2> QED BY <1>1, <1>2, <2>2 DEF Booked
<1> QED BY <1>3, <1>4

\* So does the count of the packets that the policy blocked.
LEMMA BlockOne ==
    ASSUME metrics \in Metrics, metrics' = [metrics EXCEPT !.blocked = @ + 1]
    PROVE  metrics' \in Metrics /\ Booked \in Int /\ Booked' = Booked + 1
<1>1. /\ metrics.tx \in [Links -> Int] /\ metrics.dropped \in Nat /\ metrics.blocked \in Nat
  BY DEF Metrics
<1>2. Total(metrics.tx) \in Int
  BY <1>1, LinksFinite, TotalIsInt
<1>3. /\ metrics' \in Metrics /\ metrics'.tx = metrics.tx
      /\ metrics'.blocked = metrics.blocked + 1 /\ metrics'.dropped = metrics.dropped
  BY <1>1 DEF Metrics
<1> QED BY <1>1, <1>2, <1>3 DEF Booked

\* The metrics add up.
LEMMA BookedIsInt == ASSUME metrics \in Metrics PROVE Booked \in Int
<1>1. /\ metrics.tx \in [Links -> Int] /\ metrics.dropped \in Nat /\ metrics.blocked \in Nat
  BY DEF Metrics
<1>2. Total(metrics.tx) \in Int
  BY <1>1, LinksFinite, TotalIsInt
<1> QED BY <1>1, <1>2 DEF Booked

\* So does what was published; it changes with the queues' history and with
\* what was given up.
LEMMA OfferedIsInt ==
    ASSUME published \in Queues, IsFiniteSet(cut)
    PROVE  /\ Offered \in Int /\ Total(Lengths(published)) \in Int /\ Cardinality(cut) \in Int
           /\ UNCHANGED <<published, cut>> => Offered' = Offered
<1>1. Total(Lengths(published)) \in Int
  BY LengthsType, LinksFinite, TotalIsInt
<1>2. Cardinality(cut) \in Nat
  BY FS_CardinalityType
<1>3. UNCHANGED <<published, cut>> => Offered' = Offered
  BY DEF Offered
<1> QED BY <1>1, <1>2, <1>3 DEF Offered

\* What is said, before and after a step, in the terms of the lemmas.
LEMMA CountedIs ==
    /\ EveryPacketCounted <=>
         /\ \A l \in Links : Lengths(queue)[l] <= QueueDepth
         /\ Offered = Total(Lengths(queue)) + (Held(notifying) + Held(writing))
                                        + Total(metrics.tx) + metrics.dropped + metrics.blocked
    /\ EveryPacketCounted' <=>
         /\ \A l \in Links : Lengths(queue')[l] <= QueueDepth
         /\ Offered' = Total(Lengths(queue')) + (Held(notifying') + Held(writing'))
                                         + Total(metrics'.tx) + metrics'.dropped + metrics'.blocked
<1>1. InHand = Held(notifying) + Held(writing) /\ InHand' = Held(notifying') + Held(writing')
  BY InHandIs DEF InHand
<1> QED BY <1>1 DEF EveryPacketCounted, Offered, Lengths

-----------------------------------------------------------------------------
\* What comes in is what is in the queues, in hand, or in a metric: a step may
\* add d packets to the queues and e to the hands and the metrics.
LEMMA Balanced ==
    ASSUME BookInv, metrics' \in Metrics, \A l \in Links : Lengths(queue')[l] <= QueueDepth,
           NEW d \in Int, NEW e \in Int, Total(Lengths(queue)) \in Int,
           Offered \in Int, Offered' = Offered + (d + e),
           Total(Lengths(queue')) = Total(Lengths(queue)) + d,
           Held(notifying') + Held(writing') + Booked' = Held(notifying) + Held(writing) + Booked + e
    PROVE  EveryPacketCounted'
<1>1. /\ Held(notifying) \in Int /\ Held(writing) \in Int
      /\ Held(notifying') \in Int /\ Held(writing') \in Int
  BY DEF Held
<1>2. /\ metrics.dropped \in Int /\ metrics.blocked \in Int /\ Total(metrics.tx) \in Int
      /\ metrics'.dropped \in Int /\ metrics'.blocked \in Int /\ Total(metrics'.tx) \in Int
  <2>1. /\ metrics.tx \in [Links -> Int] /\ metrics'.tx \in [Links -> Int]
        /\ metrics.dropped \in Int /\ metrics.blocked \in Int
        /\ metrics'.dropped \in Int /\ metrics'.blocked \in Int
    BY DEF BookInv, Metrics
  <2> QED BY <2>1, LinksFinite, TotalIsInt
<1>3. Offered = Total(Lengths(queue)) + (Held(notifying) + Held(writing))
                                  + Total(metrics.tx) + metrics.dropped + metrics.blocked
  BY CountedIs DEF BookInv
<1>4. /\ Booked = Total(metrics.tx) + metrics.dropped + metrics.blocked
      /\ Booked' = Total(metrics'.tx) + metrics'.dropped + metrics'.blocked
  BY DEF Booked
<1>5. Offered' = Total(Lengths(queue')) + (Held(notifying') + Held(writing'))
                                   + Total(metrics'.tx) + metrics'.dropped + metrics'.blocked
  BY <1>1, <1>2, <1>3, <1>4
<1> QED BY <1>5, CountedIs

\* A task takes a packet from a queue, into its hands or into a metric.
LEMMA TakenFromQueue ==
    ASSUME BookInv, metrics' \in Metrics, published' = published, cut' = cut,
           NEW l \in Links, queue \in Queues, queue' \in Queues,
           Lengths(queue')[l] = Lengths(queue)[l] + (-1),
           \A k \in Links \ {l} : Lengths(queue')[k] = Lengths(queue)[k],
           published \in Queues,
           Held(notifying') + Held(writing') + Booked' = Held(notifying) + Held(writing) + Booked + 1
    PROVE  EveryPacketCounted'
<1>1. QueueDepth \in Int /\ \A k \in Links : Lengths(queue)[k] <= QueueDepth
  BY CountedIs, PipelineAssumption DEF BookInv
<1>2. Lengths(queue) \in [Links -> Int]
  BY LengthsType
<1>3. \A k \in Links : Lengths(queue')[k] <= QueueDepth
  BY <1>1, <1>2
<1>4. /\ Total(Lengths(queue)) \in Int
      /\ Total(Lengths(queue')) = Total(Lengths(queue)) + (-1)
  BY LengthsMove, -1 \in Int
<1>5. Offered \in Int /\ Offered' = Offered + ((-1) + 1)
  BY OfferedIsInt DEF BookInv
<1> QED BY <1>3, <1>4, <1>5, Balanced, -1 \in Int, 1 \in Int
\* The task of a link takes the head of its queue.
LEMMA DequeueShortens ==
    ASSUME NEW l \in Links, queue \in Queues, queue[l] # <<>>, Dequeue(l)
    PROVE  /\ queue' \in Queues /\ Head(queue[l]) \in Packets
           /\ Lengths(queue')[l] = Lengths(queue)[l] + (-1)
           /\ \A k \in Links \ {l} : Lengths(queue')[k] = Lengths(queue)[k]
<1>1. queue' = [queue EXCEPT ![l] = Tail(queue[l])] /\ queue[l] \in Seq(Packets)
  BY DEF Dequeue, Queues
<1>2. /\ Tail(queue[l]) \in Seq(Packets) /\ Head(queue[l]) \in Packets
      /\ Len(Tail(queue[l])) = Len(queue[l]) - 1 /\ Len(queue[l]) \in Nat
  BY <1>1, HeadTailProperties, LenProperties
<1>3. Len(queue'[l]) = Len(queue[l]) + (-1) /\ \A k \in Links \ {l} : queue'[k] = queue[k]
  BY <1>1, <1>2 DEF Queues
<1> QED BY <1>1, <1>2, <1>3 DEF Queues, Lengths

\* A queue with room takes a packet, and the history does.
LEMMA EmitLengthens ==
    ASSUME PipelineInv, queue \in Queues, NEW t \in Tasks, Emit(t), NEW l, l = call[t].link
    PROVE  /\ l \in Links /\ queue' \in Queues /\ published \in Queues /\ published' \in Queues
           /\ Lengths(queue)[l] < QueueDepth
           /\ Lengths(queue')[l] = Lengths(queue)[l] + 1
           /\ \A k \in Links \ {l} : Lengths(queue')[k] = Lengths(queue)[k]
           /\ Lengths(published')[l] = Lengths(published)[l] + 1
           /\ \A k \in Links \ {l} : Lengths(published')[k] = Lengths(published)[k]
<1>1. /\ l \in Links /\ Fragment(t) \in Packets
      /\ published' = [published EXCEPT ![l] = Append(published[l], Fragment(t))]
  BY EmitEffect DEF Fragments
<1>2. queue' = [queue EXCEPT ![l] = Append(queue[l], Fragment(t))] /\ Len(queue[l]) < QueueDepth
  BY DEF Emit, HasRoom
<1>3. published \in [Links -> Seq(Packets)] /\ queue \in [Links -> Seq(Packets)]
  BY DEF PipelineInv, PipelineType, Fragments, Queues
<1>4. /\ Append(queue[l], Fragment(t)) \in Seq(Packets)
      /\ Len(Append(queue[l], Fragment(t))) = Len(queue[l]) + 1
      /\ Append(published[l], Fragment(t)) \in Seq(Packets)
      /\ Len(Append(published[l], Fragment(t))) = Len(published[l]) + 1
  BY <1>1, <1>3, AppendProperties
<1>5. /\ Len(queue'[l]) = Len(queue[l]) + 1 /\ \A k \in Links \ {l} : queue'[k] = queue[k]
      /\ Len(published'[l]) = Len(published[l]) + 1
      /\ \A k \in Links \ {l} : published'[k] = published[k]
  BY <1>1, <1>2, <1>3, <1>4
<1>6. queue' \in Queues /\ published' \in Queues /\ published \in Queues
  BY <1>1, <1>2, <1>3, <1>4 DEF Queues
<1> QED BY <1>1, <1>2, <1>5, <1>6 DEF Lengths

\* A queue takes a packet: it is in the queue.
LEMMA EmitCounted ==
    ASSUME PipelineInv, BookInv, queue \in Queues, NEW t \in Tasks, Emit(t),
           UNCHANGED <<notifying, writing>>
    PROVE  metrics' = metrics /\ cut' = cut /\ EveryPacketCounted'
<1>1. PICK l \in Links :
         /\ queue' \in Queues /\ published \in Queues /\ published' \in Queues
         /\ Lengths(queue)[l] < QueueDepth
         /\ Lengths(queue')[l] = Lengths(queue)[l] + 1
         /\ \A k \in Links \ {l} : Lengths(queue')[k] = Lengths(queue)[k]
         /\ Lengths(published')[l] = Lengths(published)[l] + 1
         /\ \A k \in Links \ {l} : Lengths(published')[k] = Lengths(published)[k]
  BY EmitLengthens
<1>2. QueueDepth \in Int /\ \A k \in Links : Lengths(queue)[k] <= QueueDepth
  BY CountedIs, PipelineAssumption DEF BookInv
<1>3. Lengths(queue) \in [Links -> Int]
  BY LengthsType
<1>4. \A k \in Links : Lengths(queue')[k] <= QueueDepth
  BY <1>1, <1>2, <1>3
<1>5. /\ Total(Lengths(queue)) \in Int
      /\ Total(Lengths(queue')) = Total(Lengths(queue)) + 1
  BY <1>1, LengthsMove, 1 \in Int
<1>6. Offered \in Int /\ Offered' = Offered + (1 + 0)
  <2>1. Total(Lengths(published')) = Total(Lengths(published)) + 1
    BY <1>1, LengthsMove, 1 \in Int
  <2>2. cut' = cut
    BY DEF Emit
  <2> QED BY <1>1, <2>1, <2>2, OfferedIsInt DEF BookInv, Offered
<1>9. metrics' = metrics /\ cut' = cut
  BY DEF Emit
<1>7. Booked' = Booked /\ Booked \in Int /\ metrics' \in Metrics
  <2>1. Booked' = Booked
    BY <1>9 DEF Booked
  <2> QED BY <1>9, <2>1, BookedIsInt DEF BookInv
<1>8. Held(notifying') + Held(writing') + Booked' = Held(notifying) + Held(writing) + Booked + 0
  BY <1>7 DEF Held
<1> QED BY <1>4, <1>5, <1>6, <1>7, <1>8, <1>9, Balanced, 0 \in Int, 1 \in Int

\* A task is done with the packet in its hands.
LEMMA HandedOn ==
    ASSUME BookInv, metrics' \in Metrics, UNCHANGED <<queue, published, cut>>,
           queue \in Queues, published \in Queues,
           Held(notifying') + Held(writing') + Booked' = Held(notifying) + Held(writing) + Booked + 0
    PROVE  EveryPacketCounted'
<1>1. \A k \in Links : Lengths(queue')[k] <= QueueDepth
  BY CountedIs DEF BookInv
<1>2. Total(Lengths(queue)) \in Int
  BY LengthsType, LinksFinite, TotalIsInt
<1>3. Offered \in Int /\ Offered' = Offered
  BY OfferedIsInt DEF BookInv
<1>4. /\ Total(Lengths(queue')) = Total(Lengths(queue)) + 0
      /\ Offered' = Offered + (0 + 0)
  BY <1>2, <1>3
<1> QED BY <1>1, <1>2, <1>3, <1>4, Balanced, 0 \in Int

-----------------------------------------------------------------------------
\* A packet more in a metric, with the hands as they were.
LEMMA OneMoreBooked ==
    ASSUME Booked \in Int, Booked' = Booked + 1, notifying' = notifying, writing' = writing
    PROVE  Held(notifying') + Held(writing') + Booked' = Held(notifying) + Held(writing) + Booked + 1
<1>1. Held(notifying) \in Int /\ Held(writing) \in Int
  BY DEF Held
<1> QED BY <1>1

\* A packet more in one of the hands.
LEMMA OneMoreHeld ==
    ASSUME Booked \in Int, Booked' = Booked,
           \/ Held(notifying) = 0 /\ Held(notifying') = 1 /\ writing' = writing
           \/ Held(writing) = 0 /\ Held(writing') = 1 /\ notifying' = notifying
    PROVE  Held(notifying') + Held(writing') + Booked' = Held(notifying) + Held(writing) + Booked + 1
<1>1. Held(notifying) \in Int /\ Held(writing) \in Int
  BY DEF Held
<1> QED BY <1>1

\* A packet out of one of the hands into a metric.
LEMMA HeldToBooked ==
    ASSUME Booked \in Int, Booked' = Booked + 1,
           \/ Held(notifying) = 1 /\ Held(notifying') = 0 /\ Held(writing') = Held(writing)
           \/ Held(writing) = 1 /\ Held(writing') = 0 /\ Held(notifying') = Held(notifying)
    PROVE  Held(notifying') + Held(writing') + Booked' = Held(notifying) + Held(writing) + Booked + 0
<1>1. Held(notifying) \in Int /\ Held(writing) \in Int
  BY DEF Held
<1> QED BY <1>1

\* What a full queue refuses is counted as dropped.
LEMMA RefusalCounted ==
    ASSUME PipelineInv, CutInv, BookInv, queue \in Queues, published \in Queues,
           NEW t \in Tasks, EmitTimesOut(t), UNCHANGED <<notifying, writing>>
    PROVE  BookInv'
<1>1. /\ metrics' = [metrics EXCEPT !.dropped = metrics.dropped + 1]
      /\ queue' = queue /\ published' = published
  BY DEF EmitTimesOut, DropCounted
<1>2. /\ metrics.tx \in [Links -> Int] /\ metrics.dropped \in Nat /\ metrics.blocked \in Nat
  BY DEF BookInv, Metrics
<1>3. /\ metrics' \in Metrics /\ metrics'.tx = metrics.tx
      /\ metrics'.dropped = metrics.dropped + 1 /\ metrics'.blocked = metrics.blocked
  BY <1>1, <1>2 DEF BookInv, Metrics
<1>4. Booked \in Int /\ Booked' = Booked + 1
  <2>1. Total(metrics.tx) \in Int
    BY <1>2, LinksFinite, TotalIsInt
  <2> QED BY <1>2, <1>3, <2>1 DEF Booked
<1>5. /\ IsFiniteSet(cut') /\ Cardinality(cut') = Cardinality(cut) + 1
      /\ Cardinality(cut) \in Int
  <2>1. IsFiniteSet(cut)
    BY DEF BookInv
  <2>2. Cardinality(cut) \in Int
    BY <2>1, FS_CardinalityType
  <2>3. PICK gone : gone = <<call[t].link, call[t].id>>
    OBVIOUS
  <2>4. gone \notin cut /\ cut' = cut \cup {gone}
    BY <2>3, EmitTimesOutCuts
  <2>5. IsFiniteSet(cut \cup {gone}) /\ Cardinality(cut \cup {gone}) = Cardinality(cut) + 1
    BY <2>1, <2>4, FS_AddElement
  <2> QED BY <2>2, <2>4, <2>5
<1>6. Total(Lengths(queue)) \in Int /\ Total(Lengths(published)) \in Int
  BY LengthsType, LinksFinite, TotalIsInt
<1>7. /\ Offered \in Int /\ Offered' = Offered + (0 + 1)
      /\ Total(Lengths(queue')) = Total(Lengths(queue)) + 0
  BY <1>1, <1>5, <1>6 DEF Offered
<1>8. Held(notifying') + Held(writing') + Booked' = Held(notifying) + Held(writing) + Booked + 1
  BY <1>4, OneMoreBooked
<1>9. \A k \in Links : Lengths(queue')[k] <= QueueDepth
  BY <1>1, CountedIs DEF BookInv
<1>10. EveryPacketCounted'
  BY <1>3, <1>6, <1>7, <1>8, <1>9, Balanced, 0 \in Int, 1 \in Int
<1> QED BY <1>3, <1>5, <1>10 DEF BookInv

\* udp_task sends or drops what it took.
LEMMA UdpCounted ==
    ASSUME PipelineInv, BookInv, queue \in Queues, published \in Queues, NEW ok \in BOOLEAN, UdpSend(ok)
    PROVE  BookInv'
<1>1. Wifi \in Links
  BY FirmwareAssumption
<1>2. /\ queue[Wifi] # <<>> /\ Dequeue(Wifi) /\ metrics' = Count(Wifi, ok)
      /\ published' = published /\ cut' = cut /\ notifying' = notifying /\ writing' = writing
  BY DEF UdpSend, OnlyQueue, history
<1>3. metrics' \in Metrics /\ Booked \in Int /\ Booked' = Booked + 1
  BY <1>1, <1>2, CountOne DEF BookInv
<1>4. /\ queue' \in Queues
      /\ Lengths(queue')[Wifi] = Lengths(queue)[Wifi] + (-1)
      /\ \A k \in Links \ {Wifi} : Lengths(queue')[k] = Lengths(queue)[k]
  BY <1>1, <1>2, DequeueShortens
<1>5. Held(notifying') + Held(writing') + Booked' = Held(notifying) + Held(writing) + Booked + 1
  BY <1>2, <1>3, OneMoreBooked
<1>6. EveryPacketCounted'
  BY <1>1, <1>2, <1>3, <1>4, <1>5, TakenFromQueue
<1> QED BY <1>2, <1>3, <1>6 DEF BookInv

\* notify_task drops what nobody can hear or what does not fit the peer.
LEMMA NotifyDropCounted ==
    ASSUME PipelineInv, BookInv, queue \in Queues, published \in Queues,
           queue[Ble] # <<>>, Dequeue(Ble), metrics' = Count(Ble, FALSE),
           published' = published, cut' = cut, notifying' = notifying, writing' = writing
    PROVE  BookInv'
<1>1. Ble \in Links
  BY FirmwareAssumption
<1>3. metrics' \in Metrics /\ Booked \in Int /\ Booked' = Booked + 1
  BY <1>1, CountOne DEF BookInv
<1>4. /\ queue' \in Queues
      /\ Lengths(queue')[Ble] = Lengths(queue)[Ble] + (-1)
      /\ \A k \in Links \ {Ble} : Lengths(queue')[k] = Lengths(queue)[k]
  BY <1>1, DequeueShortens
<1>5. Held(notifying') + Held(writing') + Booked' = Held(notifying) + Held(writing) + Booked + 1
  BY <1>3, OneMoreBooked
<1>6. EveryPacketCounted'
  BY <1>1, <1>3, <1>4, <1>5, TakenFromQueue
<1> QED BY <1>3, <1>6 DEF BookInv

\* notify_task takes a packet it will cut into notifications.
LEMMA NotifyTakeCounted ==
    ASSUME PipelineInv, BookInv, queue \in Queues, published \in Queues,
           NEW count \in Nat \ {0}, notifying = NoPacket,
           queue[Ble] # <<>>, Dequeue(Ble), metrics' = metrics, published' = published, cut' = cut,
           notifying' = [packet |-> Head(queue[Ble]), left |-> count], writing' = writing
    PROVE  BookInv'
<1>1. Ble \in Links
  BY FirmwareAssumption
<1>4. /\ queue' \in Queues /\ Head(queue[Ble]) \in Packets
      /\ Lengths(queue')[Ble] = Lengths(queue)[Ble] + (-1)
      /\ \A k \in Links \ {Ble} : Lengths(queue')[k] = Lengths(queue)[k]
  BY <1>1, DequeueShortens
<1>2. notifying' \in [packet : Packets, left : Nat \ {0}] /\ notifying' # NoPacket
  BY <1>4, FirmwareAssumption
<1>3. Booked' = Booked /\ Booked \in Int /\ metrics' \in Metrics
  <2>1. Booked' = Booked
    BY DEF Booked
  <2> QED BY <2>1, BookedIsInt DEF BookInv
<1>5. Held(notifying') + Held(writing') + Booked' = Held(notifying) + Held(writing) + Booked + 1
  <2>1. Held(notifying) = 0 /\ Held(notifying') = 1
    BY <1>2 DEF Held
  <2> QED BY <1>3, <2>1, OneMoreHeld
<1>6. EveryPacketCounted'
  BY <1>1, <1>3, <1>4, <1>5, TakenFromQueue
<1> QED BY <1>2, <1>3, <1>6 DEF BookInv

\* kiss_tx_task blocks what the policy does not let through.
LEMMA KissBlockCounted ==
    ASSUME PipelineInv, BookInv, queue \in Queues, published \in Queues, KissBlock
    PROVE  BookInv'
<1>1. Kiss \in Links
  BY FirmwareAssumption
<1>2. /\ queue[Kiss] # <<>> /\ Dequeue(Kiss) /\ metrics' = [metrics EXCEPT !.blocked = @ + 1]
      /\ published' = published /\ cut' = cut /\ notifying' = notifying /\ writing' = writing
  BY DEF KissBlock, OnlyQueue, history
<1>3. metrics' \in Metrics /\ Booked \in Int /\ Booked' = Booked + 1
  BY <1>2, BlockOne DEF BookInv
<1>4. /\ queue' \in Queues
      /\ Lengths(queue')[Kiss] = Lengths(queue)[Kiss] + (-1)
      /\ \A k \in Links \ {Kiss} : Lengths(queue')[k] = Lengths(queue)[k]
  BY <1>1, <1>2, DequeueShortens
<1>5. Held(notifying') + Held(writing') + Booked' = Held(notifying) + Held(writing) + Booked + 1
  BY <1>2, <1>3, OneMoreBooked
<1>6. EveryPacketCounted'
  BY <1>1, <1>2, <1>3, <1>4, <1>5, TakenFromQueue
<1> QED BY <1>2, <1>3, <1>6 DEF BookInv

\* kiss_tx_task takes what the policy lets through.
LEMMA KissAllowCounted ==
    ASSUME PipelineInv, BookInv, AirInv, queue \in Queues, published \in Queues, KissAllow
    PROVE  BookInv'
<1>1. Kiss \in Links
  BY FirmwareAssumption
<1>2. /\ queue[Kiss] # <<>> /\ Dequeue(Kiss) /\ metrics' = metrics /\ writing = NoPacket
      /\ published' = published /\ cut' = cut /\ notifying' = notifying
      /\ writing' = [packet |-> Head(queue[Kiss]), at |-> now]
  BY DEF KissAllow, OnlyQueue, history
<1>4. /\ queue' \in Queues /\ Head(queue[Kiss]) \in Packets
      /\ Lengths(queue')[Kiss] = Lengths(queue)[Kiss] + (-1)
      /\ \A k \in Links \ {Kiss} : Lengths(queue')[k] = Lengths(queue)[k]
  BY <1>1, <1>2, DequeueShortens
<1>7. writing' # NoPacket
  BY <1>2, <1>4, FirmwareAssumption DEF AirInv
<1>3. Booked' = Booked /\ Booked \in Int /\ metrics' \in Metrics
  <2>1. Booked' = Booked
    BY <1>2 DEF Booked
  <2> QED BY <1>2, <2>1, BookedIsInt DEF BookInv
<1>5. Held(notifying') + Held(writing') + Booked' = Held(notifying) + Held(writing) + Booked + 1
  <2>1. Held(writing) = 0 /\ Held(writing') = 1
    BY <1>2, <1>7 DEF Held
  <2> QED BY <1>2, <1>3, <2>1, OneMoreHeld
<1>6. EveryPacketCounted'
  BY <1>1, <1>2, <1>3, <1>4, <1>5, TakenFromQueue
<1> QED BY <1>2, <1>3, <1>6 DEF BookInv

\* The last notification, a failure, or a write: the packet is in a metric.
LEMMA HandsCounted ==
    ASSUME PipelineInv, BookInv, queue \in Queues, published \in Queues,
           NEW l \in Links, NEW ok \in BOOLEAN,
           metrics' = Count(l, ok), UNCHANGED <<queue, published, cut>>,
           \/ notifying # NoPacket /\ notifying' = NoPacket /\ writing' = writing
           \/ writing # NoPacket /\ writing' = NoPacket /\ notifying' = notifying
    PROVE  BookInv'
<1>3. metrics' \in Metrics /\ Booked \in Int /\ Booked' = Booked + 1
  BY CountOne DEF BookInv
<1>5. Held(notifying') + Held(writing') + Booked' = Held(notifying) + Held(writing) + Booked + 0
  <2>1. \/ Held(notifying) = 1 /\ Held(notifying') = 0 /\ Held(writing') = Held(writing)
        \/ Held(writing) = 1 /\ Held(writing') = 0 /\ Held(notifying') = Held(notifying)
    BY DEF Held
  <2> QED BY <1>3, <2>1, HeldToBooked
<1>6. EveryPacketCounted'
  BY <1>3, <1>5, HandedOn
<1> QED BY <1>3, <1>6 DEF BookInv

\* What the state of another task or of the world says nothing of.
LEMMA SameBooks ==
    BookInv /\ UNCHANGED <<queue, published, cut, notifying, writing, metrics>> => BookInv'
BY CountedIs DEF BookInv, Offered
-----------------------------------------------------------------------------
\* Every step keeps the books.
LEMMA BookStep ==
    PipelineInv /\ CutInv /\ AirInv /\ BookInv /\ [Next]_vars => BookInv'
<1> SUFFICES ASSUME PipelineInv, CutInv, AirInv, BookInv, [Next]_vars PROVE BookInv'
  OBVIOUS
<1>1. queue \in Queues /\ published \in Queues
  BY DEF AirInv, PipelineInv, PipelineType, Fragments, Queues
<1>2. {Wifi, Ble, Kiss} \subseteq Links
  BY FirmwareAssumption
<1>3. CASE PipelineNext /\ UNCHANGED <<tasks, world, s_policy>>
  <2>1. UNCHANGED <<notifying, writing>>
    BY <1>3 DEF tasks
  <2>2. CASE \E t \in Tasks : Emit(t)
    <3>1. metrics' = metrics /\ cut' = cut /\ EveryPacketCounted'
      BY <1>1, <2>1, <2>2, EmitCounted
    <3> QED BY <2>1, <3>1 DEF BookInv
  <2>3. CASE \E t \in Tasks : EmitTimesOut(t)
    BY <1>1, <2>1, <2>3, RefusalCounted
  <2>4. CASE ~ \E t \in Tasks : Emit(t) \/ EmitTimesOut(t)
    <3>1. UNCHANGED <<queue, published, cut, metrics>>
      BY <1>3, <2>4 DEF PipelineNext, Proceed, Call, Take, TakeTimesOut, NotSupported, Begin,
                        BeginRefused, Return, history
    <3> QED BY <2>1, <3>1, SameBooks
  <2> QED BY <2>2, <2>3, <2>4
<1>4. CASE UdpTask
  <2>1. CASE \E ok \in BOOLEAN : UdpSend(ok)
    BY <1>1, <2>1, UdpCounted
  <2>2. CASE UdpReady \/ UdpNothing
    <3>1. UNCHANGED <<queue, published, cut, notifying, writing, metrics>>
      BY <2>2 DEF UdpReady, UdpNothing, pipelineVars, history
    <3> QED BY <3>1, SameBooks
  <2> QED BY <1>4, <2>1, <2>2 DEF UdpTask
<1>5. CASE NotifyTask
  <2>1. CASE NotifyUnreachable
    <3>1. /\ queue[Ble] # <<>> /\ Dequeue(Ble) /\ metrics' = Count(Ble, FALSE)
          /\ published' = published /\ cut' = cut /\ notifying' = notifying /\ writing' = writing
      BY <2>1 DEF NotifyUnreachable, OnlyQueue, history
    <3> QED BY <1>1, <3>1, NotifyDropCounted
  <2>2. CASE Notify
    <3>1. /\ notifying # NoPacket /\ UNCHANGED <<queue, published, cut, writing>>
      BY <2>2 DEF Notify, pipelineVars, history
    <3>2. CASE notifying.left = 1
      <4>1. notifying' = NoPacket /\ metrics' = Count(Ble, TRUE)
        BY <2>2, <3>2 DEF Notify
      <4> QED BY <1>1, <1>2, <3>1, <4>1, HandsCounted
    <3>3. CASE notifying.left # 1
      <4>1. notifying' = [notifying EXCEPT !.left = notifying.left - 1] /\ metrics' = metrics
        BY <2>2, <3>3 DEF Notify
      <4>2. notifying \in [packet : Packets, left : Nat \ {0}]
        BY <3>1 DEF BookInv
      <4>3. notifying' \in [packet : Packets, left : Nat \ {0}]
        BY <3>3, <4>1, <4>2
      <4>4. notifying' # NoPacket
        BY <4>3, FirmwareAssumption
      <4>5. Held(notifying') = Held(notifying) /\ Held(writing') = Held(writing)
        BY <3>1, <4>4 DEF Held
      <4>6. EveryPacketCounted'
        BY <3>1, <4>1, <4>5, CountedIs DEF BookInv, Offered
      <4>7. metrics' \in Metrics /\ IsFiniteSet(cut')
        BY <3>1, <4>1 DEF BookInv
      <4> QED BY <4>3, <4>6, <4>7 DEF BookInv
    <3> QED BY <3>2, <3>3
  <2>3. CASE NotifyFails
    <3>1. /\ notifying # NoPacket /\ notifying' = NoPacket /\ metrics' = Count(Ble, FALSE)
          /\ UNCHANGED <<queue, published, cut, writing>>
      BY <2>3 DEF NotifyFails, pipelineVars, history
    <3> QED BY <1>1, <1>2, <3>1, HandsCounted
  <2>4. CASE \E count \in Notifications : NotifyBegin(count)
    <3>1. PICK count \in Notifications : NotifyBegin(count)
      BY <2>4
    <3>2. /\ notifying = NoPacket /\ queue[Ble] # <<>> /\ Dequeue(Ble)
          /\ published' = published /\ cut' = cut /\ writing' = writing /\ count \in Nat
      BY <3>1, FirmwareAssumption DEF NotifyBegin, OnlyQueue, history
    <3>3. CASE count = 0
      <4>1. metrics' = Count(Ble, FALSE) /\ notifying' = notifying
        BY <3>1, <3>2, <3>3 DEF NotifyBegin
      <4> QED BY <1>1, <3>2, <4>1, NotifyDropCounted
    <3>4. CASE count # 0
      <4>1. metrics' = metrics /\ notifying' = [packet |-> Head(queue[Ble]), left |-> count]
        BY <3>1, <3>4 DEF NotifyBegin
      <4> QED BY <1>1, <3>2, <3>4, <4>1, NotifyTakeCounted
    <3> QED BY <3>3, <3>4
  <2> QED BY <1>5, <2>1, <2>2, <2>3, <2>4 DEF NotifyTask
<1>6. CASE KissTask
  <2>1. CASE KissWrite
    <3>1. /\ writing # NoPacket /\ writing' = NoPacket /\ metrics' = Count(Kiss, TRUE)
          /\ UNCHANGED <<queue, published, cut, notifying>>
      BY <2>1 DEF KissWrite, pipelineVars, history
    <3> QED BY <1>1, <1>2, <3>1, HandsCounted
  <2> QED BY <1>1, <1>6, <2>1, KissBlockCounted, KissAllowCounted DEF KissTask
<1>7. CASE World \/ UNCHANGED vars
  <2>1. UNCHANGED <<queue, published, cut, notifying, writing, metrics>>
    BY <1>7 DEF World, vars, pipelineVars, history, tasks
  <2> QED BY <2>1, SameBooks
<1> QED BY <1>3, <1>4, <1>5, <1>6, <1>7 DEF Next

\* Every packet that was published is in a queue, in the hands of its task or
\* counted once, as sent, dropped or blocked, and no queue grows beyond its
\* depth: for any number of applications, links and packets, whatever the links
\* and the peers do.
THEOREM EveryPacketAlwaysCounted ==
    Spec => []EveryPacketCounted
<1>1. Init => BookInv
  <2> SUFFICES ASSUME Init PROVE BookInv
    OBVIOUS
  <2>1. /\ notifying = NoPacket /\ writing = NoPacket
        /\ queue = [l \in Links |-> <<>>] /\ published = queue /\ cut = {}
        /\ metrics = [tx |-> [l \in Links |-> 0], dropped |-> 0, blocked |-> 0]
    BY DEF Init, PipelineInit
  <2>2. metrics \in Metrics /\ metrics.tx = [l \in Links |-> 0]
        /\ metrics.dropped = 0 /\ metrics.blocked = 0
    BY <2>1 DEF Metrics
  <2>3. Total(metrics.tx) = 0
    BY <2>2, LinksFinite, TotalOfNothing
  <2>4. queue \in Queues /\ Lengths(queue) = [l \in Links |-> 0]
    BY <2>1, EmptySeq DEF Queues, Lengths
  <2>5. Total(Lengths(queue)) = 0 /\ Total(Lengths(published)) = 0
    BY <2>1, <2>4, LinksFinite, TotalOfNothing
  <2>6. \A l \in Links : Lengths(queue)[l] <= QueueDepth
    BY <2>4, PipelineAssumption
  <2>7. Held(notifying) = 0 /\ Held(writing) = 0
    BY <2>1 DEF Held
  <2>8. IsFiniteSet(cut) /\ Cardinality(cut) = 0
    BY <2>1, FS_EmptySet
  <2>9. EveryPacketCounted
    BY <2>2, <2>3, <2>5, <2>6, <2>7, <2>8, CountedIs DEF Offered
  <2> QED BY <2>1, <2>2, <2>8, <2>9 DEF BookInv
<1>2. BookInv => EveryPacketCounted
  BY DEF BookInv
<1> QED BY <1>1, <1>2, BookStep, PipelineAlways, CutAlways, AirAlways, PTL DEF Spec
=============================================================================
