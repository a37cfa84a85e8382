------------------------- MODULE SerialWindow_proofs ------------------------
(***************************************************************************)
(* Lemmas about sequence numbers that wrap and about the replay window,    *)
(* for every size of the two.  The links count messages, the wire carries  *)
(* the count modulo SeqModulus; the two are related by congruence.  What   *)
(* makes the proofs about a window work is a number t: the message that    *)
(* the window's `highest` stands for.                                      *)
(***************************************************************************)
EXTENDS SerialWindow, TLAPS

Multiples == {SeqModulus * k : k \in Int}

Cong(a, b) == a - b \in Multiples

\* The number space is not empty and, being even, has at least two numbers.
LEMMA ModulusPositive == SeqModulus \in Nat /\ SeqModulus >= 2
BY SerialAssumption

\* The two multiples of SeqModulus that the others are built from.
LEMMA TrivialMultiples == 0 \in Multiples /\ SeqModulus \in Multiples
<1>1. 0 = SeqModulus * 0 /\ SeqModulus = SeqModulus * 1
    BY ModulusPositive
<1>2. \A n \in Int : SeqModulus * n \in Multiples
    BY DEF Multiples
<1> QED
    BY <1>1, <1>2

\* The multiples of SeqModulus are closed under sum and difference and none
\* lies strictly between -SeqModulus and SeqModulus but zero.
LEMMA MultiplesClosed ==
    ASSUME NEW x \in Multiples, NEW y \in Multiples
    PROVE  /\ x \in Int
           /\ x + y \in Multiples /\ x - y \in Multiples
<1>1. PICK j \in Int : x = SeqModulus * j
    BY DEF Multiples
<1>2. PICK k \in Int : y = SeqModulus * k
    BY DEF Multiples
<1>3. x + y = SeqModulus * (j + k) /\ x - y = SeqModulus * (j - k)
    BY <1>1, <1>2, ModulusPositive
<1>5. \A n \in Int : SeqModulus * n \in Multiples
    BY DEF Multiples
<1>6. j + k \in Int /\ j - k \in Int
    OBVIOUS
<1>7. x \in Int
    BY <1>1, ModulusPositive
<1>9. x + y \in Multiples /\ x - y \in Multiples
    BY <1>3, <1>5, <1>6
<1> QED
    BY <1>7, <1>9

\* A multiple of SeqModulus that is not zero is at least SeqModulus away from it.
LEMMA MultiplesSparse ==
    ASSUME NEW x \in Multiples
    PROVE  x >= SeqModulus \/ x = 0 \/ x <= -SeqModulus
<1>1. PICK k \in Int : x = SeqModulus * k
    BY DEF Multiples
<1>2. CASE k >= 1
    BY <1>1, <1>2, ModulusPositive
<1>3. CASE k = 0
    BY <1>1, <1>3, ModulusPositive
<1>4. CASE k <= -1
    BY <1>1, <1>4, ModulusPositive
<1> QED
    BY <1>2, <1>3, <1>4

\* Two sequence numbers congruent to each other are the same one.
LEMMA SerialUnique ==
    ASSUME NEW a \in Serials, NEW b \in Serials, Cong(a, b)
    PROVE  a = b
BY MultiplesSparse, ModulusPositive DEF Serials, Cong

\* Congruence of integers modulo SeqModulus is symmetric.
LEMMA CongSymmetric ==
    ASSUME NEW a \in Int, NEW b \in Int, Cong(a, b)
    PROVE  Cong(b, a)
<1>1. 0 - (a - b) \in Multiples
    BY TrivialMultiples, MultiplesClosed DEF Cong
<1> QED
    BY <1>1 DEF Cong

\* Congruence of integers modulo SeqModulus is transitive.
LEMMA CongTransitive ==
    ASSUME NEW a \in Int, NEW b \in Int, NEW c \in Int, Cong(a, b), Cong(b, c)
    PROVE  Cong(a, c)
<1>1. (a - b) + (b - c) \in Multiples
    BY MultiplesClosed DEF Cong
<1> QED
    BY <1>1 DEF Cong

\* u16 subtraction is subtraction modulo SeqModulus.
LEMMA SubCong ==
    ASSUME NEW a \in Serials, NEW b \in Serials
    PROVE  /\ WrappingSub(a, b) \in Serials
           /\ Cong(WrappingSub(a, b), a - b)
<1>1. 0 \in Multiples /\ SeqModulus \in Multiples
    BY TrivialMultiples
<1>2. WrappingSub(a, b) \in Serials
    BY ModulusPositive DEF WrappingSub, Serials
<1>3. WrappingSub(a, b) - (a - b) = 0 \/ WrappingSub(a, b) - (a - b) = SeqModulus
    BY ModulusPositive DEF WrappingSub, Serials
<1> QED
    BY <1>1, <1>2, <1>3 DEF Cong

\* wrapping_add(1) keeps a sequence number congruent to its message.
LEMMA IncCong ==
    ASSUME NEW a \in Serials, NEW i \in Int, Cong(i, a)
    PROVE  WrappingInc(a) \in Serials /\ Cong(i + 1, WrappingInc(a))
<1>1. (i - a) + SeqModulus \in Multiples /\ i - a \in Multiples
    BY TrivialMultiples, MultiplesClosed DEF Cong
<1>2. WrappingInc(a) \in Serials
    BY ModulusPositive DEF WrappingInc, Serials
<1>3. \/ i + 1 - WrappingInc(a) = i - a
      \/ i + 1 - WrappingInc(a) = (i - a) + SeqModulus
    BY ModulusPositive DEF WrappingInc, Serials
<1>4. i + 1 - WrappingInc(a) \in Multiples
    BY <1>1, <1>2, <1>3 DEF Serials
<1>5. WrappingInc(a) \in Int
    BY <1>2 DEF Serials
<1> QED
    BY <1>2, <1>4, <1>5 DEF Cong

\* Distances on the wire are distances between messages, as far as they are
\* shorter than the number space.
LEMMA SubIsDistance ==
    ASSUME NEW a \in Serials, NEW b \in Serials, NEW i \in Int, NEW j \in Int,
           Cong(i, a), Cong(j, b), j <= i, i - j < SeqModulus
    PROVE  WrappingSub(a, b) = i - j
<1>1. Cong(WrappingSub(a, b), a - b) /\ WrappingSub(a, b) \in Serials
    BY SubCong
<1>2. (i - a) - (j - b) \in Multiples
    BY MultiplesClosed DEF Cong
<1>3. Cong(a - b, i - j)
    <2>1. Cong(i - j, a - b)
        <3>1. (i - j) - (a - b) = (i - a) - (j - b)
            BY DEF Serials
        <3> QED
            BY <3>1, <1>2 DEF Cong
    <2> QED
        BY <2>1, CongSymmetric DEF Serials
<1>4. Cong(WrappingSub(a, b), i - j)
    BY <1>1, <1>3, CongTransitive DEF Serials
<1>5. i - j \in Serials
    BY ModulusPositive DEF Serials
<1> QED
    BY <1>1, <1>4, <1>5, SerialUnique

-----------------------------------------------------------------------------
\* t is the number of the message that `highest` stands for, and every message
\* in D that the window still covers is among the committed ones.
Covers(w, t, D) ==
    /\ t \in Int /\ Cong(t, w.highest)
    /\ \A d \in D : /\ d <= t
                    /\ t - d < WindowSize => \E x \in w.seen : Cong(x, d)

\* Committing message i, whose sequence number the window accepts, shows that
\* i was not committed before and leaves a window that covers it.
LEMMA CommitCovers ==
    ASSUME NEW w \in Windows, w.initialized, NEW D \in SUBSET Int,
           NEW t \in Int, NEW a \in Int, NEW i \in Int, NEW s \in Serials,
           NEW lag \in Nat, WindowSize + lag <= HalfRange + 1,
           Covers(w, t, D), t < a + WindowSize,
           Cong(i, s), a - lag <= i, i <= a,
           Classify(w, s) = "Accept"
    PROVE  /\ i \notin D
           /\ \E u \in Int : u < a + WindowSize /\ Covers(Commit(w, s), u, D \cup {i})
<1> DEFINE forward == WrappingSub(s, w.highest)
           behind  == WrappingSub(w.highest, s)
           next    == Commit(w, s)
<1>1. /\ SeqModulus \in Nat /\ HalfRange \in Nat /\ WindowSize \in Nat
      /\ WindowSize >= 1 /\ SeqModulus = HalfRange + HalfRange
      /\ WindowSize <= HalfRange /\ lag \in Nat /\ WindowSize + lag <= HalfRange + 1
    BY SerialAssumption
<1>2. /\ w.highest \in Serials /\ w.seen \subseteq Serials
      /\ Cong(t, w.highest) /\ w.highest \in Int /\ s \in Int
    BY <1>1 DEF Windows, Covers, Serials
<1>3. forward \in Serials /\ behind \in Serials
    BY <1>2, SubCong
<1>4. ASSUME i <= t
      PROVE  /\ behind = t - i
             /\ ~(forward \in 1 .. HalfRange - 1)
    <2>1. t - i < SeqModulus
        BY <1>1
    <2>2. behind = t - i
        BY <1>2, <2>1, <1>4, SubIsDistance
    <2>3. forward = IF behind = 0 THEN 0 ELSE SeqModulus - behind
        BY <1>1, <1>2 DEF WrappingSub, Serials
    <2> QED
        BY <1>1, <1>4, <2>2, <2>3
<1>5. CASE i <= t
    <2>1. behind < WindowSize /\ s \notin w.seen
        BY <1>1, <1>3, <1>4, <1>5 DEF Classify, Serials
    <2>2. i \notin D
        <3>1. SUFFICES ASSUME i \in D PROVE FALSE
            OBVIOUS
        <3>2. PICK x \in w.seen : Cong(x, i)
            BY <2>1, <1>4, <1>5, <3>1 DEF Covers
        <3>3. Cong(x, s)
            BY <1>2, <3>2, CongTransitive DEF Serials
        <3> QED
            BY <1>2, <2>1, <3>3, SerialUnique
    <2>3. next.highest = w.highest
          /\ next.seen = {x \in w.seen : WrappingSub(w.highest, x) < WindowSize} \cup {s}
        BY <1>4, <1>5 DEF Commit
    <2>4. Covers(next, t, D \cup {i})
        <3>1. ASSUME NEW d \in D, t - d < WindowSize
              PROVE  \E x \in next.seen : Cong(x, d)
            <4>1. PICK x \in w.seen : Cong(x, d)
                BY <3>1 DEF Covers
            <4>2. d \in Int /\ d <= t /\ x \in Serials /\ x \in Int
                BY <1>1, <1>2, <3>1 DEF Covers, Serials
            <4>3. WrappingSub(w.highest, x) = t - d
                BY <1>1, <1>2, <3>1, <4>1, <4>2, CongSymmetric, SubIsDistance
            <4> QED
                BY <2>3, <3>1, <4>1, <4>3
        <3>2. s \in next.seen /\ Cong(s, i)
            BY <1>2, <2>3, CongSymmetric
        <3> QED
            BY <1>2, <1>5, <2>3, <3>1, <3>2 DEF Covers
    <2> QED
        BY <2>2, <2>4
<1>6. CASE ~(i <= t) /\ forward \in 1 .. HalfRange - 1
    <2>1. i \notin D
        BY <1>6 DEF Covers
    <2>2. next.highest = s
          /\ next.seen = {x \in w.seen : WrappingSub(s, x) < WindowSize} \cup {s}
        BY <1>6 DEF Commit
    <2>3. ASSUME NEW d \in D, i - d < WindowSize
          PROVE  \E x \in next.seen : Cong(x, d)
        <3>1. d \in Int /\ d <= t
            BY DEF Covers
        <3>2. PICK x \in w.seen : Cong(x, d)
            BY <1>1, <1>6, <2>3, <3>1 DEF Covers
        <3>3. x \in Serials /\ x \in Int
            BY <1>1, <1>2 DEF Serials
        <3>4. WrappingSub(s, x) = i - d
            <4>1. Cong(d, x) /\ d <= i /\ i - d < SeqModulus
                BY <1>1, <1>6, <2>3, <3>1, <3>2, <3>3, CongSymmetric
            <4> QED
                BY <3>1, <3>3, <4>1, SubIsDistance
        <3> QED
            BY <2>2, <2>3, <3>2, <3>4
    <2>4. s \in next.seen /\ Cong(s, i)
        BY <1>2, <2>2, CongSymmetric
    <2>5. Covers(next, i, D \cup {i})
        BY <1>6, <2>2, <2>3, <2>4 DEF Covers
    <2> QED
        BY <1>1, <2>1, <2>5
<1>7. CASE ~(i <= t) /\ ~(forward \in 1 .. HalfRange - 1)
    <2>1. i \notin D
        BY <1>7 DEF Covers
    <2>2. behind < WindowSize
        BY <1>1, <1>3, <1>7 DEF Classify, Serials
    <2>3. next.highest = w.highest /\ s \in next.seen
        BY <1>7 DEF Commit
    <2>4. Cong(i + behind, w.highest)
        <3>1. Cong(behind, w.highest - s)
            BY <1>2, SubCong
        <3>2. (i - s) + (behind - (w.highest - s)) \in Multiples
            BY <3>1, MultiplesClosed DEF Cong
        <3>3. i + behind - w.highest = (i - s) + (behind - (w.highest - s))
            BY <1>2, <1>3 DEF Serials
        <3>4. behind \in Int /\ w.highest \in Int
            BY <1>2, <1>3 DEF Serials
        <3> HIDE DEF behind
        <3> QED
            BY <1>2, <3>2, <3>3, <3>4 DEF Cong
    <2>5. i + behind >= t + SeqModulus
        <3>0. i + behind \in Int /\ behind \in Int /\ w.highest \in Int
            BY <1>2, <1>3 DEF Serials
        <3>1. Cong(i + behind, t)
            <4>1. Cong(w.highest, t)
                BY <1>2, CongSymmetric
            <4> HIDE DEF behind
            <4> QED
                BY <3>0, <4>1, <2>4, CongTransitive
        <3>2. (i + behind) - t \in Multiples
            <4> HIDE DEF behind
            <4> QED
                BY <3>0, <3>1 DEF Cong
        <3>3. i + behind - t > 0
            BY <1>3, <1>7 DEF Serials
        <3>4. SeqModulus > 0 /\ i + behind - t \in Int
            BY <1>1, <1>3 DEF Serials
        <3>5. i + behind - t >= SeqModulus
            <4> DEFINE gap == i + behind - t
            <4> HIDE DEF behind
            <4>1. gap \in Multiples /\ gap > 0 /\ gap \in Int
                BY <3>0, <3>2, <3>3, <3>4
            <4> HIDE DEF gap
            <4>2. gap >= SeqModulus
                BY <1>1, <3>4, <4>1, MultiplesSparse
            <4> QED
                BY <4>2 DEF gap
        <3> HIDE DEF behind
        <3> QED
            BY <1>1, <3>0, <3>5
    <2>6. \A d \in D : d <= t /\ d \in Int
        BY DEF Covers
    <2>7. Cong(s, i) /\ behind \in Int
        BY <1>1, <1>2, <1>3, CongSymmetric DEF Serials
    <2>8. Covers(next, i + behind, D \cup {i})
        BY <1>1, <1>2, <1>3, <2>3, <2>4, <2>5, <2>6, <2>7 DEF Covers, Serials
    <2> QED
        BY <1>1, <1>3, <2>1, <2>2, <2>8 DEF Serials
<1> QED
    BY <1>5, <1>6, <1>7

\* The same for the first message of a stream, whose window is still new.
LEMMA FirstCommitCovers ==
    ASSUME NEW i \in Int, NEW s \in Serials, Cong(i, s)
    PROVE  Covers(Commit(NewWindow, s), i, {i})
<1>1. Commit(NewWindow, s).highest = s /\ s \in Commit(NewWindow, s).seen
    BY DEF Commit, NewWindow
<1>2. Cong(s, i)
    BY CongSymmetric DEF Serials
<1> QED
    BY <1>1, <1>2 DEF Covers

\* commit() of ReplayWindow leaves an initialized window behind.
LEMMA CommitType ==
    ASSUME NEW w \in Windows, NEW s \in Serials
    PROVE  Commit(w, s) \in Windows /\ Commit(w, s).initialized
BY DEF Commit, Windows

\* The window of a stream not seen before is well formed.
LEMMA NewWindowType == NewWindow \in Windows
BY ModulusPositive DEF NewWindow, Windows, Serials

\* What a tight window accepts it has not seen: a number ahead of `highest` is
\* more than the width of the window away from every number behind it.
LEMMA AcceptedUnseen ==
    ASSUME NEW w \in Windows, w.initialized, NEW s \in Serials,
           \A x \in w.seen : WrappingSub(w.highest, x) < WindowSize,
           Classify(w, s) = "Accept"
    PROVE  s \notin w.seen
<1> SUFFICES ASSUME s \in w.seen PROVE FALSE
    OBVIOUS
<1>1. WrappingSub(s, w.highest) \in 1 .. HalfRange - 1
    BY DEF Classify
<1>2. w.highest \in Serials /\ WrappingSub(w.highest, s) < WindowSize
    BY DEF Windows
<1> QED
    BY <1>1, <1>2, SerialAssumption DEF WrappingSub, Serials

\* What commit() drops from a window keeps the window tight, and it adds only
\* the number it commits.
LEMMA CommitTight ==
    ASSUME NEW w \in Windows, NEW s \in Serials
    PROVE  /\ Commit(w, s).seen \subseteq w.seen \cup {s}
           /\ \A x \in Commit(w, s).seen \ {s} :
                 WrappingSub(Commit(w, s).highest, x) < WindowSize
           /\ Commit(w, s).highest = s \/ Commit(w, s).highest = w.highest
           /\ Commit(w, s).highest # s =>
                 w.initialized /\ ~(WrappingSub(s, w.highest) \in 1 .. HalfRange - 1)
BY DEF Commit
=============================================================================
