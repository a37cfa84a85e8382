------------------------- MODULE ReplayBitmap_proofs ------------------------
(***************************************************************************)
(* The bitmap of ReplayWindow is a set of committed sequence numbers: the  *)
(* bit-level window implements SerialReplay, for every width and every     *)
(* size of the number space.                                               *)
(***************************************************************************)
EXTENDS ReplayBitmap, TLAPS

-----------------------------------------------------------------------------
(* Distances between sequence numbers *)

\* The distance of two numbers is a number.
LEMMA SubType == \A a, b \in Serials : WrappingSub(a, b) \in Serials
BY SerialAssumption, SMT DEF Serials, WrappingSub

\* The number b behind a is b, and the other way round.
LEMMA SubTwice == \A a, b \in Serials : WrappingSub(a, WrappingSub(a, b)) = b
BY SerialAssumption, SMT DEF Serials, WrappingSub

\* Only a number itself is at no distance from it.
LEMMA SubZero ==
    /\ \A a, b \in Serials : WrappingSub(a, b) = 0 <=> a = b
    /\ 0 \in Serials
    /\ \A a \in Serials : WrappingSub(a, 0) = a
BY SerialAssumption, SMT DEF Serials, WrappingSub

\* A step of n forward puts n on top of the distance to what lies behind.
LEMMA SubAdds ==
    ASSUME NEW top \in Serials, NEW s \in Serials, NEW x \in Serials,
           WrappingSub(top, x) + WrappingSub(s, top) < SeqModulus
    PROVE  WrappingSub(s, x) = WrappingSub(top, x) + WrappingSub(s, top)
BY SerialAssumption, SMT DEF Serials, WrappingSub

\* Two numbers lie ahead of each other by distances that make a full turn.
LEMMA SubTurns ==
    ASSUME NEW a \in Serials, NEW b \in Serials, a # b
    PROVE  WrappingSub(a, b) + WrappingSub(b, a) = SeqModulus
BY SerialAssumption, SMT DEF Serials, WrappingSub

-----------------------------------------------------------------------------
(* The invariant: the bit of `highest` itself is set once there is one. *)

Inv ==
    /\ TypeOK
    /\ initialized => 0 \in bitmap
    /\ ~initialized => bitmap = {}

\* A position in the bitmap is a distance.
LEMMA BitsAreSerials == Bits \subseteq Serials /\ 0 \in Bits
BY SerialAssumption DEF Bits, Serials

\* Shifting the bitmap stays in its width and sets the first bit.
LEMMA AdvanceType ==
    ASSUME bitmap \in SUBSET Bits, NEW n \in Nat
    PROVE  Advance(n) \in SUBSET Bits /\ 0 \in Advance(n)
BY BitsAreSerials, SerialAssumption, SMT DEF Advance, ShiftLeft, Bits

\* A new window satisfies the invariant.
LEMMA InvInit == Init => Inv
BY SubZero DEF Init, Inv, TypeOK, Answers

\* Every call keeps the invariant.
LEMMA InvStep == Inv /\ [Next]_vars => Inv'
<1> SUFFICES ASSUME Inv, [Next]_vars PROVE Inv'
    OBVIOUS
<1> USE DEF Inv, TypeOK
<1>1. CASE UNCHANGED vars
    BY <1>1 DEF vars
<1>2. ASSUME NEW s \in Serials, CommitRefused(s) PROVE Inv'
    <2>1. Verdict(s) \in Answers
        BY Zenon DEF Verdict, Answers
    <2> QED  BY <1>2, <2>1 DEF CommitRefused
<1>3. ASSUME NEW s \in Serials, CommitFirst(s) PROVE Inv'
    BY <1>3, BitsAreSerials DEF CommitFirst, Answers
<1>4. ASSUME NEW s \in Serials, CommitForward(s) PROVE Inv'
    <2>1. Forward(s) \in Nat
        BY SubType DEF Forward, Serials
    <2>2. bitmap' \in SUBSET Bits /\ 0 \in bitmap'
        BY <1>4, <2>1, AdvanceType DEF CommitForward
    <2> QED  BY <1>4, <2>2 DEF CommitForward, Answers
<1>5. ASSUME NEW s \in Serials, CommitBehind(s) PROVE Inv'
    <2>1. Behind(s) \in Nat /\ Behind(s) < WindowSize
        <3>1. Behind(s) \in Nat
            BY SubType DEF Behind, Serials
        <3>2. ~(Behind(s) >= WindowSize)
            BY <1>5 DEF CommitBehind, Verdict
        <3> QED  BY <3>1, <3>2, SerialAssumption
    <2>2. Behind(s) \in Bits
        BY <2>1, SerialAssumption DEF Bits
    <2> QED  BY <1>5, <2>2 DEF CommitBehind, Answers
<1> QED  BY <1>1, <1>2, <1>3, <1>4, <1>5 DEF Next

\* The invariant holds in every state.
LEMMA Invariant == Spec => []Inv
BY InvInit, InvStep, PTL DEF Spec

\* The three fields of ReplayWindow keep their ranges; no bit is ever set
\* outside the word.
THEOREM TypeCorrect == Spec => []TypeOK
<1>1. Inv => TypeOK
    BY DEF Inv
<1> QED  BY Invariant, <1>1, PTL

-----------------------------------------------------------------------------
(* classify() and commit() on the bitmap are those of SerialWindow *)

\* A number is in the set the bitmap stands for when the bit of its distance
\* is set.
LEMMA SeenIsBit ==
    ASSUME Inv, NEW s \in Serials
    PROVE  s \in BitmapWindow.seen <=> Behind(s) \in bitmap
<1> USE DEF Inv, TypeOK
<1>1. BitmapWindow.seen = {WrappingSub(highest, b) : b \in bitmap}
    BY DEF BitmapWindow
<1>2. \A b \in bitmap : WrappingSub(highest, WrappingSub(highest, b)) = b
    BY SubTwice, BitsAreSerials
<1>3. WrappingSub(highest, Behind(s)) = s
    BY SubTwice DEF Behind
<1> QED  BY <1>1, <1>2, <1>3 DEF Behind

\* The verdict read off the bitmap is that of the set it stands for.
LEMMA VerdictIsClassify ==
    ASSUME Inv, NEW s \in Serials
    PROVE  Classify(BitmapWindow, s) = Verdict(s)
<1>1. /\ BitmapWindow.initialized = initialized
      /\ BitmapWindow.highest = highest
    BY DEF BitmapWindow
<1>2. initialized /\ Forward(s) = 0 => Behind(s) = 0 /\ 0 \in bitmap /\ ~Ahead(s)
    BY SubZero DEF Forward, Behind, Inv, TypeOK, Ahead
<1>3. WindowSize \in Nat /\ WindowSize > 0
    BY SerialAssumption
<1>4. initialized \in BOOLEAN
    BY DEF Inv, TypeOK
<1>5. CASE ~initialized
    BY <1>1, <1>5 DEF Classify, Verdict
<1>6. CASE initialized /\ Ahead(s)
    BY <1>1, <1>6 DEF Classify, Verdict, Ahead, Forward
<1>7. CASE initialized /\ Forward(s) = 0
    <2>1. ~(WrappingSub(highest, s) >= WindowSize)
        BY <1>2, <1>3, <1>7 DEF Behind
    <2>2. s \in BitmapWindow.seen
        BY <1>2, <1>7, SeenIsBit
    <2>3. Classify(BitmapWindow, s) = "Duplicate"
        BY <1>1, <1>2, <1>7, <2>1, <2>2 DEF Classify, Ahead, Forward
    <2>4. Verdict(s) = "Duplicate"
        BY <1>2, <1>7, <2>1 DEF Verdict, Behind
    <2> QED  BY <2>3, <2>4
<1>8. CASE initialized /\ ~Ahead(s) /\ Forward(s) # 0
    <2>1. CASE Behind(s) >= WindowSize
        BY <1>1, <1>8, <2>1 DEF Classify, Verdict, Ahead, Forward, Behind
    <2>2. CASE ~(Behind(s) >= WindowSize)
        <3>1. Classify(BitmapWindow, s) =
                  IF s \in BitmapWindow.seen THEN "Duplicate" ELSE "Accept"
            BY <1>1, <1>8, <2>2 DEF Classify, Ahead, Forward, Behind
        <3>2. Verdict(s) = IF Behind(s) \in bitmap THEN "Duplicate" ELSE "Accept"
            BY <1>8, <2>2 DEF Verdict
        <3> QED  BY <3>1, <3>2, SeenIsBit
    <2> QED  BY <2>1, <2>2
<1> QED  BY <1>4, <1>5, <1>6, <1>7, <1>8

\* The first commit does to the set what it does to the bitmap.
LEMMA SeenAfterFirst ==
    ASSUME Inv, NEW s \in Serials, CommitFirst(s)
    PROVE  BitmapWindow' = Commit(BitmapWindow, s)
<1>1. BitmapWindow = [initialized |-> FALSE, highest |-> highest, seen |-> {}]
    <2>1. initialized = FALSE /\ bitmap = {}
        BY DEF CommitFirst, Inv, TypeOK
    <2>2. {WrappingSub(highest, b) : b \in {}} = {}
        OBVIOUS
    <2> QED  BY <2>1, <2>2 DEF BitmapWindow
<1>2. BitmapWindow' = [initialized |-> TRUE, highest |-> s, seen |-> {s}]
    <2>1. {WrappingSub(s, b) : b \in {0}} = {s}
        BY SubZero
    <2> QED  BY <2>1 DEF CommitFirst, BitmapWindow
<1>3. Commit(BitmapWindow, s) = [initialized |-> TRUE, highest |-> s, seen |-> {s}]
    BY <1>1 DEF Commit
<1> QED  BY <1>2, <1>3

\* Shifting the bitmap drops from the set what falls out of the window.
LEMMA SeenAfterForward ==
    ASSUME Inv, NEW s \in Serials, CommitForward(s)
    PROVE  BitmapWindow' = Commit(BitmapWindow, s)
<1> DEFINE n == Forward(s)
           kept == {x \in BitmapWindow.seen : WrappingSub(s, x) < WindowSize}
<1>1. n \in Nat /\ 0 < n /\ n < HalfRange
    BY SerialAssumption DEF CommitForward, Ahead
<1>2. \A b \in Bits : WrappingSub(s, WrappingSub(highest, b)) = b + n
    <2> SUFFICES ASSUME NEW b \in Bits
                 PROVE  WrappingSub(s, WrappingSub(highest, b)) = b + n
        OBVIOUS
    <2>1. /\ highest \in Serials /\ WrappingSub(highest, b) \in Serials
          /\ WrappingSub(highest, WrappingSub(highest, b)) = b
        BY SubType, SubTwice, BitsAreSerials DEF Inv, TypeOK
    <2>2. b \in Nat /\ b < HalfRange
        BY SerialAssumption DEF Bits
    <2>3. b + n < SeqModulus
        BY <1>1, <2>2, SerialAssumption
    <2> QED  BY <2>1, <2>3, SubAdds DEF Forward
<1>3. kept = {WrappingSub(highest, b) : b \in {c \in bitmap : c + n < WindowSize}}
    <2>1. BitmapWindow.seen = {WrappingSub(highest, b) : b \in bitmap}
        BY DEF BitmapWindow
    <2>2. bitmap \subseteq Bits
        BY DEF Inv, TypeOK
    <2> QED  BY <1>2, <2>1, <2>2
<1>4. {WrappingSub(s, b) : b \in Advance(n)} = kept \cup {s}
    <2>1. \A b \in Bits : b + n < WindowSize =>
              WrappingSub(s, b + n) = WrappingSub(highest, b)
        BY <1>2, SubTwice, SubType, BitsAreSerials DEF Inv, TypeOK
    <2>2. WrappingSub(s, 0) = s
        BY SubZero
    <2>3. bitmap \subseteq Bits
        BY DEF Inv, TypeOK
    <2>4. CASE n >= WindowSize
        <3>1. \A b \in Bits : ~(b + n < WindowSize)
            BY <1>1, <2>4, SerialAssumption DEF Bits
        <3>2. kept = {}
            BY <1>3, <2>3, <3>1
        <3> QED  BY <2>2, <2>4, <3>2 DEF Advance
    <2>5. CASE ~(n >= WindowSize)
        <3>1. Advance(n) = {b + n : b \in {c \in bitmap : c + n < WindowSize}} \cup {0}
            BY <2>5 DEF Advance, ShiftLeft
        <3>2. {WrappingSub(s, b + n) : b \in {c \in bitmap : c + n < WindowSize}} = kept
            BY <1>3, <2>1, <2>3
        <3> HIDE DEF n, kept
        <3> QED  BY <2>2, <3>1, <3>2
    <2> QED  BY <2>4, <2>5
<1>5. BitmapWindow' = [initialized |-> TRUE, highest |-> s, seen |-> kept \cup {s}]
    <2>1. BitmapWindow' = [initialized |-> initialized', highest |-> highest',
                           seen |-> {WrappingSub(highest', b) : b \in bitmap'}]
        BY DEF BitmapWindow
    <2>2. initialized' = TRUE /\ highest' = s /\ bitmap' = Advance(n)
        BY DEF CommitForward, Inv, TypeOK
    <2> QED  BY <1>4, <2>1, <2>2
<1>6. Commit(BitmapWindow, s) = [initialized |-> TRUE, highest |-> s, seen |-> kept \cup {s}]
    <2>1. BitmapWindow.initialized = TRUE /\ BitmapWindow.highest = highest
        BY DEF BitmapWindow, CommitForward, Inv, TypeOK
    <2>2. WrappingSub(s, highest) \in 1 .. HalfRange - 1
        BY DEF CommitForward, Ahead, Forward
    <2> QED  BY <2>1, <2>2 DEF Commit
<1> QED  BY <1>5, <1>6

\* Setting a bit behind the newest number adds that number to the set.
LEMMA SeenAfterBehind ==
    ASSUME Inv, NEW s \in Serials, CommitBehind(s)
    PROVE  BitmapWindow' = Commit(BitmapWindow, s)
<1> DEFINE all == {WrappingSub(highest, b) : b \in bitmap}
<1>1. \A b \in bitmap : WrappingSub(highest, WrappingSub(highest, b)) < WindowSize
    <2> SUFFICES ASSUME NEW b \in bitmap
                 PROVE  WrappingSub(highest, WrappingSub(highest, b)) < WindowSize
        OBVIOUS
    <2>1. b \in Bits /\ WrappingSub(highest, WrappingSub(highest, b)) = b
        BY SubTwice, BitsAreSerials DEF Inv, TypeOK
    <2> QED  BY <2>1, SerialAssumption DEF Bits
<1>2. {x \in all : WrappingSub(highest, x) < WindowSize} = all
    BY <1>1
<1>3. BitmapWindow' = [initialized |-> TRUE, highest |-> highest, seen |-> all \cup {s}]
    <2>1. WrappingSub(highest, Behind(s)) = s
        BY SubTwice DEF Behind, Inv, TypeOK
    <2>2. {WrappingSub(highest, b) : b \in bitmap \cup {Behind(s)}} = all \cup {s}
        BY <2>1
    <2>3. initialized' = TRUE /\ highest' = highest /\ bitmap' = bitmap \cup {Behind(s)}
        BY DEF CommitBehind, Inv, TypeOK
    <2> QED  BY <2>2, <2>3 DEF BitmapWindow
<1>4. Commit(BitmapWindow, s) = [initialized |-> TRUE, highest |-> highest, seen |-> all \cup {s}]
    <2>1. /\ BitmapWindow.initialized = TRUE /\ BitmapWindow.highest = highest
          /\ BitmapWindow.seen = all
        BY DEF BitmapWindow, CommitBehind, Inv, TypeOK
    <2>2. WrappingSub(s, highest) \notin 1 .. HalfRange - 1
        BY DEF CommitBehind, Ahead, Forward
    <2> QED  BY <1>2, <2>1, <2>2 DEF Commit
<1> QED  BY <1>3, <1>4

\* The instance of SerialReplay computes with the operators of SerialWindow.
LEMMA SameSerials == Serial!Serials = Serials
BY DEF Serial!Serials, Serials

\* The instance classifies as SerialWindow does.
LEMMA SameClassify ==
    ASSUME NEW w, NEW s
    PROVE  Serial!Classify(w, s) = Classify(w, s)
BY Zenon DEF Serial!Classify, Classify, Serial!WrappingSub, WrappingSub

\* The instance commits as SerialWindow does.
LEMMA SameCommit ==
    ASSUME NEW w, NEW s
    PROVE  Serial!Commit(w, s) = Commit(w, s)
BY Zenon DEF Serial!Commit, Commit, Serial!WrappingSub, WrappingSub

\* classify() accepts whatever one of the three committing branches takes.
LEMMA CommitAccepts ==
    ASSUME Inv, NEW s \in Serials,
           CommitFirst(s) \/ CommitForward(s) \/ CommitBehind(s)
    PROVE  Verdict(s) = "Accept" /\ answer' = "Accept"
<1>1. CASE CommitFirst(s)
    BY <1>1 DEF CommitFirst, Verdict
<1>2. CASE CommitForward(s)
    BY <1>2 DEF CommitForward, Verdict, Ahead, Inv, TypeOK
<1>3. CASE CommitBehind(s)
    BY <1>3 DEF CommitBehind
<1> QED  BY <1>1, <1>2, <1>3

\* Every step of the bitmap is a step of the window that holds a set.
LEMMA StepRefines == Inv /\ [Next]_vars => [Serial!Next]_(Serial!vars)
<1> SUFFICES ASSUME Inv, [Next]_vars PROVE [Serial!Next]_(Serial!vars)
    OBVIOUS
<1>1. CASE UNCHANGED vars
    BY <1>1 DEF vars, Serial!vars, BitmapWindow
<1>2. ASSUME NEW s \in Serials, CommitRefused(s) PROVE Serial!Present(s)
    <2>1. BitmapWindow' = BitmapWindow
        BY <1>2 DEF CommitRefused, BitmapWindow
    <2>2. Serial!Classify(BitmapWindow, s) = Verdict(s)
        BY SameClassify, VerdictIsClassify
    <2>3. answer' = Verdict(s) /\ Verdict(s) # "Accept"
        BY <1>2 DEF CommitRefused
    <2> QED  BY <2>1, <2>2, <2>3 DEF Serial!Present
<1>3. ASSUME NEW s \in Serials, CommitFirst(s) \/ CommitForward(s) \/ CommitBehind(s)
      PROVE  Serial!Present(s)
    <2>1. Verdict(s) = "Accept" /\ answer' = "Accept"
        BY <1>3, CommitAccepts
    <2>2. BitmapWindow' = Serial!Commit(BitmapWindow, s)
        BY <1>3, SeenAfterFirst, SeenAfterForward, SeenAfterBehind, SameCommit
    <2>3. Serial!Classify(BitmapWindow, s) = "Accept"
        BY <2>1, SameClassify, VerdictIsClassify
    <2> QED  BY <2>1, <2>2, <2>3 DEF Serial!Present
<1>4. CASE Next
    <2>1. PICK s \in Serials :
              CommitRefused(s) \/ CommitFirst(s) \/ CommitForward(s) \/ CommitBehind(s)
        BY <1>4 DEF Next
    <2>2. Serial!Present(s)
        BY <2>1, <1>2, <1>3
    <2> QED  BY <2>2, SameSerials DEF Serial!Next
<1> QED  BY <1>1, <1>4

\* ReplayWindow behaves as the set of committed sequence numbers within its
\* width; the link models, which use the set, lose nothing of the code.
THEOREM BitmapIsSet == Spec => SerialSpec
<1>1. Init => Serial!Init
    <2> SUFFICES ASSUME Init PROVE Serial!Init
        OBVIOUS
    <2>1. {WrappingSub(highest, b) : b \in {}} = {}
        OBVIOUS
    <2>2. BitmapWindow = [initialized |-> FALSE, highest |-> 0, seen |-> {}]
        BY <2>1 DEF Init, BitmapWindow
    <2> QED  BY <2>2 DEF Init, Serial!Init, Serial!NewWindow
<1> QED  BY <1>1, StepRefines, Invariant, PTL DEF Spec, SerialSpec, Serial!Spec

-----------------------------------------------------------------------------
(* What the window refuses *)

\* A refusal on an initialised window: the number is not ahead, and it is too
\* far behind or its bit is set.
LEMMA Refusal ==
    ASSUME Inv, NEW s \in Serials
    PROVE  Verdict(s) # "Accept"
               <=> /\ initialized
                   /\ ~Ahead(s)
                   /\ Behind(s) >= WindowSize \/ Behind(s) \in bitmap
<1>1. initialized \in BOOLEAN
    BY DEF Inv, TypeOK
<1>2. CASE ~initialized
    BY <1>2 DEF Verdict
<1>3. CASE initialized /\ Ahead(s)
    BY <1>3 DEF Verdict, Ahead
<1>4. CASE initialized /\ ~Ahead(s) /\ Forward(s) = 0
    <2>1. Behind(s) = 0 /\ 0 \in bitmap
        BY <1>4, SubZero DEF Forward, Behind, Inv, TypeOK
    <2>2. ~(Behind(s) >= WindowSize)
        BY <2>1, SerialAssumption
    <2>3. Verdict(s) = "Duplicate"
        BY <1>4, <2>2 DEF Verdict
    <2> QED  BY <1>4, <2>1, <2>3
<1>5. CASE initialized /\ ~Ahead(s) /\ Forward(s) # 0
    BY <1>5 DEF Verdict, Ahead
<1> QED  BY <1>1, <1>2, <1>3, <1>4, <1>5

\* A jump of half the number space is refused, whatever the window holds.
THEOREM HalfJumps == Spec => []HalfJumpRejected
<1>1. Inv => HalfJumpRejected
    <2> SUFFICES ASSUME Inv, initialized
                 PROVE  Verdict(WrappingSub(highest, HalfRange)) = "TooOld"
        BY DEF HalfJumpRejected
    <2> DEFINE s == WrappingSub(highest, HalfRange)
    <2>1. highest \in Serials /\ HalfRange \in Serials
        BY SerialAssumption DEF Inv, TypeOK, Serials
    <2>2. s \in Serials /\ Behind(s) = HalfRange
        BY <2>1, SubType, SubTwice DEF Behind
    <2>3. s # highest
        BY <2>1, <2>2, SubZero, SerialAssumption DEF Behind
    <2>4. Forward(s) = HalfRange
        <3>1. Behind(s) + Forward(s) = SeqModulus
            BY <2>1, <2>2, <2>3, SubTurns DEF Forward, Behind
        <3>2. Forward(s) \in Nat
            BY <2>1, <2>2, SubType DEF Forward, Serials
        <3> HIDE DEF s
        <3> QED  BY <3>1, <3>2, <2>2, SerialAssumption
    <2>5. ~Ahead(s) /\ Forward(s) # 0 /\ Behind(s) >= WindowSize
        BY <2>2, <2>4, SerialAssumption DEF Ahead
    <2> HIDE DEF s
    <2>6. Verdict(s) = "TooOld"
        BY <2>5 DEF Verdict, Ahead
    <2> QED  BY <2>6 DEF s
<1> QED  BY <1>1, Invariant, PTL

\* The window moves forward only: between two steps of it lie fewer than half
\* the number space.
LEMMA MovesForward ==
    ASSUME Inv, initialized, [Next]_vars
    PROVE  /\ initialized' = initialized
           /\ \/ highest' = highest /\ bitmap \subseteq bitmap'
              \/ \E n \in 1 .. HalfRange - 1 :
                    WrappingSub(highest', highest) = n /\ bitmap' = Advance(n)
<1>1. CASE UNCHANGED vars
    BY <1>1 DEF vars
<1>2. CASE Next
    <2>1. PICK s \in Serials :
              CommitRefused(s) \/ CommitFirst(s) \/ CommitForward(s) \/ CommitBehind(s)
        BY <1>2 DEF Next
    <2>2. CASE CommitRefused(s)
        BY <2>2 DEF CommitRefused
    <2>3. CASE CommitFirst(s)
        BY <2>3 DEF CommitFirst
    <2>4. CASE CommitForward(s)
        BY <2>4 DEF CommitForward, Ahead, Forward
    <2>5. CASE CommitBehind(s)
        BY <2>5 DEF CommitBehind
    <2> QED  BY <2>1, <2>2, <2>3, <2>4, <2>5
<1> QED  BY <1>1, <1>2

\* What Refusal says of every number, as a formula of one state.
RefusalOf ==
    \A s \in Serials :
        Verdict(s) # "Accept"
            <=> /\ initialized
                /\ ~Ahead(s)
                /\ Behind(s) >= WindowSize \/ Behind(s) \in bitmap

\* The refusals of a state, in the form an induction uses.
LEMMA RefusalHolds == Inv => RefusalOf
BY Refusal DEF RefusalOf

\* A number refused before a step forward of n is refused after it.
LEMMA RefusedAfterForward ==
    ASSUME Inv, Inv', NEW s \in Serials, NEW n \in 1 .. HalfRange - 1,
           ~Ahead(s), Behind(s) >= WindowSize \/ Behind(s) \in bitmap,
           WrappingSub(highest', highest) = n, bitmap' = Advance(n),
           WrappingSub(highest', s) <= HalfRange
    PROVE  ~Ahead(s)' /\ (Behind(s)' >= WindowSize \/ Behind(s)' \in bitmap')
<1> DEFINE d == WrappingSub(highest, s)
<1>1. highest \in Serials /\ highest' \in Serials /\ bitmap \subseteq Bits
    BY DEF Inv, TypeOK
<1>2. d \in Nat /\ d <= HalfRange
    <2>1. d \in Nat /\ WrappingSub(s, highest) \in Nat
        BY <1>1, SubType DEF Serials
    <2>2. CASE s = highest
        BY <1>1, <2>1, <2>2, SubZero, SerialAssumption
    <2>3. CASE s # highest
        <3>1. d + WrappingSub(s, highest) = SeqModulus /\ WrappingSub(s, highest) # 0
            BY <1>1, <2>3, SubTurns, SubZero
        <3>2. WrappingSub(s, highest) >= HalfRange
            BY <2>1, <3>1, SerialAssumption DEF Ahead, Forward
        <3> HIDE DEF d
        <3> QED  BY <2>1, <3>1, <3>2, SerialAssumption
    <2> QED  BY <2>2, <2>3
<1>3. WrappingSub(highest', s) = d + n
    <2>1. d + n < SeqModulus
        BY <1>2, SerialAssumption
    <2> QED  BY <1>1, <2>1, SubAdds
<1>4. ~Ahead(s)'
    <2>1. s # highest'
        BY <1>1, <1>2, <1>3, SubZero
    <2>2. WrappingSub(highest', s) + WrappingSub(s, highest') = SeqModulus
        BY <1>1, <2>1, SubTurns
    <2>3. WrappingSub(s, highest') \in Nat
        BY <1>1, SubType DEF Serials
    <2>4. ~(WrappingSub(s, highest') \in 1 .. HalfRange - 1)
        BY <1>2, <1>3, <2>2, <2>3, SerialAssumption
    <2> QED  BY <2>4 DEF Ahead, Forward
<1>5. d + n >= WindowSize \/ d + n \in Advance(n)
    <2>1. CASE d >= WindowSize
        BY <1>2, <2>1, SerialAssumption
    <2>2. CASE d \in bitmap /\ d + n < WindowSize
        <3>1. ~(n >= WindowSize)
            BY <1>2, <2>2, SerialAssumption
        <3>2. d + n \in ShiftLeft(bitmap, n)
            BY <2>2 DEF ShiftLeft
        <3> QED  BY <3>1, <3>2 DEF Advance
    <2>3. d + n < WindowSize \/ d + n >= WindowSize
        BY <1>2, SerialAssumption
    <2> QED  BY <2>1, <2>2, <2>3 DEF Behind
<1> HIDE DEF d
<1> QED  BY <1>3, <1>4, <1>5 DEF Behind

\* A refused number stays refused while the window is at most half the number
\* space ahead of it: no shift of the bitmap forgets a committed message that
\* is still inside the window.
THEOREM StaysRefused == Spec => RefusedStaysRefused
<1>1. Inv /\ Inv' /\ RefusalOf /\ RefusalOf' /\ [Next]_vars =>
          [\A s \in Serials :
             /\ Verdict(s) # "Accept"
             /\ WrappingSub(highest', s) <= HalfRange
             => Verdict(s)' # "Accept"]_vars
    <2> SUFFICES ASSUME Inv, Inv', RefusalOf, RefusalOf', [Next]_vars,
                        NEW s \in Serials, Verdict(s) # "Accept",
                        WrappingSub(highest', s) <= HalfRange
                 PROVE  Verdict(s)' # "Accept"
        OBVIOUS
    <2>1. /\ initialized /\ ~Ahead(s)
          /\ Behind(s) >= WindowSize \/ Behind(s) \in bitmap
        BY DEF RefusalOf
    <2>2. initialized'
        BY <2>1, MovesForward
    <2>3. CASE highest' = highest /\ bitmap \subseteq bitmap'
        <3>1. ~Ahead(s)' /\ (Behind(s)' >= WindowSize \/ Behind(s)' \in bitmap')
            BY <2>1, <2>3 DEF Ahead, Forward, Behind
        <3> QED  BY <2>2, <3>1 DEF RefusalOf
    <2>4. CASE \E n \in 1 .. HalfRange - 1 :
                  WrappingSub(highest', highest) = n /\ bitmap' = Advance(n)
        <3>1. ~Ahead(s)' /\ (Behind(s)' >= WindowSize \/ Behind(s)' \in bitmap')
            BY <2>1, <2>4, RefusedAfterForward
        <3> QED  BY <2>2, <3>1 DEF RefusalOf
    <2> QED  BY <2>1, <2>3, <2>4, MovesForward
<1> QED  BY <1>1, RefusalHolds, Invariant, PTL DEF Spec, RefusedStaysRefused
=============================================================================
