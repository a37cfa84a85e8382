---------------------------- MODULE ReplayBitmap ----------------------------
(***************************************************************************)
(* ReplayWindow of latentmesh-air-core, bit for bit: `highest` and a       *)
(* bitmap in which bit b stands for the sequence number highest - b.  The  *)
(* bitmap is the set of its one bits; a left shift drops the bits pushed   *)
(* past WindowSize.  A caller may present any sequence number at any time. *)
(***************************************************************************)
EXTENDS SerialWindow

VARIABLES
    initialized,  \* ReplayWindow.initialized
    highest,      \* ReplayWindow.highest
    bitmap,       \* ReplayWindow.bitmap, as the set of bits that are one
    answer        \* what the last commit() returned

vars == <<initialized, highest, bitmap, answer>>

Bits == 0 .. WindowSize - 1

Answers == {"Accept", "Duplicate", "TooOld"}

Forward(s) == WrappingSub(s, highest)
Behind(s)  == WrappingSub(highest, s)

Ahead(s) == Forward(s) \in 1 .. HalfRange - 1

\* classify(), on the bitmap.
Verdict(s) ==
    CASE ~initialized \/ Ahead(s)                         -> "Accept"
      [] initialized /\ Forward(s) = 0                    -> "Duplicate"
      [] initialized /\ ~Ahead(s) /\ Behind(s) >= WindowSize -> "TooOld"
      [] OTHER -> IF Behind(s) \in bitmap THEN "Duplicate" ELSE "Accept"

\* bitmap << n, for n < 64
ShiftLeft(bits, n) == {b + n : b \in {x \in bits : x + n < WindowSize}}

\* The bitmap after the window moved n sequence numbers forward.
Advance(n) == IF n >= WindowSize THEN {0} ELSE ShiftLeft(bitmap, n) \cup {0}

Init ==
    /\ initialized = FALSE
    /\ highest = 0
    /\ bitmap = {}
    /\ answer = "Accept"

\* commit() of a sequence number that classify() refuses.
CommitRefused(s) ==
    /\ Verdict(s) # "Accept"
    /\ answer' = Verdict(s)
    /\ UNCHANGED <<initialized, highest, bitmap>>

CommitFirst(s) ==
    /\ ~initialized
    /\ initialized' = TRUE
    /\ highest' = s
    /\ bitmap' = {0}
    /\ answer' = "Accept"

CommitForward(s) ==
    /\ initialized
    /\ Ahead(s)
    /\ bitmap' = Advance(Forward(s))
    /\ highest' = s
    /\ answer' = "Accept"
    /\ UNCHANGED initialized

CommitBehind(s) ==
    /\ initialized
    /\ ~Ahead(s)
    /\ Verdict(s) = "Accept"
    /\ bitmap' = bitmap \cup {Behind(s)}
    /\ answer' = "Accept"
    /\ UNCHANGED <<initialized, highest>>

Next == \E s \in Serials :
    CommitRefused(s) \/ CommitFirst(s) \/ CommitForward(s) \/ CommitBehind(s)

Spec == Init /\ [][Next]_vars

-----------------------------------------------------------------------------
\* Type correctness of the three fields of ReplayWindow.
TypeOK ==
    /\ initialized \in BOOLEAN
    /\ highest \in Serials
    /\ bitmap \in SUBSET Bits
    /\ answer \in Answers

\* The first clause of replay.rs:11: once the window has moved, a jump of
\* exactly half the number space is rejected, never taken as a step forward.
HalfJumpRejected ==
    initialized => Verdict(WrappingSub(highest, HalfRange)) = "TooOld"

\* A sequence number the window refuses stays refused for as long as the
\* window is at most half the number space ahead of it: no shift of the bitmap
\* may forget a committed message while it is still inside the window.
RefusedStaysRefused ==
    [][\A s \in Serials :
         /\ Verdict(s) # "Accept"
         /\ WrappingSub(highest', s) <= HalfRange
         => Verdict(s)' # "Accept"]_vars

\* The window this bitmap stands for.
BitmapWindow ==
    [initialized |-> initialized,
     highest     |-> highest,
     seen        |-> {WrappingSub(highest, b) : b \in bitmap}]

\* commit() on the bitmap is commit() on the set of committed sequence numbers
\* of SerialWindow, which the receiver models use in its place.
Serial == INSTANCE SerialReplay WITH window <- BitmapWindow
SerialSpec == Serial!Spec
=============================================================================
