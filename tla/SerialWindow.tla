---------------------------- MODULE SerialWindow ----------------------------
(***************************************************************************)
(* The anti-replay window of latentmesh-air-core (replay.rs): serial       *)
(* number arithmetic on wrapping sequence numbers and a sliding window of  *)
(* committed ones.  The u64 bitmap is kept as the set of sequence numbers  *)
(* it stands for; module ReplayBitmap is the bit-level translation and     *)
(* shows that the two agree.                                               *)
(***************************************************************************)
EXTENDS Integers

CONSTANTS
    SeqModulus,   \* 2^16 in the code: sequence numbers are u16
    HalfRange,    \* 0x8000 in the code
    WindowSize    \* 64 in the code: the bits of the u64 bitmap

ASSUME SerialAssumption ==
    /\ SeqModulus \in Nat
    /\ HalfRange \in Nat
    /\ WindowSize \in Nat \ {0}
    /\ SeqModulus = HalfRange + HalfRange
    /\ WindowSize <= HalfRange

Serials == 0 .. SeqModulus - 1

\* u16::wrapping_add(1)
WrappingInc(s) == IF s + 1 = SeqModulus THEN 0 ELSE s + 1

\* u16::wrapping_sub
WrappingSub(a, b) == IF b <= a THEN a - b ELSE a - b + SeqModulus

Windows == [initialized : BOOLEAN, highest : Serials, seen : SUBSET Serials]

NewWindow == [initialized |-> FALSE, highest |-> 0, seen |-> {}]

\* Mutant: one sequence number inside the window already counts as too old.
ClassifyNarrow(window, s) ==
    LET forward == WrappingSub(s, window.highest)
        behind  == WrappingSub(window.highest, s)
    IN  CASE ~window.initialized                      -> "Accept"
          [] window.initialized /\ forward \in 1 .. HalfRange - 1 -> "Accept"
          [] window.initialized /\ forward \notin 1 .. HalfRange - 1
             /\ behind >= WindowSize - 1              -> "TooOld"
          [] OTHER -> IF s \in window.seen THEN "Duplicate" ELSE "Accept"

Classify(window, s) ==
    LET forward == WrappingSub(s, window.highest)
        behind  == WrappingSub(window.highest, s)
    IN  CASE ~window.initialized                      -> "Accept"
          [] window.initialized /\ forward \in 1 .. HalfRange - 1 -> "Accept"
          [] window.initialized /\ forward \notin 1 .. HalfRange - 1
             /\ behind >= WindowSize                  -> "TooOld"
          [] OTHER -> IF s \in window.seen THEN "Duplicate" ELSE "Accept"

\* What commit() leaves behind when classify() accepted s.
Commit(window, s) ==
    LET ahead == WrappingSub(s, window.highest) \in 1 .. HalfRange - 1
        top   == IF ~window.initialized \/ ahead THEN s ELSE window.highest
    IN  [initialized |-> TRUE,
         highest     |-> top,
         seen        |-> {x \in window.seen : WrappingSub(top, x) < WindowSize}
                            \cup {s}]
=============================================================================
