---------------------------- MODULE SerialReplay ----------------------------
(***************************************************************************)
(* What an anti-replay window promises its receiver: commit() of an        *)
(* accepted sequence number records it, a refused one changes nothing.     *)
(* ReplayBitmap (the Rust and C bitmaps) implements this.                  *)
(***************************************************************************)
EXTENDS SerialWindow

VARIABLES
    window,   \* a member of Windows
    answer    \* what the last commit() returned

vars == <<window, answer>>

Init == window = NewWindow /\ answer = "Accept"

Present(s) ==
    /\ answer' = Classify(window, s)
    /\ window' = IF Classify(window, s) = "Accept" THEN Commit(window, s) ELSE window

Next == \E s \in Serials : Present(s)

Spec == Init /\ [][Next]_vars
=============================================================================
