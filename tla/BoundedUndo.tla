----------------------------- MODULE BoundedUndo ----------------------------
(* What a bounded history promises: a stack that never holds the same token  *)
(* twice in its life, remembers at most Depth tokens under its top, and can  *)
(* only go back along the line that leads to the top.                        *)
EXTENDS Integers, Sequences

CONSTANT Depth

VARIABLES top,      \* the token in force
          below,    \* the tokens that can be gone back to, oldest first
          used      \* every token there ever was

undoVars == <<top, below, used>>

Newest(s) == IF Len(s) > Depth THEN SubSeq(s, Len(s) - Depth + 1, Len(s)) ELSE s

UndoInit == below = <<>> /\ used = {top}

\* A token that was never used before goes on top.
PushFresh == /\ top' \notin used
             /\ used' = used \union {top'}
             /\ below' = Newest(Append(below, top))

\* An older token becomes the top; all above it is gone.
GoBack == \E k \in 1 .. Len(below) : /\ top' = below[k]
                                     /\ below' = SubSeq(below, 1, k - 1)
                                     /\ used' = used

UndoSpec == UndoInit /\ [][PushFresh \/ GoBack]_undoVars
=============================================================================
