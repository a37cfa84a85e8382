--------------------------- MODULE MessageService ---------------------------
(***************************************************************************)
(* What a LatentMesh receive path promises the application: every message  *)
(* it returns was sent as that message, and is returned at most once.      *)
(* Messages may be lost, and may be returned in any order.                 *)
(***************************************************************************)
EXTENDS Integers

VARIABLES
    sent,       \* messages handed to the sender
    delivered,  \* messages returned by the receiver
    forged,     \* messages returned that nobody sent
    repeated    \* messages returned a second time

vars == <<sent, delivered, forged, repeated>>

Init == sent = {} /\ delivered = {} /\ forged = {} /\ repeated = {}

Send == \E m \in sent' \ sent :
    /\ sent' = sent \cup {m}
    /\ UNCHANGED <<delivered, forged, repeated>>

Return == \E m \in sent \ delivered :
    /\ delivered' = delivered \cup {m}
    /\ UNCHANGED <<sent, forged, repeated>>

Next == Send \/ Return

Spec == Init /\ [][Next]_vars
=============================================================================
