------------------------------- MODULE Channel -------------------------------
(***************************************************************************)
(* What the builds of ex26 that carry messages promise: a channel that     *)
(* keeps the order.  What is received is a prefix of what was sent; how    *)
(* much of it is nobody's promise.                                         *)
(***************************************************************************)
EXTENDS Naturals, Sequences

VARIABLES sent, received

Extends(s, t) == Len(s) <= Len(t) /\ SubSeq(t, 1, Len(s)) = s

Init == Extends(received, sent)

Send == Extends(sent, sent') /\ UNCHANGED received

Receive == Extends(received, received') /\ Extends(received', sent) /\ UNCHANGED sent

Next == Send \/ Receive

Spec == Init /\ [][Next]_<<sent, received>>
=============================================================================
