------------------------------- MODULE MCApi -------------------------------
(* A product and a channel of one user, and a second user. *)
EXTENDS Api

CONSTANTS u1, u2, p1, c1

MCUsers == {u1, u2}
MCProducts == {p1}
MCChannels == {c1}
MCOwner == [x \in {p1, c1} |-> u1]
==============================================================================
