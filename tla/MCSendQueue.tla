---------------------------- MODULE MCSendQueue ----------------------------
(* Small instances of SendQueue. *)
EXTENDS SendQueue

CONSTANTS c1, c2, post, vote, here

ToOne   == [a \in Activity |-> here]
=============================================================================
