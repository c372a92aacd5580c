-------------------------- MODULE MCInstanceHealth --------------------------
(* A small instance of InstanceHealth. *)
EXTENDS InstanceHealth
CONSTANT near

\* Bound: the daily check meets a neighbour only while something is pending.
\* Without that, all a neighbour does is to have a row loaded later.
NeighboursMatter == (NeighbourSilent \/ NeighbourGarbles) => Pending(Check) # {}
=============================================================================
