------------------------------- MODULE MCChat -------------------------------
(* A small instance of Chat for TLC. *)
EXTENDS Chat, TLC
CONSTANTS w1, w2, ann, bob, cat, here, there
Mixed == (ann :> here) @@ (bob :> here) @@ (cat :> there)
Symmetries == Permutations(Worker) \cup Permutations({ann, bob})
=============================================================================
