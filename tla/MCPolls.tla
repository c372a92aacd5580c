------------------------------ MODULE MCPolls ------------------------------
(* A small instance of Polls for TLC. *)
EXTENDS Polls, TLC
CONSTANTS w1, w2, north, ann, bob, cat, yes, no
Everywhere == (ann :> "home") @@ (bob :> north) @@ (cat :> "microblog")
Symmetries == Permutations(Worker) \cup Permutations(Text)
=============================================================================
