------------------------------- MODULE MCBans -------------------------------
(* Small instances of Bans for TLC. *)
EXTENDS Bans, TLC
CONSTANTS w1, w2, here, there
Alike == Permutations(Worker)
FewMishaps == Cardinality(mishaps) <= 1
=============================================================================
