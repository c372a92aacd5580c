--------------------------- MODULE MCSubscription ---------------------------
(* Small instances of Subscription for TLC. *)
EXTENDS Subscription, TLC
CONSTANTS w1, w2, ann, bob, club, feed
Workers == Permutations(Worker)
=============================================================================
