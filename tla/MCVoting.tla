------------------------------ MODULE MCVoting ------------------------------
(* Small instances of Voting. *)
EXTENDS Voting, TLC

CONSTANTS w1, w2, alice, bob, post, comment

AliceWrites   == [t \in Target |-> alice]
EachWritesOne == [t \in Target |-> IF t = post THEN alice ELSE bob]
Workers       == Permutations(Worker)
=============================================================================
