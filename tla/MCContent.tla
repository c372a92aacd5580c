----------------------------- MODULE MCContent -----------------------------
(* Small instances of Content for TLC. *)
EXTENDS Content, TLC
CONSTANTS w1, w2, ann, bob, p1, p2, r1, r2

Written_ == [o \in Object |-> IF o \in {r1, p2} THEN bob ELSE ann]
OnFirst == [r \in Reply |-> p1]
Nested  == [r \in Reply |-> IF r = r2 THEN {r1} ELSE {}]
Workers == Permutations(Worker)

\* The first post, of somebody here, may have had any life; the second, of
\* somebody elsewhere, is yet to come.
FirstOnly == ContentInit /\ status[p2] = "absent"
FirstSpec == FirstOnly /\ [][ContentNext]_contentVars
=============================================================================
