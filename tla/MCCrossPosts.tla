---------------------------- MODULE MCCrossPosts ----------------------------
(* Small instances of CrossPosts for TLC. *)
EXTENDS CrossPosts, TLC
CONSTANTS w1, w2, page, other

\* The workers are alike: of two idle ones the first takes the request.
FirstIdle == Idle(w1) /\ Idle(w2) => Idle(w2)'
\* The URLs are alike: of two initial states that differ by their names, one.
FirstPage == requests = 0 => row[1].url # other
=============================================================================
