------------------------------- MODULE MCInbox -------------------------------
(* Small instances of Inbox for TLC. *)
EXTENDS Inbox, TLC
CONSTANTS w1, w2, c1, c2, post, reply
Answers == [o \in Object |-> IF o = reply THEN {post} ELSE {}]
On(o, k, v) == [kind |-> k, object |-> o, version |-> v]
Scripts ==
  {{On(post, "Create", 1), On(post, "Update", 2), On(post, "Update", 3)},
   {On(post, "Create", 1), On(post, "Update", 2), On(post, "Delete", 1)},
   {On(post, "Create", 1), On(post, "Delete", 1), On(post, "Restore", 1)},
   {On(post, "Create", 1), On(reply, "Update", 2)}}
Activities == UNION Scripts
Workers == Permutations(Web) \cup Permutations(Celery)
=============================================================================
