------------------------------ MODULE Delivery ------------------------------
(***************************************************************************)
(* What the sending side of PieFed promises about an activity it has       *)
(* decided to send to another instance: it is under way until the instance *)
(* acknowledges it or it is given up, it is given up only for a reason,    *)
(* and once acknowledged or given up it stays so.  Module SendQueue is how *)
(* app/activitypub/signature.py and app/cli.py go about it.                *)
(***************************************************************************)
CONSTANTS
  Activity,   \* the activities
  Reason      \* why one may be given up, and "none"

VARIABLES
  fate,       \* [Activity -> what has become of it]
  why         \* [Activity -> the latest reason met for giving it up]

vars == <<fate, why>>

Fate == {"unsent", "underway", "received", "abandoned"}

Init ==
  /\ fate = [a \in Activity |-> "unsent"]
  /\ why = [a \in Activity |-> "none"]

\* What may become of one activity in a step.
Submit(a)  == fate[a] = "unsent" /\ fate'[a] = "underway"
Receive(a) == fate[a] = "underway" /\ fate'[a] = "received"
Abandon(a) == fate[a] = "underway" /\ fate'[a] = "abandoned" /\ why'[a] # "none"
Keep(a)    == fate'[a] = fate[a]

\* Activities that travel together may reach their end in the same step.
Next ==
  /\ fate' \in [Activity -> Fate]
  /\ why' \in [Activity -> Reason]
  /\ \A a \in Activity :
       /\ Submit(a) \/ Receive(a) \/ Abandon(a) \/ Keep(a)
       /\ why[a] # "none" => why'[a] # "none"

Spec == Init /\ [][Next]_vars
=============================================================================
