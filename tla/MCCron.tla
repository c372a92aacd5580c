------------------------------- MODULE MCCron -------------------------------
(* Small instances of Cron for TLC. *)
EXTENDS Cron, TLC
CONSTANTS r1, r2, once, daily, x1, x2
Abouts == [x \in Reminder |-> IF x = x1 THEN once ELSE daily]
=============================================================================
