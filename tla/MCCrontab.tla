------------------------------ MODULE MCCrontab ------------------------------
(* Small instances of Crontab for TLC. *)
EXTENDS Crontab

CONSTANTS every, odd   \* two AddJob calls

\* A minute, the next, and the first again: the clock was set back.
Readings == <<0, 1, 0>>

\* The label of a minute: its parity stands for the fields of the wall clock.
Labels == [t \in Minutes |-> t % 2]

\* One job for every label, one for label 1 only.
Schedules == [j \in Jobs |-> IF j = every THEN {0, 1} ELSE {1}]
==============================================================================
