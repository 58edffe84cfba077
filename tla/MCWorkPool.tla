----------------------------- MODULE MCWorkPool ------------------------------
(* Small instances of WorkPool for TLC. *)
EXTENDS WorkPool

\* No buffer at all, and one for two tasks.
SmallBuffers == {<<0>>, <<2>>}

\* Tasks 1 and 3 submit tasks 2 and 4 to the pool they run in.
Nested == [t \in Tasks |-> IF t \in {2, 4} THEN t - 1 ELSE NoTask]
==============================================================================
