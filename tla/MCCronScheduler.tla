-------------------------- MODULE MCCronScheduler --------------------------
(***************************************************************************)
(* CronScheduler on small instances.                                       *)
(***************************************************************************)
EXTENDS CronScheduler

\* A one-shot job and a recurring one.
MCSchedules == {[times |-> {2}, recurring |-> FALSE], [times |-> {1, 2}, recurring |-> TRUE]}

\* Constraint: where two checks have overlapped no write fails, and no session is
\* deleted that a crash follows or precedes.
Few == overlapped => faults = 0 /\ (crashes = 0 \/ alive = Sessions)
=============================================================================
