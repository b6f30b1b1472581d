---------------------------- MODULE MCScheduler ----------------------------
(* Values of the constants of Scheduler for model checking. *)
EXTENDS Scheduler

\* A line above the cascade's priority, one behind the cascade.
TwoDevices == {1, 9}
NoDevices  == {}
============================================================================
