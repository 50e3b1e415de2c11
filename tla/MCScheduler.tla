---------------------------- MODULE MCScheduler ----------------------------
(* Model checking of Scheduler. *)
EXTENDS Scheduler
=============================================================================
