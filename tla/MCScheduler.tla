---------------------------- MODULE MCScheduler ----------------------------
(* The reconcile chain on a counter that overflows after a few pauses. *)
EXTENDS Scheduler
=============================================================================
