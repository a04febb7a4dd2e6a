---------------------------- MODULE MCScheduler -----------------------------
(* The container's two jobs for TLC; one groups interval is two profile    *)
(* intervals, as by default.                                               *)
EXTENDS Scheduler

MCInterval == [sync_profiles |-> 1, sync_groups |-> 2]
=============================================================================
