---------------------------- MODULE MCCronLease ----------------------------
(* Instances of CronLease for TLC: a run that waits and one that does not. *)
EXTENDS CronLease
=============================================================================
