----------------------- MODULE MCRecoveryCheckpoint -----------------------
(* Instances of RecoveryCheckpoint for TLC.                                *)
EXTENDS RecoveryCheckpoint
=============================================================================
