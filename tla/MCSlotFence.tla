---------------------------- MODULE MCSlotFence ----------------------------
(* Instances of SlotFence for TLC: one slot and a handful of deliveries.   *)
EXTENDS SlotFenceRefinement, TLC

(* Scheduled deliveries are interchangeable, and so are the jobs.          *)
Interchangeable == Permutations(Scheduled) \cup Permutations(Jobs)
=============================================================================
