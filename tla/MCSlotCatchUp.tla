--------------------------- MODULE MCSlotCatchUp ---------------------------
(* Instances of SlotCatchUp for TLC: one lane and two of its slots.  Of    *)
(* each kind of host there is one at most, so there is no symmetry.        *)
EXTENDS SlotCatchUp
=============================================================================
