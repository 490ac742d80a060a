--------------------------- MODULE MCIdempotency ---------------------------
(* Instances of Idempotency for TLC: the requests of either kind are       *)
(* interchangeable.                                                        *)
EXTENDS Idempotency, TLC

Symmetry == Permutations(Requests \ Reusers) \cup Permutations(Reusers)
=============================================================================
