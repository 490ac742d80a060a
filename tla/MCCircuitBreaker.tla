-------------------------- MODULE MCCircuitBreaker --------------------------
(* Instances of CircuitBreaker for TLC.                                    *)
EXTENDS CircuitBreaker, TLC

CONSTANTS c1, c2, i1, i2

(* The isolates are alike: the first caller's may have a fixed name.       *)
AnyButFirst == c1 :> {i1} @@ c2 :> {i1, i2}
=============================================================================
