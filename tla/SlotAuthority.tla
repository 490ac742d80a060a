--------------------------- MODULE SlotAuthority ---------------------------
(***************************************************************************)
(* What the slot fence promises, without rows, clocks or children: the     *)
(* authority over a slot is granted in terms, each to one actor; only the  *)
(* holder of the current term closes the slot; what a delivery closed      *)
(* stays closed, and what a reconciler closed as abandoned may be granted  *)
(* once more to a delivery.                                                *)
(*                                                                         *)
(* A holder need not know that it is one: the answer to its claim may be   *)
(* lost.  granted[a] is the term a knows it was given.                     *)
(***************************************************************************)
EXTENDS Naturals

CONSTANTS
    Actors,       \* whoever may be given a term
    Reconcilers,  \* those that close a slot only as abandoned
    Nobody        \* the holder before the first term

VARIABLES
    phase,    \* "new", "held" or "closed"
    term,     \* the number of terms so far
    holder,   \* who was given the last one
    outcome,  \* of a closed slot: "own" or "abandoned"
    granted   \* the term each actor knows it holds, or held

vars == <<phase, term, holder, outcome, granted>>

Init ==
    /\ phase = "new" /\ term = 0 /\ holder = Nobody /\ outcome = "none"
    /\ granted = [a \in Actors |-> 0]

(* An actor learns the current term, keeps what it knew, or retires.       *)
Tells(a) ==
    \E t \in {0, granted[a], term'} : granted' = [granted EXCEPT ![a] = t]

Grant(a) ==
    /\ phase = "closed" => outcome = "abandoned" /\ a \notin Reconcilers
    /\ phase' = "held" /\ term' = term + 1 /\ holder' = a /\ outcome' = "none"
    /\ Tells(a)

Learn(a) ==
    /\ phase = "held" /\ holder = a
    /\ granted' = [granted EXCEPT ![a] = term]
    /\ UNCHANGED <<phase, term, holder, outcome>>

Retire(a) ==
    /\ granted' = [granted EXCEPT ![a] = 0]
    /\ UNCHANGED <<phase, term, holder, outcome>>

Close(a) ==
    /\ phase = "held" /\ holder = a /\ granted[a] = term
    /\ phase' = "closed"
    /\ outcome' = IF a \in Reconcilers THEN "abandoned" ELSE "own"
    /\ granted' \in {granted, [granted EXCEPT ![a] = 0]}
    /\ UNCHANGED <<term, holder>>

(* The last resort of a delivery that failed: it need not know its term,   *)
(* and ends it.                                                            *)
GiveUp(a) ==
    /\ a \notin Reconcilers
    /\ phase = "held" /\ holder = a
    /\ phase' = "closed" /\ outcome' = "own" /\ term' = term + 1
    /\ UNCHANGED <<holder, granted>>

Next == \E a \in Actors : Grant(a) \/ Learn(a) \/ Retire(a) \/ Close(a) \/ GiveUp(a)

Spec == Init /\ [][Next]_vars
=============================================================================
