------------------------ MODULE SlotFenceRefinement ------------------------
(* The slot row and the generations that actors were given implement the   *)
(* authority over the slot: a stale policy, a sweep, a catch-up and a lost *)
(* answer are all grants of a term.                                        *)
EXTENDS SlotFence

Authority == INSTANCE SlotAuthority WITH
    Reconcilers <- Sweepers,
    Nobody <- None,
    phase <- CASE row.state = "absent" -> "new"
               [] row.state = "finished" -> "closed"
               [] OTHER -> "held",
    term <- row.gen,
    holder <- row.owner,
    outcome <- IF row.state # "finished" THEN "none"
               ELSE IF row.result = "stale" THEN "abandoned" ELSE "own",
    granted <- gen

(* The fence implements the authority: claimScheduledSlotExecution,        *)
(* claimCatchUpSlotExecution, the sweep and the closing statements never   *)
(* change owner, generation and state but as grants and closings do.       *)
ImplementsAuthority == Authority!Spec
=============================================================================
