----------------------------- MODULE CronLease -----------------------------
(***************************************************************************)
(* runCronWithLease: the lease that keeps two runs of one job apart.       *)
(*                                                                         *)
(* A lease is one row of the D1 table cron_leases.  A run upserts it,      *)
(* works while a timer renews it, and deletes it only when its work has    *)
(* settled; work that ignores the abort signal is left behind as a zombie  *)
(* and the lease is left to its TTL.  A run may wait for the lease, and    *)
(* the reconciler of a stale slot removes a lease whose heartbeat is       *)
(* silent (SlotFence says when).                                           *)
(*                                                                         *)
(* Each statement is one atomic step, but nowSec is taken before it is     *)
(* sent, transport retries included, and its answer may come late or not   *)
(* at all: called[r] is when the statement in flight was issued, and the   *)
(* instant it writes is any one from then on.                              *)
(***************************************************************************)
EXTENDS Integers, FiniteSets

CONSTANTS
    Runs,         \* runs of the job, each with a lease owner id of its own
    Waiters,      \* those that were given an acquisitionWait
    None,         \* no lease owner
    Ttl,          \* ttlSec
    Heartbeat,    \* heartbeatSec: the period of the renewal timer
    MaxRenewFailures, \* consecutive failed renewals that abort the work
    ChildSilence, \* childSilenceSec: silence after which a reconciler removes a lease
    Poll,         \* a waiter polls at least this often
    WaitBudget,   \* acquisitionWait.deadlineMs, from the start of the run
    Wall,         \* the platform ends an isolate that is this old
    Latency,      \* bound: how late a statement's answer or a timer may be
    Horizon,      \* bound: no run starts from this time on
    MaxTime,      \* bound: the clock stops here
    MaxFaults     \* bound: crashes, aborts, failed statements and lost answers

ASSUME RunAssumption == Waiters \subseteq Runs /\ None \notin Runs

ASSUME TimeAssumption ==
    /\ {Ttl, Heartbeat, MaxRenewFailures, ChildSilence, Poll, Wall} \subseteq Nat \ {0}
    /\ {WaitBudget, Latency, Horizon, MaxTime, MaxFaults} \subseteq Nat

VARIABLES
    now,       \* the clock
    lease,     \* the job's cron_leases row
    pc,        \* where each run stands
    started,   \* when it began
    called,    \* when its latest acquisition or renewal was issued
    waitUntil, \* waitDeadlineMs
    captured,  \* blockerDeadlineCaptured
    wakeAt,    \* when its sleep is over
    nextBeat,  \* when the renewal timer fires next
    renewing,  \* renewalInFlight
    failures,  \* renewFailures, the consecutive ones
    aborted,   \* the work's abort signal
    working,   \* its body executes, aborted or abandoned or not
    keep,      \* ~shouldReleaseLease
    faults     \* how many failures there have been

waitVars  == <<waitUntil, captured, wakeAt>>
renewVars == <<nextBeat, renewing, failures>>
bodyVars  == <<aborted, working, keep>>
vars == <<now, lease, pc, started, called, waitVars, renewVars, bodyVars, faults>>

-----------------------------------------------------------------------------
Lease   == [owner : Runs \cup {None}, until : Nat, beat : Nat]
NoLease == [owner |-> None, until |-> 0, beat |-> 0]

Pc == {"idle", "try", "acquire", "look", "sleep", "observe", "body", "settle",
       "skipped", "done"}

TypeOK ==
    /\ now \in Nat
    /\ lease \in Lease
    /\ pc \in [Runs -> Pc]
    /\ {started, called, waitUntil, wakeAt, nextBeat} \subseteq [Runs -> Nat]
    /\ failures \in [Runs -> 0 .. MaxRenewFailures]
    /\ {captured, renewing, aborted, working, keep} \subseteq [Runs -> BOOLEAN]
    /\ faults \in 0 .. MaxFaults

Init ==
    /\ now = 0
    /\ lease = NoLease
    /\ pc = [r \in Runs |-> "idle"]
    /\ started = [r \in Runs |-> 0] /\ called = [r \in Runs |-> 0]
    /\ waitUntil = [r \in Runs |-> 0] /\ wakeAt = [r \in Runs |-> 0]
    /\ nextBeat = [r \in Runs |-> 0]
    /\ failures = [r \in Runs |-> 0]
    /\ captured = [r \in Runs |-> FALSE] /\ renewing = [r \in Runs |-> FALSE]
    /\ aborted = [r \in Runs |-> FALSE] /\ working = [r \in Runs |-> FALSE]
    /\ keep = [r \in Runs |-> FALSE]
    /\ faults = 0

Goto(r, where) == pc' = [pc EXCEPT ![r] = where]

Earlier(s, t) == IF s < t THEN s ELSE t

(* Mutant: the heartbeat is dated one period back.                         *)
HeldByBackdated(r, t) == [owner |-> r, until |-> t + Ttl, beat |-> t - Heartbeat]

HeldBy(r, t) == [owner |-> r, until |-> t + Ttl, beat |-> t]

-----------------------------------------------------------------------------
(* Acquiring.                                                              *)

Start(r) ==
    /\ pc[r] = "idle" /\ now < Horizon
    /\ Goto(r, "try")
    /\ started' = [started EXCEPT ![r] = now]
    /\ waitUntil' = [waitUntil EXCEPT ![r] = IF r \in Waiters THEN now + WaitBudget ELSE now]
    /\ UNCHANGED <<now, lease, called, captured, wakeAt, renewVars, bodyVars>>

(* attempts > 0: whoever slept has tried.                                  *)
Tried(r) == wakeAt[r] > 0

(* Mutant: a late wake-up polls whatever its own budget says.              *)
LateBlockerPollUnbounded(r) == captured[r] /\ waitUntil[r] < started[r] + WaitBudget

(* A wake-up past the blocker's deadline still polls once, as long as the  *)
(* run's own budget holds.                                                 *)
LateBlockerPoll(r) ==
    /\ captured[r]
    /\ waitUntil[r] < started[r] + WaitBudget
    /\ now <= started[r] + WaitBudget

Try(r) ==
    /\ pc[r] = "try"
    /\ IF Tried(r) /\ now > waitUntil[r] /\ ~LateBlockerPoll(r)
       THEN Goto(r, "skipped") /\ UNCHANGED called
       ELSE Goto(r, "acquire") /\ called' = [called EXCEPT ![r] = now]
    /\ UNCHANGED <<now, lease, started, waitVars, renewVars, bodyVars>>

(* Mutant: no upsert over one's own row.                                   *)
TakeableByOthers(r, t) == lease.owner = None \/ lease.until < t

(* The upsert of an absent, expired or own lease.                          *)
Takeable(r, t) == lease.owner \in {None, r} \/ lease.until < t

(* answered = FALSE: it commits, the answer is lost and the transport      *)
(* retry issues it again.                                                  *)
Acquire(r, answered) ==
    /\ pc[r] = "acquire"
    /\ \E t \in called[r] .. now :
        \/ /\ Takeable(r, t)
           /\ lease' = HeldBy(r, t)
           /\ Goto(r, IF answered THEN "observe" ELSE "acquire")
        \/ /\ answered /\ ~Takeable(r, t)
           /\ Goto(r, "look")
           /\ UNCHANGED lease
    /\ UNCHANGED <<now, started, called, waitVars, renewVars, bodyVars>>

(* Blocked: a waiter captures, once, when the blocker's lease (or a claim  *)
(* of the blocker's invocation that ends earlier) will have lapsed, and    *)
(* sleeps until then or for one polling period.                            *)
Look(r) ==
    /\ pc[r] = "look"
    /\ LET capture == r \in Waiters /\ ~captured[r] /\ lease.owner # None
       IN  \E claim \in IF capture THEN Earlier(now, lease.until) .. lease.until ELSE {0} :
             LET deadline == IF capture THEN Earlier(waitUntil[r], claim + 1) ELSE waitUntil[r]
             IN  /\ waitUntil' = [waitUntil EXCEPT ![r] = deadline]
                 /\ captured' = [captured EXCEPT ![r] = @ \/ capture]
                 /\ IF r \notin Waiters \/ now >= deadline
                    THEN Goto(r, "skipped") /\ UNCHANGED wakeAt
                    ELSE /\ Goto(r, "sleep")
                         /\ wakeAt' = [wakeAt EXCEPT ![r] = Earlier(now + Poll, deadline)]
    /\ UNCHANGED <<now, lease, started, called, renewVars, bodyVars>>

Wake(r) ==
    /\ pc[r] = "sleep" /\ now >= wakeAt[r]
    /\ Goto(r, "try")
    /\ UNCHANGED <<now, lease, started, called, waitVars, renewVars, bodyVars>>

(* The slot's deadline, its abort signal, or a statement that fails for    *)
(* good ends a run that has not begun its work; nothing is released.       *)
GiveUp(r) ==
    /\ pc[r] \in {"try", "acquire", "look", "sleep"}
    /\ Goto(r, "done")
    /\ UNCHANGED <<now, lease, started, called, waitVars, renewVars, bodyVars>>

-----------------------------------------------------------------------------
(* Working and renewing.                                                   *)

Begin(r) ==
    /\ pc[r] = "observe"
    /\ Goto(r, "body")
    /\ working' = [working EXCEPT ![r] = TRUE]
    /\ nextBeat' = [nextBeat EXCEPT ![r] = now + Heartbeat]
    /\ UNCHANGED <<now, lease, started, called, waitVars, renewing, failures, aborted, keep>>

(* The observer of the lease state fails, or the deadline has passed: the  *)
(* lease is released before any work.                                      *)
ObserverFails(r) ==
    /\ pc[r] = "observe"
    /\ Goto(r, "settle")
    /\ UNCHANGED <<now, lease, started, called, waitVars, renewVars, bodyVars>>

Renewable(r) == pc[r] = "body" /\ ~aborted[r]

(* The interval fires; it issues nothing while a renewal is in flight.     *)
TimerFires(r) ==
    /\ Renewable(r) /\ now >= nextBeat[r]
    /\ nextBeat' = [nextBeat EXCEPT ![r] = now + Heartbeat]
    /\ IF renewing[r] THEN UNCHANGED <<renewing, called>>
       ELSE /\ renewing' = [renewing EXCEPT ![r] = TRUE]
            /\ called' = [called EXCEPT ![r] = now]
    /\ UNCHANGED <<now, lease, pc, started, waitVars, failures, bodyVars>>

(* Mutant: one failed renewal too many is tolerated.                       *)
TooManyByOne(n) == n > MaxRenewFailures

TooMany(n) == n >= MaxRenewFailures

(* A renewal that cannot be confirmed; the last tolerated one aborts the   *)
(* work.                                                                   *)
CountFailure(r) ==
    /\ failures' = [failures EXCEPT ![r] = Earlier(@ + 1, MaxRenewFailures)]
    /\ aborted' = [aborted EXCEPT ![r] = @ \/ TooMany(failures[r] + 1)]

RenewRow(r) == \E t \in called[r] .. now : lease' = HeldBy(r, t)

(* A renewal that changes nothing aborts the work at once.                 *)
Renew(r) ==
    /\ renewing[r]
    /\ renewing' = [renewing EXCEPT ![r] = FALSE]
    /\ IF lease.owner = r
       THEN /\ RenewRow(r)
            /\ failures' = [failures EXCEPT ![r] = 0]
            /\ UNCHANGED aborted
       ELSE /\ failures' = [failures EXCEPT ![r] = Earlier(@ + 1, MaxRenewFailures)]
            /\ aborted' = [aborted EXCEPT ![r] = TRUE]
            /\ UNCHANGED lease
    /\ UNCHANGED <<now, pc, started, called, waitVars, nextBeat, working, keep>>

(* It commits, and the transport retries it for want of an answer.         *)
RenewAgain(r) ==
    /\ renewing[r] /\ lease.owner = r
    /\ RenewRow(r)
    /\ UNCHANGED <<now, pc, started, called, waitVars, renewVars, bodyVars>>

(* It commits, but the slot's deadline has passed: that counts as one      *)
(* failure after a success.                                                *)
RenewLate(r) ==
    /\ renewing[r] /\ lease.owner = r
    /\ RenewRow(r)
    /\ renewing' = [renewing EXCEPT ![r] = FALSE]
    /\ failures' = [failures EXCEPT ![r] = 1]
    /\ aborted' = [aborted EXCEPT ![r] = @ \/ TooMany(1)]
    /\ UNCHANGED <<now, pc, started, called, waitVars, nextBeat, working, keep>>

RenewFails(r) ==
    /\ renewing[r]
    /\ renewing' = [renewing EXCEPT ![r] = FALSE]
    /\ CountFailure(r)
    /\ UNCHANGED <<now, lease, pc, started, called, waitVars, nextBeat, working, keep>>

(* The job's timeout, the slot's signal, or a failing required observer.   *)
Abort(r) ==
    /\ Renewable(r)
    /\ aborted' = [aborted EXCEPT ![r] = TRUE]
    /\ UNCHANGED <<now, lease, pc, started, called, waitVars, renewVars, working, keep>>

(* The body returns or throws, before or during the grace after an abort.  *)
BodySettles(r) ==
    /\ pc[r] = "body"
    /\ Goto(r, "settle")
    /\ working' = [working EXCEPT ![r] = FALSE]
    /\ UNCHANGED <<now, lease, started, called, waitVars, renewVars, aborted, keep>>

(* The grace is over and the body still runs: it is abandoned.             *)
Abandon(r) ==
    /\ pc[r] = "body" /\ aborted[r]
    /\ Goto(r, "settle")
    /\ keep' = [keep EXCEPT ![r] = TRUE]
    /\ UNCHANGED <<now, lease, started, called, waitVars, renewVars, aborted, working>>

(* Mutant: whoever ends deletes the lease.                                 *)
ReleasesAlways(r) == lease.owner = r

Releases(r) == lease.owner = r /\ ~keep[r]

(* The renewal in flight is awaited before the lease is released.          *)
Settle(r, released) ==
    /\ pc[r] = "settle" /\ ~renewing[r]
    /\ lease' = IF released /\ Releases(r) THEN NoLease ELSE lease
    /\ Goto(r, "done")
    /\ UNCHANGED <<now, started, called, waitVars, renewVars, bodyVars>>

ZombieEnds(r) ==
    /\ pc[r] = "done" /\ working[r]
    /\ working' = [working EXCEPT ![r] = FALSE]
    /\ UNCHANGED <<now, lease, pc, started, called, waitVars, renewVars, aborted, keep>>

-----------------------------------------------------------------------------
(* The reconciler of a stale slot, the platform and the clock.             *)

(* reconcileStaleSlotArtifacts deletes a lease that has expired or whose   *)
(* heartbeat is silent.                                                    *)
RemoveSilent ==
    /\ lease.owner # None
    /\ lease.until < now \/ lease.beat + ChildSilence <= now
    /\ lease' = NoLease
    /\ UNCHANGED <<now, pc, started, called, waitVars, renewVars, bodyVars>>

Alive(r) == pc[r] \notin {"idle", "skipped", "done"} \/ working[r]

Killed(r) ==
    /\ Goto(r, "done")
    /\ working' = [working EXCEPT ![r] = FALSE]
    /\ renewing' = [renewing EXCEPT ![r] = FALSE]
    /\ UNCHANGED <<now, lease, started, called, waitVars, nextBeat, failures, aborted, keep>>

Crash(r) == Alive(r) /\ Killed(r)

PlatformKill(r) == Alive(r) /\ now - started[r] >= Wall /\ Killed(r)

(* What Latency allows the clock not to wait for.                          *)
InTime(r) ==
    /\ pc[r] \in {"acquire", "look", "observe"} \/ renewing[r] => now < called[r] + Latency
    /\ Renewable(r) => now < nextBeat[r] + Latency

Tick ==
    /\ now < MaxTime
    /\ \A r \in Runs : Alive(r) => now < started[r] + Wall /\ InTime(r)
    /\ now' = now + 1
    /\ UNCHANGED <<lease, pc, started, called, waitVars, renewVars, bodyVars>>

RunStep(r) ==
    \/ Start(r) \/ Try(r) \/ Acquire(r, TRUE) \/ Look(r) \/ Wake(r) \/ Begin(r)
    \/ TimerFires(r) \/ Renew(r) \/ BodySettles(r) \/ Abandon(r) \/ Settle(r, TRUE)
    \/ ZombieEnds(r) \/ PlatformKill(r)

FaultStep(r) ==
    \/ Acquire(r, FALSE) \/ GiveUp(r) \/ ObserverFails(r) \/ RenewAgain(r)
    \/ RenewLate(r) \/ RenewFails(r) \/ Abort(r) \/ Settle(r, FALSE) \/ Crash(r)

Next ==
    \/ (Tick \/ RemoveSilent \/ \E r \in Runs : RunStep(r)) /\ UNCHANGED faults
    \/ /\ \E r \in Runs : FaultStep(r)
       /\ faults < MaxFaults
       /\ faults' = faults + 1

Spec == Init /\ [][Next]_vars

-----------------------------------------------------------------------------
(* What must be true.                                                      *)

(* The TTL and the silence outlast every renewal that is still tolerated.  *)
Patience == MaxRenewFailures * (Heartbeat + Latency) + 2 * Latency

Patient == Latency < Heartbeat /\ Patience <= Ttl /\ Patience < ChildSilence

(* Two runs of the job never work at the same time without one of them     *)
(* having been told to stop: lost renewals abort the work before the lease *)
(* that it has stopped renewing can be taken.                              *)
OneWorker ==
    Patient => \A r, s \in Runs :
        working[r] /\ ~aborted[r] /\ working[s] /\ ~aborted[s] => r = s

(* A run is never turned away by a lease that is its own: one it took with *)
(* an upsert whose answer was lost.                                        *)
NotBlockedByItself == \A r \in Runs : pc[r] = "look" => lease.owner # r

(* While a body executes - told to stop, abandoned or forgotten - its      *)
(* lease is not handed on before it has expired or fallen silent.          *)
UnsettledKeepsLease ==
    [][\A r \in Runs :
         lease.owner = r /\ working[r] /\ lease'.owner # r =>
            ~working'[r] \/ lease.until < now \/ lease.beat + ChildSilence <= now]_vars

(* The budget of a waiting run is absolute: no attempt but its first is    *)
(* issued after it, however late its sleep ends and however often the      *)
(* blocker renews.                                                         *)
BudgetIsAbsolute ==
    \A r \in Waiters : pc[r] = "acquire" /\ Tried(r) => called[r] <= started[r] + WaitBudget
=============================================================================
