----------------------------- MODULE SlotFence -----------------------------
(***************************************************************************)
(* The fence around one scheduled slot.                                    *)
(*                                                                         *)
(* A cron slot (schedule key, slot start) is one row of the D1 table       *)
(* cron_slot_executions.  Every delivery of the slot - the platform's cron *)
(* event, a duplicate or late one, a Queue catch-up - is an invocation     *)
(* that tries to own that row, runs the slot's child jobs under the        *)
(* ownership, heartbeats the row and closes it.  Sweepers (the digest poll *)
(* and the reserve-recovery lane) look for rows whose owner went silent,   *)
(* settle what the dead owner left behind and close the row.  Nobody holds *)
(* a lock: each statement is one atomic D1 transaction, guarded by the     *)
(* owner and the execution generation its issuer believes in, and anything *)
(* may happen between two statements of the same actor.                    *)
(*                                                                         *)
(* Time is an integer clock.  The code takes `nowSec` once, before its     *)
(* first await, and keeps using it: at[a] is that captured instant.        *)
(***************************************************************************)
EXTENDS Integers, FiniteSets

CONSTANTS
    Scheduled,    \* invocations delivered by cron for this slot
    CatchUps,     \* invocations delivered by the catch-up queue for this slot
    Sweepers,     \* hosts of sweepStaleScheduledSlotExecutions
    Jobs,         \* child jobs of the slot plan, all of them due
    None,         \* no lease holder, no progress row, no item in hand
    SlotSilence,  \* slotSilenceSec: heartbeat silence that makes a row stale
    ChildSilence, \* childSilenceSec: heartbeat silence that makes a lease dead
    HardDead,     \* hardDeadSec: age at which a running row is stale whatever it says
    Wall,         \* the platform kills an invocation that is this old
    LeaseTtl,     \* time to live of a child job's lease
    Grace,        \* a catch-up is admitted only this long after the slot start
    Horizon,      \* bound: no delivery from this time on
    MaxTime,      \* bound: the clock stops here, and failures a stale policy earlier
    Timely,       \* TRUE: live owners' heartbeats and statements are never late
    MaxFaults     \* bound: crashes, aborts, failed statements and lost answers

Invocations == Scheduled \cup CatchUps
Actors == Invocations \cup Sweepers

ASSUME ActorAssumption ==
    /\ Scheduled \cap CatchUps = {}
    /\ Invocations \cap Sweepers = {}
    /\ None \notin Actors

ASSUME TimeAssumption ==
    /\ {SlotSilence, ChildSilence, HardDead, Wall, LeaseTtl} \subseteq Nat \ {0}
    /\ {Grace, Horizon, MaxTime, MaxFaults} \subseteq Nat
    /\ Timely \in BOOLEAN

VARIABLES
    now,       \* the clock
    row,       \* the slot's cron_slot_executions row
    attempt,   \* scheduled_child_attempts of the slot, per invocation and job
    lease,     \* cron_leases, per job
    progress,  \* cron_run_progress of the slot, per job: whose row it is
    pc,        \* where each actor stands
    at,        \* nowSec each actor captured on entry
    seen,      \* the row as the actor last read it
    gen,       \* the generation the actor was given (0: none)
    todo,      \* what a reconciling actor listed and has not yet handled
    held,      \* the item a reconciling actor judged and is about to record
    child,     \* the in-memory state of each child of each invocation
    faults     \* how many failures there have been

dbVars    == <<row, attempt, lease, progress>>
actorVars == <<pc, at, seen, gen, todo, held>>
vars      == <<now, dbVars, actorVars, child, faults>>

-----------------------------------------------------------------------------
(* Types.                                                                  *)

(* result "stale" is the terminal error whose metadata.error is STALE_SLOT_ERROR: *)
(* the only terminal a catch-up may reopen.                                       *)
Row == [state     : {"absent", "running", "reconciling", "finished"},
        owner     : Actors \cup {None},
        gen       : Nat,
        inv       : Invocations \cup {None},
        startedAt : Nat,
        updatedAt : Nat,
        result    : {"none", "ok", "error", "stale"},
        catchUp   : BOOLEAN,
        marked    : BOOLEAN]

NoRow == [state |-> "absent", owner |-> None, gen |-> 0, inv |-> None,
          startedAt |-> 0, updatedAt |-> 0, result |-> "none",
          catchUp |-> FALSE, marked |-> FALSE]

(* "owned" is an attempt without terminal whose lease_owner is recorded.   *)
Open     == {"open", "owned"}
Terminal == {"real", "abandoned", "notStarted", "unknown"}
AttemptStatus == {"none"} \cup Open \cup Terminal

Lease == [holder : Invocations \cup {None}, until : Nat, beat : Nat]
NoLease == [holder |-> None, until |-> 0, beat |-> 0]

(* One unit of reconciliation: a job that left no evidence at first sight,  *)
(* or at second; an open attempt of invocation inv with or without a known  *)
(* lease owner; or a progress row of inv that no open attempt goes with.    *)
(* leased: inv's lease was there when the item was judged.                  *)
Item == [kind : {"missing", "unseen", "ownerless", "owned", "progress"},
         inv : Invocations \cup {None}, job : Jobs, leased : BOOLEAN]

InvocationPc == {"idle", "insert", "reread", "probe", "takeover", "reopen", "confirm",
                 "list", "sift", "clear", "delete", "record", "stamp", "run", "drain",
                 "finish", "finishError", "cleanup", "done", "gone"}
SweeperPc    == {"idle", "probe", "claim", "list", "sift", "clear", "delete", "record",
                 "close"}

ChildState == {"none", "refused", "started", "leased", "body", "ending", "done", "lost"}
Active     == {"started", "leased", "body", "ending"}

DbTypeOK ==
    /\ row \in Row
    /\ attempt \in [Invocations -> [Jobs -> AttemptStatus]]
    /\ lease \in [Jobs -> Lease]
    /\ progress \in [Jobs -> Invocations \cup {None}]

ActorTypeOK ==
    /\ pc \in [Actors -> InvocationPc \cup SweeperPc]
    /\ at \in [Actors -> Nat]
    /\ seen \in [Actors -> Row]
    /\ gen \in [Actors -> Nat]
    /\ todo \in [Actors -> SUBSET Item]
    /\ held \in [Actors -> Item \cup {None}]

TypeOK ==
    /\ now \in Nat
    /\ DbTypeOK
    /\ ActorTypeOK
    /\ child \in [Invocations -> [Jobs -> ChildState]]
    /\ faults \in 0 .. MaxFaults

Init ==
    /\ now = 0
    /\ row = NoRow
    /\ attempt = [i \in Invocations |-> [j \in Jobs |-> "none"]]
    /\ lease = [j \in Jobs |-> NoLease]
    /\ progress = [j \in Jobs |-> None]
    /\ pc = [a \in Actors |-> "idle"]
    /\ at = [a \in Actors |-> 0]
    /\ seen = [a \in Actors |-> NoRow]
    /\ gen = [a \in Actors |-> 0]
    /\ todo = [a \in Actors |-> {}]
    /\ held = [a \in Actors |-> None]
    /\ child = [i \in Invocations |-> [j \in Jobs |-> "none"]]
    /\ faults = 0

-----------------------------------------------------------------------------
(* Predicates that the D1 statements evaluate.                             *)

(* Mutant: the silence window one tick short.                              *)
StaleEarly(r, t) == r.updatedAt + SlotSilence - 1 <= t

(* The stale policy, for the clock value t.  The wall-clock backstop       *)
(* applies only to running rows.                                           *)
StaleAt(r, t) ==
    \/ r.updatedAt + SlotSilence <= t
    \/ r.state = "running" /\ r.startedAt + HardDead <= t

(* Mutants: a fence without owner and generation, without the state, or    *)
(* without any check.                                                      *)
FenceOfAnybody(i) == row.state = "running" /\ gen[i] > 0
FenceInAnyState(i) == row.owner = i /\ row.gen = gen[i] /\ row.inv = i
FenceUnchecked(i) == gen[i] > 0

(* The exact fence an invocation's own writes must still match.            *)
FenceHeld(i) ==
    /\ row.state = "running"
    /\ row.owner = i
    /\ row.gen = gen[i]
    /\ row.inv = i

(* The authority under which an actor reconciles: a sweeper owns a         *)
(* reconciling row, an invocation that took the slot over owns a running   *)
(* one.                                                                    *)
ReconcilerFence(a) ==
    /\ row.state = IF a \in Sweepers THEN "reconciling" ELSE "running"
    /\ row.owner = a
    /\ row.gen = gen[a]

LeaseLive(j, i, t) ==
    /\ lease[j].holder = i
    /\ lease[j].until >= t
    /\ lease[j].beat + ChildSilence > t

HasActiveChildLease(t) ==
    \E i \in Invocations, j \in Jobs :
        /\ attempt[i][j] = "owned" \/ progress[j] = i
        /\ LeaseLive(j, i, t)

OpenAttempt(i) == \E j \in Jobs : attempt[i][j] \in Open

(* Mutant: an attempt whose lease owner is known is not counted.           *)
UnownedAttempt == \E i \in Invocations, j \in Jobs : attempt[i][j] = "open"

AnyOpenAttempt == \E i \in Invocations : OpenAttempt(i)

Evidence(j) ==
    \/ progress[j] # None
    \/ \E i \in Invocations : attempt[i][j] # "none"

(* upsertCronProgress: a report of another owner is overwritten only when  *)
(* that owner has no unexpired lease.                                      *)
ProgressAfterReport(i, j) ==
    IF progress[j] \in {None, i} \/ ~(lease[j].holder = progress[j] /\ lease[j].until >= now)
    THEN i ELSE progress[j]

(* An actor that leaves the protocol forgets what it read.  A sweeper's    *)
(* next pass works under an owner id and a generation of its own.          *)
Forget(a, where) ==
    /\ pc' = [pc EXCEPT ![a] = where]
    /\ at' = [at EXCEPT ![a] = IF where \in {"idle", "done"} THEN 0 ELSE @]
    /\ gen' = [gen EXCEPT ![a] = IF a \in Sweepers THEN 0 ELSE @]
    /\ seen' = [seen EXCEPT ![a] = NoRow]
    /\ todo' = [todo EXCEPT ![a] = {}]
    /\ held' = [held EXCEPT ![a] = None]

Goto(a, where) ==
    /\ pc' = [pc EXCEPT ![a] = where]
    /\ UNCHANGED <<at, seen, gen, todo, held>>

Leave(a) == Forget(a, IF a \in Sweepers THEN "idle" ELSE "done")

Admit(a, g, where) ==
    /\ pc' = [pc EXCEPT ![a] = where]
    /\ gen' = [gen EXCEPT ![a] = g]
    /\ UNCHANGED <<at, seen, todo, held>>

-----------------------------------------------------------------------------
(* Claiming the slot.  A D1 statement that the transport retries after it  *)
(* committed reports zero changes (answered = FALSE): its issuer must read *)
(* the row back.                                                           *)

(* The event handler starts; the clock value it captures is used in every  *)
(* claim statement.                                                        *)
Enter(i) ==
    /\ pc[i] = "idle"
    /\ now < Horizon
    /\ i \in CatchUps => now >= Grace
    /\ pc' = [pc EXCEPT ![i] = "insert"]
    /\ at' = [at EXCEPT ![i] = now]
    /\ UNCHANGED <<now, dbVars, seen, gen, todo, held, child>>

(* Mutants: a claim that dates itself back by a silence window; one that   *)
(* does not advance the generation of the row it takes.                    *)
ClaimedRowBackdated(i, g) ==
    [state |-> "running", owner |-> i, gen |-> g, inv |-> i,
     startedAt |-> at[i] - SlotSilence, updatedAt |-> at[i], result |-> "none",
     catchUp |-> i \in CatchUps, marked |-> row.marked]

ClaimedRowSameGeneration(i, g) ==
    [state |-> "running", owner |-> i,
     gen |-> IF row.state = "absent" THEN g ELSE row.gen, inv |-> i,
     startedAt |-> at[i], updatedAt |-> at[i], result |-> "none",
     catchUp |-> i \in CatchUps, marked |-> row.marked]

(* The row as a claim of invocation i at generation g writes it: a scheduled *)
(* claim or takeover writes metadata without a catch-up marker.              *)
ClaimedRow(i, g) ==
    [state |-> "running", owner |-> i, gen |-> g, inv |-> i,
     startedAt |-> at[i], updatedAt |-> at[i], result |-> "none",
     catchUp |-> i \in CatchUps, marked |-> row.marked]

Insert(i, answered) ==
    /\ pc[i] = "insert"
    /\ \/ /\ row.state = "absent"
          /\ row' = ClaimedRow(i, 1)
          /\ IF answered THEN Admit(i, 1, "stamp") ELSE Goto(i, "reread")
       \/ /\ answered /\ row.state # "absent"
          /\ Goto(i, "reread")
          /\ UNCHANGED row
    /\ UNCHANGED <<now, attempt, lease, progress, child>>

SeeRow(a, where) ==
    /\ pc' = [pc EXCEPT ![a] = where]
    /\ seen' = [seen EXCEPT ![a] = row]
    /\ UNCHANGED <<at, gen, todo, held>>

(* A scheduled delivery reads the row it could not insert: a finished slot *)
(* is a duplicate, its own generation-1 row is a claim whose answer was    *)
(* lost, a stale one may be taken over.                                    *)
RereadScheduled(i) ==
    /\ pc[i] = "reread" /\ i \in Scheduled
    /\ \/ /\ row.state # "finished"
          /\ row.owner = i
          /\ row.state = "running" /\ row.gen = 1 /\ row.inv = i
          /\ Admit(i, 1, "stamp")
       \/ /\ row.state # "finished"
          /\ row.owner # i
          /\ StaleAt(row, at[i])
          /\ SeeRow(i, "probe")
       \/ /\ \/ row.state = "finished"
             \/ row.owner = i /\ ~(row.state = "running" /\ row.gen = 1 /\ row.inv = i)
             \/ row.owner # i /\ ~StaleAt(row, at[i])
          /\ Leave(i)
    /\ UNCHANGED <<now, dbVars, child>>

Reopenable(r) == r.state = "finished" /\ r.result = "stale" /\ ~r.catchUp

(* A catch-up only ever reopens the terminal of an abandoned slot.         *)
RereadCatchUp(i) ==
    /\ pc[i] = "reread" /\ i \in CatchUps
    /\ IF Reopenable(row) THEN SeeRow(i, "reopen") ELSE Leave(i)
    /\ UNCHANGED <<now, dbVars, child>>

(* A slot whose child still holds a live lease is left alone, by a claim   *)
(* and by a sweep alike.                                                   *)
Probe(a) ==
    /\ pc[a] = "probe"
    /\ IF HasActiveChildLease(at[a]) THEN Leave(a)
       ELSE Goto(a, IF a \in Sweepers THEN "claim" ELSE "takeover")
    /\ UNCHANGED <<now, dbVars, child>>

SameAsSeen(a) ==
    /\ row.owner = seen[a].owner
    /\ row.gen = seen[a].gen
    /\ row.updatedAt = seen[a].updatedAt

Takeover(i, answered) ==
    /\ pc[i] = "takeover"
    /\ \/ /\ row.state = "running" /\ SameAsSeen(i) /\ StaleAt(row, at[i])
          /\ row' = ClaimedRow(i, row.gen + 1)
          /\ IF answered THEN Admit(i, seen[i].gen + 1, "list") ELSE Goto(i, "confirm")
       \/ /\ answered
          /\ ~(row.state = "running" /\ SameAsSeen(i) /\ StaleAt(row, at[i]))
          /\ Goto(i, "confirm")
          /\ UNCHANGED row
    /\ UNCHANGED <<now, attempt, lease, progress, child>>

Reopen(i, answered) ==
    /\ pc[i] = "reopen"
    /\ \/ /\ Reopenable(row) /\ row.gen = seen[i].gen
          /\ row' = ClaimedRow(i, row.gen + 1)
          /\ IF answered THEN Admit(i, seen[i].gen + 1, "stamp") ELSE Goto(i, "confirm")
       \/ /\ answered
          /\ ~(Reopenable(row) /\ row.gen = seen[i].gen)
          /\ Goto(i, "confirm")
          /\ UNCHANGED row
    /\ UNCHANGED <<now, attempt, lease, progress, child>>

(* Zero changes: the claim stands if the row carries exactly the fence it  *)
(* would have written.                                                     *)
Confirm(i) ==
    /\ pc[i] = "confirm"
    /\ IF row.state = "running" /\ row.owner = i /\ row.inv = i /\ row.gen = seen[i].gen + 1
       THEN Admit(i, seen[i].gen + 1, IF i \in CatchUps THEN "stamp" ELSE "list")
       ELSE Leave(i)
    /\ UNCHANGED <<now, dbVars, child>>

(* Admitted: stamp child_marker_version under the fence, or find it gone.  *)
Stamp(i) ==
    /\ pc[i] = "stamp"
    /\ IF FenceHeld(i)
       THEN row' = [row EXCEPT !.marked = TRUE] /\ Goto(i, "run")
       ELSE UNCHANGED row /\ Goto(i, "cleanup")
    /\ UNCHANGED <<now, attempt, lease, progress, child>>

ClaimPc == {"insert", "reread", "probe", "takeover", "reopen", "confirm",
            "list", "sift", "clear", "delete", "record", "stamp"}

(* A checkpoint past the deadline, or a statement that failed for good,    *)
(* ends the claim; nothing has run, so the row may still be closed.        *)
AbortClaim(i) ==
    /\ i \in Invocations /\ pc[i] \in ClaimPc
    /\ Forget(i, "cleanup")
    /\ UNCHANGED <<now, dbVars, child>>

-----------------------------------------------------------------------------
(* Reconciling what a silent owner left, after a takeover or in a sweep.   *)

Piece(kind, i, j) == [kind |-> kind, inv |-> i, job |-> j, leased |-> FALSE]

Listed ==
    {Piece("missing", None, j) :
        j \in {k \in Jobs : progress[k] = None /\ \A i \in Invocations : attempt[i][k] \notin Open}}
    \cup
    {Piece(IF attempt[p[1]][p[2]] = "owned" \/ progress[p[2]] = p[1] THEN "owned" ELSE "ownerless",
           p[1], p[2]) :
        p \in {q \in Invocations \X Jobs : attempt[q[1]][q[2]] \in Open}}
    \cup
    {Piece("progress", progress[j], j) :
        j \in {k \in Jobs : progress[k] # None /\ attempt[progress[k]][k] \notin Open}}

List(a) ==
    /\ pc[a] = "list"
    /\ todo' = [todo EXCEPT ![a] = Listed]
    /\ pc' = [pc EXCEPT ![a] = "sift"]
    /\ UNCHANGED <<now, dbVars, at, seen, gen, held, child>>

(* A second look for evidence of every missing job, before any is settled. *)
SecondLook(a) ==
    /\ pc[a] = "sift"
    /\ \E x \in todo[a] :
        /\ x.kind = "missing"
        /\ todo' = [todo EXCEPT ![a] =
              (@ \ {x}) \cup {y \in {Piece("unseen", None, x.job)} :
                                 ~Evidence(y.job) /\ ReconcilerFence(a)}]
    /\ UNCHANGED <<now, dbVars, pc, at, seen, gen, held, child>>

(* Missing jobs first, then evidence without a lease owner, then the rest. *)
Rank == [missing |-> 0, unseen |-> 1, ownerless |-> 2, owned |-> 3, progress |-> 3]

LeaseKinds == {"owned", "progress"}

(* The read that decides whether an item is settled: the fence, or the     *)
(* lease of the evidence's owner.                                          *)
Worthwhile(a, x) ==
    /\ x.kind = "ownerless" => ReconcilerFence(a)
    /\ x.kind \in LeaseKinds => ~LeaseLive(x.job, x.inv, at[a])

Judged(x) == [kind |-> x.kind, inv |-> x.inv, job |-> x.job,
              leased |-> lease[x.job].holder = x.inv]

Sift(a) ==
    /\ pc[a] = "sift"
    /\ \E x \in todo[a] :
        /\ x.kind # "missing"
        /\ \A y \in todo[a] : Rank[x.kind] <= Rank[y.kind]
        /\ todo' = [todo EXCEPT ![a] = @ \ {x}]
        /\ IF Worthwhile(a, x)
           THEN /\ held' = [held EXCEPT ![a] = Judged(x)]
                /\ pc' = [pc EXCEPT ![a] = IF x.kind \in LeaseKinds THEN "clear" ELSE "record"]
           ELSE UNCHANGED <<held, pc>>
    /\ UNCHANGED <<now, dbVars, at, seen, gen, child>>

Drop(a) ==
    /\ held' = [held EXCEPT ![a] = None]
    /\ pc' = [pc EXCEPT ![a] = "sift"]
    /\ UNCHANGED <<at, seen, gen, todo>>

(* The fence is read before the evidence of the item is deleted.           *)
Clear(a) ==
    /\ pc[a] = "clear"
    /\ IF ReconcilerFence(a) THEN Goto(a, "delete") ELSE Drop(a)
    /\ UNCHANGED <<now, dbVars, child>>

(* The delete compares the lease again: one that was there is there and    *)
(* dead, or one that was not there is not there and the fence still holds. *)
Deletable(a, x) ==
    /\ progress[x.job] = x.inv
    /\ ~LeaseLive(x.job, x.inv, at[a])
    /\ IF x.leased THEN lease[x.job].holder = x.inv
       ELSE lease[x.job].holder # x.inv /\ ReconcilerFence(a)

(* Delete the progress row that was listed.  A zombie's newer report       *)
(* survives it.  Evidence without an attempt is recorded only if its row   *)
(* was deleted.                                                            *)
Delete(a) ==
    /\ pc[a] = "delete"
    /\ LET x == held[a]
       IN  \/ /\ Deletable(a, x)
              /\ progress' = [progress EXCEPT ![x.job] = None]
              /\ Goto(a, "record")
           \/ /\ Deletable(a, x) => child[x.inv][x.job] \in Active
              /\ IF x.kind = "owned" THEN Goto(a, "record") ELSE Drop(a)
              /\ UNCHANGED progress
    /\ UNCHANGED <<now, row, attempt, lease, child>>

(* Whose attempt the synthetic terminal of an item settles.  Without an    *)
(* attempt row the identity is that of the slot row as it was seen.        *)
Target(a, x) == IF x.kind \in {"ownerless", "owned"} THEN x.inv ELSE seen[a].inv

SyntheticStatus(a, x) ==
    IF x.kind # "unseen" THEN "abandoned"
    ELSE IF seen[a].marked THEN "notStarted" ELSE "unknown"

(* The attempt key holds the generation: a row seen reconciling names no   *)
(* attempt that its invocation opened.                                     *)
Settles(a, x, status) ==
    \/ status \in Open /\ (x.kind \in {"ownerless", "owned"} \/ seen[a].state = "running")
    \/ status = "none" /\ x.kind \in {"unseen", "progress"}

(* Mutant: the lease judged dead a while ago is removed unseen.            *)
LeaseOnceDead(a, x) ==
    x.kind \in LeaseKinds /\ x.leased /\ lease[x.job].holder = x.inv

(* The lease that was judged is still its owner's and still dead.          *)
LeaseStillDead(a, x) ==
    /\ x.kind \in LeaseKinds /\ x.leased
    /\ lease[x.job].holder = x.inv
    /\ ~LeaseLive(x.job, x.inv, at[a])

(* The synthetic terminal, written only where none exists and under the    *)
(* reconciler's fence; then a dead lease is removed.                       *)
Record(a) ==
    /\ pc[a] = "record"
    /\ LET x == held[a]
           i == Target(a, x)
           accepted == ReconcilerFence(a) /\ Settles(a, x, attempt[i][x.job])
       IN  /\ attempt' = IF accepted
                         THEN [attempt EXCEPT ![i][x.job] = SyntheticStatus(a, x)]
                         ELSE attempt
           /\ lease' = IF LeaseStillDead(a, x)
                       THEN [lease EXCEPT ![x.job] = NoLease] ELSE lease
    /\ Drop(a)
    /\ UNCHANGED <<now, row, progress, child>>

Reconciled(a) ==
    /\ pc[a] = "sift" /\ todo[a] = {}
    /\ Goto(a, IF a \in Sweepers THEN "close" ELSE "stamp")
    /\ UNCHANGED <<now, dbVars, child>>

-----------------------------------------------------------------------------
(* Sweeps.                                                                 *)

(* Mutant: a row parked in reconciling is never listed.                    *)
ListRunning(s) ==
    /\ s \in Sweepers /\ pc[s] = "idle"
    /\ row.state = "running" /\ StaleAt(row, now)
    /\ pc' = [pc EXCEPT ![s] = "probe"]
    /\ at' = [at EXCEPT ![s] = now]
    /\ seen' = [seen EXCEPT ![s] = row]
    /\ UNCHANGED <<now, dbVars, gen, todo, held, child>>

ListStale(s) ==
    /\ s \in Sweepers /\ pc[s] = "idle"
    /\ row.state \in {"running", "reconciling"}
    /\ StaleAt(row, now)
    /\ pc' = [pc EXCEPT ![s] = "probe"]
    /\ at' = [at EXCEPT ![s] = now]
    /\ seen' = [seen EXCEPT ![s] = row]
    /\ UNCHANGED <<now, dbVars, gen, todo, held, child>>

(* Nobody reads this claim back: a committed one that reports zero changes *)
(* leaves the row reconciling until it is stale again.                     *)
ClaimStale(s, answered) ==
    /\ s \in Sweepers /\ pc[s] = "claim"
    /\ \/ /\ row.state = seen[s].state /\ SameAsSeen(s) /\ StaleAt(row, at[s])
          /\ row' = [row EXCEPT !.state = "reconciling", !.owner = s,
                                !.gen = seen[s].gen + 1, !.updatedAt = at[s]]
          /\ IF answered THEN Admit(s, seen[s].gen + 1, "list") ELSE Leave(s)
       \/ /\ answered
          /\ ~(row.state = seen[s].state /\ SameAsSeen(s) /\ StaleAt(row, at[s]))
          /\ Leave(s)
          /\ UNCHANGED row
    /\ UNCHANGED <<now, attempt, lease, progress, child>>

(* The slot is closed only when nothing of its children is left open; a    *)
(* refused close is an error of the sweep and the row stays reconciling.   *)
FinishStale(s) ==
    /\ s \in Sweepers /\ pc[s] = "close"
    /\ row' = IF ReconcilerFence(s) /\ ~AnyOpenAttempt /\ \A j \in Jobs : progress[j] = None
              THEN [row EXCEPT !.state = "finished", !.result = "stale", !.updatedAt = at[s]]
              ELSE row
    /\ Leave(s)
    /\ UNCHANGED <<now, attempt, lease, progress, child>>

SweeperCrash(s) ==
    /\ s \in Sweepers /\ pc[s] # "idle"
    /\ Leave(s)
    /\ UNCHANGED <<now, dbVars, child>>

-----------------------------------------------------------------------------
(* Running the slot under the fence, and closing it.                       *)

Settled(i) == \A j \in Jobs : child[i][j] \notin Active

(* Heartbeats keep running while aborted work settles; zero changes mean   *)
(* the fence is gone and abort the work.  A failed one is only counted.    *)
Heartbeat(i) ==
    /\ pc[i] \in {"run", "drain"}
    /\ \/ /\ FenceHeld(i) /\ row.updatedAt < now
          /\ row' = [row EXCEPT !.updatedAt = now]
          /\ UNCHANGED actorVars
       \/ /\ ~FenceHeld(i) /\ pc[i] = "run"
          /\ Goto(i, "drain")
          /\ UNCHANGED row
    /\ UNCHANGED <<now, attempt, lease, progress, child>>

(* The deadline, or the slot function failing.                             *)
AbortRun(i) ==
    /\ pc[i] = "run"
    /\ Goto(i, "drain")
    /\ UNCHANGED <<now, dbVars, child>>

(* Aborted work that has not settled within its grace is left behind       *)
(* without any terminal write: the row keeps running until it is stale.    *)
EndDrain(i) ==
    /\ pc[i] = "drain"
    /\ Goto(i, IF Settled(i) THEN "finishError" ELSE "gone")
    /\ UNCHANGED <<now, dbVars, child>>

WorkDone(i) ==
    /\ pc[i] = "run"
    /\ \A j \in Jobs : child[i][j] \in {"refused", "done", "lost"}
    /\ Goto(i, "finish")
    /\ UNCHANGED <<now, dbVars, child>>

(* finishScheduledSlotExecution: only the same generation's attempts are   *)
(* required to be terminal.                                                *)
Finishable(i) == FenceHeld(i) /\ ~OpenAttempt(i)

(* A finish that changes nothing, or whose answer is lost, sends its       *)
(* issuer to finish as an error; so does one that never ran (FinishFails). *)
Finish(i, answered) ==
    /\ pc[i] = "finish"
    /\ \/ /\ Finishable(i)
          /\ \E result \in {"ok", "error"} :
                /\ result = "ok" => \A j \in Jobs : child[i][j] = "done"
                /\ row' = [row EXCEPT !.state = "finished", !.result = result,
                                      !.updatedAt = now, !.catchUp = i \in CatchUps]
          /\ Forget(i, IF answered THEN "done" ELSE "finishError")
       \/ answered /\ ~Finishable(i) /\ Forget(i, "finishError") /\ UNCHANGED row
    /\ UNCHANGED <<now, attempt, lease, progress, child>>

FinishError(i) ==
    /\ pc[i] = "finishError"
    /\ row' = IF Finishable(i)
              THEN [row EXCEPT !.state = "finished", !.result = "error",
                               !.updatedAt = now, !.catchUp = i \in CatchUps]
              ELSE row
    /\ Forget(i, "cleanup")
    /\ UNCHANGED <<now, attempt, lease, progress, child>>

(* The outermost handler of a failed invocation closes the row it still    *)
(* owns, whatever the generation, when no child of any generation is open. *)
Cleanup(i) ==
    /\ pc[i] = "cleanup"
    /\ row' = IF row.state = "running" /\ row.owner = i /\ ~AnyOpenAttempt
              THEN [row EXCEPT !.state = "finished", !.result = "error",
                               !.gen = @ + 1, !.updatedAt = now]
              ELSE row
    /\ Forget(i, "done")
    /\ UNCHANGED <<now, attempt, lease, progress, child>>

(* A closing statement that D1 never executes.                             *)
FinishFails(i) ==
    /\ \/ pc[i] = "finish" /\ Forget(i, "finishError")
       \/ pc[i] = "finishError" /\ Forget(i, "cleanup")
       \/ pc[i] = "cleanup" /\ Forget(i, "done")
    /\ UNCHANGED <<now, dbVars, child>>

-----------------------------------------------------------------------------
(* Children: logCronRun around runCronWithLease.                           *)

SetChild(i, j, state) == child' = [child EXCEPT ![i][j] = state]

(* No marker, no work: the attempt is inserted under the fence and read    *)
(* back; when the read fails, or finds the fence gone, an open attempt is  *)
(* left that nobody runs.                                                  *)
ChildStart(i, j, answered) ==
    /\ pc[i] = "run" /\ child[i][j] = "none"
    /\ attempt' = IF FenceHeld(i) /\ attempt[i][j] = "none"
                  THEN [attempt EXCEPT ![i][j] = "open"] ELSE attempt
    /\ SetChild(i, j, IF FenceHeld(i) /\ attempt[i][j] \notin Terminal /\ answered
                      THEN "started" ELSE "refused")
    /\ UNCHANGED <<now, row, lease, progress, actorVars>>

(* Reporting the lease owner: the attempt's lease_owner and the progress   *)
(* row are written one after the other, and either write may fail.         *)
ReportOwner(i, j, owned, reported) ==
    /\ attempt' = [attempt EXCEPT ![i][j] = IF owned /\ @ = "open" THEN "owned" ELSE @]
    /\ progress' = [progress EXCEPT ![j] = IF reported THEN ProgressAfterReport(i, j) ELSE @]

ChildLease(i, j, owned, reported) ==
    /\ child[i][j] = "started"
    /\ IF lease[j].holder \in {None, i} \/ lease[j].until < now
       THEN /\ lease' = [lease EXCEPT ![j] = [holder |-> i, until |-> now + LeaseTtl, beat |-> now]]
            /\ SetChild(i, j, "leased")
            /\ UNCHANGED <<attempt, progress>>
       ELSE /\ ReportOwner(i, j, owned, reported)
            /\ SetChild(i, j, "ending")
            /\ UNCHANGED lease
    /\ UNCHANGED <<now, row, actorVars>>

ChildBody(i, j, owned, reported) ==
    /\ child[i][j] = "leased"
    /\ ReportOwner(i, j, owned, reported)
    /\ SetChild(i, j, "body")
    /\ UNCHANGED <<now, row, lease, actorVars>>

(* Renewal stops with the abort signal; a renewal that changes nothing     *)
(* aborts the child.                                                       *)
ChildRenew(i, j) ==
    /\ pc[i] = "run" /\ child[i][j] \in {"leased", "body"}
    /\ \/ /\ lease[j].holder = i /\ lease[j].beat < now
          /\ lease' = [lease EXCEPT ![j] = [holder |-> i, until |-> now + LeaseTtl, beat |-> now]]
          /\ UNCHANGED child
       \/ /\ lease[j].holder # i
          /\ SetChild(i, j, "ending")
          /\ UNCHANGED lease
    /\ UNCHANGED <<now, row, attempt, progress, actorVars>>

(* A running body reports progress, also after the evidence was cleared.   *)
ChildReport(i, j) ==
    /\ child[i][j] = "body"
    /\ ProgressAfterReport(i, j) # progress[j]
    /\ progress' = [progress EXCEPT ![j] = ProgressAfterReport(i, j)]
    /\ UNCHANGED <<now, row, attempt, lease, actorVars, child>>

(* The body settles, or never ran: the lease is released, or left to its   *)
(* TTL when the work did not settle or the release failed.                 *)
ChildEnd(i, j, released) ==
    /\ child[i][j] \in {"started", "leased", "body"}
    /\ SetChild(i, j, "ending")
    /\ lease' = IF released /\ lease[j].holder = i THEN [lease EXCEPT ![j] = NoLease] ELSE lease
    /\ UNCHANGED <<now, row, attempt, progress, actorVars>>

(* The real terminal, under the same fence; then the child's own progress  *)
(* row is cleared.                                                         *)
ChildTerminal(i, j, written, cleared) ==
    /\ child[i][j] = "ending"
    /\ IF written /\ FenceHeld(i) /\ attempt[i][j] \in Open
       THEN /\ attempt' = [attempt EXCEPT ![i][j] = "real"]
            /\ SetChild(i, j, "done")
       ELSE SetChild(i, j, "lost") /\ UNCHANGED attempt
    /\ progress' = [progress EXCEPT ![j] = IF cleared /\ @ = i THEN None ELSE @]
    /\ UNCHANGED <<now, row, lease, actorVars>>

-----------------------------------------------------------------------------
(* The platform and the clock.                                             *)

Alive(a) == pc[a] \notin {"idle", "done"}

KillChildren(i) ==
    child' = [child EXCEPT ![i] = [j \in Jobs |-> IF @[j] \in Active THEN "lost" ELSE @[j]]]

(* An isolate may die at any point; the platform ends one that has reached *)
(* its wall-clock limit.                                                   *)
Crash(i) ==
    /\ Alive(i)
    /\ Forget(i, "done")
    /\ KillChildren(i)
    /\ UNCHANGED <<now, dbVars>>

PlatformKill(i) ==
    /\ Alive(i) /\ now - at[i] >= Wall
    /\ Forget(i, "done")
    /\ KillChildren(i)
    /\ UNCHANGED <<now, dbVars>>

(* When Timely, the clock waits for claim and closing statements and for   *)
(* the heartbeat of a live owner.                                          *)
Late(i) ==
    \/ pc[i] \in ClaimPc \cup {"finish", "finishError", "cleanup"}
    \/ pc[i] \in {"run", "drain"} /\ FenceHeld(i) /\ row.updatedAt < now

Tick ==
    /\ now < MaxTime
    /\ now < Horizon \/ row.state \in {"running", "reconciling"} \/ \E i \in Invocations : Alive(i)
    /\ \A a \in Actors : Alive(a) => now + 1 - at[a] <= Wall
    /\ Timely => \A i \in Invocations : ~Late(i)
    /\ now' = now + 1
    /\ UNCHANGED <<dbVars, actorVars, child>>

Reconcile(a) ==
    \/ List(a) \/ SecondLook(a) \/ Sift(a) \/ Clear(a) \/ Delete(a) \/ Record(a) \/ Reconciled(a)

InvocationStep(i) ==
    \/ Enter(i) \/ Insert(i, TRUE) \/ RereadScheduled(i) \/ RereadCatchUp(i)
    \/ Probe(i) \/ Takeover(i, TRUE) \/ Reopen(i, TRUE) \/ Confirm(i) \/ Stamp(i)
    \/ Reconcile(i)
    \/ Heartbeat(i) \/ EndDrain(i) \/ WorkDone(i)
    \/ Finish(i, TRUE) \/ FinishError(i) \/ Cleanup(i)

ChildStep(i, j) ==
    \/ ChildStart(i, j, TRUE)
    \/ ChildLease(i, j, TRUE, TRUE) \/ ChildBody(i, j, TRUE, TRUE)
    \/ ChildRenew(i, j) \/ ChildReport(i, j)
    \/ ChildEnd(i, j, TRUE) \/ ChildTerminal(i, j, TRUE, TRUE)

SweepStep(s) ==
    \/ ListStale(s) \/ Probe(s) \/ ClaimStale(s, TRUE) \/ Reconcile(s) \/ FinishStale(s)

(* Everything that goes wrong by itself: crashes, aborts, statements that  *)
(* are not executed and answers that are lost.                             *)
Fault ==
    \/ \E i \in Invocations :
          \/ Insert(i, FALSE) \/ Takeover(i, FALSE) \/ Reopen(i, FALSE) \/ Finish(i, FALSE)
          \/ AbortClaim(i) \/ AbortRun(i) \/ FinishFails(i) \/ Crash(i)
    \/ \E i \in Invocations, j \in Jobs :
          \/ ChildStart(i, j, FALSE) \/ ChildEnd(i, j, FALSE)
          \/ \E first, second \in BOOLEAN :
                /\ ~(first /\ second)
                /\ \/ ChildLease(i, j, first, second)
                   \/ ChildBody(i, j, first, second)
                   \/ ChildTerminal(i, j, first, second)
    \/ \E s \in Sweepers : ClaimStale(s, FALSE) \/ SweeperCrash(s)

Next ==
    \/ /\ \/ \E i \in Invocations : InvocationStep(i) \/ PlatformKill(i)
          \/ \E i \in Invocations, j \in Jobs : ChildStep(i, j)
          \/ \E s \in Sweepers : SweepStep(s)
          \/ Tick
       /\ UNCHANGED faults
    \/ /\ Fault
       /\ faults < MaxFaults /\ now + SlotSilence <= MaxTime
       /\ faults' = faults + 1

Spec == Init /\ [][Next]_vars

(* What the platform guarantees: time passes, an isolate at its wall-clock *)
(* limit is ended, and the sweeping hosts keep being scheduled.            *)
FairSpec ==
    /\ Spec
    /\ WF_vars(Tick /\ UNCHANGED faults)
    /\ \A i \in Invocations : WF_vars(PlatformKill(i) /\ UNCHANGED faults)
    /\ \A s \in Sweepers : WF_vars(SweepStep(s) /\ UNCHANGED faults)

-----------------------------------------------------------------------------
(* What must be true.                                                      *)

(* No two actors ever work under the same execution generation: the fence  *)
(* (owner, generation) that claimScheduledSlotExecution and the sweep hand *)
(* out names one holder, however their statements and lost answers mix.    *)
GenerationsDistinct ==
    \A a, b \in Actors : gen[a] > 0 /\ gen[a] = gen[b] => a = b

(* A slot that says ok has, for its last owner, a real terminal of every   *)
(* child: no synthetic or missing one hides behind a success.              *)
SuccessIsReal ==
    row.state = "finished" /\ row.result = "ok" => \A j \in Jobs : attempt[row.inv][j] = "real"

(* A child that the ledger calls not started (or of unknown execution)     *)
(* never ran, although the reconciler decided so from several reads while  *)
(* the old owner may still have been alive.                                *)
NotStartedNeverRan ==
    \A i \in Invocations, j \in Jobs :
        attempt[i][j] \in {"notStarted", "unknown"} => child[i][j] \in {"none", "refused"}

(* A slot closed as abandoned - the only one a catch-up may reopen - left  *)
(* no attempt open, of any generation.                                     *)
AbandonedIsSettled ==
    row.state = "finished" /\ row.result = "stale" =>
        \A i \in Invocations, j \in Jobs : attempt[i][j] \notin {"open", "owned"}

(* The terminal of a slot that its own invocation closed is never touched  *)
(* again: no reconciler, takeover, catch-up or late continuation rewrites  *)
(* it.                                                                     *)
OwnTerminalStays ==
    [][row.state = "finished" /\ row.result \in {"ok", "error"} => row' = row]_vars

(* A real child terminal is accepted only from the invocation with the     *)
(* newest admission: a superseded one, alive or late, writes none.         *)
SupersededWritesNothing ==
    [][\A i \in Invocations, j \in Jobs :
         attempt[i][j] # "real" /\ attempt'[i][j] = "real" =>
            \A a \in Actors : gen[a] <= gen[i]]_vars

(* The first terminal of an attempt wins, whoever wrote it.                *)
FirstTerminalWins ==
    [][\A i \in Invocations, j \in Jobs :
         attempt[i][j] \in Terminal => attempt'[i][j] = attempt[i][j]]_vars

(* A lease that is alive leaves its holder only by the holder's own        *)
(* release: a reconciler that judged it dead some time ago does not remove *)
(* it, and no other run of the job takes it.                               *)
LiveLeaseStays ==
    [][\A i \in Invocations, j \in Jobs :
         LeaseLive(j, i, now) => lease'[j].holder = i \/ child'[i][j] = "ending"]_vars

(* With heartbeats and statements in time (Timely), no stale policy takes  *)
(* the slot from an invocation that works under it.                        *)
LiveOwnerKeepsSlot ==
    [][\A i \in Invocations :
         pc[i] \in {"run", "drain", "finish"} /\ FenceHeld(i) =>
            FenceHeld(i)' \/ pc'[i] \in {"finishError", "done"}]_vars

(* docs/process/worker-infrastructure-appendix.md: "Slot completion        *)
(* requires every started attempt to have a terminal token".               *)
CompletionIsSettled ==
    row.state = "finished" => \A i \in Invocations, j \in Jobs : attempt[i][j] \notin {"open", "owned"}

(* Whoever dies and wherever, the slot is eventually closed.               *)
AbandonedSlotCloses ==
    row.state \in {"running", "reconciling"} ~> row.state = "finished"
=============================================================================
