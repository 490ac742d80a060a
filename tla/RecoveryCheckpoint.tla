-------------------------- MODULE RecoveryCheckpoint --------------------------
(***************************************************************************)
(* The checkpoint of a four-hourly reserve cohort: its producer works      *)
(* through a queue of coins, one slice per invocation, and the rest is     *)
(* taken on by later invocations, a poll of the recovery cron or a Queue   *)
(* delivery, which the checkpoint's row alone arbitrates.                  *)
(*                                                                         *)
(* One cohort, one queue hash.  A D1 statement or batch is one action.     *)
(* Clocks are left out: a lease or a heartbeat lapses at any moment, of a  *)
(* living process at the cost of a fault.  Producer priority and the       *)
(* global reserve-recovery lease (CronLease) only keep claims back, so     *)
(* claims are made here whether they are free or not.                      *)
(***************************************************************************)
EXTENDS Integers, Sequences, FiniteSets

CONSTANTS
    CoinCount,      \* SYNC_ORDERED_CONFIGURED_COINS.length
    MaxOwners,      \* bound: invocations that work on the cohort
    MaxFaults,      \* bound: crashes, lapses and failures
    Takers          \* polls of the recovery cron, which may overlap

ASSUME CountAssumption ==
    CoinCount \in Nat \ {0} /\ MaxOwners \in Nat \ {0} /\ MaxFaults \in Nat

Coins == 1 .. CoinCount
Owners == 1 .. MaxOwners
Producer == 1

VARIABLES
    rows,    \* worker_scheduled_checkpoints, by attempt_no
    coin,    \* reserve_sync_state, and what was published
    event,   \* the invocations' rows: slot executions, continuation executions
    owner,   \* what each invocation has in memory
    queue,   \* the messages sent
    look,    \* what each takeover has read
    tried,   \* history: coins of which the cohort has an outcome
    tailed,  \* history: coins that had one when the consumers first ran
    left,    \* history: attempts under way in a row when it was given up
    unread,  \* history: those of them begun after the takeover had read it
    faults   \* how many failures there have been

vars == <<rows, coin, event, owner, queue, look, tried, tailed, left, unread, faults>>

NoAttempt == [coin |-> 0, n |-> 0]
Attempt == {NoAttempt} \cup [coin : Coins, n : Nat]

Held == {"running", "recovering"}
Active == Held \cup {"ready"}
Ended == {"completed", "failed"}
Child == {"not_started", "running", "continuation_pending", "completed", "failed"}

(* inv is 0 until a prepared row is claimed; next is 0 when the queue is   *)
(* exhausted; lease says that recovery_lease_until is ahead.  items_done   *)
(* is Done(r), and execution_generation is attempt_no.                     *)
Row == [state : Active \cup Ended \cup {"platform_abandoned"}, inv : 0 .. MaxOwners,
        next : 0 .. CoinCount, current : 0 .. CoinCount, domain : Attempt,
        lease : BOOLEAN, sync : Child, tail : Child]
Exhausted(r) == r.next = 0
Done(r) == IF Exhausted(r) THEN CoinCount ELSE r.next - 1

Owner == [pc : {"none", "begin", "start", "resume", "work", "fetch", "stopped", "handoff",
                "tail", "close", "finish", "send", "gone"},
          kind : {"producer", "cron", "queue"}, attempt : Nat, coin : 0 .. CoinCount,
          try : Nat, took : BOOLEAN, late : BOOLEAN, ok : BOOLEAN, chain : BOOLEAN]
Fresh(kind, pc, attempt) ==
    [pc |-> pc, kind |-> kind, attempt |-> attempt, coin |-> 0, try |-> 0,
     took |-> FALSE, late |-> FALSE, ok |-> TRUE, chain |-> FALSE]
Gone(o) == Fresh(IF event[o] \in {"ok", "bad"} THEN "cron" ELSE owner[o].kind, "gone", 0)

NoLook == [stage |-> "none"]
Seen == {NoLook, [stage |-> "found"]} \cup [stage : {"read"}, attempt : Nat, row : Row]

TypeOK ==
    /\ rows \in Seq(Row)
    /\ coin \in [Coins -> [last : Nat, pending : BOOLEAN, published : SUBSET Nat]]
    /\ event \in [Owners -> {"none", "running", "silent", "ok", "bad"}]
    /\ owner \in [Owners -> Owner]
    /\ \A m \in queue : m \in [attempt : Nat, source : Owners, next : 0 .. CoinCount]
    /\ look \in [Takers -> Seen]
    /\ tried \in SUBSET Coins /\ tailed \in SUBSET Coins
    /\ left \in SUBSET Attempt /\ unread \in SUBSET Attempt
    /\ faults \in 0 .. MaxFaults

Init ==
    /\ rows = <<>>
    /\ coin = [c \in Coins |-> [last |-> 0, pending |-> FALSE, published |-> {}]]
    /\ event = [o \in Owners |-> IF o = Producer THEN "running" ELSE "none"]
    /\ owner = [o \in Owners |-> IF o = Producer THEN Fresh("producer", "begin", 1)
                                 ELSE Fresh("cron", "none", 0)]
    /\ queue = {} /\ look = [t \in Takers |-> NoLook]
    /\ tried = {} /\ tailed = Coins
    /\ left = {} /\ unread = {} /\ faults = 0

-----------------------------------------------------------------------------
(* The fence: every write of an owner names its attempt and invocation.    *)

Mine(o) == rows[owner[o].attempt]
Holds(o) == Mine(o).inv = o /\ Mine(o).state \in Held
Patch(o, r) == rows' = [rows EXCEPT ![owner[o].attempt] = r]
Goes(o, w) == owner' = [owner EXCEPT ![o] = w]
Leaves(o, ok) == Goes(o, [owner[o] EXCEPT !.pc = "finish", !.ok = ok, !.chain = FALSE])

(* ScheduledCheckpointOwnershipLostError ends the invocation's work.       *)
Fenced(o, r, w) ==
    IF Holds(o) THEN Patch(o, r) /\ Goes(o, w)
    ELSE UNCHANGED rows /\ Leaves(o, FALSE)

Renewed(r) == [r EXCEPT !.lease = (r.state = "recovering")]
Advanced(r, c) ==
    [Renewed(r) EXCEPT !.next = c, !.current = 0, !.domain = NoAttempt]
Continued(r) == [r EXCEPT !.state = "ready", !.lease = FALSE]

(* Mutant: a row ends under another name.                                  *)
FinishedOtherwise(r, state) == [r EXCEPT !.state = "done"]

Finished(r, state) ==
    [r EXCEPT !.state = state, !.current = 0, !.domain = NoAttempt, !.lease = FALSE]

After(c) == IF c = CoinCount THEN 0 ELSE c + 1

At(o, pc) == owner[o].pc = pc
DurableUnchanged == UNCHANGED <<coin, event, queue, look, tried, tailed, left, unread>>

-----------------------------------------------------------------------------
(* A slice.                                                                *)

Begin ==
    /\ At(Producer, "begin")
    /\ rows' = <<[state |-> "running", inv |-> Producer, next |-> 1, current |-> 0,
                  domain |-> NoAttempt, lease |-> FALSE,
                  sync |-> "not_started", tail |-> "not_started"]>>
    /\ Goes(Producer, [owner[Producer] EXCEPT !.pc = "start"])
    /\ DurableUnchanged /\ UNCHANGED faults

(* The sync runs unless it is completed and the queue exhausted; then the  *)
(* consumers do, unless they are completed too.                            *)
Start(o) ==
    LET r == Mine(o)
        To(pc) == [owner[o] EXCEPT !.pc = pc]
    IN
    /\ At(o, "start")
    /\ IF ~Exhausted(r) \/ r.sync # "completed" THEN Fenced(o, [r EXCEPT !.sync = "running"], To("resume"))
       ELSE IF r.tail # "completed" THEN Fenced(o, [r EXCEPT !.tail = "running"], To("tail"))
       ELSE UNCHANGED rows /\ Goes(o, To("close"))
    /\ DurableUnchanged /\ UNCHANGED faults

(* Mutant: the last attempt counts, whatever came of it.                   *)
AuthoritativeIfLast(a) == coin[a.coin].last = a.n

Authoritative(a) == a.n \in coin[a.coin].published /\ coin[a.coin].last = a.n

(* syncLiveReserves up to its queue: the coin to go on with, or the one    *)
(* after it when the attempt a dead owner left has become authoritative.   *)
Resume(o) ==
    LET r == Mine(o)
        From(c) == [owner[o] EXCEPT !.pc = IF c = 0 THEN "stopped" ELSE "work", !.coin = c]
    IN
    /\ At(o, "resume")
    /\ IF r.domain # NoAttempt /\ r.next = r.domain.coin /\ Authoritative(r.domain)
       THEN Fenced(o, Advanced(r, After(r.next)), From(After(r.next)))
       ELSE UNCHANGED rows /\ Goes(o, From(r.next))
    /\ DurableUnchanged /\ UNCHANGED faults

Started(r, c, n) ==
    [Renewed(r) EXCEPT !.next = c, !.current = c, !.domain = [coin |-> c, n |-> n]]

(* beginReserveSyncAttempt: frontier and pending attempt in one batch.     *)
BeginCoin(o) ==
    LET c == owner[o].coin
        n == coin[c].last + 1
    IN
    /\ At(o, "work") /\ c # 0
    /\ ~owner[o].late
    /\ Fenced(o, Started(Mine(o), c, n), [owner[o] EXCEPT !.pc = "fetch", !.try = n, !.took = TRUE])
    /\ coin' = IF Holds(o) THEN [coin EXCEPT ![c].last = n, ![c].pending = TRUE] ELSE coin
    /\ UNCHANGED <<event, queue, look, tried, tailed, left, unread, faults>>

(* The finalize statements are fenced by the attempt, not by the row.      *)
Pending(o) == LET c == coin[owner[o].coin] IN c.pending /\ c.last = owner[o].try

Settle(o) ==
    LET c == owner[o].coin IN
    /\ At(o, "fetch")
    /\ coin' \in IF Pending(o)
                 THEN {[coin EXCEPT ![c].pending = FALSE],
                       [coin EXCEPT ![c].pending = FALSE, ![c].published = @ \cup {owner[o].try}]}
                 ELSE {coin}
    /\ tried' = IF Pending(o) THEN tried \cup {c} ELSE tried
    /\ Goes(o, [owner[o] EXCEPT !.pc = "work", !.coin = After(c)])
    /\ UNCHANGED <<rows, event, queue, look, tailed, left, unread, faults>>

(* The end of the queue, or of the slice's budget once it has had a coin.  *)
Stop(o) ==
    /\ At(o, "work")
    /\ owner[o].coin = 0 \/ owner[o].took
    /\ Fenced(o, Advanced(Mine(o), owner[o].coin), [owner[o] EXCEPT !.pc = "stopped"])
    /\ DurableUnchanged /\ UNCHANGED faults

(* The dispositions of the sync and of the consumers that wait.            *)
Mark(o) ==
    LET r == Mine(o)
        sync == IF Exhausted(r) THEN "completed"
                ELSE IF Done(r) > 0 THEN "continuation_pending" ELSE "not_started"
    IN
    /\ At(o, "stopped")
    /\ Fenced(o, [r EXCEPT !.sync = sync, !.tail = "not_started"],
              [owner[o] EXCEPT !.pc = "handoff"])
    /\ DurableUnchanged /\ UNCHANGED faults

(* continueLiveReserveCheckpoint's own conditions, above the fence.        *)
Settled(r) == r.current = 0 /\ r.domain = NoAttempt /\ "running" \notin {r.sync, r.tail}

HandOff(o) ==
    LET r == Mine(o)
        done == [owner[o] EXCEPT !.pc = "finish", !.chain = TRUE]
    IN
    /\ At(o, "handoff")
    /\ IF owner[o].ok
       THEN IF Settled(r) THEN Fenced(o, Continued(r), done) ELSE UNCHANGED rows /\ Leaves(o, FALSE)
       ELSE IF Exhausted(r) THEN Fenced(o, Finished(r, "failed"), [done EXCEPT !.chain = FALSE])
       ELSE UNCHANGED rows /\ Leaves(o, FALSE)
    /\ DurableUnchanged /\ UNCHANGED faults

RunTail(o) ==
    /\ At(o, "tail")
    /\ Fenced(o, [Mine(o) EXCEPT !.tail = "completed"], [owner[o] EXCEPT !.pc = "close"])
    /\ tailed' = tailed \cap tried
    /\ UNCHANGED <<coin, event, queue, look, tried, left, unread, faults>>

Close(o) ==
    LET r == Mine(o)
        out == [owner[o] EXCEPT !.pc = "finish"]
    IN
    /\ At(o, "close")
    /\ IF owner[o].ok /\ Exhausted(r) THEN Fenced(o, Finished(r, "completed"), out)
       ELSE IF Exhausted(r) /\ Settled(r) THEN Fenced(o, Continued(r), out)
       ELSE UNCHANGED rows /\ Leaves(o, FALSE)
    /\ DurableUnchanged /\ UNCHANGED faults

(* The event's row is closed, then its message sent.                       *)
EndEvent(o) ==
    LET closes == event[o] \in {"running", "silent"} IN
    /\ At(o, "finish")
    /\ event' = IF closes THEN [event EXCEPT ![o] = IF owner[o].ok THEN "ok" ELSE "bad"] ELSE event
    /\ Goes(o, IF closes /\ owner[o].ok /\ owner[o].chain
               THEN [owner[o] EXCEPT !.pc = "send"] ELSE Gone(o))
    /\ UNCHANGED <<rows, coin, queue, look, tried, tailed, left, unread, faults>>

Send(o) ==
    LET r == Mine(o) IN
    /\ At(o, "send")
    /\ queue' = IF r.state = "ready" /\ r.inv = o
                THEN queue \cup {[attempt |-> owner[o].attempt, source |-> o, next |-> r.next]}
                ELSE queue
    /\ Goes(o, Gone(o))
    /\ UNCHANGED <<rows, coin, event, look, tried, tailed, left, unread, faults>>

-----------------------------------------------------------------------------
(* Claims.                                                                 *)

EventRuns(o) == o # 0 /\ event[o] \in {"running", "silent"}
Unused(o) == owner[o].pc = "none" /\ \A p \in Owners : p < o => owner[p].pc # "none"

Claimed(o, kind, a) ==
    /\ rows' = [rows EXCEPT ![a].state = "recovering", ![a].inv = o, ![a].lease = TRUE]
    /\ Goes(o, Fresh(kind, "start", a))
    /\ event' = [event EXCEPT ![o] = "running"]
    /\ UNCHANGED <<coin, queue, look, tried, tailed, left, unread, faults>>

(* claimNextLiveReserveCheckpointRecovery: a ready row whose last event    *)
(* has ended.                                                              *)
ClaimByCron(o) ==
    /\ Unused(o)
    /\ \E a \in DOMAIN rows :
         /\ rows[a].state = "ready" /\ ~EventRuns(rows[a].inv)
         /\ Claimed(o, "cron", a)

(* claimReserveContinuation: the row the message was sent for, unchanged.  *)
ClaimByQueue(o) ==
    /\ Unused(o)
    /\ \E m \in queue :
         LET r == rows[m.attempt] IN
         /\ r.state = "ready" /\ r.inv = m.source /\ r.next = m.next
         /\ Settled(r) /\ (Exhausted(r) => r.sync = "completed")
         /\ ~EventRuns(m.source)
         /\ Claimed(o, "queue", m.attempt)

-----------------------------------------------------------------------------
(* Takeover.                                                               *)

(* Mutant: a recovery's lease never ends.                                  *)
LapsedNever(r) == FALSE

Lapsed(r) == r.state = "recovering" /\ ~r.lease

(* A running row whose event is silent or ended badly, or a recovering one *)
(* whose lease has lapsed.                                                 *)
Abandoned(r) == Lapsed(r) \/ (r.state = "running" /\ event[r.inv] \in {"silent", "bad"})

Sees(t, l) ==
    /\ look' = [look EXCEPT ![t] = l]
    /\ UNCHANGED <<rows, coin, event, owner, queue, tried, tailed, left, unread, faults>>
Read(a) == [stage |-> "read", attempt |-> a, row |-> rows[a]]

(* The inspection decides that the cohort may be taken over; then its last *)
(* row that is held is read, whatever became of it in between.             *)
Inspect(t) ==
    /\ look[t] = NoLook
    /\ \E a \in DOMAIN rows : Abandoned(rows[a])
    /\ Sees(t, [stage |-> "found"])

Load(t) ==
    LET held == {a \in DOMAIN rows : rows[a].state \in Held} IN
    /\ look[t].stage = "found"
    /\ \/ held = {} /\ Sees(t, NoLook)
       \/ \E a \in held : (\A b \in held : b <= a) /\ Sees(t, Read(a))

(* requeueExpiredRecoveries reads the lapsed rows themselves.              *)
Requeue(t) ==
    /\ look[t] = NoLook
    /\ \E a \in DOMAIN rows : Lapsed(rows[a]) /\ Sees(t, Read(a))

(* Mutant: a row that has ended since is given up as well.                 *)
TakeableOnceEnded(a, was) ==
    /\ rows[a].inv = was.inv /\ rows[a].state \in Held \cup Ended
    /\ ~(owner[was.inv].kind = "queue" /\ EventRuns(was.inv))

(* The row is still that owner's, and no continuation of it runs.          *)
Takeable(a, was) ==
    /\ rows[a].inv = was.inv /\ rows[a].state \in Held
    /\ ~(owner[was.inv].kind = "queue" /\ EventRuns(was.inv))

Prepared(r, domain) ==
    LET kept == Exhausted(r) /\ r.sync = "completed" IN
    [state |-> "ready", inv |-> 0, next |-> IF r.current # 0 THEN r.current ELSE r.next,
     current |-> 0, domain |-> domain, lease |-> FALSE,
     sync |-> IF kept THEN "completed"
              ELSE IF Done(r) > 0 \/ r.current # 0 THEN "continuation_pending" ELSE "not_started",
     tail |-> IF kept /\ r.tail = "completed" THEN "completed" ELSE "not_started"]

(* A row given up, but for what nothing reads of it any more.              *)
Left == [state |-> "platform_abandoned", inv |-> 0, next |-> 0, current |-> 0,
         domain |-> NoAttempt, lease |-> FALSE, sync |-> "failed", tail |-> "failed"]

(* Mutant: the pending attempt is left.                                    *)
ClearedNothing(r) == coin

(* The coins once the pending attempt of the row that was read is cleared. *)
Cleared(r) ==
    IF r.current # 0 /\ coin[r.current].pending /\ coin[r.current].last = r.domain.n
    THEN [coin EXCEPT ![r.current].pending = FALSE] ELSE coin

UnderWay(r) == IF r.current # 0 THEN {r.domain} ELSE {}

(* prepareCheckpointAttemptForRecovery: the row as it was read gives the   *)
(* new one's frontier, the row as it is gives its domain attempt.          *)
Prepare(t) ==
    LET a == look[t].attempt
        was == look[t].row
    IN
    /\ look[t].stage = "read"
    /\ look' = [look EXCEPT ![t] = NoLook]
    /\ IF Takeable(a, was)
       THEN /\ rows' = Append([rows EXCEPT ![a] = Left], Prepared(was, rows[a].domain))
            /\ coin' = Cleared(was)
            /\ left' = left \cup UnderWay(was) \cup UnderWay(rows[a])
            /\ unread' = unread \cup (UnderWay(rows[a]) \ UnderWay(was))
       ELSE UNCHANGED <<rows, coin, left, unread>>
    /\ UNCHANGED <<event, owner, queue, tried, tailed, faults>>

-----------------------------------------------------------------------------
(* Time, failure and deferral.                                             *)

Alive(o) == owner[o].pc \notin {"none", "gone"}

LeaseLapses(a) ==
    /\ rows[a].state = "recovering" /\ rows[a].lease
    /\ rows' = [rows EXCEPT ![a].lease = FALSE]

(* The lease outlasts its owner's budget: past it no attempt is begun.     *)
Outlived(o) == owner' = IF Alive(o) THEN [owner EXCEPT ![o].late = TRUE] ELSE owner

FallsSilent(o) ==
    /\ event[o] = "running"
    /\ event' = [event EXCEPT ![o] = "silent"]

(* Of the dead.                                                            *)
LapsesDead(a) ==
    /\ LeaseLapses(a) /\ ~Alive(rows[a].inv)
    /\ UNCHANGED <<coin, event, owner, queue, look, tried, tailed, left, unread, faults>>
SilentDead(o) ==
    /\ ~Alive(o) /\ FallsSilent(o)
    /\ UNCHANGED <<rows, coin, owner, queue, look, tried, tailed, left, unread, faults>>

(* The sweeps close a silent event.                                        *)
Reap(o) ==
    /\ event[o] = "silent"
    /\ event' = [event EXCEPT ![o] = "bad"]
    /\ UNCHANGED <<rows, coin, owner, queue, look, tried, tailed, left, unread, faults>>

(* Of the living.                                                          *)
Lapses(a) ==
    /\ LeaseLapses(a) /\ Alive(rows[a].inv) /\ Outlived(rows[a].inv)
    /\ UNCHANGED <<coin, event>>
Silent(o) ==
    /\ Alive(o) /\ FallsSilent(o)
    /\ owner' = IF owner[o].kind = "queue" THEN [owner EXCEPT ![o].late = TRUE] ELSE owner
    /\ UNCHANGED <<rows, coin>>
Crash(o) == Alive(o) /\ Goes(o, Gone(o)) /\ UNCHANGED <<rows, coin, event>>

(* The task throws, or ends in error: the sync is marked failed if the row *)
(* is still held.                                                          *)
Fails(o) ==
    /\ owner[o].pc \in {"resume", "work", "stopped"}
    /\ Fenced(o, [Mine(o) EXCEPT !.sync = "failed", !.tail = "not_started"],
              [owner[o] EXCEPT !.pc = "handoff", !.ok = FALSE])
    /\ UNCHANGED <<coin, event>>

(* An attempt was begun, and the answer lost.                              *)
BeginUnanswered(o) ==
    LET c == owner[o].coin
        n == coin[c].last + 1
    IN
    /\ At(o, "work") /\ c # 0 /\ ~owner[o].late /\ Holds(o)
    /\ Patch(o, [Started(Mine(o), c, n) EXCEPT !.sync = "failed", !.tail = "not_started"])
    /\ coin' = [coin EXCEPT ![c].last = n, ![c].pending = TRUE]
    /\ Goes(o, [owner[o] EXCEPT !.pc = "handoff", !.ok = FALSE])
    /\ UNCHANGED event

TailFails(o) ==
    /\ At(o, "tail")
    /\ Fenced(o, [Mine(o) EXCEPT !.tail = "failed"], [owner[o] EXCEPT !.pc = "close", !.ok = FALSE])
    /\ UNCHANGED <<coin, event>>

(* releaseUnstartedLiveReserveRecoveryClaim, for a producer's slot.        *)
Defer(o) ==
    /\ At(o, "start") /\ owner[o].kind # "producer"
    /\ rows' = IF Holds(o) /\ Mine(o).lease
               THEN [rows EXCEPT ![owner[o].attempt] = Continued(Mine(o))] ELSE rows
    /\ Leaves(o, TRUE)
    /\ UNCHANGED <<coin, event>>

Fault ==
    /\ \/ \E o \in Owners : \/ Silent(o) \/ Crash(o) \/ Fails(o) \/ BeginUnanswered(o)
                            \/ TailFails(o) \/ Defer(o)
       \/ \E a \in DOMAIN rows : Lapses(a)
    /\ faults < MaxFaults
    /\ faults' = faults + 1
    /\ UNCHANGED <<queue, look, tried, tailed, left, unread>>

(* An owner past its deadline has no coin to begin: it fails of itself.    *)
Expires(o) ==
    /\ owner[o].late /\ Fails(o)
    /\ UNCHANGED <<queue, look, tried, tailed, left, unread, faults>>

Step(o) ==
    \/ Start(o) \/ Resume(o) \/ BeginCoin(o) \/ Settle(o) \/ Stop(o) \/ Mark(o)
    \/ HandOff(o) \/ RunTail(o) \/ Close(o) \/ EndEvent(o) \/ Send(o) \/ Expires(o)

Next ==
    \/ Begin
    \/ \E o \in Owners : Step(o) \/ ClaimByCron(o) \/ ClaimByQueue(o) \/ SilentDead(o) \/ Reap(o)
    \/ \E a \in DOMAIN rows : LapsesDead(a)
    \/ \E t \in Takers : Inspect(t) \/ Load(t) \/ Requeue(t) \/ Prepare(t)
    \/ Fault

Spec == Init /\ [][Next]_vars

(* An invocation goes on until it ends, the dead fall silent, and the      *)
(* recovery cron comes again, reads, prepares and claims.                  *)
FairSpec ==
    /\ Spec
    /\ WF_vars(Begin)
    /\ \A o \in Owners : WF_vars(Step(o))
    /\ WF_vars(\E o \in Owners : ClaimByCron(o))
    /\ WF_vars(\E o \in Owners : SilentDead(o) \/ Reap(o))
    /\ WF_vars(\E a \in DOMAIN rows : LapsesDead(a))
    /\ WF_vars(\E t \in Takers : Inspect(t) \/ Load(t) \/ Requeue(t) \/ Prepare(t))

-----------------------------------------------------------------------------
(* What must be true.                                                      *)

(* However many invocations take the cohort over, and however late they    *)
(* act on what they read, only a row that was given up has a successor,    *)
(* and one that was given up or has ended is never worked on again.        *)
OneFrontier ==
    [][\A a \in DOMAIN rows :
         /\ a < Len(rows') => rows'[a].state = "platform_abandoned"
         /\ rows[a].state \in Ended \cup {"platform_abandoned"} => rows'[a] = rows[a]]_vars

(* No coin is passed over: each one before the frontier has an outcome in  *)
(* this cohort, and the consumers run when all have.                       *)
NoCoinSkipped ==
    /\ rows # <<>> => \A c \in 1 .. Done(rows[Len(rows)]) : c \in tried
    /\ tailed = Coins

(* Of the attempts under way when their owners were given up, those that   *)
(* the takeover had read have ended or are fenced: they publish nothing    *)
(* any more.  One that a living owner began after that reading is fenced   *)
(* when a successor begins the coin, and publishes nothing from then on.   *)
AbandonedIsFenced ==
    [][\A a \in left : a.n \in coin'[a.coin].published \ coin[a.coin].published
                        => a \in unread /\ a.n = coin[a.coin].last]_vars

(* Whatever dies on the way, a cohort begun is completed or given up.      *)
CohortEnds == rows # <<>> ~> (rows # <<>> /\ rows[Len(rows)].state \in Ended)
=============================================================================
