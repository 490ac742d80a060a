# Pharos Watch, verified: the Worker's coordination core

Pharos Watch is a stablecoin monitor: a Next.js site, and Cloudflare Workers
that ingest chain and market data on about thirty cron lanes, keep it in one D1
(SQLite) database, and serve and publish it.  The Workers have no shared memory
and no locks.  Deliveries of one cron slot may be late, doubled, cancelled or
missing; isolates are ended at any instruction; a D1 statement may commit and
its answer be lost, after which the transport retries it.  All coordination is
done by guarded SQL statements on a few D1 rows: slot fences, leases,
reservations, markers, cursors.  That coordination is what these modules are
about, because no unit test reaches its interleavings.

All paths below are relative to the repository.

## Inventory

| Component | State | Operations | Interacts with | Hard part |
|---|---|---|---|---|
| **Scheduled slot fence** `worker/src/lib/scheduled-slot-fence.ts` | one `cron_slot_executions` row per slot: state, owner, execution generation, heartbeat, metadata | claim, takeover, catch-up reopen, stamp, heartbeat, finish, error finish, aborted close, sweep | `handlers/scheduled.ts` runs slots under it; the catch-up consumer too; sweeps from the digest poll and reserve-recovery lane | takeover of an owner that is only slow; lost answers; a zombie's late writes |
| **Stale-slot reconciliation** `worker/src/lib/scheduled-slot-reconciliation.ts`, `scheduled-child-terminal.ts`, `cron-logger.ts` | `scheduled_child_attempts`, `cron_run_progress`, `cron_runs` | list and re-read evidence, write synthetic terminals, delete progress, remove dead leases; a child's attempt, report and terminal | under a takeover or a sweep; reads `cron_leases` | evidence goes stale between reads and writes; the old owner may still be alive |
| **Cron lease** `worker/src/lib/cron-lease-primitives.ts`, `cron-abort-settlement.ts` | one `cron_leases` row per job; per run: renewal timer, failures, abort signal | acquire, wait and poll, renew, abort, abandon, release | inside every child (`scheduled/context.ts`); removed by reconciliation | late timers, retried upserts, work that ignores its abort |
| **Idempotent admin actions** `worker/src/lib/idempotency.ts` | one `admin_idempotency_keys` row per (action, key) | reserve, take over, begin, execute, persist, read back, release, mark unknown, sweep | wraps the admin mutation handlers | crash between begin and terminal; takeover of a slow request; unconfirmed writes |
| **Slot catch-up** `worker/src/lib/scheduled-slot-catch-up.ts`, `handlers/slot-catch-up.ts` | forward-only marker in the cache table, a queue hint | probe, classify, arm, read back, send; consume, recheck window, claim | two detecting hosts, the queue consumer, the slot fence | marker and send are not atomic; ack before work |
| **Circuit breaker** `worker/src/lib/circuit-breaker.ts` | a shared row per source, a memo per isolate | check, record success or failure, half-open probe | every external fetch | lost updates, stale memo, who may probe |
| **Recovery checkpoints** `worker/src/lib/scheduled-recovery-checkpoint.ts`, `reserve-continuation-fence.ts`, `reserve-producer-priority.ts`, `handlers/reserve-continuation.ts` | `worker_scheduled_checkpoints` | persist, claim recovery, advance, complete, continue | reserve sync, queue, lease admission | two recoveries of one cohort, stale claims, priority inversions |
| **Repair tasks** `worker/src/lib/repair-tasks.ts` | `repair_tasks` rows | enqueue, claim, back off, complete | admin API, cron | claims that expire while the repair runs |
| **Telegram delivery** `worker/src/telegram/` | outbox, delivery jobs, processed updates | enqueue, claim, send, ack, dedupe | cron, webhook, Telegram API | send succeeded and ack lost |
| **Depeg detection** `worker/src/cron/depeg-detection/`, `lib/depeg-pending.ts` | open events, pending confirmations, resolver publication | decide, confirm, merge, close, publish | price ingestion | ordering of observations, several open events |
| **Safety score publication** `worker/src/lib/safety-score-v9/` | staged generations and a pointer | prepare, compute, validate, accept, materialise | charts lane, second-chance lane | half-published generations, second chance after a held one |
| **Ingestion cursors** `lib/mint-burn-pipeline/sync-state.ts`, `cron/blacklist/config-scan.ts`, `lib/producer-history.ts` | block cursors, histories | advance, rewind, backfill | RPC providers | a cursor past blocks that were not ingested |
| **Cache, pruning, rate limits** `lib/db-cache.ts`, `bounded-prune.ts`, `rate-limit.ts` | cache rows, counters | get, set, prune, count | everything | counters at their limit |
| **API handlers, scoring, adapters** | none of their own | pure reads and numeric work | D1 | not a protocol |
| **Website, Pages functions, scripts, data** | none | rendering, build tooling | API | not a protocol |

What makes each component correct:

- *Slot fence*: a generation has one holder; a superseded owner writes nothing;
  a terminal given by the slot's own invocation stays; a live and timely owner
  is not robbed; an abandoned slot is eventually closed.
- *Reconciliation*: what is called "not started" never ran; the first terminal
  of an attempt wins; a live lease is not removed; a slot closed as abandoned
  has no open attempt.
- *Lease*: two runs do not work at once; a run is not blocked by itself; an
  unsettled body keeps its lease; a waiter's budget is absolute.
- *Idempotency*: a started mutation is at most once; answers given stay true;
  "retry" means that nothing was left; tombstones are permanent.
- *Catch-up*: at most one hint per lane and slot; no hint lost without the
  marker moving on; a catch-up never overtakes a live original.
- *Circuit breaker*: it opens on evidence only; a source that stays down is shut
  off; one that comes back is let in.
- *Checkpoints*: one attempt of a cohort is worked on; every coin has its turn
  before the consumers run; an attempt that a takeover found under way publishes
  nothing afterwards.
- *Telegram*: no message is accepted twice; chunks arrive in order; the audit is
  honest; every job ends.
- *Repair tasks*: a claim has one holder; what is claimed is eventually retried.
- *Publication*, *cursors*: readers see complete generations; cursors move past
  ingested data only.

## Plan

Order: what everything else runs under comes first.

1. `SlotFence` (done): the slot row, reconciliation and the children's terminals
   in one module, because every hazard is between them.  Abstract specification
   `SlotAuthority`, refinement in `SlotFenceRefinement`.
2. `CronLease` (done): the lease with its timers, of which `SlotFence` has only
   the row.  Left: the reserve admission predicate and producer priority.
3. `Idempotency` (done).
4. `SlotCatchUp` (done): lane marker, detecting hosts, targeted sweep, queue,
   consumer, window policy, several slots of one lane.
5. `RecoveryCheckpoint` (done for one cohort): slices, handoff, claims by cron
   and Queue, inspection, preparation, requeue and deferral.  Left: a second
   cohort with `retireSupersededLiveReserveCheckpoints`, grading and the accepted
   generation, producer priority composed with `CronLease`.
6. `CircuitBreaker` (done): isolates with memos, and which of the breaker's
   promises survive lost updates.
7. `TelegramDelivery` (done for alert jobs): fan-out, claims, sends, settlements,
   sweep.  Left: `DigestOutbox`, roll-up jobs and the chat cap, chat migration.
8. `SafetyPublication`: generations and the pointer; readers never see half.
9. `IngestCursor` and `DepegPending`: state machines over small inputs, the
   decision engine as an operator against a reference definition.
10. `RepairTasks`: claim, back off, complete.
11. `CatchUpSystem`, which composes `SlotCatchUp` with the statements of
    `SlotFence`, and the liveness of the hint (it is consumed or its window
    passes).

Theorems: for each module its type invariant, its inductive invariant and the
safety properties that its runs check, and the step simulation of
`SlotFenceRefinement`.  The seven modules have them all.  Liveness stays with
TLC.

## Modules

| Module | What it is |
|---|---|
| `SlotFence` | the slot row, its claims, reconciliation, children, sweeps |
| `SlotAuthority` | what the fence promises: terms, each granted to one actor |
| `SlotFenceRefinement` | the mapping of one to the other |
| `CronLease` | `runCronWithLease` with its waiting, timers, aborts and zombies |
| `Idempotency` | `runIdempotentAction` |
| `SlotCatchUp` | detection, marker, hint and consumer of the missed-slot catch-up |
| `CircuitBreaker` | one source's circuit: the row, the isolates' memos, the callers |
| `TelegramDelivery` | the Telegram outbox: jobs, rows, fan-outs, drains, sweep |
| `RecoveryCheckpoint` | one reserve cohort: its checkpoint's attempts and the invocations that work on it |
| `MC...` (seven modules) | instances for TLC |
| `SlotFenceProofs`, `SlotFenceSafetyProofs`, and a `...Proofs` for each of the others | theorems |

Operators marked "Mutant" are plausible bugs of the operator that follows them;
replacing the operator by its mutant makes the property that `PROJECT.json`
names fail, which shows that the property depends on that line of the code.

### SlotFence

One slot.  `row` is the `cron_slot_executions` row, `attempt` the
`scheduled_child_attempts` of the slot (an attempt is identified by invocation
and job, because its key holds the invocation's execution generation), `lease`
the children's `cron_leases`, `progress` the `cron_run_progress` rows.  An actor
(a delivery or a sweeper) is a program counter with what it has in memory:
`at` (the `nowSec` it captured before its first await), `seen` (the row it
read), `gen` (the generation it was given), `todo` and `held` (the evidence it
listed and judged).  `child` is the in-memory state of each child.

A D1 statement is one atomic action; between two statements of an actor
anything may happen.  `answered = FALSE` is a statement that committed and whose
retry by the transport (`runWithOverloadRetry`) reports zero changes; the code
reads the row back where it does so (`Confirm`, `RereadScheduled`) and the model
loses the claim where it does not (`ClaimStale`).

| Action | Code |
|---|---|
| `Enter`, `Insert`, `RereadScheduled`, `Probe`, `Takeover`, `Confirm` | `claimScheduledSlotExecution` |
| `RereadCatchUp`, `Reopen` | `claimCatchUpSlotExecution` |
| `Stamp`, `Heartbeat`, `AbortRun`, `EndDrain`, `WorkDone`, `Finish`, `FinishError` | `runScheduledSlotLifecycle`, `finishScheduledSlotExecution`, `touchScheduledSlotExecution` |
| `Cleanup` | the catch of `runScheduledSlotWithFence` |
| `List`, `SecondLook`, `Sift`, `Clear`, `Delete`, `Record`, `Reconciled` | `reconcileStaleSlotArtifacts` |
| `ListStale`, `ClaimStale`, `FinishStale`, `SweeperCrash` | `sweepStaleScheduledSlotExecutions` |
| `ChildStart` .. `ChildTerminal` | `logCronRun` around `runLeasedCron` |
| `Crash`, `PlatformKill`, `Tick` | the platform |

Merged steps, each because nothing the properties tell apart lies between: the
evidence listing of one reconciler is one read; a second look reads the evidence
and the fence at once, and so does the read that judges an item without lease
owner; a synthetic terminal and the lease deletion after it are one step; a
child's terminal and the clearing of its own progress are one step in which
either may fail.  Metadata is reduced to `catchUp` (the catch-up marker),
`marked` (`child_marker_version`) and whether the terminal's error is
`STALE_SLOT_ERROR`.

### CronLease

One job's lease row and any number of runs.  `called[r]` is when the statement
in flight was issued.  Because `nowSec` is taken per try and a statement may be
retried, the instant that a statement writes is any one between `called[r]` and
the moment it commits.  `Start`, `Try`, `Acquire`, `Look`, `Wake`, `GiveUp` are
the acquisition loop; `Begin`, `TimerFires`, `Renew`, `RenewAgain`, `RenewLate`,
`RenewFails` the renewal timer; `Abort`, `BodySettles`, `Abandon`, `Settle` the
end.  `RemoveSilent` is the reconciler: `SlotFence` says when it runs, here it
may run whenever the lease has expired or is silent.  The blocker's recovery
claim (`worker_scheduled_checkpoints`) is any deadline before the lease's.
Not modelled: `reserveRecoveryAdmission`, and the text of the blocker evidence.

### Idempotency

One (action, key) pair.  Payloads are reduced to whether they are the same
(`reused`), responses to whose they are.  A request that is answered `failed`
got an exception or a 500.  `ran` records what the action has done: the
properties compare it with what the row says.  A read-back compares status and
body, and another request's response may read the same (`sameText`).

### SlotCatchUp

One lane and some of its slots; `row` has one record per slot, `marker` is the
lane's entry in the cache table, `queue` the lane's hints that may still be
delivered and `sent` all that were ever given to it.  The Queue carries more:
its one consumer (`max_concurrency = 1` in `worker/wrangler.toml`) serves the
hints of five lanes and the reserve continuations, one message at a time.
`busy` says that a consumer is at work on one of the others; `waited` is a
history of how long each slot's hint lay in the queue meanwhile.  A host's pass is a stage with what
it remembers: the second `at` which it began, the due `slot`, and the slot and
generation that its sweep claimed.  Every pass runs with the clock value that it
took at its start, so a slow pass may date a row back; a runner is a delivery or
a consumer at work.

| Action | Code |
|---|---|
| `StartPass`, `ProbeDueSlot`, `Send`, `SendFails`, `PassFails` | `armDueSlotCatchUps`, `runSlotCatchUpDetection` |
| `SweepClaim`, `SweepClose`, `PollSweep` | `sweepStaleScheduledSlotExecutions`, for one slot of the lane and for all |
| `Arm`, `ReadBack` | `claimSlotCatchUpMarker` |
| `Consume`, `Redeliver` | `handleSlotCatchUpBatch`, and the queue |
| `TakeOther`, `OtherEnds` | `queue` of `worker/src/index.ts`, for a message that is not this lane's; where hints may wait for any time anyway (`Punctual` false), these are left out |
| `ClaimMissed`, `InsertUnanswered` | `claimCatchUpSlotExecution` |
| `Deliver`, `Beat`, `FinishRun`, `RunnerDies` | `claimScheduledSlotExecution` and the slot's life after it |

A claim, a takeover, a sweep's claim and its close are the one statement that
commits; `SlotFence` has what lies around them.  A sweep may always find nothing
that it may claim (a child's lease, a lost race), and its close may always be
refused.  `claims` is a history variable.  An isolate's two passes never begin
in one second; the hosts are the two five-minute cron lanes
`fiveMinuteReserveRecovery` and `digestTriggerPoll`.  A pass goes through all
lanes; each has a marker, hints and slot rows of its own, so the others' part of
a pass is left out, and what they share, the consumer, is in the model.  Not
modelled: the mode switch.

### CircuitBreaker

One source.  `row` is its cache row, `memo` and `pending` the
`CircuitRecordMemoCache` of each isolate, `caller` the runs that use the source.
The source itself, `healthy`, is part of the model: it goes down and comes back,
and callers report what they met.  Every update is a read, a decision and an
unguarded write of the whole record, and the read may come from the memo.

| Action | Code |
|---|---|
| `Attempt`, `NoCandidate` | the start of `shouldAttemptFetch`, `recoverBreakerOnNoCandidate` |
| `Fetch`, `Answer` | `getCircuitRecord`: D1 runs the query; the answer comes, goes to all that joined the read, and into the memo unless a write came in between |
| `Decide` | `shouldAttemptFetch` and `recordOutcome` on what was read, with the repair of a corrupt row |
| `Write` | `setCircuitRecord` commits |
| `Call` | the fetch, and the outcome that `recordOutcomeSafe` reports |
| `Abort`, `ReadFails`, `WriteFails`, `Restart`, `Garble` | neutral outcomes, D1 errors, an isolate's end, a corrupt row |

The memo is invalidated when a write is issued, before it commits
(`Writing`), so the same isolate may memoize the old record again for the memo's
five seconds.  Timestamps are kept as ages, which beyond two probe intervals are
all the same to the code; a missing row is the default record; the counters are
capped at the threshold, beyond which the code does not tell them apart.
`evidence` is a history: the failures, up to the threshold, since the circuit
was last *clear*.  It is when a success is written while no memo and no other
caller has an older record, and nobody a failure yet to report (`Clears`): a
success clears nothing as long as a stale record may bring the count back.
Left out: `lastSuccessAt`, and the helpers that read circuits for status pages.

### TelegramDelivery

`job`, `row` and `gate` are `telegram_jobs`, `telegram_deliveries` and the
global backoff in the cache; a row is named by job, chat and chunk.  `drain` and
`fan` are what each invocation of `drainTelegramDeliveries` and
`fanOutPlanningTelegramJobs` has in memory.  Several may run at once, and one
that its lane has given up may go on.  `accepted` is the one thing Telegram
knows: how often it took each row's message.

| Action | Code |
|---|---|
| `Enqueue` | `enqueueTelegramJob` |
| `TakeJob`, `BuildPage`, `CommitPage`, `FanFails` | `fanOutPlanningTelegramJobs` |
| `StartDrain`, `Claim`, `Gate`, `StopDrain` | the head of `drainTelegramDeliveries`, `claimDueDeliveries`, `gateClaimedRows` |
| `SendWave`, `SettleWave`, `RaiseBackoff`, `SettleTails`, `CancelSiblings`, `ThrowDrain` | its send loop with `beforeSendBatch`, `afterSendBatch` and the closing statements |
| `Sweep`, `CloseJob` | `sweepTelegramJobs` |
| `CancelRetracted` | `cancelRetractedFreezeDeliveries` |
| `Subscribe`, `Forget` | `/start`, and `prepareSubscriberPurge` |

All jobs have the audience `alert`; the others skip gates.  A drain reads the
global backoff and writes its pre-settlements in one step, and the `now` of a
claim is that of its commit.  A wave's outcomes are chosen when it is sent; an
error answer means that Telegram did not accept the message, an ambiguous one
that it may have.  A flood is settled with the tails (in
`schedulePerChatBatches` its `globalRateLimited` branch cannot be taken between
one wave's settlement and the next wave).  A terminal row keeps its state and
creation time only.  The 24 hours of the duplicate check are `DuplicateWindow`:
`SaidOnce` is of rows planned within it, and a later job may say the body again,
as it does in the instance of `settles`.  Which chats a page addresses, and who is snoozed, is any choice.
A chat that has left does not come back.  Left out: roll-up jobs and the chat
cap, chat migration, a chat's strikes, retention.

### RecoveryCheckpoint

`rows` are the attempts of one cohort in `worker_scheduled_checkpoints`, the
last of which is at work.  `coin` is `reserve_sync_state` with what was
published, `event` the slot execution or continuation execution of each
invocation, `owner` what an invocation has in memory, `look` what a poll of the
recovery cron has read and not yet acted on.

| Action | Code |
|---|---|
| `Begin`, `Start`, `Resume` | `beginLiveReserveCheckpoint`, the task groups, `syncLiveReserves` finding its place in the queue |
| `BeginCoin`, `Settle`, `Stop` | `beginReserveSyncAttempt` with the item's start in one batch; `finalizeReserveSyncSuccess` / `finalizeReserveSyncAttempt` with the advance; the end of the slice |
| `Mark`, `HandOff`, `RunTail`, `Close`, `EndEvent`, `Send` | `checkpointTask` and the rest of `runFourHourlyReserveSyncSlot` |
| `ClaimByCron`, `ClaimByQueue` | `claimNextLiveReserveCheckpointRecovery`, `claimReserveContinuation` |
| `Inspect`, `Load`, `Requeue`, `Prepare` | the poll: eligibility, `requeueExpiredRecoveries`, and `prepareCheckpointAttemptForRecovery`, which reads and then runs a batch fenced by what it read |
| `Reap` | `reconcileReserveContinuations` |
| `Defer`, `Fails`, `TailFails`, `BeginUnanswered`, `Crash`, `Lapses`, `Silent` | what may go wrong |

`execution_generation` equals `attempt_no`, and `items_done` follows from the
next item, so neither is kept.  Clocks are left out: a lease or a heartbeat of a
dead invocation lapses at any time, that of a live one at the cost of a fault.
The recovery lease (900 s) outlasts an invocation's nine-minute budget, so an
owner whose lease lapsed is past its deadline (`late`) and begins no coin; one
that is only silent is not.  A poll's blockers, the producer's priority and the
reserve-recovery lease only hold claims back, and the model claims without them.
A message is named by attempt and source, and its redelivery finds no row to
claim.  A child's disposition stands for the evidence in `cron_runs` as well.
An attempt given up is blanked of the fields that nobody reads again (`Left`).
Two histories follow the coins' attempts that were under way when their owners
were given up: `left` has them all, by the row as the takeover read it and by
the row as its batch found it; `unread` those that only the batch found.
A slice takes at least one coin, unless it fails.  Left out: a second cohort
with its supersession, grading, the generation's seal, changed configurations,
the independent child, progress within an item.

## Runs

| Run | Instance | What it shows |
|---|---|---|
| `takeover` | 2 cron deliveries, 1 job, 2 failures, 6 ticks | a silent or slow owner is taken over, reconciled in line, and wakes up: successes are real, "not started" never ran, terminals stay, superseded owners write nothing, live leases stay; the fence implements `SlotAuthority` |
| `timely` | 1 delivery, 1 catch-up, 1 sweeper, 1 failure, 8 ticks, `Timely` | a live owner whose heartbeats are in time is never robbed, at every offset of the windows |
| `live` | 1 delivery, 1 sweeper, 2 failures, fairness | every slot is closed in the end, and the sweep leaves no attempt of it open |
| `lease` | a run and a waiter, TTL 5, heartbeat 2, silence 6, latency 1, 1 failure | the old run is told to stop before the new one works; the budget is absolute, no run blocks itself, unsettled work keeps its lease |
| `replay` | 3 requests, one with another payload, 2 failures, windows of 1 and 2 ticks | a started mutation is at most once, answers are kept and cross no payloads, a retry is possible |
| `oneshot` | 2 slots of a cadence of 2, both hosts, 1 delivery, 1 consumer, 1 failure | one hint and one catch-up per slot, for missed slots only; a moved marker is followed by its hint; passes slower than the cadence change none of it |
| `missed` | 2 slots, 1 punctual host, 1 consumer shared with any amount of other work | a slot without delivery is claimed within its window, or its hint waited for others longer than the window leaves |
| `outbox` | 1 freeze job of 2 chunks, 1 chat, 2 drains, 1 fan-out, 1 failure, 3 ticks | no message is accepted twice, chunks keep their order, rows are honest |
| `settles` | 2 jobs with one body, one of them planned by 2 fan-outs, 1 drain, fairness | within the duplicate window the body is said once; again and again both jobs have ended with all their rows |
| `circuit` | 2 callers in 1 or 2 isolates, threshold 2, 1 change of the source, 1 failure, fairness | no record counts failures that did not happen since the circuit was clear, and it opens at the threshold only; it shuts off a source that stays down, lets in one that comes back |
| `checkpoint` | 2 coins, 4 invocations, 1 poll, 1 failure, fairness | every coin has its turn, one attempt is worked on, attempts given up are fenced, at once or when a successor begins their coin, the cohort ends |
| `orphan` (violation) | 2 deliveries, 1 job | finding 1 |

### Bounds

`MaxTime` stops the clock, `Horizon` the deliveries and the enqueueing,
`MaxFaults` counts crashes, aborts, statements that fail and answers that are
lost.

*Slot fence.*  A claim, a takeover, a silence window, a takeover of the taker
and a sweep all fit in the six to eight ticks, with windows of one or two ticks;
the windows' real values (300 s, 360 s, 960 s) only matter in their order, which
the instances keep.  Two failures are enough for the pairs that the code handles
(an owner that dies and a sweeper that dies; a lost answer and a crash).  The
instances have one job: what they check of several children is proved.

*Lease, idempotency.*  `replay` has three requests because a takeover needs two
and the sweep's reuse of the key a third.  `Latency` bounds how late timers and
answers are; in `lease` it is within the margins that `OneWorker` needs, and the
other properties of the lease are proved for every latency.

*Catch-up.*  The cadences are 6 and 2 ticks.  In `missed` the window is open from
two ticks after the slot's start to one before the next, so that a host that
passes every two ticks leaves the hint two ticks to wait, and a wait of three,
which is one too many, fits in the window as well.  No delivery comes there, as
the property is about slots without one, and the catch-up of the slot before may
stay on the consumer for a reserve as long as the grace.  In `oneshot` the window reaches the next slot, so that a
pass for one slot is still under way when the next is due.

*Outbox.*  Two chunks, because order and siblings need two.  A claim lives one
tick and a job two, so that in three ticks a claim runs out under its holder,
the row is swept, and the job expires.  One attempt more than the first
(`MaxAttempts` 2) gives a retry and its exhaustion.  In `settles` no failure is
injected, since its drains may stop anywhere and its fan-outs race anyway; a
chunk more, or a failure, makes the liveness check too large.  The duplicate
window is nought there: jobs enqueued in one second are within it, and those a
second apart are not, so that the instance has both (without the condition in
`SaidOnce`, TLC finds a body said twice).

*Circuit.*  Threshold 2 is the least at which a lost count is not an opening
lost; a probe interval of one tick and a memo of one tick let a memo be as stale
as the code's five seconds are against its probe interval, and staler.  Two
callers are two runs at a time; each comes again for ever.  One change of the
source is enough for what follows a clearing, since a circuit that is clear is
as it was at first; with two changes the run holds too, but takes five minutes.

*Checkpoint.*  Four owners are a producer and three that follow it; with one
failure a second is still taken on after a takeover.  Two coins give a frontier
behind which something may be skipped.  The same instance with two overlapping
polls holds too, but takes about five minutes; that the safety properties hold
for any number of polls is proved.

Deadlock is checked in `circuit`, whose callers come again for ever.  The other
instances stop when their deliveries and their clock, or their cohort, have come
to an end.  The distinct states of the larger runs:
`oneshot` 2.5 million, `outbox` 1.3 million, `settles` and `circuit` 0.9 million
each, `takeover` and `missed` 0.5 million each, `checkpoint` 0.16 million,
`timely` 0.14 million.

### Fairness

Faults are never fair, and nothing is assumed of what may stop for good.

- `live`: weak fairness of the clock, of the platform's wall-clock kill, and of
  each sweeping host.  The platform ends every isolate at fifteen minutes
  (`SCHEDULED_EVENT_WALL_CLOCK_LIMIT_MS`), and the sweeping hosts are cron lanes
  that are delivered again and again.  A delivery may stop anywhere.
- `settles`: the clock, the sweep, the closing of jobs and the steps of fan-outs,
  all of which each run of the dispatch lane does.  Which job is closed and which
  fan-out goes on is open while one can: a fan-out that races another may stop
  for good, as a drain may anywhere.
- `circuit`: the clock, and the callers, which are cron runs that come again.
- `checkpoint`: the invocations' own steps, the cron's poll and claim, and that
  what is dead falls silent (the platform's clock).  The Queue is not fair:
  a message may never arrive.

`missed` needs no fairness: there the clock waits (`Punctual`).  A host that
has not passed for `HostPeriod` passes before the next tick, a consumer that is
free takes a hint at once, and a catch-up of the lane is off the consumer a
reserve after its deadline.  Of the other messages on the consumer nothing is
assumed: they come at any time and last as long as they like, and the property
counts how long a hint waited for them.  What it says of the code depends on the
lane.  The windows of the two-hourly and six-hourly lanes are 95 minutes and
more; less a host period of five minutes that is beyond the 54 minutes which all
catch-ups back to back take (`docs/worker-infrastructure.md:218`), if reserve
continuations leave the consumer the rest.  The half-hourly lanes' windows leave
nine minutes.  The quarter-hourly window is six minutes and leaves one: behind
any other lane's catch-up that runs to its end, its hint comes too late and is
dropped, though everybody is on time.

### When the lease excludes

`OneWorker` has the hypothesis `Patient`: the heartbeat period is longer than
the latency, and `MaxRenewFailures * (Heartbeat + Latency) + 2 * Latency` is at
most the TTL and less than the reconciler's silence.  In the code the TTL is the
timeout plus 60 s, the heartbeat a third of it, two failures: within the TTL for
latencies up to a twelfth of it.  The silence is 300 s whatever the TTL.  Tasks
with the 30 s / 3 failures override of `scheduled-runner-registry.ts`, and those
with the default timeout of 300 s, are within it.  `cron-sentinel` (780 s,
defaults, so a renewal every 280 s) is not: one failed renewal makes its lease
silent, and should its slot be silent too, the reconciler removes the lease of a
run that is alive.

## Findings

1. `CompletionIsSettled` (run `orphan`): the appendix says that a completed slot
   has a terminal for every started attempt; `finishScheduledSlotExecution`
   guards only the attempts of the row's own generation.  A child of a
   superseded owner that takes its lease between the successor's lease probe and
   its takeover CAS keeps an open attempt in a slot that finishes ok.

Other places where code and text part, met while modelling; those that the
models contain are so in the definition named, and none has a run of its own.

- `worker/src/lib/scheduled-slot-fence.ts:585` says that a catch-up inserts a
  never-delivered slot exactly as a scheduled claim would; the scheduled claim
  recognises its own insert when the answer was lost, the catch-up's (line 635)
  does not, and leaves a running slot that nobody drives (`InsertUnanswered` of
  `SlotCatchUp`) until a sweep.
- `worker/src/lib/scheduled-slot-catch-up.ts:121` and
  `docs/worker-infrastructure.md:218` say that the reserve-recovery host
  reconciles the due slot by a targeted one-row sweep; it asks for any one stale
  slot of the lane and gets the one that has been silent for longest
  (`SweepClaim`).  The comment calls that host a one-minute lane; its cron runs
  every five minutes.
- `docs/worker-infrastructure.md` says that the `catchUp` metadata is kept on
  every terminal rewrite and that a late original is deduplicated; a late
  scheduled delivery that takes over a silent catch-up overwrites the metadata
  (`ClaimedRow`), and so `CaughtUpOnce` has to allow one more catch-up for each
  such takeover.
- A comment in `cron-lease-primitives.ts` says that the captured blocker
  deadline only schedules a poll; the early return after the blocker is read
  (`Look`) treats it as the end of the wait.
- `prepareCheckpointAttemptForRecovery` (`scheduled-recovery-checkpoint.ts:552`)
  fences its batch by the row's identity and state, but clears the pending
  attempt of the item that it *read* as current.  A producer that is silent and
  alive, and goes on to the next coin between the read and the batch, leaves
  that coin's attempt pending, and may publish it after it was given up.  The
  read takes the latest held row whether its lease has lapsed or not, so a live
  recovery can be taken over as well.  `docs/process/live-reserves-appendix.md:157`
  says "Crash reconciliation still fences abandoned work and creates successor
  attempts".  `AbandonedIsFenced` is of all attempts that were under way at the
  takeover and names this exception: an attempt that the takeover had not read
  (`unread`) may publish as long as it is its coin's last, that is, until a
  successor begins the coin.  Without the exception TLC finds the property
  violated.
- `worker/src/telegram/delivery/job-drain.ts:120` says that chunks are never
  sent out of order.  A fan-out that loses the race for the cursor still inserts
  its page's rows (`run-jobs.ts:211`), so a message that grew between two plans
  may have chunks of two ages, which are claimed independently once the lower
  has ended; `InOrder` is of chunks planned together.  For the same reason rows
  may appear under a job whose cursor has moved on or that has been closed, and
  after `/forget`: a late fan-out may then plan the lower chunk of a chat again
  whose upper chunk was sent before it left, and so `InOrder` is of chats that
  are still there.
- `worker/src/cron/telegram/delivery/backoff.ts:28` says that a `false` from
  `setTelegramGlobalBackoff` must be answered by the caller with a fallback per
  row; `job-drain.ts:664` ignores the result (`RaiseBackoff` loses the write).
- The circuit's updates are documented as best effort
  (`circuit-breaker.ts:289`), and are: a stale write may close an open circuit
  or open a closed one, and a row that could not be repaired may be overwritten
  closed by a success.  What survives is what run `circuit` checks.

## Proofs

All theorems hold for any finite or infinite sets of actors and jobs and any
values of the time constants (the duplicate window among them), from the
modules' named assumptions only (disjoint
kinds of actors, `None` not among them, times natural, some of them positive).
Three are about being in time and have hypotheses on the constants (those of the
first are a part of the property):
`OneWorkerHolds`, `LiveOwnersKeepTheirSlot`, `MissedSlotsAreCaughtUp`.

- **SlotFence.** `SlotFenceProofs` proves the types.  `SlotFenceSafetyProofs`
  proves `GenerationsDistinct`, `SuccessIsReal`, `NotStartedNeverRan`,
  `AbandonedIsSettled`, and the action properties `OwnTerminalStays`,
  `SupersededWritesNothing`, `FirstTerminalWins`, `LiveLeaseStays`.  None of the
  invariants is inductive: that no child ran which is called "not started"
  depends on what a reconciler read two statements ago.  `IndInv` adds that no
  generation is ahead of the row's and only the owner holds the row's
  (`FenceInv`), that what an actor has read is still good enough while it holds
  the fence (`LocalInv`), and that children and attempts are in step (`JobInv`).
  One lemma per group of actions shows what a step of an actor may change
  (`StepOf`); the preservation of the invariant uses nothing else.

  `LiveOwnerKeepsSlot` has hypotheses, as the code's margins have: heartbeats and
  statements in time (`Timely`), a silence window of more than a tick, and an age
  limit beyond the platform's wall-clock limit (960 s against 900 s).  `OwnerInv`
  says that the row of an owner at work is at most a tick old and started when
  its owner captured the clock, and that the clock waits for a claim under way;
  so neither stale policy (`HandsChangeWhenStale`) applies to it, whatever older
  instant a sweeper or a delivery judges it by.

  `ImplementsAuthority` is the refinement: each step leaves the row's authority
  alone, or is a grant, a learning, a retirement, a close by the holder of the
  term, or the last resort of a holder that may not know its term
  (`AuthorityStep`).  What the mapping needs of the state is `IndInv`: that
  generations belong to their owners makes the fenced close of the code, which
  compares generations, the holder's; that a sweeper claims only what it saw
  unfinished, and a catch-up reopens only what was abandoned, makes their claims
  grants.
- **CronLease.** `OneWorker` is about time.  `Timing` says for every phase of a
  run how old its lease can be: a run that may work has given up fewer renewals
  than it tolerates, each at most a period and two latencies after the one
  before; so its lease is at most `Patience` old (lemma `Fresh`), and neither an
  upsert nor the reconciler may take it.  `Stretch` hides the product from the
  solver.
- **Idempotency.** `Claims` says that an action that runs or took effect is that
  of the row's owner and the row says that it started; `Phases` follows a
  request, `Answers` what it was told.  `AtMostOnce` follows: a row has one
  owner.
- **SlotCatchUp.** After the types, four invariants.  `Hints`: no hint that was
  sent or is about to be is ahead of the marker, and at the marker's slot it is
  the marker; `OneHintPerSlot` follows because the marker moves only to a slot
  beyond it.  `Passes`: a marker that names a host's current pass was moved by
  that pass's `Arm`, and whoever came past `Arm` sees the marker at its slot or
  beyond; hence `MissedIsArmed` and `ArmedIsSent`.  `Verdicts`: the slot about to
  be armed is missed, or was changed - and, if it runs, claimed - since the pass
  began; this has to survive sweeps that date a row back, which they never do
  beyond the change that made it stale; hence `ArmedOnlyIfMissed`.  `Owners`:
  whoever holds a row knows whether it is a catch-up's, and a row without mark
  has lost each of its catch-ups to a takeover; hence `CaughtUpOnce`.

  `MissedSlotIsCaughtUp` is a safety property with a deadline: the clock waits
  for whoever is on time, and the theorem says how long a slot can be without
  row.  `InTime` has five parts besides.  `Looks`: a pass at work is about the
  slot whose window was open when it began, and a pass that is over left the
  marker at that slot or beyond, or a row.  `Pursued`: the slot armed last has a
  row, or a host is about to send its hint, or the hint is in the queue, or a
  consumer is about to claim it, or its window has ended.  `Opened`: nothing is
  armed, sent or taken on before its window opens.  `Prompt`: a consumer claims
  in the second in which it took the hint.  `Waits`: within the window, every
  second after a host's period that a slot stays without row is one of `waited`.
  When the clock moves on there (`WindowIsUsed`), some host has looked at the
  slot; the marker is at it, because the next slot's window has not opened; its
  hint is in the queue, and every consumer is at work - not on this slot, which
  would have a row, and not on the slot before, whose deadline was this slot's
  start and whose reserve has passed: on messages of others.  The hypotheses are
  that everybody is punctual and nothing fails, that there is a host and a
  consumer, that grace and margin are not both zero, and that the error reserve
  (60 s in the code) is at most the grace (at least six minutes).  Nothing is
  assumed of the host's period or of the others' work: they are in the
  conclusion.  The bound is exact: with one second more TLC finds a
  counterexample.  So are the hypotheses on the constants: it finds one with
  windows that touch (and a period of the window and a second), and one with a
  reserve a second longer than the grace (and a period of one).

- **CircuitBreaker.** `OpensOnEvidence` is not inductive, because what a caller
  or a memo has read may be written back at any later time.  `Counts` says that
  as long as less evidence has been gathered than the threshold, every record in
  existence - in the row, in every memo and read under way, and with every
  caller - is closed and counts no more failures than the evidence less those
  that callers have met and not yet added.  `Healing` says what is being written
  for a reported success, so that where the history begins anew nothing but a
  record without failures is left.
- **TelegramDelivery.** A drain is *sure* of a row that it will send or has
  sent and not settled.  `Once` has five parts.  `Shapely`: what a drain has in
  memory fits its stage.  `Alone`: no row is sure to two drains.  `Kept`: what a
  drain is sure of is still claimed by it, or is unknown for good because its
  claim ran out.  `Unsent`: nothing on its page was accepted, and of what is in
  flight the answers say the truth.  `Honest`: rows say the truth as well.
  `OneOfTwins` adds that of two rows with one body for a chat that is still
  there, planned within the duplicate window of each other, at most one is in a
  state that suppresses the other.  The check looks backwards from the row that
  is inserted, and a page that is committed late is dated earlier than what is
  there; that the window is kept both ways is lemma `ApartBothWays`.
  `OrderInv` is what `InOrder` needs, for two chunks of one message that were
  planned together for a chat that is still there (`Together`).  `ClosedDown`:
  no chunk has a row without those below it.  `Queue`: while a drain has the
  higher chunk in its page, it has the lower one there too or in flight, or the
  lower one was accepted, or the drain remembers a failure for the chat and
  sends it nothing more (`Ahead`).  A claim establishes this, because it takes no
  chunk before all below it were claimed with it or have arrived; a wave keeps
  it, because it takes a chat's lowest chunk.
- **RecoveryCheckpoint.** `Shape`: the attempts that were given up are all but
  the last.  Two formulas summarise what a step may do to a row (`RowStep`) and
  to an invocation (`OwnerStep`).  `Progress`: every row, and everything a poll
  has read of one, has an outcome for each coin before its frontier (`Sound`,
  `Behind`); an invocation that holds its row works at that frontier (`Works`)
  and no two try one attempt (`Tries`); an attempt that a takeover had read is not
  pending any more, or a newer one has replaced it (`Fenceless`); of one that it
  had not read, nothing is known until a newer one replaces it, and the theorem
  says no more.  Outcomes and
  attempt numbers only grow (`Grows`), so what was true of an old reading stays
  true.

Only model-checked: liveness (`AbandonedSlotCloses`, `EveryJobEnds`,
`FailingSourceOpens`, `RecoveredSourceCloses`, `CohortEnds`).  Temporal reasoning
with fairness, and ENABLED, are beyond the prover.  Every invariant, every action
property and the refinement that a run checks is a theorem, but for
`CompletionIsSettled`, which the code violates (finding 1).

## Not modelled

The repository is more than eight hundred thousand lines, of which the protocols
on shared rows, which a model checker can say something about, are some tens of
thousands.  Of those, still without a module: repair tasks, the record of
processed Telegram updates and the digest outbox, the pending confirmation of
depegs, the publication of safety scores, ingestion cursors (see the plan, items
8 to 11), and cache, pruning and rate limits, which are single statements.  The
properties of the seven modules there are take the time that the checks have;
what is added next replaces or merges runs.

Within the modelled parts: several slots in one sweep; the contents of metadata,
telemetry and logs; which lanes a host asks to be swept; the reserve-recovery
admission of leases and producer priority; and what each module's section names.
API handlers, scoring, reserve adapters, the website, the build scripts and the
data files are pure functions, rendering and tables: they hold no coordination
state, and a model of them would be a copy.
