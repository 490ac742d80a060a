-------------------------- MODULE TelegramDelivery --------------------------
(***************************************************************************)
(* The Telegram outbox: jobs, one row per (job, chat, chunk), the fan-out  *)
(* that plans the rows, the drains that claim and send them, the sweep.    *)
(*                                                                         *)
(* Delivery is at most once: a row is claimed before its Bot API request,  *)
(* and what became of an unanswered request is never tried again.  Several *)
(* drains may run at once (the dispatch lane and an inline digest), and a  *)
(* drain or a fan-out whose lane gave it up may go on after its successor  *)
(* has begun.  A D1 statement or batch is one action.                      *)
(*                                                                         *)
(* Every job is of audience alert; the other audiences skip gates.         *)
(***************************************************************************)
EXTENDS Integers, FiniteSets

CONSTANTS
    Jobs,        \* telegram_jobs
    DirectJobs,  \* those enqueued with their rows
    FreezeJobs,  \* those that state freeze claims, revalidated before a wave
    SameBody,    \* alert jobs whose messages read the same
    DuplicateWindow, \* TELEGRAM_DUPLICATE_BODY_WINDOW_SEC
    Chats,       \* chats, numbered in the order of chat_id
    Chunks,      \* the most chunks of a message
    Drains,      \* invocations of drainTelegramDeliveries
    Fanouts,     \* invocations of fanOutPlanningTelegramJobs
    None,        \* claim_owner NULL
    ClaimTtl,    \* TELEGRAM_DELIVERY_CLAIM_TTL_SEC
    JobTtl,      \* a job's expires_at, from its creation
    PageSize,    \* CLAIM_PAGE_SIZE
    BatchSize,   \* SEND_BATCH_SIZE
    MaxAttempts, \* PENDING_MAX_ATTEMPTS
    Backoff,     \* pendingBackoffSec without Retry-After
    RetryAfter,  \* Telegram's Retry-After
    FloodChats,  \* GLOBAL_RATE_LIMIT_MIN_CHATS
    SnoozeFor,   \* how long a chat snooze lasts
    Horizon,     \* bound: no job is enqueued later
    MaxTime,     \* bound: the clock stops here
    MaxFaults    \* bound: exceptions, crashes, lost gate writes

Seqs == 0 .. Chunks - 1
Rows == Jobs \X Chats \X Seqs

ASSUME KindAssumption ==
    /\ DirectJobs \subseteq Jobs /\ FreezeJobs \subseteq Jobs /\ SameBody \subseteq Jobs
    /\ None \notin Drains
    /\ Chats \subseteq Nat \ {0}

ASSUME NumberAssumption ==
    /\ {Chunks, ClaimTtl, JobTtl, PageSize, BatchSize, MaxAttempts, FloodChats} \subseteq Nat \ {0}
    /\ {DuplicateWindow, Backoff, RetryAfter, SnoozeFor, Horizon, MaxTime, MaxFaults} \subseteq Nat

VARIABLES
    now,      \* the clock
    job,      \* telegram_jobs
    row,      \* telegram_deliveries
    gate,     \* the telegram:global-send-backoff-until cache row
    chat,     \* telegram_subscribers
    drain,    \* what each drain has in memory
    fan,      \* what each fan-out has in memory
    accepted, \* history: how often Telegram accepted each row's message
    faults    \* how many failures there have been

vars == <<now, job, row, gate, chat, drain, fan, accepted, faults>>

JobOf(k) == k[1]
ChatOf(k) == k[2]
SeqOf(k) == k[3]

SameMessage(k, l) == JobOf(k) = JobOf(l) /\ ChatOf(k) = ChatOf(l)
LowerChunk(l, k) == SameMessage(l, k) /\ SeqOf(l) < SeqOf(k)

Queued == {"pending", "retry"}
Open == Queued \cup {"sending"}
Terminal == {"sent", "failed", "blocked", "expired", "cancelled", "unknown", "suppressed"}

(* Mutant: a row of which nobody knows whether it was sent suppresses none. *)
PriorWithoutUnknown == Open \cup {"sent"}

(* The rows that suppress one with the same body: TELEGRAM_DUPLICATE_PRIOR_STATES. *)
Prior == Open \cup {"sent", "unknown"}

(* A job's cursor is 0 for NULL, or the last chat written; Rewound is ''.   *)
Rewound == -1

Job == [state : {"absent", "planning", "ready", "done", "cancelled"},
        cursor : Nat \cup {Rewound}, expires : Nat]

Row == [state : {"absent"} \cup Open \cup Terminal,
        owner : Drains \cup {None}, until : Nat, next : Nat,
        created : Nat, attempts : Nat]

NoRow == [state |-> "absent", owner |-> None, until |-> 0, next |-> 0,
          created |-> 0, attempts |-> 0]

(* What a send comes to, or why there was none: a retracted freeze claim,  *)
(* a claim that could not be checked, the deadline or an abort.            *)
Answers == {"ok", "ambiguous", "blocked", "permanent", "rateLimit", "retryable"}
Skips == {"retracted", "held", "late"}

(* failed has, per chat, the failed head of its queue in this page.        *)
NoFailure == [why |-> "none"]
Failure == {NoFailure} \cup [why : (Answers \cup Skips) \ {"ok"}, job : Jobs]

Drain == [stage   : {"idle", "claim", "gate", "send", "flight", "backoff", "siblings"},
          page    : SUBSET Rows,   \* claimed, not yet settled
          full    : BOOLEAN,       \* the page had as many rows as were asked for
          crossed : SUBSET Rows,   \* attemptedIds
          wave    : UNION {[W -> Answers \cup Skips] : W \in SUBSET Rows},
          failed  : [Chats -> Failure],
          blocked : SUBSET Chats,  \* blockedChatsThisRun
          flood   : Nat]           \* globalStop, 0 for null

EmptyWave == [k \in {} |-> "late"]
Fresh(stage, blocked) ==
    [stage |-> stage, page |-> {}, full |-> FALSE, crossed |-> {}, wave |-> EmptyWave,
     failed |-> [c \in Chats |-> NoFailure], blocked |-> blocked, flood |-> 0]

(* A page of the fan-out: how many chunks each chat gets, and the cursor   *)
(* after it, 0 for null.                                                   *)
Fan == [stage : {"idle", "page", "commit"}, job : Jobs \cup {None}, at : Nat,
        cursor : Nat \cup {Rewound}, plan : [Chats -> 0 .. Chunks], next : Nat]
IdleFan == [stage |-> "idle", job |-> None, at |-> 0, cursor |-> 0,
            plan |-> [c \in Chats |-> 0], next |-> 0]

TypeOK ==
    /\ now \in Nat
    /\ job \in [Jobs -> Job]
    /\ row \in [Rows -> Row]
    /\ gate \in Nat
    /\ chat \in [Chats -> {"new", "in", "gone"}]
    /\ drain \in [Drains -> Drain]
    /\ fan \in [Fanouts -> Fan]
    /\ accepted \in [Rows -> Nat]
    /\ faults \in 0 .. MaxFaults

Init ==
    /\ now = 0
    /\ job = [j \in Jobs |-> [state |-> "absent", cursor |-> 0, expires |-> 0]]
    /\ row = [k \in Rows |-> NoRow]
    /\ gate = 0
    /\ chat \in [Chats -> {"new", "in"}]
    /\ drain = [d \in Drains |-> Fresh("idle", {})]
    /\ fan = [f \in Fanouts |-> IdleFan]
    /\ accepted = [k \in Rows |-> 0]
    /\ faults = 0

-----------------------------------------------------------------------------
(* Planning.                                                               *)

Planned(j, plan) == {k \in Rows : JobOf(k) = j /\ SeqOf(k) < plan[ChatOf(k)]}

(* A row planned at t: the other may be as old as the window allows, or,   *)
(* where a page is committed late, younger.                                *)
Duplicate(k, t) ==
    /\ JobOf(k) \in SameBody
    /\ \E l \in Rows : /\ JobOf(l) \in SameBody \ {JobOf(k)}
                       /\ ChatOf(l) = ChatOf(k) /\ SeqOf(l) = SeqOf(k)
                       /\ row[l].created >= t - DuplicateWindow
                       /\ row[l].state \in Prior

(* INSERT OR IGNORE on (job, chat, seq).                                   *)
Inserted(S, t) ==
    [k \in Rows |->
        IF k \in S /\ row[k].state = "absent"
        THEN [NoRow EXCEPT !.state = IF Duplicate(k, t) THEN "suppressed" ELSE "pending",
                           !.next = IF Duplicate(k, t) THEN 0 ELSE t, !.created = t]
        ELSE row[k]]

(* Whom a job concerns, and in how many chunks, is in preferences that may *)
(* change at any time.                                                     *)
Audience(S) == {plan \in [Chats -> 0 .. Chunks] : \A c \in Chats \ S : plan[c] = 0}
Subscribers == {c \in Chats : chat[c] = "in"}

Enqueue(j) ==
    /\ job[j].state = "absent" /\ now <= Horizon
    /\ job' = [job EXCEPT ![j] =
                 [state |-> IF j \in DirectJobs THEN "ready" ELSE "planning",
                  cursor |-> 0, expires |-> now + JobTtl]]
    /\ IF j \in DirectJobs
       THEN \E plan \in Audience(Subscribers) : row' = Inserted(Planned(j, plan), now)
       ELSE UNCHANGED row
    /\ UNCHANGED <<now, gate, chat, drain, fan, accepted, faults>>

(* A run cancels the planning jobs that expired and reads one of the rest. *)
Cancelled == {j \in Jobs : job[j].state = "planning" /\ job[j].expires <= now}

TakeJob(f) ==
    /\ fan[f].stage = "idle"
    /\ job' = [j \in Jobs |-> IF j \in Cancelled THEN [job[j] EXCEPT !.state = "cancelled"] ELSE job[j]]
    /\ \/ \E j \in Jobs \ Cancelled :
            /\ job[j].state = "planning"
            /\ fan' = [fan EXCEPT ![f] = [IdleFan EXCEPT !.stage = "page", !.job = j,
                                                         !.at = now, !.cursor = job[j].cursor]]
       \/ Cancelled # {} /\ UNCHANGED fan
    /\ UNCHANGED <<now, row, gate, chat, drain, accepted, faults>>

(* The page's chats lie beyond the cursor, up to the limit or, when a page *)
(* takes several batches, to the last chat of this one.                    *)
BuildPage(f) ==
    /\ fan[f].stage = "page"
    /\ \E next \in {0} \cup {c \in Subscribers : c > fan[f].cursor} :
       \E plan \in Audience({c \in Subscribers : c > fan[f].cursor /\ (next = 0 \/ c <= next)}) :
          fan' = [fan EXCEPT ![f].stage = "commit", ![f].plan = plan, ![f].next = next]
    /\ UNCHANGED <<now, job, row, gate, chat, drain, accepted, faults>>

Advances(f) ==
    /\ job[fan[f].job].state = "planning"
    /\ job[fan[f].job].cursor = fan[f].cursor

(* One batch: the rows, and the cursor if nobody has moved it.  The rows   *)
(* are inserted either way.                                                *)
CommitPage(f) ==
    /\ fan[f].stage = "commit"
    /\ row' = Inserted(Planned(fan[f].job, fan[f].plan), fan[f].at)
    /\ IF Advances(f)
       THEN /\ job' = [job EXCEPT ![fan[f].job].state = IF fan[f].next = 0 THEN "ready" ELSE @,
                                  ![fan[f].job].cursor = fan[f].next]
            /\ fan' = [fan EXCEPT ![f] = IF fan[f].next = 0 THEN IdleFan
                                         ELSE [@ EXCEPT !.stage = "page", !.cursor = fan[f].next,
                                                        !.plan = IdleFan.plan, !.next = 0]]
       ELSE /\ fan' = [fan EXCEPT ![f] = IdleFan]
            /\ UNCHANGED job
    /\ UNCHANGED <<now, gate, chat, drain, accepted, faults>>

-----------------------------------------------------------------------------
(* A drain: claim a page, gate its chats, send in waves, settle.           *)

Go(d, stage) == drain' = [drain EXCEPT ![d].stage = stage]
Leave(d) == drain' = [drain EXCEPT ![d] = Fresh("idle", {})]

(* A gate that is raised or cannot be read sends nothing.                  *)
StartDrain(d) ==
    /\ drain[d].stage = "idle"
    /\ gate <= now
    /\ Go(d, "claim")
    /\ UNCHANGED <<now, job, row, gate, chat, fan, accepted, faults>>

Due(k) == row[k].state \in Queued /\ row[k].next <= now

(* Mutant: a lower chunk that has ended, however, is out of the way.       *)
PassableOnceEnded(l) == row[l].state \in {"absent"} \cup Terminal \/ Due(l)

Passable(l) == row[l].state \in {"absent", "sent"} \/ Due(l)

Claimable(k) ==
    /\ Due(k)
    /\ job[JobOf(k)].expires > now
    /\ \A l \in Rows : LowerChunk(l, k) => Passable(l)

(* ORDER BY priority, created_at, job_id, chat_id, seq LIMIT: a message's  *)
(* rows have one priority, so among its chunks the older come first, and   *)
(* those of one age in their order.                                        *)
PageOf(S, C) ==
    /\ S \subseteq C
    /\ Cardinality(S) = IF Cardinality(C) <= PageSize THEN Cardinality(C) ELSE PageSize
    /\ \A k \in S, l \in C :
          /\ SameMessage(k, l)
          /\ \/ row[l].created < row[k].created
             \/ row[l].created = row[k].created /\ SeqOf(l) < SeqOf(k)
          => l \in S

(* Mutant: a claim that is dated back past the epoch.                      *)
ClaimedRowBackdated(d, k) ==
    [row[k] EXCEPT !.state = "sending", !.owner = d, !.until = now - MaxTime - 1]

ClaimedRow(d, k) == [row[k] EXCEPT !.state = "sending", !.owner = d, !.until = now + ClaimTtl]

(* One UPDATE.  The caller may hold kinds back or ask for one job.         *)
Claim(d) ==
    /\ drain[d].stage = "claim"
    /\ \E scope \in {Jobs, Jobs \ FreezeJobs} \cup {{j} : j \in DirectJobs} :
       \E S \in SUBSET {k \in Rows : JobOf(k) \in scope /\ Claimable(k)} :
          /\ PageOf(S, {k \in Rows : JobOf(k) \in scope /\ Claimable(k)})
          /\ row' = [k \in Rows |-> IF k \in S THEN ClaimedRow(d, k) ELSE row[k]]
          /\ drain' = [drain EXCEPT ![d] =
                         IF S = {} THEN Fresh("idle", {})
                         ELSE [Fresh("gate", @.blocked) EXCEPT
                                 !.page = S, !.full = (Cardinality(S) = PageSize)]]
    /\ UNCHANGED <<now, job, gate, chat, fan, accepted, faults>>

(* The deadline or an abort before the next page.                          *)
StopDrain(d) ==
    /\ drain[d].stage = "claim"
    /\ Leave(d)
    /\ UNCHANGED <<now, job, row, gate, chat, fan, accepted, faults>>

(* A settlement is fenced: the claim must still be this drain's.           *)
Mine(d, k) == row[k].state = "sending" /\ row[k].owner = d

(* A row that ends keeps only what is read again.                          *)
Ends(k, state) == [NoRow EXCEPT !.state = state, !.created = row[k].created]
Retries(k, delay, tried) ==
    [NoRow EXCEPT !.state = "retry", !.next = now + delay, !.created = row[k].created,
                  !.attempts = row[k].attempts + tried]

(* verdict is the settled row of each row in its domain.                   *)
Settled(d, verdict) ==
    [k \in Rows |-> IF k \in DOMAIN verdict /\ Mine(d, k) THEN verdict[k] ELSE row[k]]

(* Reading the chats' state and settling the rows that it stops is one     *)
(* step.  Snoozes are for a chat, or for all coins of a message.           *)
Gate(d) ==
    /\ drain[d].stage = "gate"
    /\ \E snoozed \in SUBSET {ChatOf(k) : k \in drain[d].page},
          muted \in SUBSET {<<JobOf(k), ChatOf(k)>> : k \in drain[d].page} :
       LET Missing(k) == chat[ChatOf(k)] # "in"
           Barred(k) == <<JobOf(k), ChatOf(k)>> \in muted \/ ChatOf(k) \in drain[d].blocked
           stopped == {k \in drain[d].page : Missing(k) \/ ChatOf(k) \in snoozed \/ Barred(k)}
       IN  /\ row' = Settled(d, [k \in stopped |->
                        IF ~Missing(k) /\ ChatOf(k) \in snoozed
                        THEN Retries(k, SnoozeFor, 0) ELSE Ends(k, "cancelled")])
           /\ drain' = [drain EXCEPT ![d].stage = "send", ![d].page = @ \ stopped]
    /\ UNCHANGED <<now, job, gate, chat, fan, accepted, faults>>

(* The next row of each chat whose queue has not failed: by job, then seq. *)
(* Chunks of a message stay in their order; the order of jobs is free.     *)
Heads(d) ==
    {k \in drain[d].page :
        /\ drain[d].failed[ChatOf(k)] = NoFailure
        /\ \A l \in drain[d].page : ~LowerChunk(l, k)}

WaveOf(d, W) ==
    /\ W \subseteq Heads(d) /\ W # {}
    /\ \A k, l \in W : ChatOf(k) = ChatOf(l) => k = l
    /\ LET ready == Cardinality({ChatOf(k) : k \in Heads(d)})
       IN  Cardinality(W) = IF ready <= BatchSize THEN ready ELSE BatchSize

(* The freeze claims are checked, then the wave crosses the send boundary, *)
(* unless the check took up the time.  Telegram accepts a message also     *)
(* where its answer is lost; an answer that is an error it gives for a     *)
(* message that it did not accept.                                         *)
Outcomes(k, late) ==
    (IF late THEN {"late"} ELSE Answers) \cup (IF JobOf(k) \in FreezeJobs THEN {"retracted", "held"} ELSE {})

SendWave(d) ==
    /\ drain[d].stage = "send" /\ drain[d].flood = 0
    /\ \E W \in SUBSET Heads(d), late \in BOOLEAN :
       /\ WaveOf(d, W)
       /\ \E o \in [W -> Answers \cup Skips] :
          /\ \A k \in W : o[k] \in Outcomes(k, late)
          /\ \E unheard \in SUBSET {k \in W : o[k] = "ambiguous"} :
                accepted' = [k \in Rows |-> IF k \in unheard \cup {l \in W : o[l] = "ok"}
                                            THEN accepted[k] + 1 ELSE accepted[k]]
          /\ drain' = [drain EXCEPT ![d].stage = "flight", ![d].wave = o, ![d].page = @ \ W,
                                    ![d].crossed = @ \cup {k \in W : o[k] \in Answers}]
    /\ UNCHANGED <<now, job, row, gate, chat, fan, faults>>

BackoffSec(why) == IF why = "rateLimit" THEN RetryAfter ELSE Backoff

(* classifyAttempt, and the verdict of a freeze claim.                     *)
Classify(k, why) ==
    CASE why = "ok"        -> Ends(k, "sent")
      [] why = "ambiguous" -> Ends(k, "unknown")
      [] why = "blocked"   -> Ends(k, "blocked")
      [] why = "permanent" -> Ends(k, "failed")
      [] why \in {"rateLimit", "retryable"} ->
            IF row[k].attempts + 1 < MaxAttempts
            THEN Retries(k, BackoffSec(why), 1) ELSE Ends(k, "failed")
      [] why = "retracted" -> Ends(k, "cancelled")
      [] why = "held"      -> Retries(k, Backoff, 0)
      [] why = "late"      -> Retries(k, 0, 0)

(* afterSendBatch: one batch settles the wave.                             *)
SettleWave(d) ==
    /\ drain[d].stage = "flight"
    /\ LET w == drain[d].wave
           Of(why) == {k \in DOMAIN w : w[k] = why}
       IN  /\ row' = Settled(d, [k \in DOMAIN w |-> Classify(k, w[k])])
           /\ drain' = [drain EXCEPT
                 ![d].stage = IF Of("rateLimit") # {} THEN "backoff" ELSE "send",
                 ![d].wave = IF Of("rateLimit") # {} THEN w ELSE EmptyWave,
                 ![d].blocked = @ \cup {ChatOf(k) : k \in Of("blocked")},
                 ![d].failed = [c \in Chats |->
                    IF \E k \in DOMAIN w \ Of("ok") : ChatOf(k) = c
                    THEN LET k == CHOOSE k \in DOMAIN w \ Of("ok") : ChatOf(k) = c
                         IN  [why |-> w[k], job |-> JobOf(k)]
                    ELSE @[c]]]
    /\ UNCHANGED <<now, job, gate, chat, fan, accepted, faults>>

AtLeast(x, y) == IF x >= y THEN x ELSE y

(* A chat's Retry-After holds for all its queued rows; several chats at    *)
(* once are a flood, for which the gate is raised and the run stops.  A    *)
(* gate that cannot be written is not retried.                             *)
RaiseBackoff(d, written) ==
    /\ drain[d].stage = "backoff"
    /\ LET limited == {ChatOf(k) : k \in {k \in DOMAIN drain[d].wave : drain[d].wave[k] = "rateLimit"}}
           until == now + AtLeast(1, RetryAfter)
           flood == Cardinality(limited) >= FloodChats
       IN  /\ row' = [k \in Rows |->
                        IF ChatOf(k) \in limited /\ row[k].state \in Queued
                        THEN [row[k] EXCEPT !.next = AtLeast(@, now + RetryAfter)] ELSE row[k]]
           /\ ~written => flood
           /\ gate' = IF flood /\ written THEN AtLeast(gate, until) ELSE gate
           /\ drain' = [drain EXCEPT ![d].stage = "send", ![d].wave = EmptyWave,
                                     ![d].flood = IF flood THEN until ELSE 0]
    /\ UNCHANGED <<now, job, chat, fan, accepted>>

(* classifyAttempt of a row that was not sent because its chat's queue     *)
(* failed before it, or because the run stopped.                           *)
ClassifyTail(d, k) ==
    LET h == drain[d].failed[ChatOf(k)]
        Behind(why) == h.why = why /\ h.job = JobOf(k)
    IN  IF \/ h.why = "blocked" \/ Behind("permanent") \/ Behind("ambiguous") \/ Behind("retracted")
        THEN Ends(k, "cancelled")
        ELSE Retries(k, CASE Behind("held") -> Backoff
                          [] h.why = "rateLimit" -> RetryAfter
                          [] OTHER -> AtLeast(0, drain[d].flood - now), 0)

AfterThePage(d) ==
    IF drain[d].full /\ drain[d].flood = 0 THEN Fresh("claim", drain[d].blocked) ELSE Fresh("idle", {})

Retracted(d) == {c \in Chats : drain[d].failed[c].why = "retracted"}

(* Every queue is empty or has failed, a flood stopped the run, or the     *)
(* deadline or an abort does; what is left of the page is settled unsent.  *)
SettleTails(d) ==
    /\ drain[d].stage = "send"
    /\ row' = Settled(d, [k \in drain[d].page |-> ClassifyTail(d, k)])
    /\ drain' = [drain EXCEPT ![d] = IF Retracted(d) # {}
                                     THEN [@ EXCEPT !.stage = "siblings", !.page = {}]
                                     ELSE AfterThePage(d)]
    /\ UNCHANGED <<now, job, gate, chat, fan, accepted, faults>>

(* A message whose freeze claim was retracted loses its queued chunks.     *)
CancelSiblings(d) ==
    /\ drain[d].stage = "siblings"
    /\ row' = [k \in Rows |->
                 IF /\ ChatOf(k) \in Retracted(d) /\ JobOf(k) = drain[d].failed[ChatOf(k)].job
                    /\ row[k].state \in Queued
                 THEN Ends(k, "cancelled") ELSE row[k]]
    /\ drain' = [drain EXCEPT ![d] = AfterThePage(d)]
    /\ UNCHANGED <<now, job, gate, chat, fan, accepted, faults>>

(* Mutant: rows that crossed the send boundary are released too.           *)
ReleasedWithSent(d) == drain[d].page \cup DOMAIN drain[d].wave

(* Rows that never crossed it.                                             *)
Released(d) == (drain[d].page \cup DOMAIN drain[d].wave) \ drain[d].crossed

(* After the claim anything may throw: a read, a batch, a callback; a      *)
(* batch that threw may have committed.  The rows that were never sent are *)
(* released, if that statement does not fail as well; a crash releases     *)
(* none.                                                                   *)
ThrowDrain(d, releases) ==
    /\ drain[d].stage \notin {"idle", "claim"}
    /\ row' = IF releases THEN Settled(d, [k \in Released(d) |-> Retries(k, 0, 0)]) ELSE row
    /\ Leave(d)
    /\ UNCHANGED <<now, job, gate, chat, fan, accepted>>

-----------------------------------------------------------------------------
(* The sweep and everything else.                                          *)

(* Mutants: an expired claim counts as a failure; a row that waits for its *)
(* retry does not expire.                                                  *)
SweptAsFailed(k) == Ends(k, IF row[k].state = "sending" THEN "failed" ELSE "expired")
SweptUnlessRetry(k) ==
    IF row[k].state = "retry" THEN row[k]
    ELSE Ends(k, IF row[k].state = "sending" THEN "unknown" ELSE "expired")

Swept(k) == Ends(k, IF row[k].state = "sending" THEN "unknown" ELSE "expired")

Overdue == {k \in Rows : \/ row[k].state = "sending" /\ row[k].until <= now
                         \/ row[k].state \in Queued /\ job[JobOf(k)].expires <= now}

(* One batch of two updates.                                               *)
Sweep ==
    /\ Overdue # {}
    /\ row' = [k \in Rows |-> IF k \in Overdue THEN Swept(k) ELSE row[k]]
    /\ UNCHANGED <<now, job, gate, chat, drain, fan, accepted, faults>>

(* A ready job without open rows is closed.                                *)
CloseJob(j) ==
    /\ job[j].state = "ready"
    /\ \A k \in Rows : JobOf(k) = j => row[k].state \notin Open
    /\ job' = [job EXCEPT ![j].state = "done"]
    /\ UNCHANGED <<now, row, gate, chat, drain, fan, accepted, faults>>

(* cancelRetractedFreezeDeliveries, for one retracted claim.               *)
CancelRetracted(j) ==
    /\ j \in FreezeJobs
    /\ row' = [k \in Rows |-> IF JobOf(k) = j /\ row[k].state \in Queued
                              THEN Ends(k, "cancelled") ELSE row[k]]
    /\ job' = [job EXCEPT ![j].state = IF @ = "planning" THEN "cancelled" ELSE @]
    /\ row' # row \/ job' # job
    /\ UNCHANGED <<now, gate, chat, drain, fan, accepted, faults>>

(* /start of a new chat.                                                   *)
Subscribe(c) ==
    /\ chat[c] = "new"
    /\ chat' = [chat EXCEPT ![c] = "in"]
    /\ UNCHANGED <<now, job, row, gate, drain, fan, accepted, faults>>

(* The subscriber before a chat, to whom a cursor at that chat is rewound. *)
Before(c) ==
    LET lower == {b \in Subscribers : b < c}
        last == {b \in lower : \A a \in lower : a <= b}
    IN  IF last = {} THEN Rewound ELSE CHOOSE b \in last : TRUE

(* /forget deletes the chat and its rows.  It does not come back.          *)
Forget(c) ==
    /\ chat[c] = "in"
    /\ chat' = [chat EXCEPT ![c] = "gone"]
    /\ row' = [k \in Rows |-> IF ChatOf(k) = c THEN NoRow ELSE row[k]]
    /\ job' = [j \in Jobs |-> IF job[j].state = "planning" /\ job[j].cursor = c
                              THEN [job[j] EXCEPT !.cursor = Before(c)] ELSE job[j]]
    /\ UNCHANGED <<now, gate, drain, fan, accepted, faults>>

(* A page that fails closed, an abort, the deadline or the isolate's end.  *)
FanFails(f) ==
    /\ fan[f].stage # "idle"
    /\ fan' = [fan EXCEPT ![f] = IdleFan]
    /\ UNCHANGED <<now, job, row, gate, chat, drain, accepted>>

Fault ==
    /\ \/ \E d \in Drains : RaiseBackoff(d, FALSE) \/ ThrowDrain(d, TRUE) \/ ThrowDrain(d, FALSE)
       \/ \E f \in Fanouts : FanFails(f)
    /\ faults < MaxFaults
    /\ faults' = faults + 1

Tick ==
    /\ now < MaxTime
    /\ now' = now + 1
    /\ UNCHANGED <<job, row, gate, chat, drain, fan, accepted, faults>>

DrainStep(d) ==
    \/ StartDrain(d) \/ Claim(d) \/ StopDrain(d) \/ Gate(d) \/ SendWave(d) \/ SettleWave(d)
    \/ RaiseBackoff(d, TRUE) /\ UNCHANGED faults
    \/ SettleTails(d) \/ CancelSiblings(d)

FanStep(f) == TakeJob(f) \/ BuildPage(f) \/ CommitPage(f)

Next ==
    \/ \E j \in Jobs : Enqueue(j) \/ CloseJob(j) \/ CancelRetracted(j)
    \/ \E f \in Fanouts : FanStep(f)
    \/ \E d \in Drains : DrainStep(d)
    \/ Sweep
    \/ \E c \in Chats : Subscribe(c) \/ Forget(c)
    \/ Fault
    \/ Tick

Spec == Init /\ [][Next]_vars

(* The dispatch lane runs again and again: every run plans, sweeps and     *)
(* closes.  Which fan-out goes on is open while one can, and nothing is    *)
(* assumed of the drains.                                                  *)
Fairness ==
    /\ WF_vars(Tick) /\ WF_vars(Sweep)
    /\ WF_vars(\E j \in Jobs : CloseJob(j))
    /\ WF_vars(\E f \in Fanouts : FanStep(f))

FairSpec == Spec /\ Fairness

-----------------------------------------------------------------------------
(* What must be true.                                                      *)

(* Whatever is interrupted, overtaken or answered too late - crashes,      *)
(* exceptions, claims that outlive their window, several drains, pages     *)
(* planned twice -, Telegram accepts no message of the outbox twice.       *)
AtMostOnce == \A k \in Rows : accepted[k] <= 1

(* Two alert jobs whose messages read the same, planned by different scans *)
(* within the window of each other, reach a chat that is still there once: *)
(* the later one is sent only where the earlier surely was not.            *)
SaidOnce ==
    \A k, l \in Rows :
        /\ {JobOf(k), JobOf(l)} \subseteq SameBody /\ JobOf(k) # JobOf(l)
        /\ ChatOf(k) = ChatOf(l) /\ SeqOf(k) = SeqOf(l)
        /\ chat[ChatOf(k)] = "in"
        /\ row[k].created - row[l].created \in -DuplicateWindow .. DuplicateWindow
        => accepted[k] + accepted[l] <= 1

(* The audit is honest: a row says sent only of a message that Telegram    *)
(* accepted, and of a message that it accepted, to a chat that is still    *)
(* there, the row never says that it waits, failed, expired or was         *)
(* cancelled - at worst that nobody knows.                                 *)
HonestOutcome ==
    \A k \in Rows :
        /\ row[k].state = "sent" => accepted[k] = 1
        /\ accepted[k] > 0 /\ chat[ChatOf(k)] = "in" => row[k].state \in {"sending", "sent", "unknown"}

(* Chunks that were planned together for a chat that is still there are    *)
(* accepted in their order, and never one behind a chunk that did not      *)
(* arrive.                                                                 *)
InOrder ==
    \A k, l \in Rows :
        /\ LowerChunk(l, k)
        /\ chat[ChatOf(k)] = "in"
        /\ row[k].state # "absent" /\ row[l].state # "absent"
        /\ row[k].created = row[l].created
        /\ accepted[k] > 0
        => accepted[l] > 0

(* Although drains may stop anywhere, the jobs that were enqueued come to  *)
(* an end, and all their rows with them, those that a late page adds to a  *)
(* job that is done too: again and again nothing is left open.             *)
EveryJobEnds ==
    []<>(\A j \in Jobs :
            job[j].state # "absent" =>
                /\ job[j].state \in {"done", "cancelled"}
                /\ \A k \in Rows : JobOf(k) = j => row[k].state \notin Open)
=============================================================================
