---------------------------- MODULE SlotCatchUp ----------------------------
(***************************************************************************)
(* The one-shot catch-up of missed slots, for one lane.                    *)
(*                                                                         *)
(* A slot is named by its start, a multiple of the lane's interval.  Two   *)
(* kinds of host look, on every pass, at the one slot whose catch-up       *)
(* window is open: the digest poll, and the reserve recovery, which may    *)
(* sweep a stale slot itself.  A slot that was never delivered or was      *)
(* abandoned is armed: the lane's marker in the cache table is moved       *)
(* forward to it and a hint is sent to a queue, in two steps.  The queue's *)
(* consumer acknowledges the hint, looks at the window again and claims    *)
(* the slot like a delivery of its own.                                    *)
(*                                                                         *)
(* The queue carries the hints of every catch-up lane and the reserve      *)
(* continuations, and its one consumer takes one message at a time: a hint *)
(* of this lane waits while the consumer is at work on another message,    *)
(* which may last as long as other lanes' work does.                       *)
(*                                                                         *)
(* SlotFence models the slot row statement by statement; here a claim, a   *)
(* takeover, a sweep's claim and its close are each the one statement that *)
(* commits it, so that several slots of the lane can be followed at once.  *)
(***************************************************************************)
EXTENDS Integers, FiniteSets

CONSTANTS
    Hosts,       \* hosts of the detection
    Reconcilers, \* those that pass reconcileStale
    Crons,       \* the platform's deliveries of the lane's slots
    Consumers,   \* consumers of the hint queue
    Interval,    \* the lane's cadence
    GraceCap,    \* SLOT_CATCH_UP_GRACE_CAP_SEC
    MarginCap,   \* SLOT_CATCH_UP_NEXT_SLOT_MARGIN_CAP_SEC
    LaneTimeout, \* the lane's longest task timeout
    Reserve,     \* SCHEDULED_SLOT_CONTROLLED_ERROR_RESERVE_MS, after a deadline
    SlotSilence, \* heartbeat silence that makes a row stale
    HardDead,    \* age at which a running row is stale
    Slots,       \* the starts of the slots that are followed
    MaxTime,     \* bound: the clock stops here
    Punctual,    \* TRUE: hosts, free consumers and deadlines are on time
    HostPeriod,  \* the longest time between two passes of a punctual host
    MaxFaults    \* bound: crashes, aborts, lost answers and duplicated hints

Runners == Crons \cup Consumers

ASSUME ActorAssumption ==
    /\ Reconcilers \subseteq Hosts
    /\ Crons \cap Consumers = {}

ASSUME TimeAssumption ==
    /\ {Interval, SlotSilence, HardDead, HostPeriod} \subseteq Nat \ {0}
    /\ {GraceCap, MarginCap, LaneTimeout, Reserve, MaxTime, MaxFaults} \subseteq Nat
    /\ Slots \subseteq Nat \ {0}
    /\ \A s \in Slots : s % Interval = 0
    /\ Punctual \in BOOLEAN

-----------------------------------------------------------------------------
(* The window policy.                                                      *)

AtMost(x, y) == IF x <= y THEN x ELSE y

GraceSec == AtMost((Interval * 2) \div 5, GraceCap)
NextSlotMarginSec == AtMost(Interval \div 5, MarginCap)

WithinWindow(s, t) ==
    /\ t >= s + GraceSec
    /\ t <= s + Interval - NextSlotMarginSec

(* The slot to which the instant t - GraceSec belongs, if its window is    *)
(* open.                                                                   *)
SlotOf(t) == (t \div Interval) * Interval

IsCandidate(s, t) == s = SlotOf(t - GraceSec) /\ WithinWindow(s, t)

(* Mutant: a deadline that ignores the lane's next slot.                   *)
DeadlineOfTaskOnly(s, entry) == entry + LaneTimeout

Deadline(s, entry) == AtMost(entry + LaneTimeout, s + Interval)

-----------------------------------------------------------------------------

VARIABLES
    now,     \* the clock
    row,     \* cron_slot_executions, per slot of the lane
    marker,  \* the lane's scheduled-catch-up entry of the cache table
    sent,    \* every hint that was given to the queue
    queue,   \* the hints that the queue still holds
    host,    \* what each detection pass has in memory
    runner,  \* what each delivery or consumer has in memory
    busy,    \* the consumers at work on messages that are not this lane's
    waited,  \* history: how long each slot's hint has waited for those
    claims,  \* history: per slot, its catch-up claims and the takeovers of them
    faults   \* how many failures there have been

others == <<busy, waited>>
vars == <<now, row, marker, sent, queue, host, runner, others, claims, faults>>

Row == [state     : {"absent", "running", "reconciling", "finished"},
        result    : {"none", "ok", "error", "stale"},
        catchUp   : BOOLEAN,
        gen       : Nat,
        startedAt : Nat,
        updatedAt : Nat]

NoRow == [state |-> "absent", result |-> "none", catchUp |-> FALSE,
          gen |-> 0, startedAt |-> 0, updatedAt |-> 0]

(* A hint is the marker's value: the slot, armedAt and the arming host,    *)
(* whose invocation id is another one at every pass.                       *)
Message == [slot : Slots, armedAt : Nat, by : Hosts]
NoMarker == [slot |-> 0]

(* at is the pass's nowSec, also when it is over: no host starts two       *)
(* passes in one second.  target is what its sweep claimed.                *)
Host == [stage : {"idle", "probe", "sweep", "close", "arm", "readback", "send"},
         at : Nat, slot : Slots \cup {0}, target : Slots \cup {0}, gen : Nat]

Runner == [stage : {"idle", "claim", "run"}, slot : Slots \cup {0}, gen : Nat, at : Nat]

AtRest(t)   == [stage |-> "idle", at |-> t, slot |-> 0, target |-> 0, gen |-> 0]
Begun(t, s) == [stage |-> "probe", at |-> t, slot |-> s, target |-> 0, gen |-> 0]
IdleRunner  == [stage |-> "idle", slot |-> 0, gen |-> 0, at |-> 0]

TypeOK ==
    /\ now \in Nat
    /\ row \in [Slots -> Row]
    /\ marker \in Message \cup {NoMarker}
    /\ sent \subseteq Message
    /\ queue \subseteq sent
    /\ host \in [Hosts -> Host]
    /\ runner \in [Runners -> Runner]
    /\ busy \subseteq Consumers
    /\ waited \in [Slots -> Nat]
    /\ claims \in [Slots -> [catchUp : Nat, robbed : Nat]]
    /\ faults \in 0 .. MaxFaults

Init ==
    /\ now = Interval
    /\ row = [s \in Slots |-> NoRow]
    /\ marker = NoMarker
    /\ sent = {}
    /\ queue = {}
    /\ host = [h \in Hosts |-> AtRest(0)]
    /\ runner = [r \in Runners |-> IdleRunner]
    /\ busy = {}
    /\ waited = [s \in Slots |-> 0]
    /\ claims = [s \in Slots |-> [catchUp |-> 0, robbed |-> 0]]
    /\ faults = 0

-----------------------------------------------------------------------------
(* The verdicts on a slot row.                                             *)

StaleAt(r, t) ==
    /\ r.state \in {"running", "reconciling"}
    /\ \/ r.updatedAt + SlotSilence <= t
       \/ r.state = "running" /\ r.startedAt + HardDead <= t

(* The reconciler's terminal of a slot that was not a catch-up.            *)
Abandoned(r) == r.state = "finished" /\ r.result = "stale" /\ ~r.catchUp

(* Mutant: a slot that failed by itself is caught up as well.              *)
MissedOrFailed(r) == r.state = "absent" \/ (r.state = "finished" /\ r.result # "ok")

(* Never delivered, or abandoned.                                          *)
Missed(r) == r.state = "absent" \/ Abandoned(r)

-----------------------------------------------------------------------------
(* A detection pass.                                                       *)

Go(h, stage) == host' = [host EXCEPT ![h].stage = stage]
Rest(h) == host' = [host EXCEPT ![h] = AtRest(@.at)]

StartPass(h) ==
    /\ host[h].stage = "idle" /\ host[h].at < now
    /\ \/ \E s \in Slots :
            /\ IsCandidate(s, now)
            /\ host' = [host EXCEPT ![h] = Begun(now, s)]
       \/ /\ ~\E s \in Slots : IsCandidate(s, now)
          /\ host' = [host EXCEPT ![h] = AtRest(now)]
    /\ UNCHANGED <<now, row, marker, sent, queue, runner, others, claims, faults>>

(* One read of the slot row and the lane's marker.                         *)
ProbeDueSlot(h) ==
    /\ host[h].stage = "probe"
    /\ LET r == row[host[h].slot]
           armed == marker.slot >= host[h].slot
       IN  \/ ~armed /\ Missed(r) /\ Go(h, "arm")
           \/ ~armed /\ ~Missed(r) /\ h \in Reconcilers /\ StaleAt(r, host[h].at) /\ Go(h, "sweep")
           \/ /\ armed \/ ~(Missed(r) \/ (h \in Reconcilers /\ StaleAt(r, host[h].at)))
              /\ Rest(h)
    /\ UNCHANGED <<now, row, marker, sent, queue, runner, others, claims, faults>>

(* The targeted sweep asks for one stale slot of the lane: the one that    *)
(* has been silent for longest.  It may find it held by a child's lease,   *)
(* lose it, or claim it.                                                   *)
Oldest(s, t) ==
    /\ StaleAt(row[s], t)
    /\ \A u \in Slots : StaleAt(row[u], t) =>
          \/ row[s].updatedAt < row[u].updatedAt
          \/ row[s].updatedAt = row[u].updatedAt /\ s <= u

SweptRow(r, t) ==
    [state |-> "reconciling", result |-> r.result, catchUp |-> r.catchUp,
     gen |-> r.gen + 1, startedAt |-> r.startedAt, updatedAt |-> t]

SweepClaim(h) ==
    /\ host[h].stage = "sweep"
    /\ \/ \E s \in Slots :
            /\ Oldest(s, host[h].at)
            /\ row' = [row EXCEPT ![s] = SweptRow(@, host[h].at)]
            /\ host' = [host EXCEPT ![h].stage = "close", ![h].target = s, ![h].gen = row[s].gen + 1]
       \/ Rest(h) /\ UNCHANGED row
    /\ UNCHANGED <<now, marker, sent, queue, runner, others, claims, faults>>

(* Mutant: the close writes metadata of its own and drops the catch-up     *)
(* mark.                                                                   *)
ClosedUnmarked(r, t) ==
    [r EXCEPT !.state = "finished", !.result = "stale", !.updatedAt = t, !.catchUp = FALSE]

Closed(r, t) == [r EXCEPT !.state = "finished", !.result = "stale", !.updatedAt = t]

(* The sweep's outcome is the verdict only if it names the due slot.       *)
AfterClose(h, s) == IF s = host[h].slot THEN "arm" ELSE "idle"

(* The fence may refuse the close, as may a child that has not settled:    *)
(* an error that ends the pass.                                            *)
SweepClose(h) ==
    /\ host[h].stage = "close"
    /\ LET s == host[h].target
       IN  \/ /\ row[s].state = "reconciling" /\ row[s].gen = host[h].gen
              /\ row' = [row EXCEPT ![s] = Closed(@, host[h].at)]
              /\ IF AfterClose(h, s) = "arm" THEN Go(h, "arm") ELSE Rest(h)
           \/ UNCHANGED row /\ Rest(h)
    /\ UNCHANGED <<now, marker, sent, queue, runner, others, claims, faults>>

Hint(h) == [slot |-> host[h].slot, armedAt |-> host[h].at, by |-> h]

(* Mutant: a marker that any other slot replaces.                          *)
MovesAnywhere(h) == marker.slot # host[h].slot

(* The marker only ever moves forward.                                     *)
Moves(h) == marker.slot < host[h].slot

(* Zero changes - somebody armed the slot, or the transport repeated a     *)
(* statement that had committed - send the pass to read the marker back.   *)
Arm(h, answered) ==
    /\ host[h].stage = "arm"
    /\ \/ /\ Moves(h)
          /\ marker' = Hint(h)
          /\ Go(h, IF answered THEN "send" ELSE "readback")
       \/ /\ answered /\ ~Moves(h)
          /\ Go(h, "readback")
          /\ UNCHANGED marker
    /\ UNCHANGED <<now, row, sent, queue, runner, others, claims>>

(* Mutant: a claim that is never its own.                                  *)
NeverMine(h) == FALSE

MarkerIsMine(h) == marker = Hint(h)

ReadBack(h) ==
    /\ host[h].stage = "readback"
    /\ IF MarkerIsMine(h) THEN Go(h, "send") ELSE Rest(h)
    /\ UNCHANGED <<now, row, marker, sent, queue, runner, others, claims, faults>>

Send(h) ==
    /\ host[h].stage = "send"
    /\ sent' = sent \cup {Hint(h)}
    /\ queue' = queue \cup {Hint(h)}
    /\ Rest(h)
    /\ UNCHANGED <<now, row, marker, runner, others, claims, faults>>

-----------------------------------------------------------------------------
(* Deliveries, hints and their work.                                       *)

(* Mutant: a claim that dates itself back by more than an interval.        *)
ClaimedRowBackdated(r, isCatchUp) ==
    [state |-> "running", result |-> "none", catchUp |-> isCatchUp,
     gen |-> r.gen + 1, startedAt |-> now - Interval - SlotSilence, updatedAt |-> now]

ClaimedRow(r, isCatchUp) ==
    [state |-> "running", result |-> "none", catchUp |-> isCatchUp,
     gen |-> r.gen + 1, startedAt |-> now, updatedAt |-> now]

Hold(r, s) == runner' = [runner EXCEPT ![r] = [stage |-> "run", slot |-> s, gen |-> row[s].gen + 1, at |-> now]]
RunnerRests(r) == runner' = [runner EXCEPT ![r] = IdleRunner]

(* Cron delivers a slot in time, late, twice or never.  A slot without row *)
(* is claimed, a stale running one may be taken over, any other is left.   *)
Deliver(c, s) ==
    /\ runner[c].stage = "idle"
    /\ s <= now
    /\ \/ row[s].state = "absent"
       \/ row[s].state = "running" /\ StaleAt(row[s], now)
    /\ row' = [row EXCEPT ![s] = ClaimedRow(@, FALSE)]
    /\ claims' = [claims EXCEPT ![s].robbed = IF row[s].catchUp THEN @ + 1 ELSE @]
    /\ Hold(c, s)
    /\ UNCHANGED <<now, marker, sent, queue, host, others, faults>>

(* A consumer that is free takes one message at a time, in any order.      *)
Free(q) == runner[q].stage = "idle" /\ q \notin busy

(* The hint is acknowledged before anything else.                          *)
Consume(q, m) ==
    /\ Free(q) /\ m \in queue
    /\ queue' = queue \ {m}
    /\ IF WithinWindow(m.slot, now)
       THEN runner' = [runner EXCEPT ![q] = [stage |-> "claim", slot |-> m.slot, gen |-> 0, at |-> now]]
       ELSE UNCHANGED runner
    /\ UNCHANGED <<now, row, marker, sent, host, others, claims, faults>>

(* The message is another lane's catch-up or a reserve continuation; there *)
(* may always be one more.  Where hints may wait for any length of time    *)
(* anyway, these are left out.                                             *)
TakeOther(q) ==
    /\ Punctual /\ Free(q)
    /\ busy' = busy \cup {q}
    /\ UNCHANGED <<now, row, marker, sent, queue, host, runner, waited, claims, faults>>

OtherEnds(q) ==
    /\ q \in busy
    /\ busy' = busy \ {q}
    /\ UNCHANGED <<now, row, marker, sent, queue, host, runner, waited, claims, faults>>

(* A slot without row is inserted, an abandoned one reopened, any other is *)
(* left to its owner.  Past the deadline the checkpoint throws first.      *)
ClaimMissed(q) ==
    /\ runner[q].stage = "claim"
    /\ LET s == runner[q].slot
       IN  IF Missed(row[s]) /\ now <= Deadline(s, runner[q].at)
           THEN /\ row' = [row EXCEPT ![s] = ClaimedRow(@, TRUE)]
                /\ claims' = [claims EXCEPT ![s].catchUp = @ + 1]
                /\ runner' = [runner EXCEPT ![q].stage = "run", ![q].gen = row[s].gen + 1]
           ELSE UNCHANGED <<row, claims>> /\ RunnerRests(q)
    /\ UNCHANGED <<now, marker, sent, queue, host, others, faults>>

Holds(r) ==
    /\ row[runner[r].slot].state = "running"
    /\ row[runner[r].slot].gen = runner[r].gen

Beat(r) ==
    /\ runner[r].stage = "run" /\ Holds(r)
    /\ row[runner[r].slot].updatedAt < now
    /\ row' = [row EXCEPT ![runner[r].slot].updatedAt = now]
    /\ UNCHANGED <<now, marker, sent, queue, host, runner, others, claims, faults>>

(* The run ends by itself, or by its deadline: it closes its row if it     *)
(* still holds it, or leaves work behind that has not settled.             *)
FinishRun(r) ==
    /\ runner[r].stage = "run"
    /\ \/ /\ Holds(r)
          /\ \E result \in {"ok", "error"} :
                row' = [row EXCEPT ![runner[r].slot] =
                          [@ EXCEPT !.state = "finished", !.result = result,
                                    !.updatedAt = now, !.catchUp = r \in Consumers]]
       \/ UNCHANGED row
    /\ RunnerRests(r)
    /\ UNCHANGED <<now, marker, sent, queue, host, others, claims, faults>>

(* The digest poll's sweep of all lanes, which closes a slot or leaves it  *)
(* reconciling.                                                            *)
PollSweep(s, closed) ==
    /\ StaleAt(row[s], now)
    /\ row' = [row EXCEPT ![s] = IF closed THEN Closed(SweptRow(@, now), now) ELSE SweptRow(@, now)]
    /\ UNCHANGED <<now, marker, sent, queue, host, runner, others, claims, faults>>

-----------------------------------------------------------------------------
(* What goes wrong.                                                        *)

(* An abort checkpoint, a failed statement or the isolate's end.           *)
PassFails(h) ==
    /\ host[h].stage # "idle"
    /\ Rest(h)
    /\ UNCHANGED <<now, row, marker, sent, queue, runner, others, claims>>

(* A send whose answer is an error may have reached the queue.             *)
SendFails(h) ==
    /\ host[h].stage = "send"
    /\ sent' = sent \cup {Hint(h)}
    /\ queue' = queue \cup {Hint(h)}
    /\ Rest(h)
    /\ UNCHANGED <<now, row, marker, runner, others, claims>>

(* The insert of a never-delivered slot committed and its answer was lost: *)
(* the consumer reads a running row and leaves it.                         *)
InsertUnanswered(q) ==
    /\ runner[q].stage = "claim"
    /\ LET s == runner[q].slot
       IN  /\ row[s].state = "absent" /\ now <= Deadline(s, runner[q].at)
           /\ row' = [row EXCEPT ![s] = ClaimedRow(@, TRUE)]
           /\ claims' = [claims EXCEPT ![s].catchUp = @ + 1]
    /\ RunnerRests(q)
    /\ UNCHANGED <<now, marker, sent, queue, host, others>>

RunnerDies(r) ==
    /\ runner[r].stage # "idle"
    /\ RunnerRests(r)
    /\ UNCHANGED <<now, row, marker, sent, queue, host, others, claims>>

(* The queue delivers a hint again.                                        *)
Redeliver(m) ==
    /\ m \in sent \ queue
    /\ queue' = queue \cup {m}
    /\ UNCHANGED <<now, row, marker, sent, host, runner, others, claims>>

Fault ==
    /\ \/ \E h \in Hosts : Arm(h, FALSE) \/ PassFails(h) \/ SendFails(h)
       \/ \E q \in Consumers : InsertUnanswered(q)
       \/ \E r \in Runners : RunnerDies(r)
       \/ \E m \in sent : Redeliver(m)
    /\ faults < MaxFaults
    /\ faults' = faults + 1

-----------------------------------------------------------------------------

(* When Punctual, every host makes a pass within its period, a free        *)
(* consumer takes a hint at once, and a catch-up is off the consumer a     *)
(* reserve after its deadline.  The work of others is not bounded.         *)
OnTime ==
    /\ \A h \in Hosts : host[h].stage = "idle" /\ now < host[h].at + HostPeriod
    /\ \A q \in Consumers :
          /\ runner[q].stage # "claim"
          /\ Free(q) => queue = {}
          /\ runner[q].stage = "run" => now < Deadline(runner[q].slot, runner[q].at) + Reserve

Waiting(s) == busy # {} /\ \E m \in queue : m.slot = s

Tick ==
    /\ now < MaxTime
    /\ Punctual => OnTime
    /\ now' = now + 1
    /\ waited' = [s \in Slots |-> IF Waiting(s) THEN waited[s] + 1 ELSE waited[s]]
    /\ UNCHANGED <<row, marker, sent, queue, host, runner, busy, claims, faults>>

HostStep(h) ==
    \/ StartPass(h) \/ ProbeDueSlot(h) \/ SweepClaim(h) \/ SweepClose(h)
    \/ Arm(h, TRUE) /\ UNCHANGED faults
    \/ ReadBack(h) \/ Send(h)

Next ==
    \/ \E h \in Hosts : HostStep(h)
    \/ \E c \in Crons, s \in Slots : Deliver(c, s)
    \/ \E q \in Consumers :
          \/ ClaimMissed(q) \/ TakeOther(q) \/ OtherEnds(q)
          \/ \E m \in queue : Consume(q, m)
    \/ \E r \in Runners : Beat(r) \/ FinishRun(r)
    \/ \E s \in Slots, closed \in BOOLEAN : PollSweep(s, closed)
    \/ Fault
    \/ Tick

Spec == Init /\ [][Next]_vars

-----------------------------------------------------------------------------
(* What must be true.                                                      *)

(* However the hosts' passes interleave, and whatever marker statements    *)
(* are repeated, at most one hint is ever sent for a slot.                 *)
OneHintPerSlot == \A m, n \in sent : m.slot = n.slot => m = n

(* A slot that a pass found missed is covered when the pass ends without a *)
(* failure: the marker has reached it, moved by this pass or another one.  *)
MissedIsArmed ==
    [][\A h \in Hosts :
         host[h].stage \in {"arm", "readback", "send"} /\ host'[h].stage = "idle" =>
            faults' # faults \/ marker'.slot >= host[h].slot]_vars

(* The marker suppresses every later pass, so the pass that moved it must  *)
(* send: it ends without a hint only by a failure, never because a lost    *)
(* answer hid its own claim.                                               *)
ArmedIsSent ==
    [][\A h \in Hosts :
         host[h].stage # "idle" /\ host'[h].stage = "idle" /\ marker = Hint(h) =>
            faults' # faults \/ Hint(h) \in sent']_vars

(* A live, finished or failed original is not armed: when the marker moves *)
(* to a slot, the slot is missed, or its row has changed since the pass    *)
(* began.                                                                  *)
ArmedOnlyIfMissed ==
    [][marker' # marker =>
         LET r == row[marker'.slot]
         IN  \/ r.state = "absent"
             \/ r.state = "finished" /\ r.result = "stale" /\ ~r.catchUp
             \/ r.updatedAt >= marker'.armedAt]_vars

(* A slot is caught up once.  Only where a late original took a silent     *)
(* catch-up over can a repeated hint claim it again.                       *)
CaughtUpOnce == \A s \in Slots : claims[s].catchUp <= 1 + claims[s].robbed

(* With hosts, free consumers and deadlines on time and nothing failing, a *)
(* slot is left without row when its window closes only if its hint waited *)
(* behind other messages of the shared consumer for longer than the window *)
(* leaves after a host's period - however much work the consumer has, and  *)
(* although it may still be at this lane's slot before.                    *)
MissedSlotIsCaughtUp ==
    \A s \in Slots :
        now > s + Interval - NextSlotMarginSec =>
            \/ row[s].state # "absent"
            \/ waited[s] + HostPeriod > Interval - GraceSec - NextSlotMarginSec + 1
=============================================================================
