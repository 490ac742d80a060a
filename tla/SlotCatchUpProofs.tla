------------------------- MODULE SlotCatchUpProofs -------------------------
(***************************************************************************)
(* Proofs about the missed-slot catch-up, for any numbers of hosts,        *)
(* deliveries and consumers, any slots and any windows.                    *)
(*                                                                         *)
(* Each invariant here is inductive relative to the types:                 *)
(*   Hints    a hint that was sent, or is about to be, is never ahead of   *)
(*            the marker, and is the marker when it names the same slot;   *)
(*   Passes   what a pass knows of the marker;                             *)
(*   Verdicts an armed slot is missed or has changed since the pass began, *)
(*            although the sweeps of slower passes date rows back;         *)
(*   Owners   a row's catchUp mark says what kind of runner holds it, and  *)
(*            how often it was caught up;                                  *)
(*   InTime   where everybody is on time and nothing fails: a pass looks   *)
(*            at the slot whose window is open, an armed slot stays under  *)
(*            way until it has a row or its window ends, nothing is done   *)
(*            for a slot before its window opens, and a host's period      *)
(*            after that every second goes to messages of others.          *)
(***************************************************************************)
EXTENDS SlotCatchUp, TLAPS

(* Whoever is at work works on a slot; no pass is ahead of the clock.      *)
Located ==
    /\ \A h \in Hosts :
         /\ host[h].at <= now
         /\ host[h].stage # "idle" => host[h].slot \in Slots
         /\ host[h].stage = "close" => host[h].target \in Slots
    /\ \A r \in Runners : runner[r].stage # "idle" => runner[r].slot \in Slots

Typing == TypeOK /\ Located

-----------------------------------------------------------------------------
(* Building blocks of the types.                                           *)

(* A row that was claimed, swept or closed is a row.                       *)
LEMMA RowsAreRows ==
    ASSUME NEW r \in Row, NEW t \in Nat, NEW b \in BOOLEAN, now \in Nat
    PROVE  /\ ClaimedRow(r, b) \in Row
           /\ SweptRow(r, t) \in Row
           /\ Closed(r, t) \in Row
           /\ [r EXCEPT !.updatedAt = t] \in Row
           /\ \A result \in {"ok", "error"} :
                [r EXCEPT !.state = "finished", !.result = result,
                          !.updatedAt = t, !.catchUp = b] \in Row
<1>1. ClaimedRow(r, b) \in Row
  BY DEF Row, ClaimedRow
<1>2. SweptRow(r, t) \in Row
  BY DEF Row, SweptRow
<1>3. Closed(r, t) \in Row
  BY DEF Row, Closed
<1>4. [r EXCEPT !.updatedAt = t] \in Row
  BY DEF Row
<1>5. ASSUME NEW result \in {"ok", "error"}
      PROVE  [r EXCEPT !.state = "finished", !.result = result,
                       !.updatedAt = t, !.catchUp = b] \in Row
  BY DEF Row
<1> QED BY <1>1, <1>2, <1>3, <1>4, <1>5

(* A pass at work has a hint to give.                                      *)
LEMMA HintIsMessage ==
    ASSUME Typing, NEW h \in Hosts, host[h].stage # "idle"
    PROVE  Hint(h) \in Message
BY DEF Typing, TypeOK, Located, Hint, Message, Host

(* A pass whose host record changes so stays typed and located.            *)
Moved(h) ==
    /\ host' \in [Hosts -> Host]
    /\ \A g \in Hosts \ {h} : host'[g] = host[g]
    /\ host'[h].at <= now
    /\ host'[h].stage # "idle" => host'[h].slot \in Slots
    /\ host'[h].stage = "close" => host'[h].target \in Slots

(* A pass that goes on keeps everything but its stage.                     *)
LEMMA HostGoes ==
    ASSUME Typing, NEW h \in Hosts, NEW stage \in {"probe", "sweep", "arm", "readback", "send"},
           host[h].stage # "idle", Go(h, stage)
    PROVE  /\ Moved(h)
           /\ host'[h].stage = stage
           /\ host'[h].at = host[h].at
           /\ host'[h].slot = host[h].slot
           /\ host'[h].gen = host[h].gen
<1>1. host[h] \in Host /\ DOMAIN host = Hosts
  BY DEF Typing, TypeOK
<1>2. host'[h] = [host[h] EXCEPT !.stage = stage]
  BY <1>1 DEF Go
<1>3. \A g \in Hosts \ {h} : host'[g] = host[g]
  BY <1>1 DEF Go
<1>4. host'[h] \in Host
  BY <1>1, <1>2 DEF Host
<1>5. host' \in [Hosts -> Host]
  BY <1>1, <1>3, <1>4 DEF Go, Typing, TypeOK
<1> QED BY <1>1, <1>2, <1>3, <1>5 DEF Moved, Typing, Located, Host

(* A pass that rests keeps its time and forgets its slot.                  *)
LEMMA HostRests ==
    ASSUME Typing, NEW h \in Hosts, Rest(h)
    PROVE  /\ Moved(h)
           /\ host'[h].stage = "idle"
           /\ host'[h].at = host[h].at
<1>1. host[h] \in Host /\ DOMAIN host = Hosts
  BY DEF Typing, TypeOK
<1>2. host'[h] = AtRest(host[h].at)
  BY <1>1 DEF Rest
<1>3. \A g \in Hosts \ {h} : host'[g] = host[g]
  BY <1>1 DEF Rest
<1>4. host'[h] \in Host
  BY <1>1, <1>2 DEF Host, AtRest
<1>5. host' \in [Hosts -> Host]
  BY <1>1, <1>3, <1>4 DEF Rest, Typing, TypeOK
<1> QED BY <1>1, <1>2, <1>3, <1>5 DEF Moved, Typing, Located, AtRest

-----------------------------------------------------------------------------
(* The steps of a pass.  Each says what it does to its host record; what   *)
(* it does to the rest follows.                                            *)

(* A pass begins at the present second, later than the one before.         *)
LEMMA StartMoves ==
    ASSUME Typing, NEW h \in Hosts, StartPass(h)
    PROVE  /\ Moved(h)
           /\ host'[h].stage \in {"idle", "probe"}
           /\ host'[h].at = now
           /\ host[h].at < now
           /\ UNCHANGED <<now, row, marker, sent, queue, runner, claims, faults>>
<1>1. host \in [Hosts -> Host] /\ now \in Nat
  BY DEF Typing, TypeOK
<1>2. host[h].at < now /\ UNCHANGED <<now, row, marker, sent, queue, runner, claims, faults>>
  BY DEF StartPass
<1>3. AtRest(now) \in Host /\ \A s \in Slots : Begun(now, s) \in Host
  BY <1>1 DEF Host, AtRest, Begun
<1>4. \/ \E s \in Slots : host' = [host EXCEPT ![h] = Begun(now, s)]
      \/ host' = [host EXCEPT ![h] = AtRest(now)]
  BY DEF StartPass
<1>5. PICK w \in Host :
         /\ host' = [host EXCEPT ![h] = w]
         /\ w.at = now /\ (w.stage = "idle" \/ (w.stage = "probe" /\ w.slot \in Slots))
  BY <1>3, <1>4 DEF AtRest, Begun
<1>6. host' \in [Hosts -> Host] /\ host'[h] = w /\ \A g \in Hosts \ {h} : host'[g] = host[g]
  BY <1>1, <1>5
<1>7. now <= now
  BY <1>1
<1>8. host'[h].at = now /\ host'[h].stage \in {"idle", "probe"}
  BY <1>5, <1>6
<1>9. host'[h].stage # "idle" => host'[h].slot \in Slots
  BY <1>5, <1>6
<1>10. Moved(h)
  BY <1>6, <1>7, <1>8, <1>9 DEF Moved
<1> QED BY <1>2, <1>8, <1>10

(* The read of the due slot ends the pass, or finds it missed or stale.    *)
LEMMA ProbeMoves ==
    ASSUME Typing, NEW h \in Hosts, ProbeDueSlot(h)
    PROVE  /\ Moved(h)
           /\ host'[h].stage \in {"idle", "sweep", "arm"}
           /\ host'[h].stage = "arm" => Missed(row[host[h].slot]) /\ host'[h].slot = host[h].slot
           /\ host'[h].at = host[h].at
           /\ UNCHANGED <<now, row, marker, sent, queue, runner, claims, faults>>
<1>1. CASE Go(h, "arm") /\ Missed(row[host[h].slot])
  BY <1>1, HostGoes DEF ProbeDueSlot
<1>2. CASE Go(h, "sweep")
  BY <1>2, HostGoes DEF ProbeDueSlot
<1>3. CASE Rest(h)
  BY <1>3, HostRests DEF ProbeDueSlot
<1> QED BY <1>1, <1>2, <1>3 DEF ProbeDueSlot

(* A sweep claims a stale row, or finds nothing that it may claim.         *)
LEMMA SweepClaimMoves ==
    ASSUME Typing, NEW h \in Hosts, SweepClaim(h)
    PROVE  /\ Moved(h)
           /\ host[h].stage = "sweep"
           /\ host'[h].at = host[h].at
           /\ \/ host'[h].stage = "idle" /\ UNCHANGED row
              \/ \E s \in Slots :
                   /\ host'[h].stage = "close" /\ host'[h].slot = host[h].slot
                   /\ host'[h].target = s /\ host'[h].gen = row[s].gen + 1
                   /\ Oldest(s, host[h].at)
                   /\ row' = [row EXCEPT ![s] = SweptRow(@, host[h].at)]
           /\ UNCHANGED <<now, marker, sent, queue, runner, claims, faults>>
<1>1. host \in [Hosts -> Host] /\ row \in [Slots -> Row] /\ host[h].stage = "sweep"
  BY DEF Typing, TypeOK, SweepClaim
<1>2. ASSUME NEW s \in Slots, Oldest(s, host[h].at), row' = [row EXCEPT ![s] = SweptRow(@, host[h].at)],
             host' = [host EXCEPT ![h].stage = "close", ![h].target = s, ![h].gen = row[s].gen + 1]
      PROVE  /\ Moved(h)
             /\ host'[h].at = host[h].at
             /\ host'[h].stage = "close" /\ host'[h].slot = host[h].slot
             /\ host'[h].target = s /\ host'[h].gen = row[s].gen + 1
  <2> DEFINE w == [stage |-> "close", at |-> host[h].at, slot |-> host[h].slot,
                   target |-> s, gen |-> row[s].gen + 1]
  <2>1. host[h] \in Host /\ row[s] \in Row
    BY <1>1
  <2>2. w \in Host
    BY <2>1 DEF Host, Row
  <2>3. host'[h] = w
    BY <1>1, <1>2, <2>1 DEF Host
  <2>4. \A g \in Hosts \ {h} : host'[g] = host[g]
    BY <1>1, <1>2
  <2>5. host' \in [Hosts -> Host]
    BY <1>1, <1>2, <2>2, <2>3, <2>4
  <2> QED BY <1>1, <2>2, <2>3, <2>4, <2>5 DEF Moved, Typing, Located
<1>3. CASE Rest(h) /\ UNCHANGED row
  BY <1>3, <1>1, HostRests DEF SweepClaim
<1> QED BY <1>1, <1>2, <1>3 DEF SweepClaim

(* A sweep closes the row that it claimed, or finds it gone.               *)
LEMMA SweepCloseMoves ==
    ASSUME Typing, NEW h \in Hosts, SweepClose(h)
    PROVE  /\ Moved(h)
           /\ host[h].stage = "close"
           /\ host'[h].at = host[h].at
           /\ host'[h].stage \in {"idle", "arm"}
           /\ LET s == host[h].target
              IN  \/ host'[h].stage = "idle" /\ UNCHANGED row
                  \/ /\ row[s].state = "reconciling" /\ row[s].gen = host[h].gen
                     /\ row' = [row EXCEPT ![s] = Closed(@, host[h].at)]
                     /\ host'[h].stage = "arm" => s = host[h].slot /\ host'[h].slot = s
           /\ UNCHANGED <<now, marker, sent, queue, runner, claims, faults>>
<1>1. CASE Rest(h)
  BY <1>1, HostRests DEF SweepClose
<1>2. CASE /\ Go(h, "arm") /\ host[h].target = host[h].slot
           /\ row[host[h].target].state = "reconciling" /\ row[host[h].target].gen = host[h].gen
           /\ row' = [row EXCEPT ![host[h].target] = Closed(@, host[h].at)]
  BY <1>2, HostGoes DEF SweepClose
<1> QED BY <1>1, <1>2 DEF SweepClose, AfterClose

(* The marker moves to the pass's slot, or is there already.               *)
LEMMA ArmMoves ==
    ASSUME Typing, NEW h \in Hosts, NEW answered \in BOOLEAN, Arm(h, answered)
    PROVE  /\ Moved(h)
           /\ host[h].stage = "arm" /\ host'[h].stage \in {"send", "readback"}
           /\ host'[h].at = host[h].at /\ host'[h].slot = host[h].slot
           /\ \/ Moves(h) /\ marker' = Hint(h)
              \/ ~Moves(h) /\ marker' = marker /\ host'[h].stage = "readback"
           /\ UNCHANGED <<now, row, sent, queue, runner, claims>>
<1>1. CASE Go(h, "send")
  BY <1>1, HostGoes DEF Arm
<1>2. CASE Go(h, "readback")
  BY <1>2, HostGoes DEF Arm
<1> QED BY <1>1, <1>2 DEF Arm

(* The marker that is read back is the pass's own, or ends the pass.       *)
LEMMA ReadBackMoves ==
    ASSUME Typing, NEW h \in Hosts, ReadBack(h)
    PROVE  /\ Moved(h)
           /\ host[h].stage = "readback"
           /\ host'[h].at = host[h].at
           /\ \/ marker # Hint(h) /\ host'[h].stage = "idle"
              \/ marker = Hint(h) /\ host'[h].stage = "send" /\ host'[h].slot = host[h].slot
           /\ UNCHANGED <<now, row, marker, sent, queue, runner, claims, faults>>
<1>1. CASE MarkerIsMine(h)
  BY <1>1, HostGoes DEF ReadBack, MarkerIsMine
<1>2. CASE ~MarkerIsMine(h)
  BY <1>2, HostRests DEF ReadBack, MarkerIsMine
<1> QED BY <1>1, <1>2

(* A send, answered or not, gives the hint and ends the pass.              *)
LEMMA SendMoves ==
    ASSUME Typing, NEW h \in Hosts, Send(h) \/ SendFails(h)
    PROVE  /\ Moved(h)
           /\ host[h].stage = "send" /\ host'[h].stage = "idle"
           /\ host'[h].at = host[h].at
           /\ sent' = sent \cup {Hint(h)} /\ queue' = queue \cup {Hint(h)}
           /\ UNCHANGED <<now, row, marker, runner, claims>>
BY HostRests DEF Send, SendFails

(* A failure ends the pass and touches nothing else.                       *)
LEMMA FailMoves ==
    ASSUME Typing, NEW h \in Hosts, PassFails(h)
    PROVE  /\ Moved(h)
           /\ host'[h].stage = "idle" /\ host'[h].at = host[h].at
           /\ UNCHANGED <<now, row, marker, sent, queue, runner, claims>>
BY HostRests DEF PassFails

-----------------------------------------------------------------------------
(* The steps of a runner, and of the poll's sweep.                         *)

(* One row of the lane is replaced by another row.                         *)
Rewrites(s, w) == w \in Row /\ row' = [row EXCEPT ![s] = w]

(* A runner that rests or works on a slot stays typed and located.         *)
RunnerMoved(r) ==
    /\ runner' \in [Runners -> Runner]
    /\ \A o \in Runners \ {r} : runner'[o] = runner[o]
    /\ runner'[r].stage # "idle" => runner'[r].slot \in Slots

(* A runner that rests has no slot.                                        *)
LEMMA RestMoves ==
    ASSUME Typing, NEW r \in Runners, RunnerRests(r)
    PROVE  RunnerMoved(r) /\ runner'[r].stage = "idle"
<1>1. runner \in [Runners -> Runner] /\ IdleRunner \in Runner
  BY DEF Typing, TypeOK, IdleRunner, Runner
<1>2. runner'[r] = IdleRunner
  BY <1>1 DEF RunnerRests
<1> QED BY <1>1, <1>2 DEF RunnerRests, RunnerMoved, IdleRunner

(* A delivery claims a slot without row, or takes a stale one over.        *)
LEMMA DeliverMoves ==
    ASSUME Typing, NEW c \in Crons, NEW s \in Slots, Deliver(c, s)
    PROVE  /\ RunnerMoved(c)
           /\ runner'[c] = [stage |-> "run", slot |-> s, gen |-> row[s].gen + 1, at |-> now]
           /\ Rewrites(s, ClaimedRow(row[s], FALSE))
           /\ row[s].state \in {"absent", "running"}
           /\ claims' = [claims EXCEPT ![s].robbed = IF row[s].catchUp THEN @ + 1 ELSE @]
           /\ UNCHANGED <<now, marker, sent, queue, host, faults>>
<1>1. runner \in [Runners -> Runner] /\ row[s] \in Row /\ row \in [Slots -> Row] /\ c \in Runners /\ now \in Nat
  BY DEF Typing, TypeOK, Runners
<1> DEFINE w == [stage |-> "run", slot |-> s, gen |-> row[s].gen + 1, at |-> now]
<1>2. w \in Runner
  BY <1>1 DEF Runner, Row
<1>3. runner' = [runner EXCEPT ![c] = w]
  BY DEF Deliver, Hold
<1>4. RunnerMoved(c) /\ runner'[c] = w
  BY <1>1, <1>2, <1>3 DEF RunnerMoved
<1>5. Rewrites(s, ClaimedRow(row[s], FALSE))
  BY <1>1, RowsAreRows DEF Deliver, Rewrites
<1> QED BY <1>4, <1>5 DEF Deliver

(* A consumer takes a hint and turns to its slot, or lets it expire.       *)
LEMMA ConsumeMoves ==
    ASSUME Typing, NEW q \in Consumers, NEW m \in queue, Consume(q, m)
    PROVE  /\ RunnerMoved(q)
           /\ runner'[q].stage # "run"
           /\ queue' \subseteq queue
           /\ UNCHANGED <<now, row, marker, sent, host, claims, faults>>
<1>1. runner \in [Runners -> Runner] /\ q \in Runners /\ now \in Nat /\ m \in Message
  BY DEF Typing, TypeOK, Runners
<1>2. runner[q].stage = "idle" /\ queue' \subseteq queue
         /\ UNCHANGED <<now, row, marker, sent, host, claims, faults>>
  BY DEF Consume, Free
<1> DEFINE w == [stage |-> "claim", slot |-> m.slot, gen |-> 0, at |-> now]
<1>3. w \in Runner /\ w.slot \in Slots
  BY <1>1 DEF Runner, Message
<1>4. CASE runner' = [runner EXCEPT ![q] = w]
  BY <1>1, <1>2, <1>3, <1>4 DEF RunnerMoved
<1>5. CASE UNCHANGED runner
  BY <1>1, <1>2, <1>5 DEF RunnerMoved
<1> QED BY <1>2, <1>4, <1>5 DEF Consume

(* A consumer's claim is of a missed slot, or ends the consumer's work.    *)
LEMMA ClaimMoves ==
    ASSUME Typing, NEW q \in Consumers, ClaimMissed(q)
    PROVE  /\ RunnerMoved(q)
           /\ \/ runner'[q].stage = "idle" /\ UNCHANGED <<row, claims>>
              \/ \E s \in Slots :
                   /\ Missed(row[s])
                   /\ runner'[q].stage = "run" /\ runner'[q].slot = s
                   /\ runner'[q].gen = row[s].gen + 1
                   /\ Rewrites(s, ClaimedRow(row[s], TRUE))
                   /\ claims' = [claims EXCEPT ![s].catchUp = @ + 1]
           /\ UNCHANGED <<now, marker, sent, queue, host, faults>>
<1> DEFINE s == runner[q].slot
<1>1. runner \in [Runners -> Runner] /\ q \in Runners /\ row \in [Slots -> Row] /\ now \in Nat
  BY DEF Typing, TypeOK, Runners
<1>2. s \in Slots
  BY <1>1 DEF ClaimMissed, Typing, Located
<1>3. CASE RunnerRests(q) /\ UNCHANGED <<row, claims>>
  BY <1>1, <1>3, RestMoves DEF ClaimMissed
<1>4. CASE /\ Missed(row[s]) /\ row' = [row EXCEPT ![s] = ClaimedRow(@, TRUE)]
           /\ claims' = [claims EXCEPT ![s].catchUp = @ + 1]
           /\ runner' = [runner EXCEPT ![q].stage = "run", ![q].gen = row[s].gen + 1]
  <2> DEFINE w == [stage |-> "run", slot |-> s, gen |-> row[s].gen + 1, at |-> runner[q].at]
  <2>1. w \in Runner
    BY <1>1, <1>2 DEF Runner, Row
  <2>2. runner'[q] = w
    BY <1>1, <1>4 DEF Runner
  <2>3. RunnerMoved(q)
    BY <1>1, <1>2, <1>4, <2>1, <2>2 DEF RunnerMoved
  <2>4. Rewrites(s, ClaimedRow(row[s], TRUE))
    BY <1>1, <1>2, <1>4, RowsAreRows DEF Rewrites
  <2>5. /\ runner'[q].stage = "run" /\ runner'[q].slot = s
        /\ runner'[q].gen = row[s].gen + 1
    BY <2>2
  <2>6. UNCHANGED <<now, marker, sent, queue, host, faults>>
    BY DEF ClaimMissed
  <2> HIDE DEF s
  <2> QED BY <1>2, <1>4, <2>3, <2>4, <2>5, <2>6
<1> QED BY <1>3, <1>4 DEF ClaimMissed

(* So is the claim whose answer was lost.                                  *)
LEMMA UnansweredMoves ==
    ASSUME Typing, NEW q \in Consumers, InsertUnanswered(q)
    PROVE  /\ RunnerMoved(q) /\ runner'[q].stage = "idle"
           /\ \E s \in Slots :
                /\ Missed(row[s])
                /\ Rewrites(s, ClaimedRow(row[s], TRUE))
                /\ claims' = [claims EXCEPT ![s].catchUp = @ + 1]
           /\ UNCHANGED <<now, marker, sent, queue, host>>
<1> DEFINE s == runner[q].slot
<1>1. q \in Runners /\ row \in [Slots -> Row] /\ now \in Nat
  BY DEF Typing, TypeOK, Runners
<1>2. s \in Slots
  BY <1>1 DEF InsertUnanswered, Typing, Located
<1>3. Rewrites(s, ClaimedRow(row[s], TRUE))
  BY <1>1, <1>2, RowsAreRows DEF Rewrites, InsertUnanswered
<1>4. RunnerMoved(q) /\ runner'[q].stage = "idle"
  BY <1>1, RestMoves DEF InsertUnanswered
<1> QED BY <1>2, <1>3, <1>4 DEF InsertUnanswered, Missed

(* A heartbeat renews a running row.                                       *)
LEMMA BeatMoves ==
    ASSUME Typing, NEW r \in Runners, Beat(r)
    PROVE  /\ \E s \in Slots :
                /\ row[s].state = "running"
                /\ Rewrites(s, [row[s] EXCEPT !.updatedAt = now])
           /\ UNCHANGED <<now, marker, sent, queue, host, runner, claims, faults>>
<1> DEFINE s == runner[r].slot
<1>1. row \in [Slots -> Row] /\ now \in Nat /\ s \in Slots
  BY DEF Typing, TypeOK, Beat, Located
<1>2. Rewrites(s, [row[s] EXCEPT !.updatedAt = now])
  BY <1>1, RowsAreRows DEF Rewrites, Beat
<1> QED BY <1>1, <1>2 DEF Beat, Holds

(* The end of a run closes the row that it holds, or leaves it.            *)
LEMMA FinishMoves ==
    ASSUME Typing, NEW r \in Runners, FinishRun(r)
    PROVE  /\ RunnerMoved(r) /\ runner'[r].stage = "idle"
           /\ \/ UNCHANGED row
              \/ \E s \in Slots, result \in {"ok", "error"} :
                   /\ runner[r].stage = "run" /\ s = runner[r].slot /\ Holds(r)
                   /\ Rewrites(s, [row[s] EXCEPT !.state = "finished", !.result = result,
                                                 !.updatedAt = now, !.catchUp = r \in Consumers])
           /\ UNCHANGED <<now, marker, sent, queue, host, claims, faults>>
<1> DEFINE s == runner[r].slot
<1>1. row \in [Slots -> Row] /\ now \in Nat /\ s \in Slots
  BY DEF Typing, TypeOK, FinishRun, Located
<1>2. RunnerMoved(r) /\ runner'[r].stage = "idle"
  BY RestMoves DEF FinishRun
<1>3. ASSUME NEW result \in {"ok", "error"},
             row' = [row EXCEPT ![s] = [@ EXCEPT !.state = "finished", !.result = result,
                                                !.updatedAt = now, !.catchUp = r \in Consumers]]
      PROVE  Rewrites(s, [row[s] EXCEPT !.state = "finished", !.result = result,
                                        !.updatedAt = now, !.catchUp = r \in Consumers])
  <2>1. (r \in Consumers) \in BOOLEAN
    OBVIOUS
  <2>2. row[s] \in Row
    BY <1>1
  <2> QED BY <1>1, <1>3, <2>1, <2>2, RowsAreRows DEF Rewrites
<1> QED BY <1>1, <1>2, <1>3 DEF FinishRun

(* The poll's sweep reconciles a stale row, and may close it.              *)
LEMMA PollMoves ==
    ASSUME Typing, NEW s \in Slots, NEW closed \in BOOLEAN, PollSweep(s, closed)
    PROVE  /\ StaleAt(row[s], now)
           /\ \/ Rewrites(s, SweptRow(row[s], now))
              \/ Rewrites(s, Closed(SweptRow(row[s], now), now))
           /\ UNCHANGED <<now, marker, sent, queue, host, runner, claims, faults>>
<1>1. row \in [Slots -> Row] /\ now \in Nat /\ row[s] \in Row
  BY DEF Typing, TypeOK
<1>2. SweptRow(row[s], now) \in Row
  BY <1>1, RowsAreRows
<1>3. Closed(SweptRow(row[s], now), now) \in Row
  BY <1>1, <1>2, RowsAreRows
<1> QED BY <1>2, <1>3 DEF PollSweep, Rewrites

-----------------------------------------------------------------------------
(* Every step is one of these.                                             *)

(* A step of a pass, and a step of anybody else.                           *)
PassStep(h) ==
    \/ StartPass(h) \/ ProbeDueSlot(h) \/ SweepClaim(h) \/ SweepClose(h)
    \/ \E answered \in BOOLEAN : Arm(h, answered)
    \/ ReadBack(h) \/ Send(h) \/ SendFails(h) \/ PassFails(h)

OtherStep ==
    \/ \E c \in Crons, s \in Slots : Deliver(c, s)
    \/ \E q \in Consumers : ClaimMissed(q) \/ InsertUnanswered(q) \/ \E m \in queue : Consume(q, m)
    \/ \E r \in Runners : Beat(r) \/ FinishRun(r) \/ RunnerDies(r)
    \/ \E s \in Slots, closed \in BOOLEAN : PollSweep(s, closed)
    \/ \E q \in Consumers : TakeOther(q) \/ OtherEnds(q)
    \/ \E m \in sent : Redeliver(m)
    \/ Tick

(* No other step exists.                                                   *)
LEMMA StepKinds ==
    ASSUME Next
    PROVE  (\E h \in Hosts : PassStep(h)) \/ OtherStep
<1>1. CASE \E h \in Hosts : HostStep(h)
  BY <1>1 DEF HostStep, PassStep
<1>2. CASE Fault
  BY <1>2 DEF Fault, PassStep, OtherStep
<1> QED BY <1>1, <1>2 DEF Next, OtherStep

(* Failures are counted, within their bound.                               *)
LEMMA FaultsAreCounted ==
    ASSUME TypeOK, Next
    PROVE  faults' \in 0 .. MaxFaults
<1>1. faults \in 0 .. MaxFaults /\ MaxFaults \in Nat
  BY TimeAssumption DEF TypeOK
<1>2. CASE Fault
  BY <1>1, <1>2 DEF Fault
<1>3. CASE \E h \in Hosts : HostStep(h)
  BY <1>1, <1>3 DEF HostStep, StartPass, ProbeDueSlot, SweepClaim, SweepClose, ReadBack, Send
<1>4. CASE \E r \in Runners : Beat(r) \/ FinishRun(r)
  BY <1>1, <1>4 DEF Beat, FinishRun
<1>5. CASE \E q \in Consumers : ClaimMissed(q) \/ \E m \in queue : Consume(q, m)
  BY <1>1, <1>5 DEF ClaimMissed, Consume
<1>6. CASE \E q \in Consumers : TakeOther(q) \/ OtherEnds(q)
  BY <1>1, <1>6 DEF TakeOther, OtherEnds
<1> QED BY <1>1, <1>2, <1>3, <1>4, <1>5, <1>6 DEF Next, Deliver, PollSweep, Tick

(* Nobody but a pass touches a pass, the marker or what was sent.          *)
LEMMA OthersLeavePasses ==
    ASSUME OtherStep
    PROVE  UNCHANGED <<host, marker, sent>>
BY DEF OtherStep, Deliver, ClaimMissed, InsertUnanswered, Consume, Beat, FinishRun,
       RunnerDies, PollSweep, TakeOther, OtherEnds, Redeliver, Tick

(* The messages of others concern nobody but their consumer.               *)
LEMMA OthersSteps ==
    ASSUME Next
    PROVE  \/ UNCHANGED others
           \/ (\E q \in Consumers : TakeOther(q) \/ OtherEnds(q)) /\ UNCHANGED waited
           \/ Tick
<1>1. CASE \E h \in Hosts : HostStep(h)
  BY <1>1 DEF HostStep, StartPass, ProbeDueSlot, SweepClaim, SweepClose, Arm, ReadBack, Send
<1>2. CASE Fault
  BY <1>2 DEF Fault, Arm, PassFails, SendFails, InsertUnanswered, RunnerDies, Redeliver
<1>3. CASE \E q \in Consumers : TakeOther(q) \/ OtherEnds(q)
  BY <1>3 DEF TakeOther, OtherEnds
<1> QED BY <1>1, <1>2, <1>3 DEF Next, Deliver, ClaimMissed, Consume, Beat, FinishRun, PollSweep

(* So they keep their types whatever happens, and nothing waits backwards. *)
LEMMA WaitsAreTyped ==
    ASSUME TypeOK, Next
    PROVE  /\ busy' \subseteq Consumers /\ waited' \in [Slots -> Nat]
           /\ \A s \in Slots : waited'[s] >= waited[s]
<1>1. busy \subseteq Consumers /\ waited \in [Slots -> Nat]
  BY DEF TypeOK
<1>2. CASE UNCHANGED others
  BY <1>1, <1>2 DEF others
<1>3. CASE (\E q \in Consumers : TakeOther(q) \/ OtherEnds(q)) /\ UNCHANGED waited
  BY <1>1, <1>3 DEF TakeOther, OtherEnds
<1>4. CASE Tick
  <2>1. busy' = busy /\ waited' = [s \in Slots |-> IF Waiting(s) THEN waited[s] + 1 ELSE waited[s]]
    BY <1>4 DEF Tick
  <2>2. \A s \in Slots : waited'[s] \in Nat /\ waited'[s] >= waited[s]
    BY <1>1, <2>1
  <2> QED BY <1>1, <2>1, <2>2
<1> QED BY <1>2, <1>3, <1>4, OthersSteps

-----------------------------------------------------------------------------
(* Types.                                                                  *)

CountsTyped ==
    /\ faults \in 0 .. MaxFaults
    /\ busy \subseteq Consumers
    /\ waited \in [Slots -> Nat]

(* A pass's step keeps the types.                                          *)
LEMMA PassKeepsTypes ==
    ASSUME Typing, NEW h \in Hosts, PassStep(h), CountsTyped'
    PROVE  Typing'
<1>1. /\ now \in Nat /\ row \in [Slots -> Row] /\ marker \in Message \cup {NoMarker}
      /\ sent \subseteq Message /\ queue \subseteq sent
      /\ host[h] \in Host /\ host[h].at \in Nat /\ host[h].at <= now
  BY DEF Typing, TypeOK, Located, Host
<1>2. /\ Moved(h)
      /\ UNCHANGED <<now, runner, claims>>
  BY StartMoves, ProbeMoves, SweepClaimMoves, SweepCloseMoves, ArmMoves, ReadBackMoves,
     SendMoves, FailMoves DEF PassStep
<1>3. row' \in [Slots -> Row]
  <2>1. CASE UNCHANGED row
    BY <2>1, <1>1
  <2>2. ASSUME NEW s \in Slots, \/ row' = [row EXCEPT ![s] = SweptRow(@, host[h].at)]
                                \/ row' = [row EXCEPT ![s] = Closed(@, host[h].at)]
        PROVE  row' \in [Slots -> Row]
    <3>1. SweptRow(row[s], host[h].at) \in Row /\ Closed(row[s], host[h].at) \in Row
      BY <1>1, RowsAreRows
    <3> QED BY <1>1, <2>2, <3>1
  <2>3. CASE SweepClaim(h)
    BY <2>3, <2>1, <2>2, SweepClaimMoves
  <2>4. CASE SweepClose(h)
    <3>1. host[h].target \in Slots
      BY <2>4, SweepCloseMoves DEF Typing, Located
    <3> QED BY <2>4, <3>1, <2>1, <2>2, SweepCloseMoves
  <2> QED BY <2>1, <2>3, <2>4, StartMoves, ProbeMoves, ArmMoves, ReadBackMoves,
             SendMoves, FailMoves DEF PassStep
<1>4. /\ marker' \in Message \cup {NoMarker}
      /\ sent' \subseteq Message
      /\ queue' \subseteq sent'
  <2>1. CASE UNCHANGED <<marker, sent, queue>>
    BY <2>1, <1>1
  <2>2. CASE \E answered \in BOOLEAN : Arm(h, answered)
    <3>1. Hint(h) \in Message
      BY <2>2, ArmMoves, HintIsMessage
    <3> QED BY <2>2, <3>1, <1>1, ArmMoves
  <2>3. CASE Send(h) \/ SendFails(h)
    <3>1. Hint(h) \in Message
      BY <2>3, SendMoves, HintIsMessage
    <3> QED BY <2>3, <3>1, <1>1, SendMoves
  <2> QED BY <2>1, <2>2, <2>3, StartMoves, ProbeMoves, SweepClaimMoves, SweepCloseMoves,
             ReadBackMoves, FailMoves DEF PassStep
<1>5. Located'
  BY <1>2 DEF Moved, Typing, Located
<1> QED BY <1>1, <1>2, <1>3, <1>4, <1>5 DEF Typing, TypeOK, CountsTyped, Moved

(* So does anybody else's.                                                 *)
LEMMA OthersKeepTypes ==
    ASSUME Typing, OtherStep, CountsTyped'
    PROVE  Typing'
<1>1. UNCHANGED <<host, marker, sent>>
  BY OthersLeavePasses
<1>2. /\ now \in Nat /\ row \in [Slots -> Row] /\ queue \subseteq sent
      /\ runner \in [Runners -> Runner]
      /\ claims \in [Slots -> [catchUp : Nat, robbed : Nat]]
  BY DEF Typing, TypeOK
<1>3. ASSUME NEW s \in Slots, NEW w, Rewrites(s, w)
      PROVE  row' \in [Slots -> Row]
  BY <1>2, <1>3 DEF Rewrites
<1>4. ASSUME NEW s \in Slots, \/ claims' = [claims EXCEPT ![s].catchUp = @ + 1]
                              \/ claims' = [claims EXCEPT ![s].robbed = IF row[s].catchUp THEN @ + 1 ELSE @]
      PROVE  claims' \in [Slots -> [catchUp : Nat, robbed : Nat]]
  BY <1>2, <1>4
<1>5. ASSUME NEW r \in Runners, RunnerMoved(r), now' = now
      PROVE  runner' \in [Runners -> Runner] /\ Located'
  BY <1>1, <1>2, <1>5 DEF RunnerMoved, Typing, Located
<1>6. ASSUME UNCHANGED runner, now' \in Nat, now' >= now
      PROVE  runner' \in [Runners -> Runner] /\ Located'
  <2>1. \A h \in Hosts : host[h].at \in Nat
    BY DEF Typing, TypeOK, Host
  <2> QED BY <1>1, <1>2, <1>6, <2>1 DEF Typing, Located
<1>7. ASSUME NEW c \in Crons, NEW s \in Slots, Deliver(c, s)
      PROVE  Typing'
  BY <1>1, <1>2, <1>3, <1>4, <1>5, <1>7, DeliverMoves DEF Typing, TypeOK, CountsTyped, Runners
<1>8. ASSUME NEW q \in Consumers, NEW m \in queue, Consume(q, m)
      PROVE  Typing'
  BY <1>1, <1>2, <1>5, <1>8, ConsumeMoves DEF Typing, TypeOK, CountsTyped, Runners
<1>9. ASSUME NEW q \in Consumers, ClaimMissed(q) \/ InsertUnanswered(q)
      PROVE  Typing'
  <2>1. q \in Runners /\ RunnerMoved(q) /\ UNCHANGED <<now, queue>>
    BY <1>9, ClaimMoves, UnansweredMoves DEF Runners
  <2>2. \/ UNCHANGED <<row, claims>>
        \/ \E s \in Slots : /\ Rewrites(s, ClaimedRow(row[s], TRUE))
                            /\ claims' = [claims EXCEPT ![s].catchUp = @ + 1]
    BY <1>9, ClaimMoves, UnansweredMoves
  <2> QED BY <1>1, <1>2, <1>3, <1>4, <1>5, <2>1, <2>2 DEF Typing, TypeOK, CountsTyped
<1>10. ASSUME NEW r \in Runners, Beat(r)
       PROVE  Typing'
  <2>1. now' \in Nat /\ now' >= now
    BY <1>2, <1>10, BeatMoves
  <2> QED BY <1>1, <1>2, <1>3, <1>6, <1>10, <2>1, BeatMoves DEF Typing, TypeOK, CountsTyped
<1>11. ASSUME NEW r \in Runners, FinishRun(r)
       PROVE  Typing'
  BY <1>1, <1>2, <1>3, <1>5, <1>11, FinishMoves DEF Typing, TypeOK, CountsTyped
<1>12. ASSUME NEW r \in Runners, RunnerDies(r)
       PROVE  Typing'
  BY <1>1, <1>2, <1>5, <1>12, RestMoves DEF RunnerDies, Typing, TypeOK, CountsTyped
<1>13. ASSUME NEW s \in Slots, NEW closed \in BOOLEAN, PollSweep(s, closed)
       PROVE  Typing'
  <2>1. now' \in Nat /\ now' >= now
    BY <1>2, <1>13, PollMoves
  <2> QED BY <1>1, <1>2, <1>3, <1>6, <1>13, <2>1, PollMoves DEF Typing, TypeOK, CountsTyped
<1>14. ASSUME NEW m \in sent, Redeliver(m)
       PROVE  Typing'
  <2>1. now' \in Nat /\ now' >= now
    BY <1>2, <1>14 DEF Redeliver
  <2> QED BY <1>1, <1>2, <1>6, <1>14, <2>1 DEF Redeliver, Typing, TypeOK, CountsTyped
<1>15. ASSUME NEW q \in Consumers, TakeOther(q) \/ OtherEnds(q)
       PROVE  Typing'
  <2>1. UNCHANGED <<now, row, marker, sent, queue, host, runner, claims>>
    BY <1>15 DEF TakeOther, OtherEnds
  <2>2. now' \in Nat /\ now' >= now
    BY <1>2, <2>1
  <2> QED BY <1>1, <1>2, <1>6, <2>1, <2>2 DEF Typing, TypeOK, CountsTyped
<1>16. CASE Tick
  <2>1. now' \in Nat /\ now' >= now
    BY <1>2, <1>16 DEF Tick
  <2> QED BY <1>1, <1>2, <1>6, <1>16, <2>1 DEF Tick, Typing, TypeOK, CountsTyped
<1> QED BY <1>7, <1>8, <1>9, <1>10, <1>11, <1>12, <1>13, <1>14, <1>15, <1>16 DEF OtherStep

(* The type invariant, strengthened by what work is on.                    *)
THEOREM Typed == Spec => []Typing
<1>1. Init => Typing
  <2> SUFFICES ASSUME Init PROVE Typing
    OBVIOUS
  <2>1. NoRow \in Row /\ AtRest(0) \in Host /\ IdleRunner \in Runner
    BY DEF NoRow, Row, AtRest, Host, IdleRunner, Runner
  <2>2. Interval \in Nat /\ MaxFaults \in Nat
    BY TimeAssumption
  <2>3. TypeOK
    BY <2>1, <2>2 DEF Init, TypeOK
  <2>4. Located
    BY <2>2 DEF Init, Located, AtRest, IdleRunner
  <2> QED BY <2>3, <2>4 DEF Typing
<1>2. Typing /\ [Next]_vars => Typing'
  <2> SUFFICES ASSUME Typing, [Next]_vars PROVE Typing'
    OBVIOUS
  <2>1. CASE Next
    <3>1. CountsTyped'
      BY <2>1, FaultsAreCounted, WaitsAreTyped DEF Typing, CountsTyped
    <3> QED BY <2>1, <3>1, StepKinds, PassKeepsTypes, OthersKeepTypes
  <2>2. CASE UNCHANGED vars
    BY <2>2 DEF vars, others, Typing, TypeOK, Located
  <2> QED BY <2>1, <2>2
<1> QED BY <1>1, <1>2, PTL DEF Spec

(* The type invariant that the runs check.                                 *)
THEOREM TypesHold == Spec => []TypeOK
<1>1. Typing => TypeOK
  BY DEF Typing
<1> QED BY <1>1, Typed, PTL

-----------------------------------------------------------------------------
(* One hint per slot.                                                      *)

(* The hints that were sent, and those that a pass is about to send.       *)
Given == sent \cup {Hint(h) : h \in {g \in Hosts : host[g].stage = "send"}}

Hints ==
    /\ \A m \in Given : m.slot <= marker.slot /\ (m.slot = marker.slot => m = marker)
    /\ \A m, n \in Given : m.slot = n.slot => m = n

(* The slot of a hint, and of the marker, is a number.                     *)
LEMMA MarkerSlots == \A m \in Message \cup {NoMarker} : m.slot \in Nat
<1>1. \A m \in Message : m.slot \in Slots
  BY DEF Message
<1>2. NoMarker.slot = 0
  BY DEF NoMarker
<1>3. Slots \subseteq Nat /\ 0 \in Nat
  BY TimeAssumption
<1>4. \A m \in {NoMarker} : m.slot \in Nat
  BY <1>2, <1>3
<1> QED BY <1>1, <1>3, <1>4

(* What is given has the type of a hint.                                   *)
LEMMA GivenAreMessages ==
    ASSUME Typing
    PROVE  Given \subseteq Message
BY HintIsMessage DEF Given, Typing, TypeOK

(* A pass takes a hint to send from the marker, which it did not find at   *)
(* its slot or beyond it, or which is its own.                             *)
LEMMA PassGives ==
    ASSUME Typing, NEW h \in Hosts, PassStep(h)
    PROVE  /\ Given' \subseteq Given \cup {marker'}
           /\ marker' = marker \/ marker.slot < marker'.slot
<1>1. Moved(h) /\ \A g \in Hosts \ {h} : host'[g] = host[g] /\ Hint(g)' = Hint(g)
  BY StartMoves, ProbeMoves, SweepClaimMoves, SweepCloseMoves, ArmMoves, ReadBackMoves,
     SendMoves, FailMoves DEF PassStep, Moved, Hint
<1>2. ASSUME host'[h].stage = "send" => Hint(h)' = marker', sent' \subseteq Given
      PROVE  Given' \subseteq Given \cup {marker'}
  BY <1>1, <1>2 DEF Given
<1>3. CASE \E answered \in BOOLEAN : Arm(h, answered)
  <2>1. /\ sent' = sent
        /\ host'[h].at = host[h].at /\ host'[h].slot = host[h].slot
        /\ \/ Moves(h) /\ marker' = Hint(h)
           \/ marker' = marker /\ host'[h].stage = "readback"
    BY <1>3, ArmMoves
  <2>2. Hint(h)' = Hint(h) /\ Hint(h).slot = host[h].slot
    BY <2>1 DEF Hint
  <2> QED BY <1>2, <2>1, <2>2 DEF Given, Moves
<1>4. CASE ReadBack(h)
  <2>1. /\ sent' = sent /\ marker' = marker /\ host'[h].at = host[h].at
        /\ \/ host'[h].stage = "idle"
           \/ marker = Hint(h) /\ host'[h].slot = host[h].slot
    BY <1>4, ReadBackMoves
  <2> QED BY <1>2, <2>1 DEF Given, Hint
<1>5. CASE Send(h) \/ SendFails(h)
  <2>1. /\ sent' = sent \cup {Hint(h)} /\ marker' = marker
        /\ host[h].stage = "send" /\ host'[h].stage = "idle"
    BY <1>5, SendMoves
  <2> QED BY <1>2, <2>1 DEF Given
<1>6. CASE StartPass(h) \/ ProbeDueSlot(h) \/ SweepClaim(h) \/ SweepClose(h) \/ PassFails(h)
  <2>1. sent' = sent /\ marker' = marker /\ host'[h].stage # "send"
    BY <1>6, StartMoves, ProbeMoves, SweepClaimMoves, SweepCloseMoves, FailMoves
  <2> QED BY <1>2, <2>1 DEF Given
<1> QED BY <1>3, <1>4, <1>5, <1>6 DEF PassStep

(* scheduled-slot-catch-up.ts, claimSlotCatchUpMarker: at most one hint is *)
(* sent for a slot, however passes interleave and statements are repeated. *)
THEOREM HintsAreUnique == Spec => []OneHintPerSlot
<1>1. Init => Hints
  BY DEF Init, Hints, Given, AtRest
<1>2. Typing /\ Typing' /\ Hints /\ [Next]_vars => Hints'
  <2> SUFFICES ASSUME Typing, Typing', Hints, [Next]_vars PROVE Hints'
    OBVIOUS
  <2>1. ASSUME Given' \subseteq Given \cup {marker'}, marker' = marker \/ marker.slot < marker'.slot
        PROVE  Hints'
    <3>1. /\ marker.slot \in Nat /\ marker'.slot \in Nat
          /\ \A m \in Given : m.slot \in Nat
      BY GivenAreMessages, MarkerSlots DEF Typing, TypeOK
    <3>2. \A m \in Given : m.slot <= marker'.slot /\ (m.slot = marker'.slot => m = marker')
      BY <2>1, <3>1 DEF Hints
    <3>3. \A m \in Given' : m.slot <= marker'.slot /\ (m.slot = marker'.slot => m = marker')
      BY <2>1, <3>1, <3>2
    <3>4. \A m, n \in Given' : m.slot = n.slot => m = n
      BY <2>1, <3>2 DEF Hints
    <3> QED BY <3>3, <3>4 DEF Hints
  <2>2. CASE OtherStep
    <3>1. Given' = Given /\ marker' = marker
      BY <2>2, OthersLeavePasses DEF Given, Hint
    <3> QED BY <2>1, <3>1
  <2>3. CASE UNCHANGED vars
    <3>1. Given' = Given /\ marker' = marker
      BY <2>3 DEF vars, Given, Hint
    <3> QED BY <2>1, <3>1
  <2> QED BY <2>1, <2>2, <2>3, StepKinds, PassGives
<1>3. Hints => OneHintPerSlot
  BY DEF Hints, Given, OneHintPerSlot
<1> QED BY <1>1, <1>2, <1>3, Typed, PTL DEF Spec

-----------------------------------------------------------------------------
(* What a pass knows of the marker.                                        *)

(* A marker of a host's current pass was moved by its Arm; and whoever     *)
(* came past Arm sees the marker at its slot or beyond it.                 *)
Passes ==
    \A h \in Hosts :
      /\ marker # NoMarker /\ marker.by = h =>
           /\ marker.armedAt <= host[h].at
           /\ marker.armedAt = host[h].at => host[h].stage \in {"idle", "readback", "send"}
      /\ host[h].stage \in {"readback", "send"} => host[h].slot <= marker.slot

(* A pass's own step keeps what it knows; the steps of others only move    *)
(* the marker forward, in their own name.                                  *)
LEMMA PassKeepsPasses ==
    ASSUME Typing, Typing', Passes, NEW h \in Hosts, PassStep(h)
    PROVE  Passes'
<1>1. /\ marker \in Message \cup {NoMarker} /\ marker.slot \in Nat /\ marker'.slot \in Nat
      /\ \A g \in Hosts : host[g].at \in Nat /\ host'[g].at \in Nat
      /\ \A g \in Hosts : host[g].slot \in Nat
  <2>1. Slots \cup {0} \subseteq Nat
    BY TimeAssumption
  <2>2. \A w \in Host : w.at \in Nat /\ w.slot \in Nat
    BY <2>1 DEF Host
  <2> QED BY <2>2, MarkerSlots DEF Typing, TypeOK
<1>2. \A g \in Hosts \ {h} : host'[g] = host[g]
  BY StartMoves, ProbeMoves, SweepClaimMoves, SweepCloseMoves, ArmMoves, ReadBackMoves,
     SendMoves, FailMoves DEF PassStep, Moved
<1>3. CASE \E answered \in BOOLEAN : Arm(h, answered)
  <2>1. /\ host[h].stage = "arm" /\ host'[h].stage \in {"send", "readback"}
        /\ host'[h].at = host[h].at /\ host'[h].slot = host[h].slot
        /\ \/ Moves(h) /\ marker' = Hint(h)
           \/ ~Moves(h) /\ marker' = marker
    BY <1>3, ArmMoves
  <2>2. CASE Moves(h) /\ marker' = Hint(h)
    <3>1. marker'.slot = host[h].slot /\ marker'.by = h /\ marker'.armedAt = host[h].at
      BY <2>2 DEF Hint
    <3> QED BY <1>1, <1>2, <2>1, <2>2, <3>1 DEF Passes, Moves
  <2>3. CASE ~Moves(h) /\ marker' = marker
    BY <1>1, <1>2, <2>1, <2>3 DEF Passes, Moves
  <2> QED BY <2>1, <2>2, <2>3
<1>4. CASE StartPass(h)
  <2>1. /\ host'[h].stage \in {"idle", "probe"} /\ host'[h].at = now /\ host[h].at < now
        /\ marker' = marker
    BY <1>4, StartMoves
  <2>2. marker # NoMarker => marker.armedAt \in Nat
    BY <1>1 DEF Message
  <2> QED BY <1>1, <1>2, <2>1, <2>2 DEF Passes
<1>5. CASE ReadBack(h)
  <2>1. /\ marker' = marker /\ host[h].stage = "readback"
        /\ host'[h].at = host[h].at
        /\ \/ host'[h].stage = "idle"
           \/ host'[h].stage = "send" /\ host'[h].slot = host[h].slot
    BY <1>5, ReadBackMoves
  <2> QED BY <1>1, <1>2, <2>1 DEF Passes
<1>6. CASE Send(h) \/ SendFails(h) \/ PassFails(h)
  <2>1. marker' = marker /\ host'[h].stage = "idle" /\ host'[h].at = host[h].at
    BY <1>6, SendMoves, FailMoves
  <2> QED BY <1>1, <1>2, <2>1 DEF Passes
<1>7. CASE ProbeDueSlot(h) \/ SweepClaim(h) \/ SweepClose(h)
  <2>1. /\ marker' = marker /\ host'[h].at = host[h].at
        /\ host[h].stage \in {"probe", "sweep", "close"}
        /\ host'[h].stage \in {"idle", "sweep", "close", "arm"}
    <3>1. ProbeDueSlot(h) => host[h].stage = "probe"
      BY DEF ProbeDueSlot
    <3> QED BY <1>7, <3>1, ProbeMoves, SweepClaimMoves, SweepCloseMoves
  <2> QED BY <1>1, <1>2, <2>1 DEF Passes
<1> QED BY <1>3, <1>4, <1>5, <1>6, <1>7 DEF PassStep

(* What a pass knows of the marker, throughout every behaviour.            *)
THEOREM PassesKnow == Spec => []Passes
<1>1. Init => Passes
  BY DEF Init, Passes, AtRest
<1>2. Typing /\ Typing' /\ Passes /\ [Next]_vars => Passes'
  <2> SUFFICES ASSUME Typing, Typing', Passes, [Next]_vars PROVE Passes'
    OBVIOUS
  <2>1. CASE OtherStep
    BY <2>1, OthersLeavePasses DEF Passes
  <2>2. CASE UNCHANGED vars
    BY <2>2 DEF vars, Passes
  <2> QED BY <2>1, <2>2, StepKinds, PassKeepsPasses
<1> QED BY <1>1, <1>2, Typed, PTL DEF Spec

(* A pass that ends without a failure ends by a step of its own.           *)
LEMMA PassEnds ==
    ASSUME Typing, Next, NEW h \in Hosts, host[h].stage # "idle", host'[h].stage = "idle",
           faults' = faults
    PROVE  HostStep(h)
<1>1. faults \in Nat
  BY TimeAssumption DEF Typing, TypeOK
<1>2. ~Fault
  <2>1. Fault => faults' = faults + 1
    BY DEF Fault
  <2> QED BY <1>1, <2>1
<1>3. host' # host
  OBVIOUS
<1>4. PICK g \in Hosts : HostStep(g)
  BY <1>2, <1>3 DEF Next, Deliver, Consume, ClaimMissed, Beat, FinishRun, PollSweep, TakeOther, OtherEnds, Tick
<1>5. PassStep(g)
  BY <1>4 DEF HostStep, PassStep
<1>6. Moved(g)
  BY <1>5, StartMoves, ProbeMoves, SweepClaimMoves, SweepCloseMoves, ArmMoves, ReadBackMoves,
     SendMoves, FailMoves DEF PassStep
<1>7. g = h
  BY <1>6 DEF Moved
<1> QED BY <1>4, <1>7

(* scheduled-slot-catch-up.ts, armDueSlotCatchUps: a pass that found its   *)
(* slot missed ends with the marker at that slot or beyond it, or fails.   *)
THEOREM MissedSlotsAreArmed == Spec => MissedIsArmed
<1> DEFINE Covered ==
      \A h \in Hosts :
         host[h].stage \in {"arm", "readback", "send"} /\ host'[h].stage = "idle" =>
            faults' # faults \/ marker'.slot >= host[h].slot
<1>1. Typing /\ Passes /\ [Next]_vars => [Covered]_vars
  <2> SUFFICES ASSUME Typing, Passes, Next,
                      NEW h \in Hosts, host[h].stage \in {"arm", "readback", "send"},
                      host'[h].stage = "idle", faults' = faults
               PROVE  marker'.slot >= host[h].slot
    OBVIOUS
  <2>1. host[h].slot \in Nat /\ marker.slot \in Nat
    <3>1. Slots \cup {0} \subseteq Nat
      BY TimeAssumption
    <3>2. \A w \in Host : w.slot \in Nat
      BY <3>1 DEF Host
    <3> QED BY <3>1, <3>2, MarkerSlots DEF Typing, TypeOK
  <2>2. HostStep(h)
    BY PassEnds
  <2>3. ReadBack(h) \/ Send(h)
    BY <2>2, ArmMoves DEF HostStep, StartPass, ProbeDueSlot, SweepClaim, SweepClose
  <2>4. host[h].stage \in {"readback", "send"} /\ marker' = marker
    BY <2>3, ReadBackMoves, SendMoves
  <2> QED BY <2>1, <2>4 DEF Passes
<1>2. MissedIsArmed <=> [][Covered]_vars
  BY DEF MissedIsArmed
<1> QED BY <1>1, <1>2, Typed, PassesKnow, PTL DEF Spec

(* scheduled-slot-catch-up.ts, claimSlotCatchUpMarker and the hint that    *)
(* follows it: a pass that moved the marker sends its hint, or fails.      *)
THEOREM ArmedSlotsAreSent == Spec => ArmedIsSent
<1> DEFINE Sends ==
      \A h \in Hosts :
         host[h].stage # "idle" /\ host'[h].stage = "idle" /\ marker = Hint(h) =>
            faults' # faults \/ Hint(h) \in sent'
<1>1. Typing /\ Passes /\ [Next]_vars => [Sends]_vars
  <2> SUFFICES ASSUME Typing, Passes, Next,
                      NEW h \in Hosts, host[h].stage # "idle", host'[h].stage = "idle",
                      marker = Hint(h), faults' = faults
               PROVE  Hint(h) \in sent'
    OBVIOUS
  <2>1. HostStep(h)
    BY PassEnds
  <2>2. marker.slot = host[h].slot /\ marker.by = h /\ marker.armedAt = host[h].at
    BY DEF Hint
  <2>3. marker # NoMarker
    <3>1. host[h].slot \in Slots
      BY DEF Typing, Located
    <3>2. NoMarker.slot = 0 /\ 0 \notin Slots
      BY TimeAssumption DEF NoMarker
    <3> QED BY <2>2, <3>1, <3>2
  <2>4. host[h].stage \in {"readback", "send"}
    BY <2>2, <2>3 DEF Passes
  <2>5. Send(h)
    BY <2>1, <2>4, ReadBackMoves, ArmMoves
       DEF HostStep, StartPass, ProbeDueSlot, SweepClaim, SweepClose
  <2> QED BY <2>5, SendMoves
<1>2. ArmedIsSent <=> [][Sends]_vars
  BY DEF ArmedIsSent
<1> QED BY <1>1, <1>2, Typed, PassesKnow, PTL DEF Spec

-----------------------------------------------------------------------------
(* A slot is caught up once.                                               *)

(* Whoever holds a row knows whether it is a catch-up's.                   *)
Owner(r) ==
    runner[r].stage = "run" =>
      /\ runner[r].gen <= row[runner[r].slot].gen
      /\ Holds(r) => (row[runner[r].slot].catchUp <=> r \in Consumers)

(* A row that is not marked has lost every catch-up it had to a takeover.  *)
Account(s) ==
    /\ row[s].state = "absent" => ~row[s].catchUp
    /\ claims[s].catchUp <= claims[s].robbed + 1
    /\ ~row[s].catchUp => claims[s].catchUp <= claims[s].robbed

Owners == (\A r \in Runners : Owner(r)) /\ (\A s \in Slots : Account(s))

(* A row that is rewritten under a new generation, or that leaves its      *)
(* owner's hands, or keeps its mark, disturbs no owner.                    *)
LEMMA OwnerStays ==
    ASSUME Typing, NEW o \in Runners, Owner(o), runner'[o] = runner[o],
           NEW s \in Slots, NEW w, Rewrites(s, w),
           \/ w.gen = row[s].gen + 1
           \/ w.gen = row[s].gen /\ w.state # "running"
           \/ w.gen = row[s].gen /\ row[s].state = "running" /\ w.catchUp = row[s].catchUp
    PROVE  Owner(o)'
<1>1. /\ row \in [Slots -> Row] /\ runner[o] \in Runner
      /\ runner[o].stage # "idle" => runner[o].slot \in Slots
  BY DEF Typing, TypeOK, Located
<1> DEFINE u == runner[o].slot
<1> SUFFICES ASSUME runner[o].stage = "run"
             PROVE  Owner(o)'
  BY DEF Owner
<1>2. u \in Slots /\ row[u].gen \in Nat /\ runner[o].gen \in Nat
  BY <1>1 DEF Row, Runner
<1>3. row' \in [Slots -> Row] /\ row'[u] = IF u = s THEN w ELSE row[u]
  BY <1>1, <1>2 DEF Rewrites
<1> QED BY <1>1, <1>2, <1>3 DEF Owner, Holds

(* A rewrite that keeps the mark and is not of an absent row, or that      *)
(* counts what it changes, keeps the accounts.                             *)
LEMMA AccountsStay ==
    ASSUME Typing, \A s \in Slots : Account(s), claims' = claims,
           NEW s \in Slots, NEW w, Rewrites(s, w),
           row[s].state # "absent", w.state # "absent", w.catchUp = row[s].catchUp
    PROVE  \A u \in Slots : Account(u)'
<1>1. row \in [Slots -> Row]
  BY DEF Typing, TypeOK
<1>2. \A u \in Slots : row'[u] = IF u = s THEN w ELSE row[u]
  BY <1>1 DEF Rewrites
<1> QED BY <1>2 DEF Account

(* A catch-up's claim is of a row without mark, and marks it.              *)
LEMMA ClaimIsAccounted ==
    ASSUME Typing, \A s \in Slots : Account(s),
           NEW s \in Slots, Missed(row[s]), Rewrites(s, ClaimedRow(row[s], TRUE)),
           claims' = [claims EXCEPT ![s].catchUp = @ + 1]
    PROVE  \A u \in Slots : Account(u)'
<1>1. row \in [Slots -> Row] /\ claims \in [Slots -> [catchUp : Nat, robbed : Nat]]
  BY DEF Typing, TypeOK
<1>2. ~row[s].catchUp
  BY DEF Missed, Abandoned, Account
<1>3. \A u \in Slots : row'[u] = IF u = s THEN ClaimedRow(row[s], TRUE) ELSE row[u]
  BY <1>1 DEF Rewrites
<1>4. claims'[s].catchUp = claims[s].catchUp + 1 /\ claims'[s].robbed = claims[s].robbed
  BY <1>1
<1>5. \A u \in Slots \ {s} : claims'[u] = claims[u] /\ row'[u] = row[u]
  BY <1>1, <1>3
<1>6. row'[s].catchUp /\ row'[s].state = "running"
  BY <1>3 DEF ClaimedRow
<1>7. Account(s)'
  BY <1>1, <1>2, <1>4, <1>6 DEF Account
<1>8. \A u \in Slots \ {s} : Account(u)'
  BY <1>5 DEF Account
<1> QED BY <1>7, <1>8

(* A delivery's claim or takeover counts the mark that it removes.         *)
LEMMA TakeoverIsAccounted ==
    ASSUME Typing, \A s \in Slots : Account(s),
           NEW s \in Slots, Rewrites(s, ClaimedRow(row[s], FALSE)),
           claims' = [claims EXCEPT ![s].robbed = IF row[s].catchUp THEN @ + 1 ELSE @]
    PROVE  \A u \in Slots : Account(u)'
<1>1. row \in [Slots -> Row] /\ claims \in [Slots -> [catchUp : Nat, robbed : Nat]]
  BY DEF Typing, TypeOK
<1>2. \A u \in Slots : row'[u] = IF u = s THEN ClaimedRow(row[s], FALSE) ELSE row[u]
  BY <1>1 DEF Rewrites
<1>3. /\ claims'[s].catchUp = claims[s].catchUp
      /\ row[s].catchUp => claims'[s].robbed = claims[s].robbed + 1
      /\ ~row[s].catchUp => claims'[s].robbed = claims[s].robbed
  BY <1>1
<1>4. \A u \in Slots \ {s} : claims'[u] = claims[u] /\ row'[u] = row[u]
  BY <1>1, <1>2
<1>5. ~row'[s].catchUp /\ row'[s].state = "running"
  BY <1>2 DEF ClaimedRow
<1>6. claims'[s].catchUp <= claims'[s].robbed
  BY <1>1, <1>3 DEF Account
<1>7. claims'[s].catchUp \in Nat /\ claims'[s].robbed \in Nat
  BY <1>1, <1>3
<1>8. Account(s)'
  BY <1>5, <1>6, <1>7 DEF Account
<1>9. \A u \in Slots \ {s} : Account(u)'
  BY <1>4 DEF Account
<1> QED BY <1>8, <1>9

(* What sweeps, heartbeats and ends of work do to what an owner looks at.  *)
LEMMA SweepMarks ==
    ASSUME NEW r \in Row, NEW t \in Nat
    PROVE  /\ SweptRow(r, t).gen = r.gen + 1 /\ SweptRow(r, t).state = "reconciling"
           /\ SweptRow(r, t).catchUp = r.catchUp
           /\ Closed(r, t).gen = r.gen /\ Closed(r, t).state = "finished"
           /\ Closed(r, t).catchUp = r.catchUp
<1>1. /\ SweptRow(r, t).gen = r.gen + 1 /\ SweptRow(r, t).state = "reconciling"
      /\ SweptRow(r, t).catchUp = r.catchUp
  BY DEF SweptRow
<1>2. /\ Closed(r, t).gen = r.gen /\ Closed(r, t).state = "finished"
      /\ Closed(r, t).catchUp = r.catchUp
  BY DEF Closed, Row
<1> QED BY <1>1, <1>2

(* A heartbeat keeps the mark; an end writes the one of its runner.        *)
LEMMA RunMarks ==
    ASSUME NEW r \in Row, NEW t \in Nat, NEW b \in BOOLEAN
    PROVE  /\ LET w == [r EXCEPT !.updatedAt = t]
              IN  w.gen = r.gen /\ w.state = r.state /\ w.catchUp = r.catchUp
           /\ \A result \in {"ok", "error"} :
                LET w == [r EXCEPT !.state = "finished", !.result = result,
                                   !.updatedAt = t, !.catchUp = b]
                IN  w.gen = r.gen /\ w.state = "finished" /\ w.catchUp = b
BY DEF Row

(* A sweep's claim and its close, by a pass or by the poll.                *)
LEMMA SweepsKeepOwners ==
    ASSUME Typing, Owners, claims' = claims, runner' = runner,
           NEW s \in Slots, row[s].state # "absent", NEW t \in Nat,
           \/ Rewrites(s, SweptRow(row[s], t))
           \/ Rewrites(s, Closed(row[s], t))
           \/ Rewrites(s, Closed(SweptRow(row[s], t), t))
    PROVE  Owners'
<1>1. row[s] \in Row /\ SweptRow(row[s], t) \in Row
  <2>1. now \in Nat /\ row[s] \in Row
    BY DEF Typing, TypeOK
  <2> QED BY <2>1, RowsAreRows
<1>2. PICK w : /\ Rewrites(s, w)
               /\ w \in {SweptRow(row[s], t), Closed(row[s], t), Closed(SweptRow(row[s], t), t)}
  OBVIOUS
<1>3. /\ w.catchUp = row[s].catchUp
      /\ \/ w.gen = row[s].gen + 1
         \/ w.gen = row[s].gen /\ w.state # "running"
      /\ w.state # "absent"
  <2> DEFINE z == SweptRow(row[s], t)
  <2>1. z.gen = row[s].gen + 1 /\ z.state = "reconciling" /\ z.catchUp = row[s].catchUp
    BY <1>1, SweepMarks
  <2>2. /\ Closed(row[s], t).gen = row[s].gen /\ Closed(row[s], t).state = "finished"
        /\ Closed(row[s], t).catchUp = row[s].catchUp
    BY <1>1, SweepMarks
  <2>3. /\ Closed(z, t).gen = z.gen /\ Closed(z, t).state = "finished"
        /\ Closed(z, t).catchUp = z.catchUp
    BY <1>1, SweepMarks
  <2> HIDE DEF z
  <2>4. w \in {z, Closed(row[s], t), Closed(z, t)}
    BY <1>2 DEF z
  <2> QED BY <2>1, <2>2, <2>3, <2>4
<1>4. \A u \in Slots : Account(u)'
  BY <1>2, <1>3, AccountsStay DEF Owners
<1>5. \A o \in Runners : Owner(o)'
  BY <1>2, <1>3, OwnerStays DEF Owners
<1> QED BY <1>4, <1>5 DEF Owners

(* Every step keeps owners and accounts.                                   *)
LEMMA OwnersStep ==
    ASSUME Typing, Typing', Owners, [Next]_vars
    PROVE  Owners'
<1>1. now \in Nat /\ row \in [Slots -> Row]
  BY DEF Typing, TypeOK
<1>2. ASSUME UNCHANGED <<row, claims>>, NEW r \in Runners, runner'[r].stage # "run",
             \A o \in Runners \ {r} : runner'[o] = runner[o]
      PROVE  Owners'
  BY <1>2 DEF Owners, Owner, Account, Holds
<1>3. ASSUME UNCHANGED <<row, claims, runner>>
      PROVE  Owners'
  BY <1>3 DEF Owners, Owner, Account, Holds
<1>4. ASSUME NEW h \in Hosts, PassStep(h)
      PROVE  Owners'
  <2>1. host[h].at \in Nat
    BY DEF Typing, TypeOK, Host
  <2>2. CASE SweepClaim(h)
    <3>1. CASE UNCHANGED row
      BY <2>2, <3>1, <1>3, SweepClaimMoves
    <3>2. ASSUME NEW s \in Slots, Oldest(s, host[h].at),
                 row' = [row EXCEPT ![s] = SweptRow(@, host[h].at)]
          PROVE  Owners'
      <4>1. row[s].state # "absent"
        BY <3>2 DEF Oldest, StaleAt
      <4>2. Rewrites(s, SweptRow(row[s], host[h].at))
        BY <1>1, <2>1, <3>2, RowsAreRows DEF Rewrites
      <4> QED BY <2>1, <2>2, <4>1, <4>2, SweepClaimMoves, SweepsKeepOwners
    <3> QED BY <2>2, <3>1, <3>2, SweepClaimMoves
  <2>3. CASE SweepClose(h)
    <3> DEFINE s == host[h].target
    <3>1. CASE UNCHANGED row
      BY <2>3, <3>1, <1>3, SweepCloseMoves
    <3>2. CASE row[s].state = "reconciling" /\ row' = [row EXCEPT ![s] = Closed(@, host[h].at)]
      <4>1. s \in Slots
        BY <2>3, SweepCloseMoves DEF Typing, Located
      <4>2. Rewrites(s, Closed(row[s], host[h].at))
        BY <1>1, <2>1, <3>2, <4>1, RowsAreRows DEF Rewrites
      <4> QED BY <2>1, <2>3, <3>2, <4>1, <4>2, SweepCloseMoves, SweepsKeepOwners
    <3> QED BY <2>3, <3>1, <3>2, SweepCloseMoves
  <2> QED BY <1>3, <1>4, <2>2, <2>3, StartMoves, ProbeMoves, ArmMoves, ReadBackMoves,
             SendMoves, FailMoves DEF PassStep
<1>5. ASSUME NEW c \in Crons, NEW s \in Slots, Deliver(c, s)
      PROVE  Owners'
  <2>1. /\ RunnerMoved(c) /\ c \in Runners /\ c \notin Consumers
        /\ runner'[c].slot = s /\ runner'[c].gen = row[s].gen + 1
        /\ Rewrites(s, ClaimedRow(row[s], FALSE))
    <3>1. c \in Runners /\ c \notin Consumers
      BY ActorAssumption DEF Runners
    <3>2. /\ RunnerMoved(c) /\ Rewrites(s, ClaimedRow(row[s], FALSE))
          /\ runner'[c] = [stage |-> "run", slot |-> s, gen |-> row[s].gen + 1, at |-> now]
      BY <1>5, DeliverMoves
    <3>3. runner'[c].slot = s /\ runner'[c].gen = row[s].gen + 1
      BY <3>2
    <3> QED BY <3>1, <3>2, <3>3
  <2>2. \A u \in Slots : Account(u)'
    BY <1>5, DeliverMoves, TakeoverIsAccounted DEF Owners
  <2>3. ClaimedRow(row[s], FALSE).gen = row[s].gen + 1 /\ ~ClaimedRow(row[s], FALSE).catchUp
    BY DEF ClaimedRow
  <2>4. \A o \in Runners \ {c} : Owner(o)'
    BY <2>1, <2>3, OwnerStays DEF Owners, RunnerMoved
  <2>5. Owner(c)'
    <3>1. row'[s] = ClaimedRow(row[s], FALSE) /\ row[s].gen \in Nat
      BY <1>1, <2>1 DEF Rewrites, Row
    <3>2. row'[s].gen = row[s].gen + 1 /\ ~row'[s].catchUp
      BY <2>3, <3>1
    <3>3. row'[s].gen \in Nat /\ runner'[c].gen = row'[s].gen
      BY <2>1, <3>1, <3>2 DEF Typing, TypeOK, Row
    <3> QED BY <2>1, <3>2, <3>3 DEF Owner, Holds
  <2> QED BY <2>2, <2>4, <2>5 DEF Owners
<1>6. ASSUME NEW q \in Consumers, ClaimMissed(q) \/ InsertUnanswered(q)
      PROVE  Owners'
  <2>1. q \in Runners /\ RunnerMoved(q)
    BY <1>6, ClaimMoves, UnansweredMoves DEF Runners
  <2>2. CASE runner'[q].stage = "idle" /\ UNCHANGED <<row, claims>>
    BY <2>1, <2>2, <1>2 DEF RunnerMoved
  <2>3. ASSUME NEW s \in Slots, Missed(row[s]), Rewrites(s, ClaimedRow(row[s], TRUE)),
               claims' = [claims EXCEPT ![s].catchUp = @ + 1],
               \/ runner'[q].stage = "idle"
               \/ runner'[q].slot = s /\ runner'[q].gen = row[s].gen + 1
        PROVE  Owners'
    <3>1. \A u \in Slots : Account(u)'
      BY <2>3, ClaimIsAccounted DEF Owners
    <3>2. ClaimedRow(row[s], TRUE).gen = row[s].gen + 1 /\ ClaimedRow(row[s], TRUE).catchUp
      BY DEF ClaimedRow
    <3>3. \A o \in Runners \ {q} : Owner(o)'
      BY <2>1, <2>3, <3>2, OwnerStays DEF Owners, RunnerMoved
    <3>4. Owner(q)'
      <4>1. row'[s] = ClaimedRow(row[s], TRUE) /\ row[s].gen \in Nat
        BY <1>1, <2>3 DEF Rewrites, Row
      <4>2. row'[s].gen = row[s].gen + 1 /\ row'[s].catchUp
        BY <3>2, <4>1
      <4>3. CASE runner'[q].stage = "idle"
        BY <4>3 DEF Owner
      <4>4. CASE runner'[q].slot = s /\ runner'[q].gen = row[s].gen + 1
        <5>1. row'[s].gen \in Nat /\ runner'[q].gen = row'[s].gen
          BY <4>1, <4>2, <4>4 DEF Typing, TypeOK, Row
        <5> QED BY <4>2, <4>4, <5>1 DEF Owner, Holds
      <4> QED BY <2>3, <4>3, <4>4
    <3> QED BY <3>1, <3>3, <3>4 DEF Owners
  <2> QED BY <1>6, <2>2, <2>3, ClaimMoves, UnansweredMoves
<1>7. ASSUME NEW r \in Runners, Beat(r)
      PROVE  Owners'
  <2>1. PICK s \in Slots : /\ row[s].state = "running"
                           /\ Rewrites(s, [row[s] EXCEPT !.updatedAt = now])
    BY <1>7, BeatMoves
  <2> DEFINE w == [row[s] EXCEPT !.updatedAt = now]
  <2>2. w.gen = row[s].gen /\ w.state = "running" /\ w.catchUp = row[s].catchUp
    BY <1>1, <2>1, RunMarks
  <2>3. runner' = runner /\ claims' = claims
    BY <1>7, BeatMoves
  <2> HIDE DEF w
  <2>4. \A u \in Slots : Account(u)'
    BY <2>1, <2>2, <2>3, AccountsStay DEF Owners, w
  <2>5. \A o \in Runners : Owner(o)'
    BY <2>1, <2>2, <2>3, OwnerStays DEF Owners, w
  <2> QED BY <2>4, <2>5 DEF Owners
<1>8. ASSUME NEW r \in Runners, FinishRun(r)
      PROVE  Owners'
  <2>1. RunnerMoved(r) /\ runner'[r].stage = "idle" /\ claims' = claims
    BY <1>8, FinishMoves
  <2>2. CASE UNCHANGED row
    BY <2>1, <2>2, <1>2 DEF RunnerMoved
  <2>3. ASSUME NEW s \in Slots, NEW result \in {"ok", "error"},
               runner[r].stage = "run", s = runner[r].slot, Holds(r),
               Rewrites(s, [row[s] EXCEPT !.state = "finished", !.result = result,
                                          !.updatedAt = now, !.catchUp = r \in Consumers])
        PROVE  Owners'
    <3> DEFINE w == [row[s] EXCEPT !.state = "finished", !.result = result,
                                   !.updatedAt = now, !.catchUp = r \in Consumers]
    <3>1. row[s].catchUp = (r \in Consumers) /\ row[s].state = "running"
      <4>1. row[s].catchUp \in BOOLEAN
        BY <1>1 DEF Row
      <4> QED BY <2>3, <4>1 DEF Owners, Owner, Holds
    <3>2. w.gen = row[s].gen /\ w.state = "finished" /\ w.catchUp = row[s].catchUp
      BY <1>1, <3>1, RunMarks
    <3> HIDE DEF w
    <3>3. \A u \in Slots : Account(u)'
      BY <2>1, <2>3, <3>1, <3>2, AccountsStay DEF Owners, w
    <3>4. \A o \in Runners \ {r} : Owner(o)'
      BY <2>1, <2>3, <3>2, OwnerStays DEF Owners, w, RunnerMoved
    <3>5. Owner(r)'
      BY <2>1 DEF Owner
    <3> QED BY <3>3, <3>4, <3>5 DEF Owners
  <2> QED BY <1>8, <2>2, <2>3, FinishMoves
<1>9. ASSUME NEW s \in Slots, NEW closed \in BOOLEAN, PollSweep(s, closed)
      PROVE  Owners'
  <2>1. row[s].state # "absent"
    BY <1>9, PollMoves DEF StaleAt
  <2> QED BY <1>1, <1>9, <2>1, PollMoves, SweepsKeepOwners
<1>10. ASSUME NEW r \in Runners, RunnerDies(r)
       PROVE  Owners'
  BY <1>10, <1>2, RestMoves DEF RunnerDies, RunnerMoved
<1>11. ASSUME NEW q \in Consumers, NEW m \in queue, Consume(q, m)
       PROVE  Owners'
  BY <1>11, <1>2, ConsumeMoves DEF RunnerMoved, Runners
<1>12. CASE UNCHANGED vars
  BY <1>3, <1>12 DEF vars
<1> QED BY <1>3, <1>4, <1>5, <1>6, <1>7, <1>8, <1>9, <1>10, <1>11, <1>12, StepKinds
        DEF OtherStep, Tick, TakeOther, OtherEnds, Redeliver

(* scheduled-slot-fence.ts, claimCatchUpSlotExecution: a slot is caught up *)
(* at most once, and once more for each catch-up that a late original of   *)
(* the slot took over.                                                     *)
THEOREM SlotsAreCaughtUpOnce == Spec => []CaughtUpOnce
<1>1. Init => Owners
  BY DEF Init, Owners, Owner, Account, NoRow, IdleRunner
<1>2. Typing /\ Owners => CaughtUpOnce
  <2> SUFFICES ASSUME Typing, Owners PROVE CaughtUpOnce
    OBVIOUS
  <2>1. \A s \in Slots : claims[s].catchUp \in Nat /\ claims[s].robbed \in Nat
    BY DEF Typing, TypeOK
  <2> QED BY <2>1 DEF Owners, Account, CaughtUpOnce
<1> QED BY <1>1, <1>2, OwnersStep, Typed, PTL DEF Spec

-----------------------------------------------------------------------------
(* Only missed slots are armed.                                            *)

(* The slot that a pass is about to arm is missed, or was changed and, if  *)
(* it runs, claimed since the pass began.                                  *)
Verdict(h) ==
    host[h].stage = "arm" =>
      LET r == row[host[h].slot]
      IN  \/ Missed(r)
          \/ /\ r.updatedAt >= host[h].at
             /\ r.state = "running" => r.startedAt >= host[h].at

(* The slot that a sweep is about to close is as the sweep left it, or of  *)
(* a later generation.                                                     *)
Closing(h) ==
    host[h].stage = "close" =>
      LET r == row[host[h].target]
      IN  /\ host[h].gen <= r.gen
          /\ r.state = "reconciling" /\ r.gen = host[h].gen => r.updatedAt = host[h].at

Verdicts == \A h \in Hosts : Verdict(h) /\ Closing(h)

(* A row is rewritten now - by a claim, a heartbeat, an end - or it is     *)
(* stale and dated back by a slower pass, but not beyond its last change,  *)
(* nor, where its age condemns it, beyond its start.                       *)
LEMMA VerdictStays ==
    ASSUME Typing, NEW g \in Hosts, Verdict(g), Closing(g), host'[g] = host[g],
           NEW s \in Slots, NEW w, Rewrites(s, w),
           w.gen >= row[s].gen, w.gen = row[s].gen => w.state # "reconciling",
           \/ /\ w.updatedAt = now
              /\ w.state = "running" =>
                    \/ w.startedAt = now
                    \/ row[s].state = "running" /\ w.startedAt = row[s].startedAt
           \/ /\ row[s].state \in {"running", "reconciling"} /\ w.state # "running"
              /\ \/ w.updatedAt >= row[s].updatedAt
                 \/ row[s].state = "running" /\ w.updatedAt >= row[s].startedAt
    PROVE  Verdict(g)' /\ Closing(g)'
<1>1. /\ row \in [Slots -> Row] /\ host[g] \in Host /\ now \in Nat /\ w \in Row
      /\ host[g].at \in Nat /\ host[g].at <= now /\ host[g].gen \in Nat
      /\ host[g].stage # "idle" => host[g].slot \in Slots
      /\ host[g].stage = "close" => host[g].target \in Slots
  BY DEF Typing, TypeOK, Located, Host, Rewrites
<1>2. \A u \in Slots : row'[u] = IF u = s THEN w ELSE row[u]
  BY <1>1 DEF Rewrites
<1>3. /\ row[s].gen \in Nat /\ row[s].updatedAt \in Nat /\ row[s].startedAt \in Nat
      /\ w.gen \in Nat /\ w.updatedAt \in Nat /\ w.startedAt \in Nat
  BY <1>1 DEF Row
<1>4. Verdict(g)'
  <2> SUFFICES ASSUME host[g].stage = "arm"
               PROVE  Verdict(g)'
    BY DEF Verdict
  <2>1. CASE host[g].slot # s
    <3>1. row'[host[g].slot] = row[host[g].slot]
      BY <1>1, <1>2, <2>1
    <3> QED BY <3>1 DEF Verdict
  <2>2. CASE host[g].slot = s
    <3>1. row'[s] = w
      BY <1>2
    <3>2. row[s].state \in {"running", "reconciling"} => ~Missed(row[s])
      BY DEF Missed, Abandoned
    <3>3. w.updatedAt >= host[g].at
      BY <1>1, <1>3, <2>2, <3>2 DEF Verdict
    <3>4. w.state = "running" => w.startedAt >= host[g].at
      BY <1>1, <1>3, <2>2, <3>2 DEF Verdict
    <3> QED BY <2>2, <3>1, <3>3, <3>4 DEF Verdict
  <2> QED BY <2>1, <2>2
<1>5. Closing(g)'
  <2> SUFFICES ASSUME host[g].stage = "close"
               PROVE  Closing(g)'
    BY DEF Closing
  <2>1. CASE host[g].target # s
    <3>1. row'[host[g].target] = row[host[g].target]
      BY <1>1, <1>2, <2>1
    <3> QED BY <3>1 DEF Closing
  <2>2. CASE host[g].target = s
    <3>1. row'[s] = w
      BY <1>2
    <3> QED BY <1>1, <1>3, <2>2, <3>1 DEF Closing
  <2> QED BY <2>1, <2>2
<1> QED BY <1>4, <1>5

(* What the operators on rows do to times and generations.                 *)
LEMMA RowTimes ==
    ASSUME NEW r \in Row, NEW t \in Nat
    PROVE  /\ SweptRow(r, t).gen = r.gen + 1 /\ SweptRow(r, t).state = "reconciling"
           /\ SweptRow(r, t).updatedAt = t
           /\ Closed(r, t).gen = r.gen /\ Closed(r, t).state = "finished"
           /\ Closed(r, t).updatedAt = t
           /\ LET w == [r EXCEPT !.updatedAt = t]
              IN  /\ w.gen = r.gen /\ w.state = r.state
                  /\ w.updatedAt = t /\ w.startedAt = r.startedAt
<1>1. /\ SweptRow(r, t).gen = r.gen + 1 /\ SweptRow(r, t).state = "reconciling"
      /\ SweptRow(r, t).updatedAt = t
  BY DEF SweptRow
<1>2. /\ Closed(r, t).gen = r.gen /\ Closed(r, t).state = "finished"
      /\ Closed(r, t).updatedAt = t
  BY DEF Closed, Row
<1>3. LET w == [r EXCEPT !.updatedAt = t]
      IN  /\ w.gen = r.gen /\ w.state = r.state
          /\ w.updatedAt = t /\ w.startedAt = r.startedAt
  BY DEF Row
<1> QED BY <1>1, <1>2, <1>3

(* The end of a run is dated and keeps the generation.                     *)
LEMMA EndTimes ==
    ASSUME NEW r \in Row, NEW t \in Nat, NEW b \in BOOLEAN, NEW result \in {"ok", "error"}
    PROVE  LET w == [r EXCEPT !.state = "finished", !.result = result,
                              !.updatedAt = t, !.catchUp = b]
           IN  w.gen = r.gen /\ w.state = "finished" /\ w.updatedAt = t
BY DEF Row

(* A step of the queue, the deliveries or the poll keeps the verdicts.     *)
LEMMA OthersKeepVerdicts ==
    ASSUME Typing, Verdicts, OtherStep
    PROVE  Verdicts'
<1>1. host' = host
  BY OthersLeavePasses
<1>2. now \in Nat /\ row \in [Slots -> Row] /\ \A s \in Slots : row[s].gen \in Nat
  BY DEF Typing, TypeOK, Row
<1>3. CASE UNCHANGED row
  BY <1>1, <1>3 DEF Verdicts, Verdict, Closing
<1>4. ASSUME NEW s \in Slots, NEW w, Rewrites(s, w), w.updatedAt = now,
             w.gen >= row[s].gen, w.gen = row[s].gen => w.state # "reconciling",
             w.state = "running" => \/ w.startedAt = now
                                    \/ row[s].state = "running" /\ w.startedAt = row[s].startedAt
      PROVE  Verdicts'
  BY <1>1, <1>4, VerdictStays DEF Verdicts
<1>5. ASSUME NEW s \in Slots, NEW b \in BOOLEAN, Rewrites(s, ClaimedRow(row[s], b))
      PROVE  Verdicts'
  <2> DEFINE w == ClaimedRow(row[s], b)
  <2>1. w.updatedAt = now /\ w.startedAt = now /\ w.gen = row[s].gen + 1
    BY DEF ClaimedRow
  <2> HIDE DEF w
  <2>2. w.gen >= row[s].gen /\ w.gen # row[s].gen
    BY <1>2, <2>1
  <2> QED BY <1>4, <1>5, <2>1, <2>2 DEF w
<1>6. ASSUME NEW c \in Crons, NEW s \in Slots, Deliver(c, s)
      PROVE  Verdicts'
  BY <1>5, <1>6, DeliverMoves
<1>7. ASSUME NEW q \in Consumers, ClaimMissed(q) \/ InsertUnanswered(q)
      PROVE  Verdicts'
  BY <1>3, <1>5, <1>7, ClaimMoves, UnansweredMoves
<1>8. ASSUME NEW r \in Runners, Beat(r)
      PROVE  Verdicts'
  <2>1. PICK s \in Slots : row[s].state = "running" /\ Rewrites(s, [row[s] EXCEPT !.updatedAt = now])
    BY <1>8, BeatMoves
  <2> DEFINE w == [row[s] EXCEPT !.updatedAt = now]
  <2>2. /\ w.gen = row[s].gen /\ w.state = "running"
        /\ w.updatedAt = now /\ w.startedAt = row[s].startedAt
    BY <1>2, <2>1, RowTimes
  <2> HIDE DEF w
  <2>3. w.gen >= row[s].gen
    BY <1>2, <2>2
  <2> QED BY <1>4, <2>1, <2>2, <2>3 DEF w
<1>9. ASSUME NEW r \in Runners, FinishRun(r)
      PROVE  Verdicts'
  <2>1. ASSUME NEW s \in Slots, NEW result \in {"ok", "error"},
               Rewrites(s, [row[s] EXCEPT !.state = "finished", !.result = result,
                                          !.updatedAt = now, !.catchUp = r \in Consumers])
        PROVE  Verdicts'
    <3> DEFINE w == [row[s] EXCEPT !.state = "finished", !.result = result,
                                   !.updatedAt = now, !.catchUp = r \in Consumers]
    <3>1. w.gen = row[s].gen /\ w.state = "finished" /\ w.updatedAt = now
      <4>1. row[s] \in Row /\ (r \in Consumers) \in BOOLEAN
        BY <1>2
      <4> QED BY <1>2, <4>1, EndTimes
    <3> HIDE DEF w
    <3>2. w.gen >= row[s].gen
      BY <1>2, <3>1
    <3> QED BY <1>4, <2>1, <3>1, <3>2 DEF w
  <2> QED BY <1>3, <1>9, <2>1, FinishMoves
<1>10. ASSUME NEW s \in Slots, NEW closed \in BOOLEAN, PollSweep(s, closed)
       PROVE  Verdicts'
  <2> DEFINE z == SweptRow(row[s], now)
  <2>1. row[s] \in Row /\ z \in Row
    BY <1>2, RowsAreRows
  <2>2. z.gen = row[s].gen + 1 /\ z.updatedAt = now /\ z.state = "reconciling"
    BY <1>2, RowTimes
  <2>3. Closed(z, now).gen = z.gen /\ Closed(z, now).updatedAt = now /\ Closed(z, now).state = "finished"
    BY <1>2, <2>1, RowTimes
  <2> HIDE DEF z
  <2>4. PICK w \in {z, Closed(z, now)} : Rewrites(s, w)
    BY <1>10, PollMoves DEF z
  <2>5. /\ w.gen = row[s].gen + 1 /\ w.updatedAt = now /\ w.state # "running"
    BY <2>2, <2>3, <2>4
  <2>6. w.gen >= row[s].gen /\ w.gen # row[s].gen
    BY <1>2, <2>5
  <2> QED BY <1>4, <2>4, <2>5, <2>6
<1> QED BY <1>3, <1>6, <1>7, <1>8, <1>9, <1>10 DEF OtherStep, Consume, RunnerDies, TakeOther, OtherEnds, Redeliver, Tick

(* A pass's step keeps its own verdict and those of the others.            *)
LEMMA PassKeepsVerdicts ==
    ASSUME Typing, Verdicts, NEW h \in Hosts, PassStep(h)
    PROVE  Verdicts'
<1>1. Moved(h)
  BY StartMoves, ProbeMoves, SweepClaimMoves, SweepCloseMoves, ArmMoves, ReadBackMoves,
     SendMoves, FailMoves DEF PassStep
<1>2. /\ row \in [Slots -> Row] /\ host[h].at \in Nat
      /\ \A s \in Slots : row[s].gen \in Nat /\ row[s].updatedAt \in Nat /\ row[s].startedAt \in Nat
  BY DEF Typing, TypeOK, Row, Host
<1>3. CASE SweepClaim(h)
  <2>1. CASE host'[h].stage = "idle" /\ UNCHANGED row
    BY <1>1, <2>1 DEF Verdicts, Verdict, Closing, Moved
  <2>2. ASSUME NEW s \in Slots, Oldest(s, host[h].at),
               row' = [row EXCEPT ![s] = SweptRow(@, host[h].at)],
               host'[h].stage = "close", host'[h].target = s, host'[h].gen = row[s].gen + 1
        PROVE  Verdicts'
    <3> DEFINE w == SweptRow(row[s], host[h].at)
    <3>1. w \in Row /\ w.gen = row[s].gen + 1 /\ w.state = "reconciling" /\ w.updatedAt = host[h].at
      <4>1. row[s] \in Row /\ now \in Nat
        BY <1>2 DEF Typing, TypeOK
      <4>2. w \in Row
        BY <1>2, <4>1, RowsAreRows
      <4>3. w.gen = row[s].gen + 1 /\ w.state = "reconciling" /\ w.updatedAt = host[h].at
        BY <1>2, <4>1, RowTimes
      <4> QED BY <4>2, <4>3
    <3> HIDE DEF w
    <3>2. Rewrites(s, w) /\ row'[s] = w
      BY <1>2, <2>2, <3>1 DEF Rewrites, w
    <3>3. /\ row[s].state \in {"running", "reconciling"}
          /\ \/ w.updatedAt >= row[s].updatedAt
             \/ row[s].state = "running" /\ w.updatedAt >= row[s].startedAt
      <4>1. SlotSilence \in Nat /\ HardDead \in Nat
        BY TimeAssumption
      <4> QED BY <1>2, <2>2, <3>1, <4>1 DEF Oldest, StaleAt
    <3>4. w.gen >= row[s].gen /\ w.gen # row[s].gen
      BY <1>2, <3>1
    <3>5. \A g \in Hosts \ {h} : Verdict(g)' /\ Closing(g)'
      BY <1>1, <3>1, <3>2, <3>3, <3>4, VerdictStays DEF Verdicts, Moved
    <3>6. Verdict(h)' /\ Closing(h)'
      <4>1. host'[h].at = host[h].at
        BY <1>3, SweepClaimMoves
      <4>2. host'[h].gen <= w.gen
        BY <1>2, <2>2, <3>1
      <4> QED BY <2>2, <3>1, <3>2, <4>1, <4>2 DEF Verdict, Closing
    <3> QED BY <3>5, <3>6 DEF Verdicts
  <2> QED BY <1>3, <2>1, <2>2, SweepClaimMoves
<1>4. CASE SweepClose(h)
  <2> DEFINE s == host[h].target
  <2>1. CASE host'[h].stage = "idle" /\ UNCHANGED row
    BY <1>1, <2>1 DEF Verdicts, Verdict, Closing, Moved
  <2>2. CASE /\ row[s].state = "reconciling" /\ row[s].gen = host[h].gen
             /\ row' = [row EXCEPT ![s] = Closed(@, host[h].at)]
             /\ host'[h].stage = "arm" => host'[h].slot = s
    <3> DEFINE w == Closed(row[s], host[h].at)
    <3>1. /\ s \in Slots /\ host[h].stage = "close" /\ host'[h].at = host[h].at
          /\ host'[h].stage \in {"idle", "arm"}
      BY <1>4, SweepCloseMoves DEF Typing, Located
    <3>2. w \in Row /\ w.gen = row[s].gen /\ w.state = "finished" /\ w.updatedAt = host[h].at
      <4>1. row[s] \in Row /\ now \in Nat
        BY <1>2, <3>1 DEF Typing, TypeOK
      <4>2. w \in Row
        BY <1>2, <4>1, RowsAreRows
      <4>3. w.gen = row[s].gen /\ w.state = "finished" /\ w.updatedAt = host[h].at
        BY <1>2, <4>1, RowTimes
      <4> QED BY <4>2, <4>3
    <3>3. row[s].updatedAt = host[h].at
      BY <2>2, <3>1 DEF Verdicts, Closing
    <3> HIDE DEF w
    <3>4. Rewrites(s, w) /\ row'[s] = w
      BY <1>2, <2>2, <3>1, <3>2 DEF Rewrites, w
    <3>5. w.gen >= row[s].gen /\ w.updatedAt >= row[s].updatedAt
      BY <1>2, <3>1, <3>2, <3>3
    <3>6. \A g \in Hosts \ {h} : Verdict(g)' /\ Closing(g)'
      BY <1>1, <2>2, <3>1, <3>2, <3>4, <3>5, VerdictStays DEF Verdicts, Moved
    <3>7. Verdict(h)' /\ Closing(h)'
      <4>1. w.updatedAt >= host'[h].at
        BY <1>2, <3>1, <3>2
      <4> QED BY <2>2, <3>1, <3>2, <3>4, <4>1 DEF Verdict, Closing
    <3> QED BY <3>6, <3>7 DEF Verdicts
  <2> QED BY <1>4, <2>1, <2>2, SweepCloseMoves
<1>5. CASE ProbeDueSlot(h)
  <2>1. /\ UNCHANGED row /\ host'[h].stage \in {"idle", "sweep", "arm"}
        /\ host'[h].stage = "arm" => Missed(row[host[h].slot]) /\ host'[h].slot = host[h].slot
    BY <1>5, ProbeMoves
  <2>2. Verdict(h)' /\ Closing(h)'
    BY <2>1 DEF Verdict, Closing, Missed, Abandoned
  <2>3. \A g \in Hosts \ {h} : Verdict(g)' /\ Closing(g)'
    BY <1>1, <2>1 DEF Verdicts, Verdict, Closing, Moved
  <2> QED BY <2>2, <2>3 DEF Verdicts
<1>6. CASE /\ UNCHANGED row /\ host'[h].stage \notin {"arm", "close"}
  BY <1>1, <1>6 DEF Verdicts, Verdict, Closing, Moved
<1> QED BY <1>3, <1>4, <1>5, <1>6, StartMoves, ArmMoves, ReadBackMoves, SendMoves, FailMoves
        DEF PassStep

(* scheduled-slot-catch-up.ts, probeDueSlots and armDueSlotCatchUps: the   *)
(* marker moves to a slot only if the slot is missed, or its row has       *)
(* changed since the pass read the clock.                                  *)
THEOREM OnlyMissedSlotsAreArmed == Spec => ArmedOnlyIfMissed
<1> DEFINE Rightly ==
      marker' # marker =>
         LET r == row[marker'.slot]
         IN  \/ r.state = "absent"
             \/ r.state = "finished" /\ r.result = "stale" /\ ~r.catchUp
             \/ r.updatedAt >= marker'.armedAt
<1>1. Init => Verdicts
  BY DEF Init, Verdicts, Verdict, Closing, AtRest
<1>2. Typing /\ Verdicts /\ [Next]_vars => Verdicts'
  <2>1. UNCHANGED vars /\ Verdicts => Verdicts'
    BY DEF vars, Verdicts, Verdict, Closing
  <2> QED BY <2>1, StepKinds, PassKeepsVerdicts, OthersKeepVerdicts
<1>3. Typing /\ Verdicts /\ [Next]_vars => [Rightly]_vars
  <2> SUFFICES ASSUME Typing, Verdicts, Next, marker' # marker PROVE Rightly
    OBVIOUS
  <2>1. PICK h \in Hosts : PassStep(h)
    BY StepKinds, OthersLeavePasses
  <2>2. PICK answered \in BOOLEAN : Arm(h, answered)
    BY <2>1, StartMoves, ProbeMoves, SweepClaimMoves, SweepCloseMoves, ReadBackMoves,
       SendMoves, FailMoves DEF PassStep
  <2>3. host[h].stage = "arm" /\ marker' = Hint(h)
    BY <2>2, ArmMoves
  <2>4. marker'.slot = host[h].slot /\ marker'.armedAt = host[h].at
    BY <2>3 DEF Hint
  <2> QED BY <2>3, <2>4 DEF Verdicts, Verdict, Missed, Abandoned
<1>4. ArmedOnlyIfMissed <=> [][Rightly]_vars
  BY DEF ArmedOnlyIfMissed
<1> QED BY <1>1, <1>2, <1>3, <1>4, Typed, PTL DEF Spec

-----------------------------------------------------------------------------
(* A missed slot is caught up in time.                                     *)

(* Two multiples of a number are that number apart.                        *)
LEMMA MultiplesApart ==
    ASSUME NEW i \in Nat \ {0}, NEW a \in Int, NEW b \in Int, i * a < i * b
    PROVE  i * a + i <= i * b
<1>1. a < b
  BY Z3
<1>2. b - a - 1 \in Nat
  BY <1>1
<1>3. i * (b - a - 1) >= 0
  BY <1>2
<1>4. i * (b - a - 1) = i * b - i * a - i
  OBVIOUS
<1>5. i * a \in Int /\ i * b \in Int
  OBVIOUS
<1> QED BY <1>3, <1>4, <1>5

(* A quotient and what remains.                                            *)
LEMMA MultipleOf ==
    ASSUME NEW i \in Nat \ {0}, NEW x \in Nat
    PROVE  /\ x \div i \in Int /\ x % i \in Int
           /\ x = i * (x \div i) + (x % i)
           /\ 0 <= x % i /\ x % i < i
OBVIOUS

(* The lane's numbers.                                                     *)
LEMMA LaneNumbers ==
    /\ Interval \in Nat \ {0} /\ Slots \subseteq Nat \ {0} /\ LaneTimeout \in Nat /\ HostPeriod \in Nat
    /\ GraceSec \in Nat /\ NextSlotMarginSec \in Nat /\ NextSlotMarginSec <= Interval
<1>1. /\ Interval \in Nat \ {0} /\ Slots \subseteq Nat \ {0} /\ LaneTimeout \in Nat /\ HostPeriod \in Nat
      /\ GraceCap \in Nat /\ MarginCap \in Nat
  BY TimeAssumption
<1>2. (Interval * 2) \div 5 \in Nat /\ Interval \div 5 \in Nat /\ Interval \div 5 <= Interval
  BY <1>1
<1> QED BY <1>1, <1>2 DEF GraceSec, NextSlotMarginSec, AtMost

LEMMA SlotsApart ==
    ASSUME NEW s \in Slots, NEW u \in Slots, s < u
    PROVE  s + Interval <= u
<1> DEFINE a == s \div Interval
           b == u \div Interval
<1>1. s = Interval * a /\ u = Interval * b /\ a \in Int /\ b \in Int
  <2>1. s % Interval = 0 /\ u % Interval = 0
    BY TimeAssumption
  <2>2. /\ s \in Nat /\ u \in Nat /\ Interval \in Nat \ {0}
    BY LaneNumbers
  <2>3. /\ s = Interval * (s \div Interval) + (s % Interval) /\ s \div Interval \in Int
        /\ u = Interval * (u \div Interval) + (u % Interval) /\ u \div Interval \in Int
    BY <2>2, MultipleOf
  <2>4. \A x \in Int : Interval * x + 0 = Interval * x
    BY <2>2
  <2> QED BY <2>1, <2>3, <2>4
<1> HIDE DEF a, b
<1> QED BY <1>1, LaneNumbers, MultiplesApart

(* An instant belongs to the slot before it.                               *)
LEMMA SlotOfInstant ==
    ASSUME NEW s \in Slots, NEW t \in Nat, s <= t, t < s + Interval
    PROVE  SlotOf(t) = s
<1> DEFINE a == t \div Interval
           b == s \div Interval
           r == t % Interval
<1>1. /\ t = Interval * a + r /\ s = Interval * b /\ a \in Int /\ b \in Int
      /\ r \in Int /\ 0 <= r /\ r < Interval
  <2>1. s % Interval = 0
    BY TimeAssumption
  <2>2. /\ s \in Nat /\ Interval \in Nat \ {0}
    BY LaneNumbers
  <2>3. /\ s = Interval * (s \div Interval) + (s % Interval) /\ s \div Interval \in Int
        /\ t = Interval * (t \div Interval) + (t % Interval) /\ t \div Interval \in Int
        /\ t % Interval \in Int /\ 0 <= t % Interval /\ t % Interval < Interval
    BY <2>2, MultipleOf
  <2>4. \A x \in Int : Interval * x + 0 = Interval * x
    BY <2>2
  <2> QED BY <2>1, <2>3, <2>4
<1>2. SlotOf(t) = a * Interval
  BY DEF SlotOf
<1> HIDE DEF a, b, r
<1>3. /\ Interval * a \in Int /\ Interval * b \in Int /\ Interval \in Nat \ {0}
      /\ a * Interval = Interval * a
  BY <1>1, LaneNumbers
<1>4. ~(Interval * a < Interval * b)
  <2> SUFFICES ASSUME Interval * a < Interval * b
               PROVE  FALSE
    OBVIOUS
  <2>1. Interval * a + Interval <= Interval * b
    BY <1>1, <1>3, MultiplesApart
  <2> QED BY <1>1, <1>3, <2>1
<1>5. ~(Interval * b < Interval * a)
  <2> SUFFICES ASSUME Interval * b < Interval * a
               PROVE  FALSE
    OBVIOUS
  <2>1. Interval * b + Interval <= Interval * a
    BY <1>1, <1>3, MultiplesApart
  <2> QED BY <1>1, <1>3, <2>1
<1> QED BY <1>1, <1>2, <1>3, <1>4, <1>5

There(s) == row[s].state # "absent"

(* A pass at work is within the window of its slot; a pass that is over    *)
(* has left no slot behind that was in its window, is not armed and has no *)
(* row.                                                                    *)
Look(h) ==
    /\ host[h].stage # "idle" => IsCandidate(host[h].slot, host[h].at)
    /\ host[h].stage \in {"sweep", "close"} => There(host[h].slot)
    /\ host[h].stage = "idle" =>
          \A s \in Slots : IsCandidate(s, host[h].at) => marker.slot >= s \/ There(s)
Looks == \A h \in Hosts : Look(h)

(* The slot that was armed last has a row, or one is under way, or the     *)
(* slot's window has ended.                                                *)
Ended(s) == now > s + Interval - NextSlotMarginSec
Underway(s) ==
    \/ There(s)
    \/ Ended(s)
    \/ \E h \in Hosts : host[h].stage = "send" /\ host[h].slot = s
    \/ \E m \in queue : m.slot = s
    \/ \E q \in Consumers : runner[q].stage = "claim" /\ runner[q].slot = s
Pursued == marker.slot \in Slots => Underway(marker.slot)

(* Nothing is done for a slot before its window opens.                     *)
Opened ==
    /\ \A m \in queue : m.slot + GraceSec <= now
    /\ marker # NoMarker => marker.slot + GraceSec <= now
    /\ \A q \in Consumers : runner[q].stage # "idle" => runner[q].slot + GraceSec <= now

(* A consumer claims in the second in which it took the hint.              *)
Prompt ==
    \A q \in Consumers :
        /\ runner[q].stage = "claim" => runner[q].at = now /\ WithinWindow(runner[q].slot, now)
        /\ runner[q].stage = "run" => There(runner[q].slot)

(* Until the second after its window, a slot without row has waited behind *)
(* messages of others for every second but those of a host's period.       *)
Waits ==
    \A s \in Slots :
        now <= s + Interval - NextSlotMarginSec + 1 =>
            There(s) \/ now < s + GraceSec + HostPeriod + waited[s]

InTime == Looks /\ Pursued /\ Opened /\ Prompt /\ Waits /\ MissedSlotIsCaughtUp

(* A row does not go away.                                                 *)
LEMMA RowsStay ==
    ASSUME Typing, Next
    PROVE  \A s \in Slots : There(s) => There(s)'
<1>1. /\ row \in [Slots -> Row] /\ now \in Nat /\ \A h \in Hosts : host[h].at \in Nat
  BY DEF Typing, TypeOK, Host
<1>2. ASSUME NEW s \in Slots, NEW w, row' = [row EXCEPT ![s] = w], w.state # "absent"
      PROVE  \A u \in Slots : There(u) => There(u)'
  BY <1>1, <1>2 DEF There
<1>3. ASSUME UNCHANGED row
      PROVE  \A u \in Slots : There(u) => There(u)'
  BY <1>3 DEF There
<1>4. ASSUME NEW s \in Slots
      PROVE  /\ \A b \in BOOLEAN : ClaimedRow(row[s], b).state # "absent"
             /\ \A t \in Nat : /\ SweptRow(row[s], t).state # "absent"
                               /\ Closed(row[s], t).state # "absent"
                               /\ Closed(SweptRow(row[s], t), t).state # "absent"
             /\ [row[s] EXCEPT !.updatedAt = now].state = row[s].state
  BY <1>1 DEF ClaimedRow, SweptRow, Closed, Row
<1>5. ASSUME NEW h \in Hosts, PassStep(h)
      PROVE  \A s \in Slots : There(s) => There(s)'
  <2>1. CASE UNCHANGED row
    BY <1>3, <2>1
  <2>2. CASE SweepClaim(h)
    BY <1>1, <1>2, <1>3, <1>4, <2>2, SweepClaimMoves
  <2>3. CASE SweepClose(h)
    <3>1. host[h].target \in Slots
      BY <2>3, SweepCloseMoves DEF Typing, Located
    <3> QED BY <1>1, <1>2, <1>3, <1>4, <2>3, <3>1, SweepCloseMoves
  <2> QED BY <1>5, <2>1, <2>2, <2>3, StartMoves, ProbeMoves, ArmMoves, ReadBackMoves,
             SendMoves, FailMoves DEF PassStep
<1>6. ASSUME OtherStep
      PROVE  \A s \in Slots : There(s) => There(s)'
  <2>1. ASSUME NEW c \in Crons, NEW s \in Slots, Deliver(c, s)
        PROVE  \A u \in Slots : There(u) => There(u)'
    BY <1>2, <1>4, <2>1, DeliverMoves DEF Rewrites
  <2>2. ASSUME NEW q \in Consumers, ClaimMissed(q) \/ InsertUnanswered(q)
        PROVE  \A u \in Slots : There(u) => There(u)'
    <3>1. UNCHANGED row \/ \E s \in Slots : Rewrites(s, ClaimedRow(row[s], TRUE))
      BY <2>2, ClaimMoves, UnansweredMoves
    <3> QED BY <1>2, <1>3, <1>4, <3>1 DEF Rewrites
  <2>3. ASSUME NEW r \in Runners, Beat(r)
        PROVE  \A u \in Slots : There(u) => There(u)'
    BY <1>2, <1>4, <2>3, BeatMoves DEF Rewrites
  <2>4. ASSUME NEW r \in Runners, FinishRun(r)
        PROVE  \A u \in Slots : There(u) => There(u)'
    <3>1. \/ UNCHANGED row
          \/ \E s \in Slots, result \in {"ok", "error"} :
                Rewrites(s, [row[s] EXCEPT !.state = "finished", !.result = result,
                                           !.updatedAt = now, !.catchUp = r \in Consumers])
      BY <2>4, FinishMoves
    <3>2. ASSUME NEW s \in Slots, NEW result \in {"ok", "error"}
          PROVE  [row[s] EXCEPT !.state = "finished", !.result = result,
                                !.updatedAt = now, !.catchUp = r \in Consumers].state # "absent"
      <4>1. row[s] \in Row /\ (r \in Consumers) \in BOOLEAN
        BY <1>1
      <4> QED BY <1>1, <4>1, EndTimes
    <3> QED BY <1>2, <1>3, <3>1, <3>2 DEF Rewrites
  <2>5. ASSUME NEW s \in Slots, NEW closed \in BOOLEAN, PollSweep(s, closed)
        PROVE  \A u \in Slots : There(u) => There(u)'
    BY <1>1, <1>2, <1>4, <2>5, PollMoves DEF Rewrites
  <2> QED BY <1>3, <1>6, <2>1, <2>2, <2>3, <2>4, <2>5
          DEF OtherStep, Consume, RunnerDies, TakeOther, OtherEnds, Redeliver, Tick
<1> QED BY <1>5, <1>6, StepKinds

LEMMA NothingFails ==
    ASSUME MaxFaults = 0, TypeOK
    PROVE  ~Fault
BY DEF TypeOK, Fault

(* A pass that rests has seen to the one slot whose window was open.       *)
LEMMA RestsSeen ==
    ASSUME Typing, NEW h \in Hosts, Look(h), host[h].stage # "idle", Rest(h),
           marker'.slot >= host[h].slot \/ row'[host[h].slot].state # "absent"
    PROVE  Look(h)'
<1>1. host'[h].stage = "idle" /\ host'[h].at = host[h].at
  BY HostRests
<1>2. IsCandidate(host[h].slot, host[h].at)
  BY DEF Look
<1>3. \A s \in Slots : IsCandidate(s, host[h].at) => s = host[h].slot
  BY <1>2 DEF IsCandidate
<1> QED BY <1>1, <1>3 DEF Look, There

LEMMA LooksStep ==
    ASSUME Typing, Passes, Looks, Next, MaxFaults = 0
    PROVE  Looks'
<1>1. /\ Slots \subseteq Nat /\ now \in Nat /\ marker.slot \in Nat
      /\ \A h \in Hosts : host[h].stage # "idle" => host[h].slot \in Slots
  BY LaneNumbers, MarkerSlots DEF Typing, TypeOK, Located
<1>2. \A s \in Slots : There(s) => There(s)'
  BY RowsStay
<1>3. ASSUME NEW g \in Hosts, host'[g] = host[g], marker'.slot >= marker.slot, marker'.slot \in Nat
      PROVE  Look(g)'
  <2>1. Look(g)
    BY DEF Looks
  <2>2. host[g].stage # "idle" => (There(host[g].slot) => There(host[g].slot)')
    BY <1>1, <1>2, <1>3 DEF There
  <2>3. \A s \in Slots : marker.slot >= s \/ There(s) => marker'.slot >= s \/ There(s)'
    BY <1>1, <1>2, <1>3
  <2> QED BY <1>3, <2>1, <2>2, <2>3 DEF Look
<1>4. CASE OtherStep
  BY <1>1, <1>3, <1>4, OthersLeavePasses DEF Looks
<1>5. ASSUME NEW h \in Hosts, HostStep(h)
      PROVE  Looks'
  <2>1. PassStep(h) /\ Look(h)
    BY <1>5 DEF HostStep, PassStep, Looks
  <2>2. \A g \in Hosts \ {h} : host'[g] = host[g]
    BY <2>1, StartMoves, ProbeMoves, SweepClaimMoves, SweepCloseMoves, ArmMoves, ReadBackMoves,
       SendMoves, FailMoves DEF PassStep, Moved
  <2>3. marker' = marker \/ (marker' = Hint(h) /\ Moves(h) /\ host[h].stage # "idle")
    BY <1>5, StartMoves, ProbeMoves, SweepClaimMoves, SweepCloseMoves, ArmMoves, ReadBackMoves,
       SendMoves DEF HostStep
  <2>4. marker'.slot >= marker.slot /\ marker'.slot \in Nat
    <3>1. CASE marker' = marker
      BY <1>1, <3>1
    <3>2. CASE marker' = Hint(h) /\ Moves(h) /\ host[h].stage # "idle"
      <4>1. marker'.slot = host[h].slot /\ host[h].slot \in Nat
        BY <1>1, <3>2 DEF Hint
      <4> QED BY <1>1, <3>2, <4>1 DEF Moves
    <3> QED BY <2>3, <3>1, <3>2
  <2>5. \A g \in Hosts \ {h} : Look(g)'
    BY <1>3, <2>2, <2>4
  <2> SUFFICES Look(h)'
    BY <2>5 DEF Looks
  <2>6. CASE StartPass(h)
    <3>1. host \in [Hosts -> Host]
      BY DEF Typing, TypeOK
    <3>2. \/ \E s \in Slots : IsCandidate(s, now) /\ host'[h] = Begun(now, s)
          \/ (~\E s \in Slots : IsCandidate(s, now)) /\ host'[h] = AtRest(now)
      BY <2>6, <3>1 DEF StartPass
    <3>3. CASE \E s \in Slots : IsCandidate(s, now) /\ host'[h] = Begun(now, s)
      <4>1. PICK s \in Slots : IsCandidate(s, now) /\ host'[h] = Begun(now, s)
        BY <3>3
      <4>2. host'[h].stage = "probe" /\ host'[h].slot = s /\ host'[h].at = now
        BY <4>1 DEF Begun
      <4>3. IsCandidate(host'[h].slot, host'[h].at)
        BY <4>1, <4>2
      <4> QED BY <4>2, <4>3 DEF Look, IsCandidate, WithinWindow
    <3>4. CASE (~\E s \in Slots : IsCandidate(s, now)) /\ host'[h] = AtRest(now)
      <4>1. host'[h].stage = "idle" /\ host'[h].at = now
        BY <3>4 DEF AtRest
      <4> QED BY <3>4, <4>1 DEF Look, IsCandidate, WithinWindow
    <3> QED BY <3>2, <3>3, <3>4
  <2>7. ASSUME host[h].stage # "idle", host'[h].stage # "idle",
               host'[h].slot = host[h].slot, host'[h].at = host[h].at,
               host'[h].stage \in {"sweep", "close"} => row[host[h].slot].state # "absent"
        PROVE  Look(h)'
    <3>1. row[host[h].slot].state # "absent" => row'[host'[h].slot].state # "absent"
      BY <1>1, <1>2, <2>7 DEF There
    <3>2. IsCandidate(host[h].slot, host[h].at)
      BY <2>1, <2>7 DEF Look
    <3>3. IsCandidate(host'[h].slot, host'[h].at)
      BY <2>7, <3>2
    <3> QED BY <2>7, <3>1, <3>3 DEF Look, There, IsCandidate, WithinWindow
  <2>8. ASSUME host[h].stage # "idle", Rest(h), marker.slot >= host[h].slot \/ There(host[h].slot)
        PROVE  Look(h)'
    <3>1. host[h].slot \in Slots /\ host[h].slot \in Nat
      BY <1>1, <2>8
    <3>2. marker'.slot >= host[h].slot \/ row'[host[h].slot].state # "absent"
      BY <1>1, <1>2, <2>4, <2>8, <3>1 DEF There
    <3> QED BY <2>1, <2>8, <3>2, RestsSeen
  <2>9. CASE ProbeDueSlot(h)
    <3>1. host[h].stage = "probe"
      BY <2>9 DEF ProbeDueSlot
    <3>2. CASE Go(h, "arm")
      BY <2>7, <3>1, <3>2, HostGoes
    <3>3. CASE Go(h, "sweep") /\ ~Missed(row[host[h].slot])
      BY <2>7, <3>1, <3>3, HostGoes DEF Missed
    <3>4. CASE Rest(h) /\ (marker.slot >= host[h].slot \/ ~Missed(row[host[h].slot]))
      BY <2>8, <3>1, <3>4 DEF Missed, There
    <3> QED BY <2>9, <3>2, <3>3, <3>4 DEF ProbeDueSlot
  <2>10. CASE SweepClaim(h)
    <3>1. host[h].stage = "sweep" /\ There(host[h].slot)
      BY <2>1, <2>10 DEF SweepClaim, Look
    <3>2. CASE Rest(h)
      BY <2>8, <3>1, <3>2
    <3>3. CASE ~Rest(h)
      <4>1. host'[h].stage = "close" /\ host'[h].slot = host[h].slot /\ host'[h].at = host[h].at
        <5>1. PICK s \in Slots :
                 host' = [host EXCEPT ![h].stage = "close", ![h].target = s, ![h].gen = row[s].gen + 1]
          BY <2>10, <3>3 DEF SweepClaim
        <5>2. host[h] \in Host /\ DOMAIN host = Hosts
          BY DEF Typing, TypeOK
        <5> QED BY <5>1, <5>2 DEF Host
      <4> QED BY <2>7, <3>1, <4>1 DEF There
    <3> QED BY <3>2, <3>3
  <2>11. CASE SweepClose(h)
    <3>1. host[h].stage = "close" /\ There(host[h].slot)
      BY <2>1, <2>11 DEF SweepClose, Look
    <3>2. Rest(h) \/ Go(h, "arm")
      BY <2>11 DEF SweepClose
    <3> QED BY <2>7, <2>8, <3>1, <3>2, HostGoes
  <2>12. CASE Arm(h, TRUE)
    BY <2>7, <2>12, ArmMoves
  <2>13. CASE ReadBack(h)
    <3>1. host[h].stage = "readback" /\ marker.slot >= host[h].slot
      <4>1. host[h].stage = "readback"
        BY <2>13 DEF ReadBack
      <4> QED BY <1>1, <4>1 DEF Passes
    <3>2. Rest(h) \/ Go(h, "send")
      BY <2>13 DEF ReadBack
    <3> QED BY <2>7, <2>8, <3>1, <3>2, HostGoes
  <2>14. CASE Send(h)
    <3>1. host[h].stage = "send" /\ Rest(h)
      BY <2>14 DEF Send
    <3>2. marker.slot >= host[h].slot
      BY <1>1, <3>1 DEF Passes
    <3> QED BY <2>8, <3>1, <3>2
  <2> QED BY <1>5, <2>6, <2>9, <2>10, <2>11, <2>12, <2>13, <2>14 DEF HostStep
<1>6. ~Fault
  BY NothingFails DEF Typing
<1> QED BY <1>4, <1>5, <1>6 DEF Next, OtherStep

(* Only a tick moves the clock.                                            *)
LEMMA OnlyTicks ==
    ASSUME Next
    PROVE  now' = now \/ Tick
<1>1. CASE Fault
  BY <1>1 DEF Fault, Arm, PassFails, SendFails, InsertUnanswered, RunnerDies, Redeliver
<1>2. CASE \E h \in Hosts : HostStep(h)
  BY <1>2 DEF HostStep, StartPass, ProbeDueSlot, SweepClaim, SweepClose, Arm, ReadBack, Send
<1>3. CASE \E q \in Consumers : TakeOther(q) \/ OtherEnds(q)
  BY <1>3 DEF TakeOther, OtherEnds
<1> QED BY <1>1, <1>2, <1>3 DEF Next, Deliver, ClaimMissed, Consume, Beat, FinishRun, PollSweep

(* An armed slot stays under way until it has a row or its window ends: a  *)
(* hint is dropped only then, and a claim of a slot without row succeeds.  *)
LEMMA UnderwayStays ==
    ASSUME Typing, InTime, Next, MaxFaults = 0, NEW s \in Slots, Underway(s)
    PROVE  Underway(s)'
<1>1. There(s) => There(s)'
  BY RowsStay
<1>2. ~Fault
  BY NothingFails DEF Typing
<1>3. /\ now \in Nat /\ s \in Nat /\ Interval \in Nat /\ GraceSec \in Nat
      /\ NextSlotMarginSec \in Nat /\ LaneTimeout \in Nat
  BY LaneNumbers DEF Typing, TypeOK
<1>4. CASE There(s)
  BY <1>1, <1>4 DEF Underway
<1>8. CASE Ended(s)
  <2>1. now' = now \/ now' = now + 1
    BY OnlyTicks DEF Tick
  <2>2. now' > s + Interval - NextSlotMarginSec
    BY <1>3, <1>8, <2>1 DEF Ended
  <2> QED BY <2>2 DEF Underway, Ended, NextSlotMarginSec, AtMost
<1>5. CASE \E h \in Hosts : host[h].stage = "send" /\ host[h].slot = s
  <2>1. PICK h \in Hosts : host[h].stage = "send" /\ host[h].slot = s
    BY <1>5
  <2>2. CASE host'[h] = host[h]
    BY <2>1, <2>2 DEF Underway
  <2>3. CASE host'[h] # host[h]
    <3>1. ~OtherStep
      BY <2>3, OthersLeavePasses
    <3>2. PICK g \in Hosts : HostStep(g)
      BY <1>2, <3>1 DEF Next, OtherStep
    <3>3. PassStep(g)
      BY <3>2 DEF HostStep, PassStep
    <3>4. Moved(g)
      BY <3>3, StartMoves, ProbeMoves, SweepClaimMoves, SweepCloseMoves, ArmMoves, ReadBackMoves,
         SendMoves, FailMoves DEF PassStep
    <3>5. g = h
      BY <2>3, <3>4 DEF Moved
    <3>6. Send(h)
      BY <2>1, <3>2, <3>5 DEF HostStep, StartPass, ProbeDueSlot, SweepClaim, SweepClose, Arm, ReadBack
    <3>7. Hint(h) \in queue' /\ Hint(h).slot = s
      BY <2>1, <3>6 DEF Send, Hint
    <3> QED BY <3>7 DEF Underway
  <2> QED BY <2>2, <2>3
<1>6. CASE \E m \in queue : m.slot = s
  <2>1. PICK m \in queue : m.slot = s
    BY <1>6
  <2>2. CASE m \in queue'
    BY <2>1, <2>2 DEF Underway
  <2>3. CASE m \notin queue'
    <3>1. PICK q \in Consumers : Consume(q, m)
      BY <1>2, <2>1, <2>3 DEF Next, HostStep, StartPass, ProbeDueSlot, SweepClaim, SweepClose, Arm,
         ReadBack, Send, Deliver, ClaimMissed, Consume, Beat, FinishRun, PollSweep, TakeOther, OtherEnds, Tick
    <3>2. CASE WithinWindow(s, now)
      <4>1. runner' = [runner EXCEPT ![q] = [stage |-> "claim", slot |-> s, gen |-> 0, at |-> now]]
        BY <2>1, <3>1, <3>2 DEF Consume
      <4>2. DOMAIN runner = Runners /\ q \in Runners
        BY DEF Typing, TypeOK, Runners
      <4>3. runner'[q].stage = "claim" /\ runner'[q].slot = s
        BY <4>1, <4>2
      <4> QED BY <4>3 DEF Underway
    <3>3. CASE ~WithinWindow(s, now)
      <4>1. s + GraceSec <= now
        BY <2>1 DEF InTime, Opened
      <4>2. now > s + Interval - NextSlotMarginSec
        BY <1>3, <3>3, <4>1 DEF WithinWindow
      <4> QED BY <1>8, <4>2 DEF Ended
    <3> QED BY <3>2, <3>3
  <2> QED BY <2>2, <2>3
<1>7. CASE \E q \in Consumers : runner[q].stage = "claim" /\ runner[q].slot = s
  <2>1. PICK q \in Consumers : runner[q].stage = "claim" /\ runner[q].slot = s
    BY <1>7
  <2>2. CASE runner'[q] = runner[q]
    BY <2>1, <2>2 DEF Underway
  <2>3. CASE runner'[q] # runner[q]
    <3>1. ASSUME NEW r \in Runners, r # q, RunnerMoved(r)
          PROVE  FALSE
      BY <2>3, <3>1 DEF RunnerMoved, Runners
    <3>2. q \in Runners /\ q \notin Crons
      BY ActorAssumption DEF Runners
    <3>3. runner' # runner
      BY <2>3
    <3>4. ~(\E c \in Crons, u \in Slots : Deliver(c, u))
      BY <3>1, <3>2, DeliverMoves DEF Runners
    <3>5. ~(\E p \in Consumers : \E m \in queue : Consume(p, m))
      <4>1. \A p \in Consumers : \A m \in queue : Consume(p, m) => p # q
        BY <2>1 DEF Consume, Free
      <4> QED BY <3>1, <4>1, ConsumeMoves DEF Runners
    <3>6. ~(\E r \in Runners : FinishRun(r))
      <4>1. \A r \in Runners : FinishRun(r) => r # q
        BY <2>1 DEF FinishRun
      <4> QED BY <3>1, <4>1, FinishMoves
    <3>7. PICK p \in Consumers : ClaimMissed(p)
      BY <1>2, <3>3, <3>4, <3>5, <3>6 DEF Next, HostStep, StartPass, ProbeDueSlot, SweepClaim, SweepClose,
         Arm, ReadBack, Send, Beat, PollSweep, TakeOther, OtherEnds, Tick
    <3>8. p = q
      BY <3>1, <3>7, ClaimMoves DEF Runners
    <3>9. CASE row[s].state = "absent"
      <4>1. runner[q].at = now /\ WithinWindow(s, now)
        BY <2>1 DEF InTime, Prompt
      <4>2. now <= Deadline(s, now)
        BY <1>3, <4>1 DEF Deadline, AtMost, WithinWindow
      <4>3. row' = [row EXCEPT ![s] = ClaimedRow(@, TRUE)]
        BY <2>1, <3>7, <3>8, <3>9, <4>1, <4>2 DEF ClaimMissed, Missed
      <4>4. row'[s].state = "running"
        BY <4>3 DEF Typing, TypeOK, ClaimedRow
      <4> QED BY <4>4 DEF Underway, There
    <3>10. CASE row[s].state # "absent"
      BY <1>4, <3>10 DEF There
    <3> QED BY <3>9, <3>10
  <2> QED BY <2>2, <2>3
<1> QED BY <1>4, <1>5, <1>6, <1>7, <1>8 DEF Underway

(* Nothing fails, so whoever moves the marker is about to send.            *)
LEMMA PursuedStep ==
    ASSUME Typing, InTime, Next, MaxFaults = 0
    PROVE  Pursued'
<1>1. ASSUME NEW s \in Slots, marker'.slot = s, Underway(s)'
      PROVE  Pursued'
  BY <1>1 DEF Pursued, Underway, Ended, There
<1>2. CASE marker' = marker
  <2> SUFFICES ASSUME NEW s \in Slots, marker.slot = s
               PROVE  Pursued'
    BY <1>2 DEF Pursued
  <2>1. Underway(s)
    BY DEF InTime, Pursued, Underway, Ended, There
  <2>2. Underway(s)'
    BY <2>1, UnderwayStays
  <2> QED BY <1>1, <1>2, <2>2
<1>3. CASE marker' # marker
  <2>1. ~OtherStep
    BY <1>3, OthersLeavePasses
  <2>2. PICK h \in Hosts : HostStep(h)
    BY <2>1, NothingFails DEF Next, OtherStep, Typing
  <2>3. Arm(h, TRUE)
    BY <1>3, <2>2 DEF HostStep, StartPass, ProbeDueSlot, SweepClaim, SweepClose, ReadBack, Send
  <2>4. marker' = Hint(h) /\ Go(h, "send") /\ host[h].stage = "arm"
    BY <1>3, <2>3 DEF Arm
  <2>5. host'[h].stage = "send" /\ host'[h].slot = host[h].slot
    BY <2>4, HostGoes
  <2>6. marker'.slot = host[h].slot /\ host[h].slot \in Slots
    BY <2>4 DEF Hint, Typing, Located
  <2>7. PICK s \in Slots : s = host[h].slot
    BY <2>6
  <2>8. Underway(s)'
    BY <2>5, <2>7 DEF Underway
  <2> QED BY <1>1, <2>6, <2>7, <2>8
<1> QED BY <1>2, <1>3

(* What a consumer does when nothing fails.                                *)
LEMMA ConsumerSteps ==
    ASSUME Typing, Next, MaxFaults = 0, NEW q \in Consumers, runner'[q] # runner[q]
    PROVE  /\ now' = now
           /\ \/ \E m \in queue :
                   /\ WithinWindow(m.slot, now)
                   /\ runner'[q] = [stage |-> "claim", slot |-> m.slot, gen |-> 0, at |-> now]
              \/ /\ runner[q].stage = "claim" /\ runner'[q].stage = "run"
                 /\ runner'[q].slot = runner[q].slot /\ row'[runner[q].slot].state # "absent"
              \/ runner'[q].stage = "idle"
<1>1. ASSUME NEW r \in Runners, r # q, RunnerMoved(r)
      PROVE  FALSE
  BY <1>1 DEF RunnerMoved, Runners
<1>2. /\ q \in Runners /\ q \notin Crons /\ runner' # runner /\ ~Fault
      /\ runner \in [Runners -> Runner] /\ row \in [Slots -> Row]
  BY ActorAssumption, NothingFails DEF Runners, Typing, TypeOK
<1>3. ~(\E c \in Crons, u \in Slots : Deliver(c, u))
  BY <1>1, <1>2, DeliverMoves DEF Runners
<1>4. \/ \E p \in Consumers : ClaimMissed(p) \/ \E m \in queue : Consume(p, m)
      \/ \E r \in Runners : FinishRun(r)
  BY <1>2, <1>3 DEF Next, HostStep, StartPass, ProbeDueSlot, SweepClaim, SweepClose,
     Arm, ReadBack, Send, Beat, PollSweep, TakeOther, OtherEnds, Tick
<1>5. CASE \E p \in Consumers : \E m \in queue : Consume(p, m)
  <2>1. PICK p \in Consumers, m \in queue : Consume(p, m)
    BY <1>5
  <2>2. p = q
    BY <1>1, <2>1, ConsumeMoves DEF Runners
  <2>3. WithinWindow(m.slot, now)
    BY <1>2, <2>1, <2>2 DEF Consume
  <2>4. runner'[q] = [stage |-> "claim", slot |-> m.slot, gen |-> 0, at |-> now]
    BY <1>2, <2>1, <2>2, <2>3 DEF Consume
  <2> QED BY <2>1, <2>3, <2>4 DEF Consume
<1>6. CASE \E p \in Consumers : ClaimMissed(p)
  <2>1. PICK p \in Consumers : ClaimMissed(p)
    BY <1>6
  <2>2. p = q
    BY <1>1, <2>1, ClaimMoves DEF Runners
  <2>3. runner[q].stage = "claim" /\ now' = now
    BY <2>1, <2>2 DEF ClaimMissed
  <2> DEFINE s == runner[q].slot
  <2>4. s \in Slots
    BY <1>2, <2>3 DEF Typing, Located
  <2>5. CASE RunnerRests(q)
    BY <1>2, <2>3, <2>5, RestMoves
  <2>6. CASE ~RunnerRests(q)
    <3>1. /\ runner' = [runner EXCEPT ![q].stage = "run", ![q].gen = row[s].gen + 1]
          /\ row' = [row EXCEPT ![s] = ClaimedRow(@, TRUE)]
      BY <2>1, <2>2, <2>6 DEF ClaimMissed
    <3>2. runner'[q].stage = "run" /\ runner'[q].slot = s
      BY <1>2, <3>1 DEF Runner
    <3>3. row'[s].state = "running"
      BY <1>2, <2>4, <3>1 DEF ClaimedRow
    <3> QED BY <2>3, <3>2, <3>3
  <2> QED BY <2>5, <2>6
<1>7. CASE \E r \in Runners : FinishRun(r)
  <2>1. PICK r \in Runners : FinishRun(r)
    BY <1>7
  <2>2. r = q
    BY <1>1, <2>1, FinishMoves
  <2> QED BY <2>1, <2>2, FinishMoves
<1> QED BY <1>4, <1>5, <1>6, <1>7

(* The window of a slot that is armed or sent has opened.                  *)
LEMMA OpenedStep ==
    ASSUME Typing, InTime, Next, MaxFaults = 0
    PROVE  Opened'
<1>1. /\ now \in Nat /\ GraceSec \in Nat /\ Slots \subseteq Nat
      /\ \A s \in Slots : s \in Nat
      /\ queue \subseteq Message /\ runner \in [Runners -> Runner]
      /\ \A q \in Consumers : q \in Runners
  BY LaneNumbers DEF Typing, TypeOK, Runners
<1>2. now' \in Nat /\ now <= now'
  <2>1. now' = now \/ now' = now + 1
    BY OnlyTicks DEF Tick
  <2> QED BY <1>1, <2>1
<1>3. \A s \in Slots : s + GraceSec <= now => s + GraceSec <= now'
  BY <1>1, <1>2
<1>4. \A m \in queue : m.slot \in Slots /\ m.slot + GraceSec <= now
  BY <1>1 DEF InTime, Opened, Message
<1>5. marker # NoMarker => marker.slot \in Slots /\ marker.slot + GraceSec <= now
  BY DEF InTime, Opened, Typing, TypeOK, Message
<1>6. \A h \in Hosts : host[h].stage # "idle" =>
         host[h].slot \in Slots /\ host[h].slot + GraceSec <= now
  <2> SUFFICES ASSUME NEW h \in Hosts, host[h].stage # "idle"
               PROVE  host[h].slot \in Slots /\ host[h].slot + GraceSec <= now
    OBVIOUS
  <2>1. host[h].slot \in Slots /\ host[h].at \in Nat /\ host[h].at <= now
    BY DEF Typing, TypeOK, Located, Host
  <2>2. host[h].at >= host[h].slot + GraceSec
    BY DEF InTime, Looks, Look, IsCandidate, WithinWindow
  <2>3. \A s \in Nat : host[h].at >= s + GraceSec => s + GraceSec <= now
    BY <1>1, <2>1
  <2> QED BY <1>1, <2>1, <2>2, <2>3
<1>7. \A m \in queue' : m \in queue \/ \E h \in Hosts : host[h].stage # "idle" /\ m = Hint(h)
  <2>1. ~Fault
    BY NothingFails DEF Typing
  <2>2. ASSUME NEW h \in Hosts, HostStep(h)
        PROVE  queue' = queue \/ (host[h].stage # "idle" /\ queue' = queue \cup {Hint(h)})
    BY <2>2 DEF HostStep, StartPass, ProbeDueSlot, SweepClaim, SweepClose, Arm, ReadBack, Send
  <2>3. CASE \E h \in Hosts : HostStep(h)
    BY <2>2, <2>3
  <2>4. CASE ~\E h \in Hosts : HostStep(h)
    <3>1. queue' \subseteq queue
      BY <2>1, <2>4 DEF Next, Deliver, ClaimMissed, Consume, Beat, FinishRun, PollSweep, TakeOther, OtherEnds, Tick
    <3> QED BY <3>1
  <2> QED BY <2>3, <2>4
<1>8. \A m \in queue' : m.slot + GraceSec <= now'
  <2> SUFFICES ASSUME NEW m \in queue'
               PROVE  m.slot \in Slots /\ m.slot + GraceSec <= now
    BY <1>3
  <2>1. CASE m \in queue
    BY <1>4, <2>1
  <2>2. CASE \E h \in Hosts : host[h].stage # "idle" /\ m = Hint(h)
    <3>1. PICK h \in Hosts : host[h].stage # "idle" /\ m = Hint(h)
      BY <2>2
    <3>2. m.slot = host[h].slot
      BY <3>1 DEF Hint
    <3> QED BY <1>6, <3>1, <3>2
  <2> QED BY <1>7, <2>1, <2>2
<1>9. marker' # NoMarker => marker'.slot + GraceSec <= now'
  <2>1. CASE marker' = marker
    BY <1>3, <1>5, <2>1
  <2>2. CASE marker' # marker
    <3>1. PICK h \in Hosts, answered \in BOOLEAN : Arm(h, answered)
      BY <2>2, StepKinds, OthersLeavePasses, StartMoves, ProbeMoves, SweepClaimMoves, SweepCloseMoves,
         ReadBackMoves, SendMoves, FailMoves DEF PassStep
    <3>2. marker' = Hint(h) /\ host[h].stage = "arm"
      BY <2>2, <3>1, ArmMoves
    <3>3. marker'.slot = host[h].slot
      BY <3>2 DEF Hint
    <3> QED BY <1>3, <1>6, <3>2, <3>3
  <2> QED BY <2>1, <2>2
<1>10. \A q \in Consumers : runner'[q].stage # "idle" => runner'[q].slot + GraceSec <= now'
  <2> SUFFICES ASSUME NEW q \in Consumers, runner'[q].stage # "idle"
               PROVE  runner'[q].slot + GraceSec <= now'
    OBVIOUS
  <2>1. PICK s \in Slots : runner'[q].slot = s /\ s + GraceSec <= now
    <3>1. runner[q].stage # "idle" => runner[q].slot \in Slots /\ runner[q].slot + GraceSec <= now
      BY <1>1 DEF InTime, Opened, Typing, Located
    <3>2. CASE runner'[q] = runner[q]
      BY <3>1, <3>2
    <3>3. CASE runner'[q] # runner[q]
      <4>1. CASE \E m \in queue : runner'[q] = [stage |-> "claim", slot |-> m.slot, gen |-> 0, at |-> now]
        BY <1>4, <4>1
      <4>2. CASE runner[q].stage = "claim" /\ runner'[q].slot = runner[q].slot
        BY <3>1, <4>2
      <4> QED BY <3>3, <4>1, <4>2, ConsumerSteps
    <3> QED BY <3>2, <3>3
  <2> QED BY <1>3, <2>1
<1> QED BY <1>8, <1>9, <1>10 DEF Opened

(* A consumer claims in the second in which it took its hint.              *)
LEMMA PromptStep ==
    ASSUME Typing, InTime, Next, MaxFaults = 0, Punctual
    PROVE  Prompt'
<1> SUFFICES ASSUME NEW q \in Consumers
             PROVE  /\ runner'[q].stage = "claim" =>
                          runner'[q].at = now' /\ WithinWindow(runner'[q].slot, now')
                    /\ runner'[q].stage = "run" => row'[runner'[q].slot].state # "absent"
  BY DEF Prompt, There, WithinWindow
<1>1. /\ runner[q].stage = "claim" => runner[q].at = now /\ WithinWindow(runner[q].slot, now)
      /\ runner[q].stage = "run" => row[runner[q].slot].state # "absent"
  BY DEF InTime, Prompt, There
<1>2. CASE runner'[q] = runner[q]
  <2>1. runner[q].stage = "run" => row'[runner[q].slot].state # "absent"
    <3>1. q \in Runners
      BY DEF Runners
    <3>2. runner[q].stage = "run" => runner[q].slot \in Slots
      BY <3>1 DEF Typing, Located
    <3> QED BY <1>1, <3>2, RowsStay DEF There
  <2>2. now' = now \/ runner[q].stage # "claim"
    BY OnlyTicks DEF Tick, OnTime
  <2> QED BY <1>1, <1>2, <2>1, <2>2 DEF WithinWindow
<1>3. CASE runner'[q] # runner[q]
  <2>1. now' = now
    BY <1>3, ConsumerSteps
  <2>2. CASE \E m \in queue :
               /\ WithinWindow(m.slot, now)
               /\ runner'[q] = [stage |-> "claim", slot |-> m.slot, gen |-> 0, at |-> now]
    <3>1. PICK m \in queue :
             /\ WithinWindow(m.slot, now)
             /\ runner'[q] = [stage |-> "claim", slot |-> m.slot, gen |-> 0, at |-> now]
      BY <2>2
    <3>2. /\ runner'[q].stage = "claim" /\ runner'[q].slot = m.slot /\ runner'[q].at = now
      BY <3>1
    <3> QED BY <2>1, <3>1, <3>2 DEF WithinWindow
  <2>3. CASE /\ runner'[q].stage = "run" /\ runner'[q].slot = runner[q].slot
             /\ row'[runner[q].slot].state # "absent"
    BY <2>3
  <2>4. CASE runner'[q].stage = "idle"
    BY <2>4
  <2> QED BY <1>3, <2>2, <2>3, <2>4, ConsumerSteps
<1> QED BY <1>2, <1>3

(* The hypotheses under which the lane is on time.                         *)
Attended ==
    /\ Punctual /\ MaxFaults = 0
    /\ Hosts # {} /\ Consumers # {}
    /\ GraceSec + NextSlotMarginSec > 0
    /\ Reserve <= GraceSec

(* A deadline is never past the lane's next slot.                          *)
LEMMA DeadlinesEnd ==
    ASSUME NEW u \in Nat, NEW t \in Nat
    PROVE  Deadline(u, t) \in Nat /\ Deadline(u, t) <= u + Interval
<1>1. Interval \in Nat /\ LaneTimeout \in Nat
  BY TimeAssumption
<1> QED BY <1>1 DEF Deadline, AtMost

(* When the clock moves on, within the window of a slot and a host's       *)
(* period after that opened, some host has looked at the slot, so it is    *)
(* armed, no later slot is, and its hint is in the queue: every consumer   *)
(* is at work.  None is at work on this slot, which would have a row, nor  *)
(* on the one before, whose work is over when this window opens: they are  *)
(* at work on messages of others.                                          *)
LEMMA WindowIsUsed ==
    ASSUME Typing, InTime, OnTime, Attended, NEW s \in Slots,
           now + 1 >= s + GraceSec + HostPeriod, now <= s + Interval - NextSlotMarginSec
    PROVE  There(s) \/ Waiting(s)
<1> SUFFICES ASSUME ~There(s)
             PROVE  Waiting(s)
  OBVIOUS
<1>1. /\ now \in Nat /\ s \in Nat /\ s # 0 /\ Interval \in Nat \ {0} /\ GraceSec \in Nat
      /\ NextSlotMarginSec \in Nat /\ NextSlotMarginSec <= Interval
      /\ HostPeriod \in Nat \ {0} /\ LaneTimeout \in Nat /\ Reserve \in Nat
      /\ \A u \in Slots : u \in Nat
  BY LaneNumbers, TimeAssumption DEF Typing, TypeOK
<1>2. GraceSec + NextSlotMarginSec > 0 /\ Reserve <= GraceSec
  BY DEF Attended
<1>3. PICK h \in Hosts : host[h].stage = "idle" /\ now < host[h].at + HostPeriod
  BY DEF Attended, OnTime
<1> DEFINE t == host[h].at
<1>4. t \in Nat /\ t <= now
  BY DEF Typing, TypeOK, Located, Host
<1> HIDE DEF t
<1>5. s + GraceSec <= t /\ s + GraceSec <= now
  BY <1>1, <1>3, <1>4 DEF t
<1>6. t - GraceSec \in Nat /\ s <= t - GraceSec /\ t - GraceSec < s + Interval
  BY <1>1, <1>2, <1>4, <1>5
<1>7. IsCandidate(s, t)
  <2>1. SlotOf(t - GraceSec) = s
    BY <1>6, SlotOfInstant
  <2>2. WithinWindow(s, t)
    BY <1>1, <1>4, <1>5 DEF WithinWindow
  <2> QED BY <2>1, <2>2 DEF IsCandidate
<1>8. marker.slot >= s
  BY <1>3, <1>7 DEF InTime, Looks, Look, t
<1>9. marker.slot \in Slots /\ marker.slot + GraceSec <= now
  <2>1. marker # NoMarker
    BY <1>1, <1>8 DEF NoMarker
  <2>2. marker \in Message
    BY <2>1 DEF Typing, TypeOK
  <2>3. marker.slot \in Slots
    BY <2>2 DEF Message
  <2> QED BY <2>1, <2>3 DEF InTime, Opened
<1>10. \A u \in Slots : u + GraceSec <= now => ~(s < u)
  <2> SUFFICES ASSUME NEW u \in Slots, u + GraceSec <= now, s < u
               PROVE  FALSE
    OBVIOUS
  <2>1. s + Interval <= u
    BY SlotsApart
  <2> QED BY <1>1, <1>2, <2>1
<1>11. marker.slot = s
  <2>1. PICK u \in Slots : u = marker.slot
    BY <1>9
  <2>2. u \in Nat /\ s \in Nat /\ u >= s
    BY <1>1, <1>8, <2>1
  <2>3. ~(s < u)
    BY <1>9, <1>10, <2>1
  <2>4. u = s
    BY <2>2, <2>3
  <2> QED BY <2>1, <2>4
<1>12. Underway(s)
  BY <1>9, <1>11 DEF InTime, Pursued, Underway, Ended, There
<1>13. \E m \in queue : m.slot = s
  <2>1. ~Ended(s)
    BY <1>1 DEF Ended
  <2> QED BY <1>12, <2>1 DEF Underway, OnTime
<1>14. PICK q \in Consumers : TRUE
  BY DEF Attended
<1>15. CASE q \in busy
  BY <1>13, <1>15 DEF Waiting
<1>16. CASE q \notin busy
  <2>1. runner[q].stage = "run"
    <3>1. runner[q].stage \in {"idle", "claim", "run"}
      BY DEF Typing, TypeOK, Runner, Runners
    <3> QED BY <1>13, <1>16, <3>1 DEF OnTime, Free
  <2>2. PICK u \in Slots : u = runner[q].slot
    BY <2>1 DEF Typing, Located, Runners
  <2>3. There(u) /\ u + GraceSec <= now
    BY <2>1, <2>2 DEF InTime, Prompt, Opened
  <2>4. now < u + Interval + Reserve
    <3>1. runner[q].at \in Nat
      BY DEF Typing, TypeOK, Runner, Runners
    <3>2. now < Deadline(u, runner[q].at) + Reserve
      BY <2>1, <2>2 DEF OnTime
    <3>3. PICK d \in Nat : d = Deadline(u, runner[q].at) /\ d <= u + Interval
      <4>1. u \in Nat
        BY <1>1
      <4> QED BY <3>1, <4>1, DeadlinesEnd
    <3>4. now < d + Reserve
      BY <3>2, <3>3
    <3> QED BY <1>1, <3>3, <3>4
  <2>5. ~(u < s)
    <3> SUFFICES ASSUME u < s
                 PROVE  FALSE
      OBVIOUS
    <3>1. u + Interval <= s
      BY SlotsApart
    <3> QED BY <1>1, <1>2, <1>5, <2>4, <3>1
  <2>6. u = s
    BY <1>1, <1>10, <2>3, <2>5
  <2> QED BY <2>3, <2>6
<1> QED BY <1>15, <1>16

(* So every second of the window but a host's period is waited for, and    *)
(* nothing that was waited for is forgotten.                               *)
LEMMA WaitsStep ==
    ASSUME Typing, InTime, Next, Attended
    PROVE  /\ Waits'
           /\ \A s \in Slots : waited'[s] >= waited[s]
<1>1. /\ now \in Nat /\ Interval \in Nat /\ GraceSec \in Nat /\ NextSlotMarginSec \in Nat
      /\ HostPeriod \in Nat \ {0} /\ \A s \in Slots : s \in Nat /\ waited[s] \in Nat
  BY LaneNumbers, TimeAssumption DEF Typing, TypeOK
<1>2. \A s \in Slots : waited'[s] \in Nat /\ waited'[s] >= waited[s]
  BY WaitsAreTyped DEF Typing
<1>3. ASSUME NEW s \in Slots, now' <= s + Interval - NextSlotMarginSec + 1
      PROVE  row'[s].state # "absent" \/ now' < s + GraceSec + HostPeriod + waited'[s]
  <2>1. There(s) => row'[s].state # "absent"
    BY RowsStay DEF There
  <2>2. now <= s + Interval - NextSlotMarginSec + 1 =>
           There(s) \/ now < s + GraceSec + HostPeriod + waited[s]
    BY DEF InTime, Waits
  <2>3. CASE now' = now
    <3>1. There(s) \/ now < s + GraceSec + HostPeriod + waited[s]
      BY <1>3, <2>2, <2>3
    <3> QED BY <1>1, <1>2, <2>1, <2>3, <3>1
  <2>4. CASE Tick
    <3>1. /\ now' = now + 1 /\ OnTime
          /\ waited' = [u \in Slots |-> IF Waiting(u) THEN waited[u] + 1 ELSE waited[u]]
      BY <2>4 DEF Tick, Attended
    <3>2. now <= s + Interval - NextSlotMarginSec
      BY <1>1, <1>3, <3>1
    <3>3. There(s) \/ now < s + GraceSec + HostPeriod + waited[s]
      BY <1>1, <2>2, <3>2
    <3>4. CASE now + 1 >= s + GraceSec + HostPeriod /\ Waiting(s)
      <4>1. waited'[s] = waited[s] + 1
        BY <3>1, <3>4
      <4> QED BY <1>1, <2>1, <3>1, <3>3, <4>1
    <3>5. CASE now + 1 >= s + GraceSec + HostPeriod /\ ~Waiting(s)
      BY <2>1, <3>1, <3>2, <3>5, WindowIsUsed
    <3>6. CASE ~(now + 1 >= s + GraceSec + HostPeriod)
      BY <1>1, <1>2, <3>1, <3>6
    <3> QED BY <3>4, <3>5, <3>6
  <2> QED BY <2>3, <2>4, OnlyTicks
<1>4. Waits'
  BY <1>3 DEF Waits, There, GraceSec, NextSlotMarginSec, AtMost
<1> QED BY <1>2, <1>4

(* So the window does not close on a slot without row whose hint waited    *)
(* for less.                                                               *)
LEMMA CaughtUpStep ==
    ASSUME Typing, InTime, Next, Attended
    PROVE  MissedSlotIsCaughtUp'
<1> SUFFICES ASSUME NEW s \in Slots, now' > s + Interval - NextSlotMarginSec
             PROVE  \/ row'[s].state # "absent"
                    \/ waited'[s] + HostPeriod > Interval - GraceSec - NextSlotMarginSec + 1
  BY DEF MissedSlotIsCaughtUp, GraceSec, NextSlotMarginSec, AtMost
<1>1. There(s) => row'[s].state # "absent"
  BY RowsStay DEF There
<1>2. /\ now \in Nat /\ s \in Nat /\ Interval \in Nat /\ GraceSec \in Nat
      /\ NextSlotMarginSec \in Nat /\ HostPeriod \in Nat /\ waited[s] \in Nat
  BY LaneNumbers, TimeAssumption DEF Typing, TypeOK
<1>3. waited'[s] \in Nat /\ waited'[s] >= waited[s]
  BY WaitsAreTyped DEF Typing
<1>4. CASE now > s + Interval - NextSlotMarginSec
  <2>1. \/ There(s)
        \/ waited[s] + HostPeriod > Interval - GraceSec - NextSlotMarginSec + 1
    BY <1>4 DEF InTime, MissedSlotIsCaughtUp, There
  <2> QED BY <1>1, <1>2, <1>3, <2>1
<1>5. CASE ~(now > s + Interval - NextSlotMarginSec)
  <2>1. now' = now + 1
    BY <1>5, OnlyTicks DEF Tick
  <2>2. now' = s + Interval - NextSlotMarginSec + 1
    BY <1>2, <1>5, <2>1
  <2>3. Waits'
    BY WaitsStep
  <2>4. row'[s].state # "absent" \/ now' < s + GraceSec + HostPeriod + waited'[s]
    <3>1. now' <= s + Interval - NextSlotMarginSec + 1
      BY <1>2, <2>2
    <3> QED BY <2>3, <3>1 DEF Waits, There, GraceSec, NextSlotMarginSec, AtMost
  <2> QED BY <1>2, <1>3, <2>2, <2>4
<1> QED BY <1>4, <1>5

(* scheduled-slot-catch-up.ts, probeDueSlots to runSlotCatchUpHint: with   *)
(* hosts, free consumers and deadlines on time and nothing failing, a slot *)
(* has a row when its window closes, or its hint has waited behind other   *)
(* messages of the shared queue for longer than the window leaves after a  *)
(* host's period.  Nothing is assumed of those messages, nor of the        *)
(* period; one window must end before the next one begins, and the error   *)
(* reserve of one slot's work before the window of the next.               *)
THEOREM MissedSlotsAreCaughtUp ==
    ASSUME Punctual, MaxFaults = 0, Hosts # {}, Consumers # {},
           GraceSec + NextSlotMarginSec > 0, Reserve <= GraceSec
    PROVE  Spec => []MissedSlotIsCaughtUp
<1>1. Attended
  BY DEF Attended
<1>2. Init => InTime
  <2> SUFFICES ASSUME Init
               PROVE  InTime
    OBVIOUS
  <2>1. /\ Interval \in Nat \ {0} /\ GraceSec \in Nat /\ NextSlotMarginSec \in Nat
        /\ NextSlotMarginSec <= Interval
        /\ \A s \in Slots : s \in Nat /\ s # 0 /\ s % Interval = 0
    BY LaneNumbers, TimeAssumption
  <2>2. Looks
    <3>1. \A s \in Slots : ~IsCandidate(s, 0)
      BY <2>1 DEF IsCandidate, WithinWindow
    <3>2. \A h \in Hosts : host[h].stage = "idle" /\ host[h].at = 0
      BY DEF Init, AtRest
    <3> QED BY <3>1, <3>2 DEF Looks, Look
  <2>3. Pursued /\ Opened /\ Prompt
    <3>1. marker = NoMarker /\ queue = {} /\ marker.slot \notin Slots
      BY <2>1 DEF Init, NoMarker
    <3>2. \A q \in Consumers : runner[q].stage = "idle"
      BY DEF Init, IdleRunner, Runners
    <3> QED BY <3>1, <3>2 DEF Pursued, Opened, Prompt
  <2>5. Waits
    <3> SUFFICES ASSUME NEW s \in Slots
                 PROVE  now < s + GraceSec + HostPeriod + waited[s]
      BY DEF Waits
    <3>1. now = Interval /\ waited[s] = 0 /\ HostPeriod \in Nat \ {0}
      BY TimeAssumption DEF Init
    <3>2. ~(s < Interval)
      <4> SUFFICES ASSUME s < Interval
                   PROVE  FALSE
        OBVIOUS
      <4>1. s % Interval = s
        BY <2>1
      <4> QED BY <2>1, <4>1
    <3> QED BY <2>1, <3>1, <3>2
  <2>4. MissedSlotIsCaughtUp
    <3> SUFFICES ASSUME NEW s \in Slots, now > s + Interval - NextSlotMarginSec
                 PROVE  FALSE
      BY DEF MissedSlotIsCaughtUp
    <3>1. s < NextSlotMarginSec /\ s < Interval
      BY <2>1 DEF Init
    <3>2. s % Interval = s
      BY <2>1, <3>1
    <3> QED BY <2>1, <3>2
  <2> QED BY <2>2, <2>3, <2>4, <2>5 DEF InTime
<1>3. Typing /\ Passes /\ InTime /\ [Next]_vars => InTime'
  <2> SUFFICES ASSUME Typing, Passes, InTime, [Next]_vars
               PROVE  InTime'
    OBVIOUS
  <2>1. CASE Next
    <3>1. Looks'
      BY <2>1, LooksStep DEF InTime
    <3>2. Pursued' /\ Opened' /\ Prompt'
      BY <2>1, PursuedStep, OpenedStep, PromptStep
    <3>3. Waits' /\ MissedSlotIsCaughtUp'
      BY <1>1, <2>1, WaitsStep, CaughtUpStep
    <3> QED BY <3>1, <3>2, <3>3 DEF InTime
  <2>2. CASE UNCHANGED vars
    BY <2>2 DEF vars, others, InTime, Looks, Look, Pursued, Underway, Ended, Opened, Prompt, There,
       Waits, MissedSlotIsCaughtUp, IsCandidate, WithinWindow
  <2> QED BY <2>1, <2>2
<1>4. InTime => MissedSlotIsCaughtUp
  BY DEF InTime
<1> QED BY <1>2, <1>3, <1>4, Typed, PassesKnow, PTL DEF Spec
=============================================================================
