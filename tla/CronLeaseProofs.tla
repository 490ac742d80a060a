-------------------------- MODULE CronLeaseProofs --------------------------
(***************************************************************************)
(* Proofs about runCronWithLease for any number of runs and any TTL,       *)
(* heartbeat, failure bound and latency.                                   *)
(*                                                                         *)
(* OneWorker is an argument about time: a run that works without having    *)
(* been told to stop renewed its lease, or gave up fewer renewals than it  *)
(* tolerates, each at most one period and two latencies after the other;   *)
(* so its lease is at most Patience old, and nobody may take it.  Timing   *)
(* says this of every phase of a run; the rest of the invariant is about   *)
(* the run's own flags.                                                    *)
(***************************************************************************)
EXTENDS CronLease, TLAPS

Step == Heartbeat + Latency

(* How long n renewals may take; opaque to the provers but for the lemmas. *)
Stretch(n) == n * Step

(* One renewal more takes one step more.                                   *)
LEMMA StretchGrows ==
    \A n \in Nat : Stretch(n) \in Nat /\ Stretch(n + 1) = Stretch(n) + Step
  BY TimeAssumption, SMT DEF Stretch, Step

(* Fewer renewals do not take longer, and the TTL of a patient lease       *)
(* outlasts the tolerated ones.                                            *)
LEMMA StretchBound ==
    ASSUME NEW n \in Nat, n <= MaxRenewFailures
    PROVE  Stretch(n) <= Stretch(MaxRenewFailures)
<1>1. PICK k \in Nat : MaxRenewFailures = n + k
  BY TimeAssumption, SMT
<1>2. Stretch(MaxRenewFailures) = Stretch(n) + k * Step
  BY <1>1, TimeAssumption, SMT DEF Stretch, Step
<1>3. k * Step >= 0
  BY TimeAssumption, SMT DEF Step
<1>4. Stretch(n) \in Nat /\ k * Step \in Int
  BY StretchGrows, TimeAssumption, SMT DEF Step
<1> QED BY <1>2, <1>3, <1>4, SMT

(* Patience, in terms of Stretch.                                          *)
LEMMA PatienceIsStretch == Patience = Stretch(MaxRenewFailures) + 2 * Latency
  BY TimeAssumption, SMT DEF Patience, Stretch, Step

-----------------------------------------------------------------------------
Early == {"idle", "try", "acquire", "look", "sleep", "observe"}

InFlight(r) == pc[r] \in {"acquire", "look", "observe"} \/ renewing[r]

(* The flags of a run.                                                     *)
Shape(r) ==
    /\ pc[r] \in Early => failures[r] = 0 /\ ~aborted[r] /\ ~working[r] /\ ~renewing[r]
    /\ renewing[r] => pc[r] \in {"body", "settle"}
    /\ working[r] => pc[r] = "body" \/ aborted[r]
    /\ pc[r] = "settle" /\ ~keep[r] => ~working[r]
    /\ pc[r] = "look" => lease.owner # r

(* A statement in flight is answered in time, and the lease of a run that  *)
(* may still work is its own and not older than its renewals explain.      *)
Timing(r) ==
    /\ InFlight(r) => called[r] <= now /\ now <= called[r] + Latency
    /\ pc[r] = "observe" => lease.owner = r /\ called[r] <= lease.beat
    /\ Renewable(r) =>
         /\ lease.owner = r
         /\ failures[r] < MaxRenewFailures
         /\ now <= nextBeat[r] + Latency
         /\ ~renewing[r] => nextBeat[r] <= lease.beat + Stretch(failures[r] + 1)
         /\ renewing[r] => /\ called[r] <= lease.beat + Stretch(failures[r] + 1) + Latency
                           /\ nextBeat[r] = called[r] + Heartbeat

LeaseInv == lease.owner # None => lease.until = lease.beat + Ttl /\ lease.beat <= now

IInv ==
    /\ TypeOK
    /\ LeaseInv
    /\ \A r \in Runs : Shape(r)
    /\ Patient => \A r \in Runs : Timing(r)

-----------------------------------------------------------------------------
(* The constants of time, one by one.                                      *)
LEMMA Consts ==
    /\ Ttl \in Nat /\ Heartbeat \in Nat /\ Heartbeat > 0 /\ Latency \in Nat
    /\ MaxRenewFailures \in Nat /\ MaxRenewFailures > 0
    /\ ChildSilence \in Nat /\ Poll \in Nat /\ WaitBudget \in Nat
  BY TimeAssumption

(* The members of TypeOK, one by one.                                      *)
LEMMA Types ==
    ASSUME TypeOK
    PROVE  /\ now \in Nat /\ lease \in Lease /\ faults \in 0 .. MaxFaults
           /\ pc \in [Runs -> Pc]
           /\ started \in [Runs -> Nat] /\ called \in [Runs -> Nat]
           /\ waitUntil \in [Runs -> Nat] /\ wakeAt \in [Runs -> Nat]
           /\ nextBeat \in [Runs -> Nat]
           /\ failures \in [Runs -> 0 .. MaxRenewFailures]
           /\ captured \in [Runs -> BOOLEAN] /\ renewing \in [Runs -> BOOLEAN]
           /\ aborted \in [Runs -> BOOLEAN] /\ working \in [Runs -> BOOLEAN]
           /\ keep \in [Runs -> BOOLEAN]
  BY DEF TypeOK

(* ... and back, in the next state.                                        *)
LEMMA TypesBack ==
    ASSUME now' \in Nat, lease' \in Lease, faults' \in 0 .. MaxFaults,
           pc' \in [Runs -> Pc],
           started' \in [Runs -> Nat], called' \in [Runs -> Nat],
           waitUntil' \in [Runs -> Nat], wakeAt' \in [Runs -> Nat],
           nextBeat' \in [Runs -> Nat],
           failures' \in [Runs -> 0 .. MaxRenewFailures],
           captured' \in [Runs -> BOOLEAN], renewing' \in [Runs -> BOOLEAN],
           aborted' \in [Runs -> BOOLEAN], working' \in [Runs -> BOOLEAN],
           keep' \in [Runs -> BOOLEAN]
    PROVE  TypeOK'
  BY DEF TypeOK
-----------------------------------------------------------------------------
(* Whatever a run does keeps the types.                                    *)
LEMMA RunKeepsTypes ==
    ASSUME TypeOK, NEW r \in Runs, RunStep(r) \/ FaultStep(r), faults' \in 0 .. MaxFaults
    PROVE  TypeOK'
<1> USE RunAssumption, Consts, Types
<1>1. CASE Start(r)
  BY <1>1, TypesBack, SMTT(30) DEF Start, Goto, Pc, waitVars, renewVars, bodyVars
<1>2. CASE Try(r)
  BY <1>2, TypesBack, SMTT(30) DEF Try, Goto, Pc, waitVars, renewVars, bodyVars
<1>3. CASE Acquire(r, TRUE)
  BY <1>3, TypesBack, SMTT(30) DEF Acquire, HeldBy, Lease, Goto, Pc, waitVars, renewVars, bodyVars
<1>4. CASE Look(r)
  BY <1>4, TypesBack, SMTT(30) DEF Look, Earlier, Lease, Goto, Pc, waitVars, renewVars, bodyVars
<1>5. CASE Wake(r)
  BY <1>5, TypesBack, SMTT(30) DEF Wake, Goto, Pc, waitVars, renewVars, bodyVars
<1>b. now + Heartbeat \in Nat /\ nextBeat \in [Runs -> Nat]
  BY SMT
<1>6. CASE Begin(r)
  <2>1. nextBeat' \in [Runs -> Nat]
    BY <1>6, <1>b DEF Begin
  <2> QED BY <1>6, <2>1, TypesBack, SMTT(30) DEF Begin, Goto, Pc, waitVars, renewVars, bodyVars
<1>7. CASE TimerFires(r)
  <2>1. nextBeat' \in [Runs -> Nat]
    BY <1>7, <1>b DEF TimerFires
  <2>2. called' \in [Runs -> Nat] /\ renewing' \in [Runs -> BOOLEAN]
    BY <1>7, ZenonT(40) DEF TimerFires
  <2>3. UNCHANGED <<now, lease, pc, started, waitUntil, captured, wakeAt, failures, aborted, working, keep>>
    BY <1>7 DEF TimerFires, waitVars, bodyVars
  <2> QED BY <2>1, <2>2, <2>3 DEF TypeOK
<1>8. CASE Renew(r)
  <2>1. \A t \in called[r] .. now : HeldBy(r, t) \in Lease
    BY DEF HeldBy, Lease
  <2>2. lease' \in Lease
    BY <1>8, <2>1 DEF Renew, RenewRow
  <2>3. failures[r] \in 0 .. MaxRenewFailures /\ Earlier(failures[r] + 1, MaxRenewFailures) \in 0 .. MaxRenewFailures
    BY DEF Earlier
  <2>4. failures' \in [Runs -> 0 .. MaxRenewFailures]
    BY <1>8, <2>3 DEF Renew
  <2>5. renewing' \in [Runs -> BOOLEAN] /\ aborted' \in [Runs -> BOOLEAN]
    BY <1>8 DEF Renew
  <2>6. UNCHANGED <<now, pc, started, called, waitUntil, captured, wakeAt, nextBeat, working, keep>>
    BY <1>8 DEF Renew, waitVars
  <2> QED BY <2>2, <2>4, <2>5, <2>6 DEF TypeOK
<1>9. CASE BodySettles(r)
  BY <1>9, TypesBack, SMTT(30) DEF BodySettles, Goto, Pc, waitVars, renewVars, bodyVars
<1>10. CASE Abandon(r)
  BY <1>10, TypesBack, SMTT(30) DEF Abandon, Goto, Pc, waitVars, renewVars, bodyVars
<1>11. CASE Settle(r, TRUE)
  BY <1>11, TypesBack, SMTT(30) DEF Settle, NoLease, Lease, Goto, Pc, waitVars, renewVars, bodyVars
<1>12. CASE ZombieEnds(r)
  BY <1>12, TypesBack, SMTT(30) DEF ZombieEnds, Goto, Pc, waitVars, renewVars, bodyVars
<1>13. CASE PlatformKill(r)
  BY <1>13, TypesBack, SMTT(30) DEF PlatformKill, Killed, Goto, Pc, waitVars, renewVars, bodyVars
<1>14. CASE Acquire(r, FALSE)
  BY <1>14, TypesBack, SMTT(30) DEF Acquire, HeldBy, Lease, Goto, Pc, waitVars, renewVars, bodyVars
<1>15. CASE GiveUp(r)
  BY <1>15, TypesBack, SMTT(30) DEF GiveUp, Goto, Pc, waitVars, renewVars, bodyVars
<1>16. CASE ObserverFails(r)
  BY <1>16, TypesBack, SMTT(30) DEF ObserverFails, Goto, Pc, waitVars, renewVars, bodyVars
<1>17. CASE RenewAgain(r)
  BY <1>17, TypesBack, SMTT(30) DEF RenewAgain, RenewRow, HeldBy, Lease, Goto, Pc, waitVars, renewVars, bodyVars
<1>18. CASE RenewFails(r)
  BY <1>18, TypesBack, SMTT(30) DEF RenewFails, CountFailure, TooMany, Earlier, Goto, Pc, waitVars, renewVars, bodyVars
<1>19. CASE Abort(r)
  BY <1>19, TypesBack, SMTT(30) DEF Abort, Goto, Pc, waitVars, renewVars, bodyVars
<1>20. CASE Settle(r, FALSE)
  BY <1>20, TypesBack, SMTT(30) DEF Settle, NoLease, Lease, Goto, Pc, waitVars, renewVars, bodyVars
<1>21. CASE Crash(r)
  BY <1>21, TypesBack, SMTT(30) DEF Crash, Killed, Goto, Pc, waitVars, renewVars, bodyVars
<1>22. CASE RenewLate(r)
  BY <1>22, TypesBack, SMTT(30) DEF RenewLate, RenewRow, HeldBy, Lease, Goto, Pc, waitVars, renewVars, bodyVars
<1> QED BY <1>1, <1>2, <1>3, <1>4, <1>5, <1>6, <1>7, <1>8, <1>9, <1>10, <1>11, <1>12, <1>13, <1>14, <1>15, <1>16, <1>17, <1>18, <1>19, <1>20, <1>21, <1>22 DEF RunStep, FaultStep

(* Every step keeps the types.                                             *)
LEMMA StepKeepsTypes ==
    ASSUME TypeOK, [Next]_vars
    PROVE  TypeOK'
<1>1. CASE UNCHANGED vars
  BY <1>1 DEF TypeOK, vars, waitVars, renewVars, bodyVars
<1>2. CASE Tick /\ UNCHANGED faults
  <2>1. now' \in Nat
    BY <1>2, Types DEF Tick
  <2> QED BY <1>2, <2>1 DEF Tick, TypeOK, waitVars, renewVars, bodyVars
<1>3. CASE RemoveSilent /\ UNCHANGED faults
  <2>1. lease' \in Lease
    BY <1>3 DEF RemoveSilent, NoLease, Lease
  <2> QED BY <1>3, <2>1 DEF RemoveSilent, TypeOK, waitVars, renewVars, bodyVars
<1>4. ASSUME NEW r \in Runs, RunStep(r), UNCHANGED faults
      PROVE  TypeOK'
  <2>1. faults' \in 0 .. MaxFaults
    BY <1>4, Types
  <2> QED BY <1>4, <2>1, RunKeepsTypes
<1>5. ASSUME NEW r \in Runs, FaultStep(r), faults < MaxFaults, faults' = faults + 1
      PROVE  TypeOK'
  <2>1. faults' \in 0 .. MaxFaults
    BY <1>5, Types, TimeAssumption
  <2> QED BY <1>5, <2>1, RunKeepsTypes
<1> QED BY <1>1, <1>2, <1>3, <1>4, <1>5 DEF Next

-----------------------------------------------------------------------------
(* What a step of r does to the lease: nothing, an upsert over a lease     *)
(* that may be taken, a renewal of its own, or a release.                  *)
LeaseStep(r) ==
    \/ lease' = lease
    \/ pc[r] = "acquire" /\ \E t \in called[r] .. now : Takeable(r, t) /\ lease' = HeldBy(r, t)
    \/ renewing[r] /\ lease.owner = r /\ \E t \in called[r] .. now : lease' = HeldBy(r, t)
    \/ pc[r] = "settle" /\ Releases(r) /\ lease' = NoLease

(* What a step of another run leaves of s.                                 *)
Same(s) ==
    /\ pc'[s] = pc[s] /\ called'[s] = called[s] /\ nextBeat'[s] = nextBeat[s]
    /\ renewing'[s] = renewing[s] /\ failures'[s] = failures[s]
    /\ aborted'[s] = aborted[s] /\ working'[s] = working[s] /\ keep'[s] = keep[s]

(* A run takes no time and touches no other run's state.                   *)
LEMMA Footprint ==
    ASSUME TypeOK, NEW r \in Runs, RunStep(r) \/ FaultStep(r)
    PROVE  now' = now /\ LeaseStep(r) /\ \A s \in Runs \ {r} : Same(s)
<1> USE Types DEF waitVars, renewVars, bodyVars, Goto, LeaseStep, Same
<1>1. CASE Start(r)
  BY <1>1 DEF Start
<1>2. CASE Try(r)
  BY <1>2 DEF Try
<1>3. CASE Acquire(r, TRUE)
  BY <1>3 DEF Acquire
<1>4. CASE Look(r)
  BY <1>4 DEF Look
<1>5. CASE Wake(r)
  BY <1>5 DEF Wake
<1>6. CASE Begin(r)
  BY <1>6 DEF Begin
<1>7. CASE TimerFires(r)
  BY <1>7 DEF TimerFires
<1>8. CASE Renew(r)
  BY <1>8 DEF Renew, RenewRow
<1>9. CASE BodySettles(r)
  BY <1>9 DEF BodySettles
<1>10. CASE Abandon(r)
  BY <1>10 DEF Abandon
<1>11. CASE Settle(r, TRUE)
  BY <1>11 DEF Settle
<1>12. CASE ZombieEnds(r)
  BY <1>12 DEF ZombieEnds
<1>13. CASE PlatformKill(r)
  BY <1>13 DEF PlatformKill, Killed
<1>14. CASE Acquire(r, FALSE)
  BY <1>14 DEF Acquire
<1>15. CASE GiveUp(r)
  BY <1>15 DEF GiveUp
<1>16. CASE ObserverFails(r)
  BY <1>16 DEF ObserverFails
<1>17. CASE RenewAgain(r)
  BY <1>17 DEF RenewAgain, RenewRow
<1>18. CASE RenewFails(r)
  BY <1>18 DEF RenewFails, CountFailure
<1>19. CASE Abort(r)
  BY <1>19 DEF Abort
<1>20. CASE Settle(r, FALSE)
  BY <1>20 DEF Settle
<1>21. CASE Crash(r)
  BY <1>21 DEF Crash, Killed
<1>22. CASE RenewLate(r)
  BY <1>22 DEF RenewLate, RenewRow
<1> QED BY <1>1, <1>2, <1>3, <1>4, <1>5, <1>6, <1>7, <1>8, <1>9, <1>10, <1>11, <1>12, <1>13, <1>14, <1>15, <1>16, <1>17, <1>18, <1>19, <1>20, <1>21, <1>22 DEF RunStep, FaultStep

-----------------------------------------------------------------------------
(* A lease is dated when it was last written.                              *)
LEMMA RunKeepsLeaseInv ==
    ASSUME TypeOK, LeaseInv, NEW r \in Runs, now' = now, LeaseStep(r)
    PROVE  LeaseInv'
<1> USE Types, Consts DEF LeaseInv
<1>1. \A t \in called[r] .. now : HeldBy(r, t).until = HeldBy(r, t).beat + Ttl /\ HeldBy(r, t).beat <= now
  BY DEF HeldBy
<1>2. NoLease.owner = None
  BY DEF NoLease
<1> QED BY <1>1, <1>2 DEF LeaseStep

(* The lease of a run that may still work is younger than Patience.        *)
LEMMA Fresh ==
    ASSUME TypeOK, LeaseInv, Patient, NEW s \in Runs, Timing(s),
           pc[s] = "observe" \/ Renewable(s)
    PROVE  /\ lease.owner = s /\ now <= lease.beat + Patience
           /\ \A t \in Nat : t <= now => ~(lease.until < t)
           /\ ~(lease.beat + ChildSilence <= now)
<1> USE Types, Consts
<1>1. Patience \in Nat /\ Stretch(MaxRenewFailures) \in Nat
      /\ Patience = Stretch(MaxRenewFailures) + 2 * Latency
  BY StretchGrows, PatienceIsStretch
<1>2. lease.owner = s /\ lease.owner # None
  BY RunAssumption DEF Timing
<1>3. now \in Nat /\ lease.beat \in Nat /\ lease.until = lease.beat + Ttl
  BY <1>2 DEF LeaseInv, Lease
<1>4. now <= lease.beat + Patience
  <2>1. CASE pc[s] = "observe"
    <3>1. now <= called[s] + Latency /\ called[s] <= lease.beat /\ called[s] \in Nat
      BY <2>1 DEF Timing, InFlight
    <3> QED BY <3>1, <1>1, <1>3
  <2>2. CASE Renewable(s)
    <3>1. failures[s] \in Nat /\ failures[s] + 1 \in Nat /\ failures[s] + 1 <= MaxRenewFailures
      BY <2>2 DEF Timing
    <3>2. Stretch(failures[s] + 1) \in Nat /\ Stretch(failures[s] + 1) <= Stretch(MaxRenewFailures)
      BY <3>1, StretchBound, StretchGrows
    <3>3. nextBeat[s] \in Nat /\ called[s] \in Nat
      OBVIOUS
    <3>4. CASE renewing[s]
      <4>1. now <= called[s] + Latency /\ called[s] <= lease.beat + Stretch(failures[s] + 1) + Latency
        BY <2>2, <3>4 DEF Timing, InFlight
      <4> QED BY <4>1, <3>2, <3>3, <1>1, <1>3
    <3>5. CASE ~renewing[s]
      <4>1. now <= nextBeat[s] + Latency /\ nextBeat[s] <= lease.beat + Stretch(failures[s] + 1)
        BY <2>2, <3>5 DEF Timing
      <4> QED BY <4>1, <3>2, <3>3, <1>1, <1>3
    <3> QED BY <3>4, <3>5
  <2> QED BY <2>1, <2>2
<1> QED BY <1>1, <1>2, <1>3, <1>4 DEF Patient

(* ... so no other run disturbs it.                                        *)
LEMMA BystanderTiming ==
    ASSUME TypeOK, LeaseInv, Patient, NEW s \in Runs, Timing(s),
           NEW r \in Runs, s # r, now' = now, LeaseStep(r), Same(s)
    PROVE  Timing(s)'
<1> USE Types, Consts
<1>1. CASE pc[s] = "observe" \/ Renewable(s)
  <2>1. lease.owner = s /\ (\A t \in Nat : t <= now => ~(lease.until < t))
    BY <1>1, Fresh
  <2>2. \A t \in called[r] .. now : ~Takeable(r, t)
    BY <2>1, RunAssumption DEF Takeable
  <2>3. lease' = lease
    BY <2>1, <2>2 DEF LeaseStep, Releases
  <2> QED BY <2>3 DEF Same, Timing, InFlight, Renewable
<1>2. CASE ~(pc[s] = "observe" \/ Renewable(s))
  BY <1>2 DEF Same, Timing, InFlight, Renewable
<1> QED BY <1>1, <1>2

(* Nor does another run's step disturb the flags.                          *)
LEMMA BystanderShape ==
    ASSUME TypeOK, NEW s \in Runs, Shape(s),
           NEW r \in Runs, s # r, LeaseStep(r), Same(s)
    PROVE  Shape(s)'
<1>1. pc[s] = "look" => lease'.owner # s
  BY RunAssumption DEF Shape, LeaseStep, HeldBy, NoLease
<1> QED BY <1>1 DEF Same, Shape

-----------------------------------------------------------------------------
(* The flags of the run that moves.                                        *)
LEMMA ActorShape ==
    ASSUME TypeOK, NEW r \in Runs, Shape(r), RunStep(r) \/ FaultStep(r)
    PROVE  Shape(r)'
<1> USE Types DEF waitVars, renewVars, bodyVars, Goto, Shape, Early
<1>1. CASE Start(r)
  BY <1>1 DEF Start
<1>2. CASE Try(r)
  BY <1>2 DEF Try
<1>3. CASE Acquire(r, TRUE)
  BY <1>3 DEF Acquire, Takeable
<1>4. CASE Look(r)
  BY <1>4 DEF Look
<1>5. CASE Wake(r)
  BY <1>5 DEF Wake
<1>6. CASE Begin(r)
  BY <1>6 DEF Begin
<1>7. CASE TimerFires(r)
  BY <1>7 DEF TimerFires, Renewable
<1>8. CASE Renew(r)
  BY <1>8 DEF Renew, RenewRow
<1>9. CASE BodySettles(r)
  BY <1>9 DEF BodySettles
<1>10. CASE Abandon(r)
  BY <1>10 DEF Abandon
<1>11. CASE Settle(r, TRUE)
  BY <1>11 DEF Settle
<1>12. CASE ZombieEnds(r)
  BY <1>12 DEF ZombieEnds
<1>13. CASE PlatformKill(r)
  BY <1>13 DEF PlatformKill, Killed
<1>14. CASE Acquire(r, FALSE)
  BY <1>14 DEF Acquire
<1>15. CASE GiveUp(r)
  BY <1>15 DEF GiveUp
<1>16. CASE ObserverFails(r)
  BY <1>16 DEF ObserverFails
<1>17. CASE RenewAgain(r)
  BY <1>17 DEF RenewAgain, RenewRow
<1>18. CASE RenewFails(r)
  BY <1>18 DEF RenewFails, CountFailure
<1>19. CASE Abort(r)
  BY <1>19 DEF Abort, Renewable
<1>20. CASE Settle(r, FALSE)
  BY <1>20 DEF Settle
<1>21. CASE Crash(r)
  BY <1>21 DEF Crash, Killed
<1>22. CASE RenewLate(r)
  BY <1>22 DEF RenewLate, RenewRow
<1> QED BY <1>1, <1>2, <1>3, <1>4, <1>5, <1>6, <1>7, <1>8, <1>9, <1>10, <1>11, <1>12, <1>13, <1>14, <1>15, <1>16, <1>17, <1>18, <1>19, <1>20, <1>21, <1>22 DEF RunStep, FaultStep

-----------------------------------------------------------------------------
(* The clock of the run that moves.                                        *)
LEMMA ActorTiming ==
    ASSUME TypeOK, LeaseInv, Patient, NEW r \in Runs, Shape(r), Timing(r),
           RunStep(r) \/ FaultStep(r)
    PROVE  Timing(r)'
<1> USE Types, Consts DEF waitVars, renewVars, bodyVars, Goto, Timing, InFlight, Renewable
<1>s. pc[r] \in Early => failures[r] = 0 /\ ~aborted[r] /\ ~working[r] /\ ~renewing[r]
  BY DEF Shape
<1>t. renewing[r] => pc[r] \in {"body", "settle"}
  BY DEF Shape
<1>n. now \in Nat /\ called[r] \in Nat /\ nextBeat[r] \in Nat /\ failures[r] \in Nat
  OBVIOUS
<1>x. /\ Stretch(1) = Step /\ Step = Heartbeat + Latency
      /\ Stretch(failures[r] + 1) \in Nat /\ failures[r] + 1 \in Nat
      /\ Stretch(failures[r] + 2) = Stretch(failures[r] + 1) + Step
  BY <1>n, StretchGrows, SMT DEF Step, Stretch
<1>1. CASE Start(r)
  BY <1>1, <1>s DEF Start, Early
<1>2. CASE Try(r)
  BY <1>2, <1>s DEF Try, Early
<1>3. ASSUME NEW answered \in BOOLEAN, Acquire(r, answered)
      PROVE  Timing(r)'
  <2>1. \A t \in called[r] .. now : HeldBy(r, t).owner = r /\ called[r] <= HeldBy(r, t).beat
    BY DEF HeldBy
  <2> QED BY <1>3, <1>s, <2>1 DEF Acquire, Early
<1>4. CASE Look(r)
  BY <1>4, <1>s DEF Look, Early
<1>5. CASE Wake(r)
  BY <1>5, <1>s DEF Wake, Early
<1>6. CASE Begin(r)
  <2>1. pc'[r] = "body" /\ nextBeat'[r] = now + Heartbeat /\ ~renewing'[r] /\ failures'[r] = 0
    BY <1>6, <1>s DEF Begin, Early
  <2>2. lease' = lease /\ now' = now /\ called' = called
    BY <1>6 DEF Begin
  <2>3. lease.owner = r /\ now <= called[r] + Latency /\ called[r] <= lease.beat /\ lease.beat \in Nat
    BY <1>6 DEF Begin, Lease
  <2>4. nextBeat'[r] <= lease.beat + Stretch(1)
    BY <2>1, <2>3, <1>x, <1>n
  <2> QED BY <2>1, <2>2, <2>3, <2>4, <1>n
<1>7. CASE ObserverFails(r)
  BY <1>7, <1>s DEF ObserverFails, Early
<1>8. CASE TimerFires(r)
  <2>1. ~renewing[r]
    <3> SUFFICES ASSUME renewing[r] PROVE FALSE
      OBVIOUS
    <3>1. nextBeat[r] = called[r] + Heartbeat /\ now <= called[r] + Latency /\ now >= nextBeat[r]
      BY <1>8 DEF TimerFires
    <3>2. Latency < Heartbeat
      BY DEF Patient
    <3> QED BY <3>1, <3>2, <1>n
  <2>2. /\ renewing'[r] /\ called'[r] = now /\ nextBeat'[r] = now + Heartbeat
        /\ UNCHANGED <<now, lease, pc, failures, aborted>> /\ Renewable(r)
    BY <1>8, <2>1 DEF TimerFires
  <2>3. lease.owner = r /\ lease.beat \in Nat /\ failures[r] < MaxRenewFailures
        /\ now <= nextBeat[r] + Latency /\ nextBeat[r] <= lease.beat + Stretch(failures[r] + 1)
    BY <2>1, <2>2 DEF Lease
  <2>4. now <= lease.beat + Stretch(failures[r] + 1) + Latency
    BY <2>3, <1>n, <1>x
  <2> QED BY <2>2, <2>3, <2>4, <1>n
<1>9. CASE Renew(r)
  <2>1. ~renewing'[r] /\ UNCHANGED <<now, pc, called, nextBeat>> /\ pc[r] \in {"body", "settle"}
    BY <1>9, <1>t DEF Renew
  <2>2. CASE lease.owner = r
    <3>1. PICK t \in called[r] .. now : lease' = HeldBy(r, t)
      BY <1>9, <2>2 DEF Renew, RenewRow
    <3>2. lease'.owner = r /\ lease'.beat = t /\ t \in Nat /\ called[r] <= t
      BY <3>1, <1>n DEF HeldBy
    <3>3. failures'[r] = 0 /\ aborted' = aborted
      BY <1>9, <2>2 DEF Renew
    <3>4. Renewable(r) => now <= nextBeat[r] + Latency /\ nextBeat[r] <= lease'.beat + Stretch(1)
      BY <1>9, <3>2, <1>x, <1>n DEF Renew
    <3> QED BY <2>1, <3>2, <3>3, <3>4
  <2>3. CASE lease.owner # r
    BY <1>9, <2>1, <2>3 DEF Renew
  <2> QED BY <2>2, <2>3
<1>10. CASE RenewAgain(r)
  <2>1. renewing[r] /\ UNCHANGED <<now, pc, called, nextBeat, renewing, failures, aborted>>
    BY <1>10 DEF RenewAgain
  <2>2. PICK t \in called[r] .. now : lease' = HeldBy(r, t)
    BY <1>10 DEF RenewAgain, RenewRow
  <2>3. lease'.owner = r /\ lease'.beat \in Nat /\ called[r] <= lease'.beat
    BY <2>2, <1>n DEF HeldBy
  <2>4. called[r] <= lease'.beat + Stretch(failures[r] + 1) + Latency
    BY <2>3, <1>n, <1>x
  <2> QED BY <2>1, <2>3, <2>4
<1>11. CASE RenewFails(r)
  <2>1. renewing[r] /\ ~renewing'[r] /\ UNCHANGED <<now, lease, pc, called, nextBeat>>
        /\ pc[r] \in {"body", "settle"}
    BY <1>11, <1>t DEF RenewFails
  <2>2. Renewable(r)' => /\ ~aborted[r] /\ failures[r] + 1 < MaxRenewFailures
                         /\ failures'[r] = failures[r] + 1
    BY <1>11, <1>n DEF RenewFails, CountFailure, TooMany, Earlier
  <2>3. ASSUME Renewable(r)'
        PROVE  nextBeat[r] <= lease.beat + Stretch(failures'[r] + 1)
    <3>1. Renewable(r)
      BY <2>1, <2>2, <2>3
    <3>2. called[r] <= lease.beat + Stretch(failures[r] + 1) + Latency
          /\ nextBeat[r] = called[r] + Heartbeat /\ lease.beat \in Nat
      BY <3>1, <2>1 DEF Lease
    <3>3. failures'[r] + 1 = failures[r] + 2
      BY <2>2, <2>3, <1>n
    <3> QED BY <3>2, <3>3, <1>x, <1>n
  <2> QED BY <2>1, <2>2, <2>3, <1>n
<1>12. CASE Abort(r)
  BY <1>12, <1>t DEF Abort
<1>13. CASE BodySettles(r)
  BY <1>13 DEF BodySettles
<1>14. CASE Abandon(r)
  BY <1>14 DEF Abandon
<1>15. ASSUME NEW released \in BOOLEAN, Settle(r, released)
       PROVE  Timing(r)'
  BY <1>15 DEF Settle
<1>16. CASE ZombieEnds(r)
  BY <1>16, <1>t DEF ZombieEnds
<1>17. CASE Killed(r)
  BY <1>17 DEF Killed
<1>18. CASE GiveUp(r)
  BY <1>18, <1>s DEF GiveUp, Early
<1>19. CASE RenewLate(r)
  <2>1. ~renewing'[r] /\ UNCHANGED <<now, pc, called, nextBeat>> /\ pc[r] \in {"body", "settle"}
    BY <1>19, <1>t DEF RenewLate
  <2>2. PICK t \in called[r] .. now : lease' = HeldBy(r, t)
    BY <1>19 DEF RenewLate, RenewRow
  <2>3. lease'.owner = r /\ lease'.beat = t /\ t \in Nat /\ called[r] <= t
    BY <2>2, <1>n DEF HeldBy
  <2>4. failures'[r] = 1 /\ (Renewable(r)' => ~aborted[r] /\ 1 < MaxRenewFailures)
    BY <1>19, <2>1 DEF RenewLate, TooMany
  <2>5. Stretch(2) = Stretch(1) + Step /\ Stretch(1) \in Nat /\ Step \in Nat
    BY StretchGrows, <1>x, SMT
  <2>6. Renewable(r) => now <= nextBeat[r] + Latency /\ nextBeat[r] <= lease'.beat + Stretch(2)
    BY <1>19, <2>3, <2>5, <1>x, <1>n DEF RenewLate
  <2> QED BY <2>1, <2>3, <2>4, <2>6
<1> QED BY <1>1, <1>2, <1>3, <1>4, <1>5, <1>6, <1>7, <1>8, <1>9, <1>10, <1>11, <1>12, <1>13, <1>14, <1>15, <1>16, <1>17, <1>18, <1>19 DEF RunStep, FaultStep, PlatformKill, Crash

-----------------------------------------------------------------------------
(* No run has begun.                                                       *)
LEMMA InitIsInv == Init => IInv
<1> SUFFICES ASSUME Init PROVE IInv
  OBVIOUS
<1>1. TypeOK
  BY TimeAssumption DEF Init, TypeOK, Lease, NoLease, Pc
<1>2. LeaseInv
  BY DEF Init, LeaseInv, NoLease
<1>3. \A r \in Runs : Shape(r) /\ Timing(r)
  BY DEF Init, Shape, Timing, InFlight, Renewable, Early
<1> QED BY <1>1, <1>2, <1>3 DEF IInv

(* A run's step.                                                           *)
LEMMA RunKeepsInv ==
    ASSUME IInv, TypeOK', NEW r \in Runs, RunStep(r) \/ FaultStep(r)
    PROVE  IInv'
<1>1. TypeOK /\ LeaseInv /\ now' = now /\ LeaseStep(r) /\ \A s \in Runs \ {r} : Same(s)
  BY Footprint DEF IInv
<1>2. LeaseInv'
  BY <1>1, RunKeepsLeaseInv
<1>3. ASSUME NEW s \in Runs PROVE Shape(s)'
  <2>1. CASE s = r
    BY <2>1, <1>1, ActorShape DEF IInv
  <2>2. CASE s # r
    BY <2>2, <1>1, BystanderShape DEF IInv
  <2> QED BY <2>1, <2>2
<1>4. ASSUME Patient, NEW s \in Runs PROVE Timing(s)'
  <2>1. CASE s = r
    BY <1>4, <2>1, <1>1, ActorTiming DEF IInv
  <2>2. CASE s # r
    BY <1>4, <2>2, <1>1, BystanderTiming DEF IInv
  <2> QED BY <2>1, <2>2
<1>5. Patient' = Patient
  BY DEF Patient, Patience
<1> QED BY <1>2, <1>3, <1>4, <1>5 DEF IInv

(* The clock waits for what Latency promises.                              *)
LEMMA TickKeepsInv ==
    ASSUME IInv, TypeOK', Tick
    PROVE  IInv'
<1> USE Types, Consts
<1>1. TypeOK /\ LeaseInv /\ now' = now + 1
      /\ UNCHANGED <<lease, pc, called, nextBeat, renewing, failures, aborted, working, keep>>
  BY DEF IInv, Tick, waitVars, renewVars, bodyVars
<1>2. LeaseInv'
  BY <1>1 DEF LeaseInv, Lease
<1>3. \A s \in Runs : Shape(s)'
  BY <1>1 DEF IInv, Shape
<1>4. ASSUME Patient, NEW s \in Runs PROVE Timing(s)'
  <2>1. Timing(s) /\ Shape(s)
    BY <1>4 DEF IInv
  <2>2. InFlight(s) \/ Renewable(s) => Alive(s)
    BY <2>1 DEF Shape, InFlight, Renewable, Alive
  <2>3. now \in Nat /\ called[s] \in Nat /\ nextBeat[s] \in Nat
    BY <1>1
  <2>4. InFlight(s) => called[s] <= now + 1 /\ now + 1 <= called[s] + Latency
    BY <2>1, <2>2, <2>3 DEF Tick, InTime, InFlight, Timing
  <2>5. Renewable(s) => now + 1 <= nextBeat[s] + Latency
    BY <2>2, <2>3 DEF Tick, InTime
  <2> QED BY <1>1, <2>1, <2>4, <2>5 DEF Timing, InFlight, Renewable
<1>5. Patient' = Patient
  BY DEF Patient, Patience
<1> QED BY <1>2, <1>3, <1>4, <1>5 DEF IInv

(* The reconciler finds no silent lease of a run that may work.            *)
LEMMA RemovalKeepsInv ==
    ASSUME IInv, TypeOK', RemoveSilent
    PROVE  IInv'
<1> USE Types
<1>1. TypeOK /\ LeaseInv /\ lease' = NoLease
      /\ UNCHANGED <<now, pc, called, nextBeat, renewing, failures, aborted, working, keep>>
  BY DEF IInv, RemoveSilent, waitVars, renewVars, bodyVars
<1>2. LeaseInv'
  BY <1>1 DEF LeaseInv, NoLease
<1>3. \A s \in Runs : Shape(s)'
  BY <1>1, RunAssumption DEF IInv, Shape, NoLease
<1>4. ASSUME Patient, NEW s \in Runs PROVE Timing(s)'
  <2>1. Timing(s)
    BY <1>4 DEF IInv
  <2>2. ~(pc[s] = "observe" \/ Renewable(s))
    <3> SUFFICES ASSUME pc[s] = "observe" \/ Renewable(s) PROVE FALSE
      OBVIOUS
    <3>1. now \in Nat
      BY <1>1
    <3> QED BY <1>1, <1>4, <2>1, <3>1, Fresh DEF RemoveSilent
  <2> QED BY <1>1, <2>1, <2>2 DEF Timing, InFlight, Renewable
<1>5. Patient' = Patient
  BY DEF Patient, Patience
<1> QED BY <1>2, <1>3, <1>4, <1>5 DEF IInv

(* Every step keeps the invariant.                                         *)
LEMMA StepKeepsInv ==
    ASSUME IInv, [Next]_vars
    PROVE  IInv'
<1>1. TypeOK'
  BY StepKeepsTypes DEF IInv
<1>2. CASE UNCHANGED vars
  BY <1>1, <1>2 DEF IInv, LeaseInv, Shape, Timing, InFlight, Renewable, Patient, Patience,
                    vars, waitVars, renewVars, bodyVars
<1>3. CASE Tick
  BY <1>1, <1>3, TickKeepsInv
<1>4. CASE RemoveSilent
  BY <1>1, <1>4, RemovalKeepsInv
<1>5. ASSUME NEW r \in Runs, RunStep(r) \/ FaultStep(r) PROVE IInv'
  BY <1>1, <1>5, RunKeepsInv
<1> QED BY <1>2, <1>3, <1>4, <1>5 DEF Next

(* The inductive invariant.                                                *)
THEOREM Invariance == Spec => []IInv
  BY InitIsInv, StepKeepsInv, PTL DEF Spec

(* Every variable of the lease protocol keeps its type.                    *)
THEOREM Typed == Spec => []TypeOK
<1>1. IInv => TypeOK
  BY DEF IInv
<1> QED BY <1>1, Invariance, PTL

(* With TTL and silence longer than the renewals that are tolerated, no    *)
(* two runs of the job work at the same time unless told to stop.          *)
THEOREM OneWorkerHolds == Spec => []OneWorker
<1>1. IInv => OneWorker
  <2> SUFFICES ASSUME IInv, Patient, NEW r \in Runs, NEW s \in Runs,
                      working[r], ~aborted[r], working[s], ~aborted[s]
               PROVE  r = s
    BY DEF OneWorker
  <2>1. Renewable(r) /\ Renewable(s)
    BY DEF IInv, Shape, Renewable
  <2> QED BY <2>1 DEF IInv, Timing
<1> QED BY <1>1, Invariance, PTL

(* No run is turned away by the lease it holds itself.                     *)
THEOREM NotBlockedByItselfHolds == Spec => []NotBlockedByItself
<1>1. IInv => NotBlockedByItself
  BY DEF IInv, Shape, NotBlockedByItself
<1> QED BY <1>1, Invariance, PTL

(* A lease is not handed on while its run's body executes, but for its     *)
(* expiry or its silence.                                                  *)
THEOREM UnsettledKeepsLeaseHolds == Spec => UnsettledKeepsLease
<1>1. IInv /\ [Next]_vars =>
        [\A r \in Runs :
           lease.owner = r /\ working[r] /\ lease'.owner # r =>
              ~working'[r] \/ lease.until < now \/ lease.beat + ChildSilence <= now]_vars
  <2> SUFFICES ASSUME IInv, Next, NEW q \in Runs,
                      lease.owner = q, working[q], lease'.owner # q
               PROVE  lease.until < now \/ lease.beat + ChildSilence <= now
    BY DEF vars
  <2>1. CASE Tick
    BY <2>1 DEF Tick
  <2>2. CASE RemoveSilent
    BY <2>2 DEF RemoveSilent
  <2>3. ASSUME NEW r \in Runs, RunStep(r) \/ FaultStep(r)
        PROVE  lease.until < now
    <3>1. TypeOK /\ LeaseStep(r) /\ Shape(r)
      BY <2>3, Footprint DEF IInv
    <3>2. now \in Nat /\ lease.until \in Nat /\ called[r] \in Nat
      BY <3>1, Types DEF Lease
    <3>3. ~Releases(r) \/ pc[r] # "settle"
      BY <3>1 DEF Releases, Shape
    <3>4. ~(lease.owner = r /\ \E t \in called[r] .. now : lease' = HeldBy(r, t))
      BY DEF HeldBy
    <3>5. PICK t \in called[r] .. now : Takeable(r, t) /\ lease' = HeldBy(r, t)
      BY <3>1, <3>3, <3>4 DEF LeaseStep
    <3>6. lease.until < t
      BY <3>4, <3>5, RunAssumption DEF Takeable
    <3> QED BY <3>2, <3>6
  <2> QED BY <2>1, <2>2, <2>3 DEF Next
<1> QED BY <1>1, Invariance, PTL DEF Spec, UnsettledKeepsLease

-----------------------------------------------------------------------------
(* What bounds a waiter's attempts: its deadline is only ever brought      *)
(* forward.                                                                *)
Budget(r) ==
    /\ r \in Waiters /\ pc[r] # "idle" => waitUntil[r] <= started[r] + WaitBudget
    /\ r \in Waiters /\ pc[r] = "acquire" /\ Tried(r) => called[r] <= started[r] + WaitBudget

BudgetInv == IInv /\ \A r \in Runs : Budget(r)

(* The waiting of the run that moves.                                      *)
LEMMA ActorBudget ==
    ASSUME TypeOK, NEW r \in Runs, Shape(r), Budget(r), RunStep(r) \/ FaultStep(r)
    PROVE  Budget(r)'
<1> USE Types, Consts DEF waitVars, renewVars, bodyVars, Goto, Budget, Tried
<1>1. CASE Start(r)
  BY <1>1 DEF Start
<1>2. CASE Try(r)
  BY <1>2 DEF Try, LateBlockerPoll
<1>3. CASE Acquire(r, TRUE)
  BY <1>3 DEF Acquire
<1>4. CASE Look(r)
  BY <1>4 DEF Look, Earlier
<1>5. CASE Wake(r)
  BY <1>5 DEF Wake
<1>6. CASE Begin(r)
  BY <1>6 DEF Begin
<1>7. CASE TimerFires(r)
  BY <1>7 DEF TimerFires, Renewable
<1>8. CASE Renew(r)
  BY <1>8 DEF Renew
<1>9. CASE BodySettles(r)
  BY <1>9 DEF BodySettles
<1>10. CASE Abandon(r)
  BY <1>10 DEF Abandon
<1>11. CASE Settle(r, TRUE)
  BY <1>11 DEF Settle
<1>12. CASE ZombieEnds(r)
  BY <1>12 DEF ZombieEnds
<1>13. CASE PlatformKill(r)
  BY <1>13 DEF PlatformKill, Killed, Alive, Shape, Early
<1>14. CASE Acquire(r, FALSE)
  BY <1>14 DEF Acquire
<1>15. CASE GiveUp(r)
  BY <1>15 DEF GiveUp
<1>16. CASE ObserverFails(r)
  BY <1>16 DEF ObserverFails
<1>17. CASE RenewAgain(r)
  BY <1>17 DEF RenewAgain
<1>18. CASE RenewFails(r)
  BY <1>18 DEF RenewFails, CountFailure
<1>19. CASE Abort(r)
  BY <1>19 DEF Abort, Renewable
<1>20. CASE Settle(r, FALSE)
  BY <1>20 DEF Settle
<1>21. CASE Crash(r)
  BY <1>21 DEF Crash, Killed, Alive, Shape, Early
<1>22. CASE RenewLate(r)
  BY <1>22 DEF RenewLate
<1> QED BY <1>1, <1>2, <1>3, <1>4, <1>5, <1>6, <1>7, <1>8, <1>9, <1>10, <1>11, <1>12, <1>13, <1>14, <1>15, <1>16, <1>17, <1>18, <1>19, <1>20, <1>21, <1>22 DEF RunStep, FaultStep

(* The waiting of the others.                                              *)
LEMMA BystanderBudget ==
    ASSUME TypeOK, NEW r \in Runs, RunStep(r) \/ FaultStep(r), NEW s \in Runs, s # r, Budget(s)
    PROVE  Budget(s)'
<1>1. Same(s)
  BY Footprint
<1>2. waitUntil'[s] = waitUntil[s] /\ started'[s] = started[s] /\ wakeAt'[s] = wakeAt[s]
  BY Types DEF RunStep, FaultStep, Start, Try, Acquire, Look, Wake, Begin, TimerFires, Renew,
     BodySettles, Abandon, Settle, ZombieEnds, PlatformKill, GiveUp, ObserverFails, RenewAgain,
     RenewLate, RenewFails, Abort, Crash, Killed, waitVars
<1> QED BY <1>1, <1>2 DEF Same, Budget, Tried

(* However late a sleep ends and however often the blocker renews, no      *)
(* attempt but the first is issued after the waiter's budget.              *)
THEOREM BudgetIsAbsoluteHolds == Spec => []BudgetIsAbsolute
<1>1. Init => BudgetInv
  BY InitIsInv DEF IInv, BudgetInv, Budget, Init
<1>2. ASSUME BudgetInv, [Next]_vars PROVE BudgetInv'
  <2>1. IInv'
    BY <1>2, StepKeepsInv DEF BudgetInv
  <2>2. CASE UNCHANGED <<pc, started, called, waitVars>>
    BY <1>2, <2>1, <2>2 DEF BudgetInv, Budget, Tried, waitVars
  <2>3. ASSUME NEW r \in Runs, RunStep(r) \/ FaultStep(r) PROVE BudgetInv'
    BY <1>2, <2>1, <2>3, ActorBudget, BystanderBudget DEF BudgetInv, IInv
  <2> QED BY <1>2, <2>2, <2>3 DEF Next, Tick, RemoveSilent, vars
<1>3. BudgetInv => BudgetIsAbsolute
  BY RunAssumption DEF BudgetInv, Budget, BudgetIsAbsolute
<1> QED BY <1>1, <1>2, <1>3, PTL DEF Spec
=============================================================================
