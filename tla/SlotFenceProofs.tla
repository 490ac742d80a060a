-------------------------- MODULE SlotFenceProofs --------------------------
(* Theorems about the slot fence, for every number of deliveries, sweepers *)
(* and jobs and every choice of the time constants.                        *)
EXTENDS SlotFence, TLAPS

(***************************************************************************)
(* The steps, by who takes them: a delivery that claims the slot, a        *)
(* sweeper, a delivery that owns the slot, and a child.  The flags say     *)
(* which of the statements that may fail or go unanswered did not.         *)
(***************************************************************************)
ClaimStep(i, answered) ==
    \/ Enter(i) \/ Insert(i, answered) \/ RereadScheduled(i) \/ RereadCatchUp(i)
    \/ Takeover(i, answered) \/ Reopen(i, answered) \/ Confirm(i)
    \/ Stamp(i) \/ AbortClaim(i)

HostStep(s, answered) ==
    ListStale(s) \/ ClaimStale(s, answered) \/ FinishStale(s) \/ SweeperCrash(s)

OwnStep(i, answered) ==
    \/ Heartbeat(i) \/ AbortRun(i) \/ EndDrain(i) \/ WorkDone(i)
    \/ Finish(i, answered) \/ FinishError(i) \/ Cleanup(i) \/ FinishFails(i)
    \/ Crash(i) \/ PlatformKill(i)

JobStep(i, j, first, second) ==
    \/ ChildStart(i, j, first) \/ ChildLease(i, j, first, second)
    \/ ChildBody(i, j, first, second) \/ ChildRenew(i, j) \/ ChildReport(i, j)
    \/ ChildEnd(i, j, first) \/ ChildTerminal(i, j, first, second)

(* Probe and the steps of a reconciliation belong to both kinds of actors. *)
SomeStep ==
    \/ Tick
    \/ \E a \in Actors : Probe(a) \/ Reconcile(a)
    \/ \E i \in Invocations, answered \in BOOLEAN : ClaimStep(i, answered)
    \/ \E s \in Sweepers, answered \in BOOLEAN : HostStep(s, answered)
    \/ \E i \in Invocations, answered \in BOOLEAN : OwnStep(i, answered)
    \/ \E i \in Invocations, j \in Jobs, first, second \in BOOLEAN : JobStep(i, j, first, second)

(* Every step of the slot fence is one of these.                           *)
LEMMA NextIsSomeStep == Next => SomeStep
<1>1. ASSUME NEW i \in Invocations, InvocationStep(i) \/ PlatformKill(i) PROVE SomeStep
  BY <1>1 DEF InvocationStep, SomeStep, ClaimStep, OwnStep, Actors
<1>2. ASSUME NEW i \in Invocations, NEW j \in Jobs, ChildStep(i, j) PROVE SomeStep
  BY <1>2 DEF ChildStep, SomeStep, JobStep
<1>3. ASSUME NEW s \in Sweepers, SweepStep(s) PROVE SomeStep
  BY <1>3 DEF SweepStep, SomeStep, HostStep, Actors
<1>4. ASSUME Fault PROVE SomeStep
  <2>1. ASSUME NEW i \in Invocations,
               \/ Insert(i, FALSE) \/ Takeover(i, FALSE) \/ Reopen(i, FALSE) \/ AbortClaim(i)
        PROVE  SomeStep
    BY <2>1 DEF SomeStep, ClaimStep
  <2>2. ASSUME NEW i \in Invocations, Finish(i, FALSE) \/ AbortRun(i) \/ FinishFails(i) \/ Crash(i)
        PROVE  SomeStep
    BY <2>2 DEF SomeStep, OwnStep
  <2>3. ASSUME NEW i \in Invocations, NEW j \in Jobs, NEW first \in BOOLEAN, NEW second \in BOOLEAN,
               \/ ChildStart(i, j, FALSE) \/ ChildEnd(i, j, FALSE)
               \/ ChildLease(i, j, first, second) \/ ChildBody(i, j, first, second)
               \/ ChildTerminal(i, j, first, second)
        PROVE  SomeStep
    BY <2>3 DEF SomeStep, JobStep
  <2>4. ASSUME NEW s \in Sweepers, ClaimStale(s, FALSE) \/ SweeperCrash(s)
        PROVE  SomeStep
    BY <2>4 DEF SomeStep, HostStep
  <2> QED
    BY <1>4, <2>1, <2>2, <2>3, <2>4 DEF Fault
<1>5. Tick => SomeStep
  BY DEF SomeStep
<1> QED
  BY <1>1, <1>2, <1>3, <1>4, <1>5 DEF Next

(***************************************************************************)
(* Type correctness.                                                       *)
(***************************************************************************)

(* TypeOK without the failure counter, which no action but Next changes.   *)
StateTypeOK ==
    /\ now \in Nat
    /\ DbTypeOK
    /\ ActorTypeOK
    /\ child \in [Invocations -> [Jobs -> ChildState]]

(* Moving through the protocol keeps the actors' local state typed.        *)
LEMMA ForgetTyped ==
    ASSUME ActorTypeOK, NEW a \in Actors, NEW where \in InvocationPc \cup SweeperPc,
           Forget(a, where)
    PROVE  ActorTypeOK'
  BY DEF ActorTypeOK, Forget, Row, NoRow

(* Moving on keeps an actor's types.                                       *)
LEMMA GotoTyped ==
    ASSUME ActorTypeOK, NEW a \in Actors, NEW where \in InvocationPc \cup SweeperPc,
           Goto(a, where)
    PROVE  ActorTypeOK'
  BY DEF ActorTypeOK, Goto

(* So does leaving the protocol.                                           *)
LEMMA LeaveTyped ==
    ASSUME ActorTypeOK, NEW a \in Actors, Leave(a)
    PROVE  ActorTypeOK'
  BY ForgetTyped DEF Leave, InvocationPc, SweeperPc

(* So does being given a generation.                                       *)
LEMMA AdmitTyped ==
    ASSUME ActorTypeOK, NEW a \in Actors, NEW g \in Nat,
           NEW where \in InvocationPc \cup SweeperPc, Admit(a, g, where)
    PROVE  ActorTypeOK'
  BY DEF ActorTypeOK, Admit

(* So does laying an item aside.                                           *)
LEMMA DropTyped ==
    ASSUME ActorTypeOK, NEW a \in Actors, Drop(a)
    PROVE  ActorTypeOK'
  BY DEF ActorTypeOK, Drop, InvocationPc, SweeperPc

(* So does remembering the row.                                            *)
LEMMA SeeRowTyped ==
    ASSUME ActorTypeOK, row \in Row, NEW a \in Actors,
           NEW where \in InvocationPc \cup SweeperPc, SeeRow(a, where)
    PROVE  ActorTypeOK'
  BY DEF ActorTypeOK, SeeRow

(* A claim writes a row.                                                   *)
LEMMA ClaimedRowTyped ==
    ASSUME StateTypeOK, NEW i \in Invocations, NEW g \in Nat
    PROVE  ClaimedRow(i, g) \in Row
  BY DEF StateTypeOK, DbTypeOK, ActorTypeOK, ClaimedRow, Row, Actors

(* So do finish, error finish and the sweep's close.                       *)
LEMMA ClosedRowTyped ==
    ASSUME StateTypeOK, NEW result \in {"ok", "error", "stale"}, NEW catchUp \in BOOLEAN
    PROVE  [row EXCEPT !.state = "finished", !.result = result, !.updatedAt = now,
                       !.catchUp = catchUp] \in Row
  BY DEF StateTypeOK, DbTypeOK, Row

(* So does the aborted close, which takes a generation more.               *)
LEMMA CleanedRowTyped ==
    ASSUME StateTypeOK
    PROVE  [row EXCEPT !.state = "finished", !.result = "error", !.gen = @ + 1,
                       !.updatedAt = now] \in Row
<1>1. row.gen + 1 \in Nat
  BY DEF StateTypeOK, DbTypeOK, Row
<1>2. ASSUME NEW g \in Nat
      PROVE  [row EXCEPT !.state = "finished", !.result = "error", !.gen = g,
                         !.updatedAt = now] \in Row
  BY DEF StateTypeOK, DbTypeOK, Row
<1> QED
  BY <1>1, <1>2

(* A reconciler lists items.                                               *)
LEMMA ListedTyped ==
    ASSUME DbTypeOK
    PROVE  Listed \in SUBSET Item
<1>1. \A kind \in {"missing", "unseen", "ownerless", "owned", "progress"} :
        \A i \in Invocations \cup {None}, j \in Jobs : Piece(kind, i, j) \in Item
  BY DEF Piece, Item
<1> DEFINE owned(p) == attempt[p[1]][p[2]] = "owned" \/ progress[p[2]] = p[1]
<1>2. \A j \in Jobs : Piece("missing", None, j) \in Item
  BY <1>1
<1>3. \A p \in Invocations \X Jobs :
        Piece(IF owned(p) THEN "owned" ELSE "ownerless", p[1], p[2]) \in Item
  <2> SUFFICES ASSUME NEW i \in Invocations, NEW j \in Jobs
               PROVE  Piece(IF owned(<<i, j>>) THEN "owned" ELSE "ownerless", i, j) \in Item
    OBVIOUS
  <2> HIDE DEF owned
  <2> QED
    BY <1>1
<1>4. \A j \in Jobs : Piece("progress", progress[j], j) \in Item
  BY <1>1 DEF DbTypeOK
<1> QED
  BY <1>2, <1>3, <1>4 DEF Listed

(* A child that changes its state has one.                                 *)
LEMMA ChildTyped ==
    ASSUME StateTypeOK, NEW i \in Invocations, NEW j \in Jobs,
           NEW s \in ChildState, SetChild(i, j, s)
    PROVE  child' \in [Invocations -> [Jobs -> ChildState]]
  BY DEF StateTypeOK, SetChild

(* An attempt that is settled or opened has a status.                      *)
LEMMA AttemptTyped ==
    ASSUME DbTypeOK, NEW i \in Invocations, NEW j \in Jobs, NEW status \in AttemptStatus
    PROVE  [attempt EXCEPT ![i][j] = status] \in [Invocations -> [Jobs -> AttemptStatus]]
  BY DEF DbTypeOK

(* Tables that nobody writes keep their types.                             *)
LEMMA DbKeptTyped ==
    ASSUME DbTypeOK, UNCHANGED dbVars
    PROVE  DbTypeOK'
  BY DEF DbTypeOK, dbVars

(* Each way of claiming, stamping and reading the slot row.                *)
LEMMA ClaimingTyped ==
    ASSUME StateTypeOK, NEW i \in Invocations, NEW answered \in BOOLEAN,
           ClaimStep(i, answered)
    PROVE  StateTypeOK'
<1> USE DEF StateTypeOK
<1>a. i \in Actors
  BY DEF Actors
<1>1. CASE Enter(i)
  BY <1>1, <1>a, DbKeptTyped DEF Enter, ActorTypeOK, InvocationPc
<1>2. CASE Insert(i, answered)
  BY <1>2, <1>a, ClaimedRowTyped, AdmitTyped, GotoTyped DEF Insert, DbTypeOK, InvocationPc
<1>3. CASE RereadScheduled(i)
  BY <1>3, <1>a, DbKeptTyped, AdmitTyped, SeeRowTyped, LeaveTyped
     DEF RereadScheduled, DbTypeOK, InvocationPc
<1>4. CASE RereadCatchUp(i)
  BY <1>4, <1>a, DbKeptTyped, SeeRowTyped, LeaveTyped DEF RereadCatchUp, DbTypeOK, InvocationPc
<1>6. CASE Takeover(i, answered)
  <2>1. row.gen + 1 \in Nat /\ seen[i].gen + 1 \in Nat
    BY <1>a DEF DbTypeOK, ActorTypeOK, Row
  <2> QED
    BY <1>6, <1>a, <2>1, ClaimedRowTyped, AdmitTyped, GotoTyped DEF Takeover, DbTypeOK, InvocationPc
<1>7. CASE Reopen(i, answered)
  <2>1. row.gen + 1 \in Nat /\ seen[i].gen + 1 \in Nat
    BY <1>a DEF DbTypeOK, ActorTypeOK, Row
  <2> QED
    BY <1>7, <1>a, <2>1, ClaimedRowTyped, AdmitTyped, GotoTyped DEF Reopen, DbTypeOK, InvocationPc
<1>8. CASE Confirm(i)
  <2>1. seen[i].gen + 1 \in Nat
    BY <1>a DEF ActorTypeOK, Row
  <2> QED
    BY <1>8, <1>a, <2>1, DbKeptTyped, AdmitTyped, LeaveTyped DEF Confirm, InvocationPc
<1>9. CASE Stamp(i)
  BY <1>9, <1>a, GotoTyped, ZenonT(40) DEF Stamp, DbTypeOK, Row, InvocationPc
<1>10. CASE AbortClaim(i)
  BY <1>10, <1>a, DbKeptTyped, ForgetTyped DEF AbortClaim, InvocationPc
<1> QED
  BY <1>1, <1>2, <1>3, <1>4, <1>6, <1>7, <1>8, <1>9, <1>10 DEF ClaimStep

(* Each step of a reconciliation.                                          *)
LEMMA ReconcilingTyped ==
    ASSUME StateTypeOK, NEW a \in Actors, Probe(a) \/ Reconcile(a)
    PROVE  StateTypeOK'
<1> USE DEF StateTypeOK
<1>6. CASE Probe(a)
  BY <1>6, DbKeptTyped, LeaveTyped, GotoTyped DEF Probe, InvocationPc, SweeperPc
<1>1. CASE List(a)
  BY <1>1, ListedTyped, DbKeptTyped DEF List, ActorTypeOK, InvocationPc
<1>8. CASE SecondLook(a)
  <2>1. \A j \in Jobs : Piece("unseen", None, j) \in Item
    BY DEF Piece, Item
  <2>2. \A x \in todo[a] : x.job \in Jobs
    BY DEF ActorTypeOK, Item
  <2> QED
    BY <1>8, <2>1, <2>2, DbKeptTyped DEF SecondLook, ActorTypeOK
<1>2. CASE Sift(a)
  <2>1. \A x \in todo[a] : Judged(x) \in Item
    <3>1. ASSUME NEW x \in Item PROVE Judged(x) \in Item
      <4>1. (lease[x.job].holder = x.inv) \in BOOLEAN
        OBVIOUS
      <4> QED
        BY <4>1 DEF Judged, Item
    <3> QED
      BY <3>1 DEF ActorTypeOK
  <2> QED
    BY <1>2, <2>1, DbKeptTyped DEF Sift, ActorTypeOK, InvocationPc
<1>3. CASE Clear(a)
  BY <1>3, DbKeptTyped, DropTyped, GotoTyped DEF Clear, InvocationPc
<1>7. CASE Delete(a)
  BY <1>7, DropTyped, GotoTyped DEF Delete, DbTypeOK, InvocationPc
<1>4. CASE Record(a)
  <2>1. \A x : SyntheticStatus(a, x) \in AttemptStatus
    BY DEF SyntheticStatus, AttemptStatus, Terminal
  <2>2. NoLease \in Lease
    BY DEF NoLease, Lease
  <2>3. attempt' \in [Invocations -> [Jobs -> AttemptStatus]]
    BY <1>4, <2>1 DEF Record, DbTypeOK
  <2>4. lease' \in [Jobs -> Lease]
    BY <1>4, <2>2 DEF Record, DbTypeOK
  <2> QED
    BY <1>4, <2>3, <2>4, DropTyped DEF Record, DbTypeOK
<1>5. CASE Reconciled(a)
  BY <1>5, DbKeptTyped, GotoTyped DEF Reconciled, InvocationPc, SweeperPc
<1> QED
  BY <1>1, <1>2, <1>3, <1>4, <1>5, <1>6, <1>7, <1>8 DEF Reconcile

(* Each step of a sweep.                                                   *)
LEMMA SweepingTyped ==
    ASSUME StateTypeOK, NEW s \in Sweepers, NEW answered \in BOOLEAN,
           HostStep(s, answered)
    PROVE  StateTypeOK'
<1> USE DEF StateTypeOK
<1>a. s \in Actors
  BY DEF Actors
<1>1. CASE ListStale(s)
  BY <1>1, <1>a, DbKeptTyped DEF ListStale, ActorTypeOK, DbTypeOK, SweeperPc
<1>2. CASE ClaimStale(s, answered)
  <2>1. seen[s].gen + 1 \in Nat /\ at[s] \in Nat
    BY <1>a DEF ActorTypeOK, Row
  <2>2. row' \in Row
    BY <1>2, <1>a, <2>1 DEF ClaimStale, DbTypeOK, Row
  <2> QED
    BY <1>2, <1>a, <2>1, <2>2, AdmitTyped, LeaveTyped DEF ClaimStale, DbTypeOK, SweeperPc
<1>3. CASE FinishStale(s)
  <2>1. at[s] \in Nat
    BY <1>a DEF ActorTypeOK
  <2>2. row' \in Row
    BY <1>3, <2>1 DEF FinishStale, DbTypeOK, Row
  <2> QED
    BY <1>3, <1>a, <2>2, LeaveTyped DEF FinishStale, DbTypeOK
<1>4. CASE SweeperCrash(s)
  BY <1>4, <1>a, DbKeptTyped, LeaveTyped DEF SweeperCrash
<1> QED
  BY <1>1, <1>2, <1>3, <1>4 DEF HostStep

(* Each step of an admitted invocation outside its children.               *)
LEMMA RunningTyped ==
    ASSUME StateTypeOK, NEW i \in Invocations, NEW answered \in BOOLEAN,
           OwnStep(i, answered)
    PROVE  StateTypeOK'
<1> USE DEF StateTypeOK
<1>a. i \in Actors
  BY DEF Actors
<1>b. (i \in CatchUps) \in BOOLEAN
  OBVIOUS
<1>1. CASE Heartbeat(i)
  <2>1. row' \in Row
    BY <1>1 DEF Heartbeat, DbTypeOK, Row
  <2> QED
    BY <1>1, <1>a, <2>1, GotoTyped DEF Heartbeat, DbTypeOK, ActorTypeOK, actorVars, InvocationPc
<1>2. CASE AbortRun(i)
  BY <1>2, <1>a, DbKeptTyped, GotoTyped DEF AbortRun, InvocationPc
<1>3. CASE EndDrain(i)
  BY <1>3, <1>a, DbKeptTyped, GotoTyped DEF EndDrain, InvocationPc
<1>4. CASE WorkDone(i)
  BY <1>4, <1>a, DbKeptTyped, GotoTyped DEF WorkDone, InvocationPc
<1>5. CASE Finish(i, answered)
  <2>1. row' \in Row
    BY <1>5, <1>b, ClosedRowTyped, ZenonT(40) DEF Finish, DbTypeOK
  <2> QED
    BY <1>5, <1>a, <2>1, ForgetTyped DEF Finish, DbTypeOK, InvocationPc
<1>6. CASE FinishError(i)
  <2>1. row' \in Row
    BY <1>6, <1>b, ClosedRowTyped DEF FinishError, DbTypeOK
  <2> QED
    BY <1>6, <1>a, <2>1, ForgetTyped DEF FinishError, DbTypeOK, InvocationPc
<1>7. CASE Cleanup(i)
  <2>1. row' \in Row
    BY <1>7, CleanedRowTyped DEF Cleanup, DbTypeOK
  <2> QED
    BY <1>7, <1>a, <2>1, ForgetTyped DEF Cleanup, DbTypeOK, InvocationPc
<1>8. CASE FinishFails(i)
  BY <1>8, <1>a, DbKeptTyped, ForgetTyped DEF FinishFails, InvocationPc
<1>9. CASE Crash(i) \/ PlatformKill(i)
  <2>1. child' \in [Invocations -> [Jobs -> ChildState]]
    BY <1>9 DEF Crash, PlatformKill, KillChildren, ChildState
  <2> QED
    BY <1>9, <1>a, <2>1, DbKeptTyped, ForgetTyped DEF Crash, PlatformKill, InvocationPc
<1> QED
  BY <1>1, <1>2, <1>3, <1>4, <1>5, <1>6, <1>7, <1>8, <1>9 DEF OwnStep

(* Each step of a child.                                                   *)
LEMMA ChildrenTyped ==
    ASSUME StateTypeOK, NEW i \in Invocations, NEW j \in Jobs,
           NEW first \in BOOLEAN, NEW second \in BOOLEAN,
           JobStep(i, j, first, second)
    PROVE  StateTypeOK'
<1> USE DEF StateTypeOK
<1>1. UNCHANGED <<now, row, actorVars>>
  BY DEF JobStep, ChildStart, ChildLease, ChildBody, ChildRenew, ChildReport, ChildEnd, ChildTerminal
<1>2. ActorTypeOK'
  BY <1>1 DEF ActorTypeOK, actorVars
<1>3. [holder |-> i, until |-> now + LeaseTtl, beat |-> now] \in Lease /\ NoLease \in Lease
  BY TimeAssumption DEF Lease, NoLease
<1>4. ProgressAfterReport(i, j) \in Invocations \cup {None}
  BY DEF ProgressAfterReport, DbTypeOK
<1>5. ReportOwner(i, j, first, second) =>
        /\ attempt' \in [Invocations -> [Jobs -> AttemptStatus]]
        /\ progress' \in [Jobs -> Invocations \cup {None}]
  BY <1>4 DEF ReportOwner, DbTypeOK, AttemptStatus, Open
<1>6. CASE ChildStart(i, j, first)
  <2>1. attempt' \in [Invocations -> [Jobs -> AttemptStatus]]
    BY <1>6 DEF ChildStart, DbTypeOK, AttemptStatus, Open
  <2> QED
    BY <1>1, <1>2, <1>6, <2>1, ChildTyped DEF ChildStart, DbTypeOK, ChildState
<1>7. CASE ChildLease(i, j, first, second)
  BY <1>1, <1>2, <1>3, <1>5, <1>7, ChildTyped DEF ChildLease, DbTypeOK, ChildState
<1>8. CASE ChildBody(i, j, first, second)
  BY <1>1, <1>2, <1>5, <1>8, ChildTyped DEF ChildBody, DbTypeOK, ChildState
<1>9. CASE ChildRenew(i, j)
  BY <1>1, <1>2, <1>3, <1>9, ChildTyped DEF ChildRenew, DbTypeOK, ChildState
<1>10. CASE ChildReport(i, j)
  BY <1>1, <1>2, <1>4, <1>10 DEF ChildReport, DbTypeOK
<1>11. CASE ChildEnd(i, j, first)
  BY <1>1, <1>2, <1>3, <1>11, ChildTyped DEF ChildEnd, DbTypeOK, ChildState
<1>12. CASE ChildTerminal(i, j, first, second)
  <2>1. attempt' \in [Invocations -> [Jobs -> AttemptStatus]]
    <3>1. "real" \in AttemptStatus
      BY DEF AttemptStatus, Terminal
    <3>2. CASE attempt' = [attempt EXCEPT ![i][j] = "real"]
      BY <3>1, <3>2, AttemptTyped
    <3>3. CASE UNCHANGED attempt
      BY <3>3 DEF DbTypeOK
    <3> QED
      BY <1>12, <3>2, <3>3 DEF ChildTerminal
  <2>2. progress' \in [Jobs -> Invocations \cup {None}]
    BY <1>12 DEF ChildTerminal, DbTypeOK
  <2> QED
    BY <1>1, <1>2, <1>12, <2>1, <2>2, ChildTyped DEF ChildTerminal, DbTypeOK, ChildState
<1> QED
  BY <1>6, <1>7, <1>8, <1>9, <1>10, <1>11, <1>12 DEF JobStep

(* Every step keeps the types of the tables, actors and children.          *)
LEMMA StepTyped ==
    ASSUME StateTypeOK, [Next]_vars
    PROVE  StateTypeOK'
<1>1. CASE Tick
  <2>1. now + 1 \in Nat
    BY DEF StateTypeOK
  <2> QED
    BY <1>1, <2>1, DbKeptTyped DEF Tick, StateTypeOK, ActorTypeOK, actorVars
<1>2. CASE UNCHANGED vars
  BY <1>2, DbKeptTyped DEF vars, actorVars, StateTypeOK, ActorTypeOK
<1> QED
  BY <1>1, <1>2, NextIsSomeStep, ClaimingTyped, ReconcilingTyped, SweepingTyped, RunningTyped,
     ChildrenTyped DEF SomeStep

(* The initial state has its types.                                        *)
LEMMA InitTyped == Init => TypeOK
<1> SUFFICES ASSUME Init PROVE TypeOK
  OBVIOUS
<1>1. NoRow \in Row /\ NoLease \in Lease
  BY DEF NoRow, Row, NoLease, Lease
<1>2. faults \in 0 .. MaxFaults
  BY TimeAssumption DEF Init
<1> QED
  BY <1>1, <1>2 DEF Init, TypeOK, DbTypeOK, ActorTypeOK, AttemptStatus, ChildState,
     InvocationPc

(* Every step keeps all types, the failures' count included.               *)
LEMMA StepTypeKept ==
    ASSUME TypeOK, [Next]_vars
    PROVE  TypeOK'
<1>1. StateTypeOK'
  BY StepTyped DEF TypeOK, StateTypeOK
<1>2. faults' \in 0 .. MaxFaults
  BY TimeAssumption DEF TypeOK, Next, vars
<1> QED
  BY <1>1, <1>2 DEF TypeOK, StateTypeOK

(* Only Tick moves the clock.                                              *)
LEMMA StepKeepsClock == [Next]_vars => Tick \/ UNCHANGED now
<1>1. ASSUME NEW a, Probe(a) \/ Reconcile(a) PROVE UNCHANGED now
  BY <1>1 DEF Reconcile, Probe, List, SecondLook, Sift, Clear, Delete, Record, Reconciled
<1>2. ASSUME NEW i, NEW answered, ClaimStep(i, answered) PROVE UNCHANGED now
  BY <1>2 DEF ClaimStep, Enter, Insert, RereadScheduled, RereadCatchUp, Takeover, Reopen,
     Confirm, Stamp, AbortClaim
<1>3. ASSUME NEW s, NEW answered, HostStep(s, answered) PROVE UNCHANGED now
  BY <1>3 DEF HostStep, ListStale, ClaimStale, FinishStale, SweeperCrash
<1>4. ASSUME NEW i, NEW answered, OwnStep(i, answered) PROVE UNCHANGED now
  BY <1>4 DEF OwnStep, Heartbeat, AbortRun, EndDrain, WorkDone, Finish, FinishError, Cleanup,
     FinishFails, Crash, PlatformKill
<1>5. ASSUME NEW i, NEW j, NEW first, NEW second, JobStep(i, j, first, second) PROVE UNCHANGED now
  BY <1>5 DEF JobStep, ChildStart, ChildLease, ChildBody, ChildRenew, ChildReport, ChildEnd,
     ChildTerminal
<1>6. CASE UNCHANGED vars
  BY <1>6 DEF vars
<1> QED
  BY <1>1, <1>2, <1>3, <1>4, <1>5, <1>6, NextIsSomeStep DEF SomeStep

(* The state of the slot, of its actors and of its children always has its *)
(* type, for every number of deliveries, sweepers and jobs: in particular  *)
(* an actor is only ever where its own part of the code can put it.        *)
THEOREM Typed == Spec => []TypeOK
<1> QED
  BY InitTyped, StepTypeKept, PTL DEF Spec
=============================================================================
