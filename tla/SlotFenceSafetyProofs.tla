----------------------- MODULE SlotFenceSafetyProofs -----------------------
(* The safety properties of the slot fence, for every value of the         *)
(* constants.                                                              *)
(*                                                                         *)
(* The argument has three parts: an inductive invariant (IndInv); what one *)
(* step of one actor can do to the row, to attempts, to children and to    *)
(* the actor itself (StepOf); and the invariant's preservation, which uses *)
(* nothing of the actions but StepOf.  Two sections of their own follow:   *)
(* that a live owner whose heartbeats are in time keeps its slot, and that *)
(* the fence implements SlotAuthority.                                     *)
EXTENDS SlotFenceProofs, SlotFenceRefinement

(***************************************************************************)
(* The inductive invariant.                                                *)
(***************************************************************************)

(* Generations: none is ahead of the row's, and only the row's owner can   *)
(* hold the row's.                                                         *)
FenceInv ==
    /\ row.state = "absent" => row.gen = 0
    /\ row.state # "absent" => row.inv \in Invocations
    /\ \A a \in Actors : gen[a] <= row.gen
    /\ \A a \in Actors : gen[a] > 0 /\ gen[a] = row.gen => row.owner = a
    /\ GenerationsDistinct

(* A job without a trace of a child, or with a synthetic one of just that. *)
Traceless(job) ==
    \A i \in Invocations, j \in Jobs :
        j = job => attempt[i][j] \in {"none", "notStarted", "unknown"}

(* What an actor read and has not yet acted upon is still good enough: a   *)
(* sweeper only claims what it saw unfinished; a job found without         *)
(* evidence has none as long as its finder holds the reconciling fence;    *)
(* and such jobs are settled before the ones with evidence.                *)
LocalInv(a) ==
    /\ a \in Sweepers /\ pc[a] \in {"probe", "claim"} => seen[a].state \in {"running", "reconciling"}
    /\ pc[a] \in {"clear", "delete"} => held[a].kind \in LeaseKinds
    /\ pc[a] \in {"clear", "delete", "record"} /\ held[a].kind # "unseen" =>
         \A x \in todo[a] : x.kind \notin {"missing", "unseen"}
    /\ pc[a] = "record" /\ held[a].kind = "unseen" /\ ReconcilerFence(a) => Traceless(held[a].job)
    /\ pc[a] \in {"sift", "record"} /\ ReconcilerFence(a) =>
         \A x \in todo[a] : x.kind = "unseen" => Traceless(x.job)

(* Children and their attempts: what is done is real, what ran has an      *)
(* attempt.                                                                *)
JobInv ==
    /\ \A i \in Invocations, j \in Jobs : child[i][j] = "done" => attempt[i][j] = "real"
    /\ \A i \in Invocations, j \in Jobs :
         child[i][j] \notin {"none", "refused"} => attempt[i][j] # "none"
    /\ NotStartedNeverRan

IndInv ==
    /\ StateTypeOK
    /\ FenceInv
    /\ \A a \in Actors : LocalInv(a)
    /\ JobInv
    /\ AbandonedIsSettled
    /\ SuccessIsReal

(***************************************************************************)
(* What a step of actor a can do.                                          *)
(***************************************************************************)

(* The row is claimed under the next generation, kept under the same one,  *)
(* or closed by its owner's last resort - each time in the name of a.      *)
RowMoved(a) ==
    /\ row'.owner = a /\ row'.inv \in Invocations
    /\ \/ /\ row.state = "finished" => row.result = "stale"
          /\ row'.state \in {"running", "reconciling"}
          /\ row'.gen = row.gen + 1
       \/ /\ row.state \in {"running", "reconciling"} /\ row.owner = a
          /\ row'.state \in {row.state, "finished"}
          /\ row'.gen = row.gen
       \/ /\ row.state = "running" /\ row.owner = a
          /\ row'.state = "finished"
          /\ row'.gen = row.gen + 1
    /\ UNCHANGED attempt
    /\ AbandonedIsSettled' /\ SuccessIsReal'

AttemptMoved(a, i, j) ==
    /\ row' = row
    /\ \/ /\ a = i /\ pc[i] = "run" /\ pc'[i] = "run" /\ FenceHeld(i)
          /\ attempt[i][j] = "none" /\ attempt'[i][j] = "open"
       \/ attempt[i][j] = "open" /\ attempt'[i][j] = "owned"
       \/ attempt[i][j] \in Open /\ attempt'[i][j] = "real" /\ FenceHeld(i)
       \/ /\ pc[a] = "record" /\ pc'[a] = "sift" /\ ReconcilerFence(a)
          /\ attempt[i][j] \in Open \cup {"none"}
          /\ attempt'[i][j] \in {"abandoned", "notStarted", "unknown"}
          /\ attempt'[i][j] # "abandoned" => attempt[i][j] = "none"

ChildMoved(i, j) ==
    \/ child[i][j] = "none" /\ child'[i][j] = "refused"
    \/ child[i][j] = "none" /\ child'[i][j] = "started" /\ attempt'[i][j] \in Open
    \/ child[i][j] \in Active /\ child'[i][j] \in Active \cup {"lost"}
    \/ child[i][j] \in Active /\ child'[i][j] = "done" /\ attempt'[i][j] = "real"

(* An actor changes only its own local state, and is given a generation    *)
(* only together with the row of that generation.                          *)
SelfMoved(a) ==
    /\ \A b \in Actors \ {a} :
         /\ pc'[b] = pc[b] /\ seen'[b] = seen[b] /\ gen'[b] = gen[b]
         /\ todo'[b] = todo[b] /\ held'[b] = held[b]
    /\ gen'[a] \in {0, gen[a]} \/ (gen'[a] = row'.gen /\ row'.owner = a)
    /\ LocalInv(a)'

RowKeptOrMoved(a) == row' = row \/ RowMoved(a)

AttemptsMoved(a) ==
    \A i \in Invocations, j \in Jobs :
        attempt'[i][j] = attempt[i][j] \/ AttemptMoved(a, i, j)

ChildrenMoved ==
    \A i \in Invocations, j \in Jobs : child'[i][j] = child[i][j] \/ ChildMoved(i, j)

StepOf(a) ==
    /\ SelfMoved(a)
    /\ RowKeptOrMoved(a)
    /\ AttemptsMoved(a)
    /\ ChildrenMoved

(* Whoever forgets changes only itself.                                    *)
LEMMA ForgetMoves ==
    ASSUME StateTypeOK, NEW a \in Actors,
           NEW where \in {"idle", "insert", "done", "gone", "cleanup", "finishError"}, Forget(a, where)
    PROVE  SelfMoved(a)
  BY DEF StateTypeOK, ActorTypeOK, Forget, SelfMoved, LocalInv

(* Whoever leaves changes only itself.                                     *)
LEMMA LeaveMoves ==
    ASSUME StateTypeOK, NEW a \in Actors, Leave(a)
    PROVE  SelfMoved(a)
  BY ForgetMoves DEF Leave

(* Whoever moves on changes only itself, unless it reconciles.             *)
LEMMA GotoMoves ==
    ASSUME StateTypeOK, NEW a \in Actors, NEW where, Goto(a, where),
           where \notin {"sift", "clear", "delete", "record"},
           where \in {"probe", "claim"} /\ a \in Sweepers =>
              seen[a].state \in {"running", "reconciling"}
    PROVE  SelfMoved(a)
  BY DEF StateTypeOK, ActorTypeOK, Goto, SelfMoved, LocalInv

(* Whoever is given a generation is given the one of the row that it owns. *)
LEMMA AdmitMoves ==
    ASSUME StateTypeOK, NEW a \in Actors, NEW g, NEW where, Admit(a, g, where),
           where \notin {"probe", "claim", "sift", "clear", "delete", "record"},
           g = row'.gen /\ row'.owner = a
    PROVE  SelfMoved(a)
  BY DEF StateTypeOK, ActorTypeOK, Admit, SelfMoved, LocalInv

(* Whoever remembers the row changes only itself.                          *)
LEMMA SeeRowMoves ==
    ASSUME StateTypeOK, NEW i \in Invocations, NEW where \in {"probe", "reopen"}, SeeRow(i, where)
    PROVE  SelfMoved(i)
  BY ActorAssumption DEF StateTypeOK, ActorTypeOK, SeeRow, SelfMoved, LocalInv, Actors

(* Whoever lays an item aside changes only itself.                         *)
LEMMA DropMoves ==
    ASSUME StateTypeOK, NEW a \in Actors, Drop(a),
           ReconcilerFence(a)' => \A x \in todo[a] : x.kind = "unseen" => Traceless(x.job)'
    PROVE  SelfMoved(a)
<1>1. LocalInv(a)'
  BY DEF StateTypeOK, ActorTypeOK, Drop, LocalInv
<1> QED
  BY <1>1 DEF StateTypeOK, ActorTypeOK, Drop, SelfMoved

(* What is unchanged has moved as StepOf allows.                           *)
LEMMA NothingElseMoves ==
    ASSUME NEW a
    PROVE  /\ UNCHANGED row => RowKeptOrMoved(a)
           /\ UNCHANGED attempt => AttemptsMoved(a)
           /\ UNCHANGED child => ChildrenMoved
           /\ UNCHANGED dbVars => RowKeptOrMoved(a) /\ AttemptsMoved(a)
  BY DEF RowKeptOrMoved, AttemptsMoved, ChildrenMoved, dbVars

(* A claim writes a running row that is nobody's success.                  *)
LEMMA ClaimMovesRow ==
    ASSUME StateTypeOK, NEW i \in Invocations, NEW g, row' = ClaimedRow(i, g), g = row.gen + 1,
           row.state = "finished" => row.result = "stale", UNCHANGED attempt
    PROVE  RowKeptOrMoved(i) /\ row'.gen = g /\ row'.owner = i
  BY DEF ClaimedRow, RowKeptOrMoved, RowMoved, AbandonedIsSettled, SuccessIsReal

(* The steps of a claim are steps as StepOf describes them.                *)
LEMMA ClaimingMoves ==
    ASSUME IndInv, NEW i \in Invocations, NEW answered \in BOOLEAN, ClaimStep(i, answered)
    PROVE  StepOf(i)
<1>a. i \in Actors /\ StateTypeOK /\ (i \in Sweepers => FALSE)
  BY ActorAssumption DEF Actors, IndInv
<1>b. UNCHANGED child /\ UNCHANGED attempt
  BY DEF ClaimStep, Enter, Insert, RereadScheduled, RereadCatchUp, Takeover, Reopen, Confirm,
     Stamp, AbortClaim, dbVars
<1> SUFFICES SelfMoved(i) /\ RowKeptOrMoved(i)
  BY <1>b, NothingElseMoves DEF StepOf
<1>1. CASE Enter(i)
  BY <1>1, <1>a, NothingElseMoves DEF Enter, SelfMoved, LocalInv, StateTypeOK, ActorTypeOK
<1>2. CASE Insert(i, answered)
  <2>1. row.state = "absent" => row.gen + 1 = 1
    BY DEF IndInv, FenceInv
  <2> QED
    BY <1>2, <1>a, <1>b, <2>1, ClaimMovesRow, AdmitMoves, GotoMoves, NothingElseMoves DEF Insert
<1>3. CASE RereadScheduled(i)
  BY <1>3, <1>a, AdmitMoves, SeeRowMoves, LeaveMoves, NothingElseMoves DEF RereadScheduled, dbVars
<1>4. CASE RereadCatchUp(i)
  BY <1>4, <1>a, SeeRowMoves, LeaveMoves, NothingElseMoves DEF RereadCatchUp, dbVars
<1>5. CASE Takeover(i, answered)
  <2>1. CASE row.state = "running" /\ row' = ClaimedRow(i, row.gen + 1) /\ SameAsSeen(i)
    BY <1>5, <1>a, <1>b, <2>1, ClaimMovesRow, AdmitMoves, GotoMoves DEF Takeover, SameAsSeen
  <2>2. CASE UNCHANGED row /\ Goto(i, "confirm")
    BY <1>a, <2>2, GotoMoves, NothingElseMoves
  <2> QED
    BY <1>5, <2>1, <2>2 DEF Takeover
<1>6. CASE Reopen(i, answered)
  <2>1. CASE Reopenable(row) /\ row' = ClaimedRow(i, row.gen + 1) /\ row.gen = seen[i].gen
    BY <1>6, <1>a, <1>b, <2>1, ClaimMovesRow, AdmitMoves, GotoMoves DEF Reopen, Reopenable
  <2>2. CASE UNCHANGED row /\ Goto(i, "confirm")
    BY <1>a, <2>2, GotoMoves, NothingElseMoves
  <2> QED
    BY <1>6, <2>1, <2>2 DEF Reopen
<1>7. CASE Confirm(i)
  BY <1>7, <1>a, AdmitMoves, LeaveMoves, NothingElseMoves DEF Confirm, dbVars
<1>8. CASE Stamp(i)
  <2>1. ASSUME FenceHeld(i), row' = [row EXCEPT !.marked = TRUE] PROVE RowKeptOrMoved(i)
    <3>1. /\ row.state = "running" /\ row'.state = "running"
          /\ row.owner = i /\ row'.owner = i /\ row'.gen = row.gen /\ row'.inv = i
      BY <1>a, <2>1 DEF FenceHeld, StateTypeOK, DbTypeOK, Row
    <3> QED
      BY <1>b, <3>1 DEF RowKeptOrMoved, RowMoved, AbandonedIsSettled, SuccessIsReal
  <2> QED
    BY <1>8, <1>a, <2>1, GotoMoves, NothingElseMoves DEF Stamp
<1>9. CASE AbortClaim(i)
  BY <1>9, <1>a, ForgetMoves, NothingElseMoves DEF AbortClaim
<1> QED
  BY <1>1, <1>2, <1>3, <1>4, <1>5, <1>6, <1>7, <1>8, <1>9 DEF ClaimStep

(* So are the steps of a reconciliation: what is settled as not started    *)
(* left no trace when it was judged, and none has come since.              *)
LEMMA ReconcilingMoves ==
    ASSUME IndInv, NEW a \in Actors, Probe(a) \/ Reconcile(a)
    PROVE  StepOf(a)
<1>a. StateTypeOK
  BY DEF IndInv
<1>b. UNCHANGED child /\ UNCHANGED row
  BY DEF Reconcile, Probe, List, SecondLook, Sift, Clear, Delete, Record, Reconciled, dbVars
<1> SUFFICES SelfMoved(a) /\ AttemptsMoved(a)
  BY <1>b, NothingElseMoves DEF StepOf
<1>1. CASE Probe(a)
  BY <1>1, <1>a, LeaveMoves, GotoMoves, NothingElseMoves DEF Probe, IndInv, LocalInv
<1>2. CASE List(a)
  <2>1. \A x \in Listed : x.kind # "unseen"
    BY DEF Listed, Piece
  <2>2. LocalInv(a)'
    BY <1>2, <1>a, <2>1 DEF List, LocalInv, StateTypeOK, ActorTypeOK
  <2> QED
    BY <1>2, <1>a, <2>2, NothingElseMoves DEF List, SelfMoved, StateTypeOK, ActorTypeOK
<1>7. CASE SecondLook(a)
  <2>1. PICK x \in todo[a] :
          todo' = [todo EXCEPT ![a] =
              (@ \ {x}) \cup {y \in {Piece("unseen", None, x.job)} :
                                 ~Evidence(y.job) /\ ReconcilerFence(a)}]
    BY <1>7 DEF SecondLook
  <2>2. UNCHANGED attempt /\ UNCHANGED row /\ pc[a] = "sift" /\ pc' = pc /\ gen' = gen
    BY <1>7 DEF SecondLook, dbVars
  <2>3. \A job : ~Evidence(job) => Traceless(job)
    BY DEF Evidence, Traceless
  <2>4. ASSUME ReconcilerFence(a), NEW y \in todo'[a], y.kind = "unseen" PROVE Traceless(y.job)
    <3>1. y \in todo[a] \/ ~Evidence(y.job)
      BY <1>a, <2>1, <2>4 DEF StateTypeOK, ActorTypeOK
    <3> QED
      BY <2>2, <2>3, <2>4, <3>1 DEF IndInv, LocalInv
  <2>5. LocalInv(a)'
    BY <2>2, <2>4 DEF LocalInv, Traceless, ReconcilerFence
  <2> QED
    BY <1>7, <1>a, <2>2, <2>5, NothingElseMoves DEF SecondLook, SelfMoved, StateTypeOK, ActorTypeOK
<1>3. CASE Sift(a)
  <2>1. UNCHANGED attempt /\ UNCHANGED row /\ gen' = gen /\ pc[a] = "sift"
    BY <1>3 DEF Sift, dbVars
  <2>2. PICK x \in todo[a] :
          /\ x.kind # "missing"
          /\ \A y \in todo[a] : Rank[x.kind] <= Rank[y.kind]
          /\ todo' = [todo EXCEPT ![a] = @ \ {x}]
          /\ IF Worthwhile(a, x)
             THEN /\ held' = [held EXCEPT ![a] = Judged(x)]
                  /\ pc' = [pc EXCEPT ![a] = IF x.kind \in LeaseKinds THEN "clear" ELSE "record"]
             ELSE UNCHANGED <<held, pc>>
    BY <1>3 DEF Sift
  <2>3. Judged(x).kind = x.kind /\ Judged(x).job = x.job
    BY DEF Judged
  <2>4. ReconcilerFence(a) => \A y \in todo[a] : y.kind = "unseen" => Traceless(y.job)
    BY <2>1 DEF IndInv, LocalInv
  <2>5. todo'[a] \subseteq todo[a] /\ x.kind \in {"unseen", "ownerless", "owned", "progress"}
    BY <1>a, <2>2 DEF StateTypeOK, ActorTypeOK, Item
  <2>6. x.kind # "unseen" => \A y \in todo[a] : y.kind \notin {"missing", "unseen"}
    BY <2>2, <2>5 DEF Rank
  <2>7. LocalInv(a)'
    <3>1. CASE Worthwhile(a, x)
      <4>1. /\ pc'[a] \in {"clear", "record"} /\ held'[a] = Judged(x)
            /\ pc'[a] = "clear" => x.kind \in LeaseKinds
        BY <1>a, <2>2, <3>1 DEF StateTypeOK, ActorTypeOK
      <4> QED
        BY <2>1, <2>2, <2>3, <2>4, <2>5, <2>6, <4>1 DEF LocalInv, Traceless, ReconcilerFence
    <3>2. CASE ~Worthwhile(a, x)
      BY <2>1, <2>2, <2>4, <2>5, <3>2 DEF LocalInv, Traceless, ReconcilerFence
    <3> QED
      BY <3>1, <3>2
  <2> QED
    BY <1>3, <1>a, <2>1, <2>2, <2>7, NothingElseMoves
       DEF Sift, SelfMoved, StateTypeOK, ActorTypeOK, dbVars
<1>4. CASE Clear(a) \/ Delete(a)
  <2>1. UNCHANGED attempt /\ pc[a] \in {"clear", "delete"}
    BY <1>4 DEF Clear, Delete, dbVars
  <2>2. held[a].kind \in LeaseKinds
    BY <2>1 DEF IndInv, LocalInv
  <2>4. \A x \in todo[a] : x.kind \notin {"missing", "unseen"}
    BY <2>1, <2>2 DEF IndInv, LocalInv, LeaseKinds
  <2>3. ASSUME NEW where \in {"delete", "record"}, Goto(a, where) PROVE SelfMoved(a)
    <3>1. LocalInv(a)'
      BY <1>a, <2>2, <2>3, <2>4 DEF Goto, LocalInv, StateTypeOK, ActorTypeOK, LeaseKinds
    <3> QED
      BY <1>a, <2>3, <3>1 DEF Goto, SelfMoved, StateTypeOK, ActorTypeOK
  <2> QED
    BY <1>4, <1>a, <2>1, <2>3, <2>4, DropMoves, NothingElseMoves DEF Clear, Delete
<1>5. CASE Record(a)
  <2>1. pc'[a] = "sift" /\ pc[a] = "record" /\ gen' = gen
    BY <1>5, <1>a DEF Record, Drop, StateTypeOK, ActorTypeOK
  <2> DEFINE x == held[a]
             t == Target(a, x)
  <2>2. ASSUME NEW i \in Invocations, NEW j \in Jobs, attempt'[i][j] # attempt[i][j]
        PROVE  /\ i = t /\ j = x.job
               /\ ReconcilerFence(a) /\ Settles(a, x, attempt[i][j])
               /\ attempt'[i][j] = SyntheticStatus(a, x)
    BY <1>5, <1>a, <2>2 DEF Record, StateTypeOK, DbTypeOK
  <2>3. ASSUME NEW i \in Invocations, NEW j \in Jobs, attempt'[i][j] # attempt[i][j]
        PROVE  AttemptMoved(a, i, j)
    <3>1. /\ i = t /\ j = x.job
          /\ ReconcilerFence(a) /\ Settles(a, x, attempt[i][j])
          /\ attempt'[i][j] = SyntheticStatus(a, x)
      BY <2>2, <2>3
    <3>2. attempt[i][j] \in Open \cup {"none"}
      BY <3>1 DEF Settles
    <3>3. SyntheticStatus(a, x) \in {"abandoned", "notStarted", "unknown"}
      BY DEF SyntheticStatus
    <3>4. SyntheticStatus(a, x) # "abandoned" => attempt[i][j] = "none"
      BY <2>1, <3>1, <3>2 DEF SyntheticStatus, IndInv, LocalInv, Traceless, Open
    <3> QED
      BY <1>b, <2>1, <3>1, <3>2, <3>3, <3>4 DEF AttemptMoved
  <2>4. ASSUME ReconcilerFence(a)', NEW y \in todo[a], y.kind = "unseen"
        PROVE  Traceless(y.job)'
    <3>1. ReconcilerFence(a)
      BY <1>b, <2>1, <2>4 DEF ReconcilerFence
    <3>2. Traceless(y.job) /\ x.kind = "unseen"
      BY <2>1, <2>4, <3>1 DEF IndInv, LocalInv
    <3>3. SyntheticStatus(a, x) \in {"notStarted", "unknown"}
      BY <3>2 DEF SyntheticStatus
    <3> QED
      BY <2>2, <3>2, <3>3 DEF Traceless
  <2>5. SelfMoved(a)
    BY <1>5, <1>a, <2>4, DropMoves DEF Record
  <2> QED
    BY <2>3, <2>5 DEF AttemptsMoved
<1>6. CASE Reconciled(a)
  BY <1>6, <1>a, GotoMoves, NothingElseMoves DEF Reconciled
<1> QED
  BY <1>1, <1>2, <1>3, <1>4, <1>5, <1>6, <1>7 DEF Reconcile

(* A write of the row that closes it leaves a settled abandonment or an    *)
(* honest success.                                                         *)
LEMMA OpenRowMoves ==
    ASSUME NEW a, row'.owner = a, row'.inv \in Invocations, row'.state \in {"running", "reconciling"}, UNCHANGED attempt,
           \/ (row.state = "finished" => row.result = "stale") /\ row'.gen = row.gen + 1
           \/ row.state = row'.state /\ row.owner = a /\ row'.gen = row.gen
    PROVE  RowKeptOrMoved(a)
  BY DEF RowKeptOrMoved, RowMoved, AbandonedIsSettled, SuccessIsReal

(* So are the steps of a sweeping host.                                    *)
LEMMA HostMoves ==
    ASSUME IndInv, NEW s \in Sweepers, NEW answered \in BOOLEAN, HostStep(s, answered)
    PROVE  StepOf(s)
<1>a. s \in Actors /\ StateTypeOK
  BY DEF Actors, IndInv
<1>b. UNCHANGED child /\ UNCHANGED attempt
  BY DEF HostStep, ListStale, ClaimStale, FinishStale, SweeperCrash, dbVars
<1> SUFFICES SelfMoved(s) /\ RowKeptOrMoved(s)
  BY <1>b, NothingElseMoves DEF StepOf
<1>1. CASE ListStale(s)
  BY <1>1, <1>a, NothingElseMoves DEF ListStale, SelfMoved, LocalInv, StateTypeOK, ActorTypeOK
<1>2. CASE ClaimStale(s, answered)
  <2>1. CASE UNCHANGED row /\ Leave(s)
    BY <1>a, <2>1, LeaveMoves, NothingElseMoves
  <2>2. ASSUME row.state = seen[s].state, SameAsSeen(s),
               row' = [row EXCEPT !.state = "reconciling", !.owner = s,
                                  !.gen = seen[s].gen + 1, !.updatedAt = at[s]],
               IF answered THEN Admit(s, seen[s].gen + 1, "list") ELSE Leave(s)
        PROVE  SelfMoved(s) /\ RowKeptOrMoved(s)
    <3>1. row.state \in {"running", "reconciling"}
      BY <1>2, <1>a, <2>2 DEF ClaimStale, IndInv, LocalInv
    <3>2. /\ row'.state = "reconciling" /\ row'.owner = s
          /\ row'.gen = seen[s].gen + 1 /\ seen[s].gen = row.gen
          /\ row'.inv \in Invocations
      BY <1>a, <2>2, <3>1 DEF SameAsSeen, StateTypeOK, DbTypeOK, Row, IndInv, FenceInv
    <3> QED
      BY <1>a, <1>b, <2>2, <3>1, <3>2, OpenRowMoves, AdmitMoves, LeaveMoves
  <2> QED
    BY <1>2, <2>1, <2>2 DEF ClaimStale
<1>3. CASE FinishStale(s)
  <2>1. SelfMoved(s)
    BY <1>3, <1>a, LeaveMoves DEF FinishStale
  <2>2. ASSUME ReconcilerFence(s), ~AnyOpenAttempt,
               row' = [row EXCEPT !.state = "finished", !.result = "stale", !.updatedAt = at[s]]
        PROVE  RowKeptOrMoved(s)
    <3>1. row.state = "reconciling" /\ row.owner = s
      BY <1>a, <2>2 DEF ReconcilerFence
    <3>2. /\ row'.state = "finished" /\ row'.result = "stale"
          /\ row'.owner = s /\ row'.gen = row.gen /\ row'.inv \in Invocations
      BY <1>a, <2>2, <3>1 DEF StateTypeOK, DbTypeOK, Row, IndInv, FenceInv
    <3>3. AbandonedIsSettled'
      BY <1>b, <2>2 DEF AbandonedIsSettled, AnyOpenAttempt, OpenAttempt, Open
    <3> QED
      BY <1>b, <3>1, <3>2, <3>3 DEF RowKeptOrMoved, RowMoved, SuccessIsReal
  <2> QED
    BY <1>3, <2>1, <2>2, NothingElseMoves DEF FinishStale
<1>4. CASE SweeperCrash(s)
  BY <1>4, <1>a, LeaveMoves, NothingElseMoves DEF SweeperCrash
<1> QED
  BY <1>1, <1>2, <1>3, <1>4 DEF HostStep

(* So are the steps of a delivery that owns the slot.                      *)
LEMMA OwnMoves ==
    ASSUME IndInv, NEW i \in Invocations, NEW answered \in BOOLEAN, OwnStep(i, answered)
    PROVE  StepOf(i)
<1>a. i \in Actors /\ StateTypeOK /\ (i \in Sweepers => FALSE)
  BY ActorAssumption DEF Actors, IndInv
<1>b. UNCHANGED attempt
  BY DEF OwnStep, Heartbeat, AbortRun, EndDrain, WorkDone, Finish, FinishError, Cleanup,
     FinishFails, Crash, PlatformKill, dbVars
<1>c. ChildrenMoved
  <2>1. CASE UNCHANGED child
    BY <2>1, NothingElseMoves
  <2>2. CASE KillChildren(i)
    BY <1>a, <2>2 DEF KillChildren, ChildrenMoved, ChildMoved, StateTypeOK
  <2> QED
    BY <2>1, <2>2 DEF OwnStep, Heartbeat, AbortRun, EndDrain, WorkDone, Finish, FinishError,
       Cleanup, FinishFails, Crash, PlatformKill
<1> SUFFICES SelfMoved(i) /\ RowKeptOrMoved(i)
  BY <1>b, <1>c, NothingElseMoves DEF StepOf
<1>1. CASE Heartbeat(i)
  <2>1. ASSUME FenceHeld(i), row' = [row EXCEPT !.updatedAt = now], UNCHANGED actorVars,
               pc[i] \in {"run", "drain"}
        PROVE  SelfMoved(i) /\ RowKeptOrMoved(i)
    <3>1. /\ row.state = "running" /\ row'.state = "running"
          /\ row.owner = i /\ row'.owner = i /\ row'.gen = row.gen /\ row'.inv = i
      BY <1>a, <2>1 DEF FenceHeld, StateTypeOK, DbTypeOK, Row
    <3> QED
      BY <1>a, <1>b, <2>1, <3>1, OpenRowMoves DEF actorVars, SelfMoved, LocalInv
  <2> QED
    BY <1>1, <1>a, <2>1, GotoMoves, NothingElseMoves DEF Heartbeat
<1>2. CASE AbortRun(i)
  BY <1>2, <1>a, GotoMoves, NothingElseMoves DEF AbortRun
<1>3. CASE EndDrain(i)
  BY <1>3, <1>a, GotoMoves, NothingElseMoves DEF EndDrain
<1>4. CASE WorkDone(i)
  BY <1>4, <1>a, GotoMoves, NothingElseMoves DEF WorkDone
<1>d. ASSUME NEW result \in {"ok", "error"}, FenceHeld(i),
             result = "ok" => \A j \in Jobs : child[i][j] = "done",
             row' = [row EXCEPT !.state = "finished", !.result = result,
                                !.updatedAt = now, !.catchUp = i \in CatchUps]
      PROVE  RowKeptOrMoved(i)
  <2>1. /\ row.state = "running" /\ row.owner = i /\ row.inv = i
        /\ row'.state = "finished" /\ row'.result = result
        /\ row'.owner = i /\ row'.gen = row.gen /\ row'.inv = i
    BY <1>a, <1>d DEF FenceHeld, StateTypeOK, DbTypeOK, Row
  <2>2. SuccessIsReal'
    BY <1>b, <1>d, <2>1 DEF SuccessIsReal, IndInv, JobInv
  <2> QED
    BY <1>b, <2>1, <2>2 DEF RowKeptOrMoved, RowMoved, AbandonedIsSettled
<1>5. CASE Finish(i, answered)
  <2>1. SelfMoved(i)
    BY <1>5, <1>a, ForgetMoves DEF Finish
  <2> QED
    BY <1>5, <1>d, <2>1, NothingElseMoves DEF Finish, Finishable
<1>6. CASE FinishError(i)
  <2>1. SelfMoved(i)
    BY <1>6, <1>a, ForgetMoves DEF FinishError
  <2> QED
    BY <1>6, <1>d, <2>1, NothingElseMoves DEF FinishError, Finishable
<1>7. CASE Cleanup(i)
  <2>1. SelfMoved(i)
    BY <1>7, <1>a, ForgetMoves DEF Cleanup
  <2>2. ASSUME row.state = "running", row.owner = i,
               row' = [row EXCEPT !.state = "finished", !.result = "error",
                                  !.gen = @ + 1, !.updatedAt = now]
        PROVE  RowKeptOrMoved(i)
    <3>1. /\ row'.state = "finished" /\ row'.result = "error"
          /\ row'.owner = i /\ row'.gen = row.gen + 1 /\ row'.inv \in Invocations
      BY <1>a, <2>2 DEF StateTypeOK, DbTypeOK, Row, IndInv, FenceInv
    <3> QED
      BY <1>b, <2>2, <3>1 DEF RowKeptOrMoved, RowMoved, AbandonedIsSettled, SuccessIsReal
  <2> QED
    BY <1>7, <2>1, <2>2, NothingElseMoves DEF Cleanup
<1>8. CASE FinishFails(i)
  BY <1>8, <1>a, ForgetMoves, NothingElseMoves DEF FinishFails
<1>9. CASE Crash(i) \/ PlatformKill(i)
  BY <1>9, <1>a, ForgetMoves, NothingElseMoves DEF Crash, PlatformKill
<1> QED
  BY <1>1, <1>2, <1>3, <1>4, <1>5, <1>6, <1>7, <1>8, <1>9 DEF OwnStep

(* A child's step never touches its invocation's local state.              *)
LEMMA JobSelfMoves ==
    ASSUME IndInv, NEW i \in Invocations, UNCHANGED <<row, actorVars>>, AttemptsMoved(i)
    PROVE  SelfMoved(i)
<1>a. i \in Actors /\ LocalInv(i)
  BY DEF Actors, IndInv
<1>1. pc[i] = "record" => pc'[i] # "run" /\ pc'[i] # "sift"
  BY DEF actorVars
<1>2. LocalInv(i)'
  BY <1>a, <1>1 DEF LocalInv, Traceless, AttemptsMoved, AttemptMoved, actorVars, Open, ReconcilerFence
<1> QED
  BY <1>2 DEF SelfMoved, actorVars

(* So are the steps of a child.                                            *)
LEMMA JobMoves ==
    ASSUME IndInv, NEW i \in Invocations, NEW j \in Jobs,
           NEW first \in BOOLEAN, NEW second \in BOOLEAN, JobStep(i, j, first, second)
    PROVE  StepOf(i)
<1>a. StateTypeOK /\ i \in Actors
  BY DEF IndInv, Actors
<1>b. UNCHANGED <<row, actorVars>>
  BY DEF JobStep, ChildStart, ChildLease, ChildBody, ChildRenew, ChildReport, ChildEnd, ChildTerminal
<1> SUFFICES AttemptsMoved(i) /\ ChildrenMoved
  BY <1>b, JobSelfMoves, NothingElseMoves DEF StepOf
<1>c. ASSUME NEW s, SetChild(i, j, s), ChildMoved(i, j) \/ s = child[i][j]
      PROVE  ChildrenMoved
  BY <1>a, <1>c DEF SetChild, ChildrenMoved, StateTypeOK
<1>d. ASSUME NEW s, SetChild(i, j, s)
      PROVE  child'[i][j] = s
  BY <1>a, <1>d DEF SetChild, StateTypeOK
<1>e. ReportOwner(i, j, first, second) => AttemptsMoved(i)
  BY <1>a, <1>b DEF ReportOwner, AttemptsMoved, AttemptMoved, StateTypeOK, DbTypeOK
<1>1. CASE ChildStart(i, j, first)
  <2>1. AttemptsMoved(i)
    BY <1>1, <1>a, <1>b DEF ChildStart, AttemptsMoved, AttemptMoved, StateTypeOK, DbTypeOK, actorVars
  <2>2. ASSUME SetChild(i, j, "refused") PROVE ChildrenMoved
    BY <1>1, <1>c, <1>d, <2>2 DEF ChildStart, ChildMoved
  <2>3. ASSUME SetChild(i, j, "started"), FenceHeld(i), attempt[i][j] \notin Terminal
        PROVE  ChildrenMoved
    <3>1. attempt'[i][j] \in Open
      BY <1>1, <1>a, <2>3 DEF ChildStart, StateTypeOK, DbTypeOK, AttemptStatus, Open
    <3> QED
      BY <1>1, <1>c, <1>d, <2>3, <3>1 DEF ChildStart, ChildMoved
  <2> QED
    BY <1>1, <2>1, <2>2, <2>3 DEF ChildStart
<1>2. CASE ChildLease(i, j, first, second)
  BY <1>2, <1>c, <1>d, <1>e, NothingElseMoves DEF ChildLease, ChildMoved, Active
<1>3. CASE ChildBody(i, j, first, second)
  BY <1>3, <1>c, <1>d, <1>e, NothingElseMoves DEF ChildBody, ChildMoved, Active
<1>4. CASE ChildRenew(i, j)
  BY <1>4, <1>c, <1>d, NothingElseMoves DEF ChildRenew, ChildMoved, Active
<1>5. CASE ChildReport(i, j)
  BY <1>5, NothingElseMoves DEF ChildReport
<1>6. CASE ChildEnd(i, j, first)
  BY <1>6, <1>c, <1>d, NothingElseMoves DEF ChildEnd, ChildMoved, Active
<1>7. CASE ChildTerminal(i, j, first, second)
  <2>1. CASE SetChild(i, j, "lost") /\ UNCHANGED attempt
    BY <1>7, <1>c, <1>d, <2>1, NothingElseMoves DEF ChildTerminal, ChildMoved, Active
  <2>2. CASE /\ FenceHeld(i) /\ attempt[i][j] \in Open
             /\ attempt' = [attempt EXCEPT ![i][j] = "real"] /\ SetChild(i, j, "done")
    <3>1. AttemptsMoved(i) /\ attempt'[i][j] = "real"
      BY <1>a, <1>b, <2>2 DEF AttemptsMoved, AttemptMoved, StateTypeOK, DbTypeOK
    <3> QED
      BY <1>7, <1>c, <1>d, <2>2, <3>1 DEF ChildTerminal, ChildMoved, Active
  <2> QED
    BY <1>7, <2>1, <2>2 DEF ChildTerminal
<1> QED
  BY <1>1, <1>2, <1>3, <1>4, <1>5, <1>6, <1>7 DEF JobStep

(***************************************************************************)
(* The invariant is inductive.                                             *)
(***************************************************************************)

(* Every step but the clock's is a step of one actor.                      *)
LEMMA StepIsSomebodys ==
    ASSUME IndInv, Next
    PROVE  Tick \/ \E a \in Actors : StepOf(a)
  BY NextIsSomeStep, ReconcilingMoves, ClaimingMoves, HostMoves, OwnMoves, JobMoves
     DEF SomeStep, Actors

(* A stutter, or the clock, keeps the invariant.                           *)
LEMMA NoStepKeeps ==
    ASSUME IndInv, UNCHANGED <<row, attempt, pc, seen, gen, todo, held, child>>
    PROVE  /\ FenceInv' /\ (\A a \in Actors : LocalInv(a))' /\ JobInv'
           /\ AbandonedIsSettled' /\ SuccessIsReal'
  BY DEF IndInv, FenceInv, GenerationsDistinct, LocalInv, Traceless, ReconcilerFence, JobInv,
     NotStartedNeverRan, AbandonedIsSettled, SuccessIsReal

(* Generations: a step hands out the row's next one, or none.              *)
LEMMA FenceInvKept ==
    ASSUME IndInv, StateTypeOK', NEW a \in Actors, StepOf(a)
    PROVE  FenceInv'
<1> DEFINE Newer == row'.gen = row.gen + 1 /\ row'.owner = a
           Same  == row'.gen = row.gen /\ row'.owner = row.owner
<1>1. /\ row.gen \in Nat /\ row'.gen \in Nat
      /\ \A b \in Actors : gen[b] \in Nat /\ gen'[b] \in Nat
  BY DEF IndInv, StateTypeOK, DbTypeOK, ActorTypeOK, Row
<1>2. Newer \/ Same
  BY DEF StepOf, RowKeptOrMoved, RowMoved
<1>3. row'.state = "absent" => row'.gen = 0
  BY DEF StepOf, RowKeptOrMoved, RowMoved, IndInv, FenceInv
<1>4. \A b \in Actors \ {a} : gen'[b] = gen[b]
  BY DEF StepOf, SelfMoved
<1>5. gen'[a] \in {0, gen[a]} \/ (gen'[a] = row'.gen /\ row'.owner = a)
  BY DEF StepOf, SelfMoved
<1>9. row'.state # "absent" => row'.inv \in Invocations
  BY DEF StepOf, RowKeptOrMoved, RowMoved, IndInv, FenceInv
<1>6. \A b \in Actors : gen'[b] <= row'.gen
  BY <1>1, <1>2, <1>4, <1>5 DEF IndInv, FenceInv
<1>7. \A b \in Actors : gen'[b] > 0 /\ gen'[b] = row'.gen => row'.owner = b
  BY <1>1, <1>2, <1>4, <1>5 DEF IndInv, FenceInv
<1>8. GenerationsDistinct'
  <2>1. ASSUME NEW b \in Actors, NEW c \in Actors, gen'[b] > 0, gen'[b] = gen'[c]
        PROVE  b = c
    <3>1. CASE gen'[b] = row'.gen
      BY <1>7, <2>1, <3>1
    <3>2. CASE gen'[b] # row'.gen
      <4>1. gen'[b] = gen[b] /\ gen'[c] = gen[c]
        BY <1>1, <1>4, <1>5, <2>1, <3>2
      <4> QED
        BY <2>1, <4>1 DEF IndInv, FenceInv, GenerationsDistinct
    <3> QED
      BY <3>1, <3>2
  <2> QED
    BY <2>1 DEF GenerationsDistinct
<1> QED
  BY <1>3, <1>6, <1>7, <1>8, <1>9 DEF FenceInv

(* What other actors have read stays good enough.                          *)
LEMMA LocalInvKept ==
    ASSUME IndInv, NEW a \in Actors, StepOf(a), NEW b \in Actors
    PROVE  LocalInv(b)'
<1>1. CASE a = b
  BY <1>1 DEF StepOf, SelfMoved
<1>2. CASE a # b
  <2>1. /\ pc'[b] = pc[b] /\ seen'[b] = seen[b] /\ gen'[b] = gen[b]
        /\ todo'[b] = todo[b] /\ held'[b] = held[b]
    BY <1>2 DEF StepOf, SelfMoved
  <2>2. LocalInv(b)
    BY DEF IndInv
  <2>3. ASSUME ReconcilerFence(b)', NEW job, ReconcilerFence(b) => Traceless(job)
        PROVE  Traceless(job)'
    <3> SUFFICES ASSUME NEW i \in Invocations, NEW j \in Jobs, j = job
                 PROVE  attempt'[i][j] \in {"none", "notStarted", "unknown"}
      BY DEF Traceless
    <3>1. row' = row
      BY <1>2, <2>3 DEF StepOf, RowKeptOrMoved, RowMoved, ReconcilerFence
    <3>2. ReconcilerFence(b)
      BY <2>1, <2>3, <3>1 DEF ReconcilerFence
    <3>3. attempt[i][j] \in {"none", "notStarted", "unknown"}
      BY <2>3, <3>2 DEF Traceless
    <3>4. ~AttemptMoved(a, i, j)
      BY <1>2, <3>2, <3>3 DEF AttemptMoved, ReconcilerFence, FenceHeld, Open
    <3> QED
      BY <3>3, <3>4 DEF StepOf, AttemptsMoved
  <2>4. ASSUME pc'[b] = "record", held'[b].kind = "unseen", ReconcilerFence(b)'
        PROVE  Traceless(held[b].job)'
    <3>1. ReconcilerFence(b) => Traceless(held[b].job)
      BY <2>1, <2>2, <2>4 DEF LocalInv
    <3> QED
      BY <2>1, <2>3, <2>4, <3>1 DEF Traceless
  <2>5. ASSUME pc'[b] \in {"sift", "record"}, ReconcilerFence(b)', NEW x \in todo'[b], x.kind = "unseen"
        PROVE  Traceless(x.job)'
    <3>1. ReconcilerFence(b) => Traceless(x.job)
      BY <2>1, <2>2, <2>5 DEF LocalInv
    <3> QED
      BY <2>3, <2>5, <3>1 DEF Traceless
  <2> QED
    BY <2>1, <2>2, <2>4, <2>5 DEF LocalInv
<1> QED
  BY <1>1, <1>2

(* Children and attempts stay in step.                                     *)
LEMMA JobInvKept ==
    ASSUME IndInv, NEW a \in Actors, StepOf(a)
    PROVE  JobInv'
<1>1. ASSUME NEW i \in Invocations, NEW j \in Jobs
      PROVE  /\ child'[i][j] = "done" => attempt'[i][j] = "real"
             /\ child'[i][j] \notin {"none", "refused"} => attempt'[i][j] # "none"
             /\ attempt'[i][j] \in {"notStarted", "unknown"} => child'[i][j] \in {"none", "refused"}
  <2>1. /\ child[i][j] = "done" => attempt[i][j] = "real"
        /\ child[i][j] \notin {"none", "refused"} => attempt[i][j] # "none"
        /\ attempt[i][j] \in {"notStarted", "unknown"} => child[i][j] \in {"none", "refused"}
    BY DEF IndInv, JobInv, NotStartedNeverRan
  <2>2. attempt'[i][j] = attempt[i][j] \/ AttemptMoved(a, i, j)
    BY DEF StepOf, AttemptsMoved
  <2>3. child'[i][j] = child[i][j] \/ ChildMoved(i, j)
    BY DEF StepOf, ChildrenMoved
  <2> QED
    BY <2>1, <2>2, <2>3 DEF AttemptMoved, ChildMoved, Open, Active
<1> QED
  BY <1>1 DEF JobInv, NotStartedNeverRan

(* A closed row keeps what its close required.                             *)
LEMMA ClosedRowKept ==
    ASSUME IndInv, StateTypeOK', NEW a \in Actors, StepOf(a)
    PROVE  AbandonedIsSettled' /\ SuccessIsReal'
<1>1. CASE RowMoved(a)
  BY <1>1 DEF RowMoved
<1>2. CASE row' = row
  <2>1. ASSUME NEW i \in Invocations, NEW j \in Jobs, row.state = "finished",
               attempt'[i][j] \in Open
        PROVE  attempt[i][j] \in Open
    BY <2>1 DEF StepOf, AttemptsMoved, AttemptMoved, FenceHeld, Open
  <2>2. ASSUME NEW i \in Invocations, NEW j \in Jobs, attempt[i][j] = "real"
        PROVE  attempt'[i][j] = "real"
    BY <2>2 DEF StepOf, AttemptsMoved, AttemptMoved, Open
  <2>3. AbandonedIsSettled'
    BY <1>2, <2>1 DEF IndInv, AbandonedIsSettled, Open
  <2>4. SuccessIsReal'
    <3> SUFFICES ASSUME row.state = "finished", row.result = "ok", NEW j \in Jobs
                 PROVE  attempt'[row.inv][j] = "real"
      BY <1>2 DEF SuccessIsReal
    <3>1. attempt[row.inv][j] = "real" /\ row.inv \in Invocations
      BY DEF IndInv, SuccessIsReal, FenceInv
    <3> QED
      BY <2>2, <3>1
  <2> QED
    BY <2>3, <2>4
<1> QED
  BY <1>1, <1>2 DEF StepOf, RowKeptOrMoved

(* The invariant holds in every state: what the statements of claims,      *)
(* sweeps, closes and children check is enough for it.                     *)
THEOREM InvariantHolds == Spec => []IndInv
<1>1. Init => IndInv
  <2> SUFFICES ASSUME Init PROVE IndInv
    OBVIOUS
  <2>1. StateTypeOK
    BY InitTyped DEF TypeOK, StateTypeOK
  <2>2. row.state = "absent" /\ row.gen = 0
    BY DEF Init, NoRow
  <2>3. FenceInv
    BY <2>2 DEF Init, FenceInv, GenerationsDistinct
  <2>4. (\A a \in Actors : LocalInv(a)) /\ JobInv
    BY DEF Init, LocalInv, JobInv, NotStartedNeverRan
  <2> QED
    BY <2>1, <2>2, <2>3, <2>4 DEF IndInv, AbandonedIsSettled, SuccessIsReal
<1>2. IndInv /\ [Next]_vars => IndInv'
  <2> SUFFICES ASSUME IndInv, [Next]_vars PROVE IndInv'
    OBVIOUS
  <2>1. StateTypeOK'
    BY StepTyped DEF IndInv
  <2>2. CASE UNCHANGED vars \/ Tick
    <3>1. UNCHANGED <<row, attempt, pc, seen, gen, todo, held, child>>
      BY <2>2 DEF vars, dbVars, actorVars, Tick
    <3> QED
      BY <2>1, <3>1, NoStepKeeps DEF IndInv
  <2>3. ASSUME NEW a \in Actors, StepOf(a) PROVE IndInv'
    BY <2>1, <2>3, FenceInvKept, LocalInvKept, JobInvKept, ClosedRowKept DEF IndInv
  <2> QED
    BY <2>2, <2>3, StepIsSomebodys
<1> QED
  BY <1>1, <1>2, PTL DEF Spec

(***************************************************************************)
(* The properties.                                                         *)
(***************************************************************************)

(* No two actors ever work under the same execution generation, whatever   *)
(* answers claimScheduledSlotExecution and the sweep lose.                 *)
THEOREM GenerationsAreDistinct == Spec => []GenerationsDistinct
<1>1. IndInv => GenerationsDistinct
  BY DEF IndInv, FenceInv
<1> QED
  BY <1>1, InvariantHolds, PTL

(* A slot that says ok has a real terminal of every child.                 *)
THEOREM SuccessesAreReal == Spec => []SuccessIsReal
<1>1. IndInv => SuccessIsReal
  BY DEF IndInv
<1> QED
  BY <1>1, InvariantHolds, PTL

(* A child that the ledger calls not started never ran.                    *)
THEOREM NotStartedNeverRuns == Spec => []NotStartedNeverRan
<1>1. IndInv => NotStartedNeverRan
  BY DEF IndInv, JobInv
<1> QED
  BY <1>1, InvariantHolds, PTL

(* A slot closed as abandoned left no attempt open.                        *)
THEOREM AbandonedSlotsAreSettled == Spec => []AbandonedIsSettled
<1>1. IndInv => AbandonedIsSettled
  BY DEF IndInv
<1> QED
  BY <1>1, InvariantHolds, PTL

(* The terminal a slot's own invocation wrote is never touched again.      *)
THEOREM OwnTerminalsStay == Spec => OwnTerminalStays
<1>1. IndInv /\ [Next]_vars =>
        [row.state = "finished" /\ row.result \in {"ok", "error"} => row' = row]_vars
  <2> SUFFICES ASSUME IndInv, Next, row.state = "finished", row.result \in {"ok", "error"}
               PROVE  row' = row
    BY DEF vars, dbVars
  <2>1. CASE Tick
    BY <2>1 DEF Tick, dbVars
  <2>2. ASSUME NEW a \in Actors, StepOf(a) PROVE row' = row
    BY <2>2 DEF StepOf, RowKeptOrMoved, RowMoved
  <2> QED
    BY <2>1, <2>2, StepIsSomebodys
<1> QED
  BY <1>1, InvariantHolds, PTL DEF Spec, OwnTerminalStays

(* A real terminal is accepted only from the newest admission.             *)
THEOREM SupersededWriteNothing == Spec => SupersededWritesNothing
<1>1. IndInv /\ [Next]_vars =>
        [\A i \in Invocations, j \in Jobs :
           attempt[i][j] # "real" /\ attempt'[i][j] = "real" =>
             \A a \in Actors : gen[a] <= gen[i]]_vars
  <2> SUFFICES ASSUME IndInv, Next, NEW i \in Invocations, NEW j \in Jobs,
                      attempt[i][j] # "real", attempt'[i][j] = "real"
               PROVE  \A a \in Actors : gen[a] <= gen[i]
    BY DEF vars, dbVars
  <2>1. CASE Tick
    BY <2>1 DEF Tick, dbVars
  <2>2. ASSUME NEW a \in Actors, StepOf(a) PROVE FenceHeld(i)
    BY <2>2 DEF StepOf, AttemptsMoved, AttemptMoved
  <2> QED
    BY <2>1, <2>2, StepIsSomebodys DEF IndInv, FenceInv, FenceHeld
<1> QED
  BY <1>1, InvariantHolds, PTL DEF Spec, SupersededWritesNothing

(* The first terminal of an attempt wins, whoever wrote it.                *)
THEOREM FirstTerminalsWin == Spec => FirstTerminalWins
<1>1. IndInv /\ [Next]_vars =>
        [\A i \in Invocations, j \in Jobs :
           attempt[i][j] \in Terminal => attempt'[i][j] = attempt[i][j]]_vars
  <2> SUFFICES ASSUME IndInv, Next, NEW i \in Invocations, NEW j \in Jobs,
                      attempt[i][j] \in Terminal
               PROVE  attempt'[i][j] = attempt[i][j]
    BY DEF vars, dbVars
  <2>1. CASE Tick
    BY <2>1 DEF Tick, dbVars
  <2>2. ASSUME NEW a \in Actors, StepOf(a) PROVE attempt'[i][j] = attempt[i][j]
    BY <2>2 DEF StepOf, AttemptsMoved, AttemptMoved, Open, Terminal
  <2> QED
    BY <2>1, <2>2, StepIsSomebodys
<1> QED
  BY <1>1, InvariantHolds, PTL DEF Spec, FirstTerminalWins

(***************************************************************************)
(* Leases.  The instants that actors captured are never ahead of the clock *)
(* (AtInv), so a lease that was dead at one of them is dead now.           *)
(***************************************************************************)
AtInv == \A a \in Actors : at[a] <= now

(* The clock value that an actor works with is dropped, kept or read.      *)
LEMMA LocalAtMoves ==
    ASSUME StateTypeOK, NEW a \in Actors, NEW g, NEW where,
           \/ Forget(a, where) \/ Leave(a) \/ Goto(a, where) \/ Admit(a, g, where)
           \/ SeeRow(a, where) \/ Drop(a) \/ UNCHANGED at
    PROVE  \A b \in Actors : at'[b] \in {0, at[b], now}
  BY DEF StateTypeOK, ActorTypeOK, Forget, Leave, Goto, Admit, SeeRow, Drop

(* Every step treats it so.                                                *)
LEMMA AtMoves ==
    ASSUME StateTypeOK, Next
    PROVE  \A b \in Actors : at'[b] \in {0, at[b], now}
<1>1. CASE Tick
  BY <1>1 DEF Tick, actorVars
<1>2. ASSUME NEW a \in Actors, Probe(a) \/ Reconcile(a)
      PROVE  \A b \in Actors : at'[b] \in {0, at[b], now}
  BY <1>2, LocalAtMoves DEF Reconcile, Probe, List, SecondLook, Sift, Clear, Delete, Record, Reconciled
<1>3. ASSUME NEW i \in Invocations, NEW answered \in BOOLEAN, ClaimStep(i, answered)
      PROVE  \A b \in Actors : at'[b] \in {0, at[b], now}
  <2>a. i \in Actors
    BY DEF Actors
  <2>1. CASE Enter(i)
    BY <2>1, <2>a DEF Enter, StateTypeOK, ActorTypeOK
  <2>2. CASE ~Enter(i)
    BY <1>3, <2>2, <2>a, LocalAtMoves DEF ClaimStep, Insert, RereadScheduled, RereadCatchUp,
       Takeover, Reopen, Confirm, Stamp, AbortClaim
  <2> QED
    BY <2>1, <2>2
<1>4. ASSUME NEW s \in Sweepers, NEW answered \in BOOLEAN, HostStep(s, answered)
      PROVE  \A b \in Actors : at'[b] \in {0, at[b], now}
  <2>a. s \in Actors
    BY DEF Actors
  <2>1. CASE ListStale(s)
    BY <2>1, <2>a DEF ListStale, StateTypeOK, ActorTypeOK
  <2>2. CASE ~ListStale(s)
    BY <1>4, <2>2, <2>a, LocalAtMoves DEF HostStep, ClaimStale, FinishStale, SweeperCrash
  <2> QED
    BY <2>1, <2>2
<1>5. ASSUME NEW i \in Invocations, NEW answered \in BOOLEAN, OwnStep(i, answered)
      PROVE  \A b \in Actors : at'[b] \in {0, at[b], now}
  BY <1>5, LocalAtMoves DEF Actors, OwnStep, Heartbeat, AbortRun, EndDrain, WorkDone, Finish,
     FinishError, Cleanup, FinishFails, Crash, PlatformKill, actorVars
<1>6. ASSUME NEW i \in Invocations, NEW j \in Jobs, NEW first \in BOOLEAN, NEW second \in BOOLEAN,
             JobStep(i, j, first, second)
      PROVE  \A b \in Actors : at'[b] \in {0, at[b], now}
  BY <1>6 DEF JobStep, ChildStart, ChildLease, ChildBody, ChildRenew, ChildReport, ChildEnd,
     ChildTerminal, actorVars
<1> QED
  BY <1>1, <1>2, <1>3, <1>4, <1>5, <1>6, NextIsSomeStep DEF SomeStep

(* Nobody works with a clock value from the future.                        *)
LEMMA AtInvHolds == Spec => [](TypeOK /\ AtInv)
<1>1. Init => TypeOK /\ AtInv
  BY InitTyped DEF Init, AtInv
<1>2. TypeOK /\ AtInv /\ [Next]_vars => (TypeOK /\ AtInv)'
  <2> SUFFICES ASSUME TypeOK, AtInv, [Next]_vars PROVE AtInv'
    BY StepTypeKept
  <2>1. StateTypeOK /\ StateTypeOK'
    BY StepTyped DEF TypeOK, StateTypeOK
  <2>2. now \in Nat /\ (now' = now \/ now' = now + 1) /\ \A a \in Actors : at[a] \in Nat
    <3>1. CASE Tick
      BY <2>1, <3>1 DEF Tick, StateTypeOK, ActorTypeOK
    <3>2. CASE UNCHANGED now
      BY <2>1, <3>2 DEF StateTypeOK, ActorTypeOK
    <3> QED
      BY <3>1, <3>2, StepKeepsClock
  <2>3. CASE Next
    BY <2>1, <2>2, <2>3, AtMoves DEF AtInv
  <2>4. CASE UNCHANGED vars
    BY <2>4 DEF AtInv, vars, actorVars
  <2> QED
    BY <2>3, <2>4
<1> QED
  BY <1>1, <1>2, PTL DEF Spec

(* What can happen to a lease that is alive.                               *)
LEMMA LiveLeaseKept ==
    ASSUME StateTypeOK, AtInv, Next, NEW i \in Invocations, NEW j \in Jobs, LeaseLive(j, i, now)
    PROVE  lease'[j].holder = i \/ child'[i][j] = "ending"
<1>a. /\ lease[j].holder = i /\ lease[j].until \in Nat /\ lease[j].beat \in Nat
      /\ now \in Nat /\ lease[j].until >= now /\ ChildSilence \in Nat
      /\ lease[j].beat + ChildSilence > now
  BY TimeAssumption DEF StateTypeOK, DbTypeOK, Lease, LeaseLive
<1>b. i # None
  BY ActorAssumption DEF Actors
<1>1. ASSUME NEW a \in Actors, Record(a)
      PROVE  lease'[j].holder = i
  <2>1. at[a] \in Nat /\ at[a] <= now
    BY DEF AtInv, StateTypeOK, ActorTypeOK
  <2>2. LeaseLive(j, i, at[a])
    BY <1>a, <2>1 DEF LeaseLive
  <2>3. lease'[j] = lease[j]
    BY <1>1, <1>a, <2>2 DEF Record, LeaseStillDead, StateTypeOK, DbTypeOK
  <2> QED
    BY <1>a, <2>3
<1>2. ASSUME NEW k \in Invocations, NEW l \in Jobs, NEW first \in BOOLEAN, NEW second \in BOOLEAN,
             JobStep(k, l, first, second)
      PROVE  lease'[j].holder = i \/ child'[i][j] = "ending"
  <2>1. CASE ChildLease(k, l, first, second)
    <3>1. lease' = lease \/ j # l \/ k = i
      BY <1>a, <1>b, <2>1 DEF ChildLease
    <3>2. lease' = lease \/ lease' = [lease EXCEPT ![l] = [holder |-> k, until |-> now + LeaseTtl, beat |-> now]]
      BY <2>1 DEF ChildLease
    <3> QED
      BY <1>a, <3>1, <3>2 DEF StateTypeOK, DbTypeOK
  <2>2. CASE ChildRenew(k, l)
    <3>1. lease' = lease \/ j # l \/ k = i
      BY <1>a, <2>2 DEF ChildRenew
    <3>2. lease' = lease \/ lease' = [lease EXCEPT ![l] = [holder |-> k, until |-> now + LeaseTtl, beat |-> now]]
      BY <2>2 DEF ChildRenew
    <3> QED
      BY <1>a, <3>1, <3>2 DEF StateTypeOK, DbTypeOK
  <2>3. CASE ChildEnd(k, l, first)
    <3>1. child'[k][l] = "ending"
      BY <2>3 DEF ChildEnd, SetChild, StateTypeOK
    <3> QED
      BY <1>a, <2>3, <3>1 DEF ChildEnd, StateTypeOK, DbTypeOK
  <2>4. CASE UNCHANGED lease
    BY <1>a, <2>4
  <2> QED
    BY <1>2, <2>1, <2>2, <2>3, <2>4 DEF JobStep, ChildStart, ChildBody, ChildReport, ChildTerminal
<1>3. CASE UNCHANGED lease
  BY <1>a, <1>3
<1>4. ASSUME NEW a \in Actors, Probe(a) \/ Reconcile(a)
      PROVE  Record(a) \/ UNCHANGED lease
  BY <1>4 DEF Reconcile, Probe, List, SecondLook, Sift, Clear, Delete, Reconciled, dbVars
<1>5. ASSUME NEW k \in Invocations, NEW answered \in BOOLEAN, ClaimStep(k, answered)
      PROVE  UNCHANGED lease
  BY <1>5 DEF ClaimStep, Enter, Insert, RereadScheduled, RereadCatchUp, Takeover, Reopen, Confirm,
     Stamp, AbortClaim, dbVars
<1>6. ASSUME NEW s \in Sweepers, NEW answered \in BOOLEAN, HostStep(s, answered)
      PROVE  UNCHANGED lease
  BY <1>6 DEF HostStep, ListStale, ClaimStale, FinishStale, SweeperCrash, dbVars
<1>7. ASSUME NEW k \in Invocations, NEW answered \in BOOLEAN, OwnStep(k, answered)
      PROVE  UNCHANGED lease
  BY <1>7 DEF OwnStep, Heartbeat, AbortRun, EndDrain, WorkDone, Finish, FinishError, Cleanup,
     FinishFails, Crash, PlatformKill, dbVars
<1>8. Tick => UNCHANGED lease
  BY DEF Tick, dbVars
<1> QED
  BY <1>1, <1>2, <1>3, <1>4, <1>5, <1>6, <1>7, <1>8, NextIsSomeStep DEF SomeStep

(* A lease that is alive leaves its holder only by the holder's own        *)
(* release.                                                                *)
THEOREM LiveLeasesStay == Spec => LiveLeaseStays
<1>1. TypeOK /\ AtInv /\ [Next]_vars =>
        [\A i \in Invocations, j \in Jobs :
           LeaseLive(j, i, now) => lease'[j].holder = i \/ child'[i][j] = "ending"]_vars
  BY LiveLeaseKept DEF TypeOK, StateTypeOK
<1> QED
  BY <1>1, AtInvHolds, PTL DEF Spec, LiveLeaseStays

(***************************************************************************)
(* A live owner keeps its slot.  The stale policy compares what the row    *)
(* says with the instant its reader captured, which is never ahead of the  *)
(* clock (AtInv); and the row of an owner whose heartbeats and statements  *)
(* are in time is at most one tick old, and started when its owner did.    *)
(***************************************************************************)
OwnerInv(i) ==
    /\ pc[i] \in {"idle", "insert"} => row.owner # i
    /\ row.owner = i /\ row.state = "running" /\ pc[i] # "done" =>
         row.startedAt = at[i] /\ row.updatedAt >= at[i]
    /\ Alive(i) => now <= at[i] + Wall
    /\ Timely /\ pc[i] \in ClaimPc => at[i] = now
    /\ Timely /\ FenceHeld(i) /\ pc[i] \in {"run", "drain", "finish"} => row.updatedAt + 1 >= now

OwnersInv == \A i \in Invocations : OwnerInv(i)

Owning == {"run", "drain", "finish"}

(* An actor that moves on without writing the row.                         *)
LEMMA OwnerMovesOn ==
    ASSUME StateTypeOK, NEW i \in Invocations, OwnerInv(i), Alive(i),
           UNCHANGED <<now, row>>,
           pc'[i] = "done" \/ at'[i] = at[i],
           pc'[i] \notin {"idle", "insert"},
           pc'[i] \in ClaimPc => pc[i] \in ClaimPc,
           pc'[i] \in Owning => pc[i] \in Owning /\ gen'[i] = gen[i]
    PROVE  OwnerInv(i)'
<1>1. CASE pc'[i] = "done"
  BY <1>1 DEF OwnerInv, Alive, ClaimPc
<1>2. CASE pc'[i] # "done"
  <2>1. pc[i] \notin {"idle", "done"} /\ at'[i] = at[i]
    BY <1>2 DEF Alive
  <2> QED
    BY <2>1 DEF OwnerInv, Alive, FenceHeld, Owning
<1> QED
  BY <1>1, <1>2

(* A claim dates the row with the clock its issuer read.                   *)
LEMMA OwnerClaims ==
    ASSUME StateTypeOK, NEW i \in Invocations, OwnerInv(i), NEW g,
           UNCHANGED now, row' = ClaimedRow(i, g), pc[i] \in ClaimPc,
           pc'[i] \in {"reread", "confirm", "stamp", "list"}, at'[i] = at[i]
    PROVE  OwnerInv(i)'
<1>1. row'.startedAt = at[i] /\ row'.updatedAt = at[i] /\ at[i] \in Nat
  BY DEF ClaimedRow, StateTypeOK, ActorTypeOK, Actors
<1> QED
  BY <1>1 DEF OwnerInv, Alive, ClaimPc

(* Where an actor goes, and what its clock value then is.                  *)
LEMMA WhereTo ==
    ASSUME StateTypeOK, NEW a \in Actors, NEW where, NEW g
    PROVE  /\ Goto(a, where) => pc'[a] = where /\ at'[a] = at[a] /\ gen'[a] = gen[a]
           /\ SeeRow(a, where) => pc'[a] = where /\ at'[a] = at[a]
           /\ Admit(a, g, where) => pc'[a] = where /\ at'[a] = at[a]
           /\ Drop(a) => pc'[a] = "sift" /\ at'[a] = at[a]
           /\ Forget(a, where) => pc'[a] = where /\ (where \notin {"idle", "done"} => at'[a] = at[a])
           /\ Leave(a) /\ a \notin Sweepers => pc'[a] = "done"
  BY DEF StateTypeOK, ActorTypeOK, Goto, SeeRow, Admit, Drop, Forget, Leave

(* The steps of a claim read the clock once and date the row with it.      *)
LEMMA ClaimingKeepsOwnerInv ==
    ASSUME IndInv, NEW i \in Invocations, OwnerInv(i),
           NEW answered \in BOOLEAN, ClaimStep(i, answered)
    PROVE  OwnerInv(i)'
<1>a. i \in Actors /\ StateTypeOK /\ i \notin Sweepers
  BY ActorAssumption DEF Actors, IndInv
<1>b. UNCHANGED now
  BY DEF ClaimStep, Enter, Insert, RereadScheduled, RereadCatchUp, Takeover,
     Reopen, Confirm, Stamp, AbortClaim
<1>c. ASSUME ~Enter(i) PROVE pc[i] \in ClaimPc /\ Alive(i)
  BY <1>c DEF ClaimStep, Insert, RereadScheduled, RereadCatchUp, Takeover,
     Reopen, Confirm, Stamp, AbortClaim, ClaimPc, Alive
<1>1. CASE Enter(i)
  <2>1. pc'[i] = "insert" /\ at'[i] = now /\ row' = row /\ now \in Nat /\ Wall \in Nat
    BY <1>1, <1>a, TimeAssumption DEF Enter, StateTypeOK, ActorTypeOK, dbVars
  <2>2. row.owner # i
    BY <1>1 DEF Enter, OwnerInv
  <2> QED
    BY <1>b, <2>1, <2>2 DEF OwnerInv
<1>2. CASE /\ UNCHANGED row
           /\ pc'[i] \in {"reread", "stamp", "probe", "list", "reopen", "confirm", "cleanup", "takeover", "done"}
           /\ pc'[i] # "done" => at'[i] = at[i]
           /\ ~Enter(i)
  BY <1>2, <1>a, <1>b, <1>c, OwnerMovesOn DEF ClaimPc, Owning
<1>3. CASE Insert(i, answered)
  BY <1>3, <1>2, <1>a, <1>b, <1>c, OwnerClaims, WhereTo DEF Insert, Enter
<1>4. CASE RereadScheduled(i) \/ RereadCatchUp(i)
  BY <1>4, <1>2, <1>a, WhereTo DEF RereadScheduled, RereadCatchUp, Enter, dbVars
<1>5. CASE Takeover(i, answered)
  BY <1>5, <1>2, <1>a, <1>b, <1>c, OwnerClaims, WhereTo DEF Takeover, Enter
<1>6. CASE Reopen(i, answered)
  BY <1>6, <1>2, <1>a, <1>b, <1>c, OwnerClaims, WhereTo DEF Reopen, Enter
<1>7. CASE Confirm(i) \/ AbortClaim(i)
  <2>1. pc'[i] \in {"stamp", "list", "cleanup", "done"} /\ (pc'[i] # "done" => at'[i] = at[i])
    BY <1>7, <1>a, WhereTo DEF Confirm, AbortClaim
  <2>2. UNCHANGED row /\ ~Enter(i)
    BY <1>7 DEF Confirm, AbortClaim, Enter, ClaimPc, dbVars
  <2> QED
    BY <1>2, <2>1, <2>2
<1>8. CASE Stamp(i)
  <2>1. ASSUME FenceHeld(i), row' = [row EXCEPT !.marked = TRUE], Goto(i, "run")
        PROVE  OwnerInv(i)'
    <3>1. /\ row'.startedAt = row.startedAt /\ row'.updatedAt = row.updatedAt
          /\ row.updatedAt \in Nat /\ row.state = "running" /\ row.owner = i
      BY <1>a, <2>1 DEF FenceHeld, StateTypeOK, DbTypeOK, Row
    <3>2. pc[i] = "stamp" /\ pc'[i] = "run" /\ at'[i] = at[i] /\ at[i] \in Nat /\ now \in Nat
      BY <1>8, <1>a, <2>1, WhereTo DEF Stamp, StateTypeOK, ActorTypeOK
    <3> QED
      BY <1>b, <3>1, <3>2 DEF OwnerInv, Alive, ClaimPc
  <2> QED
    BY <1>8, <1>2, <1>a, <2>1, WhereTo DEF Stamp, Enter
<1> QED
  BY <1>1, <1>3, <1>4, <1>5, <1>6, <1>7, <1>8 DEF ClaimStep

(* Reconciling leaves the row and the clock value alone.                   *)
LEMMA ReconcilingKeepsOwnerInv ==
    ASSUME IndInv, NEW i \in Invocations, OwnerInv(i), Probe(i) \/ Reconcile(i)
    PROVE  OwnerInv(i)'
<1>a. i \in Actors /\ StateTypeOK /\ i \notin Sweepers
  BY ActorAssumption DEF Actors, IndInv
<1>b. UNCHANGED <<now, row>>
  BY DEF Reconcile, Probe, List, SecondLook, Sift, Clear, Delete, Record, Reconciled, dbVars
<1>1. pc[i] \in ClaimPc
  BY DEF Reconcile, Probe, List, SecondLook, Sift, Clear, Delete, Record, Reconciled, ClaimPc
<1>2. CASE List(i) \/ SecondLook(i) \/ Sift(i)
  <2>1. pc'[i] \in {"sift", "clear", "record"} /\ at'[i] = at[i]
    BY <1>2, <1>a DEF List, SecondLook, Sift, StateTypeOK, ActorTypeOK
  <2> QED
    BY <1>a, <1>b, <1>1, <2>1, OwnerMovesOn DEF ClaimPc, Owning, Alive
<1>3. CASE Probe(i) \/ Clear(i) \/ Delete(i) \/ Record(i) \/ Reconciled(i)
  <2>1. pc'[i] \in {"sift", "delete", "record", "stamp", "takeover", "done"}
        /\ (pc'[i] # "done" => at'[i] = at[i])
    BY <1>3, <1>a, WhereTo DEF Probe, Clear, Delete, Record, Reconciled
  <2> QED
    BY <1>a, <1>b, <1>1, <2>1, OwnerMovesOn DEF ClaimPc, Owning, Alive
<1> QED
  BY <1>2, <1>3 DEF Reconcile

(* The heartbeat refreshes the row; whoever closes it has left.            *)
LEMMA OwningKeepsOwnerInv ==
    ASSUME IndInv, NEW i \in Invocations, OwnerInv(i),
           NEW answered \in BOOLEAN, OwnStep(i, answered)
    PROVE  OwnerInv(i)'
<1>a. i \in Actors /\ StateTypeOK /\ i \notin Sweepers
  BY ActorAssumption DEF Actors, IndInv
<1>b. UNCHANGED now /\ Alive(i)
  BY DEF OwnStep, Heartbeat, AbortRun, EndDrain, WorkDone, Finish, FinishError, Cleanup,
     FinishFails, Crash, PlatformKill, Alive
<1>c. ASSUME NEW where \in {"finishError", "cleanup", "done"}, Forget(i, where)
      PROVE  pc'[i] = where /\ (where # "done" => at'[i] = at[i])
  BY <1>a, <1>c, WhereTo
<1>1. CASE Heartbeat(i)
  <2>1. ASSUME UNCHANGED row, pc[i] = "run", Goto(i, "drain")
        PROVE  OwnerInv(i)'
    <3>1. pc'[i] = "drain" /\ at'[i] = at[i] /\ gen'[i] = gen[i]
      BY <1>a, <2>1, WhereTo
    <3> QED
      BY <1>a, <1>b, <2>1, <3>1, OwnerMovesOn DEF ClaimPc, Owning
  <2>2. ASSUME row' = [row EXCEPT !.updatedAt = now], UNCHANGED actorVars
        PROVE  OwnerInv(i)'
    <3>1. /\ row'.updatedAt = now /\ row'.startedAt = row.startedAt
          /\ row'.owner = row.owner /\ row'.state = row.state
      BY <1>a, <2>2 DEF StateTypeOK, DbTypeOK, Row
    <3>2. now \in Nat /\ at[i] \in Nat /\ row.updatedAt \in Nat /\ pc[i] \in {"run", "drain"}
      BY <1>1, <1>a DEF Heartbeat, StateTypeOK, DbTypeOK, ActorTypeOK, Row
    <3>3. FenceHeld(i) /\ row.updatedAt < now
      BY <1>1, <1>a, <2>2, <3>2 DEF Heartbeat, Goto, actorVars, StateTypeOK, ActorTypeOK
    <3> QED
      BY <1>b, <2>2, <3>1, <3>2, <3>3 DEF OwnerInv, Alive, ClaimPc, FenceHeld, actorVars
  <2> QED
    BY <1>1, <2>1, <2>2 DEF Heartbeat
<1>2. CASE UNCHANGED row /\ ~Heartbeat(i)
  <2>1. \/ pc'[i] \in {"drain", "finish"} /\ pc[i] = "run" /\ gen'[i] = gen[i] /\ at'[i] = at[i]
        \/ pc'[i] \in {"finishError", "gone", "cleanup"} /\ at'[i] = at[i]
        \/ pc'[i] = "done"
    <3>1. CASE AbortRun(i) \/ EndDrain(i) \/ WorkDone(i)
      BY <3>1, <1>a, WhereTo DEF AbortRun, EndDrain, WorkDone
    <3>2. CASE Finish(i, answered) \/ FinishError(i) \/ Cleanup(i) \/ FinishFails(i)
      BY <3>2, <1>c DEF Finish, FinishError, Cleanup, FinishFails
    <3>3. CASE Crash(i) \/ PlatformKill(i)
      BY <3>3, <1>a, WhereTo DEF Crash, PlatformKill
    <3> QED
      BY <1>2, <3>1, <3>2, <3>3 DEF OwnStep
  <2> QED
    BY <1>2, <1>a, <1>b, <2>1, OwnerMovesOn DEF ClaimPc, Owning
<1>3. CASE ~UNCHANGED row /\ ~Heartbeat(i)
  <2>1. Finish(i, answered) \/ FinishError(i) \/ Cleanup(i)
    BY <1>3 DEF OwnStep, AbortRun, EndDrain, WorkDone, FinishFails, Crash, PlatformKill, dbVars
  <2>2. row'.state = "finished"
    BY <1>3, <1>a, <2>1 DEF Finish, FinishError, Cleanup, StateTypeOK, DbTypeOK, Row
  <2>3. pc'[i] \in {"finishError", "cleanup", "done"} /\ (pc'[i] # "done" => at'[i] = at[i])
    BY <1>c, <2>1 DEF Finish, FinishError, Cleanup
  <2> QED
    BY <1>b, <2>2, <2>3 DEF OwnerInv, Alive, ClaimPc, FenceHeld
<1> QED
  BY <1>1, <1>2, <1>3

(* Nobody else touches what an invocation has in memory, and nobody writes *)
(* the row but in its own name.                                            *)
LEMMA OthersKeepOwnerInv ==
    ASSUME IndInv, NEW i \in Invocations, OwnerInv(i), NEW a \in Actors, a # i, StepOf(a),
           UNCHANGED now, at'[i] = at[i]
    PROVE  OwnerInv(i)'
<1>1. i \in Actors
  BY DEF Actors
<1>2. pc'[i] = pc[i] /\ gen'[i] = gen[i]
  BY <1>1 DEF StepOf, SelfMoved
<1>3. row' = row \/ row'.owner = a
  BY DEF StepOf, RowKeptOrMoved, RowMoved
<1> QED
  BY <1>2, <1>3 DEF OwnerInv, Alive, FenceHeld

(* An actor captures the clock for itself.                                 *)
LEMMA ForeignAtKept ==
    ASSUME StateTypeOK, NEW a \in Actors, NEW answered \in BOOLEAN,
           \/ Probe(a) \/ Reconcile(a)
           \/ a \in Invocations /\ (ClaimStep(a, answered) \/ OwnStep(a, answered))
           \/ a \in Sweepers /\ HostStep(a, answered)
    PROVE  UNCHANGED now /\ \A b \in Actors \ {a} : at'[b] = at[b]
<1>1. ASSUME NEW where, NEW g,
             \/ Forget(a, where) \/ Leave(a) \/ Goto(a, where) \/ Admit(a, g, where)
             \/ SeeRow(a, where) \/ Drop(a) \/ UNCHANGED at \/ at' = [at EXCEPT ![a] = now]
      PROVE  \A b \in Actors \ {a} : at'[b] = at[b]
  BY <1>1 DEF StateTypeOK, ActorTypeOK, Forget, Leave, Goto, Admit, SeeRow, Drop
<1>2. CASE Probe(a) \/ Reconcile(a)
  BY <1>1, <1>2 DEF Reconcile, Probe, List, SecondLook, Sift, Clear, Delete, Record, Reconciled
<1>3. CASE ClaimStep(a, answered)
  BY <1>1, <1>3 DEF ClaimStep, Enter, Insert, RereadScheduled, RereadCatchUp, Takeover, Reopen,
     Confirm, Stamp, AbortClaim
<1>4. CASE HostStep(a, answered)
  BY <1>1, <1>4 DEF HostStep, ListStale, ClaimStale, FinishStale, SweeperCrash
<1>5. CASE OwnStep(a, answered)
  BY <1>1, <1>5 DEF OwnStep, Heartbeat, AbortRun, EndDrain, WorkDone, Finish, FinishError,
     Cleanup, FinishFails, Crash, PlatformKill, actorVars
<1> QED
  BY <1>2, <1>3, <1>4, <1>5

(* The clock waits for whoever works under the slot.                       *)
LEMMA TickKeepsOwnerInv ==
    ASSUME StateTypeOK, NEW i \in Invocations, OwnerInv(i), Tick
    PROVE  OwnerInv(i)'
<1>1. /\ i \in Actors /\ now \in Nat /\ at[i] \in Nat /\ Wall \in Nat /\ row.updatedAt \in Nat
      /\ now' = now + 1 /\ UNCHANGED <<row, pc, at, gen>>
  BY TimeAssumption DEF Actors, Tick, dbVars, actorVars, StateTypeOK, DbTypeOK, ActorTypeOK, Row
<1>2. Timely => ~Late(i)
  BY DEF Tick
<1>3. Alive(i) => now + 1 - at[i] <= Wall
  BY <1>1 DEF Tick
<1> QED
  BY <1>1, <1>2, <1>3 DEF OwnerInv, Alive, Late, FenceHeld

(* Every step keeps every owner's row fresh.                               *)
LEMMA OwnersInvHolds == Spec => []OwnersInv
<1>1. Init => OwnersInv
  BY ActorAssumption DEF Init, NoRow, OwnersInv, OwnerInv, Alive, ClaimPc, Actors
<1>2. IndInv /\ OwnersInv /\ [Next]_vars => OwnersInv'
  <2> SUFFICES ASSUME IndInv, OwnersInv, [Next]_vars, NEW i \in Invocations
               PROVE  OwnerInv(i)'
    BY DEF OwnersInv
  <2>a. StateTypeOK /\ OwnerInv(i) /\ i \in Actors /\ i \notin Sweepers
    BY ActorAssumption DEF IndInv, OwnersInv, Actors
  <2>1. CASE UNCHANGED vars
    BY <2>1, <2>a DEF vars, dbVars, actorVars, OwnerInv, Alive, FenceHeld
  <2>2. CASE Tick
    BY <2>2, <2>a, TickKeepsOwnerInv
  <2>3. ASSUME NEW a \in Actors, Probe(a) \/ Reconcile(a)
        PROVE  OwnerInv(i)'
    BY <2>3, <2>a, ReconcilingKeepsOwnerInv, ReconcilingMoves, OthersKeepOwnerInv, ForeignAtKept
  <2>4. ASSUME NEW k \in Invocations, NEW answered \in BOOLEAN, ClaimStep(k, answered)
        PROVE  OwnerInv(i)'
    BY <2>4, <2>a, ClaimingKeepsOwnerInv, ClaimingMoves, OthersKeepOwnerInv, ForeignAtKept DEF Actors
  <2>5. ASSUME NEW s \in Sweepers, NEW answered \in BOOLEAN, HostStep(s, answered)
        PROVE  OwnerInv(i)'
    BY <2>5, <2>a, HostMoves, OthersKeepOwnerInv, ForeignAtKept DEF Actors
  <2>6. ASSUME NEW k \in Invocations, NEW answered \in BOOLEAN, OwnStep(k, answered)
        PROVE  OwnerInv(i)'
    BY <2>6, <2>a, OwningKeepsOwnerInv, OwnMoves, OthersKeepOwnerInv, ForeignAtKept DEF Actors
  <2>7. ASSUME NEW k \in Invocations, NEW j \in Jobs,
               NEW first \in BOOLEAN, NEW second \in BOOLEAN, JobStep(k, j, first, second)
        PROVE  OwnerInv(i)'
    <3>1. UNCHANGED <<now, row, pc, at, gen>>
      BY <2>7 DEF JobStep, ChildStart, ChildLease, ChildBody, ChildRenew, ChildReport, ChildEnd,
         ChildTerminal, actorVars
    <3> QED
      BY <2>a, <3>1 DEF OwnerInv, Alive, FenceHeld
  <2> QED
    BY <2>1, <2>2, <2>3, <2>4, <2>5, <2>6, <2>7, NextIsSomeStep DEF SomeStep
<1> QED
  BY <1>1, <1>2, InvariantHolds, PTL DEF Spec

(* A running row changes hands only where the stale policy says so.        *)
LEMMA HandsChangeWhenStale ==
    ASSUME IndInv, NEW i \in Invocations, FenceHeld(i), NEW a \in Actors, a # i, StepOf(a),
           NEW answered \in BOOLEAN,
           \/ Probe(a) \/ Reconcile(a)
           \/ a \in Invocations /\ (ClaimStep(a, answered) \/ OwnStep(a, answered))
           \/ a \in Sweepers /\ HostStep(a, answered),
           ~StaleAt(row, at[a])
    PROVE  FenceHeld(i)'
<1>1. row.state = "running" /\ row.owner = i
  BY DEF FenceHeld
<1>2. row' = row \/ RowMoved(a)
  BY DEF StepOf, RowKeptOrMoved
<1>3. row' = row
  <2>1. CASE Probe(a) \/ Reconcile(a)
    BY <2>1 DEF Reconcile, Probe, List, SecondLook, Sift, Clear, Delete, Record, Reconciled, dbVars
  <2>2. CASE a \in Invocations /\ ClaimStep(a, answered)
    BY <1>1, <2>2 DEF ClaimStep, Enter, Insert, RereadScheduled, RereadCatchUp, Takeover, Reopen,
       Reopenable, Confirm, Stamp, AbortClaim, FenceHeld, dbVars
  <2>3. CASE a \in Sweepers /\ HostStep(a, answered)
    BY <1>1, <2>3 DEF HostStep, ListStale, ClaimStale, FinishStale, SweeperCrash, ReconcilerFence, dbVars
  <2>4. CASE a \in Invocations /\ OwnStep(a, answered)
    BY <1>1, <2>4 DEF OwnStep, Heartbeat, AbortRun, EndDrain, WorkDone, Finish, FinishError,
       Finishable, Cleanup, FinishFails, Crash, PlatformKill, FenceHeld, dbVars
  <2> QED
    BY <2>1, <2>2, <2>3, <2>4
<1>4. gen'[i] = gen[i]
  BY DEF StepOf, SelfMoved, Actors
<1> QED
  BY <1>3, <1>4 DEF FenceHeld

(* An owner gives its slot up by itself only at the end.                   *)
LEMMA OwnerLetsGo ==
    ASSUME IndInv, NEW i \in Invocations, FenceHeld(i), pc[i] \in Owning,
           NEW answered \in BOOLEAN,
           Probe(i) \/ Reconcile(i) \/ ClaimStep(i, answered) \/ OwnStep(i, answered)
    PROVE  FenceHeld(i)' \/ pc'[i] \in {"finishError", "done"}
<1>a. i \in Actors /\ StateTypeOK
  BY DEF Actors, IndInv
<1>1. OwnStep(i, answered)
  BY DEF Owning, Reconcile, Probe, List, SecondLook, Sift, Clear, Delete, Record, Reconciled,
     ClaimStep, Enter, Insert, RereadScheduled, RereadCatchUp, Takeover, Reopen, Confirm, Stamp,
     AbortClaim, ClaimPc
<1>2. CASE Heartbeat(i)
  <2>1. row' = [row EXCEPT !.updatedAt = now] /\ UNCHANGED actorVars
    BY <1>2 DEF Heartbeat
  <2> QED
    BY <1>a, <2>1 DEF FenceHeld, actorVars, StateTypeOK, DbTypeOK, Row
<1>3. CASE AbortRun(i) \/ EndDrain(i) \/ WorkDone(i)
  <2>1. row' = row /\ gen' = gen
    BY <1>3 DEF AbortRun, EndDrain, WorkDone, Goto, dbVars
  <2> QED
    BY <2>1 DEF FenceHeld
<1>4. CASE Finish(i, answered) \/ FinishFails(i) \/ Crash(i) \/ PlatformKill(i)
  BY <1>4, <1>a, WhereTo DEF Finish, FinishFails, Crash, PlatformKill, Owning
<1>5. ~FinishError(i) /\ ~Cleanup(i)
  BY DEF FinishError, Cleanup, Owning
<1> QED
  BY <1>1, <1>2, <1>3, <1>4, <1>5 DEF OwnStep

(* With heartbeats and statements in time, a silence window of more than a *)
(* tick, and a hard limit beyond the platform's own, no stale policy takes *)
(* the slot from an invocation that works under it.                        *)
THEOREM LiveOwnersKeepTheirSlot ==
    ASSUME Timely, SlotSilence > 1, HardDead > Wall
    PROVE  Spec => LiveOwnerKeepsSlot
<1>1. IndInv /\ AtInv /\ OwnersInv /\ [Next]_vars =>
        [\A i \in Invocations :
           pc[i] \in {"run", "drain", "finish"} /\ FenceHeld(i) =>
             FenceHeld(i)' \/ pc'[i] \in {"finishError", "done"}]_vars
  <2> SUFFICES ASSUME IndInv, AtInv, OwnersInv, Next, NEW i \in Invocations,
                      pc[i] \in Owning, FenceHeld(i)
               PROVE  FenceHeld(i)' \/ pc'[i] \in {"finishError", "done"}
    BY DEF vars, dbVars, actorVars, Owning
  <2>a. StateTypeOK /\ i \in Actors /\ i \notin Sweepers
    BY ActorAssumption DEF IndInv, Actors
  <2>1. ASSUME NEW a \in Actors PROVE ~StaleAt(row, at[a])
    <3>1. /\ {row.startedAt, row.updatedAt, now, at[a], at[i], SlotSilence, HardDead, Wall} \subseteq Nat
          /\ at[a] <= now
      BY <2>a, TimeAssumption DEF StateTypeOK, DbTypeOK, ActorTypeOK, Row, AtInv
    <3>2. row.updatedAt + 1 >= now /\ row.startedAt = at[i] /\ now <= at[i] + Wall
      BY DEF OwnersInv, OwnerInv, Owning, FenceHeld, Alive
    <3> QED
      BY <3>1, <3>2 DEF StaleAt
  <2>2. ASSUME NEW a \in Actors, NEW answered \in BOOLEAN, StepOf(a),
               \/ Probe(a) \/ Reconcile(a)
               \/ a \in Invocations /\ (ClaimStep(a, answered) \/ OwnStep(a, answered))
               \/ a \in Sweepers /\ HostStep(a, answered)
        PROVE  FenceHeld(i)' \/ pc'[i] \in {"finishError", "done"}
    BY <2>1, <2>2, <2>a, HandsChangeWhenStale, OwnerLetsGo
  <2>3. CASE Tick \/ \E k \in Invocations, j \in Jobs, first, second \in BOOLEAN : JobStep(k, j, first, second)
    <3>1. row' = row /\ gen' = gen
      BY <2>3 DEF Tick, JobStep, ChildStart, ChildLease, ChildBody, ChildRenew, ChildReport,
         ChildEnd, ChildTerminal, dbVars, actorVars
    <3> QED
      BY <3>1 DEF FenceHeld
  <2>4. Sweepers \subseteq Actors /\ Invocations \subseteq Actors
    BY DEF Actors
  <2> QED
    BY <2>2, <2>3, <2>4, NextIsSomeStep, ClaimingMoves, ReconcilingMoves, HostMoves, OwnMoves
       DEF SomeStep
<1> QED
  BY <1>1, InvariantHolds, AtInvHolds, OwnersInvHolds, PTL DEF Spec, LiveOwnerKeepsSlot

(***************************************************************************)
(* The refinement of SlotAuthority.  What a step may do to the row's       *)
(* authority - its state, generation, owner and result - and to what its   *)
(* actor knows of it, in the words of SlotFence; then that each of these   *)
(* is a step of SlotAuthority, and that every step of SlotFence is one of  *)
(* them.                                                                   *)
(***************************************************************************)
Unfinished == {"running", "reconciling"}

AuthorityKept ==
    /\ row'.state = row.state /\ row'.gen = row.gen
    /\ row'.owner = row.owner /\ row'.result = row.result

Granted(a) ==
    /\ row.state = "finished" => row.result = "stale" /\ a \notin Sweepers
    /\ row'.state \in Unfinished /\ row'.gen = row.gen + 1 /\ row'.owner = a
    /\ \E t \in {0, gen[a], row'.gen} : gen' = [gen EXCEPT ![a] = t]

Learned(a) ==
    /\ row.state \in Unfinished /\ row.owner = a
    /\ gen' = [gen EXCEPT ![a] = row.gen]
    /\ AuthorityKept

Retired(a) == gen' = [gen EXCEPT ![a] = 0] /\ AuthorityKept

Closed(a) ==
    /\ row.state \in Unfinished /\ row.owner = a /\ gen[a] = row.gen
    /\ row'.state = "finished" /\ row'.gen = row.gen /\ row'.owner = a
    /\ row'.result = "stale" <=> a \in Sweepers
    /\ gen' \in {gen, [gen EXCEPT ![a] = 0]}

GaveUp(a) ==
    /\ a \notin Sweepers
    /\ row.state \in Unfinished /\ row.owner = a
    /\ row'.state = "finished" /\ row'.gen = row.gen + 1 /\ row'.owner = a
    /\ row'.result # "stale"
    /\ gen' = gen

AuthorityStep(a) ==
    \/ Granted(a) \/ Learned(a) \/ Retired(a) \/ Closed(a) \/ GaveUp(a)
    \/ AuthorityKept /\ gen' = gen

(* Each of them is a step of the authority, or none.                       *)
LEMMA AuthorityStepRefines ==
    ASSUME NEW a \in Actors, row \in Row, row' \in Row, AuthorityStep(a)
    PROVE  [Authority!Next]_(Authority!vars)
<1> USE DEF Unfinished
<1>1. CASE Granted(a)
  <2>1. Authority!Grant(a)
    BY <1>1 DEF Granted, Authority!Grant, Authority!Tells
  <2> QED
    BY <2>1 DEF Authority!Next
<1>2. CASE Learned(a)
  <2>1. Authority!Learn(a)
    BY <1>2 DEF Learned, AuthorityKept, Authority!Learn
  <2> QED
    BY <2>1 DEF Authority!Next
<1>3. CASE Retired(a)
  <2>1. Authority!Retire(a)
    BY <1>3 DEF Retired, AuthorityKept, Authority!Retire
  <2> QED
    BY <2>1 DEF Authority!Next
<1>4. CASE Closed(a)
  <2>1. Authority!Close(a)
    BY <1>4 DEF Closed, Authority!Close
  <2> QED
    BY <2>1 DEF Authority!Next
<1>5. CASE GaveUp(a)
  <2>1. Authority!GiveUp(a)
    BY <1>5 DEF GaveUp, Authority!GiveUp
  <2> QED
    BY <2>1 DEF Authority!Next
<1>6. CASE AuthorityKept /\ gen' = gen
  BY <1>6 DEF AuthorityKept, Authority!vars
<1> QED
  BY <1>1, <1>2, <1>3, <1>4, <1>5, <1>6 DEF AuthorityStep

(* Whoever only moves on keeps what it knows.                              *)
LEMMA MovingOnKeepsTerm ==
    ASSUME StateTypeOK, NEW a \in Actors, NEW where,
           \/ a \notin Sweepers /\ (Forget(a, where) \/ Leave(a))
           \/ Goto(a, where) \/ SeeRow(a, where) \/ Drop(a)
    PROVE  gen' = gen
  BY DEF StateTypeOK, ActorTypeOK, Forget, Leave, Goto, SeeRow, Drop

(* A sweeper that leaves forgets it.                                       *)
LEMMA LeavingRetires ==
    ASSUME NEW s \in Sweepers, Leave(s)
    PROVE  gen' = [gen EXCEPT ![s] = 0]
  BY DEF Leave, Forget

(* A row that nobody writes keeps its authority.                           *)
LEMMA AuthorityKeptByReaders ==
    ASSUME NEW a
    PROVE  /\ UNCHANGED row => AuthorityKept
           /\ UNCHANGED row /\ gen' = gen => AuthorityStep(a)
           /\ UNCHANGED row /\ gen' = [gen EXCEPT ![a] = 0] => AuthorityStep(a)
  BY DEF AuthorityKept, AuthorityStep, Retired

(* A claim is a grant, whether its answer arrives or not.                  *)
LEMMA ClaimGrants ==
    ASSUME StateTypeOK, NEW i \in Invocations, NEW g, NEW where, NEW elsewhere,
           row.state = "finished" => row.result = "stale",
           g = row.gen + 1, row' = ClaimedRow(i, g),
           Admit(i, g, where) \/ Goto(i, elsewhere)
    PROVE  AuthorityStep(i)
<1>1. row'.state = "running" /\ row'.gen = g /\ row'.owner = i
  BY DEF ClaimedRow
<1>2. gen' = [gen EXCEPT ![i] = g] \/ gen' = [gen EXCEPT ![i] = gen[i]]
  BY DEF StateTypeOK, ActorTypeOK, Admit, Goto
<1>3. i \notin Sweepers
  BY ActorAssumption
<1> QED
  BY <1>1, <1>2, <1>3 DEF AuthorityStep, Granted, Unfinished

(* The steps of a claim: inserting, taking over and reopening grant, and a *)
(* claimant that reads its own row back learns.                            *)
LEMMA ClaimingRefines ==
    ASSUME IndInv, NEW i \in Invocations, NEW answered \in BOOLEAN, ClaimStep(i, answered)
    PROVE  AuthorityStep(i)
<1>a. i \in Actors /\ StateTypeOK /\ i \notin Sweepers
  BY ActorAssumption DEF Actors, IndInv
<1>1. CASE Enter(i) \/ RereadCatchUp(i) \/ AbortClaim(i)
  BY <1>1, <1>a, MovingOnKeepsTerm, AuthorityKeptByReaders DEF Enter, RereadCatchUp, AbortClaim, dbVars
<1>2. CASE Insert(i, answered)
  <2>1. row.state = "absent" => row.gen + 1 = 1
    BY DEF IndInv, FenceInv
  <2> QED
    BY <1>2, <1>a, <2>1, ClaimGrants, MovingOnKeepsTerm, AuthorityKeptByReaders DEF Insert
<1>3. CASE RereadScheduled(i)
  <2>1. CASE row.state = "running" /\ row.owner = i /\ row.gen = 1 /\ Admit(i, 1, "stamp")
    BY <1>3, <2>1, AuthorityKeptByReaders
       DEF RereadScheduled, Admit, AuthorityStep, Learned, Unfinished, dbVars
  <2> QED
    BY <1>3, <1>a, <2>1, MovingOnKeepsTerm, AuthorityKeptByReaders DEF RereadScheduled, dbVars
<1>4. CASE Takeover(i, answered)
  BY <1>4, <1>a, ClaimGrants, MovingOnKeepsTerm, AuthorityKeptByReaders DEF Takeover, SameAsSeen
<1>5. CASE Reopen(i, answered)
  BY <1>5, <1>a, ClaimGrants, MovingOnKeepsTerm, AuthorityKeptByReaders DEF Reopen, Reopenable
<1>6. CASE Confirm(i)
  <2>1. CASE Leave(i)
    BY <1>6, <1>a, <2>1, MovingOnKeepsTerm, AuthorityKeptByReaders DEF Confirm, dbVars
  <2>2. CASE row.state = "running" /\ row.owner = i /\ row.gen = seen[i].gen + 1
    BY <1>6, <2>1, <2>2, AuthorityKeptByReaders
       DEF Confirm, Admit, AuthorityStep, Learned, Unfinished, dbVars
  <2> QED
    BY <1>6, <2>1, <2>2 DEF Confirm
<1>7. CASE Stamp(i)
  <2>1. gen' = gen
    BY <1>7, <1>a, MovingOnKeepsTerm DEF Stamp
  <2>2. AuthorityKept
    BY <1>7, <1>a DEF Stamp, AuthorityKept, StateTypeOK, DbTypeOK, Row
  <2> QED
    BY <2>1, <2>2 DEF AuthorityStep
<1> QED
  BY <1>1, <1>2, <1>3, <1>4, <1>5, <1>6, <1>7 DEF ClaimStep

(* A reconciliation writes no row; who leaves at its probe retires.        *)
LEMMA ReconcilingRefines ==
    ASSUME IndInv, NEW a \in Actors, Probe(a) \/ Reconcile(a)
    PROVE  AuthorityStep(a)
<1>a. StateTypeOK
  BY DEF IndInv
<1>b. UNCHANGED row
  BY DEF Reconcile, Probe, List, SecondLook, Sift, Clear, Delete, Record, Reconciled, dbVars
<1>1. gen' = gen \/ gen' = [gen EXCEPT ![a] = 0]
  BY <1>a, MovingOnKeepsTerm, LeavingRetires
     DEF Reconcile, Probe, List, SecondLook, Sift, Clear, Delete, Record, Reconciled
<1> QED
  BY <1>b, <1>1, AuthorityKeptByReaders

(* A sweep's claim is a grant, its close is the holder's.                  *)
LEMMA HostRefines ==
    ASSUME IndInv, NEW s \in Sweepers, NEW answered \in BOOLEAN, HostStep(s, answered)
    PROVE  AuthorityStep(s)
<1>a. s \in Actors /\ StateTypeOK
  BY DEF Actors, IndInv
<1>1. CASE ListStale(s) \/ SweeperCrash(s)
  BY <1>1, LeavingRetires, AuthorityKeptByReaders DEF ListStale, SweeperCrash, dbVars
<1>2. CASE ClaimStale(s, answered)
  <2>1. CASE UNCHANGED row /\ Leave(s)
    BY <2>1, LeavingRetires, AuthorityKeptByReaders
  <2>2. ASSUME row.state = seen[s].state, SameAsSeen(s),
               row' = [row EXCEPT !.state = "reconciling", !.owner = s,
                                  !.gen = seen[s].gen + 1, !.updatedAt = at[s]],
               IF answered THEN Admit(s, seen[s].gen + 1, "list") ELSE Leave(s)
        PROVE  AuthorityStep(s)
    <3>1. row.state \in Unfinished
      BY <1>2, <1>a, <2>2 DEF ClaimStale, IndInv, LocalInv, Unfinished
    <3>2. /\ row'.state = "reconciling" /\ row'.owner = s
          /\ row'.gen = row.gen + 1 /\ seen[s].gen = row.gen
      BY <1>a, <2>2 DEF SameAsSeen, StateTypeOK, DbTypeOK, Row
    <3>3. gen' = [gen EXCEPT ![s] = row'.gen] \/ gen' = [gen EXCEPT ![s] = 0]
      BY <2>2, <3>2, LeavingRetires DEF Admit
    <3> QED
      BY <3>1, <3>2, <3>3 DEF AuthorityStep, Granted, Unfinished
  <2> QED
    BY <1>2, <2>1, <2>2 DEF ClaimStale
<1>3. CASE FinishStale(s)
  <2>1. gen' = [gen EXCEPT ![s] = 0]
    BY <1>3, LeavingRetires DEF FinishStale
  <2>2. ASSUME ReconcilerFence(s),
               row' = [row EXCEPT !.state = "finished", !.result = "stale", !.updatedAt = at[s]]
        PROVE  AuthorityStep(s)
    <3>1. row.state = "reconciling" /\ row.owner = s /\ gen[s] = row.gen
      BY <2>2 DEF ReconcilerFence
    <3>2. /\ row'.state = "finished" /\ row'.result = "stale"
          /\ row'.owner = s /\ row'.gen = row.gen
      BY <1>a, <2>2, <3>1 DEF StateTypeOK, DbTypeOK, Row
    <3> QED
      BY <2>1, <3>1, <3>2 DEF AuthorityStep, Closed, Unfinished
  <2> QED
    BY <1>3, <2>1, <2>2, AuthorityKeptByReaders DEF FinishStale
<1> QED
  BY <1>1, <1>2, <1>3 DEF HostStep

(* A delivery's own terminals are the holder's close; the last resort is   *)
(* the giving up of a holder that may not know its term.                   *)
LEMMA OwnRefines ==
    ASSUME IndInv, NEW i \in Invocations, NEW answered \in BOOLEAN, OwnStep(i, answered)
    PROVE  AuthorityStep(i)
<1>a. i \in Actors /\ StateTypeOK /\ i \notin Sweepers
  BY ActorAssumption DEF Actors, IndInv
<1>b. gen' = gen
  BY <1>a, MovingOnKeepsTerm DEF OwnStep, Heartbeat, AbortRun, EndDrain, WorkDone, Finish,
     FinishError, Cleanup, FinishFails, Crash, PlatformKill, actorVars
<1>c. ASSUME NEW result \in {"ok", "error"}, FenceHeld(i),
             row' = [row EXCEPT !.state = "finished", !.result = result,
                                !.updatedAt = now, !.catchUp = i \in CatchUps]
      PROVE  AuthorityStep(i)
  <2>1. row.state = "running" /\ row.owner = i /\ gen[i] = row.gen
    BY <1>c DEF FenceHeld
  <2>2. row'.state = "finished" /\ row'.result = result /\ row'.owner = i /\ row'.gen = row.gen
    BY <1>a, <1>c, <2>1 DEF StateTypeOK, DbTypeOK, Row
  <2> QED
    BY <1>a, <1>b, <2>1, <2>2 DEF AuthorityStep, Closed, Unfinished
<1>1. CASE UNCHANGED row
  BY <1>1, <1>b, AuthorityKeptByReaders
<1>2. CASE Heartbeat(i) /\ ~UNCHANGED row
  <2>1. AuthorityKept
    BY <1>2, <1>a DEF Heartbeat, AuthorityKept, StateTypeOK, DbTypeOK, Row
  <2> QED
    BY <1>b, <2>1 DEF AuthorityStep
<1>3. CASE (Finish(i, answered) \/ FinishError(i)) /\ ~UNCHANGED row
  BY <1>3, <1>c DEF Finish, FinishError, Finishable
<1>4. CASE Cleanup(i) /\ ~UNCHANGED row
  <2>1. row.state = "running" /\ row.owner = i
    BY <1>4 DEF Cleanup
  <2>2. row'.state = "finished" /\ row'.result = "error" /\ row'.owner = i /\ row'.gen = row.gen + 1
    BY <1>4, <1>a, <2>1 DEF Cleanup, StateTypeOK, DbTypeOK, Row
  <2> QED
    BY <1>a, <1>b, <2>1, <2>2 DEF AuthorityStep, GaveUp, Unfinished
<1>5. CASE AbortRun(i) \/ EndDrain(i) \/ WorkDone(i) \/ FinishFails(i) \/ Crash(i) \/ PlatformKill(i)
  <2>1. UNCHANGED row
    BY <1>5 DEF AbortRun, EndDrain, WorkDone, FinishFails, Crash, PlatformKill, dbVars
  <2> QED
    BY <1>1, <2>1
<1> QED
  BY <1>1, <1>2, <1>3, <1>4, <1>5 DEF OwnStep

(* Every step is a step of the authority or leaves it alone.               *)
LEMMA StepRefines ==
    ASSUME IndInv, IndInv', [Next]_vars
    PROVE  [Authority!Next]_(Authority!vars)
<1>a. row \in Row /\ row' \in Row
  BY DEF IndInv, StateTypeOK, DbTypeOK
<1>1. CASE UNCHANGED vars \/ Tick
  <2>1. row' = row /\ gen' = gen
    BY <1>1 DEF Tick, vars, dbVars, actorVars
  <2> QED
    BY <2>1 DEF Authority!vars
<1>2. ASSUME NEW a \in Actors, AuthorityStep(a)
      PROVE  [Authority!Next]_(Authority!vars)
  BY <1>2, <1>a, AuthorityStepRefines
<1>3. ASSUME NEW i \in Invocations, NEW j \in Jobs,
             NEW first \in BOOLEAN, NEW second \in BOOLEAN, JobStep(i, j, first, second)
      PROVE  AuthorityStep(i) /\ i \in Actors
  <2>1. row' = row /\ gen' = gen
    BY <1>3 DEF JobStep, ChildStart, ChildLease, ChildBody, ChildRenew, ChildReport, ChildEnd,
       ChildTerminal, actorVars
  <2> QED
    BY <2>1, AuthorityKeptByReaders DEF Actors
<1>4. Sweepers \subseteq Actors /\ Invocations \subseteq Actors
  BY DEF Actors
<1> QED
  BY <1>1, <1>2, <1>3, <1>4, NextIsSomeStep, ClaimingRefines, ReconcilingRefines, HostRefines,
     OwnRefines DEF SomeStep

(* The slot fence implements the authority: whatever invocations, sweeps,  *)
(* crashes and lost answers do to a slot's row is a grant, a learning, a   *)
(* retirement or a closing of terms.                                       *)
THEOREM FenceImplementsAuthority == Spec => ImplementsAuthority
<1>1. Init => Authority!Init
  BY DEF Init, NoRow, Authority!Init
<1>2. IndInv /\ IndInv' /\ [Next]_vars => [Authority!Next]_(Authority!vars)
  BY StepRefines
<1> QED
  BY <1>1, <1>2, InvariantHolds, PTL DEF Spec, ImplementsAuthority, Authority!Spec
=============================================================================
