------------------------ MODULE CircuitBreakerProofs ------------------------
(***************************************************************************)
(* Proofs about the circuit of one source for any number of callers and    *)
(* isolates, any threshold, intervals and failures.                        *)
(*                                                                         *)
(* That the circuit opens only on evidence needs more than the records: a  *)
(* stale one may be written over the row at any time, and a failure is     *)
(* reported after it is met.  So as long as fewer calls have failed than   *)
(* the threshold, EVERY record - in the row, in the memos, in the hands of *)
(* the callers - is closed, and counts no more failures than there were    *)
(* without those that are still being reported (Counts).  Each report then *)
(* adds the one that it took out.  Where the history begins anew, nothing  *)
(* but the written success is about, and it counts none (Healing).         *)
(***************************************************************************)
EXTENDS CircuitBreaker, FiniteSetTheorems, TLAPS

(* A row that cannot be read says nothing else.                            *)
Sane(rec) == rec.state = "corrupt" => rec = Corrupt
Placed(me) == Sane(me.rec) /\ (me.stage # "idle" => me.home \in Isolates)
AllSane ==
    /\ Sane(row)
    /\ \A i \in Isolates : Sane(memo[i].rec)
    /\ \A c \in Callers : Placed(caller[c])

Good == TypeOK /\ AllSane

(* The callers that have met a failure and not yet counted it.             *)
Counting(me) == me.why = "failure" /\ me.stage \in {"asked", "fetched", "joined", "got"}
Uncounted == {c \in Callers : Counting(caller[c])}

Harmless(rec) == rec.state = "closed" /\ rec.fails + Cardinality(Uncounted) <= evidence
Tame(me) == Harmless(me.rec) /\ (me.stage = "writing" => me.then = "idle")
Counts ==
    evidence < Threshold =>
        /\ Harmless(row)
        /\ \A i \in Isolates : Harmless(memo[i].rec)
        /\ \A c \in Callers : Tame(caller[c])

(* The record of a reported success is the closed one without failures,    *)
(* and only reports write a closed one.                                    *)
Heals(me) ==
    me.stage = "writing" =>
        /\ me.why = "success" /\ me.then = "idle" => me.rec = Closed(0)
        /\ me.then # "idle" => me.rec.state # "closed"
Healing == \A c \in Callers : Heals(caller[c])

IInv == Good /\ Healing /\ Counts

-----------------------------------------------------------------------------
(* What the code computes from a record is a record, and a sane one.       *)
LEMMA NumbersAreNatural ==
    Threshold \in Nat \ {0} /\ ProbeInterval \in Nat \ {0} /\ MemoTtl \in Nat \ {0} /\ Old \in Nat
BY CircuitAssumption DEF Old

LEMMA ClosedIsRecord ==
    ASSUME NEW n \in 0 .. Threshold
    PROVE  Closed(n) \in Record /\ Sane(Closed(n))
BY NumbersAreNatural DEF Closed, Record, Age, Sane, Corrupt

LEMMA CorruptIsRecord ==
    /\ Corrupt = [state |-> "corrupt", fails |-> 0, failed |-> Unset, opened |-> Unset]
    /\ Corrupt \in Record /\ Sane(Corrupt)
BY NumbersAreNatural DEF Corrupt, Closed, Record, Age, Sane

LEMMA OlderIsRecord ==
    ASSUME NEW rec \in Record, Sane(rec)
    PROVE  /\ Older(rec) \in Record /\ Sane(Older(rec))
           /\ Older(rec).state = rec.state /\ Older(rec).fails = rec.fails
<1>1. Aged(rec.failed) \in Age /\ Aged(rec.opened) \in Age
  BY NumbersAreNatural DEF Aged, Age, Record, Unset
<1> DEFINE half == [rec EXCEPT !.failed = Aged(rec.failed)]
<1>2. /\ half \in Record /\ half.state = rec.state /\ half.fails = rec.fails
      /\ half.failed = Aged(rec.failed) /\ half.opened = rec.opened
  BY <1>1 DEF Record
<1>3. Older(rec) = [half EXCEPT !.opened = Aged(rec.opened)]
  BY DEF Older, Record
<1> HIDE DEF half
<1>4. /\ Older(rec) \in Record /\ Older(rec).state = rec.state /\ Older(rec).fails = rec.fails
      /\ Older(rec).failed = Aged(rec.failed) /\ Older(rec).opened = Aged(rec.opened)
  BY <1>1, <1>2, <1>3 DEF Record
<1>5. ASSUME rec.state = "corrupt"
      PROVE  Older(rec) = Corrupt
  <2>1. rec.fails = 0 /\ rec.failed = Unset /\ rec.opened = Unset
    BY <1>5, CorruptIsRecord DEF Sane
  <2>2. Aged(rec.failed) = Unset /\ Aged(rec.opened) = Unset
    BY <2>1 DEF Aged
  <2> QED BY <1>4, <1>5, <2>1, <2>2, CorruptIsRecord DEF Record
<1> QED BY <1>4, <1>5 DEF Sane

LEMMA RepairedIsRecord == Repaired \in Record /\ Sane(Repaired)
BY NumbersAreNatural DEF Repaired, Record, Age, Sane, Unset

LEMMA DecidedIsRecord ==
    ASSUME NEW rec \in Record, rec.state # "corrupt"
    PROVE  /\ HalfOpen(rec) \in Record /\ Sane(HalfOpen(rec))
           /\ Reverted(rec) \in Record /\ Sane(Reverted(rec))
           /\ AfterFailure(rec) \in Record /\ Sane(AfterFailure(rec))
<1> USE NumbersAreNatural DEF Record, Sane, Age, Unset
<1>1. HalfOpen(rec) \in Record /\ Sane(HalfOpen(rec))
  BY DEF HalfOpen
<1>2. Reverted(rec) \in Record /\ Sane(Reverted(rec))
  <2> DEFINE opens == [rec EXCEPT !.state = "open"]
  <2>1. opens \in Record /\ opens.state = "open"
    OBVIOUS
  <2>2. Reverted(rec) = [opens EXCEPT !.opened = 0]
    BY DEF Reverted
  <2>3. 0 \in Age
    OBVIOUS
  <2> HIDE DEF opens
  <2> QED BY <2>1, <2>2, <2>3
<1>4. Counted(rec.fails) \in 0 .. Threshold
  BY DEF Counted
<1>5. CASE rec.state = "half-open"
  BY <1>1, <1>2, <1>4, <1>5 DEF AfterFailure
<1>6. CASE rec.state = "closed"
  BY <1>1, <1>2, <1>4, <1>6, ClosedIsRecord DEF AfterFailure
<1>7. CASE rec.state = "open"
  BY <1>1, <1>2, <1>4, <1>7 DEF AfterFailure
<1> QED BY <1>5, <1>6, <1>7

LEMMA IdleIsCaller == Idle \in Caller /\ Placed(Idle) /\ Idle.rec = Closed(0) /\ Idle.stage = "idle"
BY ClosedIsRecord, NumbersAreNatural DEF Idle, Caller, Placed

(* A caller that begins to read.                                           *)
LEMMA AskingKeepsTypes ==
    ASSUME Good, NEW c \in Callers, NEW i \in Isolates,
           NEW why \in {"attempt", "success", "failure", "empty"}, Asking(c, i, why)
    PROVE  /\ caller' \in [Callers -> Caller] /\ pending' \in [Isolates -> Callers \cup {None}]
           /\ \A d \in Callers : Placed(caller'[d])
<1> DEFINE me == [Idle EXCEPT !.home = i, !.why = why]
<1>1. me \in Caller /\ Sane(me.rec) /\ me.home = i
  BY IdleIsCaller DEF Caller, Idle, Placed
<1> HIDE DEF me
<1>2. CASE memo[i].ttl > 0
  <2> DEFINE got == [me EXCEPT !.stage = "got", !.rec = memo[i].rec]
  <2>1. memo[i].rec \in Record /\ Sane(memo[i].rec)
    BY DEF Good, TypeOK, AllSane
  <2>2. got \in Caller /\ got.rec = memo[i].rec /\ got.home = i
    BY <1>1, <2>1 DEF Caller
  <2>3. caller' = [caller EXCEPT ![c] = got] /\ pending' = pending
    BY <1>2 DEF Asking, me
  <2> HIDE DEF got
  <2> QED BY <2>1, <2>2, <2>3 DEF Good, TypeOK, AllSane, Placed
<1>3. CASE ~(memo[i].ttl > 0) /\ pending[i] # None
  <2> DEFINE joined == [me EXCEPT !.stage = "joined", !.on = pending[i]]
  <2>1. joined \in Caller /\ joined.rec = me.rec /\ joined.home = i
    BY <1>1 DEF Caller, Good, TypeOK
  <2>2. caller' = [caller EXCEPT ![c] = joined] /\ pending' = pending
    BY <1>3 DEF Asking, me
  <2> HIDE DEF joined
  <2> QED BY <1>1, <2>1, <2>2 DEF Good, TypeOK, AllSane, Placed
<1>4. CASE ~(memo[i].ttl > 0) /\ ~(pending[i] # None)
  <2> DEFINE asked == [me EXCEPT !.stage = "asked", !.fresh = TRUE]
  <2>1. asked \in Caller /\ asked.rec = me.rec /\ asked.home = i
    BY <1>1 DEF Caller
  <2>2. caller' = [caller EXCEPT ![c] = asked] /\ pending' = [pending EXCEPT ![i] = c]
    BY <1>4 DEF Asking, me
  <2> HIDE DEF asked
  <2> QED BY <1>1, <2>1, <2>2 DEF Good, TypeOK, AllSane, Placed
<1> QED BY <1>2, <1>3, <1>4

(* A caller that begins to write.                                          *)
LEMMA WritingKeepsTypes ==
    ASSUME Good, NEW c \in Callers, caller[c].stage # "idle", NEW rec \in Record, Sane(rec),
           NEW then \in {"idle", "call", "apply", "denied"}, Writing(c, rec, then)
    PROVE  /\ caller' \in [Callers -> Caller] /\ pending' \in [Isolates -> Callers \cup {None}]
           /\ memo' \in [Isolates -> [rec : Record, ttl : 0 .. MemoTtl]]
           /\ \A d \in Callers : Placed(caller'[d])
           /\ \A i \in Isolates : Sane(memo'[i].rec)
<1> USE DEF Good, TypeOK, AllSane
<1>1. NoMemo \in [rec : Record, ttl : 0 .. MemoTtl] /\ Sane(NoMemo.rec)
  BY ClosedIsRecord, NumbersAreNatural DEF NoMemo
<1>2. /\ memo' \in [Isolates -> [rec : Record, ttl : 0 .. MemoTtl]]
      /\ \A i \in Isolates : memo'[i] \in {memo[i], NoMemo}
  BY <1>1 DEF Writing
<1>3. pending' \in [Isolates -> Callers \cup {None}]
  BY DEF Writing
<1>4. ASSUME NEW d \in Callers
      PROVE  caller'[d] \in Caller /\ Placed(caller'[d])
  <2>1. CASE d = c
    <3> DEFINE staged == [caller[c] EXCEPT !.stage = "writing"]
                dated == [staged EXCEPT !.rec = rec]
    <3>1. staged \in Caller /\ staged.home = caller[c].home
      BY DEF Caller
    <3>2. caller'[d] = [dated EXCEPT !.then = then]
      BY <2>1 DEF Writing
    <3> HIDE DEF staged
    <3>3. dated \in Caller /\ dated.rec = rec /\ dated.home = caller[c].home
      BY <3>1 DEF Caller
    <3> HIDE DEF dated
    <3> QED BY <3>2, <3>3 DEF Caller, Placed
  <2>2. CASE d # c
    <3>1. caller'[d] \in {caller[d], [caller[d] EXCEPT !.fresh = FALSE]}
      BY <2>2 DEF Writing
    <3>2. /\ [caller[d] EXCEPT !.fresh = FALSE] \in Caller
          /\ [caller[d] EXCEPT !.fresh = FALSE].rec = caller[d].rec
          /\ [caller[d] EXCEPT !.fresh = FALSE].home = caller[d].home
          /\ [caller[d] EXCEPT !.fresh = FALSE].stage = caller[d].stage
      BY ZenonT(40) DEF Caller
    <3> QED BY <3>1, <3>2 DEF Placed
  <2> QED BY <2>1, <2>2
<1>5. caller' = [d \in Callers |-> caller'[d]]
  BY DEF Writing
<1> QED BY <1>1, <1>2, <1>3, <1>4, <1>5

LEMMA CallingIsCaller ==
    ASSUME Good, NEW c \in Callers
    PROVE  /\ Calling(c) \in Caller /\ Calling(c).rec = Closed(0) /\ Sane(Closed(0))
           /\ Calling(c).stage = "call" /\ Calling(c).home = caller[c].home
<1> DEFINE staged == [Idle EXCEPT !.stage = "call"]
<1>1. staged \in Caller /\ staged.rec = Closed(0) /\ staged.stage = "call"
  BY IdleIsCaller DEF Caller, Idle
<1>2. Calling(c) = [staged EXCEPT !.home = caller[c].home]
  BY DEF Calling
<1>3. caller[c].home \in Isolates \cup {None}
  BY DEF Good, TypeOK, Caller
<1> HIDE DEF staged
<1> QED BY <1>1, <1>2, <1>3, ClosedIsRecord, NumbersAreNatural DEF Caller

(* A decision keeps the types.                                             *)
LEMMA DecideKeepsTypes ==
    ASSUME Good, NEW c \in Callers, Decide(c)
    PROVE  Good'
<1> DEFINE rec == caller[c].rec
<1>1. rec \in Record /\ Sane(rec) /\ caller[c] \in Caller /\ caller[c].home \in Isolates /\ caller[c].stage # "idle"
  BY DEF Good, TypeOK, AllSane, Caller, Placed, Decide
<1>2. UNCHANGED <<row, healthy, evidence, changes, faults>>
  BY DEF Decide
<1>3. ASSUME NEW new \in Record, Sane(new), NEW then \in {"idle", "call", "apply", "denied"}, Writing(c, new, then)
      PROVE  Good'
  BY <1>1, <1>2, <1>3, WritingKeepsTypes DEF Good, TypeOK, AllSane
<1>4. CASE Leaves(c) \/ Calls(c)
  BY <1>1, <1>2, <1>4, IdleIsCaller, CallingIsCaller DEF Leaves, Calls, Good, TypeOK, AllSane, Placed
<1>5. CASE rec = Corrupt /\ \E then \in {"apply", "denied"} : Writing(c, Repaired, then)
  <2>1. Repaired \in Record /\ Sane(Repaired)
    BY RepairedIsRecord
  <2> QED BY <1>3, <1>5, <2>1
<1>6. CASE rec # Corrupt /\ caller[c].why = "attempt" /\ AskAdmission(c, rec)
  <2>1. rec.state # "corrupt"
    BY <1>1, <1>6 DEF Sane
  <2> HIDE DEF rec
  <2>2. /\ HalfOpen(rec) \in Record /\ Sane(HalfOpen(rec))
        /\ Reverted(rec) \in Record /\ Sane(Reverted(rec))
    BY <1>1, <2>1, DecidedIsRecord
  <2>3. \/ Leaves(c) \/ Calls(c)
        \/ Writing(c, HalfOpen(rec), "call") \/ Writing(c, Reverted(rec), "idle")
    BY <1>6 DEF AskAdmission
  <2> QED BY <1>3, <1>4, <2>2, <2>3
<1>7. CASE rec # Corrupt /\ caller[c].why \in {"success", "failure"} /\ Report(c, rec)
  <2>1. rec.state # "corrupt"
    BY <1>1, <1>7 DEF Sane
  <2>2. AfterFailure(rec) \in Record /\ Sane(AfterFailure(rec)) /\ Closed(0) \in Record /\ Sane(Closed(0))
    BY <1>1, <2>1, DecidedIsRecord, ClosedIsRecord, NumbersAreNatural
  <2> HIDE DEF rec
  <2>3. Writing(c, AfterFailure(rec), "idle") \/ Writing(c, Closed(0), "idle")
    BY <1>7 DEF Report
  <2> QED BY <1>3, <2>2, <2>3
<1>8. CASE caller[c].why = "empty" /\ Asking(c, caller[c].home, "success") /\ UNCHANGED memo
  BY <1>1, <1>2, <1>8, AskingKeepsTypes DEF Good, TypeOK, AllSane
<1> QED BY <1>4, <1>5, <1>6, <1>7, <1>8 DEF Decide

LEMMA AnswerKeepsTypes ==
    ASSUME Good, NEW c \in Callers, Answer(c)
    PROVE  Good'
<1> USE DEF Good, TypeOK, AllSane
<1>1. caller[c] \in Caller /\ caller[c].rec \in Record /\ Sane(caller[c].rec) /\ caller[c].home \in Isolates
  BY DEF Caller, Answer, Placed
<1>2. ASSUME NEW d \in Callers
      PROVE  caller'[d] \in Caller /\ Placed(caller'[d])
  <2>1. CASE d \in Party(c)
    <3> DEFINE got == [caller[d] EXCEPT !.stage = "got", !.rec = caller[c].rec]
                stale == [got EXCEPT !.fresh = FALSE]
    <3>1. caller[d].home \in Isolates
      BY <2>1 DEF Party, Placed, Answer
    <3>2. got \in Caller /\ got.rec = caller[c].rec /\ got.home = caller[d].home
      BY <1>1 DEF Caller
    <3>3. caller'[d] = [stale EXCEPT !.on = None]
      BY <2>1 DEF Answer
    <3> HIDE DEF got
    <3>4. stale \in Caller /\ stale.rec = caller[c].rec /\ stale.home = caller[d].home
      BY <3>2 DEF Caller
    <3> HIDE DEF stale
    <3>5. [stale EXCEPT !.on = None] \in Caller /\ [stale EXCEPT !.on = None].rec = caller[c].rec
          /\ [stale EXCEPT !.on = None].home = caller[d].home
      BY <3>4 DEF Caller
    <3> QED BY <1>1, <3>1, <3>3, <3>5 DEF Placed
  <2>2. CASE d \notin Party(c)
    BY <2>2 DEF Answer
  <2> QED BY <2>1, <2>2
<1>3. caller' \in [Callers -> Caller]
  BY <1>2 DEF Answer
<1>4. /\ memo' \in [Isolates -> [rec : Record, ttl : 0 .. MemoTtl]]
      /\ \A i \in Isolates : Sane(memo'[i].rec)
  <2> DEFINE new == [rec |-> caller[c].rec, ttl |-> MemoTtl]
  <2>1. new \in [rec : Record, ttl : 0 .. MemoTtl] /\ Sane(new.rec)
    BY <1>1, NumbersAreNatural
  <2>2. memo' \in {memo, [memo EXCEPT ![caller[c].home] = new]}
    BY DEF Answer
  <2> HIDE DEF new
  <2> QED BY <2>1, <2>2
<1>5. pending' \in [Isolates -> Callers \cup {None}]
  BY DEF Answer, Unpended
<1> QED BY <1>2, <1>3, <1>4, <1>5 DEF Answer

LEMMA WriteKeepsTypes ==
    ASSUME Good, NEW c \in Callers, caller[c].stage = "writing"
    PROVE  /\ Written(c) => caller' \in [Callers -> Caller] /\ \A d \in Callers : Placed(caller'[d])
           /\ caller[c].rec \in Record /\ Sane(caller[c].rec)
<1> USE DEF Good, TypeOK, AllSane
<1>1. caller[c] \in Caller /\ caller[c].rec \in Record /\ Placed(caller[c])
  BY DEF Caller
<1> DEFINE got == [caller[c] EXCEPT !.stage = "got", !.then = "idle"]
           me == CASE caller[c].then \in {"idle", "denied"} -> Idle
                   [] caller[c].then = "call" -> Calling(c)
                   [] caller[c].then = "apply" -> got
<1>2. got \in Caller /\ Placed(got)
  <2> DEFINE staged == [caller[c] EXCEPT !.stage = "got"]
  <2>1. staged \in Caller /\ staged.rec = caller[c].rec /\ staged.home = caller[c].home
    BY <1>1 DEF Caller
  <2>2. got = [staged EXCEPT !.then = "idle"]
    OBVIOUS
  <2> HIDE DEF staged, got
  <2> QED BY <1>1, <2>1, <2>2 DEF Caller, Placed
<1>3. Calling(c) \in Caller /\ Placed(Calling(c))
  BY <1>1, CallingIsCaller DEF Placed
<1>4. caller[c].then \in {"idle", "denied", "call", "apply"}
  BY <1>1 DEF Caller
<1> HIDE DEF got
<1>5. me \in Caller /\ Placed(me)
  BY <1>2, <1>3, <1>4, IdleIsCaller
<1>6. Written(c) => caller' = [caller EXCEPT ![c] = me]
  BY DEF Written, got
<1> HIDE DEF me
<1> QED BY <1>1, <1>5, <1>6 DEF Placed

(* Every step of a caller keeps the types.                                 *)
LEMMA CallerKeepsTypes ==
    ASSUME Good, NEW c \in Callers, CallerStep(c)
    PROVE  Good'
<1>1. CASE Attempt(c)
  <2>1. PICK i \in Homes[c] : Asking(c, i, "attempt")
    BY <1>1 DEF Attempt
  <2>2. i \in Isolates
    BY CircuitAssumption
  <2> QED BY <1>1, <2>1, <2>2, AskingKeepsTypes DEF Attempt, Good, TypeOK, AllSane
<1>2. CASE Fetch(c)
  <2> DEFINE staged == [caller[c] EXCEPT !.stage = "fetched"]
  <2>1. staged \in Caller /\ staged.home = caller[c].home
    BY DEF Good, TypeOK, Caller
  <2>2. caller' = [caller EXCEPT ![c] = [staged EXCEPT !.rec = row]]
    BY <1>2 DEF Fetch
  <2> HIDE DEF staged
  <2>3. [staged EXCEPT !.rec = row] \in Caller /\ [staged EXCEPT !.rec = row].rec = row
        /\ [staged EXCEPT !.rec = row].home = caller[c].home
    BY <2>1 DEF Good, TypeOK, Caller
  <2> QED BY <1>2, <2>2, <2>3 DEF Fetch, Good, TypeOK, AllSane, Placed
<1>3. CASE Answer(c)
  BY <1>3, AnswerKeepsTypes
<1>4. CASE Decide(c)
  BY <1>4, DecideKeepsTypes
<1>5. CASE Write(c)
  <2>1. evidence' \in 0 .. Threshold
    BY <1>5, NumbersAreNatural DEF Write, Good, TypeOK
  <2> QED BY <1>5, <2>1, WriteKeepsTypes DEF Write, Good, TypeOK, AllSane
<1>6. CASE Call(c)
  <2>1. caller[c].home \in Isolates
    BY <1>6 DEF Call, Good, AllSane, Placed
  <2>2. evidence' \in 0 .. Threshold
    BY <1>6, NumbersAreNatural DEF Call, Good, TypeOK
  <2>3. Asking(c, caller[c].home, "success") \/ Asking(c, caller[c].home, "failure")
    BY <1>6 DEF Call
  <2> QED BY <1>6, <2>1, <2>2, <2>3, AskingKeepsTypes DEF Call, Good, TypeOK, AllSane
<1> QED BY <1>1, <1>2, <1>3, <1>4, <1>5, <1>6 DEF CallerStep

(* So does every failure.                                                  *)
LEMMA FaultKeepsTypes ==
    ASSUME Good, Fault
    PROVE  Good'
<1>1. faults' \in 0 .. MaxFaults /\ changes' \in 0 .. MaxChanges
  BY CircuitAssumption DEF Fault, Good, TypeOK
<1>2. ASSUME NEW c \in Callers, NoCandidate(c)
      PROVE  Good'
  <2>1. PICK i \in Homes[c] : Asking(c, i, "empty")
    BY <1>2 DEF NoCandidate
  <2>2. i \in Isolates
    BY CircuitAssumption
  <2> QED BY <1>1, <1>2, <2>1, <2>2, AskingKeepsTypes DEF NoCandidate, Good, TypeOK, AllSane
<1>3. ASSUME NEW c \in Callers, Abort(c)
      PROVE  Good'
  BY <1>1, <1>3, IdleIsCaller DEF Abort, Leaves, Good, TypeOK, AllSane
<1>4. ASSUME NEW c \in Callers, ReadFails(c)
      PROVE  Good'
  BY <1>1, <1>4, IdleIsCaller DEF ReadFails, Unpended, Good, TypeOK, AllSane
<1>5. ASSUME NEW c \in Callers, WriteFails(c)
      PROVE  Good'
  <2>1. caller' \in [Callers -> Caller] /\ \A d \in Callers : Placed(caller'[d])
    BY <1>5, WriteKeepsTypes, IdleIsCaller DEF WriteFails, Good, TypeOK, AllSane
  <2> QED BY <1>1, <1>5, <2>1, WriteKeepsTypes DEF WriteFails, Good, TypeOK, AllSane
<1>6. ASSUME NEW i \in Isolates, Restart(i)
      PROVE  Good'
  <2>1. NoMemo \in [rec : Record, ttl : 0 .. MemoTtl] /\ Sane(NoMemo.rec)
    BY ClosedIsRecord, NumbersAreNatural DEF NoMemo
  <2> QED BY <1>1, <1>6, <2>1, IdleIsCaller DEF Restart, Good, TypeOK, AllSane
<1>7. ASSUME Garble
      PROVE  Good'
  BY <1>1, <1>7, CorruptIsRecord, NumbersAreNatural DEF Garble, Good, TypeOK, AllSane
<1> QED BY <1>2, <1>3, <1>4, <1>5, <1>6, <1>7 DEF Fault

LEMMA TickKeepsTypes ==
    ASSUME Good, Tick
    PROVE  Good'
<1> USE DEF Good, TypeOK, AllSane
<1>1. row' \in Record /\ Sane(row')
  BY OlderIsRecord DEF Tick
<1>2. ASSUME NEW i \in Isolates
      PROVE  memo'[i] \in [rec : Record, ttl : 0 .. MemoTtl] /\ Sane(memo'[i].rec)
  <2>1. NoMemo \in [rec : Record, ttl : 0 .. MemoTtl] /\ Sane(NoMemo.rec)
    BY ClosedIsRecord, NumbersAreNatural DEF NoMemo
  <2>2. Older(memo[i].rec) \in Record /\ Sane(Older(memo[i].rec))
    BY OlderIsRecord
  <2>3. memo'[i] = IF memo[i].ttl <= 1 THEN NoMemo ELSE [rec |-> Older(memo[i].rec), ttl |-> memo[i].ttl - 1]
    BY DEF Tick
  <2> QED BY <2>1, <2>2, <2>3, NumbersAreNatural
<1>3. ASSUME NEW c \in Callers
      PROVE  caller'[c] \in Caller /\ Placed(caller'[c])
  <2>1. Older(caller[c].rec) \in Record /\ Sane(Older(caller[c].rec))
    BY OlderIsRecord DEF Caller, Placed
  <2>2. caller'[c] = [caller[c] EXCEPT !.rec = Older(caller[c].rec)]
    BY DEF Tick
  <2> QED BY <2>1, <2>2 DEF Caller, Placed
<1> QED BY <1>1, <1>2, <1>3 DEF Tick

LEMMA StepKeepsTypes ==
    ASSUME Good, [Next]_vars
    PROVE  Good'
<1>1. CASE Change
  BY <1>1, CircuitAssumption DEF Change, Good, TypeOK, AllSane
<1>2. CASE UNCHANGED vars
  BY <1>2 DEF vars, Good, TypeOK, AllSane
<1> QED BY <1>1, <1>2, CallerKeepsTypes, FaultKeepsTypes, TickKeepsTypes DEF Next

-----------------------------------------------------------------------------
(* Success.                                                                *)
LEMMA AskingStages ==
    ASSUME Good, NEW c \in Callers, NEW i \in Isolates,
           NEW why \in {"attempt", "success", "failure", "empty"}, Asking(c, i, why)
    PROVE  /\ caller'[c].stage \in {"got", "joined", "asked"}
           /\ \A d \in Callers \ {c} : caller'[d] = caller[d]
<1> DEFINE me == [Idle EXCEPT !.home = i, !.why = why]
           got == [me EXCEPT !.stage = "got", !.rec = memo[i].rec]
           joined == [me EXCEPT !.stage = "joined", !.on = pending[i]]
           asked == [me EXCEPT !.stage = "asked", !.fresh = TRUE]
<1>1. \E new \in {got, joined, asked} : caller' = [caller EXCEPT ![c] = new]
  BY DEF Asking
<1>2. me \in Caller
  BY IdleIsCaller DEF Caller, Idle
<1> HIDE DEF me
<1>3. got.stage = "got" /\ joined.stage = "joined" /\ asked.stage = "asked"
  BY <1>2 DEF Caller
<1> HIDE DEF got, joined, asked
<1> QED BY <1>1, <1>3 DEF Good, TypeOK

LEMMA WritingPlaces ==
    ASSUME Good, NEW c \in Callers, NEW rec \in Record,
           NEW then \in {"idle", "call", "apply", "denied"}, Writing(c, rec, then)
    PROVE  /\ caller'[c].rec = rec /\ caller'[c].stage = "writing"
           /\ caller'[c].then = then /\ caller'[c].why = caller[c].why
           /\ \A d \in Callers \ {c} :
                 /\ caller'[d].rec = caller[d].rec /\ caller'[d].stage = caller[d].stage
                 /\ caller'[d].then = caller[d].then /\ caller'[d].why = caller[d].why
<1> USE DEF Good, TypeOK
<1>1. /\ caller'[c].rec = rec /\ caller'[c].stage = "writing"
      /\ caller'[c].then = then /\ caller'[c].why = caller[c].why
  <2> DEFINE staged == [caller[c] EXCEPT !.stage = "writing"]
              dated == [staged EXCEPT !.rec = rec]
  <2>1. staged \in Caller /\ staged.stage = "writing" /\ staged.why = caller[c].why
    BY DEF Caller
  <2>2. caller'[c] = [dated EXCEPT !.then = then]
    BY DEF Writing
  <2> HIDE DEF staged
  <2>3. dated \in Caller /\ dated.rec = rec /\ dated.stage = "writing" /\ dated.why = caller[c].why
    BY <2>1 DEF Caller
  <2> HIDE DEF dated
  <2> QED BY <2>2, <2>3 DEF Caller
<1>2. ASSUME NEW d \in Callers \ {c}
      PROVE  /\ caller'[d].rec = caller[d].rec /\ caller'[d].stage = caller[d].stage
             /\ caller'[d].then = caller[d].then /\ caller'[d].why = caller[d].why
  <2> DEFINE late == [caller[d] EXCEPT !.fresh = FALSE]
  <2>1. caller'[d] = caller[d] \/ caller'[d] = late
    BY DEF Writing
  <2>2. /\ late.rec = caller[d].rec /\ late.stage = caller[d].stage
        /\ late.why = caller[d].why /\ late.then = caller[d].then
    BY DEF Caller
  <2> HIDE DEF late
  <2> QED BY <2>1, <2>2
<1> QED BY <1>1, <1>2

(* A caller that is not writing, or stays as it is, is no matter.          *)
LEMMA HealsKept ==
    ASSUME Healing, \A d \in Callers : caller'[d] = caller[d] \/ caller'[d].stage # "writing"
    PROVE  Healing'
BY DEF Healing, Heals

LEMMA WritingHeals ==
    ASSUME Good, Healing, NEW c \in Callers, NEW rec \in Record,
           NEW then \in {"idle", "call", "apply", "denied"}, Writing(c, rec, then),
           caller[c].why = "success" /\ then = "idle" => rec = Closed(0),
           then # "idle" => rec.state # "closed"
    PROVE  Healing'
BY WritingPlaces DEF Healing, Heals

LEMMA WrittenHeals ==
    ASSUME Good, Healing, NEW c \in Callers, Written(c)
    PROVE  Healing'
<1> DEFINE staged == [caller[c] EXCEPT !.stage = "got"]
           got == [staged EXCEPT !.then = "idle"]
<1>1. caller[c] \in Caller /\ caller[c].then \in {"idle", "denied", "call", "apply"}
  BY DEF Good, TypeOK, Caller
<1>2. staged \in Caller /\ staged.stage = "got"
  BY <1>1 DEF Caller
<1> HIDE DEF staged
<1>3. got.stage = "got"
  BY <1>2 DEF Caller
<1>4. \E me \in {Idle, Calling(c), got} : caller' = [caller EXCEPT ![c] = me]
  BY <1>1 DEF Written, got, staged
<1> HIDE DEF got
<1>5. \A d \in Callers : caller'[d] = caller[d] \/ caller'[d].stage # "writing"
  BY <1>3, <1>4, IdleIsCaller, CallingIsCaller DEF Good, TypeOK
<1> QED BY <1>5, HealsKept

LEMMA DecideHeals ==
    ASSUME Good, Healing, NEW c \in Callers, Decide(c)
    PROVE  Healing'
<1> DEFINE rec == caller[c].rec
<1>1. rec \in Record /\ Sane(rec) /\ caller[c].home \in Isolates
  BY DEF Good, TypeOK, AllSane, Caller, Placed, Decide
<1>2. CASE Leaves(c) \/ Calls(c)
  <2>1. \A d \in Callers : caller'[d] = caller[d] \/ caller'[d].stage # "writing"
    BY <1>2, IdleIsCaller, CallingIsCaller DEF Leaves, Calls, Good, TypeOK
  <2> QED BY <2>1, HealsKept
<1>3. CASE rec = Corrupt /\ \E then \in {"apply", "denied"} : Writing(c, Repaired, then)
  <2>1. Repaired \in Record /\ Repaired.state = "open"
    BY RepairedIsRecord DEF Repaired
  <2> QED BY <1>3, <2>1, WritingHeals
<1>4. CASE rec # Corrupt /\ caller[c].why = "attempt" /\ AskAdmission(c, rec)
  <2>1. rec.state # "corrupt"
    BY <1>1, <1>4 DEF Sane
  <2> HIDE DEF rec
  <2>2. HalfOpen(rec) \in Record /\ Reverted(rec) \in Record
    BY <1>1, <2>1, DecidedIsRecord
  <2>4. HalfOpen(rec).state = "half-open"
    BY <1>1 DEF HalfOpen, Record
  <2>3. \/ Leaves(c) \/ Calls(c)
        \/ Writing(c, HalfOpen(rec), "call") \/ Writing(c, Reverted(rec), "idle")
    BY <1>4 DEF AskAdmission
  <2> QED BY <1>2, <1>4, <2>2, <2>3, <2>4, WritingHeals
<1>5. CASE rec # Corrupt /\ caller[c].why \in {"success", "failure"} /\ Report(c, rec)
  <2>1. rec.state # "corrupt"
    BY <1>1, <1>5 DEF Sane
  <2>2. AfterFailure(rec) \in Record /\ Closed(0) \in Record
    BY <1>1, <2>1, DecidedIsRecord, ClosedIsRecord, NumbersAreNatural
  <2> HIDE DEF rec
  <2>3. \/ caller[c].why = "failure" /\ Writing(c, AfterFailure(rec), "idle")
        \/ Writing(c, Closed(0), "idle")
    BY <1>5 DEF Report
  <2> QED BY <2>2, <2>3, WritingHeals
<1>6. CASE Asking(c, caller[c].home, "success")
  <2>1. \A d \in Callers : caller'[d] = caller[d] \/ caller'[d].stage # "writing"
    BY <1>1, <1>6, AskingStages
  <2> QED BY <2>1, HealsKept
<1> QED BY <1>2, <1>3, <1>4, <1>5, <1>6 DEF Decide

LEMMA TickHeals ==
    ASSUME Good, Healing, Tick
    PROVE  Healing'
<1>1. Older(Closed(0)) = Closed(0)
  BY DEF Older, Closed, Aged
<1>2. ASSUME NEW c \in Callers
      PROVE  Heals(caller'[c])
  <2> DEFINE old == [caller[c] EXCEPT !.rec = Older(caller[c].rec)]
  <2>1. /\ old.rec = Older(caller[c].rec) /\ old.stage = caller[c].stage
        /\ old.then = caller[c].then /\ old.why = caller[c].why
    BY DEF Good, TypeOK, Caller
  <2>2. caller'[c] = old
    BY DEF Tick
  <2>3. Older(caller[c].rec).state = caller[c].rec.state
    BY OlderIsRecord DEF Good, TypeOK, Caller, AllSane, Placed
  <2> HIDE DEF old
  <2> QED BY <1>1, <2>1, <2>2, <2>3 DEF Healing, Heals
<1> QED BY <1>2 DEF Healing, Heals

LEMMA StepHeals ==
    ASSUME Good, Healing, [Next]_vars
    PROVE  Healing'
<1>1. ASSUME NEW c \in Callers, NEW i \in Isolates,
             NEW why \in {"attempt", "success", "failure", "empty"}, Asking(c, i, why)
      PROVE  Healing'
  BY <1>1, AskingStages, HealsKept
<1>2. ASSUME NEW c \in Callers, CallerStep(c)
      PROVE  Healing'
  <2>1. CASE Attempt(c)
    BY <1>1, <2>1, CircuitAssumption DEF Attempt
  <2>2. CASE Fetch(c)
    <3> DEFINE staged == [caller[c] EXCEPT !.stage = "fetched"]
    <3>1. staged \in Caller /\ staged.stage = "fetched"
      BY DEF Good, TypeOK, Caller
    <3>2. caller' = [caller EXCEPT ![c] = [staged EXCEPT !.rec = row]]
      BY <2>2 DEF Fetch
    <3> HIDE DEF staged
    <3>3. [staged EXCEPT !.rec = row].stage = "fetched"
      BY <3>1 DEF Caller
    <3> QED BY <3>2, <3>3, HealsKept DEF Good, TypeOK
  <2>3. CASE Answer(c)
    <3>1. ASSUME NEW d \in Callers, d \in Party(c)
          PROVE  caller'[d].stage = "got"
      <4> DEFINE got == [caller[d] EXCEPT !.stage = "got"]
      <4>1. got \in Caller /\ got.stage = "got"
        BY DEF Good, TypeOK, Caller
      <4>2. caller'[d] = [got EXCEPT !.rec = caller[c].rec, !.fresh = FALSE, !.on = None]
        BY <2>3, <3>1 DEF Answer
      <4> HIDE DEF got
      <4> QED BY <4>1, <4>2 DEF Caller
    <3>2. \A d \in Callers \ Party(c) : caller'[d] = caller[d]
      BY <2>3 DEF Answer
    <3>3. \A d \in Callers : caller'[d] = caller[d] \/ caller'[d].stage # "writing"
      BY <3>1, <3>2
    <3> QED BY <3>3, HealsKept
  <2>4. CASE Decide(c)
    BY <2>4, DecideHeals
  <2>5. CASE Write(c)
    BY <2>5, WrittenHeals DEF Write
  <2>6. CASE Call(c)
    <3>1. caller[c].home \in Isolates
      BY <2>6 DEF Call, Good, AllSane, Placed
    <3>2. Asking(c, caller[c].home, "success") \/ Asking(c, caller[c].home, "failure")
      BY <2>6 DEF Call
    <3> QED BY <1>1, <3>1, <3>2
  <2> QED BY <1>2, <2>1, <2>2, <2>3, <2>4, <2>5, <2>6 DEF CallerStep
<1>3. ASSUME Fault
      PROVE  Healing'
  <2>1. ASSUME \A d \in Callers : caller'[d] = caller[d] \/ caller'[d] = Idle
        PROVE  Healing'
    BY <2>1, IdleIsCaller, HealsKept
  <2>2. ASSUME NEW c \in Callers, NoCandidate(c)
        PROVE  Healing'
    BY <1>1, <2>2, CircuitAssumption DEF NoCandidate
  <2>3. ASSUME NEW c \in Callers, Abort(c) \/ ReadFails(c)
        PROVE  Healing'
    BY <2>1, <2>3 DEF Abort, Leaves, ReadFails, Good, TypeOK
  <2>4. ASSUME NEW c \in Callers, WriteFails(c)
        PROVE  Healing'
    BY <2>1, <2>4, WrittenHeals DEF WriteFails, Good, TypeOK
  <2>5. ASSUME NEW i \in Isolates, Restart(i)
        PROVE  Healing'
    BY <2>1, <2>5 DEF Restart
  <2>6. CASE Garble
    BY <2>1, <2>6 DEF Garble
  <2> QED BY <1>3, <2>2, <2>3, <2>4, <2>5, <2>6 DEF Fault
<1>4. CASE Change \/ UNCHANGED vars
  BY <1>4 DEF Change, vars, Healing, Heals
<1> QED BY <1>2, <1>3, <1>4, TickHeals DEF Next

-----------------------------------------------------------------------------
(* Counting.                                                               *)
LEMMA FewUncounted ==
    ASSUME Good
    PROVE  /\ IsFiniteSet(Uncounted) /\ Cardinality(Uncounted) \in Nat
           /\ evidence \in Nat /\ row.fails \in Nat
           /\ \A i \in Isolates : memo[i].rec.fails \in Nat
           /\ \A c \in Callers : caller[c].rec.fails \in Nat
<1>1. IsFiniteSet(Uncounted)
  <2>1. Uncounted \in SUBSET Callers
    BY DEF Uncounted
  <2> QED BY <2>1, CircuitAssumption, FS_Subset
<1>2. Cardinality(Uncounted) \in Nat
  BY <1>1, FS_CardinalityType
<1> QED BY <1>1, <1>2, NumbersAreNatural DEF Good, TypeOK, Record, Caller

LEMMA EmptyIsHarmless ==
    ASSUME Good, Counts, evidence < Threshold
    PROVE  Harmless(Closed(0)) /\ Tame(Idle) /\ ~Counting(Idle)
BY FewUncounted DEF Counts, Harmless, Closed, Tame, Idle, Counting

(* A step that adds no record and no failure.                              *)
LEMMA QuietStep ==
    ASSUME Good, Good', Counts, evidence' = evidence,
           evidence < Threshold =>
               /\ Harmless(row')
               /\ \A i \in Isolates : Harmless(memo'[i].rec)
               /\ \A d \in Callers :
                     Tame(caller'[d]) /\ (Counting(caller'[d]) => Counting(caller[d]))
    PROVE  Counts'
<1> SUFFICES ASSUME evidence < Threshold
             PROVE  Counts'
  BY DEF Counts
<1>1. Uncounted' \in SUBSET Uncounted
  BY DEF Uncounted
<1>2. Cardinality(Uncounted') <= Cardinality(Uncounted)
  BY <1>1, FewUncounted, FS_Subset
<1>3. Cardinality(Uncounted') \in Nat
  BY <1>1, FewUncounted, FS_Subset, FS_CardinalityType
<1>4. ASSUME NEW rec, rec.fails \in Nat, Harmless(rec)
      PROVE  rec.state = "closed" /\ rec.fails + Cardinality(Uncounted') <= evidence'
  BY <1>2, <1>3, <1>4, FewUncounted DEF Harmless
<1>5. /\ row'.fails \in Nat
      /\ \A i \in Isolates : memo'[i].rec.fails \in Nat
      /\ \A c \in Callers : caller'[c].rec.fails \in Nat
  BY NumbersAreNatural DEF Good, TypeOK, Record, Caller
<1>6. Harmless(row)'
  BY <1>4, <1>5 DEF Harmless
<1>7. ASSUME NEW i \in Isolates
      PROVE  Harmless(memo[i].rec)'
  BY <1>4, <1>5 DEF Harmless
<1>8. ASSUME NEW d \in Callers
      PROVE  Tame(caller[d])'
  BY <1>4, <1>5 DEF Harmless, Tame
<1> QED BY <1>6, <1>7, <1>8 DEF Counts

(* Who begins to read has at most the memo's record.                       *)
LEMMA AskingIsTame ==
    ASSUME Good, Counts, evidence < Threshold, NEW c \in Callers, NEW i \in Isolates,
           NEW why \in {"attempt", "success", "failure", "empty"}, Asking(c, i, why)
    PROVE  /\ Tame(caller'[c]) /\ caller'[c].why = why
           /\ caller'[c].stage \in {"got", "joined", "asked"}
           /\ \A d \in Callers \ {c} : caller'[d] = caller[d]
<1> DEFINE me == [Idle EXCEPT !.home = i, !.why = why]
<1>1. me \in Caller /\ me.rec = Closed(0) /\ me.why = why
  BY IdleIsCaller DEF Caller, Idle
<1> HIDE DEF me
<1>2. Harmless(Closed(0)) /\ Harmless(memo[i].rec) /\ memo[i].rec \in Record
  BY EmptyIsHarmless DEF Counts, Good, TypeOK
<1>3. caller \in [Callers -> Caller]
  BY DEF Good, TypeOK
<1>4. CASE memo[i].ttl > 0
  <2> DEFINE got == [me EXCEPT !.stage = "got", !.rec = memo[i].rec]
  <2>1. got.rec = memo[i].rec /\ got.why = why /\ got.stage = "got"
    BY <1>1 DEF Caller
  <2>2. caller' = [caller EXCEPT ![c] = got]
    BY <1>4 DEF Asking, me
  <2> HIDE DEF got
  <2> QED BY <1>2, <1>3, <2>1, <2>2 DEF Tame
<1>5. CASE ~(memo[i].ttl > 0) /\ pending[i] # None
  <2> DEFINE joined == [me EXCEPT !.stage = "joined", !.on = pending[i]]
  <2>1. joined.rec = me.rec /\ joined.why = why /\ joined.stage = "joined"
    BY <1>1 DEF Caller
  <2>2. caller' = [caller EXCEPT ![c] = joined]
    BY <1>5 DEF Asking, me
  <2> HIDE DEF joined
  <2> QED BY <1>1, <1>2, <1>3, <2>1, <2>2 DEF Tame
<1>6. CASE ~(memo[i].ttl > 0) /\ ~(pending[i] # None)
  <2> DEFINE asked == [me EXCEPT !.stage = "asked", !.fresh = TRUE]
  <2>1. asked.rec = me.rec /\ asked.why = why /\ asked.stage = "asked"
    BY <1>1 DEF Caller
  <2>2. caller' = [caller EXCEPT ![c] = asked]
    BY <1>6 DEF Asking, me
  <2> HIDE DEF asked
  <2> QED BY <1>1, <1>2, <1>3, <2>1, <2>2 DEF Tame
<1> QED BY <1>4, <1>5, <1>6

(* Who begins to write leaves the counting.                                *)
LEMMA WritingIsTame ==
    ASSUME Good, Counts, evidence < Threshold, NEW c \in Callers, NEW rec \in Record,
           Writing(c, rec, "idle")
    PROVE  /\ caller'[c].rec = rec /\ caller'[c].stage = "writing" /\ caller'[c].then = "idle"
           /\ \A d \in Callers \ {c} : Tame(caller'[d]) /\ (Counting(caller'[d]) => Counting(caller[d]))
           /\ \A i \in Isolates : Harmless(memo'[i].rec)
<1> USE DEF Good, TypeOK
<1>1. caller'[c].rec = rec /\ caller'[c].stage = "writing" /\ caller'[c].then = "idle"
  <2> DEFINE staged == [caller[c] EXCEPT !.stage = "writing"]
              dated == [staged EXCEPT !.rec = rec]
  <2>1. staged \in Caller /\ staged.stage = "writing"
    BY DEF Caller
  <2>2. caller'[c] = [dated EXCEPT !.then = "idle"]
    BY DEF Writing
  <2> HIDE DEF staged
  <2>3. dated \in Caller /\ dated.rec = rec /\ dated.stage = "writing"
    BY <2>1 DEF Caller
  <2> HIDE DEF dated
  <2> QED BY <2>2, <2>3 DEF Caller
<1>2. ASSUME NEW d \in Callers \ {c}
      PROVE  Tame(caller'[d]) /\ (Counting(caller'[d]) => Counting(caller[d]))
  <2>1. caller'[d] \in {caller[d], [caller[d] EXCEPT !.fresh = FALSE]}
    BY DEF Writing
  <2> DEFINE late == [caller[d] EXCEPT !.fresh = FALSE]
  <2>2. /\ late.rec = caller[d].rec /\ late.stage = caller[d].stage
        /\ late.why = caller[d].why /\ late.then = caller[d].then
    BY DEF Caller
  <2>3. Tame(caller[d])
    BY DEF Counts
  <2> HIDE DEF late
  <2>4. caller'[d] = caller[d] \/ caller'[d] = late
    BY <2>1 DEF late
  <2> QED BY <2>2, <2>3, <2>4 DEF Tame, Counting
<1>3. ASSUME NEW i \in Isolates
      PROVE  Harmless(memo'[i].rec)
  <2>1. memo'[i] \in {memo[i], NoMemo}
    BY DEF Writing
  <2>2. Harmless(memo[i].rec) /\ Harmless(NoMemo.rec)
    BY EmptyIsHarmless DEF Counts, NoMemo
  <2> QED BY <2>1, <2>2
<1> QED BY <1>1, <1>2, <1>3

(* The report of a failure writes down the one it takes out.               *)
LEMMA ReportCounts ==
    ASSUME Good, Good', Counts, NEW c \in Callers, Decide(c), caller[c].why = "failure",
           evidence < Threshold
    PROVE  Counts'
<1> DEFINE rec == caller[c].rec
           n == Cardinality(Uncounted)
<1>1. rec \in Record /\ Harmless(rec) /\ rec.fails \in Nat /\ n \in Nat /\ evidence \in Nat
  BY FewUncounted DEF Counts, Tame, Good, TypeOK, Caller
<1>2. rec # Corrupt
  BY <1>1, CorruptIsRecord DEF Harmless
<1>3. c \in Uncounted
  BY DEF Uncounted, Counting, Decide
<1>4. n >= 1
  BY <1>1, <1>3, FewUncounted, FS_EmptySet
<1>5. rec.state = "closed" /\ rec.fails + n <= evidence
  BY <1>1 DEF Harmless
<1>6. Counted(rec.fails) = rec.fails + 1 /\ rec.fails + 1 < Threshold
  BY <1>1, <1>4, <1>5, NumbersAreNatural DEF Counted
<1>7. AfterFailure(rec) = Closed(rec.fails + 1)
  <2> HIDE DEF rec, n
  <2> QED BY <1>1, <1>5, <1>6, NumbersAreNatural DEF AfterFailure
<1>8. Writing(c, Closed(rec.fails + 1), "idle")
  BY <1>2, <1>7 DEF Decide, Report
<1>9. Closed(rec.fails + 1) \in Record
  BY <1>1, <1>6, ClosedIsRecord, NumbersAreNatural
<1> DEFINE counted == Closed(rec.fails + 1)
<1>10. counted.state = "closed" /\ counted.fails = rec.fails + 1
  BY DEF Closed
<1> HIDE DEF rec, n, counted
<1>11. /\ caller'[c].rec = counted /\ caller'[c].stage = "writing" /\ caller'[c].then = "idle"
       /\ \A d \in Callers \ {c} : Tame(caller'[d]) /\ (Counting(caller'[d]) => Counting(caller[d]))
       /\ \A i \in Isolates : Harmless(memo'[i].rec)
  BY <1>8, <1>9, WritingIsTame DEF counted
<1>12. Cardinality(Uncounted') \in Nat /\ Cardinality(Uncounted') <= n - 1
  <2>1. Uncounted' \in SUBSET (Uncounted \ {c})
    BY <1>11 DEF Uncounted, Counting
  <2>2. IsFiniteSet(Uncounted \ {c}) /\ Cardinality(Uncounted \ {c}) = n - 1
    BY <1>3, FewUncounted, FS_RemoveElement DEF n
  <2> QED BY <2>1, <2>2, FS_Subset, FS_CardinalityType
<1>13. evidence' = evidence /\ row' = row
  BY DEF Decide
<1>14. ASSUME NEW old, old.fails \in Nat, Harmless(old)
       PROVE  old.state = "closed" /\ old.fails + Cardinality(Uncounted') <= evidence'
  BY <1>1, <1>12, <1>13, <1>14 DEF Harmless, n
<1>15. /\ row'.fails \in Nat
       /\ \A i \in Isolates : memo'[i].rec.fails \in Nat
       /\ \A d \in Callers : caller'[d].rec.fails \in Nat
  BY NumbersAreNatural DEF Good, TypeOK, Record, Caller
<1>16. Harmless(row)'
  BY <1>13, <1>14, <1>15 DEF Counts, Harmless
<1>17. ASSUME NEW i \in Isolates
       PROVE  Harmless(memo[i].rec)'
  BY <1>11, <1>14, <1>15 DEF Harmless
<1>18. ASSUME NEW d \in Callers
       PROVE  Tame(caller[d])'
  <2>1. CASE d = c
    BY <1>1, <1>5, <1>10, <1>11, <1>12, <1>13, <2>1 DEF Tame, Harmless
  <2>2. CASE d # c
    BY <1>11, <1>14, <1>15, <2>2 DEF Tame, Harmless
  <2> QED BY <2>1, <2>2
<1> QED BY <1>16, <1>17, <1>18 DEF Counts

(* Every other decision adds nothing: a closed record admits.              *)
LEMMA DecideCounts ==
    ASSUME Good, Good', Counts, NEW c \in Callers, Decide(c)
    PROVE  Counts'
<1> DEFINE rec == caller[c].rec
<1>1. CASE evidence < Threshold /\ caller[c].why = "failure"
  BY <1>1, ReportCounts
<1>2. CASE evidence < Threshold /\ caller[c].why # "failure"
  <2>1. rec.state = "closed" /\ Tame(caller[c]) /\ Harmless(row)
    BY <1>2 DEF Counts, Tame, Harmless
  <2>2. rec # Corrupt
    BY <2>1, CorruptIsRecord
  <2>3. evidence' = evidence /\ row' = row
    BY DEF Decide
  <2>4. caller[c].home \in Isolates
    BY DEF Good, AllSane, Placed, Decide
  <2>5. CASE Leaves(c) \/ Calls(c)
    <3>1. Tame(Idle) /\ ~Counting(Idle) /\ Tame(Calling(c)) /\ ~Counting(Calling(c))
      BY <1>2, EmptyIsHarmless, CallingIsCaller DEF Tame, Counting
    <3>2. ASSUME NEW d \in Callers
          PROVE  Tame(caller'[d]) /\ (Counting(caller'[d]) => Counting(caller[d]))
      <4>1. Tame(caller[d])
        BY <1>2 DEF Counts
      <4>2. caller'[d] \in {caller[d], Idle, Calling(c)}
        BY <2>5 DEF Leaves, Calls, Good, TypeOK
      <4> QED BY <3>1, <4>1, <4>2
    <3>3. memo' = memo
      BY <2>5 DEF Leaves, Calls
    <3> QED BY <1>2, <2>1, <2>3, <3>2, <3>3, QuietStep DEF Counts
  <2>6. CASE Writing(c, Closed(0), "idle")
    <3>1. Closed(0) \in Record /\ Harmless(Closed(0))
      BY <1>2, ClosedIsRecord, NumbersAreNatural, EmptyIsHarmless
    <3>2. /\ caller'[c].rec = Closed(0) /\ caller'[c].stage = "writing" /\ caller'[c].then = "idle"
          /\ \A d \in Callers \ {c} : Tame(caller'[d]) /\ (Counting(caller'[d]) => Counting(caller[d]))
          /\ \A i \in Isolates : Harmless(memo'[i].rec)
      BY <1>2, <2>6, <3>1, WritingIsTame
    <3>3. Tame(caller'[c]) /\ ~Counting(caller'[c])
      BY <3>1, <3>2 DEF Tame, Counting
    <3> QED BY <2>1, <2>3, <3>2, <3>3, QuietStep
  <2>7. CASE Asking(c, caller[c].home, "success") /\ UNCHANGED memo
    <3>1. /\ Tame(caller'[c]) /\ caller'[c].why = "success"
          /\ \A d \in Callers \ {c} : caller'[d] = caller[d]
      BY <1>2, <2>4, <2>7, AskingIsTame
    <3> QED BY <1>2, <2>1, <2>3, <2>7, <3>1, QuietStep DEF Counts, Counting
  <2>8. Leaves(c) \/ Calls(c) \/ Writing(c, Closed(0), "idle")
        \/ (Asking(c, caller[c].home, "success") /\ UNCHANGED memo)
    BY <1>2, <2>1, <2>2 DEF Decide, AskAdmission, Report
  <2> QED BY <2>5, <2>6, <2>7, <2>8
<1>3. CASE ~(evidence < Threshold)
  BY <1>3 DEF Decide, Counts
<1> QED BY <1>1, <1>2, <1>3

(* A failed call is one more failure, and one more to be reported.         *)
LEMMA CallCounts ==
    ASSUME Good, Good', Counts, NEW c \in Callers, Call(c)
    PROVE  Counts'
<1>1. evidence \in Nat /\ evidence' \in Nat /\ evidence <= evidence' /\ evidence <= Threshold
  BY NumbersAreNatural DEF Call, Good, TypeOK
<1> SUFFICES ASSUME evidence' < Threshold
             PROVE  Counts'
  BY DEF Counts
<1>2. evidence < Threshold
  BY <1>1, NumbersAreNatural
<1>3. caller[c].home \in Isolates /\ row' = row /\ memo' = memo
  BY DEF Good, AllSane, Placed, Call
<1>4. Asking(c, caller[c].home, "success") \/ Asking(c, caller[c].home, "failure")
  BY DEF Call
<1>5. Tame(caller'[c]) /\ \A d \in Callers \ {c} : caller'[d] = caller[d]
  BY <1>2, <1>3, <1>4, AskingIsTame
<1>6. CASE healthy
  <2>1. Asking(c, caller[c].home, "success") /\ evidence' = evidence
    BY <1>6 DEF Call
  <2>2. caller'[c].why = "success"
    BY <1>2, <1>3, <2>1, AskingIsTame
  <2> QED BY <1>2, <1>3, <1>5, <2>1, <2>2, QuietStep DEF Counts, Counting
<1>7. CASE ~healthy
  <2>1. evidence' = evidence + 1
    BY <1>2, <1>7, NumbersAreNatural DEF Call, Good, TypeOK
  <2>2. Uncounted' \in SUBSET (Uncounted \cup {c})
    BY <1>5 DEF Uncounted
  <2>3. Cardinality(Uncounted') \in Nat /\ Cardinality(Uncounted') <= Cardinality(Uncounted) + 1
    <3>0. IsFiniteSet(Uncounted) /\ Cardinality(Uncounted) \in Nat
      BY FewUncounted
    <3>1. IsFiniteSet(Uncounted \cup {c}) /\ Cardinality(Uncounted \cup {c}) <= Cardinality(Uncounted) + 1
      <4>1. /\ IsFiniteSet(Uncounted \cup {c})
            /\ Cardinality(Uncounted \cup {c}) =
                 IF c \in Uncounted THEN Cardinality(Uncounted) ELSE Cardinality(Uncounted) + 1
        BY <3>0, FS_AddElement
      <4> QED BY <3>0, <4>1
    <3>2. Cardinality(Uncounted \cup {c}) \in Nat
      BY <3>1, FS_CardinalityType
    <3> QED BY <2>2, <3>1, <3>2, FewUncounted, FS_Subset, FS_CardinalityType
  <2>4. ASSUME NEW old, old.fails \in Nat, Harmless(old)
        PROVE  old.state = "closed" /\ old.fails + Cardinality(Uncounted') <= evidence'
    BY <1>1, <2>1, <2>3, <2>4, FewUncounted DEF Harmless
  <2>5. /\ row'.fails \in Nat
        /\ \A i \in Isolates : memo'[i].rec.fails \in Nat
        /\ \A d \in Callers : caller'[d].rec.fails \in Nat
    BY NumbersAreNatural DEF Good, TypeOK, Record, Caller
  <2>6. Harmless(row)'
    BY <1>2, <1>3, <2>4, <2>5 DEF Counts, Harmless
  <2>7. ASSUME NEW i \in Isolates
        PROVE  Harmless(memo[i].rec)'
    BY <1>2, <1>3, <2>4, <2>5 DEF Counts, Harmless
  <2>8. ASSUME NEW d \in Callers
        PROVE  Tame(caller[d])'
    BY <1>2, <1>5, <2>4, <2>5 DEF Counts, Tame, Harmless
  <2> QED BY <2>6, <2>7, <2>8 DEF Counts
<1> QED BY <1>6, <1>7

(* Where the history begins anew, no record counts a failure, and nobody   *)
(* has one to report.                                                      *)
LEMMA ClearCounts ==
    ASSUME Good, Good', Healing, NEW c \in Callers, Write(c), Clears(c)
    PROVE  Counts'
<1>1. row' = Closed(0) /\ evidence' = 0 /\ memo' = memo
  BY DEF Write, Clears, Healing, Heals
<1>2. caller' = [caller EXCEPT ![c] = Idle]
  BY DEF Write, Written, Clears
<1>3. \A d \in Callers : caller'[d].rec = Closed(0) /\ ~Counting(caller'[d])
  BY <1>2, IdleIsCaller DEF Clears, Counting, Idle, Good, TypeOK
<1>4. ASSUME NEW d \in Callers, caller'[d].stage = "writing"
      PROVE  caller'[d].then = "idle"
  <2>1. d # c
    BY <1>2, <1>4, IdleIsCaller DEF Good, TypeOK
  <2>2. caller'[d] = caller[d] /\ caller[d].rec = Closed(0) /\ caller[d].stage = "writing"
    BY <1>2, <1>4, <2>1 DEF Clears
  <2> QED BY <2>2 DEF Healing, Heals, Closed
<1>5. Uncounted' = {}
  BY <1>3 DEF Uncounted
<1>6. Harmless(Closed(0))'
  BY <1>1, <1>5, FS_EmptySet DEF Harmless, Closed
<1> QED BY <1>1, <1>3, <1>4, <1>6 DEF Counts, Tame, Clears

LEMMA CallerCounts ==
    ASSUME Good, Good', Healing, Counts, NEW c \in Callers, CallerStep(c)
    PROVE  Counts'
<1>1. CASE Attempt(c)
  <2>1. PICK i \in Homes[c] : Asking(c, i, "attempt")
    BY <1>1 DEF Attempt
  <2>2. i \in Isolates
    BY CircuitAssumption
  <2>3. ASSUME evidence < Threshold
        PROVE  Tame(caller'[c]) /\ caller'[c].why = "attempt"
               /\ \A d \in Callers \ {c} : caller'[d] = caller[d]
    BY <2>1, <2>2, <2>3, AskingIsTame
  <2>4. evidence' = evidence /\ row' = row /\ memo' = memo
    BY <1>1 DEF Attempt
  <2> QED BY <2>3, <2>4, QuietStep DEF Counts, Counting
<1>2. CASE Fetch(c)
  <2> DEFINE staged == [caller[c] EXCEPT !.stage = "fetched"]
             fetched == [staged EXCEPT !.rec = row]
  <2>1. staged.stage = "fetched" /\ staged.why = caller[c].why
    BY DEF Good, TypeOK, Caller
  <2>2. caller' = [caller EXCEPT ![c] = fetched]
    BY <1>2 DEF Fetch
  <2>3. staged \in Caller
    BY ZenonT(40) DEF Good, TypeOK, Caller
  <2> HIDE DEF staged
  <2>4. fetched.rec = row /\ fetched.stage = "fetched" /\ fetched.why = caller[c].why
    BY <2>1, <2>3 DEF Caller
  <2> HIDE DEF fetched
  <2>5. \A d \in Callers : caller'[d] = IF d = c THEN fetched ELSE caller[d]
    BY <2>2 DEF Good, TypeOK
  <2>6. Counting(fetched) => Counting(caller[c])
    BY <1>2, <2>4 DEF Counting, Fetch
  <2>7. evidence' = evidence /\ row' = row /\ memo' = memo
    BY <1>2 DEF Fetch
  <2>8. evidence < Threshold => Tame(fetched)
    BY <2>4 DEF Counts, Tame
  <2> QED BY <2>5, <2>6, <2>7, <2>8, QuietStep DEF Counts
<1>3. CASE Answer(c)
  <2>1. ASSUME NEW d \in Callers
        PROVE  \/ caller'[d] = caller[d]
               \/ /\ caller'[d].rec = caller[c].rec /\ caller'[d].stage = "got"
                  /\ caller'[d].why = caller[d].why
                  /\ caller[d].stage \in {"fetched", "joined"}
    <3>1. CASE d \in Party(c)
      <4> DEFINE got == [caller[d] EXCEPT !.stage = "got", !.rec = caller[c].rec]
                 stale == [got EXCEPT !.fresh = FALSE]
      <4>1. got \in Caller /\ got.rec = caller[c].rec /\ got.stage = "got" /\ got.why = caller[d].why
        BY ZenonT(40) DEF Good, TypeOK, Caller
      <4>2. caller'[d] = [stale EXCEPT !.on = None]
        BY <1>3, <3>1 DEF Answer
      <4> HIDE DEF got
      <4>3. stale \in Caller /\ stale.rec = caller[c].rec /\ stale.stage = "got" /\ stale.why = caller[d].why
        BY <4>1 DEF Caller
      <4> HIDE DEF stale
      <4>4. /\ caller'[d].rec = caller[c].rec /\ caller'[d].stage = "got"
            /\ caller'[d].why = caller[d].why
        BY <4>2, <4>3 DEF Caller
      <4>5. caller[d].stage \in {"fetched", "joined"}
        BY <1>3, <3>1 DEF Party, Answer
      <4> QED BY <4>4, <4>5
    <3>2. CASE d \notin Party(c)
      BY <1>3, <3>2 DEF Answer
    <3> QED BY <3>1, <3>2
  <2>2. ASSUME NEW i \in Isolates
        PROVE  memo'[i].rec = memo[i].rec \/ memo'[i].rec = caller[c].rec
    BY <1>3 DEF Answer, Good, TypeOK
  <2>3. evidence' = evidence /\ row' = row
    BY <1>3 DEF Answer
  <2>4. ASSUME NEW d \in Callers, evidence < Threshold
        PROVE  Tame(caller'[d]) /\ (Counting(caller'[d]) => Counting(caller[d]))
    BY <2>1, <2>4 DEF Counts, Tame, Counting
  <2>5. ASSUME NEW i \in Isolates, evidence < Threshold
        PROVE  Harmless(memo'[i].rec)
    BY <2>2, <2>5 DEF Counts, Tame
  <2> QED BY <2>3, <2>4, <2>5, QuietStep DEF Counts
<1>4. CASE Write(c)
  <2>1. CASE Clears(c)
    BY <1>4, <2>1, ClearCounts
  <2>2. CASE ~Clears(c)
    <3>1. evidence' = evidence /\ memo' = memo /\ row' = caller[c].rec
      BY <1>4, <2>2 DEF Write
    <3>2. evidence < Threshold => caller' = [caller EXCEPT ![c] = Idle]
      BY <1>4 DEF Write, Written, Counts, Tame
    <3> QED BY <3>1, <3>2, EmptyIsHarmless, QuietStep DEF Counts, Tame, Good, TypeOK
  <2> QED BY <2>1, <2>2
<1> QED BY <1>1, <1>2, <1>3, <1>4, CallCounts, DecideCounts DEF CallerStep

(* No failure of the system counts as one of the source.                   *)
LEMMA FaultCounts ==
    ASSUME Good, Good', Counts, Fault
    PROVE  Counts'
<1>1. ASSUME NEW c \in Callers, NoCandidate(c)
      PROVE  Counts'
  <2>1. PICK i \in Homes[c] : Asking(c, i, "empty")
    BY <1>1 DEF NoCandidate
  <2>2. i \in Isolates
    BY CircuitAssumption
  <2>3. ASSUME evidence < Threshold
        PROVE  Tame(caller'[c]) /\ caller'[c].why = "empty"
               /\ \A d \in Callers \ {c} : caller'[d] = caller[d]
    BY <2>1, <2>2, <2>3, AskingIsTame
  <2>4. evidence' = evidence /\ row' = row /\ memo' = memo
    BY <1>1 DEF NoCandidate
  <2> QED BY <2>3, <2>4, QuietStep DEF Counts, Counting
<1>2. ASSUME \A d \in Callers : caller'[d] = caller[d] \/ caller'[d] = Idle,
             evidence' = evidence, row' = row,
             \A i \in Isolates : memo'[i] = memo[i] \/ memo'[i] = NoMemo
      PROVE  Counts'
  BY <1>2, EmptyIsHarmless, QuietStep DEF Counts, NoMemo
<1>3. ASSUME NEW c \in Callers, Abort(c)
      PROVE  Counts'
  BY <1>2, <1>3 DEF Abort, Leaves, Good, TypeOK
<1>4. ASSUME NEW c \in Callers, ReadFails(c)
      PROVE  Counts'
  BY <1>2, <1>4 DEF ReadFails
<1>5. ASSUME NEW c \in Callers, WriteFails(c)
      PROVE  Counts'
  <2>1. evidence' = evidence /\ memo' = memo /\ row' \in {row, caller[c].rec}
    BY <1>5 DEF WriteFails
  <2>2. evidence < Threshold => caller' = [caller EXCEPT ![c] = Idle]
    BY <1>5 DEF WriteFails, Written, Counts, Tame
  <2> QED BY <2>1, <2>2, EmptyIsHarmless, QuietStep DEF Counts, Tame, Good, TypeOK
<1>6. ASSUME NEW i \in Isolates, Restart(i)
      PROVE  Counts'
  BY <1>2, <1>6 DEF Restart, Good, TypeOK
<1>7. ASSUME Garble
      PROVE  Counts'
  BY <1>7, NumbersAreNatural DEF Garble, Counts
<1> QED BY <1>1, <1>3, <1>4, <1>5, <1>6, <1>7 DEF Fault

LEMMA TickCounts ==
    ASSUME Good, Good', Counts, Tick
    PROVE  Counts'
<1>1. ASSUME NEW rec \in Record, Sane(rec), Harmless(rec)
      PROVE  Harmless(Older(rec))
  BY <1>1, OlderIsRecord DEF Harmless
<1>2. evidence' = evidence /\ row' = Older(row) /\ row \in Record /\ Sane(row)
  BY DEF Tick, Good, TypeOK, AllSane
<1>3. ASSUME NEW i \in Isolates, evidence < Threshold
      PROVE  Harmless(memo'[i].rec)
  <2>1. memo'[i].rec = Closed(0) \/ memo'[i].rec = Older(memo[i].rec)
    BY DEF Tick, NoMemo
  <2>2. memo[i].rec \in Record /\ Sane(memo[i].rec) /\ Harmless(memo[i].rec)
    BY <1>3 DEF Good, TypeOK, AllSane, Counts
  <2> QED BY <1>1, <1>3, <2>1, <2>2, EmptyIsHarmless
<1>4. ASSUME NEW c \in Callers, evidence < Threshold
      PROVE  Tame(caller'[c]) /\ (Counting(caller'[c]) => Counting(caller[c]))
  <2> DEFINE old == [caller[c] EXCEPT !.rec = Older(caller[c].rec)]
  <2>1. /\ old.rec = Older(caller[c].rec) /\ old.stage = caller[c].stage
        /\ old.then = caller[c].then /\ old.why = caller[c].why
    BY DEF Good, TypeOK, Caller
  <2>2. caller'[c] = old
    BY DEF Tick
  <2>3. caller[c].rec \in Record /\ Sane(caller[c].rec) /\ Tame(caller[c])
    BY <1>4 DEF Good, TypeOK, Caller, AllSane, Placed, Counts
  <2> HIDE DEF old
  <2>4. Harmless(Older(caller[c].rec))
    BY <1>1, <2>3 DEF Tame
  <2> QED BY <2>1, <2>2, <2>3, <2>4 DEF Tame, Counting
<1> QED BY <1>1, <1>2, <1>3, <1>4, QuietStep DEF Counts

LEMMA InvInit == Init => IInv
<1> SUFFICES ASSUME Init
             PROVE  IInv
  OBVIOUS
<1>1. Good
  BY IdleIsCaller, ClosedIsRecord, NumbersAreNatural, CircuitAssumption
     DEF Init, Good, TypeOK, AllSane, NoMemo
<1>2. Uncounted = {}
  BY DEF Init, Uncounted, Counting, Idle
<1>3. Harmless(Closed(0)) /\ Tame(Idle)
  BY <1>2, FS_EmptySet DEF Init, Harmless, Tame, Closed, Idle
<1>4. Healing
  BY IdleIsCaller DEF Init, Healing, Heals
<1> QED BY <1>1, <1>3, <1>4 DEF Init, IInv, Counts, NoMemo

LEMMA InvStep == IInv /\ [Next]_vars => IInv'
<1> SUFFICES ASSUME IInv, [Next]_vars
             PROVE  IInv'
  OBVIOUS
<1>1. Good' /\ Healing'
  BY StepKeepsTypes, StepHeals DEF IInv
<1>2. CASE Change \/ UNCHANGED vars
  BY <1>1, <1>2, QuietStep DEF Change, vars, IInv, Counts
<1> QED BY <1>1, <1>2, CallerCounts, FaultCounts, TickCounts DEF Next, IInv

(* Every variable keeps its type, whatever fails.                          *)
THEOREM Typed == Spec => []TypeOK
<1>1. IInv => TypeOK
  BY DEF IInv, Good
<1> QED BY <1>1, InvInit, InvStep, PTL DEF Spec

(* However the reads and writes of recordOutcome and shouldAttemptFetch    *)
(* overtake each other: since a success was last written with no older     *)
(* record left to be written back, the row, the memos and the callers      *)
(* count no failure that did not happen, and none of them leaves the       *)
(* closed state on less than the threshold.                                *)
THEOREM OpenedOnEvidence == Spec => []OpensOnEvidence
<1>1. IInv => OpensOnEvidence
  <2> SUFFICES ASSUME IInv
               PROVE  OpensOnEvidence
    OBVIOUS
  <2> DEFINE records == {row} \cup {memo[i].rec : i \in Isolates} \cup {caller[c].rec : c \in Callers}
  <2>1. \A rec \in records : rec \in Record
    BY DEF IInv, Good, TypeOK, Caller
  <2>2. evidence \in Nat /\ evidence <= Threshold /\ Cardinality(Uncounted) \in Nat
    BY FewUncounted, NumbersAreNatural DEF IInv, Good, TypeOK
  <2>3. evidence < Threshold => \A rec \in records : Harmless(rec)
    BY DEF IInv, Counts, Tame
  <2>4. ASSUME NEW rec \in records
        PROVE  rec.fails <= evidence /\ (rec.state # "closed" => evidence = Threshold)
    <3>1. rec.fails \in Nat /\ rec.fails <= Threshold
      BY <2>1, NumbersAreNatural DEF Record
    <3>2. CASE evidence < Threshold
      BY <2>2, <2>3, <3>1, <3>2 DEF Harmless
    <3>3. CASE evidence = Threshold
      BY <3>1, <3>3
    <3> QED BY <2>2, <3>2, <3>3, NumbersAreNatural
  <2> QED BY <2>4 DEF OpensOnEvidence
<1> QED BY <1>1, InvInit, InvStep, PTL DEF Spec
=============================================================================
