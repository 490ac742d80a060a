--------------------------- MODULE CircuitBreaker ---------------------------
(***************************************************************************)
(* The circuit of one external source: a row in D1, a memo of it in each   *)
(* isolate, and the callers that ask it for admission and report to it.    *)
(*                                                                         *)
(* Every update is a read, a decision and a write of the whole record,     *)
(* with nothing that keeps other callers out in between, and the read may  *)
(* be answered from the memo.  The source is part of the model: it goes    *)
(* down and comes back, and a caller reports what it met.                  *)
(*                                                                         *)
(* The model keeps ages instead of timestamps; beyond two probe intervals  *)
(* they are all the same to the code.                                      *)
(***************************************************************************)
EXTENDS Integers, FiniteSets

CONSTANTS
    Callers,       \* runs that use the source, one after another
    Isolates,
    Homes,         \* in which of them each may be run
    None,          \* no caller, no isolate
    Threshold,     \* CIRCUIT_OPEN_THRESHOLD
    ProbeInterval, \* CIRCUIT_PROBE_INTERVAL_SEC
    MemoTtl,       \* CIRCUIT_RECORD_MEMO_POLICY.ttlSec
    MaxChanges,    \* bound: how often the source goes down or comes back
    MaxFaults      \* bound: aborts, errors, restarts, empty runs, corruption

Old == 2 * ProbeInterval
Unset == -1
Age == {Unset} \cup 0 .. Old

ASSUME CircuitAssumption ==
    /\ IsFiniteSet(Callers)
    /\ None \notin Callers \cup Isolates
    /\ Homes \in [Callers -> SUBSET Isolates]
    /\ {Threshold, ProbeInterval, MemoTtl} \subseteq Nat \ {0}
    /\ {MaxChanges, MaxFaults} \subseteq Nat

VARIABLES
    row,      \* the row circuit:<source>
    memo,     \* the isolates' CircuitRecordMemoCache: records
    pending,  \* and reads
    caller,   \* where each caller is
    healthy,  \* whether the source answers
    evidence, \* history: failed calls since the circuit was last clear, up to
              \* the threshold; all of it if the row has been corrupt since
    changes, faults

vars == <<row, memo, pending, caller, healthy, evidence, changes, faults>>

(* CircuitRecord: the state, consecutiveFailures up to the threshold, and  *)
(* how long ago lastFailureAt and openedAt were.  lastSuccessAt decides    *)
(* nothing, nor do the timestamps of a closed circuit.                     *)
Record == [state : {"closed", "open", "half-open", "corrupt"},
           fails : 0 .. Threshold, failed : Age, opened : Age]

Closed(n) == [state |-> "closed", fails |-> n, failed |-> Unset, opened |-> Unset]
Corrupt == [Closed(0) EXCEPT !.state = "corrupt"]

NoMemo == [rec |-> Closed(0), ttl |-> 0]

(* "asked" waits for D1 to run its query, "fetched" for the answer, and    *)
(* "joined" for another caller's; fresh says that nobody in the isolate    *)
(* has written since the read began.  then is what follows a write.        *)
Idle == [stage |-> "idle", home |-> None, why |-> "attempt", rec |-> Closed(0), fresh |-> FALSE,
         on |-> None, then |-> "idle"]
Caller == [stage : {"idle", "asked", "fetched", "joined", "got", "call", "writing"},
           home : Isolates \cup {None},
           why : {"attempt", "success", "failure", "empty"},
           rec : Record, fresh : BOOLEAN, on : Callers \cup {None},
           then : {"idle", "call", "apply", "denied"}]

TypeOK ==
    /\ row \in Record
    /\ memo \in [Isolates -> [rec : Record, ttl : 0 .. MemoTtl]]
    /\ pending \in [Isolates -> Callers \cup {None}]
    /\ caller \in [Callers -> Caller]
    /\ healthy \in BOOLEAN
    /\ evidence \in 0 .. Threshold
    /\ changes \in 0 .. MaxChanges /\ faults \in 0 .. MaxFaults

Init ==
    /\ row = Closed(0)
    /\ memo = [i \in Isolates |-> NoMemo]
    /\ pending = [i \in Isolates |-> None]
    /\ caller = [c \in Callers |-> Idle]
    /\ healthy \in BOOLEAN
    /\ evidence = 0 /\ changes = 0 /\ faults = 0

-----------------------------------------------------------------------------
(* Reading: getCircuitRecord.                                              *)

(* From the memo, or with the read that is under way, or by a new one.     *)
Asking(c, i, why) ==
    LET me == [Idle EXCEPT !.home = i, !.why = why]
    IN  IF memo[i].ttl > 0
        THEN /\ caller' = [caller EXCEPT ![c] = [me EXCEPT !.stage = "got", !.rec = memo[i].rec]]
             /\ UNCHANGED pending
        ELSE IF pending[i] # None
        THEN /\ caller' = [caller EXCEPT ![c] = [me EXCEPT !.stage = "joined", !.on = pending[i]]]
             /\ UNCHANGED pending
        ELSE /\ caller' = [caller EXCEPT ![c] = [me EXCEPT !.stage = "asked", !.fresh = TRUE]]
             /\ pending' = [pending EXCEPT ![i] = c]

(* shouldAttemptFetch begins, in whichever isolate the run is.             *)
Attempt(c) ==
    /\ caller[c].stage = "idle"
    /\ \E i \in Homes[c] : Asking(c, i, "attempt")
    /\ UNCHANGED <<row, memo, healthy, evidence, changes, faults>>

Fetch(c) ==
    /\ caller[c].stage = "asked"
    /\ caller' = [caller EXCEPT ![c].stage = "fetched", ![c].rec = row]
    /\ UNCHANGED <<row, memo, pending, healthy, evidence, changes, faults>>

(* Those who wait for c's read, and the isolate's reads without it.        *)
Party(c) == {c} \cup {d \in Callers : caller[d].stage = "joined" /\ caller[d].on = c}
Unpended(c) == [pending EXCEPT ![caller[c].home] = IF @ = c THEN None ELSE @]

(* The answer is memoized unless a write has intervened; a corrupt row is  *)
(* an error and is not.                                                    *)
Answer(c) ==
    /\ caller[c].stage = "fetched"
    /\ caller' = [d \in Callers |->
                    IF d \in Party(c)
                    THEN [caller[d] EXCEPT !.stage = "got", !.rec = caller[c].rec,
                                           !.fresh = FALSE, !.on = None]
                    ELSE caller[d]]
    /\ memo' = IF caller[c].fresh /\ caller[c].rec # Corrupt
               THEN [memo EXCEPT ![caller[c].home] = [rec |-> caller[c].rec, ttl |-> MemoTtl]] ELSE memo
    /\ pending' = Unpended(c)
    /\ UNCHANGED <<row, healthy, evidence, changes, faults>>

-----------------------------------------------------------------------------
(* Deciding.                                                               *)

(* setCircuitRecord: the isolate's memo goes first, then the write begins. *)
Writing(c, rec, then) ==
    LET i == caller[c].home
    IN  /\ memo' = [memo EXCEPT ![i] = NoMemo]
        /\ pending' = [pending EXCEPT ![i] = None]
        /\ caller' = [d \in Callers |->
              IF d = c THEN [caller[c] EXCEPT !.stage = "writing", !.rec = rec, !.then = then]
              ELSE IF caller[d].home = i THEN [caller[d] EXCEPT !.fresh = FALSE] ELSE caller[d]]

Leaves(c) == caller' = [caller EXCEPT ![c] = Idle] /\ UNCHANGED <<memo, pending>>
Calling(c) == [Idle EXCEPT !.stage = "call", !.home = caller[c].home]
Calls(c) == caller' = [caller EXCEPT ![c] = Calling(c)] /\ UNCHANGED <<memo, pending>>

(* Mutant: the repaired record does not say when it was opened.            *)
RepairedUndated == [state |-> "open", fails |-> Threshold, failed |-> Unset, opened |-> Unset]

Repaired == [state |-> "open", fails |-> Threshold, failed |-> Unset, opened |-> 0]

ProbeDue(rec) == rec.opened >= ProbeInterval

(* Mutant: a state of another name.                                        *)
HalfOpenOtherwise(rec) == [rec EXCEPT !.state = "probing"]

HalfOpen(rec) == [rec EXCEPT !.state = "half-open", !.opened = IF rec.failed = Unset THEN @ ELSE Unset]

(* lastFailureAt ?? openedAt.                                              *)
Reference(rec) == IF rec.failed # Unset THEN rec.failed ELSE rec.opened
Unresolved(rec) == Reference(rec) >= Old
Reverted(rec) == [rec EXCEPT !.state = "open", !.opened = 0]

AskAdmission(c, rec) ==
    \/ rec.state = "closed" /\ Calls(c)
    \/ rec.state = "open" /\ rec.opened # Unset /\ ProbeDue(rec) /\ Writing(c, HalfOpen(rec), "call")
    \/ rec.state = "open" /\ ~(rec.opened # Unset /\ ProbeDue(rec)) /\ Leaves(c)
    \/ rec.state = "half-open" /\ Unresolved(rec) /\ Writing(c, Reverted(rec), "idle")
    \/ rec.state = "half-open" /\ ~Unresolved(rec) /\ Calls(c)

(* Mutant: every failure counts as the first.                              *)
CountedOnce(n) == 1

Counted(n) == IF n < Threshold THEN n + 1 ELSE n

AfterFailure(rec) ==
    LET n == Counted(rec.fails)
        open == [state |-> "open", fails |-> n, failed |-> 0, opened |-> 0]
    IN  CASE rec.state = "half-open" -> open
          [] rec.state = "closed"    -> IF n >= Threshold THEN open ELSE Closed(n)
          [] rec.state = "open"      -> [open EXCEPT !.opened = rec.opened]

(* Mutant: a success closes the circuit and leaves the count.              *)
ReportKeepingCount(c, rec) ==
    Writing(c, IF caller[c].why = "success" THEN Closed(rec.fails) ELSE AfterFailure(rec), "idle")

(* recordOutcome.                                                          *)
Report(c, rec) ==
    Writing(c, IF caller[c].why = "success" THEN Closed(0) ELSE AfterFailure(rec), "idle")

(* getCircuitRecordForAdmission and what its caller goes on to do: a       *)
(* corrupt row is replaced, and admits nobody.                             *)
Decide(c) ==
    LET rec == caller[c].rec
    IN  /\ caller[c].stage = "got"
        /\ \/ /\ rec = Corrupt
              /\ Writing(c, Repaired, IF caller[c].why \in {"success", "failure"} THEN "apply" ELSE "denied")
           \/ rec # Corrupt /\ caller[c].why = "attempt" /\ AskAdmission(c, rec)
           \/ rec # Corrupt /\ caller[c].why \in {"success", "failure"} /\ Report(c, rec)
           \/ rec # Corrupt /\ caller[c].why = "empty" /\ rec.state = "closed" /\ Leaves(c)
           \/ /\ rec # Corrupt /\ caller[c].why = "empty" /\ rec.state # "closed"
              /\ Asking(c, caller[c].home, "success") /\ UNCHANGED memo
        /\ UNCHANGED <<row, healthy, evidence, changes, faults>>

(* After a repair the outcome is applied to the repaired record.           *)
Written(c) ==
    LET me == caller[c]
    IN  caller' = [caller EXCEPT ![c] =
          CASE me.then \in {"idle", "denied"} -> Idle
            [] me.then = "call"  -> Calling(c)
            [] me.then = "apply" -> [me EXCEPT !.stage = "got", !.then = "idle"]]

(* For the history: a success is being written, no memo and nobody else    *)
(* has an older record to write back, and nobody has a failure to report.  *)
Clears(c) ==
    /\ caller[c].why = "success" /\ caller[c].then = "idle"
    /\ \A i \in Isolates : memo[i].rec = Closed(0)
    /\ \A d \in Callers \ {c} : caller[d].rec = Closed(0) /\ caller[d].why # "failure"

Write(c) ==
    /\ caller[c].stage = "writing"
    /\ row' = caller[c].rec
    /\ Written(c)
    /\ evidence' = IF Clears(c) THEN 0 ELSE evidence
    /\ UNCHANGED <<memo, pending, healthy, changes, faults>>

(* The call to the source, and the beginning of its report.                *)
Call(c) ==
    /\ caller[c].stage = "call"
    /\ Asking(c, caller[c].home, IF healthy THEN "success" ELSE "failure")
    /\ evidence' = IF healthy \/ evidence = Threshold THEN evidence ELSE evidence + 1
    /\ UNCHANGED <<row, memo, healthy, changes, faults>>

-----------------------------------------------------------------------------
(* What goes wrong.                                                        *)

(* recoverBreakerOnNoCandidate: a run that has nothing to ask for.         *)
NoCandidate(c) ==
    /\ caller[c].stage = "idle"
    /\ \E i \in Homes[c] : Asking(c, i, "empty")
    /\ UNCHANGED <<row, memo, healthy, evidence>>

(* An admitted call that is aborted, or whose outcome is neutral.          *)
Abort(c) ==
    /\ caller[c].stage = "call"
    /\ Leaves(c)
    /\ UNCHANGED <<row, healthy, evidence>>

ReadFails(c) ==
    /\ caller[c].stage \in {"asked", "fetched"}
    /\ caller' = [d \in Callers |-> IF d \in Party(c) THEN Idle ELSE caller[d]]
    /\ pending' = Unpended(c)
    /\ UNCHANGED <<row, memo, healthy, evidence>>

(* A write that throws may have been made; that of a repair is passed over.*)
WriteFails(c) ==
    /\ caller[c].stage = "writing"
    /\ row' \in {row, caller[c].rec}
    /\ IF caller[c].then \in {"apply", "denied"}
       THEN Written(c) ELSE caller' = [caller EXCEPT ![c] = Idle]
    /\ UNCHANGED <<memo, pending, healthy, evidence>>

Restart(i) ==
    /\ memo' = [memo EXCEPT ![i] = NoMemo]
    /\ pending' = [pending EXCEPT ![i] = None]
    /\ caller' = [c \in Callers |-> IF caller[c].home = i THEN Idle ELSE caller[c]]
    /\ caller' # caller
    /\ UNCHANGED <<row, healthy, evidence>>

Garble ==
    /\ row' = Corrupt /\ evidence' = Threshold
    /\ UNCHANGED <<memo, pending, caller, healthy>>

Fault ==
    /\ \/ \E c \in Callers : NoCandidate(c) \/ Abort(c) \/ ReadFails(c) \/ WriteFails(c)
       \/ \E i \in Isolates : Restart(i)
       \/ Garble
    /\ faults < MaxFaults
    /\ faults' = faults + 1
    /\ UNCHANGED changes

Change ==
    /\ changes < MaxChanges
    /\ healthy' = ~healthy /\ changes' = changes + 1
    /\ UNCHANGED <<row, memo, pending, caller, evidence, faults>>

Aged(a) == IF a = Unset \/ a = Old THEN a ELSE a + 1
Older(rec) == [rec EXCEPT !.failed = Aged(@), !.opened = Aged(@)]

Tick ==
    /\ row' = Older(row)
    /\ memo' = [i \in Isolates |->
                  IF memo[i].ttl <= 1 THEN NoMemo
                  ELSE [rec |-> Older(memo[i].rec), ttl |-> memo[i].ttl - 1]]
    /\ caller' = [c \in Callers |-> [caller[c] EXCEPT !.rec = Older(@)]]
    /\ UNCHANGED <<pending, healthy, evidence, changes, faults>>

CallerStep(c) == Attempt(c) \/ Fetch(c) \/ Answer(c) \/ Decide(c) \/ Write(c) \/ Call(c)

Next ==
    \/ \E c \in Callers : CallerStep(c)
    \/ Fault
    \/ Change
    \/ Tick

Spec == Init /\ [][Next]_vars

(* Time passes, and the runs that use the source go on and come again.     *)
FairSpec == Spec /\ WF_vars(Tick) /\ \A c \in Callers : WF_vars(CallerStep(c))

-----------------------------------------------------------------------------
(* What must be true.                                                      *)

(* However updates overtake each other: since a success was last written   *)
(* with no older record about that could be written back, no record - in   *)
(* the row, a memo or the hands of a caller - counts more failures than    *)
(* there were, and none leaves the closed state until as many calls have   *)
(* failed as it takes, or the row was corrupt.                             *)
OpensOnEvidence ==
    \A rec \in {row} \cup {memo[i].rec : i \in Isolates} \cup {caller[c].rec : c \in Callers} :
        /\ rec.fails <= evidence
        /\ rec.state # "closed" => evidence = Threshold

(* Although counts are lost and open circuits are overwritten, a source    *)
(* that stays down is in the end not called without a probe's admission.   *)
FailingSourceOpens == <>[](~healthy) => <>[](row.state # "closed")

(* Although probes are aborted and stale records written back, a source    *)
(* that has come back is let in again, and again if a stale write shuts it *)
(* out.                                                                    *)
RecoveredSourceCloses == <>[]healthy => []<>(row.state = "closed")
=============================================================================
