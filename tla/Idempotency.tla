---------------------------- MODULE Idempotency ----------------------------
(***************************************************************************)
(* runIdempotentAction: a keyed admin mutation runs at most once.          *)
(*                                                                         *)
(* One (action, Idempotency-Key) pair is one row of the D1 table           *)
(* admin_idempotency_keys.  A request reserves the row, records durably    *)
(* that its execution starts, executes, and replaces the reservation by    *)
(* its terminal response, which later requests with the key replay.  A     *)
(* reservation that never started may be taken over; one that started is   *)
(* never given away: after a day without terminal it becomes a permanent   *)
(* execution_unknown tombstone.                                            *)
(*                                                                         *)
(* A request reads the clock once, on entry, and compares with that value  *)
(* however long its statements take; only a terminal is dated anew.        *)
(***************************************************************************)
EXTENDS Integers, FiniteSets

CONSTANTS
    Requests,     \* requests that carry the key
    Reusers,      \* those whose payload is not the one of the others
    None,         \* no reservation owner, no response
    TakeoverAfter, \* PENDING_TAKEOVER_AFTER_SECONDS
    UnknownAfter,  \* STARTED_TAKEOVER_AFTER_SECONDS
    TerminalTtl,   \* what the TTL sweep leaves of a terminal response
    MaxTime,      \* bound: the clock stops here
    MaxFaults     \* bound: crashes, failed statements and lost answers

ASSUME RequestAssumption == Reusers \subseteq Requests /\ None \notin Requests

ASSUME TimeAssumption == {TakeoverAfter, UnknownAfter, TerminalTtl, MaxTime, MaxFaults} \subseteq Nat

VARIABLES
    now,      \* the clock
    row,      \* the key's admin_idempotency_keys row
    pc,       \* where each request stands
    at,       \* now, as the request read it
    inserted, \* insertedReservation
    seen,     \* existing, the row the request loaded
    token,    \* the generation of its reservation token (0: none)
    outcome,  \* what the terminal that it persists will say
    ran,      \* what its action has done (for the properties only)
    said,     \* what the request was answered
    heard,    \* whose terminal response it was given
    faults    \* how many failures there have been

localVars == <<pc, at, inserted, seen, token, outcome>>
ghostVars == <<ran, said, heard>>
vars == <<now, row, localVars, ghostVars, faults>>

-----------------------------------------------------------------------------
Row == [state     : {"absent", "pending", "unknown", "final"},
        reused    : BOOLEAN,
        owner     : Requests \cup {None},
        gen       : Nat,
        createdAt : Nat,
        started   : BOOLEAN,
        startedAt : Nat,
        response  : Requests \cup {None}]

NoRow == [state |-> "absent", reused |-> FALSE, owner |-> None, gen |-> 0, createdAt |-> 0,
          started |-> FALSE, startedAt |-> 0, response |-> None]

Pc == {"idle", "reserve", "load", "mark", "takeover", "begin", "execute", "persist",
       "confirm", "release", "confirmRelease", "prune", "done"}

(* "effect": it may have taken effect; "expired": so it did, and its       *)
(* terminal has aged out since; "nothing": it provably did not.            *)
Ran == {"no", "running", "effect", "expired", "nothing"}

(* "failed": an exception or a 500; "refused": 409; "retry": the response  *)
(* of an action that stopped before it had any effect.                     *)
Said == {"none", "failed", "refused", "retry", "unknown", "final"}

TypeOK ==
    /\ now \in Nat
    /\ row \in Row
    /\ pc \in [Requests -> Pc]
    /\ at \in [Requests -> Nat]
    /\ inserted \in [Requests -> BOOLEAN]
    /\ seen \in [Requests -> Row]
    /\ token \in [Requests -> Nat]
    /\ outcome \in [Requests -> {"final", "unknown"}]
    /\ ran \in [Requests -> Ran]
    /\ said \in [Requests -> Said]
    /\ heard \in [Requests -> Requests \cup {None}]
    /\ faults \in 0 .. MaxFaults

Init ==
    /\ now = 0
    /\ row = NoRow
    /\ pc = [r \in Requests |-> "idle"]
    /\ at = [r \in Requests |-> 0]
    /\ inserted = [r \in Requests |-> FALSE]
    /\ seen = [r \in Requests |-> NoRow]
    /\ token = [r \in Requests |-> 0]
    /\ outcome = [r \in Requests |-> "unknown"]
    /\ ran = [r \in Requests |-> "no"]
    /\ said = [r \in Requests |-> "none"]
    /\ heard = [r \in Requests |-> None]
    /\ faults = 0

-----------------------------------------------------------------------------
Goto(r, where) == pc' = [pc EXCEPT ![r] = where]

Say(r, what) ==
    /\ said' = [said EXCEPT ![r] = what]
    /\ UNCHANGED heard

(* The answer to r is the terminal response of s.                          *)
SayFinal(r, s) ==
    /\ said' = [said EXCEPT ![r] = "final"]
    /\ heard' = [heard EXCEPT ![r] = s]

Answer(r, what) == Goto(r, "done") /\ Say(r, what)

(* The predicates of the guarded statements.                               *)

(* Mutant: the fingerprint is not compared.                                *)
AnyPayload(r) == TRUE

SamePayload(r) == row.reused = (r \in Reusers)

(* The pending reservation under r's own token.                            *)
Mine(r) == row.state = "pending" /\ SamePayload(r) /\ row.owner = r /\ row.gen = token[r]

(* Mutant: whoever finds the reservation pending starts.                   *)
StartableByAny(r) == row.state = "pending" /\ SamePayload(r)

(* beginReservationExecution                                               *)
Startable(r) == Mine(r) /\ ~row.started

(* persistTerminalResponse and releasePreExecutionReservation              *)
Closable(r) == Mine(r) /\ row.started

(* takeOverAbandonedUnstartedReservation                                   *)
Takeable(r) ==
    /\ row.state = "pending" /\ SamePayload(r)
    /\ ~row.started
    /\ row.gen = seen[r].gen
    /\ row.createdAt + TakeoverAfter < at[r]

(* markAbandonedStartedReservationUnknown                                  *)
Abandoned(r) ==
    /\ row.state = "pending" /\ SamePayload(r)
    /\ row.started /\ row.startedAt = seen[r].startedAt
    /\ row.gen = seen[r].gen
    /\ row.startedAt + UnknownAfter < at[r]

(* pruneTerminalIdempotencyRecords                                         *)
Expired(t) == row.state = "final" /\ row.createdAt + TerminalTtl < t

-----------------------------------------------------------------------------
(* Reserving.                                                              *)

Enter(r) ==
    /\ pc[r] = "idle"
    /\ at' = [at EXCEPT ![r] = now]
    /\ Goto(r, "reserve")
    /\ UNCHANGED <<now, row, inserted, seen, token, outcome, ghostVars>>

(* Mutant: a reservation that may be taken over at once.                   *)
ReservationBackdated(r) ==
    [state |-> "pending", reused |-> r \in Reusers, owner |-> r, gen |-> 1,
     createdAt |-> at[r] - TakeoverAfter, started |-> FALSE, startedAt |-> 0, response |-> None]

Reservation(r) ==
    [state |-> "pending", reused |-> r \in Reusers, owner |-> r, gen |-> 1,
     createdAt |-> at[r], started |-> FALSE, startedAt |-> 0, response |-> None]

(* INSERT OR IGNORE; answered = FALSE: it commits and the answer is an     *)
(* error, which ends the request.                                          *)
Reserve(r, answered) ==
    /\ pc[r] = "reserve"
    /\ row' = IF row.state = "absent" THEN Reservation(r) ELSE row
    /\ inserted' = [inserted EXCEPT ![r] = row.state = "absent"]
    /\ IF answered THEN Goto(r, "load") /\ UNCHANGED <<said, heard>> ELSE Answer(r, "failed")
    /\ UNCHANGED <<now, at, seen, token, outcome, ran>>

(* What the request does next is decided by the row it loads.              *)
Load(r) ==
    /\ pc[r] = "load"
    /\ seen' = [seen EXCEPT ![r] = row]
    /\ \/ /\ row.state = "absent"
          /\ Answer(r, "failed")
          /\ UNCHANGED token
       \/ /\ row.state # "absent" /\ ~SamePayload(r)
          /\ Answer(r, "refused")
          /\ UNCHANGED token
       \/ /\ row.state # "absent" /\ SamePayload(r)
          /\ \/ /\ row.state = "unknown"
                /\ Answer(r, "unknown")
                /\ UNCHANGED token
             \/ /\ row.state = "final"
                /\ Goto(r, "done") /\ SayFinal(r, row.response)
                /\ UNCHANGED token
             \/ /\ row.state = "pending"
                /\ token' = [token EXCEPT ![r] = IF inserted[r] THEN 1 ELSE 0]
                /\ Goto(r, IF row.started THEN "mark" ELSE IF inserted[r] THEN "begin" ELSE "takeover")
                /\ UNCHANGED <<said, heard>>
    /\ UNCHANGED <<now, row, at, inserted, outcome, ran>>

(* Its failure is logged, its answer unused.                               *)
Mark(r, executed) ==
    /\ pc[r] = "mark"
    /\ row' = IF executed /\ Abandoned(r)
              THEN [row EXCEPT !.state = "unknown", !.createdAt = at[r]] ELSE row
    /\ Answer(r, "unknown")
    /\ UNCHANGED <<now, at, inserted, seen, token, outcome, ran>>

(* Without an answer the takeover counts as lost.                          *)
Takeover(r, answered) ==
    /\ pc[r] = "takeover"
    /\ row' = IF Takeable(r)
              THEN [row EXCEPT !.owner = r, !.gen = @ + 1, !.createdAt = at[r]] ELSE row
    /\ IF answered /\ Takeable(r)
       THEN /\ token' = [token EXCEPT ![r] = seen[r].gen + 1]
            /\ Goto(r, "begin")
            /\ UNCHANGED <<said, heard>>
       ELSE Answer(r, "refused") /\ UNCHANGED token
    /\ UNCHANGED <<now, at, inserted, seen, outcome, ran>>

-----------------------------------------------------------------------------
(* Executing.                                                              *)

Begin(r, answered) ==
    /\ pc[r] = "begin"
    /\ row' = IF Startable(r)
              THEN [row EXCEPT !.started = TRUE, !.startedAt = at[r]] ELSE row
    /\ IF answered /\ Startable(r)
       THEN /\ Goto(r, "execute")
            /\ ran' = [ran EXCEPT ![r] = "running"]
            /\ UNCHANGED <<said, heard>>
       ELSE Answer(r, IF answered THEN "refused" ELSE "failed") /\ UNCHANGED ran
    /\ UNCHANGED <<now, at, inserted, seen, token, outcome>>

(* The action's response is terminal, or its outcome unconfirmed (a throw, *)
(* a 5xx, a redaction that fails) ...                                      *)
Execute(r, what) ==
    /\ pc[r] = "execute"
    /\ ran' = [ran EXCEPT ![r] = "effect"]
    /\ outcome' = [outcome EXCEPT ![r] = what]
    /\ Goto(r, "persist")
    /\ UNCHANGED <<now, row, at, inserted, seen, token, said, heard>>

(* ... or says that it stopped before it had any effect.                   *)
Preflight(r) ==
    /\ pc[r] = "execute"
    /\ ran' = [ran EXCEPT ![r] = "nothing"]
    /\ Goto(r, "release")
    /\ UNCHANGED <<now, row, at, inserted, seen, token, outcome, said, heard>>

-----------------------------------------------------------------------------
(* Closing.                                                                *)

AfterTerminal(r) ==
    IF outcome[r] = "final" THEN Goto(r, "prune") /\ SayFinal(r, r) ELSE Answer(r, "unknown")

(* A terminal whose write is refused, fails or is not answered is looked   *)
(* up.                                                                     *)
Persist(r, executed, answered) ==
    /\ pc[r] = "persist"
    /\ row' = IF executed /\ Closable(r)
              THEN [row EXCEPT !.state = outcome[r], !.createdAt = now,
                               !.response = IF outcome[r] = "final" THEN r ELSE None]
              ELSE row
    /\ IF executed /\ answered /\ Closable(r)
       THEN AfterTerminal(r)
       ELSE Goto(r, "confirm") /\ UNCHANGED <<said, heard>>
    /\ UNCHANGED <<now, at, inserted, seen, token, outcome, ran>>

(* The stored status and body are those of r; another request's response   *)
(* may read the same.                                                      *)
Stored(r, sameText) ==
    /\ row.state = outcome[r]
    /\ row.state = "final" => row.response = r \/ sameText

Confirm(r, read) ==
    /\ pc[r] = "confirm"
    /\ \E sameText \in BOOLEAN :
          IF read /\ Stored(r, sameText) THEN AfterTerminal(r) ELSE Answer(r, "unknown")
    /\ UNCHANGED <<now, row, at, inserted, seen, token, outcome, ran>>

Release(r, executed, answered) ==
    /\ pc[r] = "release"
    /\ row' = IF executed /\ Closable(r) THEN NoRow ELSE row
    /\ IF executed /\ answered /\ Closable(r)
       THEN Answer(r, "retry")
       ELSE Goto(r, "confirmRelease") /\ UNCHANGED <<said, heard>>
    /\ UNCHANGED <<now, at, inserted, seen, token, outcome, ran>>

(* Mutant: no look at what the release left.                               *)
ReleasedSurely == TRUE

Released == row.state = "absent"

ConfirmRelease(r, read) ==
    /\ pc[r] = "confirmRelease"
    /\ Answer(r, IF read /\ Released THEN "retry" ELSE "unknown")
    /\ UNCHANGED <<now, row, at, inserted, seen, token, outcome, ran>>

Sweep(t) ==
    /\ row' = IF Expired(t) THEN NoRow ELSE row
    /\ ran' = IF Expired(t)
              THEN [s \in Requests |-> IF s = row.owner THEN "expired" ELSE ran[s]] ELSE ran

(* A request that stored a response sweeps the whole table ...             *)
Prune(r) ==
    /\ pc[r] = "prune"
    /\ Sweep(at[r])
    /\ Goto(r, "done")
    /\ UNCHANGED <<now, at, inserted, seen, token, outcome, said, heard>>

(* ... and so do the requests with other keys.                             *)
PruneElsewhere ==
    /\ Expired(now)
    /\ Sweep(now)
    /\ UNCHANGED <<now, localVars, said, heard>>

-----------------------------------------------------------------------------
(* What goes wrong, and the clock.                                         *)

(* A statement that is not executed where its failure is not caught.       *)
Fails(r) ==
    /\ pc[r] \in {"reserve", "load", "begin"}
    /\ Answer(r, "failed")
    /\ UNCHANGED <<now, row, at, inserted, seen, token, outcome, ran>>

(* The same where it is caught.                                            *)
TakeoverFails(r) ==
    /\ pc[r] = "takeover"
    /\ Answer(r, "refused")
    /\ UNCHANGED <<now, row, at, inserted, seen, token, outcome, ran>>

(* The isolate dies; an action that it was executing may have had effect.  *)
Crash(r) ==
    /\ pc[r] \notin {"idle", "done"}
    /\ Goto(r, "done")
    /\ ran' = [ran EXCEPT ![r] = IF @ = "running" THEN "effect" ELSE @]
    /\ UNCHANGED <<now, row, at, inserted, seen, token, outcome, said, heard>>

Tick ==
    /\ now < MaxTime
    /\ now' = now + 1
    /\ UNCHANGED <<row, localVars, ghostVars>>

RequestStep(r) ==
    \/ Enter(r) \/ Reserve(r, TRUE) \/ Load(r) \/ Mark(r, TRUE) \/ Takeover(r, TRUE)
    \/ Begin(r, TRUE) \/ Execute(r, "final") \/ Execute(r, "unknown") \/ Preflight(r)
    \/ Persist(r, TRUE, TRUE) \/ Confirm(r, TRUE)
    \/ Release(r, TRUE, TRUE) \/ ConfirmRelease(r, TRUE) \/ Prune(r)

FaultStep(r) ==
    \/ Reserve(r, FALSE) \/ Mark(r, FALSE) \/ Takeover(r, FALSE) \/ Begin(r, FALSE)
    \/ \E executed \in BOOLEAN : Persist(r, executed, FALSE) \/ Release(r, executed, FALSE)
    \/ Confirm(r, FALSE) \/ ConfirmRelease(r, FALSE)
    \/ Fails(r) \/ TakeoverFails(r) \/ Crash(r)

Next ==
    \/ /\ Tick \/ PruneElsewhere \/ \E r \in Requests : RequestStep(r)
       /\ UNCHANGED faults
    \/ /\ \E r \in Requests : FaultStep(r)
       /\ faults < MaxFaults
       /\ faults' = faults + 1

Spec == Init /\ [][Next]_vars

-----------------------------------------------------------------------------
(* What must be true.                                                      *)

(* ADR-27, "a started idempotent mutation is at-most-once": however the    *)
(* requests with one key interleave, fail, or outlive their reservation,   *)
(* the action of at most one of them runs or may have taken effect, until  *)
(* its terminal response has aged out.                                     *)
AtMostOnce ==
    \A r, s \in Requests : ran[r] \in {"running", "effect"} /\ ran[s] \in {"running", "effect"} => r = s

(* A terminal response that a request was given, as its own or as a        *)
(* replay, is that of an action that ran for the same payload, and the key *)
(* keeps replaying it until it ages out.                                   *)
FinalAnswersAreKept ==
    \A r \in Requests : said[r] = "final" =>
        /\ (heard[r] \in Reusers) = (r \in Reusers)
        /\ \/ ran[heard[r]] = "expired"
           \/ ran[heard[r]] = "effect" /\ row.state = "final" /\ row.response = heard[r]

(* A request whose action stopped before it had any effect, and that was   *)
(* told so, has left no reservation behind: the key may be tried again.    *)
RetryIsPossible ==
    \A r \in Requests : said[r] = "retry" => row.state = "absent" \/ row.owner # r

(* An execution_unknown row is a permanent tombstone.                      *)
TombstoneStays == [][row.state = "unknown" => row' = row]_vars
=============================================================================
