-------------------------- MODULE IdempotencyProofs --------------------------
(***************************************************************************)
(* Proofs about runIdempotentAction for any number of requests with one    *)
(* key, any payloads and any windows.                                      *)
(*                                                                         *)
(* The invariant says who an execution belongs to: an action that runs or  *)
(* may have taken effect is that of the row's owner, and the row says that *)
(* it started (Claims), so there is no second one.  Only the ageing out of *)
(* a terminal response ends this.  The rest of the invariant follows a     *)
(* request through its phases (Phases) and keeps the answers that were     *)
(* given (Answers).                                                        *)
(***************************************************************************)
EXTENDS Idempotency, TLAPS

BeforeRun == {"idle", "reserve", "load", "mark", "takeover", "begin"}

(* The row names its owner, the owner's payload and the owner's response.  *)
RowInv ==
    /\ row.state # "absent" => row.owner \in Requests /\ row.reused = (row.owner \in Reusers)
    /\ row.state \in {"unknown", "final"} => row.started
    /\ row.state = "final" => row.response = row.owner /\ ran[row.owner] = "effect"

(* An action that runs or took effect holds the row.                       *)
Claims(r) ==
    /\ ran[r] \in {"running", "effect"} => row.state # "absent" /\ row.owner = r /\ row.started
    /\ ran[r] = "expired" => row.state = "absent" \/ row.owner # r

Phases(r) ==
    /\ pc[r] \in BeforeRun => ran[r] = "no"
    /\ pc[r] = "execute" <=> ran[r] = "running"
    /\ pc[r] \in {"persist", "confirm"} => ran[r] \in {"effect", "expired"}
    /\ pc[r] \in {"release", "confirmRelease"} => ran[r] = "nothing"
    /\ said[r] # "none" => pc[r] \in {"prune", "done"}

Answers(r) ==
    /\ said[r] = "final" =>
         /\ heard[r] \in Requests
         /\ (heard[r] \in Reusers) = (r \in Reusers)
         /\ \/ ran[heard[r]] = "expired"
            \/ ran[heard[r]] = "effect" /\ row.state = "final" /\ row.response = heard[r]
    /\ said[r] = "retry" => row.state = "absent" \/ row.owner # r

IInv ==
    /\ TypeOK
    /\ RowInv
    /\ \A r \in Requests : Claims(r) /\ Phases(r) /\ Answers(r)

-----------------------------------------------------------------------------
(* A row that is taken over is a row.                                      *)
LEMMA TakenRowIsRow ==
    ASSUME NEW x \in Row, NEW o \in Requests, NEW g \in Nat, NEW t \in Nat
    PROVE  [x EXCEPT !.owner = o, !.gen = g, !.createdAt = t] \in Row
BY DEF Row

(* Every step of a request keeps the types.                                *)
LEMMA RequestKeepsTypes ==
    ASSUME TypeOK, NEW r \in Requests, RequestStep(r) \/ FaultStep(r), faults' \in 0 .. MaxFaults
    PROVE  TypeOK'
<1> USE TimeAssumption DEF TypeOK, localVars, ghostVars, Goto, Say, Answer, Pc, Ran, Said
<1>1. CASE Enter(r)
  BY <1>1 DEF Enter
<1>2. ASSUME NEW answered \in BOOLEAN, Reserve(r, answered)
     PROVE  TypeOK'
  BY <1>2 DEF Reserve, Reservation, Row
<1>3. CASE Load(r)
  <2>1. seen' \in [Requests -> Row] /\ token' \in [Requests -> Nat] /\ pc' \in [Requests -> Pc]
    BY <1>3 DEF Load
  <2>2. said' \in [Requests -> Said]
    BY <1>3 DEF Load, SayFinal
  <2>3. heard' \in [Requests -> Requests \cup {None}]
    BY <1>3 DEF Load, SayFinal, Row
  <2>4. UNCHANGED <<now, row, at, inserted, outcome, ran>>
    BY <1>3 DEF Load
  <2> QED BY <2>1, <2>2, <2>3, <2>4
<1>4. ASSUME NEW executed \in BOOLEAN, Mark(r, executed)
     PROVE  TypeOK'
  BY <1>4 DEF Mark, Abandoned, Row
<1>5. ASSUME NEW answered \in BOOLEAN, Takeover(r, answered)
     PROVE  TypeOK'
  <2>1. row.gen + 1 \in Nat /\ at[r] \in Nat /\ row \in Row
    BY DEF Row
  <2>2. [row EXCEPT !.owner = r, !.gen = row.gen + 1, !.createdAt = at[r]] \in Row
    BY <2>1, TakenRowIsRow
  <2>3. row' \in Row
    BY <1>5, <2>1, <2>2 DEF Takeover
  <2>4. token' \in [Requests -> Nat]
    BY <1>5 DEF Takeover, Row
  <2>5. pc' \in [Requests -> Pc] /\ said' \in [Requests -> Said] /\ UNCHANGED heard
    BY <1>5 DEF Takeover
  <2> QED BY <1>5, <2>3, <2>4, <2>5 DEF Takeover
<1>6. ASSUME NEW answered \in BOOLEAN, Begin(r, answered)
     PROVE  TypeOK'
  BY <1>6, ZenonT(40) DEF Begin, Startable, Mine, Row
<1>7. ASSUME NEW what \in {"final", "unknown"}, Execute(r, what)
     PROVE  TypeOK'
  BY <1>7 DEF Execute
<1>8. CASE Preflight(r)
  BY <1>8 DEF Preflight
<1>9. ASSUME NEW executed \in BOOLEAN, NEW answered \in BOOLEAN, Persist(r, executed, answered)
     PROVE  TypeOK'
  <2>1. row' \in Row
    BY <1>9 DEF Persist, Row
  <2>2. pc' \in [Requests -> Pc] /\ said' \in [Requests -> Said]
        /\ heard' \in [Requests -> Requests \cup {None}]
    BY <1>9 DEF Persist, AfterTerminal, SayFinal
  <2> QED BY <1>9, <2>1, <2>2 DEF Persist
<1>10. ASSUME NEW read \in BOOLEAN, Confirm(r, read)
     PROVE  TypeOK'
  BY <1>10 DEF Confirm, Stored, AfterTerminal, SayFinal
<1>11. ASSUME NEW executed \in BOOLEAN, NEW answered \in BOOLEAN, Release(r, executed, answered)
     PROVE  TypeOK'
  BY <1>11 DEF Release, Closable, Mine, NoRow, Row
<1>12. ASSUME NEW read \in BOOLEAN, ConfirmRelease(r, read)
     PROVE  TypeOK'
  BY <1>12 DEF ConfirmRelease, Released, Row
<1>13. CASE Prune(r)
  BY <1>13 DEF Prune, Sweep, Expired, NoRow, Row
<1>14. CASE Fails(r)
  BY <1>14 DEF Fails
<1>15. CASE TakeoverFails(r)
  BY <1>15 DEF TakeoverFails
<1>16. CASE Crash(r)
  BY <1>16 DEF Crash
<1> QED BY <1>1, <1>2, <1>3, <1>4, <1>5, <1>6, <1>7, <1>8, <1>9, <1>10, <1>11, <1>12, <1>13, <1>14, <1>15, <1>16 DEF RequestStep, FaultStep

(* Every step keeps the types.                                             *)
LEMMA StepKeepsTypes ==
    ASSUME TypeOK, [Next]_vars
    PROVE  TypeOK'
<1>1. CASE UNCHANGED vars
  BY <1>1 DEF TypeOK, vars, localVars, ghostVars
<1>2. CASE Tick /\ UNCHANGED faults
  BY <1>2 DEF Tick, TypeOK, localVars, ghostVars
<1>3. CASE PruneElsewhere /\ UNCHANGED faults
  <2>1. row' \in Row
    BY <1>3 DEF PruneElsewhere, Sweep, NoRow, Row, TypeOK
  <2>2. ran' \in [Requests -> Ran]
    BY <1>3 DEF PruneElsewhere, Sweep, Ran, TypeOK
  <2> QED BY <1>3, <2>1, <2>2 DEF PruneElsewhere, TypeOK, localVars
<1>4. ASSUME NEW r \in Requests, RequestStep(r), UNCHANGED faults PROVE TypeOK'
  BY <1>4, RequestKeepsTypes DEF TypeOK
<1>5. ASSUME NEW r \in Requests, FaultStep(r), faults < MaxFaults, faults' = faults + 1 PROVE TypeOK'
  <2>1. faults' \in 0 .. MaxFaults
    BY <1>5, TimeAssumption DEF TypeOK
  <2> QED BY <1>5, <2>1, RequestKeepsTypes
<1> QED BY <1>1, <1>2, <1>3, <1>4, <1>5 DEF Next

(* The step of a request keeps the row its owner's, no action that runs or *)
(* took effect loses it, and the answers given stay true.                  *)
LEMMA RequestKeepsRest ==
    ASSUME IInv, NEW r \in Requests, RequestStep(r) \/ FaultStep(r), TypeOK'
    PROVE  RowInv' /\ \A s \in Requests : Claims(s)' /\ Phases(s)' /\ Answers(s)'
<1> DEFINE Rest == RowInv' /\ \A s \in Requests : Claims(s)' /\ Phases(s)' /\ Answers(s)'
<1>0. RowInv /\ row \in Row /\ pc \in [Requests -> Pc] /\ ran \in [Requests -> Ran]
      /\ said \in [Requests -> Said] /\ heard \in [Requests -> Requests \cup {None}]
      /\ seen \in [Requests -> Row] /\ outcome \in [Requests -> {"final", "unknown"}]
  BY DEF IInv, TypeOK
<1>a. \A s \in Requests : Claims(s) /\ Phases(s) /\ Answers(s)
  BY DEF IInv
<1> USE DEF localVars, ghostVars, Goto, Say, Answer, Row, BeforeRun
<1>1. CASE Enter(r)
  <2>1. RowInv'
    BY <1>1, <1>0, <1>a DEF Enter, RowInv, Claims, Phases
  <2>2. ASSUME NEW s \in Requests PROVE Claims(s)'
    BY <1>1, <1>0, <1>a DEF Enter, RowInv, Claims, Phases
  <2>3. ASSUME NEW s \in Requests PROVE Phases(s)'
    BY <1>1, <1>0, <1>a DEF Enter, Phases, Pc, Ran
  <2>4. ASSUME NEW s \in Requests PROVE Answers(s)'
    BY <1>1, <1>0, <1>a DEF Enter, RowInv, Claims, Phases, Answers
  <2> QED BY <2>1, <2>2, <2>3, <2>4
<1>2. ASSUME NEW answered \in BOOLEAN, Reserve(r, answered)
      PROVE  Rest
  <2>1. RowInv'
    BY <1>2, <1>0, <1>a DEF Reserve, Reservation, RowInv, Claims, Phases
  <2>2. ASSUME NEW s \in Requests PROVE Claims(s)'
    BY <1>2, <1>0, <1>a DEF Reserve, Reservation, RowInv, Claims, Phases
  <2>3. ASSUME NEW s \in Requests PROVE Phases(s)'
    BY <1>2, <1>0, <1>a DEF Reserve, Reservation, Phases, Pc, Ran
  <2>4. ASSUME NEW s \in Requests PROVE Answers(s)'
    BY <1>2, <1>0, <1>a DEF Reserve, Reservation, RowInv, Claims, Phases, Answers
  <2> QED BY <2>1, <2>2, <2>3, <2>4
<1>3. CASE Load(r)
  <2>1. RowInv'
    BY <1>3, <1>0, <1>a DEF Load, RowInv, Claims, Phases
  <2>2. ASSUME NEW s \in Requests PROVE Claims(s)'
    BY <1>3, <1>0, <1>a DEF Load, RowInv, Claims, Phases
  <2>3. ASSUME NEW s \in Requests PROVE Phases(s)'
    BY <1>3, <1>0, <1>a DEF Load, SayFinal, Phases, Pc, Ran
  <2>4. ASSUME NEW s \in Requests PROVE Answers(s)'
    BY <1>3, <1>0, <1>a DEF Load, SayFinal, SamePayload, RowInv, Claims, Phases, Answers
  <2> QED BY <2>1, <2>2, <2>3, <2>4
<1>4. ASSUME NEW executed \in BOOLEAN, Mark(r, executed)
      PROVE  Rest
  <2>1. RowInv'
    BY <1>4, <1>0, <1>a DEF Mark, Abandoned, RowInv, Claims, Phases
  <2>2. ASSUME NEW s \in Requests PROVE Claims(s)'
    BY <1>4, <1>0, <1>a DEF Mark, Abandoned, RowInv, Claims, Phases
  <2>3. ASSUME NEW s \in Requests PROVE Phases(s)'
    BY <1>4, <1>0, <1>a DEF Mark, Abandoned, Phases, Pc, Ran
  <2>4. ASSUME NEW s \in Requests PROVE Answers(s)'
    BY <1>4, <1>0, <1>a DEF Mark, Abandoned, RowInv, Claims, Phases, Answers
  <2> QED BY <2>1, <2>2, <2>3, <2>4
<1>5. ASSUME NEW answered \in BOOLEAN, Takeover(r, answered)
      PROVE  Rest
  <2>1. RowInv'
    BY <1>5, <1>0, <1>a DEF Takeover, Takeable, SamePayload, RowInv, Claims, Phases
  <2>2. ASSUME NEW s \in Requests PROVE Claims(s)'
    BY <1>5, <1>0, <1>a DEF Takeover, Takeable, SamePayload, RowInv, Claims, Phases
  <2>3. ASSUME NEW s \in Requests PROVE Phases(s)'
    BY <1>5, <1>0, <1>a DEF Takeover, Takeable, SamePayload, Phases, Pc, Ran
  <2>4. ASSUME NEW s \in Requests PROVE Answers(s)'
    BY <1>5, <1>0, <1>a DEF Takeover, Takeable, SamePayload, RowInv, Claims, Phases, Answers
  <2> QED BY <2>1, <2>2, <2>3, <2>4
<1>6. ASSUME NEW answered \in BOOLEAN, Begin(r, answered)
      PROVE  Rest
  <2>1. RowInv'
    BY <1>6, <1>0, <1>a DEF Begin, Startable, Mine, RowInv, Claims, Phases
  <2>2. ASSUME NEW s \in Requests PROVE Claims(s)'
    BY <1>6, <1>0, <1>a DEF Begin, Startable, Mine, RowInv, Claims, Phases
  <2>3. ASSUME NEW s \in Requests PROVE Phases(s)'
    BY <1>6, <1>0, <1>a DEF Begin, Startable, Mine, Phases, Pc, Ran
  <2>4. ASSUME NEW s \in Requests PROVE Answers(s)'
    BY <1>6, <1>0, <1>a DEF Begin, Startable, Mine, RowInv, Claims, Phases, Answers
  <2> QED BY <2>1, <2>2, <2>3, <2>4
<1>7. ASSUME NEW what \in {"final", "unknown"}, Execute(r, what)
      PROVE  Rest
  <2>1. RowInv'
    BY <1>7, <1>0, <1>a DEF Execute, RowInv, Claims, Phases
  <2>2. ASSUME NEW s \in Requests PROVE Claims(s)'
    BY <1>7, <1>0, <1>a DEF Execute, RowInv, Claims, Phases
  <2>3. ASSUME NEW s \in Requests PROVE Phases(s)'
    BY <1>7, <1>0, <1>a DEF Execute, Phases, Pc, Ran
  <2>4. ASSUME NEW s \in Requests PROVE Answers(s)'
    BY <1>7, <1>0, <1>a DEF Execute, RowInv, Claims, Phases, Answers
  <2> QED BY <2>1, <2>2, <2>3, <2>4
<1>8. CASE Preflight(r)
  <2>1. RowInv'
    BY <1>8, <1>0, <1>a DEF Preflight, RowInv, Claims, Phases
  <2>2. ASSUME NEW s \in Requests PROVE Claims(s)'
    BY <1>8, <1>0, <1>a DEF Preflight, RowInv, Claims, Phases
  <2>3. ASSUME NEW s \in Requests PROVE Phases(s)'
    BY <1>8, <1>0, <1>a DEF Preflight, Phases, Pc, Ran
  <2>4. ASSUME NEW s \in Requests PROVE Answers(s)'
    BY <1>8, <1>0, <1>a DEF Preflight, RowInv, Claims, Phases, Answers
  <2> QED BY <2>1, <2>2, <2>3, <2>4
<1>9. ASSUME NEW executed \in BOOLEAN, NEW answered \in BOOLEAN, Persist(r, executed, answered)
      PROVE  Rest
  <2>1. RowInv'
    BY <1>9, <1>0, <1>a DEF Persist, Closable, Mine, RowInv, Claims, Phases
  <2>2. ASSUME NEW s \in Requests PROVE Claims(s)'
    BY <1>9, <1>0, <1>a DEF Persist, Closable, Mine, RowInv, Claims, Phases
  <2>3. ASSUME NEW s \in Requests PROVE Phases(s)'
    BY <1>9, <1>0, <1>a DEF Persist, AfterTerminal, SayFinal, Phases, Pc, Ran
  <2>4. ASSUME NEW s \in Requests PROVE Answers(s)'
    BY <1>9, <1>0, <1>a DEF Persist, Closable, Mine, AfterTerminal, SayFinal, RowInv, Claims, Phases, Answers
  <2> QED BY <2>1, <2>2, <2>3, <2>4
<1>10. ASSUME NEW read \in BOOLEAN, Confirm(r, read)
      PROVE  Rest
  <2>1. RowInv'
    BY <1>10, <1>0, <1>a DEF Confirm, RowInv, Claims, Phases
  <2>2. ASSUME NEW s \in Requests PROVE Claims(s)'
    BY <1>10, <1>0, <1>a DEF Confirm, RowInv, Claims, Phases
  <2>3. ASSUME NEW s \in Requests PROVE Phases(s)'
    BY <1>10, <1>0, <1>a DEF Confirm, AfterTerminal, SayFinal, Phases, Pc, Ran
  <2>4. ASSUME NEW s \in Requests PROVE Answers(s)'
    BY <1>10, <1>0, <1>a DEF Confirm, AfterTerminal, SayFinal, Stored, RowInv, Claims, Phases, Answers
  <2> QED BY <2>1, <2>2, <2>3, <2>4
<1>11. ASSUME NEW executed \in BOOLEAN, NEW answered \in BOOLEAN, Release(r, executed, answered)
      PROVE  Rest
  <2>1. RowInv'
    BY <1>11, <1>0, <1>a DEF Release, Closable, Mine, NoRow, RowInv, Claims, Phases
  <2>2. ASSUME NEW s \in Requests PROVE Claims(s)'
    BY <1>11, <1>0, <1>a DEF Release, Closable, Mine, NoRow, RowInv, Claims, Phases
  <2>3. ASSUME NEW s \in Requests PROVE Phases(s)'
    BY <1>11, <1>0, <1>a DEF Release, Closable, Mine, NoRow, Phases, Pc, Ran
  <2>4. ASSUME NEW s \in Requests PROVE Answers(s)'
    BY <1>11, <1>0, <1>a DEF Release, Closable, Mine, NoRow, RowInv, Claims, Phases, Answers
  <2> QED BY <2>1, <2>2, <2>3, <2>4
<1>12. ASSUME NEW read \in BOOLEAN, ConfirmRelease(r, read)
      PROVE  Rest
  <2>1. RowInv'
    BY <1>12, <1>0, <1>a DEF ConfirmRelease, Released, RowInv, Claims, Phases
  <2>2. ASSUME NEW s \in Requests PROVE Claims(s)'
    BY <1>12, <1>0, <1>a DEF ConfirmRelease, Released, RowInv, Claims, Phases
  <2>3. ASSUME NEW s \in Requests PROVE Phases(s)'
    BY <1>12, <1>0, <1>a DEF ConfirmRelease, Released, Phases, Pc, Ran
  <2>4. ASSUME NEW s \in Requests PROVE Answers(s)'
    BY <1>12, <1>0, <1>a DEF ConfirmRelease, Released, RowInv, Claims, Phases, Answers
  <2> QED BY <2>1, <2>2, <2>3, <2>4
<1>13. CASE Prune(r)
  <2>1. RowInv'
    BY <1>13, <1>0, <1>a DEF Prune, Sweep, Expired, NoRow, RowInv, Claims, Phases
  <2>2. ASSUME NEW s \in Requests PROVE Claims(s)'
    BY <1>13, <1>0, <1>a DEF Prune, Sweep, Expired, NoRow, RowInv, Claims, Phases
  <2>3. ASSUME NEW s \in Requests PROVE Phases(s)'
    BY <1>13, <1>0, <1>a DEF Prune, Sweep, Expired, NoRow, RowInv, Phases, Pc, Ran
  <2>4. ASSUME NEW s \in Requests PROVE Answers(s)'
    BY <1>13, <1>0, <1>a DEF Prune, Sweep, Expired, NoRow, RowInv, Claims, Phases, Answers
  <2> QED BY <2>1, <2>2, <2>3, <2>4
<1>14. CASE Fails(r)
  <2>1. RowInv'
    BY <1>14, <1>0, <1>a DEF Fails, RowInv, Claims, Phases
  <2>2. ASSUME NEW s \in Requests PROVE Claims(s)'
    BY <1>14, <1>0, <1>a DEF Fails, RowInv, Claims, Phases
  <2>3. ASSUME NEW s \in Requests PROVE Phases(s)'
    BY <1>14, <1>0, <1>a DEF Fails, Phases, Pc, Ran
  <2>4. ASSUME NEW s \in Requests PROVE Answers(s)'
    BY <1>14, <1>0, <1>a DEF Fails, RowInv, Claims, Phases, Answers
  <2> QED BY <2>1, <2>2, <2>3, <2>4
<1>15. CASE TakeoverFails(r)
  <2>1. RowInv'
    BY <1>15, <1>0, <1>a DEF TakeoverFails, RowInv, Claims, Phases
  <2>2. ASSUME NEW s \in Requests PROVE Claims(s)'
    BY <1>15, <1>0, <1>a DEF TakeoverFails, RowInv, Claims, Phases
  <2>3. ASSUME NEW s \in Requests PROVE Phases(s)'
    BY <1>15, <1>0, <1>a DEF TakeoverFails, Phases, Pc, Ran
  <2>4. ASSUME NEW s \in Requests PROVE Answers(s)'
    BY <1>15, <1>0, <1>a DEF TakeoverFails, RowInv, Claims, Phases, Answers
  <2> QED BY <2>1, <2>2, <2>3, <2>4
<1>16. CASE Crash(r)
  <2>1. RowInv'
    BY <1>16, <1>0, <1>a DEF Crash, RowInv, Claims, Phases
  <2>2. ASSUME NEW s \in Requests PROVE Claims(s)'
    BY <1>16, <1>0, <1>a DEF Crash, RowInv, Claims, Phases
  <2>3. ASSUME NEW s \in Requests PROVE Phases(s)'
    BY <1>16, <1>0, <1>a DEF Crash, Phases, Pc, Ran
  <2>4. ASSUME NEW s \in Requests PROVE Answers(s)'
    BY <1>16, <1>0, <1>a DEF Crash, RowInv, Claims, Phases, Answers
  <2> QED BY <2>1, <2>2, <2>3, <2>4
<1> QED BY <1>1, <1>2, <1>3, <1>4, <1>5, <1>6, <1>7, <1>8, <1>9, <1>10, <1>11, <1>12, <1>13, <1>14, <1>15, <1>16 DEF RequestStep, FaultStep

(* Every step keeps the invariant.                                         *)
LEMMA StepKeepsIInv ==
    ASSUME IInv, [Next]_vars
    PROVE  IInv'
<1>1. TypeOK'
  BY StepKeepsTypes DEF IInv
<1>2. CASE UNCHANGED vars
  BY <1>1, <1>2 DEF IInv, RowInv, Claims, Phases, Answers, vars, localVars, ghostVars
<1>3. CASE Tick /\ UNCHANGED faults
  BY <1>1, <1>3 DEF Tick, IInv, RowInv, Claims, Phases, Answers, localVars, ghostVars
<1>4. CASE PruneElsewhere /\ UNCHANGED faults
  <2>1. row.state = "final" /\ row.owner \in Requests /\ ran[row.owner] = "effect"
    BY <1>4 DEF PruneElsewhere, Expired, IInv, RowInv
  <2>2. /\ row'.state = "absent"
        /\ ran' = [s \in Requests |-> IF s = row.owner THEN "expired" ELSE ran[s]]
        /\ UNCHANGED <<pc, said, heard>>
    BY <1>4 DEF PruneElsewhere, Sweep, NoRow, localVars
  <2>3. RowInv'
    BY <2>2 DEF RowInv
  <2>4. ASSUME NEW s \in Requests PROVE Claims(s)' /\ Phases(s)'
    BY <2>1, <2>2 DEF IInv, Claims, Phases, BeforeRun, TypeOK
  <2>5. ASSUME NEW s \in Requests PROVE Answers(s)'
    BY <2>1, <2>2 DEF IInv, Claims, Answers, TypeOK, Row, RowInv
  <2> QED BY <1>1, <2>3, <2>4, <2>5 DEF IInv
<1>5. ASSUME NEW r \in Requests, RequestStep(r) \/ FaultStep(r) PROVE IInv'
  BY <1>1, <1>5, RequestKeepsRest DEF IInv
<1> QED BY <1>2, <1>3, <1>4, <1>5 DEF Next

(* The invariant holds in every state.                                     *)
THEOREM Invariance == Spec => []IInv
<1>1. Init => IInv
  BY RequestAssumption, TimeAssumption
  DEF Init, IInv, TypeOK, RowInv, Claims, Phases, Answers, BeforeRun, NoRow, Row, Pc, Ran, Said
<1> QED BY <1>1, StepKeepsIInv, PTL DEF Spec

-----------------------------------------------------------------------------
(* Every reservation, token and answer has its type.                       *)
THEOREM Typed == Spec => []TypeOK
<1>1. IInv => TypeOK
  BY DEF IInv
<1> QED BY <1>1, Invariance, PTL

(* A started mutation is at most once: the actions of two requests with    *)
(* one key never both run or take effect while a terminal is retained.     *)
THEOREM AtMostOnceHolds == Spec => []AtMostOnce
<1>1. IInv => AtMostOnce
  BY DEF IInv, Claims, AtMostOnce
<1> QED BY <1>1, Invariance, PTL

(* The response that a request is given is that of an execution for the    *)
(* same payload, and later requests are given it until it ages out.        *)
THEOREM FinalAnswersAreKeptHolds == Spec => []FinalAnswersAreKept
<1>1. IInv => FinalAnswersAreKept
  BY DEF IInv, Answers, FinalAnswersAreKept
<1> QED BY <1>1, Invariance, PTL

(* A request that is told that nothing happened has left no reservation.   *)
THEOREM RetryIsPossibleHolds == Spec => []RetryIsPossible
<1>1. IInv => RetryIsPossible
  BY DEF IInv, Answers, RetryIsPossible
<1> QED BY <1>1, Invariance, PTL

(* No step of any request or sweep changes an execution_unknown row.       *)
THEOREM TombstoneStaysHolds == Spec => TombstoneStays
<1>1. IInv /\ [Next]_vars => [row.state = "unknown" => row' = row]_vars
  <2> SUFFICES ASSUME IInv, Next, row.state = "unknown" PROVE row' = row
    BY DEF vars
  <2>1. CASE Tick \/ PruneElsewhere
    BY <2>1 DEF Tick, PruneElsewhere, Expired
  <2>2. ASSUME NEW r \in Requests, RequestStep(r) \/ FaultStep(r) PROVE row' = row
    BY <2>2 DEF RequestStep, FaultStep, Enter, Reserve, Load, Mark, Abandoned, Takeover, Takeable,
                Begin, Startable, Mine, Execute, Preflight, Persist, Closable, Confirm, Release,
                ConfirmRelease, Prune, Sweep, Expired, Fails, TakeoverFails, Crash
  <2> QED BY <2>1, <2>2 DEF Next
<1> QED BY <1>1, Invariance, PTL DEF Spec, TombstoneStays
=============================================================================
