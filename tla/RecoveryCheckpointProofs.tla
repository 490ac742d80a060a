---------------------- MODULE RecoveryCheckpointProofs ----------------------
(***************************************************************************)
(* Proofs about the checkpoint of one cohort for any number of coins, of   *)
(* invocations and of takeovers, and any failures.                         *)
(*                                                                         *)
(* All rows but the last are given up (Chain), so whoever's writes pass    *)
(* the fence holds the last one, and there is one such (OneHolder).  Every *)
(* row that is not given up, every row that a takeover has read, however   *)
(* long ago, and every holder is at a place before which all coins have an *)
(* outcome, because outcomes do not go away (Behind).                      *)
(***************************************************************************)
EXTENDS RecoveryCheckpoint, SequenceTheorems, TLAPS

Working == {"start", "resume", "work", "fetch", "stopped", "handoff", "tail", "close", "finish", "send"}

(* Who works, what is sent and what is read has a row.                     *)
Attached ==
    /\ \A o \in Owners : owner[o].pc \in Working => owner[o].attempt \in DOMAIN rows
    /\ \A o \in Owners : owner[o].pc = "begin" => o = Producer /\ owner[o].attempt = 1 /\ rows = <<>>
    /\ \A o \in Owners : owner[o].pc = "fetch" => owner[o].coin # 0
    /\ \A m \in queue : m.attempt \in DOMAIN rows
    /\ \A t \in Takers : look[t].stage = "read" => look[t].attempt \in DOMAIN rows
Chain == \A a \in DOMAIN rows : a < Len(rows) <=> rows[a].state = "platform_abandoned"

Shape == TypeOK /\ Attached /\ Chain

(* Of the coins T that have an outcome and the coins' attempts C: all      *)
(* coins before this one have an outcome; 0 is beyond the last.            *)
Behind(T, c) == \A b \in Coins : c = 0 \/ b < c => b \in T

(* The attempt that a row is at is the coin's last one, or was.            *)
Sound(T, C, r) ==
    /\ r.state # "platform_abandoned" => Behind(T, r.next)
    /\ r.current # 0 => /\ Behind(T, r.current)
                        /\ r.domain # NoAttempt
                        /\ r.domain.coin = r.current
                        /\ r.domain.n <= C[r.current].last

(* An attempt that was read and left is no longer the coin's, or no longer *)
(* pending.                                                                *)
Fenceless(C, x) ==
    /\ x.coin \in Coins
    /\ x.n \in Nat
    /\ x.n <= C[x.coin].last
    /\ x.n = C[x.coin].last => ~C[x.coin].pending

(* Where a holder is, and that its attempt is the one that may be settled. *)
Works(o) ==
    /\ owner[o].pc = "fetch" => owner[o].try <= coin[owner[o].coin].last
    /\ owner[o].pc = "tail" => Behind(tried, 0)
    /\ owner[o].pc \in {"work", "fetch"} /\ Holds(o) => Behind(tried, owner[o].coin)
    /\ owner[o].pc = "fetch" /\ Holds(o) => Pending(o)

Tries ==
    \A o, p \in Owners :
        /\ owner[o].pc = "fetch" /\ owner[p].pc = "fetch"
        /\ owner[o].coin = owner[p].coin /\ owner[o].try = owner[p].try
        => o = p

Progress ==
    /\ \A a \in DOMAIN rows : Sound(tried, coin, rows[a])
    /\ \A t \in Takers : look[t].stage = "read" =>
          look[t].row.state \in Held /\ Sound(tried, coin, look[t].row)
    /\ \A o \in Owners : Works(o)
    /\ Tries
    /\ \A c \in Coins : coin[c].published # {} => c \in tried
    /\ tailed = Coins
    /\ \A x \in left : x.coin \in Coins
    /\ \A x \in left \ unread : Fenceless(coin, x)

IInv == Shape /\ Progress

-----------------------------------------------------------------------------
(* What a step may do to the rows and to what an invocation has in memory. *)

Standing == {r \in Row : r.state # "platform_abandoned"}

RowStep ==
    \/ UNCHANGED rows
    \/ rows = <<>> /\ \E r \in Standing : rows' = <<r>>
    \/ \E a \in DOMAIN rows, r \in Standing :
         rows[a].state \in Active /\ rows' = [rows EXCEPT ![a] = r]
    \/ \E a \in DOMAIN rows, r \in Standing :
         rows[a].state \in Held /\ rows' = Append([rows EXCEPT ![a] = Left], r)

OwnerStep ==
    \/ UNCHANGED owner
    \/ \E o \in Owners, w \in Owner :
         /\ owner' = [owner EXCEPT ![o] = w]
         /\ w.pc \in Working => w.attempt \in DOMAIN rows'
         /\ w.pc = "begin" => owner[o].pc = "begin" /\ w.attempt = owner[o].attempt
         /\ w.pc = "fetch" => w.coin # 0

Others ==
    /\ coin \in [Coins -> [last : Nat, pending : BOOLEAN, published : SUBSET Nat]]
    /\ event \in [Owners -> {"none", "running", "silent", "ok", "bad"}]
    /\ \A m \in queue : /\ m \in [attempt : Nat, source : Owners, next : 0 .. CoinCount]
                        /\ m.attempt \in DOMAIN rows
    /\ look \in [Takers -> Seen]
    /\ \A t \in Takers : look[t].stage = "read" => look[t].attempt \in DOMAIN rows
    /\ tried \in SUBSET Coins /\ tailed \in SUBSET Coins
    /\ left \in SUBSET Attempt /\ unread \in SUBSET Attempt
    /\ faults \in 0 .. MaxFaults

(* The begin step alone may leave the empty cohort.                        *)
Stepped == RowStep /\ OwnerStep /\ Others' /\ (rows = <<>> => rows' = <<>> \/ owner'[Producer].pc # "begin")

USE DEF Owners, Coins

LEMMA Replaced ==
    ASSUME NEW S, NEW s \in Seq(S), NEW a \in DOMAIN s, NEW e \in S
    PROVE  /\ [s EXCEPT ![a] = e] \in Seq(S)
           /\ Len([s EXCEPT ![a] = e]) = Len(s)
           /\ DOMAIN [s EXCEPT ![a] = e] = DOMAIN s
BY ExceptSeq, LenProperties

LEMMA Zeros == 0 \in 0 .. CoinCount /\ 0 \in 0 .. MaxOwners /\ NoAttempt \in Attempt
BY CountAssumption DEF Attempt

LEMMA LeftRow == Left \in Row
BY CountAssumption DEF Left, Row, Active, Held, Ended, Attempt, Child

(* From the summary: the rows keep their type, their number never goes     *)
(* down, and all but the last are given up.                                *)
LEMMA RowsShape ==
    ASSUME Shape, RowStep
    PROVE  /\ rows' \in Seq(Row)
           /\ DOMAIN rows \subseteq DOMAIN rows'
           /\ Chain'
           /\ \A a \in DOMAIN rows :
                /\ a < Len(rows') => rows'[a].state = "platform_abandoned"
                /\ rows[a].state \in Ended \cup {"platform_abandoned"} => rows'[a] = rows[a]
<1>1. rows \in Seq(Row) /\ Chain
  BY DEF Shape, TypeOK
<1>2. CASE UNCHANGED rows
  BY <1>1, <1>2 DEF Chain
<1>3. CASE rows = <<>> /\ \E r \in Standing : rows' = <<r>>
  <2>1. PICK r \in Standing : rows' = <<r>>
    BY <1>3
  <2>2. rows' \in Seq(Row) /\ Len(rows') = 1 /\ rows'[1] = r /\ DOMAIN rows' = {1}
    BY <2>1 DEF Standing
  <2> QED
    BY <1>3, <2>2 DEF Chain, Standing
<1>4. CASE \E a \in DOMAIN rows, r \in Standing :
             rows[a].state \in Active /\ rows' = [rows EXCEPT ![a] = r]
  <2>1. PICK a \in DOMAIN rows, r \in Standing :
               rows[a].state \in Active /\ rows' = [rows EXCEPT ![a] = r]
    BY <1>4
  <2>2. rows' \in Seq(Row) /\ Len(rows') = Len(rows) /\ DOMAIN rows' = DOMAIN rows
    BY <1>1, <2>1, Replaced DEF Standing
  <2>3. a = Len(rows)
    BY <1>1, <2>1 DEF Chain, Active, Held
  <2>4. \A b \in DOMAIN rows : b # a => rows'[b] = rows[b]
    BY <1>1, <2>1
  <2> QED
    BY <1>1, <2>1, <2>2, <2>3, <2>4 DEF Chain, Active, Held, Ended, Standing
<1>5. CASE \E a \in DOMAIN rows, r \in Standing :
             rows[a].state \in Held /\ rows' = Append([rows EXCEPT ![a] = Left], r)
  <2>1. PICK a \in DOMAIN rows, r \in Standing :
               rows[a].state \in Held /\ rows' = Append([rows EXCEPT ![a] = Left], r)
    BY <1>5
  <2> DEFINE s == [rows EXCEPT ![a] = Left]
  <2>2. s \in Seq(Row) /\ Len(s) = Len(rows) /\ DOMAIN s = DOMAIN rows
    BY <1>1, LeftRow, Replaced
  <2>3. a = Len(rows) /\ DOMAIN rows = 1 .. Len(rows)
    BY <1>1, <2>1 DEF Chain, Held
  <2>4. /\ \A b \in DOMAIN rows : b # a => s[b] = rows[b]
        /\ s[a].state = "platform_abandoned"
    BY <1>1 DEF Left
  <2> HIDE DEF s
  <2>5. /\ rows' = Append(s, r) /\ rows' \in Seq(Row) /\ Len(rows') = Len(rows) + 1
        /\ \A b \in DOMAIN rows : rows'[b] = s[b]
        /\ rows'[Len(rows) + 1] = r
    <3>1. r \in Row /\ rows' = Append(s, r)
      BY <2>1 DEF s, Standing
    <3>2. /\ Append(s, r) \in Seq(Row) /\ Len(Append(s, r)) = Len(s) + 1
          /\ \A b \in 1 .. Len(s) : Append(s, r)[b] = s[b]
          /\ Append(s, r)[Len(s) + 1] = r
      BY <2>2, <3>1, AppendProperties
    <3> QED
      BY <2>2, <2>3, <3>1, <3>2
  <2>6. DOMAIN rows' = 1 .. (Len(rows) + 1)
    BY <2>5
  <2> QED
    BY <1>1, <2>1, <2>3, <2>4, <2>5, <2>6 DEF Chain, Held, Ended, Standing
<1> QED
  BY <1>2, <1>3, <1>4, <1>5 DEF RowStep

LEMMA ShapeKept ==
    ASSUME Shape, Stepped
    PROVE  Shape'
<1>1. rows' \in Seq(Row) /\ DOMAIN rows \subseteq DOMAIN rows' /\ Chain'
  BY RowsShape DEF Stepped
<1>2. owner \in [Owners -> Owner] /\ Producer \in Owners
  BY CountAssumption DEF Shape, TypeOK, Producer
<1>3. owner' \in [Owners -> Owner]
  BY <1>2 DEF Stepped, OwnerStep
<1>4. ASSUME NEW o \in Owners, owner'[o].pc \in Working PROVE owner'[o].attempt \in DOMAIN rows'
  BY <1>1, <1>2, <1>4 DEF Stepped, OwnerStep, Shape, Attached
<1>5. ASSUME NEW o \in Owners, owner'[o].pc = "begin"
      PROVE  o = Producer /\ owner'[o].attempt = 1 /\ rows' = <<>>
  <2>1. owner[o].pc = "begin" /\ owner'[o].attempt = owner[o].attempt
    BY <1>2, <1>5 DEF Stepped, OwnerStep
  <2>2. o = Producer /\ owner[o].attempt = 1 /\ rows = <<>>
    BY <2>1 DEF Shape, Attached
  <2> QED
    BY <1>5, <2>1, <2>2 DEF Stepped
<1>6. ASSUME NEW o \in Owners, owner'[o].pc = "fetch" PROVE owner'[o].coin # 0
  BY <1>2, <1>6 DEF Stepped, OwnerStep, Shape, Attached
<1>7. TypeOK'
  BY <1>1, <1>3 DEF TypeOK, Stepped, Others
<1>8. Attached'
  BY <1>4, <1>5, <1>6 DEF Attached, Stepped, Others
<1> QED
  BY <1>1, <1>7, <1>8 DEF Shape

LEMMA Quiet ==
    ASSUME Shape, DOMAIN rows \subseteq DOMAIN rows',
           DurableUnchanged, UNCHANGED faults
    PROVE  Others'
BY DEF Shape, TypeOK, Attached, Others, DurableUnchanged

(* What a write may make of a row.                                         *)
Kin(r) == {s \in Row : r.state \in Held => s \in Standing}

(* A fenced write: the row of the writer, or nothing.                      *)
LEMMA FencedWrite ==
    ASSUME Shape, NEW o \in Owners, owner[o].pc \in Working, NEW r \in Kin(Mine(o)), NEW w \in Owner,
           w.pc \in Working, w.pc = "fetch" => w.coin # 0, w.attempt = owner[o].attempt, Fenced(o, r, w)
    PROVE  RowStep /\ OwnerStep /\ DOMAIN rows' = DOMAIN rows /\ rows # <<>>
<1>1. rows \in Seq(Row) /\ owner \in [Owners -> Owner] /\ owner[o].attempt \in DOMAIN rows
  BY DEF Shape, TypeOK, Attached
<1>2. rows # <<>>
  BY <1>1
<1>3. CASE Holds(o)
  <2>1. rows' = [rows EXCEPT ![owner[o].attempt] = r] /\ owner' = [owner EXCEPT ![o] = w]
    BY <1>3 DEF Fenced, Patch, Goes
  <2>2. rows[owner[o].attempt].state \in Active /\ r \in Standing
    BY <1>3 DEF Holds, Mine, Active, Kin
  <2>3. DOMAIN rows' = DOMAIN rows
    BY <1>1, <2>1
  <2> QED
    BY <1>1, <1>2, <2>1, <2>2, <2>3 DEF RowStep, OwnerStep, Working
<1>4. CASE ~Holds(o)
  <2> DEFINE v == [owner[o] EXCEPT !.pc = "finish", !.ok = FALSE, !.chain = FALSE]
  <2>1. UNCHANGED rows /\ owner' = [owner EXCEPT ![o] = v]
    BY <1>4 DEF Fenced, Leaves, Goes
  <2>2. v \in Owner /\ v.pc = "finish" /\ v.attempt = owner[o].attempt
    BY <1>1 DEF Owner
  <2> HIDE DEF v
  <2> QED
    BY <1>1, <1>2, <2>1, <2>2 DEF RowStep, OwnerStep, Working
<1> QED
  BY <1>3, <1>4

LEMMA OwnerMoves ==
    ASSUME Shape, NEW o \in Owners, owner[o].pc \in Working, NEW w \in Owner,
           w.pc \in Working, w.pc = "fetch" => w.coin # 0, w.attempt = owner[o].attempt, UNCHANGED rows, Goes(o, w)
    PROVE  RowStep /\ OwnerStep /\ DOMAIN rows' = DOMAIN rows /\ rows # <<>>
<1>1. rows \in Seq(Row) /\ owner \in [Owners -> Owner] /\ owner[o].attempt \in DOMAIN rows
  BY DEF Shape, TypeOK, Attached
<1>2. OwnerStep
  BY <1>1 DEF Goes, OwnerStep, Working
<1>3. RowStep /\ DOMAIN rows' = DOMAIN rows
  BY DEF RowStep
<1>4. rows # <<>>
  BY <1>1
<1> QED
  BY <1>2, <1>3, <1>4

LEMMA LeavesMoves ==
    ASSUME Shape, NEW o \in Owners, owner[o].pc \in Working, NEW ok \in BOOLEAN,
           UNCHANGED rows, Leaves(o, ok)
    PROVE  RowStep /\ OwnerStep /\ DOMAIN rows' = DOMAIN rows /\ rows # <<>>
<1> DEFINE v == [owner[o] EXCEPT !.pc = "finish", !.ok = ok, !.chain = FALSE]
<1>1. owner \in [Owners -> Owner]
  BY DEF Shape, TypeOK
<1>2. v \in Owner /\ v.pc = "finish" /\ v.attempt = owner[o].attempt /\ Goes(o, v)
  BY <1>1, ZenonT(40) DEF Owner, Leaves
<1> HIDE DEF v
<1> QED
  BY <1>2, OwnerMoves DEF Working

LEMMA MineTyped ==
    ASSUME Shape, NEW o \in Owners, owner[o].pc \in Working
    PROVE  Mine(o) \in Row /\ owner[o] \in Owner
BY DEF Shape, TypeOK, Attached, Mine

LEMMA RowTyped ==
    ASSUME NEW r \in Row
    PROVE  /\ Renewed(r) \in Row /\ Continued(r) \in Row
           /\ \A c \in 0 .. CoinCount : Advanced(r, c) \in Row
           /\ \A c \in Coins, n \in Nat : Started(r, c, n) \in Row
           /\ \A s \in Ended : Finished(r, s) \in Row
           /\ \A s \in Child, t \in Child : [r EXCEPT !.sync = s, !.tail = t] \in Row
           /\ \A s \in Child : [r EXCEPT !.sync = s] \in Row /\ [r EXCEPT !.tail = s] \in Row
<1>1. Renewed(r) \in Row
  BY DEF Renewed, Row
<1>2. ASSUME NEW c \in 0 .. CoinCount PROVE Advanced(r, c) \in Row
  BY <1>1, Zeros DEF Advanced, Row
<1>3. ASSUME NEW c \in Coins, NEW n \in Nat PROVE Started(r, c, n) \in Row
  <2>1. [coin |-> c, n |-> n] \in Attempt /\ c \in 0 .. CoinCount
    BY CountAssumption DEF Attempt
  <2> QED
    BY <1>1, <2>1 DEF Started, Row
<1>4. Continued(r) \in Row
  BY DEF Continued, Row, Active
<1>5. ASSUME NEW s \in Ended PROVE Finished(r, s) \in Row
  BY Zeros DEF Finished, Row
<1>6. ASSUME NEW s \in Child PROVE [r EXCEPT !.sync = s] \in Row /\ [r EXCEPT !.tail = s] \in Row
  BY DEF Row
<1>7. ASSUME NEW s \in Child, NEW t \in Child PROVE [r EXCEPT !.sync = s, !.tail = t] \in Row
  BY DEF Row
<1> QED
  BY <1>1, <1>2, <1>3, <1>4, <1>5, <1>6, <1>7

LEMMA RowKin ==
    ASSUME NEW r \in Row
    PROVE  /\ Continued(r) \in Kin(r)
           /\ \A c \in 0 .. CoinCount : Advanced(r, c) \in Kin(r)
           /\ \A c \in Coins, n \in Nat : Started(r, c, n) \in Kin(r) /\ Started(r, c, n).state = r.state
           /\ \A s \in Ended : Finished(r, s) \in Kin(r)
           /\ \A s \in Child, t \in Child : [r EXCEPT !.sync = s, !.tail = t] \in Kin(r)
           /\ \A s \in Child : [r EXCEPT !.sync = s] \in Kin(r) /\ [r EXCEPT !.tail = s] \in Kin(r)
<1>1. Renewed(r) \in Row /\ Renewed(r).state = r.state
  <2>1. Renewed(r).state = r.state
    BY DEF Renewed, Row
  <2> QED
    BY <2>1, RowTyped
<1>2. r.state \in Held => r.state # "platform_abandoned"
  BY DEF Held
<1>3. ASSUME NEW c \in 0 .. CoinCount PROVE Advanced(r, c).state = r.state
  BY <1>1 DEF Advanced, Row
<1>4. ASSUME NEW c \in Coins, NEW n \in Nat PROVE Started(r, c, n).state = r.state
  BY <1>1 DEF Started, Row
<1>5. Continued(r).state = "ready"
  BY DEF Continued, Row
<1>6. ASSUME NEW s \in Ended PROVE Finished(r, s).state # "platform_abandoned"
  BY DEF Finished, Row, Ended
<1>7. ASSUME NEW s \in Child PROVE [r EXCEPT !.sync = s].state = r.state /\ [r EXCEPT !.tail = s].state = r.state
  BY DEF Row
<1>8. ASSUME NEW s \in Child, NEW t \in Child PROVE [r EXCEPT !.sync = s, !.tail = t].state = r.state
  BY DEF Row
<1>9. \A s \in Row : s.state = r.state \/ s.state # "platform_abandoned" => s \in Kin(r)
  BY <1>2 DEF Kin, Standing
<1> QED
  BY <1>3, <1>4, <1>5, <1>6, <1>7, <1>8, <1>9, RowTyped

-----------------------------------------------------------------------------
(* Every action is such a step.                                            *)

LEMMA BeginSteps == ASSUME Shape, Begin PROVE Stepped
<1> DEFINE r == [state |-> "running", inv |-> Producer, next |-> 1, current |-> 0,
                 domain |-> NoAttempt, lease |-> FALSE,
                 sync |-> "not_started", tail |-> "not_started"]
           w == [owner[Producer] EXCEPT !.pc = "start"]
<1>1. Producer \in Owners /\ owner \in [Owners -> Owner]
  BY CountAssumption DEF Producer, Shape, TypeOK
<1>2. owner[Producer].attempt = 1 /\ rows = <<>>
  BY <1>1 DEF Begin, At, Shape, Attached
<1>3. r \in Standing
  BY <1>1, CountAssumption, Zeros DEF Standing, Row, Active, Held, Child
<1>4. w \in Owner /\ w.pc = "start" /\ w.attempt = 1
  BY <1>1, <1>2 DEF Owner
<1>5. rows' = <<r>> /\ owner' = [owner EXCEPT ![Producer] = w]
  BY DEF Begin, Goes
<1> HIDE DEF r, w
<1>6. DOMAIN rows' = {1}
  BY <1>5
<1>7. RowStep
  BY <1>2, <1>3, <1>5 DEF RowStep
<1>8. OwnerStep
  BY <1>1, <1>4, <1>5, <1>6 DEF OwnerStep
<1>9. DOMAIN rows \subseteq DOMAIN rows'
  BY <1>2
<1>10. Others'
  BY <1>9, Quiet DEF Begin
<1> QED
  BY <1>1, <1>4, <1>5, <1>7, <1>8, <1>10 DEF Stepped

LEMMA StartSteps == ASSUME Shape, NEW o \in Owners, Start(o) PROVE Stepped
<1>1. owner[o].pc \in Working /\ owner[o].pc = "start"
  BY DEF Start, At, Working
<1>2. Mine(o) \in Row /\ owner[o] \in Owner
  BY <1>1, MineTyped
<1>3. [Mine(o) EXCEPT !.sync = "running"] \in Kin(Mine(o)) /\ [Mine(o) EXCEPT !.tail = "running"] \in Kin(Mine(o))
  BY <1>2, RowKin DEF Child
<1>4. \A pc \in Working : /\ [owner[o] EXCEPT !.pc = pc] \in Owner
                          /\ [owner[o] EXCEPT !.pc = pc].pc = pc
                          /\ [owner[o] EXCEPT !.pc = pc].attempt = owner[o].attempt
  BY <1>2 DEF Owner, Working
<1>5. \/ Fenced(o, [Mine(o) EXCEPT !.sync = "running"], [owner[o] EXCEPT !.pc = "resume"])
      \/ Fenced(o, [Mine(o) EXCEPT !.tail = "running"], [owner[o] EXCEPT !.pc = "tail"])
      \/ UNCHANGED rows /\ Goes(o, [owner[o] EXCEPT !.pc = "close"])
  BY DEF Start
<1>6. "resume" \in Working /\ "tail" \in Working /\ "close" \in Working
  BY DEF Working
<1>7. RowStep /\ OwnerStep /\ DOMAIN rows' = DOMAIN rows /\ rows # <<>>
  <2>1. CASE Fenced(o, [Mine(o) EXCEPT !.sync = "running"], [owner[o] EXCEPT !.pc = "resume"])
    <3> DEFINE r == [Mine(o) EXCEPT !.sync = "running"]
               w == [owner[o] EXCEPT !.pc = "resume"]
    <3>1. r \in Kin(Mine(o))
      BY <1>3
    <3>2. w \in Owner /\ w.pc = "resume" /\ w.attempt = owner[o].attempt
      BY <1>4, <1>6
    <3>3. Fenced(o, r, w)
      BY <2>1
    <3> HIDE DEF r, w
    <3> QED BY <1>1, <1>6, <3>1, <3>2, <3>3, FencedWrite
  <2>2. CASE Fenced(o, [Mine(o) EXCEPT !.tail = "running"], [owner[o] EXCEPT !.pc = "tail"])
    <3> DEFINE r == [Mine(o) EXCEPT !.tail = "running"]
               w == [owner[o] EXCEPT !.pc = "tail"]
    <3>1. r \in Kin(Mine(o))
      BY <1>3
    <3>2. w \in Owner /\ w.pc = "tail" /\ w.attempt = owner[o].attempt
      BY <1>4, <1>6
    <3>3. Fenced(o, r, w)
      BY <2>2
    <3> HIDE DEF r, w
    <3> QED BY <1>1, <1>6, <3>1, <3>2, <3>3, FencedWrite
  <2>3. CASE UNCHANGED rows /\ Goes(o, [owner[o] EXCEPT !.pc = "close"])
    <3> DEFINE w == [owner[o] EXCEPT !.pc = "close"]
    <3>1. w \in Owner /\ w.pc = "close" /\ w.attempt = owner[o].attempt
      BY <1>4, <1>6
    <3>2. UNCHANGED rows /\ Goes(o, w)
      BY <2>3
    <3> HIDE DEF w
    <3> QED BY <1>1, <1>6, <3>1, <3>2, OwnerMoves
  <2> QED BY <1>5, <2>1, <2>2, <2>3
<1>8. Others'
  BY <1>7, Quiet DEF Start
<1> QED
  BY <1>7, <1>8 DEF Stepped

LEMMA ResumeSteps == ASSUME Shape, NEW o \in Owners, Resume(o) PROVE Stepped
<1> DEFINE From(c) == [owner[o] EXCEPT !.pc = IF c = 0 THEN "stopped" ELSE "work", !.coin = c]
<1>1. owner[o].pc \in Working
  BY DEF Resume, At, Working
<1>2. Mine(o) \in Row /\ owner[o] \in Owner
  BY <1>1, MineTyped
<1>3. Mine(o).next \in 0 .. CoinCount
  BY <1>2 DEF Row
<1>4. \A c \in 0 .. CoinCount : /\ From(c) \in Owner /\ From(c).pc \in Working \ {"fetch"}
                               /\ From(c).attempt = owner[o].attempt
  BY <1>2, ZenonT(40) DEF Owner, Working
<1>5. After(Mine(o).next) \in 0 .. CoinCount
  BY <1>3, CountAssumption DEF After
<1>6. Advanced(Mine(o), After(Mine(o).next)) \in Kin(Mine(o))
  BY <1>2, <1>5, RowKin
<1>7. \/ Fenced(o, Advanced(Mine(o), After(Mine(o).next)), From(After(Mine(o).next)))
      \/ UNCHANGED rows /\ Goes(o, From(Mine(o).next))
  BY DEF Resume
<1> HIDE DEF From
<1>8. RowStep /\ OwnerStep /\ DOMAIN rows' = DOMAIN rows /\ rows # <<>>
  BY <1>1, <1>3, <1>4, <1>5, <1>6, <1>7, FencedWrite, OwnerMoves
<1>9. Others'
  BY <1>8, Quiet DEF Resume
<1> QED
  BY <1>8, <1>9 DEF Stepped

LEMMA StopSteps == ASSUME Shape, NEW o \in Owners, Stop(o) PROVE Stepped
<1> DEFINE w == [owner[o] EXCEPT !.pc = "stopped"]
<1>1. owner[o].pc \in Working
  BY DEF Stop, At, Working
<1>2. Mine(o) \in Row /\ owner[o] \in Owner
  BY <1>1, MineTyped
<1>3. owner[o].coin \in 0 .. CoinCount /\ w \in Owner /\ w.pc \in Working \ {"fetch"} /\ w.attempt = owner[o].attempt
  BY <1>2 DEF Owner, Working
<1>4. Advanced(Mine(o), owner[o].coin) \in Kin(Mine(o))
  BY <1>2, <1>3, RowKin
<1>5. Fenced(o, Advanced(Mine(o), owner[o].coin), w)
  BY DEF Stop
<1> HIDE DEF w
<1>6. RowStep /\ OwnerStep /\ DOMAIN rows' = DOMAIN rows /\ rows # <<>>
  BY <1>1, <1>3, <1>4, <1>5, FencedWrite
<1>7. Others'
  BY <1>6, Quiet DEF Stop
<1> QED
  BY <1>6, <1>7 DEF Stepped

LEMMA MarkSteps == ASSUME Shape, NEW o \in Owners, Mark(o) PROVE Stepped
<1> DEFINE w == [owner[o] EXCEPT !.pc = "handoff"]
<1>1. owner[o].pc \in Working
  BY DEF Mark, At, Working
<1>2. Mine(o) \in Row /\ owner[o] \in Owner
  BY <1>1, MineTyped
<1>3. w \in Owner /\ w.pc \in Working \ {"fetch"} /\ w.attempt = owner[o].attempt
  BY <1>2 DEF Owner, Working
<1>4. \E s \in Child : Fenced(o, [Mine(o) EXCEPT !.sync = s, !.tail = "not_started"], w)
  BY DEF Mark, Child
<1>5. "not_started" \in Child
  BY DEF Child
<1> HIDE DEF w
<1>6. RowStep /\ OwnerStep /\ DOMAIN rows' = DOMAIN rows /\ rows # <<>>
  BY <1>1, <1>2, <1>3, <1>4, <1>5, RowKin, FencedWrite
<1>7. Others'
  BY <1>6, Quiet DEF Mark
<1> QED
  BY <1>6, <1>7 DEF Stepped

LEMMA HandOffSteps == ASSUME Shape, NEW o \in Owners, HandOff(o) PROVE Stepped
<1> DEFINE w(chain) == [[owner[o] EXCEPT !.pc = "finish", !.chain = TRUE] EXCEPT !.chain = chain]
<1>1. owner[o].pc \in Working
  BY DEF HandOff, At, Working
<1>2. Mine(o) \in Row /\ owner[o] \in Owner
  BY <1>1, MineTyped
<1>3. /\ [owner[o] EXCEPT !.pc = "finish", !.chain = TRUE] = w(TRUE)
      /\ \A chain \in BOOLEAN : /\ w(chain) \in Owner /\ w(chain).pc \in Working \ {"fetch"}
                                /\ w(chain).attempt = owner[o].attempt
  BY <1>2 DEF Owner, Working
<1>4. \/ Fenced(o, Continued(Mine(o)), w(TRUE))
      \/ Fenced(o, Finished(Mine(o), "failed"), w(FALSE))
      \/ UNCHANGED rows /\ Leaves(o, FALSE)
  BY <1>3 DEF HandOff
<1>5. Continued(Mine(o)) \in Kin(Mine(o)) /\ Finished(Mine(o), "failed") \in Kin(Mine(o))
  BY <1>2, RowKin DEF Ended
<1> HIDE DEF w
<1>6. RowStep /\ OwnerStep /\ DOMAIN rows' = DOMAIN rows /\ rows # <<>>
  <2>1. CASE Fenced(o, Continued(Mine(o)), w(TRUE))
    BY <1>1, <1>3, <1>5, <2>1, FencedWrite
  <2>2. CASE Fenced(o, Finished(Mine(o), "failed"), w(FALSE))
    BY <1>1, <1>3, <1>5, <2>2, FencedWrite
  <2>3. CASE UNCHANGED rows /\ Leaves(o, FALSE)
    BY <1>1, <2>3, LeavesMoves
  <2> QED
    BY <1>4, <2>1, <2>2, <2>3
<1>7. Others'
  BY <1>6, Quiet DEF HandOff
<1> QED
  BY <1>6, <1>7 DEF Stepped

LEMMA RunTailSteps == ASSUME Shape, NEW o \in Owners, RunTail(o) PROVE Stepped
<1> DEFINE w == [owner[o] EXCEPT !.pc = "close"]
<1>1. owner[o].pc \in Working
  BY DEF RunTail, At, Working
<1>2. Mine(o) \in Row /\ owner[o] \in Owner
  BY <1>1, MineTyped
<1>3. w \in Owner /\ w.pc \in Working \ {"fetch"} /\ w.attempt = owner[o].attempt
  BY <1>2 DEF Owner, Working
<1>4. [Mine(o) EXCEPT !.tail = "completed"] \in Kin(Mine(o))
  BY <1>2, RowKin DEF Child
<1>5. Fenced(o, [Mine(o) EXCEPT !.tail = "completed"], w)
  BY DEF RunTail
<1> HIDE DEF w
<1>6. RowStep /\ OwnerStep /\ DOMAIN rows' = DOMAIN rows /\ rows # <<>>
  BY <1>1, <1>3, <1>4, <1>5, FencedWrite
<1>7. Others'
  BY <1>6 DEF RunTail, Others, Shape, TypeOK, Attached
<1> QED
  BY <1>6, <1>7 DEF Stepped

LEMMA CloseSteps == ASSUME Shape, NEW o \in Owners, Close(o) PROVE Stepped
<1> DEFINE w == [owner[o] EXCEPT !.pc = "finish"]
<1>1. owner[o].pc \in Working
  BY DEF Close, At, Working
<1>2. Mine(o) \in Row /\ owner[o] \in Owner
  BY <1>1, MineTyped
<1>3. w \in Owner /\ w.pc \in Working \ {"fetch"} /\ w.attempt = owner[o].attempt
  BY <1>2 DEF Owner, Working
<1>4. \/ Fenced(o, Finished(Mine(o), "completed"), w)
      \/ Fenced(o, Continued(Mine(o)), w)
      \/ UNCHANGED rows /\ Leaves(o, FALSE)
  BY DEF Close
<1>5. Continued(Mine(o)) \in Kin(Mine(o)) /\ Finished(Mine(o), "completed") \in Kin(Mine(o))
  BY <1>2, RowKin DEF Ended
<1> HIDE DEF w
<1>6. RowStep /\ OwnerStep /\ DOMAIN rows' = DOMAIN rows /\ rows # <<>>
  <2>1. CASE Fenced(o, Finished(Mine(o), "completed"), w)
    BY <1>1, <1>3, <1>5, <2>1, FencedWrite
  <2>2. CASE Fenced(o, Continued(Mine(o)), w)
    BY <1>1, <1>3, <1>5, <2>2, FencedWrite
  <2>3. CASE UNCHANGED rows /\ Leaves(o, FALSE)
    BY <1>1, <2>3, LeavesMoves
  <2> QED
    BY <1>4, <2>1, <2>2, <2>3
<1>7. Others'
  BY <1>6, Quiet DEF Close
<1> QED
  BY <1>6, <1>7 DEF Stepped

LEMMA GoneTyped ==
    ASSUME Shape, NEW o \in Owners
    PROVE  Gone(o) \in Owner /\ Gone(o).pc = "gone"
<1>1. owner[o] \in Owner
  BY DEF Shape, TypeOK
<1> QED
  BY <1>1, Zeros DEF Gone, Fresh, Owner

(* The invocation's memory alone, or with the other variables.             *)
LEMMA OwnerGoes ==
    ASSUME Shape, NEW o \in Owners, NEW w \in Owner, UNCHANGED rows, Goes(o, w),
           w.pc \in Working => w.attempt \in DOMAIN rows,
           w.pc = "begin" => owner[o].pc = "begin" /\ w.attempt = owner[o].attempt,
           w.pc = "fetch" => w.coin # 0
    PROVE  RowStep /\ OwnerStep
<1>1. OwnerStep
  BY DEF Goes, OwnerStep
<1> QED
  BY <1>1 DEF RowStep

LEMMA EndEventSteps == ASSUME Shape, NEW o \in Owners, EndEvent(o) PROVE Stepped
<1>1. owner[o].pc \in Working /\ UNCHANGED rows
  BY DEF EndEvent, At, Working
<1>2. owner[o] \in Owner /\ owner[o].attempt \in DOMAIN rows
  BY <1>1 DEF Shape, TypeOK, Attached
<1>3. \E w \in Owner : /\ Goes(o, w) /\ w.pc \notin {"begin", "fetch"}
                       /\ w.pc \in Working => w.attempt \in DOMAIN rows
  <2>1. [owner[o] EXCEPT !.pc = "send"] \in Owner /\ [owner[o] EXCEPT !.pc = "send"].pc = "send"
        /\ [owner[o] EXCEPT !.pc = "send"].attempt = owner[o].attempt
    BY <1>2 DEF Owner
  <2>2. Goes(o, [owner[o] EXCEPT !.pc = "send"]) \/ Goes(o, Gone(o))
    BY DEF EndEvent
  <2> QED
    BY <1>2, <2>1, <2>2, GoneTyped DEF Working
<1>5. RowStep /\ OwnerStep
  BY <1>1, <1>3, OwnerGoes
<1>6. Others'
  BY DEF EndEvent, Others, Shape, TypeOK, Attached
<1> QED
  BY <1>1, <1>5, <1>6 DEF Stepped

LEMMA SendSteps == ASSUME Shape, NEW o \in Owners, Send(o) PROVE Stepped
<1>1. owner[o].pc \in Working /\ UNCHANGED rows
  BY DEF Send, At, Working
<1>2. owner[o] \in Owner /\ owner[o].attempt \in DOMAIN rows /\ Mine(o).next \in 0 .. CoinCount
      /\ owner[o].attempt \in Nat
  BY <1>1, MineTyped DEF Shape, TypeOK, Attached, Row, Owner
<1>3. RowStep /\ OwnerStep
  BY <1>1, GoneTyped, OwnerGoes DEF Send, Working
<1>4. \A m \in queue' : /\ m \in [attempt : Nat, source : Owners, next : 0 .. CoinCount]
                        /\ m.attempt \in DOMAIN rows
  BY <1>2 DEF Send, Shape, TypeOK, Attached
<1>5. Others'
  BY <1>1, <1>4 DEF Send, Others, Shape, TypeOK, Attached
<1> QED
  BY <1>1, <1>3, <1>5 DEF Stepped

(* A coin whose attempt is the owner's own next.                           *)
LEMMA CoinTyped ==
    ASSUME Shape, NEW c \in Coins
    PROVE  /\ coin[c] \in [last : Nat, pending : BOOLEAN, published : SUBSET Nat]
           /\ coin[c].last + 1 \in Nat
           /\ [coin EXCEPT ![c].last = coin[c].last + 1, ![c].pending = TRUE] \in
                  [Coins -> [last : Nat, pending : BOOLEAN, published : SUBSET Nat]]
<1> DEFINE Coin == [last : Nat, pending : BOOLEAN, published : SUBSET Nat]
           d == [coin[c] EXCEPT !.last = coin[c].last + 1, !.pending = TRUE]
<1>1. coin \in [Coins -> Coin] /\ coin[c] \in Coin
  BY DEF Shape, TypeOK
<1>2. coin[c].last + 1 \in Nat
  BY <1>1
<1>3. d \in Coin
  BY <1>1, <1>2
<1>4. [coin EXCEPT ![c].last = coin[c].last + 1, ![c].pending = TRUE] = [coin EXCEPT ![c] = d]
  BY <1>1
<1> HIDE DEF d, Coin
<1>5. [coin EXCEPT ![c] = d] \in [Coins -> Coin]
  BY <1>1, <1>3
<1> QED
  BY <1>1, <1>2, <1>4, <1>5 DEF Coin

LEMMA BeginCoinSteps == ASSUME Shape, NEW o \in Owners, BeginCoin(o) PROVE Stepped
<1> DEFINE c == owner[o].coin
           n == coin[c].last + 1
           w == [owner[o] EXCEPT !.pc = "fetch", !.try = n, !.took = TRUE]
<1>1. owner[o].pc \in Working /\ c # 0
  BY DEF BeginCoin, At, Working
<1>2. Mine(o) \in Row /\ owner[o] \in Owner
  BY <1>1, MineTyped
<1>3. c \in Coins
  BY <1>1, <1>2 DEF Owner
<1>4. n \in Nat
  BY <1>3, CoinTyped
<1>5. Started(Mine(o), c, n) \in Kin(Mine(o))
  BY <1>2, <1>3, <1>4, RowKin
<1>6. w \in Owner /\ w.pc \in Working /\ w.coin # 0 /\ w.attempt = owner[o].attempt
  BY <1>1, <1>2, <1>4 DEF Owner, Working
<1>7. Fenced(o, Started(Mine(o), c, n), w)
  BY DEF BeginCoin
<1>8. coin' \in [Coins -> [last : Nat, pending : BOOLEAN, published : SUBSET Nat]]
  BY <1>3, CoinTyped DEF BeginCoin, Shape, TypeOK
<1> HIDE DEF w, n
<1>9. RowStep /\ OwnerStep /\ DOMAIN rows' = DOMAIN rows /\ rows # <<>>
  BY <1>1, <1>5, <1>6, <1>7, FencedWrite
<1>10. Others'
  BY <1>8, <1>9 DEF BeginCoin, Others, Shape, TypeOK, Attached
<1> QED
  BY <1>9, <1>10 DEF Stepped

LEMMA SettleSteps == ASSUME Shape, NEW o \in Owners, Settle(o) PROVE Stepped
<1> DEFINE c == owner[o].coin
           w == [owner[o] EXCEPT !.pc = "work", !.coin = After(c)]
<1>1. owner[o].pc \in Working
  BY DEF Settle, At, Working
<1>2. owner[o] \in Owner
  BY <1>1, MineTyped
<1>3. c \in Coins
  BY <1>1, <1>2 DEF Settle, At, Shape, Attached, Owner
<1>4. After(c) \in 0 .. CoinCount /\ owner[o].try \in Nat
  BY <1>2, <1>3, CountAssumption DEF Owner, After
<1>5. w \in Owner /\ w.pc = "work" /\ w.attempt = owner[o].attempt
  BY <1>2, <1>4 DEF Owner
<1>6. Goes(o, w) /\ UNCHANGED rows
  BY DEF Settle
<1>7. coin' \in [Coins -> [last : Nat, pending : BOOLEAN, published : SUBSET Nat]]
  <2> DEFINE p == [coin EXCEPT ![c].pending = FALSE]
             q == [coin EXCEPT ![c].pending = FALSE,
                               ![c].published = coin[c].published \cup {owner[o].try}]
  <2>1. coin' \in {coin, p, q}
    BY DEF Settle
  <2>2. coin \in [Coins -> [last : Nat, pending : BOOLEAN, published : SUBSET Nat]]
    BY DEF Shape, TypeOK
  <2>3. p \in [Coins -> [last : Nat, pending : BOOLEAN, published : SUBSET Nat]]
    BY <1>3, <2>2
  <2>4. q \in [Coins -> [last : Nat, pending : BOOLEAN, published : SUBSET Nat]]
    BY <1>3, <1>4, <2>2
  <2> QED
    BY <2>1, <2>2, <2>3, <2>4
<1>8. tried' \in SUBSET Coins
  BY <1>3 DEF Settle, Shape, TypeOK
<1> HIDE DEF w
<1>9. RowStep /\ OwnerStep /\ DOMAIN rows' = DOMAIN rows /\ rows # <<>>
  BY <1>1, <1>5, <1>6, OwnerMoves DEF Working
<1>10. Others'
  BY <1>6, <1>7, <1>8 DEF Settle, Others, Shape, TypeOK, Attached
<1> QED
  BY <1>9, <1>10 DEF Stepped

LEMMA ClaimedSteps ==
    ASSUME Shape, NEW o \in Owners, NEW a \in DOMAIN rows, rows[a].state = "ready",
           NEW kind \in {"cron", "queue"}, Claimed(o, kind, a)
    PROVE  Stepped
<1> DEFINE r == [rows[a] EXCEPT !.state = "recovering", !.inv = o, !.lease = TRUE]
           w == Fresh(kind, "start", a)
<1>1. rows \in Seq(Row) /\ rows[a] \in Row /\ a \in Nat
  BY DEF Shape, TypeOK
<1>2. r \in Standing
  <2>1. o \in 0 .. MaxOwners /\ "recovering" \in Active
    BY DEF Active, Held
  <2> QED
    BY <1>1, <2>1 DEF Row, Standing
<1>3. rows' = [rows EXCEPT ![a] = r]
  BY <1>1 DEF Claimed, Row
<1>4. w \in Owner /\ w.pc = "start" /\ w.attempt = a
  BY <1>1, Zeros DEF Fresh, Owner
<1>5. owner' = [owner EXCEPT ![o] = w]
  BY DEF Claimed, Goes
<1> HIDE DEF r, w
<1>6. DOMAIN rows' = DOMAIN rows /\ rows # <<>>
  BY <1>1, <1>3
<1>7. RowStep
  BY <1>2, <1>3 DEF RowStep, Active
<1>8. OwnerStep
  BY <1>4, <1>5, <1>6 DEF OwnerStep
<1>9. Others'
  BY <1>6 DEF Claimed, Others, Shape, TypeOK, Attached
<1> QED
  BY <1>6, <1>7, <1>8, <1>9 DEF Stepped

LEMMA ClaimSteps ==
    ASSUME Shape, NEW o \in Owners, ClaimByCron(o) \/ ClaimByQueue(o)
    PROVE  Stepped
<1>1. CASE ClaimByCron(o)
  BY <1>1, ClaimedSteps DEF ClaimByCron
<1>2. CASE ClaimByQueue(o)
  BY <1>2, ClaimedSteps DEF ClaimByQueue, Shape, Attached
<1> QED
  BY <1>1, <1>2

LEMMA SeesSteps ==
    ASSUME Shape, NEW t \in Takers, NEW l \in Seen, Sees(t, l),
           l.stage = "read" => l.attempt \in DOMAIN rows
    PROVE  Stepped
BY DEF Sees, Stepped, RowStep, OwnerStep, Others, Shape, TypeOK, Attached

LEMMA ReadSeen ==
    ASSUME Shape, NEW a \in DOMAIN rows
    PROVE  /\ Read(a) \in Seen /\ Read(a).attempt = a
           /\ NoLook \in Seen /\ NoLook.stage = "none"
           /\ [stage |-> "found"] \in Seen
BY DEF Shape, TypeOK, Read, Seen, NoLook

LEMMA LookSteps ==
    ASSUME Shape, NEW t \in Takers, Inspect(t) \/ Load(t) \/ Requeue(t)
    PROVE  Stepped
<1>1. CASE Inspect(t)
  BY <1>1, SeesSteps DEF Inspect, Seen
<1>2. CASE Load(t)
  BY <1>2, SeesSteps, ReadSeen DEF Load, Seen, NoLook
<1>3. CASE Requeue(t)
  BY <1>3, SeesSteps, ReadSeen DEF Requeue
<1> QED
  BY <1>1, <1>2, <1>3

LEMMA PreparedRow ==
    ASSUME NEW r \in Row, NEW d \in Attempt
    PROVE  Prepared(r, d) \in Standing
<1>1. r.next \in 0 .. CoinCount /\ r.current \in 0 .. CoinCount
  BY DEF Row
<1>2. {"completed", "continuation_pending", "not_started"} \subseteq Child /\ "ready" \in Active
  BY DEF Child, Active
<1> QED
  BY <1>1, <1>2, Zeros DEF Prepared, Row, Standing

LEMMA ClearedTyped ==
    ASSUME Shape, NEW r \in Row
    PROVE  Cleared(r) \in [Coins -> [last : Nat, pending : BOOLEAN, published : SUBSET Nat]]
<1>1. coin \in [Coins -> [last : Nat, pending : BOOLEAN, published : SUBSET Nat]]
  BY DEF Shape, TypeOK
<1>2. r.current # 0 => r.current \in Coins
  BY DEF Row
<1>3. \A c \in Coins : [coin EXCEPT ![c].pending = FALSE] \in
                        [Coins -> [last : Nat, pending : BOOLEAN, published : SUBSET Nat]]
  BY <1>1
<1> QED
  BY <1>1, <1>2, <1>3 DEF Cleared

LEMMA PrepareSteps == ASSUME Shape, NEW t \in Takers, Prepare(t) PROVE Stepped
<1> DEFINE a == look[t].attempt
           was == look[t].row
           r == Prepared(was, rows[a].domain)
<1>1. /\ rows \in Seq(Row) /\ owner \in [Owners -> Owner]
      /\ a \in DOMAIN rows /\ rows[a] \in Row /\ was \in Row
  BY DEF Prepare, Shape, TypeOK, Attached, Seen, NoLook
<1>2. r \in Standing /\ Cleared(was) \in [Coins -> [last : Nat, pending : BOOLEAN, published : SUBSET Nat]]
      /\ UnderWay(was) \subseteq Attempt /\ UnderWay(rows[a]) \subseteq Attempt
  BY <1>1, PreparedRow, ClearedTyped DEF Row, UnderWay
<1>3. OwnerStep
  BY DEF Prepare, OwnerStep
<1>4. look' = [look EXCEPT ![t] = NoLook] /\ NoLook \in Seen /\ NoLook.stage = "none"
  BY DEF Prepare, Seen, NoLook
<1>5. CASE Takeable(a, was)
  <2>1. rows' = Append([rows EXCEPT ![a] = Left], r) /\ rows[a].state \in Held
    BY <1>5 DEF Prepare, Takeable
  <2>5. /\ coin' = Cleared(was)
        /\ left' \in SUBSET Attempt /\ unread' \in SUBSET Attempt
    BY <1>2, <1>5 DEF Prepare, Shape, TypeOK
  <2> HIDE DEF a, was, r
  <2>2. RowStep
    BY <1>1, <1>2, <2>1 DEF RowStep
  <2>3. DOMAIN rows \subseteq DOMAIN rows'
    BY <2>2, RowsShape
  <2>4. Others'
    BY <1>2, <1>4, <2>3, <2>5 DEF Prepare, Others, Shape, TypeOK, Attached
  <2> QED
    BY <1>1, <1>3, <2>2, <2>4 DEF Stepped
<1>6. CASE ~Takeable(a, was)
  <2>1. UNCHANGED <<rows, coin, left, unread>>
    BY <1>6 DEF Prepare
  <2>2. RowStep
    BY <2>1 DEF RowStep
  <2>3. Others'
    BY <1>4, <2>1 DEF Prepare, Others, Shape, TypeOK, Attached
  <2> QED
    BY <1>3, <2>1, <2>2, <2>3 DEF Stepped
<1> QED
  BY <1>5, <1>6

(* The lapse of a row's lease.                                             *)
LEMMA LeaseRow ==
    ASSUME Shape, NEW a \in DOMAIN rows, LeaseLapses(a)
    PROVE  RowStep /\ DOMAIN rows' = DOMAIN rows /\ rows # <<>> /\ rows[a].inv \in 0 .. MaxOwners
<1> DEFINE r == [rows[a] EXCEPT !.lease = FALSE]
<1>1. rows \in Seq(Row) /\ rows[a] \in Row
  BY DEF Shape, TypeOK
<1>2. r \in Standing /\ rows' = [rows EXCEPT ![a] = r] /\ rows[a].state \in Active
  BY <1>1 DEF LeaseLapses, Row, Active, Held, Standing
<1>3. DOMAIN rows' = DOMAIN rows /\ rows # <<>> /\ rows[a].inv \in 0 .. MaxOwners
  BY <1>1, <1>2 DEF Row
<1> QED
  BY <1>2, <1>3 DEF RowStep

LEMMA LapsesDeadSteps ==
    ASSUME Shape, NEW a \in DOMAIN rows, LapsesDead(a)
    PROVE  Stepped
<1>1. RowStep /\ DOMAIN rows' = DOMAIN rows /\ rows # <<>>
  BY LeaseRow DEF LapsesDead
<1>2. OwnerStep /\ Others'
  BY <1>1 DEF LapsesDead, OwnerStep, Others, Shape, TypeOK, Attached
<1> QED
  BY <1>1, <1>2 DEF Stepped

LEMMA EventSteps ==
    ASSUME Shape, NEW o \in Owners, SilentDead(o) \/ Reap(o)
    PROVE  Stepped
BY DEF SilentDead, Reap, FallsSilent, Stepped, RowStep, OwnerStep, Others, Shape, TypeOK, Attached

LEMMA LateTyped ==
    ASSUME Shape, NEW o \in Owners, Alive(o), owner' = [owner EXCEPT ![o].late = TRUE],
           DOMAIN rows \subseteq DOMAIN rows'
    PROVE  OwnerStep
<1> DEFINE w == [owner[o] EXCEPT !.late = TRUE]
<1>1. owner[o] \in Owner
  BY DEF Shape, TypeOK
<1>2. /\ w \in Owner /\ w.pc = owner[o].pc /\ w.attempt = owner[o].attempt /\ w.coin = owner[o].coin
      /\ owner' = [owner EXCEPT ![o] = w]
  BY <1>1 DEF Owner
<1> HIDE DEF w
<1> QED
  BY <1>2, ZenonT(40) DEF OwnerStep, Shape, Attached

LEMMA FailsRows ==
    ASSUME Shape, NEW o \in Owners, Fails(o)
    PROVE  RowStep /\ OwnerStep /\ DOMAIN rows' = DOMAIN rows /\ rows # <<>>
<1> DEFINE w == [owner[o] EXCEPT !.pc = "handoff", !.ok = FALSE]
<1>1. owner[o].pc \in Working
  BY DEF Fails, Working
<1>2. Mine(o) \in Row /\ owner[o] \in Owner
  BY <1>1, MineTyped
<1>3. w \in Owner /\ w.pc \in Working \ {"fetch"} /\ w.attempt = owner[o].attempt
  BY <1>2 DEF Owner, Working
<1>4. [Mine(o) EXCEPT !.sync = "failed", !.tail = "not_started"] \in Kin(Mine(o))
  BY <1>2, RowKin DEF Child
<1>5. Fenced(o, [Mine(o) EXCEPT !.sync = "failed", !.tail = "not_started"], w)
  BY DEF Fails
<1> HIDE DEF w
<1> QED
  BY <1>1, <1>3, <1>4, <1>5, FencedWrite

LEMMA TailFailsRows ==
    ASSUME Shape, NEW o \in Owners, TailFails(o)
    PROVE  RowStep /\ OwnerStep /\ DOMAIN rows' = DOMAIN rows /\ rows # <<>>
<1> DEFINE w == [owner[o] EXCEPT !.pc = "close", !.ok = FALSE]
<1>1. owner[o].pc \in Working
  BY DEF TailFails, At, Working
<1>2. Mine(o) \in Row /\ owner[o] \in Owner
  BY <1>1, MineTyped
<1>3. w \in Owner /\ w.pc \in Working \ {"fetch"} /\ w.attempt = owner[o].attempt
  BY <1>2 DEF Owner, Working
<1>4. [Mine(o) EXCEPT !.tail = "failed"] \in Kin(Mine(o))
  BY <1>2, RowKin DEF Child
<1>5. Fenced(o, [Mine(o) EXCEPT !.tail = "failed"], w)
  BY DEF TailFails
<1> HIDE DEF w
<1> QED
  BY <1>1, <1>3, <1>4, <1>5, FencedWrite

LEMMA BeginUnansweredRows ==
    ASSUME Shape, NEW o \in Owners, BeginUnanswered(o)
    PROVE  /\ RowStep /\ OwnerStep /\ DOMAIN rows' = DOMAIN rows /\ rows # <<>>
           /\ coin' \in [Coins -> [last : Nat, pending : BOOLEAN, published : SUBSET Nat]]
<1> DEFINE c == owner[o].coin
           n == coin[c].last + 1
           r == [Started(Mine(o), c, n) EXCEPT !.sync = "failed", !.tail = "not_started"]
           w == [owner[o] EXCEPT !.pc = "handoff", !.ok = FALSE]
<1>1. owner[o].pc \in Working /\ c # 0 /\ Holds(o)
  BY DEF BeginUnanswered, At, Working
<1>2. Mine(o) \in Row /\ owner[o] \in Owner
  BY <1>1, MineTyped
<1>3. c \in Coins
  BY <1>1, <1>2 DEF Owner
<1>4. n \in Nat
  BY <1>3, CoinTyped
<1>5. r \in Kin(Mine(o))
  <2> DEFINE s == Started(Mine(o), c, n)
  <2>1. s \in Kin(Mine(o)) /\ s.state = Mine(o).state
    BY <1>2, <1>3, <1>4, RowKin
  <2>2. r = [s EXCEPT !.sync = "failed", !.tail = "not_started"]
    OBVIOUS
  <2> HIDE DEF s, r
  <2>3. r \in Kin(s)
    BY <2>1, <2>2, RowKin DEF Kin, Child
  <2> QED
    BY <2>1, <2>3 DEF Kin
<1>6. w \in Owner /\ w.pc \in Working \ {"fetch"} /\ w.attempt = owner[o].attempt
  BY <1>2 DEF Owner, Working
<1>7. Fenced(o, r, w)
  BY <1>1 DEF BeginUnanswered, Fenced
<1>8. coin' \in [Coins -> [last : Nat, pending : BOOLEAN, published : SUBSET Nat]]
  BY <1>3, CoinTyped DEF BeginUnanswered
<1> HIDE DEF w, r, n
<1> QED
  BY <1>1, <1>5, <1>6, <1>7, <1>8, FencedWrite

LEMMA DeferRows ==
    ASSUME Shape, NEW o \in Owners, Defer(o)
    PROVE  RowStep /\ OwnerStep /\ DOMAIN rows' = DOMAIN rows /\ rows # <<>>
<1> DEFINE w == [owner[o] EXCEPT !.pc = "finish", !.ok = TRUE, !.chain = FALSE]
<1>1. owner[o].pc \in Working
  BY DEF Defer, At, Working
<1>2. Mine(o) \in Row /\ owner[o] \in Owner
  BY <1>1, MineTyped
<1>3. w \in Owner /\ w.pc \in Working \ {"fetch"} /\ w.attempt = owner[o].attempt /\ Goes(o, w)
  BY <1>2 DEF Defer, Leaves, Owner, Working
<1>4. Continued(Mine(o)) \in Kin(Mine(o))
  BY <1>2, RowKin
<1> HIDE DEF w
<1>5. CASE Holds(o) /\ Mine(o).lease
  <2>1. Fenced(o, Continued(Mine(o)), w)
    BY <1>3, <1>5 DEF Defer, Fenced, Patch
  <2> QED
    BY <1>1, <1>3, <1>4, <2>1, FencedWrite
<1>6. CASE ~(Holds(o) /\ Mine(o).lease)
  BY <1>1, <1>3, <1>6, OwnerMoves DEF Defer
<1> QED
  BY <1>5, <1>6

LEMMA LapsesRows ==
    ASSUME Shape, NEW a \in DOMAIN rows, Lapses(a)
    PROVE  RowStep /\ OwnerStep /\ DOMAIN rows' = DOMAIN rows /\ rows # <<>>
<1>1. RowStep /\ DOMAIN rows' = DOMAIN rows /\ rows # <<>> /\ rows[a].inv \in 0 .. MaxOwners
  BY LeaseRow DEF Lapses
<1>2. Alive(rows[a].inv) /\ owner' = [owner EXCEPT ![rows[a].inv].late = TRUE]
  BY DEF Lapses, Outlived
<1>3. CASE rows[a].inv \in Owners
  BY <1>1, <1>2, <1>3, LateTyped
<1>4. CASE rows[a].inv \notin Owners
  <2>1. owner \in [Owners -> Owner]
    BY DEF Shape, TypeOK
  <2> DEFINE i == rows[a].inv
             w == [owner[i] EXCEPT !.late = TRUE]
  <2>2. owner' = [owner EXCEPT ![i] = w]
    BY <1>2
  <2> HIDE DEF i, w
  <2>3. i \notin Owners
    BY <1>4 DEF i
  <2>4. owner' = owner
    BY <2>1, <2>2, <2>3, Zenon
  <2> QED
    BY <1>1, <2>4 DEF OwnerStep
<1> QED
  BY <1>1, <1>3, <1>4

LEMMA FaultSteps == ASSUME Shape, Fault PROVE Stepped
<1>1. /\ faults' \in 0 .. MaxFaults
      /\ UNCHANGED <<queue, look, tried, tailed, left, unread>>
  BY CountAssumption DEF Fault, Shape, TypeOK
<1>2. ASSUME NEW o \in Owners, Fails(o) \/ TailFails(o) \/ Defer(o) PROVE Stepped
  <2>1. RowStep /\ OwnerStep /\ DOMAIN rows' = DOMAIN rows /\ rows # <<>>
    BY <1>2, FailsRows, TailFailsRows, DeferRows
  <2>2. Others'
    BY <1>1, <1>2, <2>1 DEF Fails, TailFails, Defer, Others, Shape, TypeOK, Attached
  <2> QED
    BY <2>1, <2>2 DEF Stepped
<1>3. ASSUME NEW o \in Owners, BeginUnanswered(o) PROVE Stepped
  <2>1. /\ RowStep /\ OwnerStep /\ DOMAIN rows' = DOMAIN rows /\ rows # <<>>
        /\ coin' \in [Coins -> [last : Nat, pending : BOOLEAN, published : SUBSET Nat]]
    BY <1>3, BeginUnansweredRows
  <2>2. Others'
    BY <1>1, <1>3, <2>1 DEF BeginUnanswered, Others, Shape, TypeOK, Attached
  <2> QED
    BY <2>1, <2>2 DEF Stepped
<1>4. ASSUME NEW a \in DOMAIN rows, Lapses(a) PROVE Stepped
  <2>1. RowStep /\ OwnerStep /\ DOMAIN rows' = DOMAIN rows /\ rows # <<>>
    BY <1>4, LapsesRows
  <2>2. Others'
    BY <1>1, <1>4, <2>1 DEF Lapses, Others, Shape, TypeOK, Attached
  <2> QED
    BY <2>1, <2>2 DEF Stepped
<1>5. ASSUME NEW o \in Owners, Silent(o) PROVE Stepped
  <2>1. UNCHANGED <<rows, coin>> /\ RowStep
    BY <1>5 DEF Silent, RowStep
  <2>2. OwnerStep
    <3>1. CASE UNCHANGED owner
      BY <3>1 DEF OwnerStep
    <3>2. CASE owner' = [owner EXCEPT ![o].late = TRUE]
      BY <1>5, <2>1, <3>2, LateTyped DEF Silent
    <3> QED
      BY <1>5, <3>1, <3>2 DEF Silent
  <2>3. Others'
    BY <1>1, <1>5, <2>1 DEF Silent, FallsSilent, Others, Shape, TypeOK, Attached
  <2> QED
    BY <2>1, <2>2, <2>3 DEF Stepped
<1>6. ASSUME NEW o \in Owners, Crash(o) PROVE Stepped
  <2>1. UNCHANGED <<rows, coin, event>> /\ Goes(o, Gone(o))
    BY <1>6 DEF Crash
  <2>2. RowStep /\ OwnerStep
    BY <2>1, GoneTyped, OwnerGoes DEF Working
  <2>3. Others'
    BY <1>1, <2>1 DEF Others, Shape, TypeOK, Attached
  <2> QED
    BY <2>1, <2>2, <2>3 DEF Stepped
<1> QED
  BY <1>2, <1>3, <1>4, <1>5, <1>6 DEF Fault

LEMMA ExpiresSteps == ASSUME Shape, NEW o \in Owners, Expires(o) PROVE Stepped
<1>1. RowStep /\ OwnerStep /\ DOMAIN rows' = DOMAIN rows /\ rows # <<>>
  BY FailsRows DEF Expires
<1>2. Others'
  BY <1>1 DEF Expires, Fails, Others, Shape, TypeOK, Attached
<1> QED
  BY <1>1, <1>2 DEF Stepped

LEMMA NextSteps == ASSUME Shape, Next PROVE Stepped
<1>1. CASE Begin
  BY <1>1, BeginSteps
<1>2. ASSUME NEW o \in Owners, Step(o) PROVE Stepped
  BY <1>2, StartSteps, ResumeSteps, BeginCoinSteps, SettleSteps, StopSteps, MarkSteps,
     HandOffSteps, RunTailSteps, CloseSteps, EndEventSteps, SendSteps, ExpiresSteps DEF Step
<1>3. ASSUME NEW o \in Owners, ClaimByCron(o) \/ ClaimByQueue(o) PROVE Stepped
  BY <1>3, ClaimSteps
<1>4. ASSUME NEW o \in Owners, SilentDead(o) \/ Reap(o) PROVE Stepped
  BY <1>4, EventSteps
<1>5. ASSUME NEW a \in DOMAIN rows, LapsesDead(a) PROVE Stepped
  BY <1>5, LapsesDeadSteps
<1>6. ASSUME NEW t \in Takers, Inspect(t) \/ Load(t) \/ Requeue(t) PROVE Stepped
  BY <1>6, LookSteps
<1>7. ASSUME NEW t \in Takers, Prepare(t) PROVE Stepped
  BY <1>7, PrepareSteps
<1>8. CASE Fault
  BY <1>8, FaultSteps
<1> QED
  BY <1>1, <1>2, <1>3, <1>4, <1>5, <1>6, <1>7, <1>8 DEF Next

LEMMA InitShape == Init => Shape
<1> SUFFICES ASSUME Init PROVE Shape
  OBVIOUS
<1>1. rows = <<>> /\ rows \in Seq(Row) /\ DOMAIN rows = {}
  BY DEF Init
<1>2. Fresh("producer", "begin", 1) \in Owner /\ Fresh("cron", "none", 0) \in Owner
  BY Zeros DEF Fresh, Owner
<1>3. owner \in [Owners -> Owner]
  BY <1>2 DEF Init
<1>4. coin \in [Coins -> [last : Nat, pending : BOOLEAN, published : SUBSET Nat]]
  BY DEF Init
<1>5. look \in [Takers -> Seen] /\ faults \in 0 .. MaxFaults
  BY CountAssumption DEF Init, Seen
<1>6. TypeOK
  BY <1>1, <1>3, <1>4, <1>5 DEF Init, TypeOK
<1>7. \A o \in Owners : /\ owner[o].pc \in {"begin", "none"}
                        /\ owner[o].pc = "begin" => o = Producer /\ owner[o].attempt = 1
  BY DEF Init, Fresh
<1>8. Attached
  BY <1>1, <1>7 DEF Init, Attached, Working, NoLook
<1> QED
  BY <1>1, <1>6, <1>8 DEF Shape, Chain

LEMMA NextShape == Shape /\ [Next]_vars => Shape'
<1>1. CASE Shape /\ Next
  BY <1>1, NextSteps, ShapeKept
<1>2. ASSUME Shape, UNCHANGED vars PROVE Shape'
  <2>1. TypeOK' /\ Chain'
    BY <1>2 DEF vars, Shape, TypeOK, Chain
  <2>2. Attached'
    BY <1>2 DEF vars, Shape, Attached
  <2> QED
    BY <2>1, <2>2 DEF Shape
<1> QED
  BY <1>1, <1>2

(* The checkpoint's state keeps its type.                                  *)
THEOREM Typed == Spec => []TypeOK
<1>1. Shape => TypeOK
  BY DEF Shape
<1> QED
  BY InitShape, NextShape, <1>1, PTL DEF Spec

(* However late a takeover acts on what it read, and whoever else took the *)
(* cohort over before, only rows that were given up have a successor, and  *)
(* a row given up or ended is not written again (the guarded statements of *)
(* prepareCheckpointAttemptForRecovery and the owner's fence).             *)
THEOREM OneRowAtWork == Spec => OneFrontier
<1> DEFINE Ends ==
      \A a \in DOMAIN rows :
         /\ a < Len(rows') => rows'[a].state = "platform_abandoned"
         /\ rows[a].state \in Ended \cup {"platform_abandoned"} => rows'[a] = rows[a]
<1>1. Shape /\ [Next]_vars => [Ends]_vars
  BY NextSteps, RowsShape DEF Stepped
<1> QED
  BY InitShape, NextShape, <1>1, PTL DEF Spec, OneFrontier

-----------------------------------------------------------------------------
(* Progress: no coin is passed over.                                       *)

(* What the coins and their outcomes may do.                               *)
Grows ==
    /\ tried \subseteq tried'
    /\ \A c \in Coins :
          /\ coin[c].last <= coin'[c].last
          /\ coin'[c].last = coin[c].last /\ ~coin[c].pending => ~coin'[c].pending

(* An invocation to which nothing happens that it relies on.               *)
Still(p) ==
    /\ owner'[p].pc = owner[p].pc /\ owner'[p].coin = owner[p].coin
    /\ owner'[p].try = owner[p].try
    /\ Holds(p)' => Holds(p)
    /\ owner[p].pc = "fetch" /\ Holds(p) =>
          /\ coin'[owner[p].coin].pending = coin[owner[p].coin].pending
          /\ coin'[owner[p].coin].last = coin[owner[p].coin].last

LEMMA CoinNat ==
    ASSUME Shape, NEW c \in Coins
    PROVE  coin[c].last \in Nat /\ coin[c].pending \in BOOLEAN
BY DEF Shape, TypeOK

LEMMA SoundKept ==
    ASSUME Shape, Shape', Grows, NEW r, r \in Row, Sound(tried, coin, r)
    PROVE  Sound(tried', coin', r)
<1>1. \A c : Behind(tried, c) => Behind(tried', c)
  BY DEF Behind, Grows
<1>2. r.current # 0 => r.current \in Coins
  BY DEF Row
<1>3. \A c \in Coins : coin[c].last \in Nat /\ coin'[c].last \in Nat /\ coin[c].last <= coin'[c].last
  BY DEF Grows, Shape, TypeOK
<1>4. r.domain # NoAttempt => r.domain.n \in Nat
  BY DEF Row, Attempt
<1> QED
  BY <1>1, <1>2, <1>3, <1>4 DEF Sound

LEMMA FencelessKept ==
    ASSUME Shape, Shape', Grows, NEW x, Fenceless(coin, x)
    PROVE  Fenceless(coin', x)
<1>1. x.coin \in Coins /\ x.n \in Nat
  BY DEF Fenceless
<1>2. coin[x.coin].last \in Nat /\ coin'[x.coin].last \in Nat
  BY <1>1 DEF Shape, TypeOK
<1> QED
  BY <1>1, <1>2 DEF Fenceless, Grows

LEMMA StillWorks ==
    ASSUME Shape, Shape', Grows, NEW p \in Owners, Works(p), Still(p)
    PROVE  Works(p)'
<1>1. \A c : Behind(tried, c) => Behind(tried', c)
  BY DEF Behind, Grows
<1>2. owner[p].pc = "fetch" => owner[p].coin \in Coins
  <2>1. owner[p] \in Owner /\ (owner[p].pc = "fetch" => owner[p].coin # 0)
    BY DEF Shape, TypeOK, Attached
  <2>2. owner[p].coin \in 0 .. CoinCount
    BY <2>1 DEF Owner
  <2> QED
    BY <2>1, <2>2
<1>3. \A c \in Coins : coin[c].last \in Nat /\ coin'[c].last \in Nat /\ coin[c].last <= coin'[c].last
  BY DEF Grows, Shape, TypeOK
<1>4. owner[p].try \in Nat
  BY DEF Shape, TypeOK, Owner
<1>5. owner'[p].pc = "fetch" => owner'[p].try <= coin'[owner'[p].coin].last
  BY <1>2, <1>3, <1>4 DEF Works, Still
<1>6. owner'[p].pc = "tail" => Behind(tried', 0)
  BY <1>1 DEF Works, Still
<1>7. owner'[p].pc \in {"work", "fetch"} /\ Holds(p)' => Behind(tried', owner'[p].coin)
  BY <1>1 DEF Works, Still
<1>8. owner'[p].pc = "fetch" /\ Holds(p)' => Pending(p)'
  BY <1>2 DEF Works, Still, Pending
<1> QED
  BY <1>5, <1>6, <1>7, <1>8 DEF Works

(* There is one holder at most, of the last row.                           *)
LEMMA OneHolder ==
    ASSUME Shape, NEW o \in Owners, NEW p \in Owners, owner[o].pc \in Working, owner[p].pc \in Working,
           Holds(o), Holds(p)
    PROVE  o = p /\ owner[o].attempt = Len(rows)
BY DEF Holds, Mine, Shape, TypeOK, Attached, Chain, Held

LEMMA ProgressKept ==
    ASSUME IInv, Shape', Grows,
           \A a \in DOMAIN rows' : \/ a \in DOMAIN rows /\ rows'[a] = rows[a]
                                   \/ Sound(tried', coin', rows'[a]),
           \A t \in Takers : \/ look'[t] = look[t]
                             \/ look'[t].stage = "read" =>
                                  look'[t].row.state \in Held /\ Sound(tried', coin', look'[t].row),
           \A p \in Owners : Still(p) \/ Works(p)',
           Tries',
           \A c \in Coins : coin'[c].published = coin[c].published \/ c \in tried',
           tailed' = Coins,
           \A x \in left' : x \in left \/ x.coin \in Coins,
           \A x \in left' \ unread' : x \in left \ unread \/ Fenceless(coin', x)
    PROVE  IInv'
<1>1. \A a \in DOMAIN rows' : Sound(tried', coin', rows'[a])
  <2>1. \A a \in DOMAIN rows : rows[a] \in Row /\ Sound(tried, coin, rows[a])
    BY DEF IInv, Progress, Shape, TypeOK
  <2> QED
    BY <2>1, SoundKept DEF IInv
<1>2. \A t \in Takers : look'[t].stage = "read" =>
          look'[t].row.state \in Held /\ Sound(tried', coin', look'[t].row)
  <2>1. \A t \in Takers : look[t].stage = "read" =>
          look[t].row \in Row /\ look[t].row.state \in Held /\ Sound(tried, coin, look[t].row)
    BY DEF IInv, Progress, Shape, TypeOK, Seen, NoLook
  <2> QED
    BY <2>1, SoundKept DEF IInv
<1>3. \A p \in Owners : Works(p)'
  BY StillWorks DEF IInv, Progress
<1>4. \A c \in Coins : coin'[c].published # {} => c \in tried'
  BY DEF IInv, Progress, Grows
<1>5. /\ \A x \in left' : x.coin \in Coins
      /\ \A x \in left' \ unread' : Fenceless(coin', x)
  BY FencelessKept DEF IInv, Progress
<1>6. tailed' = Coins /\ Tries'
  OBVIOUS
<1> QED
  BY <1>1, <1>2, <1>3, <1>4, <1>5, <1>6 DEF IInv, Progress

(* Steps that touch rows and invocations only.                             *)
Quietly == UNCHANGED <<coin, tried, tailed, left, unread, look>>

LEMMA QuietGrows == ASSUME Shape, Quietly PROVE Grows
BY DEF Quietly, Grows, Shape, TypeOK

LEMMA TriesKept ==
    ASSUME IInv, Shape',
           \A p \in Owners : owner'[p].pc = "fetch" =>
              owner[p].pc = "fetch" /\ owner'[p].coin = owner[p].coin /\ owner'[p].try = owner[p].try
    PROVE  Tries'
BY DEF IInv, Progress, Tries

LEMMA QuietKept ==
    ASSUME IInv, Shape', Quietly,
           \A a \in DOMAIN rows' : \/ a \in DOMAIN rows /\ rows'[a] = rows[a]
                                   \/ Sound(tried', coin', rows'[a]),
           \A p \in Owners : Still(p) \/ (Works(p)' /\ owner'[p].pc # "fetch")
    PROVE  IInv'
<1>1. Grows
  BY QuietGrows DEF IInv
<1>2. Tries'
  BY TriesKept DEF Still
<1> QED
  BY <1>1, <1>2, ProgressKept DEF Quietly, IInv, Progress

(* A fenced write that keeps the row's owner.                              *)
LEMMA FencedKept ==
    ASSUME IInv, Shape', Quietly, NEW o \in Owners, owner[o].pc \in Working,
           NEW r \in Row, NEW w \in Owner, Fenced(o, r, w),
           r.inv = Mine(o).inv, w.attempt = owner[o].attempt, w.pc # "fetch",
           Holds(o) => Sound(tried, coin, r),
           Holds(o) /\ w.pc = "tail" => Behind(tried, 0),
           Holds(o) /\ w.pc = "work" => Behind(tried, w.coin)
    PROVE  IInv'
<1>1. /\ owner \in [Owners -> Owner] /\ rows \in Seq(Row)
      /\ owner[o].attempt \in DOMAIN rows
  BY DEF IInv, Shape, TypeOK, Attached
<1>2. UNCHANGED <<coin, tried>>
  BY DEF Quietly
<1>3. CASE Holds(o)
  <2>1. rows' = [rows EXCEPT ![owner[o].attempt] = r] /\ owner' = [owner EXCEPT ![o] = w]
    BY <1>3 DEF Fenced, Patch, Goes
  <2>2. \A a \in DOMAIN rows' : \/ a \in DOMAIN rows /\ rows'[a] = rows[a]
                                \/ Sound(tried', coin', rows'[a])
    BY <1>1, <1>2, <1>3, <2>1
  <2>3. Works(o)' /\ owner'[o].pc # "fetch"
    BY <1>1, <1>2, <1>3, <2>1 DEF Works
  <2>4. ASSUME NEW p \in Owners, p # o PROVE Still(p)
    <3>1. owner'[p] = owner[p]
      BY <1>1, <2>1, <2>4
    <3>2. rows[owner[o].attempt].inv = o /\ r.inv = o
      BY <1>3 DEF Holds, Mine
    <3>3. Holds(p)' => Holds(p)
      BY <1>1, <2>1, <2>4, <3>1, <3>2 DEF Holds, Mine
    <3> QED
      BY <1>2, <3>1, <3>3 DEF Still
  <2> QED
    BY <2>2, <2>3, <2>4, QuietKept
<1>4. CASE ~Holds(o)
  <2> DEFINE v == [owner[o] EXCEPT !.pc = "finish", !.ok = FALSE, !.chain = FALSE]
  <2>1. UNCHANGED rows /\ owner' = [owner EXCEPT ![o] = v]
    BY <1>4 DEF Fenced, Leaves, Goes
  <2>2. v.pc = "finish"
    BY <1>1 DEF Owner
  <2> HIDE DEF v
  <2>3. Works(o)' /\ owner'[o].pc # "fetch"
    BY <1>1, <2>1, <2>2 DEF Works
  <2>4. ASSUME NEW p \in Owners, p # o PROVE Still(p)
    BY <1>1, <1>2, <2>1, <2>4 DEF Still, Holds, Mine
  <2> QED
    BY <2>1, <2>3, <2>4, QuietKept
<1> QED
  BY <1>3, <1>4

(* An invocation goes on, or ends, and nothing else happens.               *)
LEMMA MovesKept ==
    ASSUME IInv, Shape', Quietly, UNCHANGED rows, NEW o \in Owners, NEW w \in Owner, Goes(o, w),
           w.pc # "fetch",
           w.pc = "tail" => Behind(tried, 0),
           w.pc = "work" => /\ w.attempt = owner[o].attempt
                            /\ Holds(o) => Behind(tried, w.coin)
    PROVE  IInv'
<1>1. owner \in [Owners -> Owner] /\ owner' = [owner EXCEPT ![o] = w] /\ UNCHANGED <<coin, tried>>
  BY DEF IInv, Shape, TypeOK, Goes, Quietly
<1>2. Works(o)' /\ owner'[o].pc # "fetch"
  BY <1>1 DEF Works, Holds, Mine
<1>3. ASSUME NEW p \in Owners, p # o PROVE Still(p)
  BY <1>1, <1>3 DEF Still, Holds, Mine
<1> QED
  BY <1>2, <1>3, QuietKept

LEMMA LeavesKept ==
    ASSUME IInv, Shape', Quietly, UNCHANGED rows, NEW o \in Owners, NEW ok \in BOOLEAN, Leaves(o, ok)
    PROVE  IInv'
<1> DEFINE v == [owner[o] EXCEPT !.pc = "finish", !.ok = ok, !.chain = FALSE]
<1>1. owner[o] \in Owner
  BY DEF IInv, Shape, TypeOK
<1>2. v \in Owner /\ v.pc = "finish" /\ Goes(o, v)
  BY <1>1 DEF Owner, Leaves
<1> HIDE DEF v
<1> QED
  BY <1>2, MovesKept

(* What a holder knows of its row.                                         *)
LEMMA MineSound ==
    ASSUME IInv, NEW o \in Owners, owner[o].pc \in Working
    PROVE  /\ Mine(o) \in Row /\ owner[o] \in Owner
           /\ Sound(tried, coin, Mine(o))
           /\ Holds(o) => Mine(o).state \in Held /\ Behind(tried, Mine(o).next)
BY MineTyped DEF IInv, Progress, Shape, Attached, Mine, Holds, Held, Sound

(* Rows that say the same of their place.                                  *)
SamePlace(r, s) ==
    r.inv = s.inv /\ r.next = s.next /\ r.current = s.current /\ r.domain = s.domain

LEMMA SameSound ==
    ASSUME IInv, NEW r \in Row, NEW s \in Row, SamePlace(r, s), r.state # "platform_abandoned",
           Sound(tried, coin, r)
    PROVE  Sound(tried, coin, s)
BY DEF SamePlace, Sound

LEMMA Places ==
    ASSUME NEW r \in Row
    PROVE  /\ SamePlace(r, Continued(r))
           /\ \A s \in Child : SamePlace(r, [r EXCEPT !.sync = s]) /\ SamePlace(r, [r EXCEPT !.tail = s])
           /\ \A s \in Child, t \in Child : SamePlace(r, [r EXCEPT !.sync = s, !.tail = t])
           /\ \A s \in Ended : /\ Finished(r, s).inv = r.inv
                               /\ Finished(r, s).next = r.next /\ Finished(r, s).current = 0
           /\ \A c \in 0 .. CoinCount : /\ Advanced(r, c).inv = r.inv
                                        /\ Advanced(r, c).next = c /\ Advanced(r, c).current = 0
<1>1. /\ SamePlace(r, Continued(r))
      /\ \A s \in Child : SamePlace(r, [r EXCEPT !.sync = s]) /\ SamePlace(r, [r EXCEPT !.tail = s])
      /\ \A s \in Child, t \in Child : SamePlace(r, [r EXCEPT !.sync = s, !.tail = t])
  BY DEF Row, SamePlace, Continued
<1>2. \A s \in Ended : /\ Finished(r, s).inv = r.inv
                      /\ Finished(r, s).next = r.next /\ Finished(r, s).current = 0
  BY DEF Row, Finished
<1>3. Renewed(r) \in Row /\ Renewed(r).inv = r.inv
  <2>1. Renewed(r).inv = r.inv
    BY DEF Row, Renewed
  <2> QED
    BY <2>1, RowTyped
<1>4. \A c \in 0 .. CoinCount : /\ Advanced(r, c).inv = r.inv
                               /\ Advanced(r, c).next = c /\ Advanced(r, c).current = 0
  BY <1>3 DEF Row, Advanced
<1> QED
  BY <1>1, <1>2, <1>4

LEMMA StartKeeps == ASSUME IInv, Shape', NEW o \in Owners, Start(o) PROVE IInv'
<1>1. owner[o].pc \in Working /\ Quietly
  BY DEF Start, At, Working, Quietly, DurableUnchanged
<1>2. /\ Mine(o) \in Row /\ owner[o] \in Owner /\ Sound(tried, coin, Mine(o))
      /\ Holds(o) => Mine(o).state \in Held /\ Behind(tried, Mine(o).next)
  BY <1>1, MineSound
<1> DEFINE s == [Mine(o) EXCEPT !.sync = "running"]
           t == [Mine(o) EXCEPT !.tail = "running"]
<1>3. /\ s \in Row /\ SamePlace(Mine(o), s)
      /\ t \in Row /\ SamePlace(Mine(o), t)
  BY <1>2, RowTyped, Places DEF Child
<1>4. Holds(o) => Sound(tried, coin, s) /\ Sound(tried, coin, t)
  BY <1>2, <1>3, SameSound DEF Held
<1>5. \A pc \in Working : /\ [owner[o] EXCEPT !.pc = pc] \in Owner
                          /\ [owner[o] EXCEPT !.pc = pc].pc = pc
                          /\ [owner[o] EXCEPT !.pc = pc].attempt = owner[o].attempt
  BY <1>2 DEF Owner, Working
<1>6. "resume" \in Working /\ "tail" \in Working /\ "close" \in Working
  BY DEF Working
<1>7. CASE Fenced(o, s, [owner[o] EXCEPT !.pc = "resume"])
  <2> HIDE DEF s
  <2> QED
    BY <1>1, <1>3, <1>4, <1>5, <1>6, <1>7, FencedKept DEF SamePlace
<1>8. CASE Exhausted(Mine(o)) /\ Fenced(o, t, [owner[o] EXCEPT !.pc = "tail"])
  <2>1. Holds(o) => Behind(tried, 0)
    BY <1>2, <1>8 DEF Exhausted
  <2> HIDE DEF t
  <2> QED
    BY <1>1, <1>3, <1>4, <1>5, <1>6, <1>8, <2>1, FencedKept DEF SamePlace
<1>9. CASE UNCHANGED rows /\ Goes(o, [owner[o] EXCEPT !.pc = "close"])
  BY <1>1, <1>5, <1>6, <1>9, MovesKept
<1> QED
  BY <1>7, <1>8, <1>9 DEF Start

LEMMA BehindAfter ==
    ASSUME NEW T, NEW c \in Coins, Behind(T, c), c \in T
    PROVE  Behind(T, After(c))
BY CountAssumption DEF Behind, After

LEMMA ResumeKeeps == ASSUME IInv, Shape', NEW o \in Owners, Resume(o) PROVE IInv'
<1> DEFINE From(c) == [owner[o] EXCEPT !.pc = IF c = 0 THEN "stopped" ELSE "work", !.coin = c]
           n == After(Mine(o).next)
           r == Advanced(Mine(o), n)
<1>1. owner[o].pc \in Working /\ Quietly
  BY DEF Resume, At, Working, Quietly, DurableUnchanged
<1>2. /\ Mine(o) \in Row /\ owner[o] \in Owner /\ Sound(tried, coin, Mine(o))
      /\ Holds(o) => Mine(o).state \in Held /\ Behind(tried, Mine(o).next)
  BY <1>1, MineSound
<1>3. Mine(o).next \in 0 .. CoinCount
  BY <1>2 DEF Row
<1>4. n \in 0 .. CoinCount
  BY <1>3, CountAssumption DEF After
<1>5. \A c \in 0 .. CoinCount : /\ From(c) \in Owner /\ From(c).pc \in {"stopped", "work"}
                               /\ From(c).attempt = owner[o].attempt /\ From(c).coin = c
  BY <1>2, ZenonT(40) DEF Owner
<1>6. r \in Row /\ r.inv = Mine(o).inv /\ r.next = n /\ r.current = 0
  BY <1>2, <1>4, RowTyped, Places
<1>7. \/ /\ Mine(o).domain # NoAttempt /\ Mine(o).next = Mine(o).domain.coin
         /\ Authoritative(Mine(o).domain)
         /\ Fenced(o, r, From(n))
      \/ UNCHANGED rows /\ Goes(o, From(Mine(o).next))
  BY DEF Resume
<1> HIDE DEF From, n, r
<1>8. CASE /\ Mine(o).domain # NoAttempt /\ Mine(o).next = Mine(o).domain.coin
           /\ Authoritative(Mine(o).domain)
           /\ Fenced(o, r, From(n))
  <2>1. Mine(o).next \in Coins
    BY <1>2, <1>8 DEF Row, Attempt
  <2>2. Mine(o).next \in tried
    BY <1>8, <2>1 DEF Authoritative, IInv, Progress
  <2>3. Holds(o) => Behind(tried, n)
    BY <1>2, <2>1, <2>2, BehindAfter DEF n
  <2>4. Holds(o) => Sound(tried, coin, r)
    BY <1>6, <2>3 DEF Sound
  <2>5. /\ From(n) \in Owner /\ From(n).pc \in {"stopped", "work"}
        /\ From(n).attempt = owner[o].attempt /\ From(n).coin = n
    BY <1>4, <1>5
  <2> QED
    BY <1>1, <1>6, <1>8, <2>3, <2>4, <2>5, FencedKept
<1>9. CASE UNCHANGED rows /\ Goes(o, From(Mine(o).next))
  BY <1>1, <1>2, <1>3, <1>5, <1>9, MovesKept
<1> QED
  BY <1>7, <1>8, <1>9

LEMMA StopKeeps == ASSUME IInv, Shape', NEW o \in Owners, Stop(o) PROVE IInv'
<1> DEFINE w == [owner[o] EXCEPT !.pc = "stopped"]
           c == owner[o].coin
           r == Advanced(Mine(o), c)
<1>1. owner[o].pc \in Working /\ owner[o].pc = "work" /\ Quietly
  BY DEF Stop, At, Working, Quietly, DurableUnchanged
<1>2. Mine(o) \in Row /\ owner[o] \in Owner
  BY <1>1, MineSound
<1>3. c \in 0 .. CoinCount /\ w \in Owner /\ w.pc = "stopped" /\ w.attempt = owner[o].attempt
  BY <1>2 DEF Owner
<1>4. r \in Row /\ r.inv = Mine(o).inv /\ r.next = c /\ r.current = 0
  BY <1>2, <1>3, RowTyped, Places
<1>5. Holds(o) => Sound(tried, coin, r)
  BY <1>1, <1>4 DEF IInv, Progress, Works, Sound
<1>6. Fenced(o, r, w)
  BY DEF Stop
<1> HIDE DEF w, r
<1> QED
  BY <1>1, <1>3, <1>4, <1>5, <1>6, FencedKept

LEMMA MarkKeeps == ASSUME IInv, Shape', NEW o \in Owners, Mark(o) PROVE IInv'
<1> DEFINE w == [owner[o] EXCEPT !.pc = "handoff"]
           r(s) == [Mine(o) EXCEPT !.sync = s, !.tail = "not_started"]
<1>1. owner[o].pc \in Working /\ Quietly
  BY DEF Mark, At, Working, Quietly, DurableUnchanged
<1>2. /\ Mine(o) \in Row /\ owner[o] \in Owner /\ Sound(tried, coin, Mine(o))
      /\ Holds(o) => Mine(o).state \in Held
  BY <1>1, MineSound
<1>3. w \in Owner /\ w.pc = "handoff" /\ w.attempt = owner[o].attempt
  BY <1>2 DEF Owner
<1>4. PICK s \in Child : Fenced(o, r(s), w)
  BY DEF Mark, Child
<1>5. r(s) \in Row /\ SamePlace(Mine(o), r(s))
  BY <1>2, RowTyped, Places DEF Child
<1>6. Holds(o) => Sound(tried, coin, r(s))
  BY <1>2, <1>5, SameSound DEF Held
<1> HIDE DEF w, r
<1> QED
  BY <1>1, <1>3, <1>4, <1>5, <1>6, FencedKept DEF SamePlace

(* Both ways to let go of a row.                                           *)
LEMMA EndsSound ==
    ASSUME IInv, NEW o \in Owners, owner[o].pc \in Working, NEW s \in Ended
    PROVE  /\ Continued(Mine(o)) \in Row /\ Continued(Mine(o)).inv = Mine(o).inv
           /\ Finished(Mine(o), s) \in Row /\ Finished(Mine(o), s).inv = Mine(o).inv
           /\ Holds(o) => /\ Sound(tried, coin, Continued(Mine(o)))
                          /\ Sound(tried, coin, Finished(Mine(o), s))
<1>1. /\ Mine(o) \in Row /\ Sound(tried, coin, Mine(o))
      /\ Holds(o) => Mine(o).state \in Held /\ Behind(tried, Mine(o).next)
  BY MineSound
<1>2. Continued(Mine(o)) \in Row /\ SamePlace(Mine(o), Continued(Mine(o))) /\ Finished(Mine(o), s) \in Row
  BY <1>1, RowTyped, Places
<1>3. Holds(o) => Sound(tried, coin, Continued(Mine(o)))
  BY <1>1, <1>2, SameSound DEF Held
<1>4. /\ Finished(Mine(o), s).inv = Mine(o).inv
      /\ Finished(Mine(o), s).next = Mine(o).next /\ Finished(Mine(o), s).current = 0
  BY <1>1, Places
<1>5. Holds(o) => Sound(tried, coin, Finished(Mine(o), s))
  BY <1>1, <1>4 DEF Sound
<1> QED
  BY <1>2, <1>3, <1>4, <1>5 DEF SamePlace

LEMMA HandOffKeeps == ASSUME IInv, Shape', NEW o \in Owners, HandOff(o) PROVE IInv'
<1> DEFINE w(chain) == [[owner[o] EXCEPT !.pc = "finish", !.chain = TRUE] EXCEPT !.chain = chain]
<1>1. owner[o].pc \in Working /\ Quietly
  BY DEF HandOff, At, Working, Quietly, DurableUnchanged
<1>2. owner[o] \in Owner
  BY <1>1, MineSound
<1>3. /\ [owner[o] EXCEPT !.pc = "finish", !.chain = TRUE] = w(TRUE)
      /\ \A chain \in BOOLEAN : /\ w(chain) \in Owner /\ w(chain).pc = "finish"
                                /\ w(chain).attempt = owner[o].attempt
  BY <1>2 DEF Owner
<1>4. \/ Fenced(o, Continued(Mine(o)), w(TRUE))
      \/ Fenced(o, Finished(Mine(o), "failed"), w(FALSE))
      \/ UNCHANGED rows /\ Leaves(o, FALSE)
  BY <1>3 DEF HandOff
<1>5. "failed" \in Ended
  BY DEF Ended
<1> HIDE DEF w
<1>6. CASE Fenced(o, Continued(Mine(o)), w(TRUE))
  BY <1>1, <1>3, <1>5, <1>6, EndsSound, FencedKept
<1>7. CASE Fenced(o, Finished(Mine(o), "failed"), w(FALSE))
  BY <1>1, <1>3, <1>5, <1>7, EndsSound, FencedKept
<1>8. CASE UNCHANGED rows /\ Leaves(o, FALSE)
  BY <1>1, <1>8, LeavesKept
<1> QED
  BY <1>4, <1>6, <1>7, <1>8

LEMMA CloseKeeps == ASSUME IInv, Shape', NEW o \in Owners, Close(o) PROVE IInv'
<1> DEFINE w == [owner[o] EXCEPT !.pc = "finish"]
<1>1. owner[o].pc \in Working /\ Quietly
  BY DEF Close, At, Working, Quietly, DurableUnchanged
<1>2. owner[o] \in Owner
  BY <1>1, MineSound
<1>3. w \in Owner /\ w.pc = "finish" /\ w.attempt = owner[o].attempt
  BY <1>2 DEF Owner
<1>4. \/ Fenced(o, Finished(Mine(o), "completed"), w)
      \/ Fenced(o, Continued(Mine(o)), w)
      \/ UNCHANGED rows /\ Leaves(o, FALSE)
  BY DEF Close
<1>5. "completed" \in Ended
  BY DEF Ended
<1> HIDE DEF w
<1>6. CASE Fenced(o, Continued(Mine(o)), w)
  BY <1>1, <1>3, <1>5, <1>6, EndsSound, FencedKept
<1>7. CASE Fenced(o, Finished(Mine(o), "completed"), w)
  BY <1>1, <1>3, <1>5, <1>7, EndsSound, FencedKept
<1>8. CASE UNCHANGED rows /\ Leaves(o, FALSE)
  BY <1>1, <1>8, LeavesKept
<1> QED
  BY <1>4, <1>6, <1>7, <1>8

LEMMA RunTailKeeps == ASSUME IInv, Shape', NEW o \in Owners, RunTail(o) PROVE IInv'
<1> DEFINE w == [owner[o] EXCEPT !.pc = "close"]
           r == [Mine(o) EXCEPT !.tail = "completed"]
<1>1. owner[o].pc \in Working /\ owner[o].pc = "tail"
  BY DEF RunTail, At, Working
<1>2. Coins \subseteq tried
  BY <1>1 DEF IInv, Progress, Works, Behind
<1>3. Quietly
  BY <1>2 DEF RunTail, Quietly, IInv, Progress
<1>4. /\ Mine(o) \in Row /\ owner[o] \in Owner /\ Sound(tried, coin, Mine(o))
      /\ Holds(o) => Mine(o).state \in Held
  BY <1>1, MineSound
<1>5. w \in Owner /\ w.pc = "close" /\ w.attempt = owner[o].attempt
  BY <1>4 DEF Owner
<1>6. r \in Row /\ SamePlace(Mine(o), r)
  BY <1>4, RowTyped, Places DEF Child
<1>7. Holds(o) => Sound(tried, coin, r)
  BY <1>4, <1>6, SameSound DEF Held
<1>8. Fenced(o, r, w)
  BY DEF RunTail
<1> HIDE DEF w, r
<1> QED
  BY <1>1, <1>3, <1>5, <1>6, <1>7, <1>8, FencedKept DEF SamePlace

LEMMA EndEventKeeps == ASSUME IInv, Shape', NEW o \in Owners, EndEvent(o) PROVE IInv'
<1> DEFINE w == [owner[o] EXCEPT !.pc = "send"]
<1>1. owner[o] \in Owner /\ Gone(o) \in Owner /\ Gone(o).pc = "gone"
  BY GoneTyped DEF IInv, Shape, TypeOK
<1>2. w \in Owner /\ w.pc = "send"
  BY <1>1 DEF Owner
<1>3. Quietly /\ UNCHANGED rows /\ (Goes(o, w) \/ Goes(o, Gone(o)))
  BY DEF EndEvent, Quietly
<1> HIDE DEF w
<1> QED
  BY <1>1, <1>2, <1>3, MovesKept

LEMMA SendKeeps == ASSUME IInv, Shape', NEW o \in Owners, Send(o) PROVE IInv'
<1>1. Gone(o) \in Owner /\ Gone(o).pc = "gone"
  BY GoneTyped DEF IInv
<1>2. Quietly /\ UNCHANGED rows /\ Goes(o, Gone(o))
  BY DEF Send, Quietly
<1> QED
  BY <1>1, <1>2, MovesKept

LEMMA CrashKeeps == ASSUME IInv, Shape', Quietly, NEW o \in Owners, Crash(o) PROVE IInv'
<1>1. Gone(o) \in Owner /\ Gone(o).pc = "gone"
  BY GoneTyped DEF IInv
<1>2. UNCHANGED rows /\ Goes(o, Gone(o))
  BY DEF Crash
<1> QED
  BY <1>1, <1>2, MovesKept

LEMMA FailsKeeps == ASSUME IInv, Shape', Quietly, NEW o \in Owners, Fails(o) PROVE IInv'
<1> DEFINE w == [owner[o] EXCEPT !.pc = "handoff", !.ok = FALSE]
           r == [Mine(o) EXCEPT !.sync = "failed", !.tail = "not_started"]
<1>1. owner[o].pc \in Working
  BY DEF Fails, Working
<1>2. /\ Mine(o) \in Row /\ owner[o] \in Owner /\ Sound(tried, coin, Mine(o))
      /\ Holds(o) => Mine(o).state \in Held
  BY <1>1, MineSound
<1>3. w \in Owner /\ w.pc = "handoff" /\ w.attempt = owner[o].attempt
  BY <1>2 DEF Owner
<1>4. r \in Row /\ SamePlace(Mine(o), r)
  BY <1>2, RowTyped, Places DEF Child
<1>5. Holds(o) => Sound(tried, coin, r)
  BY <1>2, <1>4, SameSound DEF Held
<1>6. Fenced(o, r, w)
  BY DEF Fails
<1> HIDE DEF w, r
<1> QED
  BY <1>1, <1>3, <1>4, <1>5, <1>6, FencedKept DEF SamePlace

LEMMA TailFailsKeeps == ASSUME IInv, Shape', Quietly, NEW o \in Owners, TailFails(o) PROVE IInv'
<1> DEFINE w == [owner[o] EXCEPT !.pc = "close", !.ok = FALSE]
           r == [Mine(o) EXCEPT !.tail = "failed"]
<1>1. owner[o].pc \in Working
  BY DEF TailFails, At, Working
<1>2. /\ Mine(o) \in Row /\ owner[o] \in Owner /\ Sound(tried, coin, Mine(o))
      /\ Holds(o) => Mine(o).state \in Held
  BY <1>1, MineSound
<1>3. w \in Owner /\ w.pc = "close" /\ w.attempt = owner[o].attempt
  BY <1>2 DEF Owner
<1>4. r \in Row /\ SamePlace(Mine(o), r)
  BY <1>2, RowTyped, Places DEF Child
<1>5. Holds(o) => Sound(tried, coin, r)
  BY <1>2, <1>4, SameSound DEF Held
<1>6. Fenced(o, r, w)
  BY DEF TailFails
<1> HIDE DEF w, r
<1> QED
  BY <1>1, <1>3, <1>4, <1>5, <1>6, FencedKept DEF SamePlace

LEMMA DeferKeeps == ASSUME IInv, Shape', Quietly, NEW o \in Owners, Defer(o) PROVE IInv'
<1> DEFINE w == [owner[o] EXCEPT !.pc = "finish", !.ok = TRUE, !.chain = FALSE]
<1>1. owner[o].pc \in Working
  BY DEF Defer, At, Working
<1>2. owner[o] \in Owner
  BY <1>1, MineSound
<1>3. w \in Owner /\ w.pc = "finish" /\ w.attempt = owner[o].attempt /\ Goes(o, w)
  BY <1>2 DEF Defer, Leaves, Owner
<1> HIDE DEF w
<1>4. CASE Holds(o) /\ Mine(o).lease
  <2>1. Fenced(o, Continued(Mine(o)), w)
    BY <1>3, <1>4 DEF Defer, Fenced, Patch
  <2> QED
    BY <1>1, <1>3, <2>1, EndsSound, FencedKept DEF Ended
<1>5. CASE ~(Holds(o) /\ Mine(o).lease)
  BY <1>3, <1>5, MovesKept DEF Defer
<1> QED
  BY <1>4, <1>5

(* Beginning an attempt, whether its answer arrives or not.                *)
LEMMA BeginKept ==
    ASSUME IInv, Shape', NEW o \in Owners, owner[o].pc = "work", owner[o].coin # 0, Holds(o),
           NEW w \in Owner, NEW r \in Row,
           rows' = [rows EXCEPT ![owner[o].attempt] = r], owner' = [owner EXCEPT ![o] = w],
           coin' = [coin EXCEPT ![owner[o].coin].last = coin[owner[o].coin].last + 1,
                                ![owner[o].coin].pending = TRUE],
           UNCHANGED <<tried, tailed, left, unread, look>>,
           r.inv = o, w.attempt = owner[o].attempt,
           r.next = owner[o].coin, r.current = owner[o].coin,
           r.domain = [coin |-> owner[o].coin, n |-> coin[owner[o].coin].last + 1],
           w.pc \notin {"work", "tail"},
           w.pc = "fetch" => w.coin = owner[o].coin /\ w.try = coin[owner[o].coin].last + 1
    PROVE  IInv'
<1> DEFINE c == owner[o].coin
           n == coin[c].last + 1
<1>1. /\ owner \in [Owners -> Owner] /\ rows \in Seq(Row) /\ c \in Coins
      /\ owner[o].attempt \in DOMAIN rows /\ owner[o].pc \in Working
  <2>1. owner \in [Owners -> Owner] /\ rows \in Seq(Row) /\ owner[o].pc \in Working
    BY DEF IInv, Shape, TypeOK, Working
  <2>2. owner[o] \in Owner
    BY <2>1
  <2> QED
    BY <2>1, <2>2 DEF IInv, Shape, Attached, Owner
<1>2. \A d \in Coins : coin[d].last \in Nat
  BY DEF IInv, Shape, TypeOK
<1>3. coin'[c].last = n /\ coin'[c].pending /\ coin'[c].published = coin[c].published
  BY <1>1 DEF IInv, Shape, TypeOK
<1>4. \A d \in Coins : d # c => coin'[d] = coin[d]
  BY <1>1 DEF IInv, Shape, TypeOK
<1>5. Grows
  <2>1. ASSUME NEW d \in Coins
        PROVE  /\ coin[d].last <= coin'[d].last
               /\ coin'[d].last = coin[d].last /\ ~coin[d].pending => ~coin'[d].pending
    <3>1. CASE d = c
      <4>1. coin'[d].last = coin[d].last + 1 /\ coin[d].last \in Nat
        BY <1>2, <1>3, <3>1
      <4> QED
        BY <4>1
    <3>2. CASE d # c
      <4>1. coin'[d] = coin[d] /\ coin[d].last \in Nat
        BY <1>2, <1>4, <3>2
      <4> QED
        BY <4>1
    <3> QED
      BY <3>1, <3>2
  <2> QED
    BY <2>1 DEF Grows
<1>6. Behind(tried, c)
  BY DEF IInv, Progress, Works
<1>7. n \in Nat /\ n > coin[c].last /\ [coin |-> c, n |-> n] # NoAttempt
  BY <1>1, <1>2 DEF NoAttempt
<1> HIDE DEF n
<1>8. Sound(tried', coin', r)
  <2>1. r.current = c /\ r.next = c /\ r.domain = [coin |-> c, n |-> n]
    BY DEF n
  <2>2. r.domain # NoAttempt /\ r.domain.coin = c /\ r.domain.n = n
    BY <1>7, <2>1
  <2> QED
    BY <1>3, <1>6, <1>7, <2>1, <2>2 DEF Sound
<1>9. \A a \in DOMAIN rows' : \/ a \in DOMAIN rows /\ rows'[a] = rows[a]
                              \/ Sound(tried', coin', rows'[a])
  BY <1>1, <1>8
<1>10. owner'[o] = w /\ \A p \in Owners : p # o => owner'[p] = owner[p]
  BY <1>1
<1>11. w.pc = "fetch" => w.coin = c /\ w.try = n
  BY DEF n
<1>12. Works(o)'
  <2>1. owner'[o].pc = "fetch" => owner'[o].coin = c /\ owner'[o].try = n /\ n <= coin'[c].last
    BY <1>3, <1>7, <1>10, <1>11
  <2>2. owner'[o].pc = "fetch" => Behind(tried', owner'[o].coin) /\ Pending(o)'
    BY <1>3, <1>6, <2>1 DEF Pending
  <2>3. owner'[o].pc \notin {"work", "tail"}
    BY <1>10
  <2> QED
    BY <2>1, <2>2, <2>3 DEF Works
<1>13. ASSUME NEW p \in Owners, p # o PROVE Still(p)
  <2>1. ~Holds(p) \/ owner[p].pc \notin Working
    BY <1>1, <1>13, OneHolder DEF IInv
  <2>2. rows[owner[o].attempt].inv = o
    BY DEF Holds, Mine
  <2>3. Holds(p)' => Holds(p)
    BY <1>1, <1>10, <1>13, <2>2 DEF Holds, Mine
  <2> QED
    BY <1>10, <1>13, <2>1, <2>3 DEF Still, Working
<1>14. Tries'
  <2>1. ASSUME NEW p \in Owners, p # o, owner'[p].pc = "fetch", owner'[p].coin = c
        PROVE  owner'[p].try # n
    <3>1. owner[p].try <= coin[c].last /\ owner[p].try \in Nat
      BY <1>1, <1>10, <2>1 DEF IInv, Progress, Works, Owner
    <3> QED
      BY <1>1, <1>2, <1>7, <1>10, <2>1, <3>1
  <2>2. owner'[o].pc = "fetch" => owner'[o].coin = c /\ owner'[o].try = n
    BY <1>10, <1>11
  <2>3. ASSUME NEW p \in Owners, NEW q \in Owners, p # o, q # o,
               owner'[p].pc = "fetch", owner'[q].pc = "fetch",
               owner'[p].coin = owner'[q].coin, owner'[p].try = owner'[q].try
        PROVE  p = q
    BY <1>10, <2>3 DEF IInv, Progress, Tries
  <2> QED
    BY <2>1, <2>2, <2>3 DEF Tries
<1>15. \A d \in Coins : coin'[d].published = coin[d].published
  BY <1>3, <1>4
<1> QED
  BY <1>5, <1>9, <1>12, <1>13, <1>14, <1>15, ProgressKept DEF IInv, Progress

LEMMA StartedRow ==
    ASSUME NEW r \in Row, NEW c \in Coins, NEW n \in Nat
    PROVE  LET s == Started(r, c, n) IN
           /\ s \in Row /\ s.inv = r.inv /\ s.next = c /\ s.current = c
           /\ s.domain = [coin |-> c, n |-> n]
<1>1. Renewed(r) \in Row /\ Renewed(r).inv = r.inv
  <2>1. Renewed(r).inv = r.inv
    BY DEF Row, Renewed
  <2> QED
    BY <2>1, RowTyped
<1>2. Started(r, c, n) \in Row
  BY RowTyped
<1> QED
  BY <1>1, <1>2 DEF Started, Row

LEMMA BeginCoinKeeps == ASSUME IInv, Shape', NEW o \in Owners, BeginCoin(o) PROVE IInv'
<1> DEFINE c == owner[o].coin
           n == coin[c].last + 1
           w == [owner[o] EXCEPT !.pc = "fetch", !.try = n, !.took = TRUE]
           r == Started(Mine(o), c, n)
<1>1. owner[o].pc \in Working /\ owner[o].pc = "work" /\ c # 0
      /\ UNCHANGED <<tried, tailed, left, unread, look>>
  BY DEF BeginCoin, At, Working
<1>2. Mine(o) \in Row /\ owner[o] \in Owner
  BY <1>1, MineSound
<1>3. c \in Coins
  BY <1>1, <1>2 DEF Owner
<1>4. n \in Nat
  BY <1>3, CoinTyped DEF IInv
<1>5. /\ r \in Row /\ r.inv = Mine(o).inv /\ r.next = c /\ r.current = c
      /\ r.domain = [coin |-> c, n |-> n]
  BY <1>2, <1>3, <1>4, StartedRow
<1>6. w \in Owner /\ w.pc = "fetch" /\ w.coin = c /\ w.try = n /\ w.attempt = owner[o].attempt
  BY <1>2, <1>4 DEF Owner
<1>7. Fenced(o, r, w) /\ coin' = IF Holds(o) THEN [coin EXCEPT ![c].last = n, ![c].pending = TRUE] ELSE coin
  BY DEF BeginCoin
<1>8. CASE Holds(o)
  <2>1. rows' = [rows EXCEPT ![owner[o].attempt] = r] /\ owner' = [owner EXCEPT ![o] = w]
    BY <1>7, <1>8 DEF Fenced, Patch, Goes
  <2>2. r.inv = o
    BY <1>5, <1>8 DEF Holds
  <2>3. coin' = [coin EXCEPT ![owner[o].coin].last = coin[owner[o].coin].last + 1,
                             ![owner[o].coin].pending = TRUE]
    BY <1>7, <1>8
  <2>4. r.domain = [coin |-> owner[o].coin, n |-> coin[owner[o].coin].last + 1]
        /\ w.try = coin[owner[o].coin].last + 1
    BY <1>5, <1>6
  <2> HIDE DEF r, w
  <2> QED
    BY <1>1, <1>5, <1>6, <1>8, <2>1, <2>2, <2>3, <2>4, BeginKept
<1>9. CASE ~Holds(o)
  BY <1>1, <1>7, <1>9, LeavesKept DEF Fenced, Quietly
<1> QED
  BY <1>8, <1>9

LEMMA BeginUnansweredKeeps ==
    ASSUME IInv, Shape', NEW o \in Owners, BeginUnanswered(o), UNCHANGED <<tried, tailed, left, unread, look>>
    PROVE  IInv'
<1> DEFINE c == owner[o].coin
           n == coin[c].last + 1
           w == [owner[o] EXCEPT !.pc = "handoff", !.ok = FALSE]
           s == Started(Mine(o), c, n)
           r == [s EXCEPT !.sync = "failed", !.tail = "not_started"]
<1>1. owner[o].pc \in Working /\ owner[o].pc = "work" /\ c # 0 /\ Holds(o)
  BY DEF BeginUnanswered, At, Working
<1>2. Mine(o) \in Row /\ owner[o] \in Owner
  BY <1>1, MineSound
<1>3. c \in Coins
  BY <1>1, <1>2 DEF Owner
<1>4. n \in Nat
  BY <1>3, CoinTyped DEF IInv
<1>5. /\ s \in Row /\ s.inv = o /\ s.next = c /\ s.current = c
      /\ s.domain = [coin |-> c, n |-> n]
  BY <1>1, <1>2, <1>3, <1>4, StartedRow DEF Holds
<1>6. r \in Row /\ SamePlace(s, r)
  <2> HIDE DEF s
  <2> QED
    BY <1>5, RowTyped, Places DEF Child
<1>7. w \in Owner /\ w.pc = "handoff" /\ w.attempt = owner[o].attempt
  BY <1>2 DEF Owner
<1>8. /\ rows' = [rows EXCEPT ![owner[o].attempt] = r] /\ owner' = [owner EXCEPT ![o] = w]
      /\ coin' = [coin EXCEPT ![owner[o].coin].last = coin[owner[o].coin].last + 1,
                              ![owner[o].coin].pending = TRUE]
  BY DEF BeginUnanswered, Patch, Goes
<1> HIDE DEF r, w, s
<1>9. /\ r.inv = o /\ r.next = owner[o].coin /\ r.current = owner[o].coin
      /\ r.domain = [coin |-> owner[o].coin, n |-> coin[owner[o].coin].last + 1]
  BY <1>5, <1>6 DEF SamePlace
<1> QED
  BY <1>1, <1>6, <1>7, <1>8, <1>9, BeginKept

(* What settling does to its coin; nobody else may settle that attempt.    *)
LEMMA SettleKeeps == ASSUME IInv, Shape', NEW o \in Owners, Settle(o) PROVE IInv'
<1> DEFINE c == owner[o].coin
           w == [owner[o] EXCEPT !.pc = "work", !.coin = After(c)]
<1>1. owner[o].pc \in Working /\ owner[o].pc = "fetch"
  BY DEF Settle, At, Working
<1>2. owner \in [Owners -> Owner] /\ owner[o] \in Owner
  BY DEF IInv, Shape, TypeOK
<1>3. c \in Coins
  BY <1>1, <1>2 DEF IInv, Shape, Attached, Owner
<1>4. w \in Owner /\ w.pc = "work" /\ w.attempt = owner[o].attempt /\ w.coin = After(c)
  <2>1. After(c) \in 0 .. CoinCount
    BY <1>3, CountAssumption DEF After
  <2> QED
    BY <1>2, <2>1 DEF Owner
<1>5. /\ UNCHANGED <<rows, look, tailed, left, unread>> /\ owner' = [owner EXCEPT ![o] = w]
      /\ tried' = IF Pending(o) THEN tried \cup {c} ELSE tried
  BY DEF Settle, Goes
<1>6. /\ \A d \in Coins : d # c => coin'[d] = coin[d]
      /\ coin'[c].last = coin[c].last
      /\ ~coin[c].pending => ~coin'[c].pending
      /\ ~Pending(o) => coin' = coin
  BY <1>3 DEF Settle, IInv, Shape, TypeOK, Pending
<1> HIDE DEF w
<1>7. Grows
  <2>1. ASSUME NEW d \in Coins
        PROVE  coin[d].last <= coin'[d].last /\ (~coin[d].pending => ~coin'[d].pending)
    <3>1. coin[d].last \in Nat
      BY DEF IInv, Shape, TypeOK
    <3> QED
      BY <1>6, <3>1
  <2> QED
    BY <1>5, <2>1 DEF Grows
<1>8. \A d \in Coins : coin'[d].published = coin[d].published \/ d \in tried'
  BY <1>5, <1>6
<1>9. owner'[o] = w /\ \A p \in Owners : p # o => owner'[p] = owner[p]
  BY <1>2, <1>5
<1>10. ASSUME NEW p \in Owners PROVE Holds(p)' = Holds(p)
  BY <1>4, <1>5, <1>9 DEF Holds, Mine
<1>11. Works(o)'
  <2>1. Holds(o) => Behind(tried', After(c))
    <3>1. ASSUME Holds(o) PROVE Pending(o) /\ Behind(tried, c)
      BY <1>1, <3>1 DEF IInv, Progress, Works
    <3>2. ASSUME Holds(o) PROVE Behind(tried', c) /\ c \in tried'
      BY <1>5, <3>1, <3>2 DEF Behind
    <3> QED
      BY <1>3, <3>2, BehindAfter
  <2> QED
    BY <1>4, <1>9, <1>10, <2>1 DEF Works
<1>12. ASSUME NEW p \in Owners, p # o PROVE Still(p)
  <2>1. ASSUME owner[p].pc = "fetch", Holds(p)
        PROVE  coin'[owner[p].coin] = coin[owner[p].coin]
    <3>1. Pending(p) /\ owner[p].coin \in Coins
      <4>1. owner[p] \in Owner /\ owner[p].coin # 0
        BY <1>2, <2>1 DEF IInv, Shape, Attached
      <4> QED
        BY <2>1, <4>1 DEF IInv, Progress, Works, Owner
    <3>2. CASE owner[p].coin # c
      BY <1>6, <3>1, <3>2
    <3>3. CASE owner[p].coin = c
      <4>1. owner[p].try # owner[o].try
        BY <1>1, <1>12, <2>1, <3>3 DEF IInv, Progress, Tries
      <4>2. ~Pending(o)
        BY <3>1, <3>3, <4>1 DEF Pending
      <4> QED
        BY <1>6, <4>2
    <3> QED
      BY <3>2, <3>3
  <2> QED
    BY <1>9, <1>10, <1>12, <2>1 DEF Still
<1>13. Tries'
  BY <1>4, <1>9, TriesKept
<1> QED
  BY <1>5, <1>7, <1>8, <1>11, <1>12, <1>13, ProgressKept DEF IInv, Progress

LEMMA BeginKeeps == ASSUME IInv, Shape', Begin PROVE IInv'
<1> DEFINE r == [state |-> "running", inv |-> Producer, next |-> 1, current |-> 0,
                 domain |-> NoAttempt, lease |-> FALSE,
                 sync |-> "not_started", tail |-> "not_started"]
           w == [owner[Producer] EXCEPT !.pc = "start"]
<1>1. Producer \in Owners /\ owner \in [Owners -> Owner]
  BY CountAssumption DEF Producer, IInv, Shape, TypeOK
<1>2. rows' = <<r>> /\ owner' = [owner EXCEPT ![Producer] = w] /\ Quietly
  BY DEF Begin, Goes, Quietly, DurableUnchanged
<1>3. Sound(tried', coin', r)
  BY DEF Sound, Behind
<1>4. w.pc = "start"
  BY <1>1 DEF Owner
<1>5. rows = <<>>
  BY <1>1 DEF Begin, At, IInv, Shape, Attached
<1> HIDE DEF r, w
<1>6. DOMAIN rows' = {1} /\ rows'[1] = r
  BY <1>2
<1>7. Works(Producer)' /\ owner'[Producer].pc # "fetch"
  BY <1>1, <1>2, <1>4 DEF Works
<1>8. ASSUME NEW p \in Owners, p # Producer PROVE Works(p)' /\ owner'[p].pc # "fetch"
  <2>1. owner'[p] = owner[p] /\ owner[p].pc \notin Working
    BY <1>1, <1>2, <1>5, <1>8 DEF IInv, Shape, Attached
  <2> QED
    BY <2>1 DEF Works, Working
<1> QED
  BY <1>2, <1>3, <1>6, <1>7, <1>8, QuietKept

LEMMA ClaimedKeeps ==
    ASSUME IInv, Shape', NEW o \in Owners, NEW a \in DOMAIN rows, rows[a].state = "ready",
           NEW kind \in {"cron", "queue"}, Claimed(o, kind, a)
    PROVE  IInv'
<1> DEFINE r == [rows[a] EXCEPT !.state = "recovering", !.inv = o, !.lease = TRUE]
           w == Fresh(kind, "start", a)
<1>1. /\ rows \in Seq(Row) /\ rows[a] \in Row /\ owner \in [Owners -> Owner]
      /\ Sound(tried, coin, rows[a])
  BY DEF IInv, Shape, TypeOK, Progress
<1>2. /\ r.inv = o /\ r.next = rows[a].next /\ r.current = rows[a].current
      /\ r.domain = rows[a].domain
  BY <1>1 DEF Row
<1>3. rows' = [rows EXCEPT ![a] = r] /\ owner' = [owner EXCEPT ![o] = w] /\ Quietly
  BY <1>1 DEF Claimed, Row, Goes, Quietly
<1>4. w.pc = "start"
  BY DEF Fresh
<1> HIDE DEF r, w
<1>5. Sound(tried', coin', r)
  BY <1>1, <1>2, <1>3 DEF Sound, Quietly
<1>6. \A b \in DOMAIN rows' : b \in DOMAIN rows /\ (rows'[b] = rows[b] \/ rows'[b] = r)
  BY <1>1, <1>3
<1>7. Works(o)' /\ owner'[o].pc # "fetch"
  BY <1>1, <1>3, <1>4 DEF Works
<1>8. ASSUME NEW p \in Owners, p # o PROVE Still(p)
  <2>1. owner'[p] = owner[p]
    BY <1>1, <1>3, <1>8
  <2>2. Holds(p)' => Holds(p)
    BY <1>1, <1>2, <1>3, <1>8, <2>1 DEF Holds, Mine
  <2> QED
    BY <1>3, <2>1, <2>2 DEF Still, Quietly
<1> QED
  BY <1>3, <1>5, <1>6, <1>7, <1>8, QuietKept

LEMMA ClaimKeeps ==
    ASSUME IInv, Shape', NEW o \in Owners, ClaimByCron(o) \/ ClaimByQueue(o)
    PROVE  IInv'
<1>1. CASE ClaimByCron(o)
  BY <1>1, ClaimedKeeps DEF ClaimByCron
<1>2. CASE ClaimByQueue(o)
  BY <1>2, ClaimedKeeps DEF ClaimByQueue, IInv, Shape, Attached
<1> QED
  BY <1>1, <1>2

(* Steps of rows' leases, events and readings.                             *)
LEMMA AllStill ==
    ASSUME IInv, UNCHANGED <<coin, tried, owner>>, \A p \in Owners : Holds(p)' => Holds(p)
    PROVE  \A p \in Owners : Still(p)
BY DEF Still

LEMMA SeesKeeps ==
    ASSUME IInv, Shape', NEW t \in Takers, NEW l, Sees(t, l),
           l.stage = "read" => l.row.state \in Held /\ Sound(tried, coin, l.row)
    PROVE  IInv'
<1>1. /\ UNCHANGED <<rows, coin, event, owner, queue, tried, tailed, left, unread, faults>>
      /\ look' = [look EXCEPT ![t] = l] /\ look \in [Takers -> Seen]
  BY DEF Sees, IInv, Shape, TypeOK
<1>2. \A u \in Takers : look'[u] = look[u] \/ look'[u] = l
  BY <1>1
<1>3. Grows
  BY <1>1 DEF Grows, IInv, Shape, TypeOK
<1>4. \A p \in Owners : Still(p)
  BY <1>1, AllStill DEF Holds, Mine
<1>5. Tries'
  BY <1>1, TriesKept
<1> QED
  BY <1>1, <1>2, <1>3, <1>4, <1>5, ProgressKept DEF IInv, Progress

LEMMA LookKeeps ==
    ASSUME IInv, Shape', NEW t \in Takers, Inspect(t) \/ Load(t) \/ Requeue(t)
    PROVE  IInv'
<1>1. \A a \in DOMAIN rows : Sound(tried, coin, Read(a).row) /\ Read(a).row = rows[a]
  BY DEF IInv, Progress, Read
<1>2. CASE Inspect(t)
  BY <1>2, SeesKeeps DEF Inspect
<1>3. CASE Load(t)
  BY <1>1, <1>3, SeesKeeps DEF Load, NoLook
<1>4. CASE Requeue(t)
  BY <1>1, <1>4, SeesKeeps DEF Requeue, Lapsed, Held
<1> QED
  BY <1>2, <1>3, <1>4

(* A lease that lapses leaves its row where it is.                         *)
LEMMA LeaseKept ==
    ASSUME IInv, NEW a \in DOMAIN rows, LeaseLapses(a), UNCHANGED <<coin, tried>>
    PROVE  /\ \A b \in DOMAIN rows' : \/ b \in DOMAIN rows /\ rows'[b] = rows[b]
                                      \/ Sound(tried', coin', rows'[b])
           /\ DOMAIN rows' = DOMAIN rows
           /\ \A b \in DOMAIN rows : rows'[b].inv = rows[b].inv /\ rows'[b].state = rows[b].state
<1> DEFINE r == [rows[a] EXCEPT !.lease = FALSE]
<1>1. rows \in Seq(Row) /\ rows[a] \in Row /\ Sound(tried, coin, rows[a])
  BY DEF IInv, Shape, TypeOK, Progress
<1>2. rows' = [rows EXCEPT ![a] = r]
  BY <1>1 DEF LeaseLapses, Row
<1>3. /\ r.inv = rows[a].inv /\ r.state = rows[a].state /\ r.next = rows[a].next
      /\ r.current = rows[a].current /\ r.domain = rows[a].domain
  BY <1>1 DEF Row
<1> HIDE DEF r
<1>4. Sound(tried', coin', r)
  BY <1>1, <1>3 DEF Sound
<1> QED
  BY <1>1, <1>2, <1>3, <1>4

LEMMA LateStill ==
    ASSUME IInv, NEW i, owner' = [owner EXCEPT ![i].late = TRUE], UNCHANGED <<coin, tried>>,
           DOMAIN rows' = DOMAIN rows,
           \A b \in DOMAIN rows : rows'[b].inv = rows[b].inv /\ rows'[b].state = rows[b].state,
           NEW p \in Owners
    PROVE  Still(p) \/ (Works(p)' /\ owner'[p].pc # "fetch")
<1>1. owner[p] \in Owner /\ owner \in [Owners -> Owner]
  BY DEF IInv, Shape, TypeOK
<1>2. /\ owner'[p].pc = owner[p].pc /\ owner'[p].coin = owner[p].coin
      /\ owner'[p].try = owner[p].try /\ owner'[p].attempt = owner[p].attempt
  BY <1>1 DEF Owner
<1>3. CASE owner[p].pc \in Working
  <2>1. owner[p].attempt \in DOMAIN rows
    BY <1>3 DEF IInv, Shape, Attached
  <2>2. Holds(p)' => Holds(p)
    BY <1>2, <2>1 DEF Holds, Mine
  <2> QED
    BY <1>2, <2>2 DEF Still
<1>4. CASE owner[p].pc \notin Working
  BY <1>2, <1>4 DEF Works, Working
<1> QED
  BY <1>3, <1>4

LEMMA EventKeeps ==
    ASSUME IInv, Shape', NEW o \in Owners, SilentDead(o) \/ Reap(o)
    PROVE  IInv'
<1>1. UNCHANGED <<rows, coin, owner, queue, look, tried, tailed, left, unread, faults>>
  BY DEF SilentDead, Reap
<1>2. \A p \in Owners : Still(p)
  BY <1>1, AllStill DEF Holds, Mine
<1> QED
  BY <1>1, <1>2, QuietKept DEF Quietly

LEMMA SilentKeeps ==
    ASSUME IInv, Shape', NEW o \in Owners, Silent(o), Quietly
    PROVE  IInv'
<1>1. UNCHANGED rows /\ (UNCHANGED owner \/ owner' = [owner EXCEPT ![o].late = TRUE])
  BY DEF Silent
<1>2. CASE UNCHANGED owner
  <2>1. \A p \in Owners : Still(p)
    BY <1>1, <1>2, AllStill DEF Holds, Mine, Quietly
  <2> QED
    BY <1>1, <2>1, QuietKept
<1>3. CASE owner' = [owner EXCEPT ![o].late = TRUE]
  <2>1. \A p \in Owners : Still(p) \/ (Works(p)' /\ owner'[p].pc # "fetch")
    BY <1>1, <1>3, LateStill DEF Quietly
  <2> QED
    BY <1>1, <2>1, QuietKept
<1> QED
  BY <1>1, <1>2, <1>3

LEMMA LapsesKeeps ==
    ASSUME IInv, Shape', NEW a \in DOMAIN rows, Quietly,
           LapsesDead(a) \/ Lapses(a)
    PROVE  IInv'
<1>1. LeaseLapses(a) /\ UNCHANGED <<coin, tried>>
  BY DEF LapsesDead, Lapses, Quietly
<1>2. /\ \A b \in DOMAIN rows' : \/ b \in DOMAIN rows /\ rows'[b] = rows[b]
                                 \/ Sound(tried', coin', rows'[b])
      /\ DOMAIN rows' = DOMAIN rows
      /\ \A b \in DOMAIN rows : rows'[b].inv = rows[b].inv /\ rows'[b].state = rows[b].state
  BY <1>1, LeaseKept
<1>3. CASE LapsesDead(a)
  <2>1. UNCHANGED owner
    BY <1>3 DEF LapsesDead
  <2>2. ASSUME NEW p \in Owners PROVE Still(p) \/ (Works(p)' /\ owner'[p].pc # "fetch")
    <3>1. CASE owner[p].pc \in Working
      <4>1. owner[p].attempt \in DOMAIN rows
        BY <3>1 DEF IInv, Shape, Attached
      <4> QED
        BY <1>1, <1>2, <2>1, <4>1 DEF Still, Holds, Mine
    <3>2. CASE owner[p].pc \notin Working
      BY <2>1, <3>2 DEF Works, Working
    <3> QED
      BY <3>1, <3>2
  <2> QED
    BY <1>2, <2>2, QuietKept
<1>4. CASE Lapses(a)
  <2>1. owner' = [owner EXCEPT ![rows[a].inv].late = TRUE]
    BY <1>4 DEF Lapses, Outlived
  <2>2. \A p \in Owners : Still(p) \/ (Works(p)' /\ owner'[p].pc # "fetch")
    BY <1>1, <1>2, <2>1, LateStill
  <2> QED
    BY <1>2, <2>2, QuietKept
<1> QED
  BY <1>3, <1>4

LEMMA ClearedCoins ==
    ASSUME Shape, NEW r \in Row
    PROVE  /\ \A c \in Coins : /\ Cleared(r)[c].last = coin[c].last
                               /\ Cleared(r)[c].published = coin[c].published
                               /\ ~coin[c].pending => ~Cleared(r)[c].pending
           /\ r.current # 0 /\ r.domain.n = coin[r.current].last => ~Cleared(r)[r.current].pending
<1>1. coin \in [Coins -> [last : Nat, pending : BOOLEAN, published : SUBSET Nat]]
  BY DEF Shape, TypeOK
<1>2. r.current # 0 => r.current \in Coins
  BY DEF Row
<1> DEFINE d == [coin EXCEPT ![r.current].pending = FALSE]
<1>3. r.current # 0 => /\ \A c \in Coins : /\ d[c].last = coin[c].last
                                           /\ d[c].published = coin[c].published
                                           /\ ~coin[c].pending => ~d[c].pending
                       /\ ~d[r.current].pending
  BY <1>1, <1>2
<1>4. Cleared(r) = IF r.current # 0 /\ coin[r.current].pending /\ coin[r.current].last = r.domain.n
                   THEN d ELSE coin
  BY DEF Cleared
<1> HIDE DEF d
<1> QED
  BY <1>2, <1>3, <1>4

LEMMA PrepareKeeps == ASSUME IInv, Shape', NEW t \in Takers, Prepare(t) PROVE IInv'
<1> DEFINE a == look[t].attempt
           was == look[t].row
           r == Prepared(was, rows[a].domain)
           s == [rows EXCEPT ![a] = Left]
<1>1. /\ rows \in Seq(Row) /\ a \in DOMAIN rows /\ rows[a] \in Row /\ was \in Row
      /\ was.state \in Held /\ Sound(tried, coin, was)
  BY DEF Prepare, IInv, Shape, TypeOK, Attached, Progress, Seen, NoLook
<1>2. /\ look' = [look EXCEPT ![t] = NoLook] /\ look \in [Takers -> Seen]
      /\ UNCHANGED <<owner, tried, tailed>>
  BY DEF Prepare, IInv, Shape, TypeOK
<1>3. \A u \in Takers : look'[u] = look[u] \/ look'[u].stage # "read"
  BY <1>2 DEF NoLook
<1>4. Tries'
  BY <1>2, TriesKept
<1>5. CASE Takeable(a, was)
  <2>1. /\ rows' = Append(s, r) /\ coin' = Cleared(was)
        /\ left' = left \cup UnderWay(was) \cup UnderWay(rows[a])
        /\ unread' = unread \cup (UnderWay(rows[a]) \ UnderWay(was))
        /\ rows[a].state \in Held
    BY <1>5 DEF Prepare, Takeable
  <2>2. a = Len(rows) /\ s \in Seq(Row) /\ Len(s) = Len(rows) /\ DOMAIN s = DOMAIN rows
    BY <1>1, <2>1, LeftRow, Replaced DEF IInv, Shape, Chain, Held
  <2>3. s[a] = Left /\ \A b \in DOMAIN rows : b # a => s[b] = rows[b]
    BY <1>1
  <2>4. /\ r.inv = 0 /\ r.state = "ready" /\ r.current = 0
        /\ r.next = IF was.current # 0 THEN was.current ELSE was.next
    BY DEF Prepared
  <2>5. rows[a].domain \in Attempt
    BY <1>1 DEF Row
  <2>6. r \in Row
    BY <1>1, <2>5, PreparedRow DEF Standing
  <2> HIDE DEF r, s, a, was
  <2>7. /\ Len(rows') = Len(rows) + 1 /\ rows'[Len(rows) + 1] = r
        /\ \A b \in DOMAIN rows : rows'[b] = s[b]
        /\ DOMAIN rows' = 1 .. (Len(rows) + 1) /\ DOMAIN rows = 1 .. Len(rows)
    BY <1>1, <2>1, <2>2, <2>6, AppendProperties
  <2>8. Sound(tried', coin', r)
    BY <1>1, <1>2, <2>4 DEF Sound, Held
  <2>9. Sound(tried', coin', Left)
    BY DEF Sound, Left
  <2>10. \A b \in DOMAIN rows' : \/ b \in DOMAIN rows /\ rows'[b] = rows[b]
                                 \/ Sound(tried', coin', rows'[b])
    <3>1. ASSUME NEW b \in DOMAIN rows', b \notin DOMAIN rows PROVE rows'[b] = r
      <4>1. Len(rows) \in Nat
        BY <1>1
      <4>2. b = Len(rows) + 1
        BY <2>7, <3>1, <4>1
      <4> QED
        BY <2>7, <4>2
    <3> QED
      BY <2>3, <2>7, <2>8, <2>9, <3>1
  <2>11. /\ \A c \in Coins : /\ coin'[c].last = coin[c].last
                             /\ coin'[c].published = coin[c].published
                             /\ ~coin[c].pending => ~coin'[c].pending
         /\ was.current # 0 /\ was.domain.n = coin[was.current].last => ~coin'[was.current].pending
    BY <1>1, <2>1, ClearedCoins DEF IInv
  <2>12. Grows
    <3>1. \A c \in Coins : coin[c].last \in Nat /\ coin[c].last <= coin'[c].last
      BY <2>11, CoinNat DEF IInv
    <3> QED
      BY <1>2, <2>11, <3>1 DEF Grows
  <2>13. ASSUME NEW p \in Owners PROVE Works(p)'
    <3>1. owner[p].pc \in Working => ~Holds(p)'
      <4>1. ASSUME owner[p].pc \in Working, Holds(p)' PROVE FALSE
        <5>1. owner[p].attempt \in DOMAIN rows
          BY <4>1 DEF IInv, Shape, Attached
        <5>2. rows'[owner[p].attempt].state \in Held
          BY <1>2, <4>1 DEF Holds, Mine
        <5>3. owner[p].attempt # a
          BY <2>3, <2>7, <5>1, <5>2 DEF Left, Held
        <5>4. rows[owner[p].attempt].state \in Held
          BY <2>3, <2>7, <5>1, <5>2, <5>3
        <5>5. owner[p].attempt < Len(rows)
          BY <2>2, <2>7, <5>1, <5>3, <1>1
        <5> QED
          BY <5>1, <5>4, <5>5 DEF IInv, Shape, Chain, Held
      <4> QED
        BY <4>1
    <3>2. owner[p].pc = "fetch" => owner[p].coin \in Coins
      <4>1. owner[p] \in Owner
        BY DEF IInv, Shape, TypeOK
      <4> QED
        BY <4>1 DEF IInv, Shape, Attached, Owner
    <3>3. owner'[p].pc = "fetch" => owner'[p].try <= coin'[owner'[p].coin].last
      BY <1>2, <2>11, <3>2 DEF IInv, Progress, Works
    <3>4. owner'[p].pc = "tail" => Behind(tried', 0)
      BY <1>2 DEF IInv, Progress, Works
    <3> QED
      BY <1>2, <3>1, <3>3, <3>4 DEF Works, Working
  <2>14. was.current # 0 => Fenceless(coin', was.domain)
    <3>1. ASSUME was.current # 0
          PROVE  /\ was.current \in Coins /\ was.domain.coin = was.current /\ was.domain.n \in Nat
                 /\ was.domain.n <= coin[was.current].last
      BY <1>1, <3>1 DEF Sound, Row, Attempt
    <3>2. ASSUME was.current # 0 PROVE coin'[was.current].last = coin[was.current].last
      BY <2>11, <3>1, <3>2
    <3> QED
      BY <2>11, <3>1, <3>2 DEF Fenceless
  <2>15. \A x \in left' \ unread' : x \in left \ unread \/ Fenceless(coin', x)
    <3>1. \A x \in left' \ unread' : x \in left \ unread \/ x \in UnderWay(was)
      BY <2>1
    <3> QED
      BY <2>14, <3>1 DEF UnderWay
  <2>17. \A x \in left' : x \in left \/ x.coin \in Coins
    <3>1. \A r1 \in Row : r1.current # 0 => r1.current \in Coins
      BY DEF Row
    <3>2. rows[a] \in Row /\ Sound(tried, coin, rows[a])
      BY <1>1 DEF IInv, Progress
    <3>3. \A x \in UnderWay(was) \cup UnderWay(rows[a]) : x.coin \in Coins
      BY <1>1, <3>1, <3>2 DEF UnderWay, Sound
    <3> QED
      BY <2>1, <3>3
  <2>16. tailed' = Coins /\ \A c \in Coins : coin'[c].published = coin[c].published
    BY <1>2, <2>11 DEF IInv, Progress
  <2> QED
    BY <1>3, <1>4, <2>10, <2>12, <2>13, <2>15, <2>16, <2>17, ProgressKept
<1>6. CASE ~Takeable(a, was)
  <2>1. UNCHANGED <<rows, coin, left, unread>>
    BY <1>6 DEF Prepare
  <2>2. Grows
    BY <1>2, <2>1 DEF Grows, IInv, Shape, TypeOK
  <2>3. \A p \in Owners : Still(p)
    BY <1>2, <2>1, AllStill DEF Holds, Mine
  <2> QED
    BY <1>2, <1>3, <1>4, <2>1, <2>2, <2>3, ProgressKept DEF IInv, Progress
<1> QED
  BY <1>5, <1>6

LEMMA FaultKeeps == ASSUME IInv, Shape', Fault PROVE IInv'
<1>1. UNCHANGED <<queue, look, tried, tailed, left, unread>>
  BY DEF Fault
<1>2. ASSUME NEW o \in Owners, BeginUnanswered(o) PROVE IInv'
  BY <1>1, <1>2, BeginUnansweredKeeps
<1>3. ASSUME NEW o \in Owners, Silent(o) \/ Crash(o) \/ Fails(o) \/ TailFails(o) \/ Defer(o) PROVE IInv'
  <2>1. Quietly
    BY <1>1, <1>3 DEF Silent, Crash, Fails, TailFails, Defer, Quietly
  <2> QED
    BY <1>3, <2>1, SilentKeeps, CrashKeeps, FailsKeeps, TailFailsKeeps, DeferKeeps
<1>4. ASSUME NEW a \in DOMAIN rows, Lapses(a) PROVE IInv'
  <2>1. Quietly
    BY <1>1, <1>4 DEF Lapses, Quietly
  <2> QED
    BY <1>4, <2>1, LapsesKeeps
<1> QED
  BY <1>2, <1>3, <1>4 DEF Fault

LEMMA NextKeeps == ASSUME IInv, [Next]_vars PROVE IInv'
<1>1. Shape'
  BY NextShape DEF IInv
<1>2. CASE Begin
  BY <1>1, <1>2, BeginKeeps
<1>3. ASSUME NEW o \in Owners, Step(o) PROVE IInv'
  <2>1. CASE Expires(o)
    <3>1. Fails(o) /\ Quietly
      BY <2>1 DEF Expires, Fails, Quietly
    <3> QED
      BY <1>1, <3>1, FailsKeeps
  <2> QED
    BY <1>1, <1>3, <2>1, StartKeeps, ResumeKeeps, BeginCoinKeeps, SettleKeeps, StopKeeps, MarkKeeps,
       HandOffKeeps, RunTailKeeps, CloseKeeps, EndEventKeeps, SendKeeps DEF Step
<1>4. ASSUME NEW o \in Owners, ClaimByCron(o) \/ ClaimByQueue(o) PROVE IInv'
  BY <1>1, <1>4, ClaimKeeps
<1>5. ASSUME NEW o \in Owners, SilentDead(o) \/ Reap(o) PROVE IInv'
  BY <1>1, <1>5, EventKeeps
<1>6. ASSUME NEW a \in DOMAIN rows, LapsesDead(a) PROVE IInv'
  BY <1>1, <1>6, LapsesKeeps DEF LapsesDead, Quietly
<1>7. ASSUME NEW t \in Takers, Inspect(t) \/ Load(t) \/ Requeue(t) PROVE IInv'
  BY <1>1, <1>7, LookKeeps
<1>8. ASSUME NEW t \in Takers, Prepare(t) PROVE IInv'
  BY <1>1, <1>8, PrepareKeeps
<1>9. CASE Fault
  BY <1>1, <1>9, FaultKeeps
<1>10. CASE UNCHANGED vars
  <2>1. Quietly /\ UNCHANGED <<rows, owner>>
    BY <1>10 DEF vars, Quietly
  <2>2. \A p \in Owners : Still(p)
    BY <2>1, AllStill DEF Holds, Mine, Quietly
  <2> QED
    BY <1>1, <2>1, <2>2, QuietKept
<1> QED
  BY <1>2, <1>3, <1>4, <1>5, <1>6, <1>7, <1>8, <1>9, <1>10 DEF Next

LEMMA InitKeeps == Init => IInv
<1> SUFFICES ASSUME Init PROVE IInv
  OBVIOUS
<1>1. Shape
  BY InitShape
<1>2. \A o \in Owners : owner[o].pc \in {"begin", "none"}
  BY DEF Init, Fresh
<1>3. Tries /\ \A o \in Owners : Works(o)
  BY <1>2 DEF Tries, Works
<1>4. \A t \in Takers : look[t].stage = "none"
  BY DEF Init, NoLook
<1>5. rows = <<>> /\ DOMAIN rows = {} /\ tailed = Coins /\ left = {} /\ unread = {}
      /\ \A c \in Coins : coin[c].published = {}
  BY DEF Init
<1> QED
  BY <1>1, <1>3, <1>4, <1>5 DEF IInv, Progress

(* Of however many invocations, each taking on what a dead or slow one     *)
(* left and acting on readings however old: no coin before the checkpoint's *)
(* frontier is without an outcome, and the consumers of the cohort run     *)
(* only when every coin has one (completedItems, next_index, and the tail's *)
(* guard on an exhausted queue).                                           *)
THEOREM EveryCoinHasItsTurn == Spec => []NoCoinSkipped
<1>1. IInv => NoCoinSkipped
  <2> SUFFICES ASSUME IInv PROVE NoCoinSkipped
    OBVIOUS
  <2>1. ASSUME rows # <<>>, NEW c \in 1 .. Done(rows[Len(rows)]) PROVE c \in tried
    <3> DEFINE r == rows[Len(rows)]
    <3>1. r \in Row /\ Len(rows) \in DOMAIN rows
      BY <2>1 DEF IInv, Shape, TypeOK
    <3>2. r.next \in 0 .. CoinCount /\ Sound(tried, coin, r)
      BY <3>1 DEF IInv, Progress, Row
    <3>3. r.state # "platform_abandoned"
      BY <3>1 DEF IInv, Shape, TypeOK, Chain
    <3>4. Behind(tried, r.next)
      BY <3>2, <3>3 DEF Sound
    <3> HIDE DEF r
    <3>5. c \in 1 .. Done(r)
      BY <2>1 DEF r
    <3> QED
      BY <3>2, <3>4, <3>5, CountAssumption DEF Behind, Done, Exhausted
  <2> QED
    BY <2>1 DEF IInv, Progress, NoCoinSkipped
<1> QED
  BY InitKeeps, NextKeeps, <1>1, PTL DEF Spec

(* Publication is settling, of the pending attempt.                        *)
LEMMA OnlySettling ==
    ASSUME Shape, Next, NEW x, x.coin \in Coins, x.n \in coin'[x.coin].published \ coin[x.coin].published
    PROVE  coin[x.coin].pending /\ x.n = coin[x.coin].last
<1>1. coin \in [Coins -> [last : Nat, pending : BOOLEAN, published : SUBSET Nat]]
  BY DEF Shape, TypeOK
<1>2. CASE UNCHANGED coin
  BY <1>2
<1>3. ASSUME NEW o \in Owners, BeginCoin(o) \/ BeginUnanswered(o)
      PROVE  coin'[x.coin].published = coin[x.coin].published
  <2> DEFINE c == owner[o].coin
  <2>1. \/ UNCHANGED coin
        \/ coin' = [coin EXCEPT ![c].last = coin[c].last + 1, ![c].pending = TRUE]
    BY <1>3 DEF BeginCoin, BeginUnanswered
  <2> HIDE DEF c
  <2>2. CASE UNCHANGED coin
    BY <2>2
  <2>3. CASE coin' = [coin EXCEPT ![c].last = coin[c].last + 1, ![c].pending = TRUE]
    <3>1. CASE c = x.coin
      BY <1>1, <2>3, <3>1
    <3>2. CASE c # x.coin
      BY <1>1, <2>3, <3>2
    <3> QED
      BY <3>1, <3>2
  <2> QED
    BY <2>1, <2>2, <2>3
<1>4. ASSUME NEW o \in Owners, Settle(o) PROVE coin[x.coin].pending /\ x.n = coin[x.coin].last
  <2>1. Pending(o) /\ owner[o].coin = x.coin /\ x.n = owner[o].try
    <3> DEFINE c == owner[o].coin
               q == [coin EXCEPT ![c].pending = FALSE,
                                 ![c].published = coin[c].published \cup {owner[o].try}]
    <3>1. (Pending(o) /\ coin' \in {[coin EXCEPT ![c].pending = FALSE], q}) \/ coin' = coin
      BY <1>4 DEF Settle
    <3>2. [coin EXCEPT ![c].pending = FALSE][x.coin].published = coin[x.coin].published
      BY <1>1
    <3>3. Pending(o) /\ coin' = q
      BY <1>4, <3>1, <3>2
    <3> HIDE DEF c
    <3>4. c # x.coin => coin'[x.coin] = coin[x.coin]
      BY <1>1, <3>3
    <3>5. c = x.coin
      BY <1>4, <3>4
    <3>6. coin'[x.coin].published = coin[x.coin].published \cup {owner[o].try}
      BY <1>1, <3>3, <3>5
    <3> QED
      BY <1>4, <3>3, <3>5, <3>6 DEF c
  <2> QED
    BY <2>1 DEF Pending
<1>5. ASSUME NEW t \in Takers, Prepare(t)
      PROVE  coin'[x.coin].published = coin[x.coin].published
  <2> DEFINE r == look[t].row
  <2>1. r \in Row
    BY <1>5 DEF Prepare, Shape, TypeOK, Seen, NoLook
  <2>2. UNCHANGED coin \/ coin' = Cleared(r)
    BY <1>5 DEF Prepare
  <2> HIDE DEF r
  <2>3. Cleared(r)[x.coin].published = coin[x.coin].published
    BY <1>1, <2>1, ClearedCoins
  <2> QED
    BY <2>2, <2>3
<1>6. \/ UNCHANGED coin
      \/ \E o \in Owners : BeginCoin(o) \/ BeginUnanswered(o) \/ Settle(o)
      \/ \E t \in Takers : Prepare(t)
  BY ZenonT(40) DEF Next, Begin, Step, Start, Resume, Stop, Mark, HandOff, RunTail, Close, EndEvent, Send,
         Expires, ClaimByCron, ClaimByQueue, Claimed, SilentDead, Reap, LapsesDead, Inspect, Load,
         Requeue, Sees, Fault, Silent, Crash, Fails, TailFails, Defer, Lapses, DurableUnchanged
<1> QED
  BY <1>2, <1>3, <1>4, <1>5, <1>6

(* Of the attempts at a coin under way when a takeover gave their owners   *)
(* up, one that the takeover had read publishes nothing after that, though *)
(* its owner may be alive and slow (the pending attempt cleared in the     *)
(* takeover's batch); one begun between that reading and the batch         *)
(* publishes at most until a successor begins the coin (the finalize       *)
(* statements, which name the coin's last attempt).                        *)
THEOREM NothingPublishedAfterwards == Spec => AbandonedIsFenced
<1> DEFINE Fences == \A a \in left : a.n \in coin'[a.coin].published \ coin[a.coin].published
                                      => a \in unread /\ a.n = coin[a.coin].last
<1>1. IInv /\ [Next]_vars => [Fences]_vars
  <2> SUFFICES ASSUME IInv, Next, NEW a \in left,
                      a.n \in coin'[a.coin].published \ coin[a.coin].published
               PROVE  a \in unread /\ a.n = coin[a.coin].last
    BY DEF IInv
  <2>1. coin[a.coin].pending /\ a.n = coin[a.coin].last
    BY OnlySettling DEF IInv, Progress
  <2>2. a \notin unread => Fenceless(coin, a)
    BY DEF IInv, Progress
  <2> QED
    BY <2>1, <2>2 DEF Fenceless
<1> QED
  BY InitKeeps, NextKeeps, <1>1, PTL DEF Spec, AbandonedIsFenced
=============================================================================
