----------------------- MODULE TelegramDeliveryProofs -----------------------
(***************************************************************************)
(* Proofs about the Telegram outbox for any number of jobs, chats, chunks, *)
(* drains and fan-outs, and any limits, delays and failures.               *)
(*                                                                         *)
(* A claim does not last: it expires under a drain that is still sending,  *)
(* and /forget deletes the row, which a fan-out may write again.  What     *)
(* keeps a message from being sent twice is what a drain is still SURE to  *)
(* be the only one to send.  Of a chat that is there that is the whole of  *)
(* its page, because each row is still the drain's or is unknown for good; *)
(* of a chat that has left, only what passed the gate before.              *)
(*                                                                         *)
(* What keeps a message's chunks in order is what a drain knows of those   *)
(* below one that it holds: it holds them too, or they arrived, or the     *)
(* chat's queue has failed, or they are in flight.                         *)
(***************************************************************************)
EXTENDS TelegramDelivery, TLAPS

Live(k) == chat[ChatOf(k)] # "gone"

Flying(w, k) == w.stage = "flight" /\ k \in DOMAIN w.wave
Sure(w, k) ==
    \/ k \in w.page /\ (w.stage # "gate" \/ Live(k))
    \/ Flying(w, k)

Shape(d, w) ==
    /\ w.stage \in {"idle", "claim", "siblings"} => w.page = {}
    /\ \A k \in DOMAIN w.wave :
          /\ w.stage \in {"flight", "backoff"}
          /\ w.stage = "flight" => k \notin w.page /\ (w.wave[k] \in Answers => k \in w.crossed)
          /\ w.stage = "backoff" => ~Mine(d, k)
Shapely == \A d \in Drains : Shape(d, drain[d])

(* What is sure is sure to one drain, and settled by nobody else.          *)
Alone == \A d, e \in Drains : \A k \in Rows : Sure(drain[d], k) /\ Sure(drain[e], k) => d = e
Kept ==
    \A d \in Drains : \A k \in Rows :
        Sure(drain[d], k) /\ Live(k) => Mine(d, k) \/ row[k].state = "unknown"

(* Of what is in a page nothing was accepted, of what is in flight what    *)
(* the answers say.                                                        *)
Heard(w, k) ==
    /\ k \in w.page => accepted[k] = 0
    /\ Flying(w, k) /\ w.wave[k] = "ok" => accepted[k] = 1
    /\ Flying(w, k) /\ w.wave[k] \notin {"ok", "ambiguous"} => accepted[k] = 0
Unsent == \A d \in Drains : \A k \in Rows : Sure(drain[d], k) => Heard(drain[d], k)

Tells(k) ==
    /\ accepted[k] \in {0, 1}
    /\ row[k].state = "sent" => accepted[k] = 1
    /\ accepted[k] = 1 /\ Live(k) => row[k].state \in {"sending", "sent", "unknown"}
Honest == \A k \in Rows : Tells(k)

(* Of two rows with one body, planned within the window, one at most is,   *)
(* or was, to be sent.                                                     *)
Twins(k, l) ==
    /\ {JobOf(k), JobOf(l)} \subseteq SameBody /\ JobOf(k) # JobOf(l)
    /\ ChatOf(k) = ChatOf(l) /\ SeqOf(k) = SeqOf(l)
Near(k, l) == row[k].created - row[l].created \in -DuplicateWindow .. DuplicateWindow
OneOfTwins ==
    \A k, l \in Rows :
        Twins(k, l) /\ Live(k) => ~(row[k].state \in Prior /\ row[l].state \in Prior /\ Near(k, l))

Once == Shapely /\ Alone /\ Kept /\ Unsent /\ Honest
IInv == TypeOK /\ Once /\ OneOfTwins

-----------------------------------------------------------------------------
(* Values of the right types.                                              *)
LEMMA NumbersAreNatural ==
    /\ Chunks \in Nat /\ ClaimTtl \in Nat /\ JobTtl \in Nat /\ PageSize \in Nat
    /\ BatchSize \in Nat /\ MaxAttempts \in Nat /\ FloodChats \in Nat
    /\ Backoff \in Nat /\ RetryAfter \in Nat /\ SnoozeFor \in Nat /\ MaxFaults \in Nat
    /\ DuplicateWindow \in Nat
BY NumberAssumption

LEMMA RowFields ==
    ASSUME NEW k \in Rows
    PROVE  JobOf(k) \in Jobs /\ ChatOf(k) \in Chats /\ SeqOf(k) \in Seqs
BY DEF Rows, JobOf, ChatOf, SeqOf

LEMMA NoRowIsRow == NoRow \in Row /\ NoRow.owner = None /\ NoRow.state = "absent"
BY DEF NoRow, Row

LEMMA EndsIsRow ==
    ASSUME TypeOK, NEW k \in Rows, NEW s \in Terminal
    PROVE  /\ Ends(k, s) \in Row /\ Ends(k, s).state = s /\ Ends(k, s).owner = None
           /\ Ends(k, s).created = row[k].created
<1> DEFINE ended == [NoRow EXCEPT !.state = s]
<1>1. ended \in Row /\ ended.state = s /\ ended.owner = None
  BY NoRowIsRow DEF Row
<1>2. Ends(k, s) = [ended EXCEPT !.created = row[k].created]
  BY DEF Ends
<1>3. row[k].created \in Nat
  BY DEF TypeOK, Row
<1> HIDE DEF ended
<1> QED BY <1>1, <1>2, <1>3 DEF Row

LEMMA RetriesIsRow ==
    ASSUME TypeOK, NEW k \in Rows, NEW delay \in Nat, NEW tried \in Nat
    PROVE  /\ Retries(k, delay, tried) \in Row
           /\ Retries(k, delay, tried).state = "retry" /\ Retries(k, delay, tried).owner = None
           /\ Retries(k, delay, tried).created = row[k].created
<1> DEFINE r1 == [NoRow EXCEPT !.state = "retry"]
           r2 == [r1 EXCEPT !.next = now + delay]
           r3 == [r2 EXCEPT !.created = row[k].created]
<1>1. r1 \in Row /\ r1.state = "retry" /\ r1.owner = None
  BY NoRowIsRow DEF Row, Open, Queued
<1>2. Retries(k, delay, tried) = [r3 EXCEPT !.attempts = row[k].attempts + tried]
  BY DEF Retries
<1>3. now + delay \in Nat /\ row[k].created \in Nat /\ row[k].attempts + tried \in Nat
  BY DEF TypeOK, Row
<1> HIDE DEF r1
<1>4. r2 \in Row /\ r2.state = "retry" /\ r2.owner = None
  BY <1>1, <1>3 DEF Row
<1> HIDE DEF r2
<1>5. r3 \in Row /\ r3.state = "retry" /\ r3.owner = None /\ r3.created = row[k].created
  BY <1>3, <1>4 DEF Row
<1> HIDE DEF r3
<1> QED BY <1>2, <1>3, <1>5 DEF Row

LEMMA ClaimedRowIsRow ==
    ASSUME TypeOK, NEW k \in Rows, NEW d \in Drains
    PROVE  /\ ClaimedRow(d, k) \in Row /\ ClaimedRow(d, k).state = "sending" /\ ClaimedRow(d, k).owner = d
           /\ ClaimedRow(d, k).created = row[k].created
<1> DEFINE r1 == [row[k] EXCEPT !.state = "sending"]
           r2 == [r1 EXCEPT !.owner = d]
<1>1. r1 \in Row /\ r1.state = "sending" /\ r1.created = row[k].created
  BY DEF TypeOK, Row, Open
<1>2. ClaimedRow(d, k) = [r2 EXCEPT !.until = now + ClaimTtl]
  BY DEF ClaimedRow
<1>3. now + ClaimTtl \in Nat
  BY NumbersAreNatural DEF TypeOK
<1> HIDE DEF r1
<1>4. r2 \in Row /\ r2.state = "sending" /\ r2.owner = d /\ r2.created = row[k].created
  BY <1>1 DEF Row
<1> HIDE DEF r2
<1> QED BY <1>2, <1>3, <1>4 DEF Row

LEMMA InsertedIsRow ==
    ASSUME TypeOK, NEW S, NEW t \in Nat
    PROVE  /\ Inserted(S, t) \in [Rows -> Row]
           /\ \A k \in Rows :
                \/ Inserted(S, t)[k] = row[k]
                \/ /\ k \in S /\ row[k].state = "absent" /\ Inserted(S, t)[k].owner = None
                   /\ Inserted(S, t)[k].state = IF Duplicate(k, t) THEN "suppressed" ELSE "pending"
                   /\ Inserted(S, t)[k].created = t
<1>1. ASSUME NEW k \in Rows
      PROVE  /\ Inserted(S, t)[k] \in Row
             /\ \/ Inserted(S, t)[k] = row[k]
                \/ /\ k \in S /\ row[k].state = "absent" /\ Inserted(S, t)[k].owner = None
                   /\ Inserted(S, t)[k].state = IF Duplicate(k, t) THEN "suppressed" ELSE "pending"
                   /\ Inserted(S, t)[k].created = t
  <2> DEFINE s == IF Duplicate(k, t) THEN "suppressed" ELSE "pending"
             n == IF Duplicate(k, t) THEN 0 ELSE t
             r1 == [NoRow EXCEPT !.state = s]
             r2 == [r1 EXCEPT !.next = n]
             r3 == [r2 EXCEPT !.created = t]
  <2>1. Inserted(S, t)[k] = IF k \in S /\ row[k].state = "absent" THEN r3 ELSE row[k]
    BY DEF Inserted
  <2>2. s \in {"absent"} \cup Open \cup Terminal /\ n \in Nat
    BY DEF Open, Queued, Terminal
  <2>3. row[k] \in Row
    BY DEF TypeOK
  <2> HIDE DEF s, n
  <2>4. r1 \in Row /\ r1.state = s /\ r1.owner = None
    BY <2>2, NoRowIsRow DEF Row
  <2> HIDE DEF r1
  <2>5. r2 \in Row /\ r2.state = s /\ r2.owner = None
    BY <2>2, <2>4 DEF Row
  <2> HIDE DEF r2
  <2>6. r3 \in Row /\ r3.state = s /\ r3.owner = None /\ r3.created = t
    BY <2>5 DEF Row
  <2> HIDE DEF r3
  <2> QED BY <2>1, <2>3, <2>6 DEF s
<1> QED BY <1>1 DEF Inserted

LEMMA SettledIsRow ==
    ASSUME TypeOK, NEW d, NEW verdict, \A k \in Rows \cap DOMAIN verdict : verdict[k] \in Row
    PROVE  /\ Settled(d, verdict) \in [Rows -> Row]
           /\ \A k \in Rows :
                Settled(d, verdict)[k] = IF k \in DOMAIN verdict /\ Mine(d, k) THEN verdict[k] ELSE row[k]
BY DEF Settled, TypeOK

LEMMA FreshIsDrain ==
    ASSUME NEW stage \in {"idle", "claim", "gate"}, NEW blocked \in SUBSET Chats
    PROVE  /\ Fresh(stage, blocked) \in Drain /\ Fresh(stage, blocked).stage = stage
           /\ Fresh(stage, blocked).page = {} /\ Fresh(stage, blocked).wave = EmptyWave
           /\ DOMAIN EmptyWave = {} /\ Fresh(stage, blocked).flood = 0
           /\ EmptyWave \in UNION {[W -> Answers \cup Skips] : W \in SUBSET Rows}
<1>1. EmptyWave \in [{} -> Answers \cup Skips] /\ DOMAIN EmptyWave = {}
  BY DEF EmptyWave
<1>2. EmptyWave \in UNION {[W -> Answers \cup Skips] : W \in SUBSET Rows}
  BY <1>1
<1>3. [c \in Chats |-> NoFailure] \in [Chats -> Failure]
  BY DEF Failure
<1> HIDE DEF EmptyWave, Answers, Skips
<1> QED BY <1>1, <1>2, <1>3 DEF Fresh, Drain

(* What is in a wave.                                                      *)
LEMMA WaveTypes ==
    ASSUME TypeOK, NEW d \in Drains
    PROVE  /\ drain[d] \in Drain /\ drain[d].page \subseteq Rows /\ DOMAIN drain[d].wave \subseteq Rows
           /\ \A k \in DOMAIN drain[d].wave : drain[d].wave[k] \in Answers \cup Skips
<1>1. drain[d] \in Drain
  BY DEF TypeOK
<1>2. PICK W \in SUBSET Rows : drain[d].wave \in [W -> Answers \cup Skips]
  BY <1>1 DEF Drain
<1> QED BY <1>1, <1>2 DEF Drain

-----------------------------------------------------------------------------
(* What a step of one drain, or of none, may do to the rows.               *)

(* Without a claim: nothing, or plan one, or end one that waits, or give   *)
(* up one that is being sent.                                              *)
Quietly(k) ==
    \/ row'[k] = row[k]
    \/ row[k].state = "absent" /\ row'[k].state \in {"pending", "suppressed"}
    \/ /\ row'[k].created = row[k].created
       /\ \/ row[k].state = "sending" /\ row'[k].state = "unknown"
          \/ row[k].state \in Queued /\ row'[k].state \in Queued \cup {"cancelled", "expired"}

(* Or a drain settles what is its own, and is done with it.                *)
Settles(d, k) ==
    /\ Mine(d, k) /\ ~Sure(drain'[d], k)
    /\ row'[k].state \in Queued \cup Terminal /\ row'[k].owner = None
    /\ row'[k].created = row[k].created
    /\ row'[k].state = "sent" => accepted[k] = 1
    /\ accepted[k] = 1 /\ Live(k) => row'[k].state \in {"sent", "unknown"}

(* It is sure of nothing that it was not sure of, and in the same way.     *)
Retains(d, k) ==
    /\ Sure(drain'[d], k) => Sure(drain[d], k)
    /\ k \in drain'[d].page => k \in drain[d].page
    /\ Flying(drain'[d], k) => Flying(drain[d], k) /\ drain'[d].wave[k] = drain[d].wave[k]

LEMMA OnceKept ==
    ASSUME TypeOK, Once, \A k \in Rows : Live(k)' <=> Live(k), accepted' = accepted, Shapely',
           \A d \in Drains : \A k \in Rows : Retains(d, k),
           \A k \in Rows : Quietly(k) \/ \E d \in Drains : Settles(d, k)
    PROVE  Once'
<1> USE DEF Once
<1>1. ASSUME NEW d \in Drains, NEW k \in Rows, Sure(drain[d], k)'
      PROVE  Sure(drain'[d], k) /\ Sure(drain[d], k)
  BY <1>1 DEF Sure, Live, Retains, Flying
<1>2. Alone'
  BY <1>1 DEF Alone
<1>3. ASSUME NEW d \in Drains, NEW k \in Rows, Sure(drain[d], k)', Live(k)'
      PROVE  (Mine(d, k) \/ row[k].state = "unknown")'
  <2>1. Sure(drain'[d], k) /\ Sure(drain[d], k) /\ Live(k)
    BY <1>1, <1>3 DEF Live
  <2>2. Mine(d, k) \/ row[k].state = "unknown"
    BY <2>1 DEF Kept
  <2>3. ASSUME NEW e \in Drains, Settles(e, k)
        PROVE  FALSE
    <3>1. Mine(e, k) /\ ~Sure(drain'[e], k)
      BY <2>3 DEF Settles
    <3>2. e = d
      BY <2>2, <3>1 DEF Mine
    <3> QED BY <2>1, <3>1, <3>2
  <2>4. Quietly(k)
    BY <2>3
  <2> QED BY <2>2, <2>4 DEF Quietly, Mine, Queued
<1>4. Kept'
  BY <1>3 DEF Kept
<1>5. Unsent'
  BY <1>1 DEF Unsent, Heard, Retains, Flying
<1>6. ASSUME NEW k \in Rows
      PROVE  Tells(k)'
  <2>1. Tells(k)
    BY DEF Honest
  <2>2. CASE Quietly(k)
    BY <2>1, <2>2 DEF Quietly, Tells, Live, Queued
  <2>3. CASE \E d \in Drains : Settles(d, k)
    BY <2>1, <2>3 DEF Settles, Tells, Live
  <2> QED BY <2>2, <2>3
<1> QED BY <1>2, <1>4, <1>5, <1>6 DEF Honest

(* Two rows are as far apart from either side.                             *)
LEMMA ApartBothWays ==
    ASSUME NEW a \in Int, NEW b \in Int, NEW w \in Nat
    PROVE  a - b \in -w .. w <=> b - a \in -w .. w
OBVIOUS

NearIsMutual == \A k, l \in Rows : Near(k, l) <=> Near(l, k)
LEMMA NearBothWays == TypeOK => NearIsMutual
<1> SUFFICES ASSUME TypeOK, NEW k \in Rows, NEW l \in Rows
             PROVE  Near(k, l) <=> Near(l, k)
  BY DEF NearIsMutual
<1>1. row[k].created \in Int /\ row[l].created \in Int
  BY DEF TypeOK, Row
<1> QED BY <1>1, NumbersAreNatural, ApartBothWays DEF Near

(* Only planning makes a row one that suppresses.                          *)
Remains(k) == row[k].state \in Prior /\ row'[k].created = row[k].created
LEMMA TwinsKept ==
    ASSUME OneOfTwins, TypeOK',
           \A k \in Rows : Live(k)' => Live(k),
           \A k, l \in Rows :
               Twins(k, l) /\ Live(k)' /\ row'[k].state \in Prior
               => Remains(k) \/ ~(row'[l].state \in Prior /\ Near(k, l)')
    PROVE  OneOfTwins'
<1> SUFFICES ASSUME NEW k \in Rows, NEW l \in Rows, Twins(k, l), Live(k)',
                    row'[k].state \in Prior, row'[l].state \in Prior, Near(k, l)'
             PROVE  FALSE
  BY DEF OneOfTwins, Twins, JobOf, ChatOf, SeqOf, Prior
<1>1. Twins(l, k) /\ Live(l)'
  BY DEF Twins, Live
<1>2. NearIsMutual'
  BY NearBothWays, PTL
<1>3. Remains(k) /\ Remains(l)
  BY <1>1, <1>2 DEF NearIsMutual
<1>4. Near(k, l)
  BY <1>3 DEF Near, Remains
<1> QED BY <1>3, <1>4 DEF OneOfTwins, Remains

(* A step that neither claims nor sends.                                   *)
LEMMA StepKept ==
    ASSUME TypeOK, Once, OneOfTwins, TypeOK',
           \A k \in Rows : Live(k)' <=> Live(k), accepted' = accepted, Shapely',
           \A d \in Drains : \A k \in Rows : Retains(d, k),
           \A k \in Rows : Quietly(k) \/ \E d \in Drains : Settles(d, k),
           \A k, l \in Rows :
               Twins(k, l) /\ row[k].state = "absent" /\ row'[k].state = "pending"
               => ~(row'[l].state \in Prior /\ Near(k, l)')
    PROVE  Once' /\ OneOfTwins'
<1>1. Once'
  BY OnceKept
<1>3. ASSUME NEW k \in Rows, NEW l \in Rows, Twins(k, l), row'[k].state \in Prior
      PROVE  Remains(k) \/ ~(row'[l].state \in Prior /\ Near(k, l)')
  <2>1. CASE \E d \in Drains : Settles(d, k)
    BY <2>1 DEF Settles, Mine, Remains, Prior, Open
  <2>2. CASE Quietly(k)
    <3>1. Remains(k) \/ (row[k].state = "absent" /\ row'[k].state = "pending")
      BY <1>3, <2>2 DEF Quietly, Remains, Prior, Open, Queued
    <3> QED BY <1>3, <3>1
  <2> QED BY <2>1, <2>2
<1> QED BY <1>1, <1>3, TwinsKept

(* A step of no drain.                                                     *)
LEMMA RowsKept ==
    ASSUME IInv, TypeOK', UNCHANGED <<drain, accepted>>, \A k \in Rows : Live(k)' <=> Live(k),
           \A k \in Rows : Quietly(k),
           \A k, l \in Rows :
               Twins(k, l) /\ row[k].state = "absent" /\ row'[k].state = "pending"
               => ~(row'[l].state \in Prior /\ Near(k, l)')
    PROVE  IInv'
<1>1. ASSUME NEW d \in Drains
      PROVE  Shape(d, drain[d])'
  <2>1. Shape(d, drain[d])
    BY DEF IInv, Once, Shapely
  <2>2. ASSUME NEW k \in Rows, ~Mine(d, k)
        PROVE  ~Mine(d, k)'
    BY <2>2 DEF Quietly, Mine, Queued
  <2>3. DOMAIN drain[d].wave \subseteq Rows
    BY WaveTypes DEF IInv
  <2> QED BY <2>1, <2>2, <2>3 DEF Shape
<1>2. Shapely'
  BY <1>1 DEF Shapely
<1>3. \A d \in Drains : \A k \in Rows : Retains(d, k)
  BY DEF Retains
<1> QED BY <1>2, <1>3, StepKept DEF IInv

-----------------------------------------------------------------------------
(* Jobs, fan-outs and subscribers.                                         *)
LEMMA InsertionKeeps ==
    ASSUME IInv, TypeOK', UNCHANGED <<drain, accepted, chat>>,
           NEW j, NEW plan, NEW t \in Nat, row' = Inserted(Planned(j, plan), t)
    PROVE  IInv'
<1>1. \A k \in Rows :
         \/ row'[k] = row[k]
         \/ /\ k \in Planned(j, plan) /\ row[k].state = "absent" /\ row'[k].created = t
            /\ row'[k].state = IF Duplicate(k, t) THEN "suppressed" ELSE "pending"
  BY InsertedIsRow DEF IInv
<1>2. \A k \in Rows : Quietly(k)
  BY <1>1 DEF Quietly
<1>3. ASSUME NEW k \in Rows, NEW l \in Rows, Twins(k, l), row[k].state = "absent", row'[k].state = "pending"
      PROVE  ~(row'[l].state \in Prior /\ Near(k, l)')
  <2>1. k \in Planned(j, plan) /\ ~Duplicate(k, t) /\ row'[k].created = t
    BY <1>1, <1>3
  <2>2. ~(row[l].created >= t - DuplicateWindow /\ row[l].state \in Prior)
    BY <1>3, <2>1 DEF Duplicate, Twins
  <2>3. l \notin Planned(j, plan)
    BY <1>3, <2>1 DEF Planned, Twins
  <2>4. row'[l] = row[l] /\ row[l].created \in Nat
    BY <1>1, <2>3 DEF IInv, TypeOK, Row
  <2> QED BY <2>1, <2>2, <2>4, NumbersAreNatural DEF Near
<1>4. \A k \in Rows : Live(k)' <=> Live(k)
  BY DEF Live
<1> QED BY <1>2, <1>3, <1>4, RowsKept

LEMMA EnqueueKeeps ==
    ASSUME IInv, NEW j \in Jobs, Enqueue(j)
    PROVE  IInv'
<1>1. job' \in [Jobs -> Job]
  <2>1. now + JobTtl \in Nat
    BY NumbersAreNatural DEF IInv, TypeOK
  <2> QED BY <2>1 DEF Enqueue, IInv, TypeOK, Job
<1>2. CASE j \in DirectJobs
  <2>1. PICK plan \in Audience(Subscribers) : row' = Inserted(Planned(j, plan), now)
    BY <1>2 DEF Enqueue
  <2>2. row' \in [Rows -> Row]
    BY <2>1, InsertedIsRow DEF IInv, TypeOK
  <2>3. TypeOK'
    BY <1>1, <2>2 DEF Enqueue, IInv, TypeOK
  <2>4. now \in Nat
    BY DEF IInv, TypeOK
  <2> QED BY <2>1, <2>3, <2>4, InsertionKeeps DEF Enqueue
<1>3. CASE j \notin DirectJobs
  <2>1. TypeOK' /\ row' = row
    BY <1>1, <1>3 DEF Enqueue, IInv, TypeOK
  <2> QED BY <2>1, RowsKept DEF Enqueue, Quietly, Live
<1> QED BY <1>2, <1>3

LEMMA SameRowsKeep ==
    ASSUME IInv, TypeOK', UNCHANGED <<drain, accepted, row>>, \A k \in Rows : Live(k)' <=> Live(k)
    PROVE  IInv'
BY RowsKept DEF Quietly

LEMMA IdleFanIsFan == IdleFan \in Fan
<1>1. [c \in Chats |-> 0] \in [Chats -> 0 .. Chunks]
  BY NumbersAreNatural
<1> QED BY <1>1 DEF IdleFan, Fan

LEMMA FanKeeps ==
    ASSUME IInv, NEW f \in Fanouts, FanStep(f)
    PROVE  IInv'
<1> USE DEF IInv, TypeOK
<1>1. CASE TakeJob(f)
  <2>1. job' \in [Jobs -> Job]
    <3>1. ASSUME NEW j \in Jobs
          PROVE  [job[j] EXCEPT !.state = "cancelled"] \in Job
      BY DEF Job
    <3> QED BY <1>1, <3>1 DEF TakeJob
  <2>2. fan' \in [Fanouts -> Fan]
    <3>1. ASSUME NEW j \in Jobs
          PROVE  [IdleFan EXCEPT !.stage = "page", !.job = j, !.at = now, !.cursor = job[j].cursor] \in Fan
      BY IdleFanIsFan DEF Fan, Job
    <3> QED BY <1>1, <3>1 DEF TakeJob
  <2> QED BY <1>1, <2>1, <2>2, SameRowsKeep DEF TakeJob, Live
<1>2. CASE BuildPage(f)
  <2>1. PICK next \in {0} \cup {c \in Subscribers : c > fan[f].cursor} :
        \E plan \in Audience({c \in Subscribers : c > fan[f].cursor /\ (next = 0 \/ c <= next)}) :
           fan' = [fan EXCEPT ![f].stage = "commit", ![f].plan = plan, ![f].next = next]
    BY <1>2 DEF BuildPage
  <2>2. PICK plan \in [Chats -> 0 .. Chunks] :
           fan' = [fan EXCEPT ![f].stage = "commit", ![f].plan = plan, ![f].next = next]
    BY <2>1 DEF Audience
  <2>3. next \in Nat
    BY KindAssumption DEF Subscribers
  <2> DEFINE w1 == [fan[f] EXCEPT !.stage = "commit"]
             w2 == [w1 EXCEPT !.plan = plan]
  <2>4. w1 \in Fan
    BY DEF Fan
  <2>5. fan' = [fan EXCEPT ![f] = [w2 EXCEPT !.next = next]]
    BY <2>2
  <2> HIDE DEF w1
  <2>6. w2 \in Fan
    BY <2>4 DEF Fan
  <2> HIDE DEF w2
  <2>7. [w2 EXCEPT !.next = next] \in Fan
    BY <2>3, <2>6 DEF Fan
  <2>8. fan' \in [Fanouts -> Fan]
    BY <2>5, <2>7
  <2> QED BY <1>2, <2>8, SameRowsKeep DEF BuildPage, Live
<1>3. CASE CommitPage(f)
  <2> DEFINE j == fan[f].job
             t == fan[f].at
  <2>1. row' = Inserted(Planned(j, fan[f].plan), t) /\ t \in Nat
    BY <1>3 DEF CommitPage, Fan
  <2>2. row' \in [Rows -> Row]
    BY <2>1, InsertedIsRow
  <2>3. fan[f].next \in Nat
    BY DEF Fan
  <2>4. job' \in [Jobs -> Job]
    <3> DEFINE w1 == [job[j] EXCEPT !.state = IF fan[f].next = 0 THEN "ready" ELSE @]
    <3>1. CASE Advances(f)
      <4>1. job' = [job EXCEPT ![j] = [w1 EXCEPT !.cursor = fan[f].next]]
        BY <1>3, <3>1 DEF CommitPage
      <4>2. j \in Jobs => w1 \in Job
        BY ZenonT(40) DEF Job
      <4> HIDE DEF w1
      <4> QED BY <2>3, <4>1, <4>2 DEF Job
    <3>2. CASE ~Advances(f)
      BY <1>3, <3>2 DEF CommitPage
    <3> QED BY <3>1, <3>2
  <2>5. fan' \in [Fanouts -> Fan]
    <3> DEFINE w1 == [fan[f] EXCEPT !.stage = "page"]
               w2 == [w1 EXCEPT !.cursor = fan[f].next]
               w3 == [w2 EXCEPT !.plan = IdleFan.plan]
               w4 == [w3 EXCEPT !.next = 0]
    <3>1. w1 \in Fan
      BY DEF Fan
    <3>2. fan' = [fan EXCEPT ![f] = IdleFan] \/ fan' = [fan EXCEPT ![f] = w4]
      BY <1>3 DEF CommitPage
    <3> HIDE DEF w1
    <3>3. w2 \in Fan
      BY <2>3, <3>1 DEF Fan
    <3> HIDE DEF w2
    <3>4. w3 \in Fan
      BY <3>3, IdleFanIsFan DEF Fan
    <3> HIDE DEF w3
    <3>5. w4 \in Fan
      BY <3>4 DEF Fan
    <3> HIDE DEF w4
    <3> QED BY <3>2, <3>5, IdleFanIsFan
  <2>6. TypeOK'
    BY <1>3, <2>2, <2>4, <2>5 DEF CommitPage
  <2> HIDE DEF j, t
  <2> QED BY <1>3, <2>1, <2>6, InsertionKeeps DEF CommitPage
<1> QED BY <1>1, <1>2, <1>3 DEF FanStep

(* What ends rows that wait, or gives up claims that expired.              *)
LEMMA SweepKeeps ==
    ASSUME IInv, Sweep
    PROVE  IInv'
<1>1. ASSUME NEW k \in Rows
      PROVE  \/ row'[k] \in Row /\ Quietly(k) /\ row'[k].state # "pending"
             \/ row'[k] = row[k]
  <2>1. CASE k \in Overdue
    <3>1. row'[k] = Ends(k, IF row[k].state = "sending" THEN "unknown" ELSE "expired")
      BY <2>1 DEF Sweep, Swept
    <3>2. row[k].state \in Open
      BY <2>1 DEF Overdue, Open
    <3> QED BY <3>1, <3>2, EndsIsRow DEF IInv, Quietly, Open, Terminal
  <2>2. CASE k \notin Overdue
    BY <2>2 DEF Sweep
  <2> QED BY <2>1, <2>2
<1>2. \A k \in Rows : row'[k] \in Row /\ Quietly(k)
  BY <1>1 DEF Quietly, IInv, TypeOK
<1>3. TypeOK'
  <2>1. row' = [k \in Rows |-> row'[k]]
    BY DEF Sweep
  <2>2. row' \in [Rows -> Row]
    BY <1>2, <2>1
  <2> QED BY <2>2 DEF Sweep, IInv, TypeOK
<1>4. \A k \in Rows : row[k].state = "absent" => row'[k].state # "pending"
  BY <1>1 DEF Quietly
<1> QED BY <1>2, <1>3, <1>4, RowsKept DEF Sweep, Live

LEMMA CancelRetractedKeeps ==
    ASSUME IInv, NEW j \in Jobs, CancelRetracted(j)
    PROVE  IInv'
<1>1. ASSUME NEW k \in Rows
      PROVE  \/ row'[k] = row[k]
             \/ /\ row[k].state \in Queued /\ row'[k].state = "cancelled" /\ row'[k] \in Row
                /\ row'[k].created = row[k].created
  BY EndsIsRow DEF CancelRetracted, IInv, Terminal
<1>2. TypeOK'
  <2>1. row' = [k \in Rows |-> row'[k]]
    BY DEF CancelRetracted
  <2>2. row' \in [Rows -> Row]
    BY <1>1, <2>1 DEF IInv, TypeOK
  <2>3. job' \in [Jobs -> Job]
    BY DEF CancelRetracted, IInv, TypeOK, Job
  <2> QED BY <2>2, <2>3 DEF CancelRetracted, IInv, TypeOK
<1>3. \A k \in Rows : Quietly(k) /\ (row[k].state = "absent" => row'[k].state # "pending")
  BY <1>1 DEF Quietly, Queued
<1> QED BY <1>2, <1>3, RowsKept DEF CancelRetracted, Live

(* /forget takes the rows away, and with them what was not yet let through. *)
LEMMA ForgetKeeps ==
    ASSUME IInv, NEW c \in Chats, Forget(c)
    PROVE  IInv'
<1> USE DEF IInv
<1>1. \A k \in Rows : row'[k] = IF ChatOf(k) = c THEN NoRow ELSE row[k]
  BY DEF Forget
<1>2. \A k \in Rows : Live(k)' <=> Live(k) /\ ChatOf(k) # c
  BY RowFields DEF Live, Forget, TypeOK
<1>3. UNCHANGED <<drain, accepted>>
  BY DEF Forget
<1>4. TypeOK'
  <2>1. row' \in [Rows -> Row]
    BY NoRowIsRow DEF Forget, TypeOK
  <2>2. Before(c) \in Nat \cup {Rewound}
    BY KindAssumption DEF Before, Subscribers
  <2>3. job' \in [Jobs -> Job]
    <3>1. ASSUME NEW j \in Jobs
          PROVE  [job[j] EXCEPT !.cursor = Before(c)] \in Job
      BY <2>2 DEF TypeOK, Job
    <3> QED BY <3>1 DEF Forget, TypeOK
  <2> QED BY <2>1, <2>3 DEF Forget, TypeOK
<1>5. \A d \in Drains : \A k \in Rows : Sure(drain[d], k)' => Sure(drain[d], k)
  BY <1>2, <1>3 DEF Sure, Flying
<1>6. Shapely'
  <2>1. \A d \in Drains : \A k \in Rows : ~Mine(d, k) => ~Mine(d, k)'
    BY <1>1, NoRowIsRow DEF Mine
  <2>2. \A d \in Drains : DOMAIN drain[d].wave \subseteq Rows
    BY WaveTypes
  <2> QED BY <1>3, <2>1, <2>2 DEF Once, Shapely, Shape
<1>7. Alone'
  BY <1>5 DEF Once, Alone
<1>8. Kept'
  BY <1>1, <1>2, <1>5 DEF Once, Kept, Mine
<1>9. Unsent'
  BY <1>3, <1>5 DEF Once, Unsent, Heard, Flying
<1>10. Honest'
  BY <1>1, <1>2, <1>3, NoRowIsRow DEF Once, Honest, Tells
<1>11. Once'
  BY <1>6, <1>7, <1>8, <1>9, <1>10 DEF Once
<1>12. \A k \in Rows : Live(k)' /\ row'[k].state \in Prior => Remains(k)
  BY <1>1, <1>2 DEF Remains
<1> QED BY <1>2, <1>4, <1>11, <1>12, TwinsKept

-----------------------------------------------------------------------------
(* The drains.                                                             *)
Unplanned(k) == Quietly(k) /\ (row[k].state = "absent" => row'[k].state # "pending")

LEMMA DrainKept ==
    ASSUME IInv, TypeOK', NEW d \in Drains, \A e \in Drains \ {d} : drain'[e] = drain[e],
           UNCHANGED <<chat, accepted>>, Shape(d, drain[d])',
           \A k \in Rows : Retains(d, k),
           \A k \in Rows : Unplanned(k) \/ Settles(d, k)
    PROVE  IInv'
<1> USE DEF IInv
<1>1. ASSUME NEW e \in Drains \ {d}
      PROVE  Shape(e, drain[e])' /\ \A k \in Rows : Retains(e, k)
  <2>1. Shape(e, drain[e])
    BY DEF Once, Shapely
  <2>2. \A k \in Rows : ~Mine(e, k) => ~Mine(e, k)'
    <3>1. None # e
      BY KindAssumption
    <3> QED BY <3>1 DEF Unplanned, Quietly, Settles, Mine, Queued
  <2>3. DOMAIN drain[e].wave \subseteq Rows /\ drain'[e] = drain[e]
    BY WaveTypes
  <2>4. Shape(e, drain[e])'
    BY <2>1, <2>2, <2>3 DEF Shape
  <2> QED BY <2>3, <2>4 DEF Retains
<1>2. Shapely'
  BY <1>1 DEF Shapely
<1>3. \A e \in Drains : \A k \in Rows : Retains(e, k)
  BY <1>1
<1>4. \A k \in Rows : Quietly(k) \/ \E e \in Drains : Settles(e, k)
  BY DEF Unplanned
<1>5. \A k \in Rows : row[k].state = "absent" => row'[k].state # "pending"
  BY DEF Unplanned, Settles, Mine
<1>6. \A k \in Rows : Live(k)' <=> Live(k)
  BY DEF Live
<1> QED BY <1>2, <1>3, <1>4, <1>5, <1>6, StepKept

(* A drain that leaves its page, or none, behind.                          *)
LEMMA EmptyHanded ==
    ASSUME IInv, TypeOK', NEW d \in Drains, \A e \in Drains \ {d} : drain'[e] = drain[e],
           UNCHANGED <<chat, accepted>>,
           drain'[d].page = {}, DOMAIN drain'[d].wave = {},
           \A k \in Rows : Unplanned(k) \/ Settles(d, k)
    PROVE  IInv'
<1>1. Shape(d, drain[d])'
  BY DEF Shape
<1>2. \A k \in Rows : Retains(d, k)
  BY DEF Retains, Sure, Flying
<1> QED BY <1>1, <1>2, DrainKept

LEMMA StartStopKeep ==
    ASSUME IInv, NEW d \in Drains, StartDrain(d) \/ StopDrain(d)
    PROVE  IInv'
<1> USE DEF IInv
<1>1. drain[d] \in Drain /\ Shape(d, drain[d])
  BY DEF TypeOK, Once, Shapely
<1>2. \A k \in Rows : Unplanned(k)
  BY DEF StartDrain, StopDrain, Unplanned, Quietly
<1>3. CASE StartDrain(d)
  <2> DEFINE w == [drain[d] EXCEPT !.stage = "claim"]
  <2>1. w \in Drain /\ w.page = drain[d].page /\ w.wave = drain[d].wave
    BY <1>1 DEF Drain
  <2>2. drain[d].page = {} /\ DOMAIN drain[d].wave = {}
    BY <1>1, <1>3 DEF Shape, StartDrain
  <2>3. drain' = [drain EXCEPT ![d] = w]
    BY <1>3 DEF StartDrain, Go
  <2> HIDE DEF w
  <2>4. TypeOK' /\ drain'[d] = w /\ \A e \in Drains \ {d} : drain'[e] = drain[e]
    BY <1>3, <2>1, <2>3 DEF StartDrain, TypeOK
  <2> QED BY <1>2, <1>3, <2>1, <2>2, <2>4, EmptyHanded DEF StartDrain
<1>4. CASE StopDrain(d)
  <2>1. drain' = [drain EXCEPT ![d] = Fresh("idle", {})]
    BY <1>4 DEF StopDrain, Leave
  <2>2. Fresh("idle", {}) \in Drain /\ Fresh("idle", {}).page = {} /\ DOMAIN Fresh("idle", {}).wave = {}
    BY FreshIsDrain
  <2>3. TypeOK' /\ drain'[d] = Fresh("idle", {}) /\ \A e \in Drains \ {d} : drain'[e] = drain[e]
    BY <1>4, <2>1, <2>2 DEF StopDrain, TypeOK
  <2> QED BY <1>2, <1>4, <2>2, <2>3, EmptyHanded DEF StopDrain
<1> QED BY <1>3, <1>4

(* What an exception leaves: rows that never crossed the boundary.         *)
LEMMA ThrowKeeps ==
    ASSUME IInv, NEW d \in Drains, NEW releases \in BOOLEAN, ThrowDrain(d, releases),
           faults' \in 0 .. MaxFaults
    PROVE  IInv'
<1> USE DEF IInv
<1>1. drain' = [drain EXCEPT ![d] = Fresh("idle", {})]
  BY DEF ThrowDrain, Leave
<1>2. Fresh("idle", {}) \in Drain /\ Fresh("idle", {}).page = {} /\ DOMAIN Fresh("idle", {}).wave = {}
  BY FreshIsDrain
<1>3. ~\E k \in Rows : Sure(Fresh("idle", {}), k)
  BY <1>2 DEF Sure, Flying
<1>4. ASSUME NEW k \in Rows
      PROVE  row'[k] \in Row /\ (Unplanned(k) \/ Settles(d, k))
  <2>1. CASE releases /\ k \in Released(d) /\ Mine(d, k)
    <3>1. row'[k] = Retries(k, 0, 0)
      BY <2>1 DEF ThrowDrain, Settled
    <3>2. /\ row'[k] \in Row /\ row'[k].state = "retry" /\ row'[k].owner = None
          /\ row'[k].created = row[k].created
      BY <3>1, RetriesIsRow
    <3>3. accepted[k] = 1 /\ Live(k) => FALSE
      <4>1. SUFFICES ASSUME Live(k)
                     PROVE  accepted[k] = 0
        OBVIOUS
      <4>2. Shape(d, drain[d]) /\ (Sure(drain[d], k) => Heard(drain[d], k))
        BY DEF Once, Shapely, Unsent
      <4>3. CASE k \in drain[d].page
        BY <4>1, <4>2, <4>3 DEF Sure, Heard
      <4>4. CASE k \in DOMAIN drain[d].wave /\ k \notin drain[d].crossed
        <5>1. drain[d].stage = "flight" /\ drain[d].wave[k] \notin Answers
          BY <2>1, <4>2, <4>4 DEF Shape
        <5>2. Flying(drain[d], k) /\ Sure(drain[d], k)
          BY <4>4, <5>1 DEF Flying, Sure
        <5> QED BY <4>2, <5>1, <5>2 DEF Heard, Answers
      <4> QED BY <2>1, <4>3, <4>4 DEF Released
    <3>4. Settles(d, k)
      BY <1>1, <1>3, <2>1, <3>2, <3>3 DEF Settles, Queued, TypeOK
    <3> QED BY <3>2, <3>4
  <2>2. CASE ~(releases /\ k \in Released(d) /\ Mine(d, k))
    <3>1. row'[k] = row[k]
      BY <2>2 DEF ThrowDrain, Settled
    <3> QED BY <3>1 DEF Unplanned, Quietly, TypeOK
  <2> QED BY <2>1, <2>2
<1>5. row' = [k \in Rows |-> row'[k]]
  BY DEF ThrowDrain, Settled, TypeOK
<1>6. row' \in [Rows -> Row]
  BY <1>4, <1>5
<1>7. TypeOK' /\ drain'[d] = Fresh("idle", {}) /\ \A e \in Drains \ {d} : drain'[e] = drain[e]
  BY <1>1, <1>2, <1>6 DEF ThrowDrain, TypeOK
<1> QED BY <1>2, <1>4, <1>7, EmptyHanded DEF ThrowDrain

(* The gate lets through only what it was already sure of.                 *)
LEMMA GateKeeps ==
    ASSUME IInv, NEW d \in Drains, Gate(d)
    PROVE  IInv'
<1> USE DEF IInv
<1>1. PICK snoozed \in SUBSET {ChatOf(k) : k \in drain[d].page},
           muted \in SUBSET {<<JobOf(k), ChatOf(k)>> : k \in drain[d].page} :
        LET Missing(k) == chat[ChatOf(k)] # "in"
            Barred(k) == <<JobOf(k), ChatOf(k)>> \in muted \/ ChatOf(k) \in drain[d].blocked
            stopped == {k \in drain[d].page : Missing(k) \/ ChatOf(k) \in snoozed \/ Barred(k)}
        IN  /\ row' = Settled(d, [k \in stopped |->
                         IF ~Missing(k) /\ ChatOf(k) \in snoozed
                         THEN Retries(k, SnoozeFor, 0) ELSE Ends(k, "cancelled")])
            /\ drain' = [drain EXCEPT ![d].stage = "send", ![d].page = @ \ stopped]
  BY DEF Gate
<1> DEFINE Missing(k) == chat[ChatOf(k)] # "in"
           Barred(k) == <<JobOf(k), ChatOf(k)>> \in muted \/ ChatOf(k) \in drain[d].blocked
           stopped == {k \in drain[d].page : Missing(k) \/ ChatOf(k) \in snoozed \/ Barred(k)}
           verdict == [k \in stopped |->
                         IF ~Missing(k) /\ ChatOf(k) \in snoozed
                         THEN Retries(k, SnoozeFor, 0) ELSE Ends(k, "cancelled")]
           w1 == [drain[d] EXCEPT !.stage = "send"]
           w == [w1 EXCEPT !.page = drain[d].page \ stopped]
<1>2. row' = Settled(d, verdict) /\ drain' = [drain EXCEPT ![d] = w]
  BY <1>1
<1>3. \A k \in drain[d].page \ stopped : Live(k)
  BY DEF Live
<1>4. stopped \subseteq drain[d].page
  OBVIOUS
<1>5. ASSUME NEW k \in stopped
      PROVE  /\ verdict[k] \in Row /\ verdict[k].owner = None
             /\ verdict[k].state \in {"retry", "cancelled"} /\ verdict[k].created = row[k].created
  <2>1. k \in Rows
    BY WaveTypes
  <2> DEFINE again == ~Missing(k) /\ ChatOf(k) \in snoozed
  <2>2. verdict[k] = IF again THEN Retries(k, SnoozeFor, 0) ELSE Ends(k, "cancelled")
    OBVIOUS
  <2> HIDE DEF again, verdict
  <2>3. CASE again
    <3>1. verdict[k] = Retries(k, SnoozeFor, 0)
      BY <2>2, <2>3
    <3> QED BY <2>1, <3>1, RetriesIsRow, NumbersAreNatural
  <2>4. CASE ~again
    <3>1. verdict[k] = Ends(k, "cancelled")
      BY <2>2, <2>4
    <3> QED BY <2>1, <3>1, EndsIsRow DEF Terminal
  <2> QED BY <2>3, <2>4
<1>6. DOMAIN verdict = stopped
  OBVIOUS
<1> HIDE DEF stopped, verdict
<1>7. drain[d] \in Drain /\ Shape(d, drain[d]) /\ drain[d].stage = "gate"
  BY DEF TypeOK, Once, Shapely, Gate
<1>8. w1 \in Drain /\ w1.stage = "send" /\ w1.wave = drain[d].wave
  BY <1>7 DEF Drain
<1>9. w \in Drain /\ w.stage = "send" /\ w.wave = drain[d].wave /\ w.page = drain[d].page \ stopped
  <2> HIDE DEF w1
  <2> QED BY <1>7, <1>8 DEF Drain
<1> HIDE DEF w1, w
<1>10. drain'[d] = w /\ \A e \in Drains \ {d} : drain'[e] = drain[e]
  BY <1>2 DEF TypeOK
<1>11. DOMAIN w.wave = {} /\ \A k : ~Flying(w, k)
  BY <1>7, <1>9 DEF Shape, Flying
<1>12. ASSUME NEW k \in Rows
       PROVE  Unplanned(k) \/ Settles(d, k)
  <2>1. CASE k \in stopped /\ Mine(d, k)
    <3>1. row'[k] = verdict[k]
      BY <1>2, <1>6, <2>1 DEF Settled
    <3>2. ~Sure(drain'[d], k)
      BY <1>9, <1>10, <1>11, <2>1 DEF Sure
    <3>3. Live(k) => accepted[k] = 0
      BY <1>4, <2>1 DEF Once, Unsent, Sure, Heard
    <3> QED BY <1>5, <2>1, <3>1, <3>2, <3>3 DEF Settles, Queued, Terminal
  <2>2. CASE ~(k \in stopped /\ Mine(d, k))
    BY <1>2, <1>6, <2>2 DEF Settled, Unplanned, Quietly
  <2> QED BY <2>1, <2>2
<1>13. \A k \in Rows : Retains(d, k)
  BY <1>3, <1>9, <1>10, <1>11 DEF Retains, Sure
<1>14. Shape(d, drain[d])'
  BY <1>9, <1>10, <1>11 DEF Shape
<1>15. TypeOK'
  <2>1. row' \in [Rows -> Row]
    BY <1>2, <1>5, <1>6, SettledIsRow
  <2> QED BY <1>2, <1>9, <2>1 DEF Gate, TypeOK
<1> QED BY <1>10, <1>12, <1>13, <1>14, <1>15, DrainKept DEF Gate

(* What is settled unsent after the page, and the message's other chunks.  *)
LEMMA AfterThePageIsEmpty ==
    ASSUME TypeOK, NEW d \in Drains
    PROVE  /\ AfterThePage(d) \in Drain /\ AfterThePage(d).page = {}
           /\ DOMAIN AfterThePage(d).wave = {}
<1>1. drain[d].blocked \in SUBSET Chats
  BY DEF TypeOK, Drain
<1> QED BY <1>1, FreshIsDrain DEF AfterThePage

LEMMA TailIsUnsent ==
    ASSUME TypeOK, NEW d \in Drains, NEW k \in Rows
    PROVE  /\ ClassifyTail(d, k) \in Row /\ ClassifyTail(d, k).owner = None
           /\ ClassifyTail(d, k).state \in {"retry", "cancelled"}
           /\ ClassifyTail(d, k).created = row[k].created
<1>1. AtLeast(0, drain[d].flood - now) \in Nat
  BY DEF AtLeast, TypeOK, Drain
<1> DEFINE h == drain[d].failed[ChatOf(k)]
           Behind(why) == h.why = why /\ h.job = JobOf(k)
           delay == CASE Behind("held") -> Backoff
                      [] h.why = "rateLimit" -> RetryAfter
                      [] OTHER -> AtLeast(0, drain[d].flood - now)
<1>2. delay \in Nat
  <2>1. Behind("held") => h.why # "rateLimit"
    OBVIOUS
  <2> HIDE DEF h
  <2> QED BY <1>1, <2>1, NumbersAreNatural
<1>3. ClassifyTail(d, k) = Ends(k, "cancelled") \/ ClassifyTail(d, k) = Retries(k, delay, 0)
  BY DEF ClassifyTail
<1> HIDE DEF delay
<1> QED BY <1>2, <1>3, EndsIsRow, RetriesIsRow DEF Terminal

LEMMA TailsKeep ==
    ASSUME IInv, NEW d \in Drains, SettleTails(d) \/ CancelSiblings(d)
    PROVE  IInv'
<1> USE DEF IInv
<1>1. drain[d] \in Drain /\ Shape(d, drain[d])
  BY DEF TypeOK, Once, Shapely
<1>2. CASE SettleTails(d)
  <2> DEFINE verdict == [k \in drain[d].page |-> ClassifyTail(d, k)]
             w1 == [drain[d] EXCEPT !.stage = "siblings"]
             w2 == [w1 EXCEPT !.page = {}]
  <2>1. row' = Settled(d, verdict) /\ drain[d].stage = "send"
    BY <1>2 DEF SettleTails
  <2>2. w1 \in Drain /\ w1.wave = drain[d].wave
    BY <1>1 DEF Drain
  <2>3. w2 \in Drain /\ w2.wave = drain[d].wave /\ w2.page = {}
    <3> HIDE DEF w1
    <3> QED BY <2>2 DEF Drain
  <2> DEFINE w == IF Retracted(d) # {} THEN w2 ELSE AfterThePage(d)
  <2>4. drain' = [drain EXCEPT ![d] = w]
    BY <1>2 DEF SettleTails
  <2>5. DOMAIN drain[d].wave = {}
    BY <1>1, <2>1 DEF Shape
  <2> HIDE DEF w1, w2
  <2>6. w \in Drain /\ w.page = {} /\ DOMAIN w.wave = {}
    BY <2>3, <2>5, AfterThePageIsEmpty
  <2> HIDE DEF w
  <2>7. \A k \in Rows : ~Sure(w, k)
    BY <2>6 DEF Sure, Flying
  <2>8. drain'[d] = w /\ \A e \in Drains \ {d} : drain'[e] = drain[e]
    BY <2>4 DEF TypeOK
  <2>9. DOMAIN verdict = drain[d].page /\ \A k \in drain[d].page : verdict[k] = ClassifyTail(d, k)
    OBVIOUS
  <2> HIDE DEF verdict
  <2>10. ASSUME NEW k \in Rows
         PROVE  Unplanned(k) \/ Settles(d, k)
    <3>1. CASE k \in drain[d].page /\ Mine(d, k)
      <4>1. row'[k] = ClassifyTail(d, k)
        BY <2>1, <2>9, <3>1 DEF Settled
      <4>2. accepted[k] = 0
        BY <2>1, <3>1 DEF Once, Unsent, Sure, Heard
      <4> QED BY <2>7, <2>8, <3>1, <4>1, <4>2, TailIsUnsent DEF Settles, Queued, Terminal
    <3>2. CASE ~(k \in drain[d].page /\ Mine(d, k))
      BY <2>1, <2>9, <3>2 DEF Settled, Unplanned, Quietly
    <3> QED BY <3>1, <3>2
  <2>11. TypeOK'
    <3>1. row' \in [Rows -> Row]
      BY <2>1, <2>9, SettledIsRow, TailIsUnsent
    <3> QED BY <1>2, <2>4, <2>6, <3>1 DEF SettleTails, TypeOK
  <2> QED BY <1>2, <2>6, <2>8, <2>10, <2>11, EmptyHanded DEF SettleTails
<1>3. CASE CancelSiblings(d)
  <2>1. drain' = [drain EXCEPT ![d] = AfterThePage(d)]
    BY <1>3 DEF CancelSiblings
  <2>2. drain'[d] = AfterThePage(d) /\ \A e \in Drains \ {d} : drain'[e] = drain[e]
    BY <2>1 DEF TypeOK
  <2>3. ASSUME NEW k \in Rows
        PROVE  \/ row'[k] = row[k]
               \/ /\ row[k].state \in Queued /\ row'[k].state = "cancelled" /\ row'[k] \in Row
                  /\ row'[k].created = row[k].created
    BY <1>3, EndsIsRow DEF CancelSiblings, Terminal
  <2>4. \A k \in Rows : Unplanned(k)
    BY <2>3 DEF Unplanned, Quietly, Queued
  <2>5. TypeOK'
    <3>1. row' = [k \in Rows |-> row'[k]]
      BY <1>3 DEF CancelSiblings
    <3>2. row' \in [Rows -> Row]
      BY <2>3, <3>1 DEF TypeOK
    <3> QED BY <1>3, <2>1, <3>2, AfterThePageIsEmpty DEF CancelSiblings, TypeOK
  <2> QED BY <1>3, <2>2, <2>4, <2>5, AfterThePageIsEmpty, EmptyHanded DEF CancelSiblings
<1> QED BY <1>2, <1>3

(* A claim takes rows that wait: nobody is sure of one, and none of a chat *)
(* that is there was accepted.                                             *)
LEMMA ClaimKeeps ==
    ASSUME IInv, NEW d \in Drains, Claim(d)
    PROVE  IInv'
<1> USE DEF IInv
<1>1. PICK scope \in {Jobs, Jobs \ FreezeJobs} \cup {{j} : j \in DirectJobs} :
      \E S \in SUBSET {k \in Rows : JobOf(k) \in scope /\ Claimable(k)} :
         /\ row' = [k \in Rows |-> IF k \in S THEN ClaimedRow(d, k) ELSE row[k]]
         /\ drain' = [drain EXCEPT ![d] =
                        IF S = {} THEN Fresh("idle", {})
                        ELSE [Fresh("gate", @.blocked) EXCEPT
                                !.page = S, !.full = (Cardinality(S) = PageSize)]]
  BY DEF Claim
<1>2. PICK S \in SUBSET {k \in Rows : JobOf(k) \in scope /\ Claimable(k)} :
         /\ row' = [k \in Rows |-> IF k \in S THEN ClaimedRow(d, k) ELSE row[k]]
         /\ drain' = [drain EXCEPT ![d] =
                        IF S = {} THEN Fresh("idle", {})
                        ELSE [Fresh("gate", @.blocked) EXCEPT
                                !.page = S, !.full = (Cardinality(S) = PageSize)]]
  BY <1>1
<1>3. drain[d] \in Drain /\ Shape(d, drain[d]) /\ drain[d].stage = "claim"
  BY DEF TypeOK, Once, Shapely, Claim
<1>4. \A k \in S : k \in Rows /\ row[k].state \in Queued
  BY DEF Claimable, Due
<1>5. row' \in [Rows -> Row]
  BY <1>2, ClaimedRowIsRow DEF TypeOK
<1>6. CASE S = {}
  <2>1. drain' = [drain EXCEPT ![d] = Fresh("idle", {})] /\ row' = row
    BY <1>2, <1>6 DEF TypeOK
  <2>2. Fresh("idle", {}) \in Drain /\ Fresh("idle", {}).page = {} /\ DOMAIN Fresh("idle", {}).wave = {}
    BY FreshIsDrain
  <2>3. TypeOK' /\ drain'[d] = Fresh("idle", {}) /\ \A e \in Drains \ {d} : drain'[e] = drain[e]
    BY <2>1, <2>2 DEF Claim, TypeOK
  <2> QED BY <2>1, <2>2, <2>3, EmptyHanded DEF Claim, Unplanned, Quietly
<1>7. CASE S # {}
  <2> DEFINE w1 == Fresh("gate", drain[d].blocked)
             w2 == [w1 EXCEPT !.page = S]
             w == [w2 EXCEPT !.full = (Cardinality(S) = PageSize)]
  <2>1. drain' = [drain EXCEPT ![d] = w]
    BY <1>2, <1>7
  <2>2. w1 \in Drain /\ w1.stage = "gate" /\ DOMAIN w1.wave = {}
    BY <1>3, FreshIsDrain DEF Drain
  <2> HIDE DEF w1
  <2>3. w2 \in Drain /\ w2.stage = "gate" /\ DOMAIN w2.wave = {} /\ w2.page = S
    BY <2>2 DEF Drain
  <2> HIDE DEF w2
  <2>4. w \in Drain /\ w.stage = "gate" /\ DOMAIN w.wave = {} /\ w.page = S
    <3> DEFINE full == (Cardinality(S) = PageSize)
    <3>1. full \in BOOLEAN
      OBVIOUS
    <3> HIDE DEF full
    <3> QED BY <2>3, <3>1 DEF Drain
  <2> HIDE DEF w
  <2>5. drain'[d] = w /\ \A e \in Drains \ {d} : drain'[e] = drain[e]
    BY <2>1 DEF TypeOK
  <2>6. chat' = chat /\ accepted' = accepted
    BY DEF Claim
  <2>7. TypeOK'
    BY <1>5, <2>1, <2>4 DEF Claim, TypeOK
  <2>8. \A k \in Rows : Live(k)' <=> Live(k)
    BY <2>6 DEF Live
  <2>9. \A k \in Rows : Sure(drain[d], k)' => k \in S /\ Live(k)
    BY <2>4, <2>5, <2>8 DEF Sure, Flying
  <2>10. \A k \in S : k \in Rows /\ row'[k].state = "sending" /\ row'[k].owner = d
    BY <1>2, ClaimedRowIsRow
  <2>11. \A k \in Rows \ S : row'[k] = row[k]
    BY <1>2
  <2>12. ASSUME NEW k \in S, Live(k)
         PROVE  accepted[k] = 0 /\ \A e \in Drains : ~Sure(drain[e], k)
    BY <1>4, <2>12 DEF Once, Kept, Honest, Tells, Mine, Queued
  <2>13. ASSUME NEW e \in Drains, NEW k \in Rows, Sure(drain[e], k)'
         PROVE  \/ e = d /\ k \in S /\ Live(k)
                \/ e # d /\ k \notin S /\ Sure(drain[e], k) /\ drain'[e] = drain[e]
                \/ e # d /\ ~Live(k) /\ Sure(drain[e], k) /\ drain'[e] = drain[e]
    <3>1. CASE e = d
      BY <2>5, <2>9, <2>13, <3>1
    <3>2. CASE e # d
      <4>1. Sure(drain[e], k) /\ drain'[e] = drain[e]
        BY <2>5, <2>8, <2>13, <3>2 DEF Sure, Flying
      <4> QED BY <2>12, <3>2, <4>1
    <3> QED BY <3>1, <3>2
  <2>14. Shapely'
    <3>1. Shape(d, drain[d])'
      BY <2>4, <2>5 DEF Shape
    <3>2. ASSUME NEW e \in Drains \ {d}
          PROVE  Shape(e, drain[e])'
      <4>1. Shape(e, drain[e]) /\ drain'[e] = drain[e] /\ DOMAIN drain[e].wave \subseteq Rows
        BY <2>5, WaveTypes DEF Once, Shapely
      <4>2. \A k \in Rows : ~Mine(e, k) => ~Mine(e, k)'
        BY <2>10, <2>11 DEF Mine
      <4> QED BY <4>1, <4>2 DEF Shape
    <3> QED BY <3>1, <3>2 DEF Shapely
  <2>15. Alone'
    BY <2>12, <2>13 DEF Once, Alone
  <2>16. ASSUME NEW e \in Drains, NEW k \in Rows, Sure(drain[e], k)', Live(k)'
         PROVE  (Mine(e, k) \/ row[k].state = "unknown")'
    BY <2>8, <2>10, <2>11, <2>13, <2>16 DEF Once, Kept, Mine
  <2>17. ASSUME NEW e \in Drains, NEW k \in Rows, Sure(drain[e], k)'
         PROVE  Heard(drain[e], k)'
    <3>1. CASE e = d
      BY <2>4, <2>5, <2>6, <2>12, <2>13, <2>17, <3>1 DEF Heard, Flying
    <3>2. CASE e # d
      BY <2>6, <2>13, <2>17, <3>2 DEF Once, Unsent, Heard, Flying
    <3> QED BY <3>1, <3>2
  <2>18. ASSUME NEW k \in Rows
         PROVE  Tells(k)'
    BY <2>6, <2>8, <2>10, <2>11, <2>12 DEF Once, Honest, Tells
  <2>19. Once'
    BY <2>14, <2>15, <2>16, <2>17, <2>18 DEF Once, Kept, Unsent, Honest
  <2>20. \A k \in Rows : row'[k].state \in Prior => Remains(k)
    <3>1. \A k \in S : row'[k].created = row[k].created
      BY <1>2, <2>10, ClaimedRowIsRow
    <3> QED BY <1>4, <2>11, <3>1 DEF Remains, Prior, Open
  <2> QED BY <2>7, <2>8, <2>19, <2>20, TwinsKept
<1> QED BY <1>6, <1>7

(* Only what one drain is sure of is sent, and of that nothing was.        *)
LEMMA SendKeeps ==
    ASSUME IInv, NEW d \in Drains, SendWave(d)
    PROVE  IInv'
<1> USE DEF IInv
<1>1. PICK W \in SUBSET Heads(d) : \E o \in [W -> Answers \cup Skips] :
         /\ \E unheard \in SUBSET {k \in W : o[k] = "ambiguous"} :
               accepted' = [k \in Rows |-> IF k \in unheard \cup {l \in W : o[l] = "ok"}
                                           THEN accepted[k] + 1 ELSE accepted[k]]
         /\ drain' = [drain EXCEPT ![d].stage = "flight", ![d].wave = o, ![d].page = @ \ W,
                                   ![d].crossed = @ \cup {k \in W : o[k] \in Answers}]
  BY DEF SendWave
<1>2. PICK o \in [W -> Answers \cup Skips] :
         /\ \E unheard \in SUBSET {k \in W : o[k] = "ambiguous"} :
               accepted' = [k \in Rows |-> IF k \in unheard \cup {l \in W : o[l] = "ok"}
                                           THEN accepted[k] + 1 ELSE accepted[k]]
         /\ drain' = [drain EXCEPT ![d].stage = "flight", ![d].wave = o, ![d].page = @ \ W,
                                   ![d].crossed = @ \cup {k \in W : o[k] \in Answers}]
  BY <1>1
<1>3. PICK unheard \in SUBSET {k \in W : o[k] = "ambiguous"} :
         accepted' = [k \in Rows |-> IF k \in unheard \cup {l \in W : o[l] = "ok"}
                                     THEN accepted[k] + 1 ELSE accepted[k]]
  BY <1>2
<1>4. drain[d] \in Drain /\ drain[d].stage = "send" /\ row' = row /\ chat' = chat
  BY DEF TypeOK, SendWave
<1>5. W \subseteq drain[d].page /\ W \subseteq Rows
  BY WaveTypes DEF Heads
<1>6. \A k \in W : Sure(drain[d], k) /\ accepted[k] = 0
  BY <1>4, <1>5 DEF Sure, Once, Unsent, Heard
<1> DEFINE sent == {k \in W : o[k] \in Answers}
           w1 == [drain[d] EXCEPT !.stage = "flight"]
           w2 == [w1 EXCEPT !.wave = o]
           w3 == [w2 EXCEPT !.page = drain[d].page \ W]
           w == [w3 EXCEPT !.crossed = drain[d].crossed \cup sent]
<1>7. drain' = [drain EXCEPT ![d] = w]
  BY <1>2
<1>8. o \in UNION {[V -> Answers \cup Skips] : V \in SUBSET Rows} /\ DOMAIN o = W
  BY <1>5
<1>9. sent \subseteq Rows /\ \A k \in W : o[k] \in Answers => k \in sent
  BY <1>5
<1>10. w1 \in Drain /\ w1.stage = "flight"
  BY <1>4 DEF Drain
<1> HIDE DEF w1, sent
<1>11. w2 \in Drain /\ w2.stage = "flight" /\ w2.wave = o
  <2> HIDE DEF Answers, Skips
  <2> QED BY <1>8, <1>10 DEF Drain
<1> HIDE DEF w2
<1>12. w3 \in Drain /\ w3.stage = "flight" /\ w3.wave = o /\ w3.page = drain[d].page \ W
  BY <1>4, <1>11 DEF Drain
<1> HIDE DEF w3
<1>13. /\ w \in Drain /\ w.stage = "flight" /\ w.wave = o /\ w.page = drain[d].page \ W
       /\ \A k \in W : o[k] \in Answers => k \in w.crossed
  BY <1>4, <1>9, <1>12 DEF Drain
<1> HIDE DEF w
<1>14. drain'[d] = w /\ \A e \in Drains \ {d} : drain'[e] = drain[e]
  BY <1>7 DEF TypeOK
<1>15. /\ \A k \in W : accepted'[k] \in {0, 1} /\ (o[k] = "ok" => accepted'[k] = 1)
                      /\ (o[k] \notin {"ok", "ambiguous"} => accepted'[k] = 0)
       /\ \A k \in Rows \ W : accepted'[k] = accepted[k]
       /\ accepted' \in [Rows -> Nat]
  BY <1>3, <1>5, <1>6 DEF TypeOK
<1>16. TypeOK'
  BY <1>7, <1>13, <1>15 DEF SendWave, TypeOK
<1>17. \A k \in Rows : Live(k)' <=> Live(k)
  BY <1>4 DEF Live
<1>18. ASSUME NEW e \in Drains, NEW k \in Rows, Sure(drain[e], k)'
       PROVE  Sure(drain[e], k) /\ (k \in W => e = d)
  <2>1. CASE e = d
    BY <1>4, <1>5, <1>8, <1>13, <1>14, <1>18, <2>1 DEF Sure, Flying
  <2>2. CASE e # d
    <3>1. Sure(drain[e], k)
      BY <1>14, <1>17, <1>18, <2>2 DEF Sure, Flying
    <3> QED BY <1>6, <2>2, <3>1 DEF Once, Alone
  <2> QED BY <2>1, <2>2
<1>19. Shapely'
  <2>1. Shape(d, drain[d])'
    BY <1>8, <1>13, <1>14 DEF Shape
  <2>2. \A e \in Drains \ {d} : Shape(e, drain[e])'
    BY <1>4, <1>14 DEF Once, Shapely, Shape, Mine
  <2> QED BY <2>1, <2>2 DEF Shapely
<1>20. Alone'
  BY <1>18 DEF Once, Alone
<1>21. Kept'
  BY <1>4, <1>17, <1>18 DEF Once, Kept, Mine
<1>22. ASSUME NEW e \in Drains, NEW k \in Rows, Sure(drain[e], k)'
       PROVE  Heard(drain[e], k)'
  <2>1. CASE e = d /\ k \in W
    BY <1>8, <1>13, <1>14, <1>15, <2>1 DEF Heard, Flying
  <2>2. CASE e = d /\ k \notin W
    BY <1>4, <1>8, <1>13, <1>14, <1>15, <1>18, <1>22, <2>2 DEF Heard, Flying, Once, Unsent
  <2>3. CASE e # d
    <3>1. k \notin W /\ Heard(drain[e], k)
      BY <1>18, <1>22, <2>3 DEF Once, Unsent
    <3> QED BY <1>14, <1>15, <2>3, <3>1 DEF Heard, Flying
  <2> QED BY <2>1, <2>2, <2>3
<1>23. ASSUME NEW k \in Rows
       PROVE  Tells(k)'
  <2>1. CASE k \in W
    <3>1. Live(k) => row[k].state \in {"sending", "unknown"}
      BY <1>6, <2>1 DEF Once, Kept, Mine
    <3>2. row[k].state # "sent"
      BY <1>6, <2>1 DEF Once, Honest, Tells
    <3> QED BY <1>4, <1>15, <1>17, <2>1, <3>1, <3>2 DEF Tells
  <2>2. CASE k \notin W
    BY <1>4, <1>15, <1>17, <2>2 DEF Once, Honest, Tells
  <2> QED BY <2>1, <2>2
<1>24. Once'
  BY <1>19, <1>20, <1>21, <1>22, <1>23 DEF Once, Unsent, Honest
<1>25. \A k \in Rows : row'[k].state \in Prior => Remains(k)
  BY <1>4 DEF Remains
<1> QED BY <1>4, <1>16, <1>17, <1>24, <1>25, TwinsKept

(* The answers are settled by what they say.                               *)
LEMMA ClassifiedIsRow ==
    ASSUME TypeOK, NEW k \in Rows, NEW why \in Answers \cup Skips
    PROVE  /\ Classify(k, why) \in Row /\ Classify(k, why).owner = None
           /\ Classify(k, why).state \in {"retry"} \cup Terminal
           /\ Classify(k, why).state = "sent" => why = "ok"
           /\ why = "ok" => Classify(k, why).state = "sent"
           /\ why = "ambiguous" => Classify(k, why).state = "unknown"
           /\ Classify(k, why).created = row[k].created
<1>1. BackoffSec(why) \in Nat
  BY NumbersAreNatural DEF BackoffSec
<1> HIDE DEF BackoffSec
<1>2. \A s \in Terminal : /\ Ends(k, s) \in Row /\ Ends(k, s).state = s /\ Ends(k, s).owner = None
                           /\ Ends(k, s).created = row[k].created
  BY EndsIsRow
<1>3. \A delay \in Nat, tried \in {0, 1} :
         /\ Retries(k, delay, tried) \in Row /\ Retries(k, delay, tried).created = row[k].created
         /\ Retries(k, delay, tried).state = "retry" /\ Retries(k, delay, tried).owner = None
  BY RetriesIsRow
<1>4. CASE why = "ok"
  BY <1>2, <1>4 DEF Classify, Terminal
<1>5. CASE why = "ambiguous"
  BY <1>2, <1>5 DEF Classify, Terminal
<1>6. CASE why = "blocked"
  BY <1>2, <1>6 DEF Classify, Terminal
<1>7. CASE why = "permanent"
  BY <1>2, <1>7 DEF Classify, Terminal
<1>8. CASE why \in {"rateLimit", "retryable"}
  <2>1. Classify(k, why) = IF row[k].attempts + 1 < MaxAttempts
                           THEN Retries(k, BackoffSec(why), 1) ELSE Ends(k, "failed")
    BY <1>8 DEF Classify
  <2> QED BY <1>1, <1>2, <1>3, <1>8, <2>1 DEF Terminal
<1>9. CASE why = "retracted"
  BY <1>2, <1>9 DEF Classify, Terminal
<1>10. CASE why = "held"
  BY <1>3, <1>10, NumbersAreNatural DEF Classify
<1>11. CASE why = "late"
  BY <1>3, <1>11 DEF Classify
<1> QED BY <1>4, <1>5, <1>6, <1>7, <1>8, <1>9, <1>10, <1>11 DEF Answers, Skips

LEMMA SettleKeeps ==
    ASSUME IInv, NEW d \in Drains, SettleWave(d)
    PROVE  IInv'
<1> USE DEF IInv
<1> DEFINE wave == drain[d].wave
           Of(why) == {k \in DOMAIN wave : wave[k] = why}
           verdict == [k \in DOMAIN wave |-> Classify(k, wave[k])]
           limited == Of("rateLimit") # {}
           blocked == drain[d].blocked \cup {ChatOf(k) : k \in Of("blocked")}
           failed == [c \in Chats |->
                        IF \E k \in DOMAIN wave \ Of("ok") : ChatOf(k) = c
                        THEN LET k == CHOOSE k \in DOMAIN wave \ Of("ok") : ChatOf(k) = c
                             IN  [why |-> wave[k], job |-> JobOf(k)]
                        ELSE drain[d].failed[c]]
           w1 == [drain[d] EXCEPT !.stage = IF limited THEN "backoff" ELSE "send"]
           w2 == [w1 EXCEPT !.wave = IF limited THEN wave ELSE EmptyWave]
           w3 == [w2 EXCEPT !.blocked = blocked]
           w == [w3 EXCEPT !.failed = failed]
<1>1. row' = Settled(d, verdict)
  BY DEF SettleWave
<1>2. drain' = [drain EXCEPT ![d] = w]
  BY DEF SettleWave
<1>3. /\ drain[d] \in Drain /\ Shape(d, drain[d]) /\ drain[d].stage = "flight"
      /\ chat' = chat /\ accepted' = accepted
  BY DEF TypeOK, Once, Shapely, SettleWave
<1>4. DOMAIN wave \subseteq Rows /\ \A k \in DOMAIN wave : wave[k] \in Answers \cup Skips
  BY WaveTypes
<1>5. blocked \in SUBSET Chats
  BY <1>3, <1>4, RowFields DEF Drain
<1>6. failed \in [Chats -> Failure]
  <2>1. ASSUME NEW c \in Chats
        PROVE  failed[c] \in Failure
    <3>1. CASE \E k \in DOMAIN wave \ Of("ok") : ChatOf(k) = c
      <4> DEFINE k == CHOOSE k \in DOMAIN wave \ Of("ok") : ChatOf(k) = c
      <4>1. k \in DOMAIN wave \ Of("ok")
        BY <3>1
      <4>2. failed[c] = [why |-> wave[k], job |-> JobOf(k)]
        BY <3>1
      <4>3. k \in Rows /\ wave[k] \in (Answers \cup Skips) \ {"ok"} /\ JobOf(k) \in Jobs
        BY <1>4, <4>1, RowFields
      <4> HIDE DEF k, failed, wave, Answers, Skips
      <4> QED BY <4>2, <4>3 DEF Failure
    <3>2. CASE ~\E k \in DOMAIN wave \ Of("ok") : ChatOf(k) = c
      <4>1. failed[c] = drain[d].failed[c]
        BY <3>2
      <4> HIDE DEF failed
      <4> QED BY <1>3, <4>1 DEF Drain
    <3> QED BY <3>1, <3>2
  <2> QED BY <2>1
<1>7. DOMAIN verdict = DOMAIN wave /\ \A k \in DOMAIN wave : verdict[k] = Classify(k, wave[k])
  OBVIOUS
<1>8. wave \in UNION {[W -> Answers \cup Skips] : W \in SUBSET Rows}
  BY <1>3 DEF Drain
<1> HIDE DEF verdict, blocked, failed, limited, wave
<1>9. w1 \in Drain /\ w1.stage \in {"backoff", "send"} /\ w1.page = drain[d].page
      /\ w1.stage = (IF limited THEN "backoff" ELSE "send")
  BY <1>3 DEF Drain
<1> HIDE DEF w1
<1>10. /\ w2 \in Drain /\ w2.stage = w1.stage /\ w2.page = drain[d].page
       /\ w2.wave = IF limited THEN wave ELSE EmptyWave
  <2>1. (IF limited THEN wave ELSE EmptyWave) \in UNION {[W -> Answers \cup Skips] : W \in SUBSET Rows}
    BY <1>8, FreshIsDrain
  <2> DEFINE kept == IF limited THEN wave ELSE EmptyWave
  <2> HIDE DEF kept, EmptyWave, Answers, Skips
  <2> QED BY <1>9, <2>1 DEF Drain, kept
<1> HIDE DEF w2
<1>11. w3 \in Drain /\ w3.stage = w2.stage /\ w3.page = w2.page /\ w3.wave = w2.wave
  BY <1>5, <1>10 DEF Drain
<1> HIDE DEF w3
<1>12. w \in Drain /\ w.stage = w3.stage /\ w.page = w3.page /\ w.wave = w3.wave
  <2> HIDE DEF Failure
  <2> QED BY <1>6, <1>11 DEF Drain
<1> HIDE DEF w
<1>13. /\ w.stage \in {"backoff", "send"} /\ w.page = drain[d].page
       /\ DOMAIN w.wave = IF w.stage = "backoff" THEN DOMAIN wave ELSE {}
  BY <1>9, <1>10, <1>11, <1>12, FreshIsDrain
<1>14. drain'[d] = w /\ \A e \in Drains \ {d} : drain'[e] = drain[e]
  BY <1>2 DEF TypeOK
<1>15. TypeOK'
  <2>1. row' \in [Rows -> Row]
    <3> HIDE DEF Answers, Skips
    <3> QED BY <1>1, <1>4, <1>7, ClassifiedIsRow, SettledIsRow
  <2>2. UNCHANGED <<now, job, gate, chat, fan, accepted, faults>>
    BY DEF SettleWave
  <2> QED BY <1>2, <1>12, <2>1, <2>2 DEF TypeOK
<1>16. ASSUME NEW k \in Rows
       PROVE  /\ k \in DOMAIN wave /\ Mine(d, k) => row'[k] = Classify(k, wave[k])
              /\ ~(k \in DOMAIN wave /\ Mine(d, k)) => row'[k] = row[k]
  BY <1>1, <1>7 DEF Settled
<1>17. ASSUME NEW k \in Rows
       PROVE  Unplanned(k) \/ Settles(d, k)
  <2>1. CASE k \in DOMAIN wave /\ Mine(d, k)
    <3>1. row'[k] = Classify(k, wave[k]) /\ wave[k] \in Answers \cup Skips
      BY <1>4, <1>16, <2>1
    <3>2. Flying(drain[d], k) /\ Sure(drain[d], k)
      BY <1>3, <2>1 DEF Flying, Sure, wave
    <3>3. Heard(drain[d], k) /\ k \notin drain[d].page
      BY <1>3, <2>1, <3>2 DEF Once, Unsent, Shape, wave
    <3>4. ~Sure(drain'[d], k)
      BY <1>13, <1>14, <3>3 DEF Sure, Flying
    <3>5. /\ wave[k] = "ok" => accepted[k] = 1
          /\ accepted[k] = 1 => wave[k] \in {"ok", "ambiguous"}
      BY <3>2, <3>3 DEF Heard, wave
    <3>6. /\ row'[k].owner = None /\ row'[k].state \in {"retry"} \cup Terminal
          /\ row'[k].created = row[k].created
          /\ row'[k].state = "sent" => wave[k] = "ok"
          /\ wave[k] = "ok" => row'[k].state = "sent"
          /\ wave[k] = "ambiguous" => row'[k].state = "unknown"
      <4> HIDE DEF Answers, Skips, wave
      <4> QED BY <3>1, ClassifiedIsRow
    <3> QED BY <2>1, <3>4, <3>5, <3>6 DEF Settles, Queued
  <2>2. CASE ~(k \in DOMAIN wave /\ Mine(d, k))
    BY <1>16, <2>2 DEF Unplanned, Quietly
  <2> QED BY <2>1, <2>2
<1>18. \A k \in Rows : Retains(d, k)
  BY <1>3, <1>13, <1>14 DEF Retains, Sure, Flying
<1>19. Shape(d, drain[d])'
  <2>1. ASSUME NEW k \in DOMAIN wave
        PROVE  ~Mine(d, k)'
    <3>1. CASE Mine(d, k)
      <4>1. k \in Rows /\ row'[k] = Classify(k, wave[k]) /\ wave[k] \in Answers \cup Skips
        BY <1>4, <1>16, <3>1
      <4>2. row'[k].owner = None
        <5> HIDE DEF Answers, Skips, wave
        <5> QED BY <4>1, ClassifiedIsRow
      <4> QED BY <4>2, KindAssumption DEF Mine
    <3>2. CASE ~Mine(d, k)
      BY <1>4, <1>16, <3>2 DEF Mine
    <3> QED BY <3>1, <3>2
  <2> QED BY <1>13, <1>14, <2>1 DEF Shape
<1> QED BY <1>3, <1>14, <1>15, <1>17, <1>18, <1>19, DrainKept

LEMMA BackoffKeeps ==
    ASSUME IInv, NEW d \in Drains, NEW written \in BOOLEAN, RaiseBackoff(d, written),
           faults' \in 0 .. MaxFaults
    PROVE  IInv'
<1> USE DEF IInv
<1> DEFINE limited == {ChatOf(k) : k \in {k \in DOMAIN drain[d].wave : drain[d].wave[k] = "rateLimit"}}
           until == now + AtLeast(1, RetryAfter)
           flood == Cardinality(limited) >= FloodChats
           held == IF flood THEN until ELSE 0
           w1 == [drain[d] EXCEPT !.stage = "send"]
           w2 == [w1 EXCEPT !.wave = EmptyWave]
           w == [w2 EXCEPT !.flood = held]
<1>1. /\ row' = [k \in Rows |->
                    IF ChatOf(k) \in limited /\ row[k].state \in Queued
                    THEN [row[k] EXCEPT !.next = AtLeast(@, now + RetryAfter)] ELSE row[k]]
      /\ gate' = IF flood /\ written THEN AtLeast(gate, until) ELSE gate
      /\ drain' = [drain EXCEPT ![d] = w]
  BY DEF RaiseBackoff
<1>2. until \in Nat
  BY NumbersAreNatural DEF AtLeast, TypeOK
<1> HIDE DEF limited, flood, until
<1>3. held \in Nat
  BY <1>2
<1>4. gate' \in Nat
  BY <1>1, <1>2 DEF AtLeast, TypeOK
<1>5. drain[d] \in Drain /\ drain[d].stage = "backoff" /\ chat' = chat /\ accepted' = accepted
  BY DEF TypeOK, RaiseBackoff
<1>6. w1 \in Drain /\ w1.stage = "send" /\ w1.page = drain[d].page
  BY <1>5 DEF Drain
<1> HIDE DEF w1, held
<1>7. w2 \in Drain /\ w2.stage = "send" /\ w2.page = drain[d].page /\ DOMAIN w2.wave = {}
  <2>1. DOMAIN EmptyWave = {} /\ EmptyWave \in UNION {[W -> Answers \cup Skips] : W \in SUBSET Rows}
    BY FreshIsDrain
  <2> HIDE DEF EmptyWave, Answers, Skips
  <2> QED BY <1>6, <2>1 DEF Drain
<1> HIDE DEF w2
<1>8. w \in Drain /\ w.stage = "send" /\ w.page = drain[d].page /\ DOMAIN w.wave = {}
  BY <1>3, <1>7 DEF Drain
<1> HIDE DEF w
<1>9. drain'[d] = w /\ \A e \in Drains \ {d} : drain'[e] = drain[e]
  BY <1>1 DEF TypeOK
<1>10. ASSUME NEW k \in Rows
       PROVE  row'[k] \in Row /\ Unplanned(k)
  <2> DEFINE later == AtLeast(row[k].next, now + RetryAfter)
             r == [row[k] EXCEPT !.next = later]
  <2>1. later \in Nat /\ row[k] \in Row
    BY NumbersAreNatural DEF AtLeast, TypeOK, Row
  <2>2. row'[k] = row[k] \/ (row[k].state \in Queued /\ row'[k] = r)
    BY <1>1
  <2> HIDE DEF later
  <2>3. r \in Row /\ r.state = row[k].state /\ r.created = row[k].created
    BY <2>1 DEF Row
  <2> HIDE DEF r
  <2> QED BY <2>1, <2>2, <2>3 DEF Unplanned, Quietly, Queued
<1>11. TypeOK'
  <2>1. row' \in [Rows -> Row]
    BY <1>1, <1>10
  <2>2. UNCHANGED <<now, job, chat, fan, accepted>>
    BY DEF RaiseBackoff
  <2>3. drain' \in [Drains -> Drain]
    BY <1>1, <1>8 DEF TypeOK
  <2> QED BY <1>4, <2>1, <2>2, <2>3 DEF TypeOK
<1>12. \A k \in Rows : Retains(d, k)
  BY <1>5, <1>8, <1>9 DEF Retains, Sure, Flying
<1>13. Shape(d, drain[d])'
  BY <1>8, <1>9 DEF Shape
<1> QED BY <1>5, <1>9, <1>10, <1>11, <1>12, <1>13, DrainKept

-----------------------------------------------------------------------------
LEMMA InvInit == Init => IInv
<1> SUFFICES ASSUME Init
             PROVE  IInv
  OBVIOUS
<1>1. DOMAIN EmptyWave = {} /\ Fresh("idle", {}) \in Drain
  BY FreshIsDrain
<1>2. TypeOK
  BY <1>1, NoRowIsRow, IdleFanIsFan, NumbersAreNatural DEF Init, TypeOK, Job
<1>3. \A d \in Drains :
         /\ drain[d].page = {} /\ DOMAIN drain[d].wave = {} /\ drain[d].stage = "idle"
         /\ \A k \in Rows : ~Sure(drain[d], k)
  BY <1>1 DEF Init, Fresh, Sure, Flying
<1>4. \A k \in Rows : accepted[k] = 0 /\ row[k].state = "absent"
  BY NoRowIsRow DEF Init
<1>5. Once
  BY <1>3, <1>4 DEF Once, Shapely, Shape, Alone, Kept, Unsent, Honest, Tells
<1>6. OneOfTwins
  BY <1>3, <1>4 DEF OneOfTwins, Prior, Open, Queued
<1> QED BY <1>2, <1>5, <1>6 DEF IInv

LEMMA DrainKeeps ==
    ASSUME IInv, NEW d \in Drains, DrainStep(d)
    PROVE  IInv'
<1>1. CASE RaiseBackoff(d, TRUE) /\ UNCHANGED faults
  BY <1>1, BackoffKeeps DEF IInv, TypeOK
<1> QED BY <1>1, StartStopKeep, ClaimKeeps, GateKeeps, SendKeeps, SettleKeeps, TailsKeep DEF DrainStep

LEMMA InvStep == IInv /\ [Next]_vars => IInv'
<1> SUFFICES ASSUME IInv, [Next]_vars
             PROVE  IInv'
  OBVIOUS
<1>1. ASSUME NEW j \in Jobs, CloseJob(j)
      PROVE  IInv'
  <2>1. TypeOK'
    BY <1>1 DEF CloseJob, IInv, TypeOK, Job
  <2> QED BY <1>1, <2>1, SameRowsKeep DEF CloseJob, Live
<1>2. ASSUME NEW c \in Chats, Subscribe(c)
      PROVE  IInv'
  <2>1. TypeOK'
    BY <1>2 DEF Subscribe, IInv, TypeOK
  <2>2. \A k \in Rows : Live(k)' <=> Live(k)
    BY <1>2, RowFields DEF Subscribe, Live, IInv, TypeOK
  <2> QED BY <1>2, <2>1, <2>2, SameRowsKeep DEF Subscribe
<1>3. CASE Fault
  <2>1. faults' \in 0 .. MaxFaults
    BY <1>3, NumbersAreNatural DEF Fault, IInv, TypeOK
  <2>2. ASSUME NEW f \in Fanouts, FanFails(f)
        PROVE  IInv'
    <3>1. TypeOK'
      BY <2>1, <2>2, IdleFanIsFan DEF FanFails, IInv, TypeOK
    <3> QED BY <2>2, <3>1, SameRowsKeep DEF FanFails, Live
  <2> QED BY <1>3, <2>1, <2>2, BackoffKeeps, ThrowKeeps DEF Fault
<1>4. CASE Tick \/ UNCHANGED vars
  <2>1. TypeOK'
    BY <1>4 DEF Tick, vars, IInv, TypeOK
  <2> QED BY <1>4, <2>1, SameRowsKeep DEF Tick, vars, Live
<1> QED BY <1>1, <1>2, <1>3, <1>4, EnqueueKeeps, CancelRetractedKeeps, FanKeeps, DrainKeeps,
           SweepKeeps, ForgetKeeps DEF Next

(* Every variable keeps its type.                                          *)
THEOREM Typed == Spec => []TypeOK
<1>1. IInv => TypeOK
  BY DEF IInv
<1> QED BY <1>1, InvInit, InvStep, PTL DEF Spec

(* However many drains run, are overtaken, throw or die, and whatever      *)
(* /forget and late fan-outs do to the rows under them,                    *)
(* drainTelegramDeliveries sends no message that Telegram accepted before. *)
THEOREM SentAtMostOnce == Spec => []AtMostOnce
<1>1. IInv => AtMostOnce
  BY DEF IInv, Once, Honest, Tells, AtMostOnce
<1> QED BY <1>1, InvInit, InvStep, PTL DEF Spec

(* The state of a telegram_deliveries row never contradicts what Telegram  *)
(* did with the message.                                                   *)
THEOREM AuditIsHonest == Spec => []HonestOutcome
<1>1. IInv => HonestOutcome
  BY DEF IInv, Once, Honest, Tells, Live, HonestOutcome
<1> QED BY <1>1, InvInit, InvStep, PTL DEF Spec

(* Two alert jobs whose messages read the same and were planned for a chat *)
(* within TELEGRAM_DUPLICATE_BODY_WINDOW_SEC of each other do not both     *)
(* reach it while it is subscribed, whichever is planned or sent first.    *)
THEOREM NothingSaidTwice == Spec => []SaidOnce
<1>1. IInv => SaidOnce
  <2> SUFFICES ASSUME IInv, NEW k \in Rows, NEW l \in Rows, Twins(k, l), chat[ChatOf(k)] = "in", Near(k, l)
               PROVE  accepted[k] + accepted[l] <= 1
    BY DEF SaidOnce, Twins, Near
  <2>1. accepted[k] \in {0, 1} /\ accepted[l] \in {0, 1}
    BY DEF IInv, Once, Honest, Tells
  <2>2. Live(k) /\ Live(l)
    BY DEF Live, Twins
  <2>3. /\ accepted[k] = 1 => row[k].state \in Prior
        /\ accepted[l] = 1 => row[l].state \in Prior
    BY <2>2 DEF IInv, Once, Honest, Tells, Prior, Open
  <2>4. ~(accepted[k] = 1 /\ accepted[l] = 1)
    BY <2>2, <2>3 DEF IInv, OneOfTwins
  <2> QED BY <2>1, <2>4
<1> QED BY <1>1, InvInit, InvStep, PTL DEF Spec

-----------------------------------------------------------------------------
(* The order of a message's chunks.                                        *)

Present(k) == row[k].state # "absent"
Together(l, k) ==
    /\ LowerChunk(l, k) /\ Live(k)
    /\ Present(k) /\ Present(l) /\ row[k].created = row[l].created

(* What a drain knows of a lower chunk while a higher one is in its page.  *)
Ahead(w, l) ==
    \/ l \in w.page \/ accepted[l] > 0
    \/ w.failed[ChatOf(l)] # NoFailure
    \/ Flying(w, l)

(* No chunk is there without those below it.                               *)
ClosedDown == \A k, l \in Rows : LowerChunk(l, k) /\ Live(k) /\ Present(k) => Present(l)
Queue == \A d \in Drains : \A k \in drain[d].page : \A l \in Rows : Together(l, k) => Ahead(drain[d], l)
Ordered == \A k, l \in Rows : Together(l, k) /\ accepted[k] > 0 => accepted[l] > 0
OrderInv == ClosedDown /\ Queue /\ Ordered

LEMMA LowerIsSameMessage ==
    ASSUME NEW k \in Rows, NEW l \in Rows, LowerChunk(l, k)
    PROVE  /\ ChatOf(l) = ChatOf(k) /\ JobOf(l) = JobOf(k) /\ SeqOf(l) < SeqOf(k)
           /\ Live(l) <=> Live(k)
BY DEF LowerChunk, SameMessage, Live

(* What was accepted for a chat that is there, and what a drain holds for  *)
(* it, is a row that is there.                                             *)
LEMMA HeldIsPresent ==
    ASSUME IInv, NEW k \in Rows, Live(k)
    PROVE  /\ accepted[k] > 0 => Present(k)
           /\ \A d \in Drains : Sure(drain[d], k) => Present(k)
           /\ \A d \in Drains : k \in drain[d].page => Present(k)
BY DEF IInv, Once, Honest, Tells, Kept, Sure, Mine, Present

Endures(k) == Present(k) => Present(k)' /\ row'[k].created = row[k].created
Queues(d) ==
    \A k \in drain'[d].page :
        Live(k) => Present(k) /\ \A l \in Rows : Together(l, k) => Ahead(drain[d], l)'

LEMMA OrderKept ==
    ASSUME IInv, OrderInv, TypeOK',
           \A k \in Rows : Live(k)' => Live(k) /\ Endures(k),
           \A k, l \in Rows :
               LowerChunk(l, k) /\ Live(k)' /\ ~Present(k) /\ Present(k)' => Present(l)',
           \A k \in Rows : accepted[k] > 0 => accepted'[k] > 0,
           \A k \in Rows :
               accepted'[k] > 0 => \/ accepted[k] > 0
                                   \/ Live(k) => /\ Present(k)
                                                 /\ \A l \in Rows : Together(l, k) => accepted[l] > 0,
           \A d \in Drains : Queues(d)
    PROVE  OrderInv'
<1>1. ASSUME NEW k \in Rows, NEW l \in Rows, Together(l, k)', Present(k)
      PROVE  Together(l, k)
  <2>1. LowerChunk(l, k) /\ Live(k)' /\ Live(k) /\ Endures(k)
    BY <1>1 DEF Together, LowerChunk, SameMessage
  <2>2. Present(l) /\ Live(l)' /\ Endures(l)
    BY <1>1, <2>1 DEF OrderInv, ClosedDown, LowerChunk, SameMessage, Live
  <2> QED BY <1>1, <2>1, <2>2 DEF Together, Endures
<1>2. ClosedDown'
  <2> SUFFICES ASSUME NEW k \in Rows, NEW l \in Rows, LowerChunk(l, k), Live(k)', Present(k)'
               PROVE  Present(l)'
    BY DEF ClosedDown, LowerChunk, SameMessage
  <2>1. CASE Present(k)
    <3>1. Present(l) /\ Live(l)'
      BY <2>1, LowerIsSameMessage DEF OrderInv, ClosedDown, Live
    <3> QED BY <3>1 DEF Endures
  <2>2. CASE ~Present(k)
    BY <2>2
  <2> QED BY <2>1, <2>2
<1>3. Queue'
  <2> SUFFICES ASSUME NEW d \in Drains, NEW k \in drain'[d].page, NEW l \in Rows, Together(l, k)'
               PROVE  Ahead(drain[d], l)'
    BY DEF Queue
  <2>1. k \in Rows
    BY DEF TypeOK, Drain
  <2>2. Live(k)
    BY <2>1 DEF Together
  <2>3. Present(k) /\ (Together(l, k) => Ahead(drain[d], l)')
    BY <2>2 DEF Queues
  <2> QED BY <1>1, <2>1, <2>3
<1>4. Ordered'
  <2> SUFFICES ASSUME NEW k \in Rows, NEW l \in Rows, Together(l, k)', accepted'[k] > 0
               PROVE  accepted'[l] > 0
    BY DEF Ordered
  <2>1. Live(k)
    BY DEF Together
  <2>2. CASE accepted[k] > 0
    BY <1>1, <2>1, <2>2, HeldIsPresent DEF OrderInv, Ordered
  <2>3. CASE ~(accepted[k] > 0)
    BY <1>1, <2>1, <2>3
  <2> QED BY <2>2, <2>3
<1> QED BY <1>2, <1>3, <1>4 DEF OrderInv

(* A drain that does not move keeps its queues, whatever the others do.    *)
LEMMA StillQueues ==
    ASSUME IInv, OrderInv, NEW d \in Drains, drain'[d] = drain[d],
           \A k \in Rows : accepted[k] > 0 => accepted'[k] > 0
    PROVE  Queues(d)
<1> SUFFICES ASSUME NEW k \in drain[d].page, Live(k)
             PROVE  Present(k) /\ \A l \in Rows : Together(l, k) => Ahead(drain[d], l)'
  BY DEF Queues
<1>1. k \in Rows
  BY WaveTypes DEF IInv
<1>2. Present(k)
  BY <1>1, HeldIsPresent
<1>3. ASSUME NEW l \in Rows, Together(l, k)
      PROVE  Ahead(drain[d], l)'
  <2>1. Ahead(drain[d], l)
    BY <1>3 DEF OrderInv, Queue
  <2> QED BY <2>1 DEF Ahead, Flying
<1> QED BY <1>2, <1>3

(* A step of no drain that plans nothing, and one that plans.              *)
LEMMA RowsKeepOrder ==
    ASSUME IInv, OrderInv, TypeOK', UNCHANGED <<drain, accepted>>,
           \A k \in Rows : Live(k)' => Live(k) /\ Endures(k) /\ (Present(k)' => Present(k))
    PROVE  OrderInv'
<1>1. \A d \in Drains : Queues(d)
  BY StillQueues
<1> QED BY <1>1, OrderKept

LEMMA InsertionKeepsOrder ==
    ASSUME IInv, OrderInv, TypeOK', UNCHANGED <<drain, accepted, chat>>,
           NEW j, NEW plan \in [Chats -> 0 .. Chunks], NEW t \in Nat, row' = Inserted(Planned(j, plan), t)
    PROVE  OrderInv'
<1>1. \A k \in Rows :
         \/ row'[k] = row[k]
         \/ k \in Planned(j, plan) /\ ~Present(k) /\ Present(k)'
  BY InsertedIsRow DEF IInv, Present
<1>2. \A k \in Rows : (Live(k)' <=> Live(k)) /\ Endures(k)
  BY <1>1 DEF Live, Endures, Present
<1>3. ASSUME NEW k \in Rows, NEW l \in Rows, LowerChunk(l, k), ~Present(k), Present(k)'
      PROVE  Present(l)'
  <2>1. k \in Planned(j, plan)
    BY <1>1, <1>3 DEF Present
  <2>2. SeqOf(l) \in Int /\ SeqOf(k) \in Int /\ plan[ChatOf(k)] \in Int
    BY RowFields, NumbersAreNatural DEF Seqs
  <2>3. l \in Planned(j, plan)
    BY <1>3, <2>1, <2>2, LowerIsSameMessage DEF Planned
  <2>4. row'[l] = IF row[l].state = "absent"
                  THEN [NoRow EXCEPT !.state = IF Duplicate(l, t) THEN "suppressed" ELSE "pending",
                                     !.next = IF Duplicate(l, t) THEN 0 ELSE t, !.created = t]
                  ELSE row[l]
    BY <2>3 DEF Inserted
  <2>5. CASE row[l].state = "absent"
    <3> DEFINE r == [NoRow EXCEPT !.state = IF Duplicate(l, t) THEN "suppressed" ELSE "pending",
                                     !.next = IF Duplicate(l, t) THEN 0 ELSE t, !.created = t]
    <3>1. r.state # "absent"
      BY DEF NoRow
    <3> QED BY <2>4, <2>5, <3>1 DEF Present
  <2>6. CASE row[l].state # "absent"
    BY <2>4, <2>6 DEF Present
  <2> QED BY <2>5, <2>6
<1>4. \A d \in Drains : Queues(d)
  BY StillQueues
<1> QED BY <1>2, <1>3, <1>4, OrderKept

LEMMA PlanningKeepsOrder ==
    ASSUME IInv, OrderInv, TypeOK',
           (\E j \in Jobs : Enqueue(j)) \/ (\E f \in Fanouts : FanStep(f))
    PROVE  OrderInv'
<1>1. ASSUME NEW j \in Jobs, Enqueue(j)
      PROVE  OrderInv'
  <2>1. CASE j \in DirectJobs
    <3>1. PICK plan \in [Chats -> 0 .. Chunks] : row' = Inserted(Planned(j, plan), now)
      BY <1>1, <2>1 DEF Enqueue, Audience
    <3>2. now \in Nat
      BY DEF IInv, TypeOK
    <3> QED BY <1>1, <3>1, <3>2, InsertionKeepsOrder DEF Enqueue
  <2>2. CASE j \notin DirectJobs
    BY <1>1, <2>2, RowsKeepOrder DEF Enqueue, Live, Endures, Present
  <2> QED BY <2>1, <2>2
<1>2. ASSUME NEW f \in Fanouts, TakeJob(f) \/ BuildPage(f)
      PROVE  OrderInv'
  BY <1>2, RowsKeepOrder DEF TakeJob, BuildPage, Live, Endures, Present
<1>3. ASSUME NEW f \in Fanouts, CommitPage(f)
      PROVE  OrderInv'
  <2>1. fan[f].plan \in [Chats -> 0 .. Chunks] /\ fan[f].at \in Nat
    BY DEF IInv, TypeOK, Fan
  <2>2. row' = Inserted(Planned(fan[f].job, fan[f].plan), fan[f].at)
    BY <1>3 DEF CommitPage
  <2> QED BY <1>3, <2>1, <2>2, InsertionKeepsOrder DEF CommitPage
<1> QED BY <1>1, <1>2, <1>3 DEF FanStep

(* /forget leaves nothing of the chat, and nobody asks for its order.      *)
LEMMA UpkeepKeepsOrder ==
    ASSUME IInv, OrderInv, TypeOK',
           \/ Sweep \/ \E c \in Chats : Subscribe(c) \/ Forget(c)
           \/ \E j \in Jobs : CloseJob(j) \/ CancelRetracted(j)
    PROVE  OrderInv'
<1> SUFFICES /\ UNCHANGED <<drain, accepted>>
             /\ \A k \in Rows : Live(k)' => Live(k) /\ Endures(k) /\ (Present(k)' => Present(k))
  BY RowsKeepOrder
<1>1. CASE Sweep
  <2>1. ASSUME NEW k \in Rows
        PROVE  Endures(k) /\ (Present(k)' => Present(k))
    <3>1. CASE k \in Overdue
      <4>1. row'[k] = Ends(k, IF row[k].state = "sending" THEN "unknown" ELSE "expired")
        BY <1>1, <3>1 DEF Sweep, Swept
      <4>2. row[k].state \in Open
        BY <3>1 DEF Overdue, Open
      <4> QED BY <4>1, <4>2, EndsIsRow DEF IInv, Endures, Present, Terminal, Open, Queued
    <3>2. CASE k \notin Overdue
      BY <1>1, <3>2 DEF Sweep, Endures, Present
    <3> QED BY <3>1, <3>2
  <2> QED BY <1>1, <2>1 DEF Sweep, Live
<1>2. ASSUME NEW c \in Chats, Subscribe(c)
      PROVE  /\ UNCHANGED <<drain, accepted>>
             /\ \A k \in Rows : Live(k)' => Live(k) /\ Endures(k) /\ (Present(k)' => Present(k))
  BY <1>2, RowFields DEF Subscribe, Live, Endures, Present, IInv, TypeOK
<1>3. ASSUME NEW c \in Chats, Forget(c)
      PROVE  /\ UNCHANGED <<drain, accepted>>
             /\ \A k \in Rows : Live(k)' => Live(k) /\ Endures(k) /\ (Present(k)' => Present(k))
  <2>1. \A k \in Rows : Live(k)' => Live(k) /\ ChatOf(k) # c
    BY <1>3, RowFields DEF Live, Forget, IInv, TypeOK
  <2> QED BY <1>3, <2>1 DEF Forget, Endures, Present
<1>4. ASSUME NEW j \in Jobs, CloseJob(j)
      PROVE  /\ UNCHANGED <<drain, accepted>>
             /\ \A k \in Rows : Live(k)' => Live(k) /\ Endures(k) /\ (Present(k)' => Present(k))
  BY <1>4 DEF CloseJob, Live, Endures, Present
<1>5. ASSUME NEW j \in Jobs, CancelRetracted(j)
      PROVE  /\ UNCHANGED <<drain, accepted>>
             /\ \A k \in Rows : Live(k)' => Live(k) /\ Endures(k) /\ (Present(k)' => Present(k))
  <2>1. ASSUME NEW k \in Rows
        PROVE  Endures(k) /\ (Present(k)' => Present(k))
    <3>1. row'[k] = row[k] \/ (row[k].state \in Queued /\ row'[k] = Ends(k, "cancelled"))
      BY <1>5 DEF CancelRetracted
    <3> QED BY <3>1, EndsIsRow DEF IInv, Endures, Present, Terminal, Queued
  <2> QED BY <1>5, <2>1 DEF CancelRetracted, Live
<1> QED BY <1>1, <1>2, <1>3, <1>4, <1>5

-----------------------------------------------------------------------------
(* A step of one drain: it settles or claims rows, and keeps its queues.   *)
LEMMA DrainKeepsOrder ==
    ASSUME IInv, OrderInv, TypeOK', NEW d \in Drains, \A e \in Drains \ {d} : drain'[e] = drain[e],
           UNCHANGED <<chat, accepted>>,
           \A k \in Rows : Endures(k) /\ (Present(k)' => Present(k)),
           Queues(d)
    PROVE  OrderInv'
<1>1. \A e \in Drains : Queues(e)
  BY StillQueues
<1>2. \A k \in Rows : Live(k)' <=> Live(k)
  BY DEF Live
<1> QED BY <1>1, <1>2, OrderKept

(* What a settlement writes stands in the place of a row.                  *)
Replaces(k, r) == r.state # "absent" /\ r.created = row[k].created
LEMMA SettledEndures ==
    ASSUME NEW d, NEW verdict, row' = Settled(d, verdict),
           \A k \in Rows \cap DOMAIN verdict : Replaces(k, verdict[k])
    PROVE  \A k \in Rows : Endures(k) /\ (Present(k)' => Present(k))
<1> SUFFICES ASSUME NEW k \in Rows
             PROVE  Endures(k) /\ (Present(k)' => Present(k))
  OBVIOUS
<1>1. row'[k] = IF k \in DOMAIN verdict /\ Mine(d, k) THEN verdict[k] ELSE row[k]
  BY DEF Settled
<1>2. Mine(d, k) => Present(k)
  BY DEF Mine, Present
<1> QED BY <1>1, <1>2 DEF Endures, Present, Replaces

LEMMA ReplacementsReplace ==
    ASSUME TypeOK, NEW k \in Rows
    PROVE  /\ \A s \in Terminal : Replaces(k, Ends(k, s))
           /\ \A delay \in Nat : Replaces(k, Retries(k, delay, 0))
           /\ \A why \in Answers \cup Skips : Replaces(k, Classify(k, why))
           /\ \A d \in Drains : Replaces(k, ClassifyTail(d, k)) /\ Replaces(k, ClaimedRow(d, k))
<1>1. \A s \in Terminal : Replaces(k, Ends(k, s))
  BY EndsIsRow DEF Replaces, Terminal
<1>2. \A delay \in Nat : Replaces(k, Retries(k, delay, 0))
  BY RetriesIsRow DEF Replaces
<1>3. \A why \in Answers \cup Skips : Replaces(k, Classify(k, why))
  <2> HIDE DEF Answers, Skips
  <2> QED BY ClassifiedIsRow DEF Replaces, Terminal
<1>4. \A d \in Drains : Replaces(k, ClassifyTail(d, k)) /\ Replaces(k, ClaimedRow(d, k))
  BY TailIsUnsent, ClaimedRowIsRow DEF Replaces
<1> QED BY <1>1, <1>2, <1>3, <1>4

(* A drain that begins, or is done with its page.                          *)
LEMMA EmptyPageKeepsOrder ==
    ASSUME IInv, OrderInv, TypeOK', NEW d \in Drains,
           \/ StartDrain(d) \/ StopDrain(d) \/ SettleTails(d) \/ CancelSiblings(d)
           \/ \E releases \in BOOLEAN : ThrowDrain(d, releases)
    PROVE  OrderInv'
<1> USE DEF IInv
<1> SUFFICES /\ \A e \in Drains \ {d} : drain'[e] = drain[e]
             /\ UNCHANGED <<chat, accepted>>
             /\ \A k \in Rows : Endures(k) /\ (Present(k)' => Present(k))
             /\ drain'[d].page = {}
  BY DrainKeepsOrder DEF Queues
<1>1. /\ Fresh("idle", {}).page = {} /\ AfterThePage(d).page = {}
  BY FreshIsDrain, AfterThePageIsEmpty
<1>2. CASE StartDrain(d)
  <2>1. drain[d].page = {}
    BY <1>2 DEF Once, Shapely, Shape, StartDrain
  <2> QED BY <1>2, <2>1 DEF StartDrain, Go, Endures, Present, TypeOK, Drain
<1>3. CASE StopDrain(d)
  BY <1>1, <1>3 DEF StopDrain, Leave, Endures, Present, TypeOK
<1>4. CASE SettleTails(d)
  <2>1. row' = Settled(d, [k \in drain[d].page |-> ClassifyTail(d, k)])
    BY <1>4 DEF SettleTails
  <2>2. \A k \in Rows : Endures(k) /\ (Present(k)' => Present(k))
    BY <2>1, SettledEndures, ReplacementsReplace
  <2>3. drain'[d].page = {}
    BY <1>1, <1>4 DEF SettleTails, TypeOK, Drain
  <2> QED BY <1>4, <2>2, <2>3 DEF SettleTails, TypeOK
<1>5. CASE CancelSiblings(d)
  <2>1. ASSUME NEW k \in Rows
        PROVE  Endures(k) /\ (Present(k)' => Present(k))
    <3>1. row'[k] = row[k] \/ (row[k].state \in Queued /\ row'[k] = Ends(k, "cancelled"))
      BY <1>5 DEF CancelSiblings
    <3> QED BY <3>1, EndsIsRow DEF Endures, Present, Terminal, Queued
  <2> QED BY <1>1, <1>5, <2>1 DEF CancelSiblings, TypeOK
<1>6. ASSUME NEW releases \in BOOLEAN, ThrowDrain(d, releases)
      PROVE  /\ \A e \in Drains \ {d} : drain'[e] = drain[e]
             /\ UNCHANGED <<chat, accepted>>
             /\ \A k \in Rows : Endures(k) /\ (Present(k)' => Present(k))
             /\ drain'[d].page = {}
  <2>1. row' = row \/ row' = Settled(d, [k \in Released(d) |-> Retries(k, 0, 0)])
    BY <1>6 DEF ThrowDrain
  <2>2. \A k \in Rows : Endures(k) /\ (Present(k)' => Present(k))
    BY <2>1, SettledEndures, ReplacementsReplace DEF Endures, Present
  <2> QED BY <1>1, <1>6, <2>2 DEF ThrowDrain, Leave, TypeOK
<1> QED BY <1>2, <1>3, <1>4, <1>5, <1>6

(* A drain is a record.                                                    *)
LEMMA DrainFields ==
    ASSUME TypeOK, NEW d \in Drains
    PROVE  {"stage", "page", "wave", "failed", "blocked", "crossed"} \subseteq DOMAIN drain[d]
<1>1. drain[d] \in Drain
  BY DEF TypeOK
<1> HIDE DEF Failure, Answers, Skips
<1> QED BY <1>1 DEF Drain

(* The gate stops a message, and so all its chunks, or none of them.       *)
LEMMA GateKeepsOrder ==
    ASSUME IInv, OrderInv, TypeOK', NEW d \in Drains, Gate(d)
    PROVE  OrderInv'
<1> USE DEF IInv
<1>1. PICK snoozed \in SUBSET {ChatOf(k) : k \in drain[d].page},
           muted \in SUBSET {<<JobOf(k), ChatOf(k)>> : k \in drain[d].page} :
        LET Missing(k) == chat[ChatOf(k)] # "in"
            Barred(k) == <<JobOf(k), ChatOf(k)>> \in muted \/ ChatOf(k) \in drain[d].blocked
            stopped == {k \in drain[d].page : Missing(k) \/ ChatOf(k) \in snoozed \/ Barred(k)}
        IN  /\ row' = Settled(d, [k \in stopped |->
                         IF ~Missing(k) /\ ChatOf(k) \in snoozed
                         THEN Retries(k, SnoozeFor, 0) ELSE Ends(k, "cancelled")])
            /\ drain' = [drain EXCEPT ![d].stage = "send", ![d].page = @ \ stopped]
  BY DEF Gate
<1> DEFINE Missing(k) == chat[ChatOf(k)] # "in"
           Barred(k) == <<JobOf(k), ChatOf(k)>> \in muted \/ ChatOf(k) \in drain[d].blocked
           stopped == {k \in drain[d].page : Missing(k) \/ ChatOf(k) \in snoozed \/ Barred(k)}
           verdict == [k \in stopped |->
                         IF ~Missing(k) /\ ChatOf(k) \in snoozed
                         THEN Retries(k, SnoozeFor, 0) ELSE Ends(k, "cancelled")]
<1>2. row' = Settled(d, verdict)
  BY <1>1
<1>3. drain' = [drain EXCEPT ![d].stage = "send", ![d].page = @ \ stopped]
  BY <1>1
<1>4. \A k \in Rows \cap stopped : Replaces(k, verdict[k])
  BY ReplacementsReplace, NumbersAreNatural DEF Terminal
<1>5. DOMAIN verdict = stopped
  OBVIOUS
<1>6. ASSUME NEW k \in drain[d].page \ stopped, NEW l \in drain[d].page, LowerChunk(l, k)
      PROVE  l \notin stopped
  <2>1. ChatOf(l) = ChatOf(k) /\ JobOf(l) = JobOf(k)
    BY <1>6 DEF LowerChunk, SameMessage
  <2> QED BY <1>6, <2>1
<1> HIDE DEF stopped, verdict
<1>7. \A k \in Rows : Endures(k) /\ (Present(k)' => Present(k))
  BY <1>2, <1>4, <1>5, SettledEndures
<1>8. /\ drain'[d].page = drain[d].page \ stopped /\ drain'[d].failed = drain[d].failed
      /\ \A e \in Drains \ {d} : drain'[e] = drain[e]
  BY <1>3 DEF TypeOK, Drain
<1>9. drain[d].stage = "gate" /\ chat' = chat /\ accepted' = accepted
  BY DEF Gate
<1>10. ASSUME NEW k \in drain'[d].page, Live(k)
       PROVE  Present(k) /\ \A l \in Rows : Together(l, k) => Ahead(drain[d], l)'
  <2>1. k \in drain[d].page \ stopped /\ k \in Rows
    BY <1>8, WaveTypes
  <2>2. ASSUME NEW l \in Rows, Together(l, k)
        PROVE  Ahead(drain[d], l)'
    <3>1. Ahead(drain[d], l)
      BY <2>1, <2>2 DEF OrderInv, Queue
    <3>2. LowerChunk(l, k)
      BY <2>2 DEF Together
    <3> QED BY <1>6, <1>8, <1>9, <2>1, <3>1, <3>2 DEF Ahead, Flying
  <2> QED BY <1>10, <2>1, <2>2, HeldIsPresent
<1>11. Queues(d)
  BY <1>10 DEF Queues
<1> QED BY <1>7, <1>8, <1>9, <1>11, DrainKeepsOrder

(* A chunk is claimed when those below it were sent or can be claimed with *)
(* it, and the page takes these first.                                     *)
LEMMA ClaimKeepsOrder ==
    ASSUME IInv, OrderInv, TypeOK', NEW d \in Drains, Claim(d)
    PROVE  OrderInv'
<1> USE DEF IInv
<1>1. PICK scope \in {Jobs, Jobs \ FreezeJobs} \cup {{j} : j \in DirectJobs} :
      \E S \in SUBSET {k \in Rows : JobOf(k) \in scope /\ Claimable(k)} :
         /\ PageOf(S, {k \in Rows : JobOf(k) \in scope /\ Claimable(k)})
         /\ row' = [k \in Rows |-> IF k \in S THEN ClaimedRow(d, k) ELSE row[k]]
         /\ drain' = [drain EXCEPT ![d] =
                        IF S = {} THEN Fresh("idle", {})
                        ELSE [Fresh("gate", @.blocked) EXCEPT
                                !.page = S, !.full = (Cardinality(S) = PageSize)]]
  BY DEF Claim
<1> DEFINE C == {k \in Rows : JobOf(k) \in scope /\ Claimable(k)}
<1>2. PICK S \in SUBSET C :
         /\ PageOf(S, C)
         /\ row' = [k \in Rows |-> IF k \in S THEN ClaimedRow(d, k) ELSE row[k]]
         /\ drain' = [drain EXCEPT ![d] =
                        IF S = {} THEN Fresh("idle", {})
                        ELSE [Fresh("gate", @.blocked) EXCEPT
                                !.page = S, !.full = (Cardinality(S) = PageSize)]]
  BY <1>1
<1>3. \A k \in S : k \in Rows /\ JobOf(k) \in scope /\ Claimable(k) /\ Present(k)
  BY DEF Claimable, Due, Queued, Present
<1>4. ASSUME NEW k \in S, NEW l \in Rows, Together(l, k)
      PROVE  l \in S \/ accepted[l] > 0
  <2>1. LowerChunk(l, k) /\ Passable(l) /\ Present(l) /\ row[k].created = row[l].created
    BY <1>3, <1>4 DEF Together, Claimable
  <2>2. CASE row[l].state = "sent"
    BY <2>2 DEF Once, Honest, Tells
  <2>3. CASE Due(l)
    <3>1. JobOf(l) = JobOf(k) /\ SeqOf(l) < SeqOf(k)
      BY <2>1 DEF LowerChunk, SameMessage
    <3>2. ASSUME NEW m \in Rows, LowerChunk(m, l)
          PROVE  LowerChunk(m, k)
      <4>1. SeqOf(m) \in Int /\ SeqOf(l) \in Int /\ SeqOf(k) \in Int
        BY <1>3, RowFields, NumbersAreNatural DEF Seqs
      <4> QED BY <2>1, <3>2, <4>1 DEF LowerChunk, SameMessage
    <3>3. Claimable(l)
      BY <1>3, <2>3, <3>1, <3>2 DEF Claimable
    <3>4. l \in C
      BY <1>3, <3>1, <3>3
    <3>5. SameMessage(k, l)
      BY <2>1 DEF LowerChunk, SameMessage
    <3> QED BY <1>2, <2>1, <3>1, <3>4, <3>5 DEF PageOf
  <2> QED BY <2>1, <2>2, <2>3 DEF Passable, Present
<1>5. \A k \in Rows : Endures(k) /\ (Present(k)' => Present(k))
  BY <1>2, <1>3, ReplacementsReplace DEF Replaces, Endures, Present
<1>6. drain'[d].page = S
  <2>1. Fresh("idle", {}).page = {}
    BY FreshIsDrain
  <2>2. [Fresh("gate", drain[d].blocked) EXCEPT
            !.page = S, !.full = (Cardinality(S) = PageSize)].page = S
    BY DEF Fresh
  <2> QED BY <1>2, <2>1, <2>2 DEF TypeOK
<1>7. \A e \in Drains \ {d} : drain'[e] = drain[e]
  BY <1>2 DEF TypeOK
<1>8. chat' = chat /\ accepted' = accepted
  BY DEF Claim
<1>9. Queues(d)
  BY <1>3, <1>4, <1>6, <1>8 DEF Queues, Ahead
<1> QED BY <1>5, <1>7, <1>8, <1>9, DrainKeepsOrder

(* A wave takes chunks that nothing in the page is below, of chats none of *)
(* whose chunks failed: what was below arrived.                            *)
LEMMA SendKeepsOrder ==
    ASSUME IInv, OrderInv, TypeOK', NEW d \in Drains, SendWave(d)
    PROVE  OrderInv'
<1> USE DEF IInv
<1>1. PICK W \in SUBSET Heads(d) : \E o \in [W -> Answers \cup Skips] :
         /\ \E unheard \in SUBSET {k \in W : o[k] = "ambiguous"} :
               accepted' = [k \in Rows |-> IF k \in unheard \cup {l \in W : o[l] = "ok"}
                                           THEN accepted[k] + 1 ELSE accepted[k]]
         /\ drain' = [drain EXCEPT ![d].stage = "flight", ![d].wave = o, ![d].page = @ \ W,
                                   ![d].crossed = @ \cup {k \in W : o[k] \in Answers}]
  BY DEF SendWave
<1>2. PICK o \in [W -> Answers \cup Skips] :
         /\ \E unheard \in SUBSET {k \in W : o[k] = "ambiguous"} :
               accepted' = [k \in Rows |-> IF k \in unheard \cup {l \in W : o[l] = "ok"}
                                           THEN accepted[k] + 1 ELSE accepted[k]]
         /\ drain' = [drain EXCEPT ![d].stage = "flight", ![d].wave = o, ![d].page = @ \ W,
                                   ![d].crossed = @ \cup {k \in W : o[k] \in Answers}]
  BY <1>1
<1>3. /\ \A k \in Rows : accepted[k] > 0 => accepted'[k] > 0
      /\ \A k \in Rows : accepted'[k] > 0 => accepted[k] > 0 \/ k \in W
  BY <1>2 DEF TypeOK
<1>4. /\ drain'[d].page = drain[d].page \ W /\ drain'[d].failed = drain[d].failed
      /\ drain'[d].stage = "flight" /\ DOMAIN drain'[d].wave = W
      /\ \A e \in Drains \ {d} : drain'[e] = drain[e]
  <2> DEFINE w1 == [drain[d] EXCEPT !.stage = "flight"]
             w2 == [w1 EXCEPT !.wave = o]
             w3 == [w2 EXCEPT !.page = drain[d].page \ W]
             w == [w3 EXCEPT !.crossed = drain[d].crossed \cup {k \in W : o[k] \in Answers}]
  <2>1. drain' = [drain EXCEPT ![d] = w] /\ DOMAIN o = W
    BY <1>2
  <2>2. /\ w.page = drain[d].page \ W /\ w.failed = drain[d].failed
        /\ w.stage = "flight" /\ w.wave = o
    BY DrainFields
  <2>3. DOMAIN drain = Drains
    BY DEF TypeOK
  <2> HIDE DEF w
  <2> QED BY <2>1, <2>2, <2>3
<1>5. drain[d].stage = "send" /\ row' = row /\ chat' = chat
  BY DEF SendWave
<1>6. \A k \in drain[d].page : k \in Rows /\ (Live(k) => Present(k))
  BY WaveTypes, HeldIsPresent
<1>7. ASSUME NEW k \in drain[d].page, NEW l \in Rows, Together(l, k)
      PROVE  l \in drain[d].page \/ accepted[l] > 0 \/ drain[d].failed[ChatOf(l)] # NoFailure
  BY <1>5, <1>7 DEF OrderInv, Queue, Ahead, Flying
<1>8. ASSUME NEW k \in W, NEW l \in Rows, Together(l, k)
      PROVE  accepted[l] > 0
  <2>1. k \in drain[d].page /\ drain[d].failed[ChatOf(k)] = NoFailure
        /\ \A m \in drain[d].page : ~LowerChunk(m, k)
    BY DEF Heads
  <2>2. LowerChunk(l, k) /\ ChatOf(l) = ChatOf(k)
    BY <1>8 DEF Together, LowerChunk, SameMessage
  <2> QED BY <1>7, <1>8, <2>1, <2>2
<1>9. Queues(d)
  BY <1>3, <1>4, <1>6, <1>7 DEF Queues, Ahead, Flying
<1>10. \A e \in Drains : Queues(e)
  BY <1>3, <1>4, <1>9, StillQueues
<1>11. W \subseteq drain[d].page
  BY DEF Heads
<1>12. \A k \in Rows : (Live(k)' <=> Live(k)) /\ Endures(k) /\ (Present(k)' <=> Present(k))
  BY <1>5 DEF Live, Endures, Present
<1>13. \A k \in Rows :
          accepted'[k] > 0 => \/ accepted[k] > 0
                              \/ Live(k) => /\ Present(k)
                                            /\ \A l \in Rows : Together(l, k) => accepted[l] > 0
  BY <1>3, <1>6, <1>8, <1>11
<1> QED BY <1>3, <1>10, <1>12, <1>13, OrderKept

(* What was in flight and did not arrive stops the chat's queue.           *)
LEMMA SettleKeepsOrder ==
    ASSUME IInv, OrderInv, TypeOK', NEW d \in Drains, SettleWave(d)
    PROVE  OrderInv'
<1> USE DEF IInv
<1> DEFINE wave == drain[d].wave
           Of(why) == {k \in DOMAIN wave : wave[k] = why}
           failed == [c \in Chats |->
                        IF \E k \in DOMAIN wave \ Of("ok") : ChatOf(k) = c
                        THEN LET k == CHOOSE k \in DOMAIN wave \ Of("ok") : ChatOf(k) = c
                             IN  [why |-> wave[k], job |-> JobOf(k)]
                        ELSE drain[d].failed[c]]
<1>1. /\ row' = Settled(d, [k \in DOMAIN wave |-> Classify(k, wave[k])])
      /\ drain[d].stage = "flight" /\ chat' = chat /\ accepted' = accepted
  BY DEF SettleWave
<1>2. /\ drain'[d].page = drain[d].page /\ drain'[d].failed = failed
      /\ \A e \in Drains \ {d} : drain'[e] = drain[e]
  <2> DEFINE limited == Of("rateLimit") # {}
             kept == IF limited THEN wave ELSE EmptyWave
             stage == IF limited THEN "backoff" ELSE "send"
             blocked == drain[d].blocked \cup {ChatOf(k) : k \in Of("blocked")}
  <2>1. drain' = [drain EXCEPT ![d] = [@ EXCEPT !.stage = stage, !.wave = kept,
                                                !.blocked = blocked, !.failed = failed]]
    BY DEF SettleWave
  <2>2. DOMAIN drain = Drains
    BY DEF TypeOK
  <2> HIDE DEF stage, kept, blocked, failed
  <2> QED BY <2>1, <2>2, DrainFields
<1>3. \A k \in Rows : Endures(k) /\ (Present(k)' => Present(k))
  <2> DEFINE verdict == [k \in DOMAIN wave |-> Classify(k, wave[k])]
  <2>1. \A k \in Rows \cap DOMAIN wave : Replaces(k, verdict[k])
    <3> HIDE DEF Answers, Skips
    <3> QED BY ReplacementsReplace, WaveTypes
  <2>2. DOMAIN verdict = DOMAIN wave /\ row' = Settled(d, verdict)
    BY <1>1
  <2> HIDE DEF verdict
  <2> QED BY <2>1, <2>2, SettledEndures
<1>4. ASSUME NEW c \in Chats, \/ drain[d].failed[c] # NoFailure
                             \/ \E k \in DOMAIN wave \ Of("ok") : ChatOf(k) = c
      PROVE  failed[c] # NoFailure
  <2>1. CASE \E k \in DOMAIN wave \ Of("ok") : ChatOf(k) = c
    <3> DEFINE k == CHOOSE k \in DOMAIN wave \ Of("ok") : ChatOf(k) = c
    <3>1. failed[c] = [why |-> wave[k], job |-> JobOf(k)]
      BY <2>1
    <3> HIDE DEF failed, k, wave
    <3>2. "job" \in DOMAIN failed[c] /\ "job" \notin DOMAIN NoFailure
      BY <3>1 DEF NoFailure
    <3> QED BY <3>2
  <2>2. CASE ~\E k \in DOMAIN wave \ Of("ok") : ChatOf(k) = c
    BY <1>4, <2>2
  <2> QED BY <2>1, <2>2
<1>5. ASSUME NEW l \in Rows, l \in DOMAIN wave
      PROVE  accepted[l] > 0 \/ failed[ChatOf(l)] # NoFailure
  <2>1. CASE wave[l] = "ok"
    <3>1. Flying(drain[d], l) /\ Sure(drain[d], l)
      BY <1>1, <1>5 DEF Flying, Sure
    <3>2. accepted[l] = 1
      BY <2>1, <3>1 DEF Once, Unsent, Heard
    <3> QED BY <3>2
  <2>2. CASE wave[l] # "ok"
    BY <1>4, <1>5, <2>2, RowFields
  <2> QED BY <2>1, <2>2
<1> HIDE DEF failed
<1>6. ASSUME NEW k \in drain'[d].page, Live(k)
      PROVE  Present(k) /\ \A l \in Rows : Together(l, k) => Ahead(drain[d], l)'
  <2>1. k \in drain[d].page /\ k \in Rows
    BY <1>2, WaveTypes
  <2>2. ASSUME NEW l \in Rows, Together(l, k)
        PROVE  Ahead(drain[d], l)'
    <3>1. Ahead(drain[d], l) /\ ChatOf(l) \in Chats
      BY <2>1, <2>2, RowFields DEF OrderInv, Queue
    <3> QED BY <1>1, <1>2, <1>4, <1>5, <3>1 DEF Ahead, Flying
  <2> QED BY <1>6, <2>1, <2>2, HeldIsPresent
<1>7. Queues(d)
  BY <1>6 DEF Queues
<1> QED BY <1>1, <1>2, <1>3, <1>7, DrainKeepsOrder

LEMMA BackoffKeepsOrder ==
    ASSUME IInv, OrderInv, TypeOK', NEW d \in Drains, NEW written, RaiseBackoff(d, written)
    PROVE  OrderInv'
<1> USE DEF IInv
<1>1. \A k \in Rows : \/ row'[k] = row[k]
                      \/ row'[k] = [row[k] EXCEPT !.next = AtLeast(@, now + RetryAfter)]
  BY DEF RaiseBackoff
<1>2. \A k \in Rows : Endures(k) /\ (Present(k)' => Present(k))
  BY <1>1 DEF TypeOK, Row, Endures, Present
<1>3. /\ drain'[d].page = drain[d].page /\ drain'[d].failed = drain[d].failed
      /\ \A e \in Drains \ {d} : drain'[e] = drain[e]
  BY DEF RaiseBackoff, TypeOK, Drain
<1>4. drain[d].stage = "backoff" /\ chat' = chat /\ accepted' = accepted
  BY DEF RaiseBackoff
<1>5. ASSUME NEW k \in drain'[d].page, Live(k)
      PROVE  Present(k) /\ \A l \in Rows : Together(l, k) => Ahead(drain[d], l)'
  <2>1. k \in drain[d].page /\ k \in Rows
    BY <1>3, WaveTypes
  <2>2. \A l \in Rows : Together(l, k) => Ahead(drain[d], l)
    BY <2>1 DEF OrderInv, Queue
  <2> QED BY <1>3, <1>4, <1>5, <2>1, <2>2, HeldIsPresent DEF Ahead, Flying
<1>6. Queues(d)
  BY <1>5 DEF Queues
<1> QED BY <1>2, <1>3, <1>4, <1>6, DrainKeepsOrder

LEMMA OrderInit == Init => OrderInv
<1> SUFFICES ASSUME Init
             PROVE  OrderInv
  OBVIOUS
<1>1. \A d \in Drains : drain[d].page = {}
  BY FreshIsDrain DEF Init
<1>2. \A k \in Rows : ~Present(k)
  BY NoRowIsRow DEF Init, Present
<1> QED BY <1>1, <1>2 DEF OrderInv, ClosedDown, Queue, Ordered, Together

LEMMA OrderStep == IInv /\ OrderInv /\ [Next]_vars => OrderInv'
<1> SUFFICES ASSUME IInv, OrderInv, [Next]_vars
             PROVE  OrderInv'
  OBVIOUS
<1>1. IInv' /\ TypeOK'
  BY InvStep DEF IInv
<1>2. ASSUME NEW d \in Drains, DrainStep(d)
      PROVE  OrderInv'
  BY <1>1, <1>2, EmptyPageKeepsOrder, GateKeepsOrder, ClaimKeepsOrder, SendKeepsOrder,
     SettleKeepsOrder, BackoffKeepsOrder DEF DrainStep
<1>3. CASE Fault
  <2>1. ASSUME NEW f \in Fanouts, FanFails(f)
        PROVE  OrderInv'
    BY <1>1, <2>1, RowsKeepOrder DEF FanFails, Live, Endures, Present
  <2> QED BY <1>1, <1>3, <2>1, BackoffKeepsOrder, EmptyPageKeepsOrder DEF Fault
<1>4. CASE Tick \/ UNCHANGED vars
  BY <1>1, <1>4, RowsKeepOrder DEF Tick, vars, Live, Endures, Present
<1> QED BY <1>1, <1>2, <1>3, <1>4, PlanningKeepsOrder, UpkeepKeepsOrder DEF Next

(* drainTelegramDeliveries sends the chunks of a message in their order,   *)
(* and none after one that did not arrive, whichever drains claim them and *)
(* whatever becomes of those drains.                                       *)
THEOREM ChunksInOrder == Spec => []InOrder
<1>1. IInv /\ OrderInv => InOrder
  <2> SUFFICES ASSUME IInv, OrderInv, NEW k \in Rows, NEW l \in Rows, LowerChunk(l, k),
                      chat[ChatOf(k)] = "in", row[k].state # "absent", row[l].state # "absent",
                      row[k].created = row[l].created, accepted[k] > 0
               PROVE  accepted[l] > 0
    BY DEF InOrder
  <2>1. Together(l, k)
    BY DEF Together, Live, Present
  <2> QED BY <2>1 DEF OrderInv, Ordered
<1> QED BY <1>1, InvInit, InvStep, OrderInit, OrderStep, PTL DEF Spec
=============================================================================
