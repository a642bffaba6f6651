------------------------- MODULE MessagePipelineProofs -------------------------
(***************************************************************************)
(* Machine-checked proofs about MessagePipeline, for every set of          *)
(* requests, every resolution of the clock and every value of the settings.*)
(*                                                                         *)
(* The invariants that are checked are not inductive: that a request runs  *)
(* once rests on its row still being there while it is timely, which rests *)
(* on when a row is purged, which rests on how far the clock can have      *)
(* moved since.  IInv says all of it, for the committed store and for the  *)
(* connection's view; OnceInv is what the length of the window adds.       *)
(***************************************************************************)
EXTENDS MessagePipeline, TLAPS

\* The clock is never further behind its maximum than the step-back bound.
ClockInv ==
  /\ now <= latest
  /\ latest - now <= MaxStepBack

\* r passed the checks on its instants when the clock read t.
TimelyAt(r, t) ==
  /\ r.exp - r.ts <= MaxExpiryWindow * TicksPerSecond
  /\ r.ts <= t + Skew * TicksPerSecond

\* Row m of s is that of request r, validated when the clock read t.
HasRow(s, r, t) ==
  /\ r.id \in DOMAIN s.rows
  /\ s.rows[r.id].fp = r
  /\ s.rows[r.id].seen = Seconds(t)

\* An execution validated at t is old enough for the purge.
Purgeable(t) == Seconds(latest) - ReplayWindow > Seconds(t)

\* Every execution was timely, and has its row or is purgeable.
LogInv(s) ==
  \A i \in DOMAIN s.log :
    /\ TimelyAt(s.log[i].req, s.log[i].at)
    /\ HasRow(s, s.log[i].req, s.log[i].at) \/ Purgeable(s.log[i].at)

\* r was executed in s with result v.
Executed(s, r, v) == \E i \in DOMAIN s.log : s.log[i].req = r /\ s.log[i].result = v

\* The same, validated in second sec.
ExecutedWith(s, r, v, sec) ==
  \E i \in DOMAIN s.log :
    s.log[i].req = r /\ s.log[i].result = v /\ Seconds(s.log[i].at) = sec

\* A row belongs to its message_id, and one that holds a response has the
\* execution it comes from.
RowsInv(s) ==
  \A m \in DOMAIN s.rows :
    /\ s.rows[m].fp.id = m
    /\ s.rows[m].summary # Pending =>
         ExecutedWith(s, s.rows[m].fp, s.rows[m].summary, s.rows[m].seen)

\* A placeholder is never committed; a transaction holds one at most, that of
\* the request being handled.
PlaceholderInv ==
  /\ \A m \in DOMAIN db.rows : db.rows[m].summary # Pending
  /\ \A m \in DOMAIN work.rows : work.rows[m].summary = Pending =>
       pc \in {"dispatch", "store"} /\ m = current.id

\* What the connection sees extends what is committed.
PrefixInv ==
  /\ Len(db.log) <= Len(work.log)
  /\ \A i \in 1..Len(db.log) : work.log[i] = db.log[i]

\* The request under the lock, step by step.
HandlerInv ==
  /\ pc \in {"dispatch", "store"} =>
       /\ current \in Requests
       /\ HasRow(work, current, started)
       /\ TimelyAt(current, started)
  /\ pc = "store" => body \in Results /\ ExecutedWith(work, current, body, Seconds(started))
  /\ pc = "commit" =>
       /\ current \in Requests /\ body \in Results
       /\ Executed(work, current, body)

IInv ==
  /\ TypeOK
  /\ ClockInv
  /\ LogInv(db) /\ LogInv(work)
  /\ RowsInv(db) /\ RowsInv(work)
  /\ PlaceholderInv
  /\ PrefixInv
  /\ HandlerInv
  /\ AnsweredIsDurable

\* With a window that covers the expiry, a request being dispatched is new.
OnceInv ==
  /\ ExecutedOnce(work.log)
  /\ pc = "dispatch" => ~ Logged(current, work.log)

\* An execution validated at t is far enough in the past for its message_id.
LongAgo(t, from) == from - t > ReplayWindow * TicksPerSecond - MaxStepBack

\* So the message_id of a request being dispatched was last used long ago.
ReuseInv ==
  /\ IdReusedAfterWindow
  /\ pc = "dispatch" =>
       \A i \in DOMAIN work.log :
         work.log[i].req.id = current.id => LongAgo(work.log[i].at, started)

--------------------------------------------------------------------------------
(* Arithmetic of the clock *)

\* int(now) is a whole number of seconds.
LEMMA SecondsType == ASSUME NEW t \in Nat PROVE Seconds(t) \in Nat
BY ConstantShape DEF Seconds

\* int() keeps the order of instants.
LEMMA SecondsMonotone ==
  ASSUME NEW a \in Nat, NEW b \in Nat, a <= b
  PROVE  Seconds(a) <= Seconds(b)
BY ConstantShape DEF Seconds

\* More than w whole seconds apart is more than w seconds apart.
LEMMA SecondsApart ==
  ASSUME NEW a \in Nat, NEW b \in Nat, NEW w \in Nat, Seconds(a) - w > Seconds(b)
  PROVE  a - b > w * TicksPerSecond
<1> DEFINE T == TicksPerSecond
           q == Seconds(a)
           p == Seconds(b)
<1>1. T \in Nat \ {0} /\ q \in Nat /\ p \in Nat
  BY ConstantShape, SecondsType
<1>2. a >= q * T /\ b < (p + 1) * T
  BY ConstantShape DEF Seconds
<1> HIDE DEF T, q, p
<1>3. q >= p + 1 + w
  BY <1>1 DEF q, p
<1>4. q * T >= (p + 1 + w) * T
  BY <1>1, <1>3
<1>5. (p + 1 + w) * T = (p + 1) * T + w * T
  BY <1>1
<1>6. QED
  BY <1>1, <1>2, <1>4, <1>5 DEF T

--------------------------------------------------------------------------------
(* What the operations on a store preserve *)

\* An entry of the log is an execution.
LEMMA LogEntryType ==
  ASSUME NEW s, StoreOK(s), NEW i \in DOMAIN s.log
  PROVE  s.log[i].req \in Requests /\ s.log[i].result \in Results /\ s.log[i].at \in Nat
<1>1. s.log[i] \in Execution
  <2>1. s.log \in Seq(Execution)
    BY DEF StoreOK
  <2>2. QED
    BY <2>1
<1>2. QED
  BY <1>1 DEF Execution

\* The purge removes rows only of executions that stay purgeable.
LEMMA PurgePreserves ==
  ASSUME NEW s, StoreOK(s), LogInv(s), RowsInv(s), now \in Nat, latest \in Nat, now <= latest,
         NEW t, t = [rows |-> Purged(s.rows), log |-> s.log]
  PROVE  /\ StoreOK(t) /\ LogInv(t) /\ RowsInv(t)
         /\ \A m \in DOMAIN t.rows : m \in DOMAIN s.rows /\ t.rows[m] = s.rows[m]
<1>1. /\ DOMAIN t.rows = Kept(s.rows) /\ t.log = s.log
      /\ \A m \in DOMAIN t.rows : m \in DOMAIN s.rows /\ t.rows[m] = s.rows[m]
  BY DEF Purged, Kept
<1>2. StoreOK(t)
  BY <1>1 DEF StoreOK
<1>3. RowsInv(t)
  BY <1>1 DEF RowsInv, ExecutedWith
<1>4. ASSUME NEW i \in DOMAIN s.log, HasRow(s, s.log[i].req, s.log[i].at),
             ~ HasRow(t, s.log[i].req, s.log[i].at)
      PROVE  Purgeable(s.log[i].at)
  <2>1. s.log[i].at \in Nat
    BY LogEntryType
  <2>5. s.log[i].req.id \notin Kept(s.rows)
    BY <1>1, <1>4 DEF HasRow
  <2>2. Seconds(s.log[i].at) < Seconds(now) - ReplayWindow
    BY <2>1, <2>5, <1>4, SecondsType, ConstantShape DEF HasRow, Kept
  <2>3. Seconds(now) <= Seconds(latest)
    BY SecondsMonotone
  <2>4. QED
    BY <2>1, <2>2, <2>3, SecondsType, ConstantShape DEF Purgeable
<1>5. LogInv(t)
  BY <1>1, <1>4 DEF LogInv
<1>6. QED
  BY <1>1, <1>2, <1>3, <1>5

\* Inserting the placeholder of a request whose message_id has no row.
LEMMA InsertPreserves ==
  ASSUME NEW s, StoreOK(s), LogInv(s), RowsInv(s), now \in Nat,
         NEW r \in Requests, r.id \notin DOMAIN s.rows,
         NEW t, t = [rows |-> Upserted(s.rows, r.id, PlaceholderRow(r)), log |-> s.log]
  PROVE  StoreOK(t) /\ LogInv(t) /\ RowsInv(t) /\ HasRow(t, r, now)
<1>1. /\ DOMAIN t.rows = DOMAIN s.rows \cup {r.id} /\ t.log = s.log
      /\ t.rows[r.id] = PlaceholderRow(r)
      /\ \A m \in DOMAIN s.rows : t.rows[m] = s.rows[m]
  BY DEF Upserted
<1>2. r.id \in MessageIds /\ PlaceholderRow(r) \in Row
  BY SecondsType DEF MessageIds, PlaceholderRow, Row
<1>3. StoreOK(t)
  BY <1>1, <1>2 DEF StoreOK
<1>4. RowsInv(t)
  BY <1>1 DEF RowsInv, ExecutedWith, PlaceholderRow
<1>5. LogInv(t)
  BY <1>1 DEF LogInv, HasRow
<1>6. QED
  BY <1>1, <1>3, <1>4, <1>5 DEF HasRow, PlaceholderRow

\* Appending the execution of a request that has its row.
LEMMA AppendPreserves ==
  ASSUME NEW s, StoreOK(s), LogInv(s), RowsInv(s),
         NEW r \in Requests, NEW v \in Results, NEW a \in Nat, HasRow(s, r, a), TimelyAt(r, a),
         NEW t, t = [rows |-> s.rows, log |-> Append(s.log, [req |-> r, result |-> v, at |-> a])]
  PROVE  /\ StoreOK(t) /\ LogInv(t) /\ RowsInv(t)
         /\ ExecutedWith(t, r, v, Seconds(a))
<1>1. /\ t.rows = s.rows
      /\ Len(t.log) = Len(s.log) + 1
      /\ DOMAIN t.log = 1..Len(s.log) + 1 /\ DOMAIN s.log = 1..Len(s.log) /\ Len(s.log) \in Nat
      /\ \A i \in DOMAIN s.log : t.log[i] = s.log[i]
      /\ t.log[Len(s.log) + 1] = [req |-> r, result |-> v, at |-> a]
  BY DEF StoreOK
<1>2. StoreOK(t)
  BY DEF StoreOK, Execution
<1>3. RowsInv(t)
  BY <1>1 DEF RowsInv, ExecutedWith
<1>4. LogInv(t)
  BY <1>1 DEF LogInv, HasRow
<1>5. QED
  BY <1>1, <1>2, <1>3, <1>4 DEF ExecutedWith

\* Writing the response of an execution into the row of its request.
LEMMA UpdatePreserves ==
  ASSUME NEW s, StoreOK(s), LogInv(s), RowsInv(s),
         NEW r \in Requests, NEW v \in Results, NEW a \in Nat, HasRow(s, r, a),
         ExecutedWith(s, r, v, Seconds(a)),
         NEW t, t = [rows |-> Upserted(s.rows, r.id,
                                [fp |-> s.rows[r.id].fp, summary |-> v, seen |-> s.rows[r.id].seen]),
                     log |-> s.log]
  PROVE  /\ StoreOK(t) /\ LogInv(t) /\ RowsInv(t)
         /\ DOMAIN t.rows = DOMAIN s.rows /\ t.rows[r.id].summary = v
         /\ \A m \in DOMAIN s.rows : m # r.id => t.rows[m] = s.rows[m]
<1>1. /\ DOMAIN t.rows = DOMAIN s.rows /\ t.log = s.log
      /\ t.rows[r.id] = [fp |-> r, summary |-> v, seen |-> Seconds(a)]
      /\ \A m \in DOMAIN s.rows : m # r.id => t.rows[m] = s.rows[m]
  BY DEF Upserted, HasRow
<1>2. StoreOK(t)
  <2>1. t.rows[r.id] \in Row
    BY <1>1, SecondsType DEF Row
  <2>2. QED
    BY <1>1, <2>1 DEF StoreOK
<1>3. RowsInv(t)
  BY <1>1 DEF RowsInv, ExecutedWith
<1>4. LogInv(t)
  BY <1>1 DEF LogInv, HasRow
<1>5. QED
  BY <1>1, <1>2, <1>3, <1>4

\* A store that does not change keeps its invariant while the clock moves on.
LEMMA ClockPreserves ==
  ASSUME NEW s, StoreOK(s), LogInv(s), latest \in Nat, latest' \in Nat, latest <= latest'
  PROVE  LogInv(s)'
<1>1. ASSUME NEW i \in DOMAIN s.log, Purgeable(s.log[i].at)
      PROVE  Purgeable(s.log[i].at)'
  <2>1. s.log[i].at \in Nat
    BY LogEntryType
  <2>2. Seconds(latest) <= Seconds(latest')
    BY SecondsMonotone
  <2>3. QED
    BY <1>1, <2>1, <2>2, SecondsType, ConstantShape DEF Purgeable
<1>2. QED
  BY <1>1 DEF LogInv, HasRow, TimelyAt

--------------------------------------------------------------------------------
(* The inductive invariant *)

\* The empty database satisfies it.
LEMMA InitIInv == Init => IInv
BY ConstantShape DEF Init, Empty, IInv, TypeOK, StoreOK, ClockInv, LogInv, RowsInv,
   PlaceholderInv, PrefixInv, HandlerInv, AnsweredIsDurable

\* Whatever ends with the connection's view back at the committed state.
LEMMA RollbackIInv ==
  ASSUME IInv, work' = db, pc' \in {"idle", "down"}, current' = NoRequest, started' = 0,
         body' = Pending, crashes' \in Nat, UNCHANGED <<clock, db, answers>>
  PROVE  IInv'
<1>1. TypeOK'
  BY DEF IInv, TypeOK, StoreOK, clock
<1>2. ClockInv'
  BY DEF IInv, ClockInv, clock
<1>3. LogInv(db)' /\ LogInv(work)'
  BY DEF IInv, LogInv, HasRow, TimelyAt, Purgeable, clock
<1>4. RowsInv(db)' /\ RowsInv(work)'
  BY DEF IInv, RowsInv, ExecutedWith
<1>5. PlaceholderInv'
  BY DEF IInv, PlaceholderInv
<1>6. PrefixInv'
  BY DEF IInv, PrefixInv, TypeOK, StoreOK
<1>7. HandlerInv'
  BY DEF HandlerInv
<1>8. AnsweredIsDurable'
  BY DEF IInv, AnsweredIsDurable
<1>9. QED
  BY <1>1, <1>2, <1>3, <1>4, <1>5, <1>6, <1>7, <1>8 DEF IInv

\* A step that only moves the clock.
LEMMA ClockIInv ==
  ASSUME IInv, now' \in Nat, latest' \in Nat, latest <= latest', now' <= latest',
         latest' - now' <= MaxStepBack, UNCHANGED <<db, work, worker, answers, crashes>>
  PROVE  IInv'
<1>1. TypeOK'
  BY DEF IInv, TypeOK, StoreOK, worker
<1>2. ClockInv'
  BY DEF ClockInv
<1>3. LogInv(db)' /\ LogInv(work)'
  <2>1. StoreOK(db) /\ StoreOK(work) /\ LogInv(db) /\ LogInv(work) /\ latest \in Nat
    BY DEF IInv, TypeOK
  <2>2. \A s : StoreOK(s) /\ LogInv(s) => LogInv(s)'
    BY <2>1, ClockPreserves
  <2>3. QED
    BY <2>1, <2>2 DEF LogInv, HasRow, Purgeable, TimelyAt
<1>4. RowsInv(db)' /\ RowsInv(work)' /\ PlaceholderInv' /\ PrefixInv' /\ AnsweredIsDurable'
  BY DEF IInv, RowsInv, ExecutedWith, PlaceholderInv, PrefixInv, AnsweredIsDurable, worker
<1>5. HandlerInv'
  BY DEF IInv, HandlerInv, HasRow, TimelyAt, ExecutedWith, Executed, worker
<1>6. QED
  BY <1>1, <1>2, <1>3, <1>4, <1>5 DEF IInv

\* A fresh message_id: purge, then insert.
LEMMA FreshIInv ==
  ASSUME IInv, NEW r \in Requests, AcceptFresh(r)
  PROVE  IInv'
<1> DEFINE p == [rows |-> Purged(work.rows), log |-> work.log]
<1>1. /\ StoreOK(p) /\ LogInv(p) /\ RowsInv(p)
      /\ \A m \in DOMAIN p.rows : m \in DOMAIN work.rows /\ p.rows[m] = work.rows[m]
  BY PurgePreserves DEF IInv, TypeOK, ClockInv
<1>2. r.id \notin DOMAIN p.rows /\ p.log = work.log
  BY DEF AcceptFresh, Purged
<1>3. /\ work' = [rows |-> Upserted(p.rows, r.id, PlaceholderRow(r)), log |-> p.log]
      /\ pc' = "dispatch" /\ current' = r /\ started' = now
      /\ UNCHANGED <<now, latest, db, body, answers, crashes>>
  BY DEF AcceptFresh, clock
<1> HIDE DEF p
<1>4. StoreOK(work') /\ LogInv(work') /\ RowsInv(work') /\ HasRow(work', r, now)
  BY <1>1, <1>2, <1>3, InsertPreserves DEF IInv, TypeOK
<1>5. TypeOK'
  BY <1>3, <1>4 DEF IInv, TypeOK, StoreOK
<1>6. ClockInv' /\ LogInv(db)' /\ LogInv(work)' /\ AnsweredIsDurable'
  BY <1>3, <1>4 DEF IInv, ClockInv, LogInv, HasRow, TimelyAt, Purgeable, AnsweredIsDurable
<1>7. RowsInv(db)' /\ RowsInv(work)'
  BY <1>3, <1>4 DEF IInv, RowsInv, ExecutedWith
<1>8. PlaceholderInv'
  <2>1. pc = "idle"
    BY DEF AcceptFresh
  <2>2. \A m \in DOMAIN work'.rows : m # r.id => work'.rows[m].summary # Pending
    BY <1>1, <1>3, <2>1 DEF IInv, PlaceholderInv, Upserted
  <2>3. QED
    BY <1>3, <2>2 DEF IInv, PlaceholderInv
<1>9. PrefixInv'
  BY <1>2, <1>3 DEF IInv, PrefixInv
<1>10. HandlerInv'
  BY <1>3, <1>4 DEF HandlerInv, AcceptFresh, Timely, TimelyAt, HasRow
<1>11. QED
  BY <1>5, <1>6, <1>7, <1>8, <1>9, <1>10 DEF IInv

\* A replay: the purge, then the stored response or a rollback.
LEMMA ReplayIInv ==
  ASSUME IInv, NEW r \in Requests, AcceptReplay(r)
  PROVE  IInv'
<1>1. CASE work.rows[r.id].summary = Pending
  BY <1>1, RollbackIInv DEF AcceptReplay, Rollback, LockReleased, IInv, TypeOK
<1>2. CASE work.rows[r.id].summary # Pending
  <2>1. /\ work' = [rows |-> Purged(work.rows), log |-> work.log]
        /\ pc' = "commit" /\ current' = r /\ started' = now /\ body' = work.rows[r.id].summary
        /\ UNCHANGED <<now, latest, db, answers, crashes>>
        /\ pc = "idle" /\ r.id \in Kept(work.rows) /\ work.rows[r.id].fp = r
    BY <1>2 DEF AcceptReplay, clock
  <2>2. /\ StoreOK(work') /\ LogInv(work') /\ RowsInv(work')
        /\ \A m \in DOMAIN work'.rows : m \in DOMAIN work.rows /\ work'.rows[m] = work.rows[m]
    BY <2>1, PurgePreserves DEF IInv, TypeOK, ClockInv
  <2>3. r.id \in DOMAIN work.rows /\ work.rows[r.id] \in Row
    BY <2>1 DEF Kept, IInv, TypeOK, StoreOK
  <2>4. body' \in Results /\ Executed(work', r, body')
    BY <1>2, <2>1, <2>3 DEF IInv, RowsInv, ExecutedWith, Executed, Row
  <2>5. TypeOK'
    BY <2>1, <2>2, <2>4 DEF IInv, TypeOK, StoreOK
  <2>6. ClockInv' /\ LogInv(db)' /\ LogInv(work)' /\ AnsweredIsDurable'
    BY <2>1, <2>2 DEF IInv, ClockInv, LogInv, HasRow, TimelyAt, Purgeable, AnsweredIsDurable
  <2>7. RowsInv(db)' /\ RowsInv(work)'
    BY <2>1, <2>2 DEF IInv, RowsInv, ExecutedWith
  <2>8. PlaceholderInv' /\ PrefixInv'
    BY <2>1, <2>2 DEF IInv, PlaceholderInv, PrefixInv
  <2>9. HandlerInv'
    BY <2>1, <2>4 DEF HandlerInv, Executed
  <2>10. QED
    BY <2>5, <2>6, <2>7, <2>8, <2>9 DEF IInv
<1>3. QED
  BY <1>1, <1>2

\* The handler's writes join the transaction.
LEMMA DispatchIInv ==
  ASSUME IInv, DispatchSucceeds
  PROVE  IInv'
<1>1. PICK v \in Results :
        /\ work' = [rows |-> work.rows,
                    log |-> Append(work.log, [req |-> current, result |-> v, at |-> started])]
        /\ body' = v /\ pc = "dispatch" /\ pc' = "store"
        /\ UNCHANGED <<now, latest, db, current, started, answers, crashes>>
  BY DEF DispatchSucceeds, clock
<1>2. /\ current \in Requests /\ started \in Nat
      /\ HasRow(work, current, started) /\ TimelyAt(current, started)
  BY <1>1 DEF IInv, HandlerInv, TypeOK
<1>3. /\ StoreOK(work') /\ LogInv(work') /\ RowsInv(work')
      /\ ExecutedWith(work', current, v, Seconds(started))
  BY <1>1, <1>2, AppendPreserves DEF IInv, TypeOK
<1>4. TypeOK'
  BY <1>1, <1>3 DEF IInv, TypeOK, StoreOK
<1>5. ClockInv' /\ LogInv(db)' /\ LogInv(work)' /\ AnsweredIsDurable'
  BY <1>1, <1>3 DEF IInv, ClockInv, LogInv, HasRow, TimelyAt, Purgeable, AnsweredIsDurable
<1>6. RowsInv(db)' /\ RowsInv(work)' /\ PlaceholderInv'
  BY <1>1, <1>3 DEF IInv, RowsInv, ExecutedWith, PlaceholderInv
<1>7. PrefixInv'
  BY <1>1 DEF IInv, TypeOK, StoreOK, PrefixInv
<1>8. HandlerInv'
  BY <1>1, <1>2, <1>3 DEF HandlerInv, HasRow, TimelyAt, ExecutedWith
<1>9. QED
  BY <1>4, <1>5, <1>6, <1>7, <1>8 DEF IInv

\* The response replaces the placeholder.
LEMMA StoreIInv ==
  ASSUME IInv, StoreResult
  PROVE  IInv'
<1>1. /\ work' = [rows |-> Upserted(work.rows, current.id,
                             [fp |-> work.rows[current.id].fp, summary |-> body,
                              seen |-> work.rows[current.id].seen]),
                  log |-> work.log]
      /\ pc = "store" /\ pc' = "commit"
      /\ UNCHANGED <<now, latest, db, current, started, body, answers, crashes>>
  BY DEF StoreResult, clock
<1>2. /\ current \in Requests /\ started \in Nat /\ body \in Results
      /\ HasRow(work, current, started)
      /\ ExecutedWith(work, current, body, Seconds(started))
  BY <1>1 DEF IInv, HandlerInv, TypeOK
<1>3. /\ StoreOK(work') /\ LogInv(work') /\ RowsInv(work')
      /\ DOMAIN work'.rows = DOMAIN work.rows /\ work'.rows[current.id].summary = body
      /\ \A m \in DOMAIN work.rows : m # current.id => work'.rows[m] = work.rows[m]
  BY <1>1, <1>2, UpdatePreserves DEF IInv, TypeOK
<1>4. TypeOK'
  BY <1>1, <1>3 DEF IInv, TypeOK, StoreOK
<1>5. ClockInv' /\ LogInv(db)' /\ LogInv(work)' /\ AnsweredIsDurable'
  BY <1>1, <1>3 DEF IInv, ClockInv, LogInv, HasRow, TimelyAt, Purgeable, AnsweredIsDurable
<1>6. RowsInv(db)' /\ RowsInv(work)'
  BY <1>1, <1>3 DEF IInv, RowsInv, ExecutedWith
<1>7. PlaceholderInv'
  BY <1>1, <1>2, <1>3, ConstantShape DEF IInv, PlaceholderInv
<1>8. PrefixInv'
  BY <1>1 DEF IInv, PrefixInv
<1>9. HandlerInv'
  BY <1>1, <1>2 DEF HandlerInv, ExecutedWith, Executed
<1>10. QED
  BY <1>4, <1>5, <1>6, <1>7, <1>8, <1>9 DEF IInv

\* The committed executions are the first ones of the connection's view.
LEMMA PrefixDomain ==
  ASSUME TypeOK, PrefixInv
  PROVE  \A i \in DOMAIN db.log : i \in DOMAIN work.log /\ work.log[i] = db.log[i]
<1>1. /\ DOMAIN db.log = 1..Len(db.log) /\ Len(db.log) \in Nat
      /\ DOMAIN work.log = 1..Len(work.log) /\ Len(work.log) \in Nat
  BY DEF TypeOK, StoreOK
<1>2. QED
  BY <1>1 DEF PrefixInv

\* The commit, with the answer received or lost.
LEMMA CommitIInv ==
  ASSUME IInv, CommitAndAnswer
  PROVE  IInv'
<1>1. /\ db' = work /\ pc = "commit" /\ pc' = "idle"
      /\ current' = NoRequest /\ started' = 0 /\ body' = Pending
      /\ answers' \in {answers, answers \cup {<<current, body>>}}
      /\ UNCHANGED <<now, latest, work, crashes>>
  BY DEF CommitAndAnswer, LockReleased, clock
<1>2. current \in Requests /\ body \in Results /\ Executed(work, current, body)
  BY <1>1 DEF IInv, HandlerInv
<1>3. TypeOK'
  BY <1>1, <1>2 DEF IInv, TypeOK, StoreOK
<1>4. ClockInv' /\ LogInv(db)' /\ LogInv(work)'
  BY <1>1 DEF IInv, ClockInv, LogInv, HasRow, TimelyAt, Purgeable
<1>5. RowsInv(db)' /\ RowsInv(work)' /\ PlaceholderInv'
  BY <1>1 DEF IInv, RowsInv, ExecutedWith, PlaceholderInv
<1>6. PrefixInv' /\ HandlerInv'
  BY <1>1 DEF IInv, PrefixInv, HandlerInv, TypeOK, StoreOK
<1>7. AnsweredIsDurable'
  <2>1. \A i \in DOMAIN db.log : i \in DOMAIN work.log /\ work.log[i] = db.log[i]
    BY PrefixDomain DEF IInv
  <2>3. \A a \in answers : \E i \in DOMAIN work.log :
          work.log[i].req = a[1] /\ work.log[i].result = a[2]
    BY <2>1 DEF IInv, AnsweredIsDurable
  <2>2. QED
    BY <1>1, <1>2, <2>3 DEF AnsweredIsDurable, Executed
<1>8. QED
  BY <1>3, <1>4, <1>5, <1>6, <1>7 DEF IInv

\* Steps that leave both stores and the clock as they are and end at rest: a
\* commit that raises with the transaction left open, a restart.
LEMMA AtRestIInv ==
  ASSUME IInv, pc \notin {"dispatch", "store"}, pc' = "idle",
         current' \in Requests \cup {NoRequest}, started' \in Nat, body' \in Results \cup {Pending},
         UNCHANGED <<now, latest, db, work, answers, crashes>>
  PROVE  IInv'
<1>1. TypeOK' /\ ClockInv' /\ HandlerInv'
  BY DEF IInv, TypeOK, StoreOK, ClockInv, HandlerInv
<1>2. LogInv(db)' /\ LogInv(work)'
  BY DEF IInv, LogInv, HasRow, TimelyAt, Purgeable
<1>3. RowsInv(db)' /\ RowsInv(work)' /\ PlaceholderInv' /\ PrefixInv' /\ AnsweredIsDurable'
  BY DEF IInv, RowsInv, ExecutedWith, PlaceholderInv, PrefixInv, AnsweredIsDurable
<1>4. QED
  BY <1>1, <1>2, <1>3 DEF IInv

\* IInv is inductive.
LEMMA NextIInv == IInv /\ [Next]_vars => IInv'
<1> SUFFICES ASSUME IInv, [Next]_vars PROVE IInv'
  OBVIOUS
<1>1. ASSUME NEW r \in Requests, AcceptFresh(r) PROVE IInv'
  BY <1>1, FreshIInv
<1>2. ASSUME NEW r \in Requests, AcceptReplay(r) PROVE IInv'
  BY <1>2, ReplayIInv
<1>3. CASE Reject \/ DispatchFails
  BY <1>3, RollbackIInv DEF Reject, DispatchFails, Rollback, LockReleased, IInv, TypeOK
<1>4. CASE DispatchSucceeds
  BY <1>4, DispatchIInv
<1>5. CASE StoreResult
  BY <1>5, StoreIInv
<1>6. CASE CommitAndAnswer
  BY <1>6, CommitIInv
<1>7. CASE CommitRaises
  <2>1. CASE work' = db
    BY <1>7, <2>1, RollbackIInv DEF CommitRaises, LockReleased, IInv, TypeOK
  <2>2. CASE work' = work
    BY <1>7, <2>2, AtRestIInv DEF CommitRaises, LockReleased, clock
  <2>3. QED
    BY <1>7, <2>1, <2>2 DEF CommitRaises
<1>8. CASE Crash
  BY <1>8, RollbackIInv DEF Crash, IInv, TypeOK
<1>9. CASE Restart
  BY <1>9, AtRestIInv DEF Restart, clock, IInv, TypeOK
<1>10. CASE ClockAdvances \/ ClockStepsBack
  <2>1. /\ now \in Nat /\ latest \in Nat /\ now <= latest /\ latest - now <= MaxStepBack
        /\ MaxStepBack \in Nat
    BY ConstantShape DEF IInv, TypeOK, ClockInv
  <2>2. CASE ClockAdvances
    <3>1. now' \in Nat /\ latest' \in Nat /\ latest <= latest' /\ now' <= latest'
          /\ latest' - now' <= MaxStepBack
      BY <2>1, <2>2 DEF ClockAdvances
    <3>2. QED
      BY <2>2, <3>1, ClockIInv DEF ClockAdvances
  <2>3. CASE ClockStepsBack
    <3>1. now' \in Nat /\ latest' = latest /\ now' <= latest' /\ latest' - now' <= MaxStepBack
      BY <2>1, <2>3 DEF ClockStepsBack
    <3>2. QED
      BY <2>1, <2>3, <3>1, ClockIInv DEF ClockStepsBack
  <2>4. QED
    BY <1>10, <2>2, <2>3
<1>11. CASE UNCHANGED vars
  <2>1. TypeOK' /\ ClockInv'
    BY <1>11 DEF vars, IInv, TypeOK, StoreOK, ClockInv
  <2>2. LogInv(db)' /\ LogInv(work)' /\ RowsInv(db)' /\ RowsInv(work)'
    BY <1>11 DEF vars, IInv, LogInv, HasRow, TimelyAt, Purgeable, RowsInv, ExecutedWith
  <2>3. PlaceholderInv' /\ PrefixInv' /\ AnsweredIsDurable'
    BY <1>11 DEF vars, IInv, PlaceholderInv, PrefixInv, AnsweredIsDurable
  <2>4. HandlerInv'
    BY <1>11 DEF vars, IInv, HandlerInv, HasRow, TimelyAt, ExecutedWith, Executed
  <2>5. QED
    BY <2>1, <2>2, <2>3, <2>4 DEF IInv
<1>12. QED
  BY <1>1, <1>2, <1>3, <1>4, <1>5, <1>6, <1>7, <1>8, <1>9, <1>10, <1>11
     DEF Next, Handler, Environment

\* The inductive invariant holds in every reachable state.
THEOREM SpecIInv == Spec => []IInv
BY InitIInv, NextIInv, PTL DEF Spec

\* The variables have their types; the stored rows belong to real requests.
THEOREM TypeCorrect == Spec => []TypeOK
<1>1. IInv => TypeOK
  BY DEF IInv
<1>2. QED
  BY <1>1, SpecIInv, PTL

\* No crash, rollback or failed commit takes back an answered effect.
THEOREM AnswersAreDurable == Spec => []AnsweredIsDurable
<1>1. IInv => AnsweredIsDurable
  BY DEF IInv
<1>2. QED
  BY <1>1, SpecIInv, PTL

\* A committed row always holds the response of a committed execution, so a
\* replay is never answered with REPLAY_RESPONSE_UNAVAILABLE.
THEOREM RowsAreBacked == Spec => []RowsBackedByEffects
<1>1. IInv => RowsBackedByEffects
  BY DEF IInv, RowsInv, PlaceholderInv, ExecutedWith, RowsBackedByEffects
<1>2. QED
  BY <1>1, SpecIInv, PTL

--------------------------------------------------------------------------------
(* At most once *)

\* An execution that has no row, or whose row the purge removes now, is long
\* ago.
LEMMA ForgottenIsLongAgo ==
  ASSUME IInv, NEW i \in DOMAIN work.log,
         \/ work.log[i].req.id \notin Kept(work.rows)
         \/ ~ HasRow(work, work.log[i].req, work.log[i].at)
  PROVE  LongAgo(work.log[i].at, now)
<1> DEFINE t == work.log[i].at
<1>1. /\ t \in Nat /\ now \in Nat /\ latest \in Nat /\ now <= latest /\ latest - now <= MaxStepBack
      /\ ReplayWindow \in Nat /\ MaxStepBack \in Nat
      /\ TicksPerSecond \in Nat
  BY LogEntryType, ConstantShape DEF IInv, TypeOK, ClockInv
<1>2. Seconds(now) \in Nat /\ Seconds(t) \in Nat /\ Seconds(now) <= Seconds(latest)
      /\ Seconds(latest) \in Nat
  BY <1>1, SecondsType, SecondsMonotone
<1>3. Seconds(latest) - ReplayWindow > Seconds(t)
  <2>1. CASE Purgeable(t)
    BY <2>1 DEF Purgeable
  <2>2. CASE HasRow(work, work.log[i].req, t)
    BY <1>1, <1>2, <2>2 DEF HasRow, Kept
  <2>3. QED
    BY <2>1, <2>2 DEF IInv, LogInv
<1>4. latest - t > ReplayWindow * TicksPerSecond
  BY <1>1, <1>3, SecondsApart
<1>5. ReplayWindow * TicksPerSecond \in Nat
  BY <1>1
<1>6. QED
  BY <1>1, <1>4, <1>5 DEF LongAgo

\* With a window that covers the expiry, a request that was executed that long
\* ago has expired.
LEMMA LongAgoIsExpired ==
  ASSUME IInv, WindowCoversExpiry, NEW i \in DOMAIN work.log, LongAgo(work.log[i].at, now)
  PROVE  now > work.log[i].req.exp
<1> DEFINE e == work.log[i]
           M == MaxExpiryWindow * TicksPerSecond
           K == Skew * TicksPerSecond
           W == ReplayWindow * TicksPerSecond
<1>1. /\ e.at \in Nat /\ now \in Nat /\ MaxStepBack \in Nat
      /\ e.req.ts \in Int /\ e.req.exp \in Int
  BY LogEntryType, RequestShape, ConstantShape DEF IInv, TypeOK
<1>2. M \in Nat /\ K \in Nat /\ W \in Nat
  BY ConstantShape
<1>3. (MaxExpiryWindow + Skew) * TicksPerSecond = M + K
  BY ConstantShape
<1>4. M + K + MaxStepBack <= W
  BY <1>3 DEF WindowCoversExpiry
<1>5. e.req.exp - e.req.ts <= M /\ e.req.ts <= e.at + K
  BY DEF IInv, LogInv, TimelyAt
<1>6. now - e.at > W - MaxStepBack
  BY DEF LongAgo
<1> HIDE DEF e, M, K, W
<1>7. now > e.req.exp
  BY <1>1, <1>2, <1>4, <1>5, <1>6
<1>8. QED
  BY <1>7 DEF e

\* A request that took effect and is still timely has a row the purge keeps.
LEMMA LiveHasRow ==
  ASSUME IInv, WindowCoversExpiry, NEW i \in DOMAIN work.log, now <= work.log[i].req.exp
  PROVE  /\ work.log[i].req.id \in Kept(work.rows)
         /\ HasRow(work, work.log[i].req, work.log[i].at)
<1>1. now \in Int /\ work.log[i].req.exp \in Int
  BY LogEntryType, RequestShape DEF IInv, TypeOK
<1>2. QED
  BY <1>1, ForgottenIsLongAgo, LongAgoIsExpired

\* Appending the execution of a request that is not in a log.
LEMMA AppendOnce ==
  ASSUME TypeOK, ExecutedOnce(work.log), ~ Logged(current, work.log),
         NEW v, work'.log = Append(work.log, [req |-> current, result |-> v, at |-> started])
  PROVE  ExecutedOnce(work'.log)
<1>1. /\ Len(work.log) \in Nat /\ DOMAIN work.log = 1..Len(work.log)
      /\ DOMAIN work'.log = 1..Len(work.log) + 1
      /\ \A i \in DOMAIN work.log : work'.log[i] = work.log[i]
      /\ work'.log[Len(work.log) + 1].req = current
  BY DEF TypeOK, StoreOK
<1>2. QED
  BY <1>1 DEF ExecutedOnce, Logged

\* OnceInv is kept by every step; only the first and the second step of the
\* handler matter to it.
LEMMA NextOnce == WindowCoversExpiry /\ IInv /\ OnceInv /\ [Next]_vars => OnceInv'
<1> SUFFICES ASSUME WindowCoversExpiry, IInv, OnceInv, [Next]_vars PROVE OnceInv'
  OBVIOUS
<1>1. \A i \in DOMAIN db.log : i \in DOMAIN work.log /\ work.log[i] = db.log[i]
  BY PrefixDomain DEF IInv
<1>2. ExecutedOnce(db.log)
  BY <1>1 DEF OnceInv, ExecutedOnce
<1>3. ASSUME NEW r \in Requests, AcceptFresh(r) PROVE OnceInv'
  <2>1. /\ work'.log = work.log /\ current' = r /\ now <= r.exp /\ r.id \notin Kept(work.rows)
    BY <1>3 DEF AcceptFresh, Timely
  <2>2. ~ Logged(r, work.log)
    BY <2>1, LiveHasRow DEF Logged
  <2>3. QED
    BY <2>1, <2>2 DEF OnceInv
<1>4. ASSUME NEW r \in Requests, AcceptReplay(r) PROVE OnceInv'
  BY <1>2, <1>4 DEF AcceptReplay, Rollback, LockReleased, OnceInv
<1>5. CASE Reject \/ DispatchFails \/ Crash
  BY <1>2, <1>5 DEF Reject, DispatchFails, Crash, Rollback, LockReleased, OnceInv
<1>6. CASE DispatchSucceeds
  <2>1. PICK v \in Results :
          work'.log = Append(work.log, [req |-> current, result |-> v, at |-> started])
    BY <1>6 DEF DispatchSucceeds
  <2>2. QED
    BY <1>6, <2>1, AppendOnce DEF OnceInv, IInv, DispatchSucceeds
<1>7. CASE StoreResult \/ CommitAndAnswer
  BY <1>7 DEF StoreResult, CommitAndAnswer, LockReleased, OnceInv
<1>8. CASE CommitRaises
  BY <1>2, <1>8 DEF CommitRaises, LockReleased, OnceInv
<1>9. CASE Restart \/ ClockAdvances \/ ClockStepsBack \/ UNCHANGED vars
  BY <1>9 DEF Restart, ClockAdvances, ClockStepsBack, vars, worker, OnceInv
<1>10. QED
  BY <1>3, <1>4, <1>5, <1>6, <1>7, <1>8, <1>9 DEF Next, Handler, Environment

\* Both invariants together, once the window covers the expiry.
LEMMA SpecOnce == ASSUME WindowCoversExpiry PROVE Spec => [](IInv /\ OnceInv)
<1>1. Init => OnceInv
  BY DEF Init, Empty, OnceInv, ExecutedOnce
<1>2. IInv /\ OnceInv /\ [Next]_vars => OnceInv'
  BY NextOnce
<1>3. QED
  BY <1>1, <1>2, InitIInv, NextIInv, PTL DEF Spec

\* A signed request takes effect at most once if the replay window is at least
\* the expiry window, the skew and the clock's step back together.
THEOREM ExecutesAtMostOnce == ASSUME WindowCoversExpiry PROVE Spec => []AtMostOnce
<1>1. IInv /\ OnceInv => AtMostOnce
  BY DEF OnceInv, AtMostOnce
<1>2. QED
  BY <1>1, SpecOnce, PTL

\* Under the same condition every success response to a request is the same.
THEOREM AnswersAreTheSame == ASSUME WindowCoversExpiry PROVE Spec => []SameAnswer
<1>1. IInv /\ OnceInv => SameAnswer
  <2> SUFFICES ASSUME IInv, OnceInv, NEW a \in answers, NEW b \in answers, a[1] = b[1]
               PROVE  a[2] = b[2]
    BY DEF SameAnswer
  <2>1. \A i \in DOMAIN db.log : i \in DOMAIN work.log /\ work.log[i] = db.log[i]
    BY PrefixDomain DEF IInv
  <2>2. PICK i \in DOMAIN db.log : db.log[i].req = a[1] /\ db.log[i].result = a[2]
    BY DEF IInv, AnsweredIsDurable
  <2>3. PICK j \in DOMAIN db.log : db.log[j].req = b[1] /\ db.log[j].result = b[2]
    BY DEF IInv, AnsweredIsDurable
  <2>4. i = j
    BY <2>1, <2>2, <2>3 DEF OnceInv, ExecutedOnce
  <2>5. QED
    BY <2>2, <2>3, <2>4
<1>2. QED
  BY <1>1, SpecOnce, PTL

\* Under the same condition the purge never takes the row of a live request.
THEOREM LiveRequestsAreRemembered ==
  ASSUME WindowCoversExpiry PROVE Spec => []LiveRequestRemembered
<1>1. IInv => LiveRequestRemembered
  BY LiveHasRow DEF LiveRequestRemembered, HasRow
<1>2. QED
  BY <1>1, SpecIInv, PTL

--------------------------------------------------------------------------------
(* Reuse of a message_id, for any window *)

\* IdReusedAfterWindow, entry by entry.
ReusedLate(l) ==
  \A i, j \in DOMAIN l : (i < j /\ l[i].req.id = l[j].req.id) => LongAgo(l[i].at, l[j].at)

\* Appending an execution whose message_id was last used long ago.
LEMMA AppendLate ==
  ASSUME TypeOK, ReuseInv, pc = "dispatch",
         NEW v, work'.log = Append(work.log, [req |-> current, result |-> v, at |-> started])
  PROVE  ReusedLate(work'.log)
<1>1. /\ Len(work.log) \in Nat /\ DOMAIN work.log = 1..Len(work.log)
      /\ DOMAIN work'.log = 1..Len(work.log) + 1
      /\ \A i \in DOMAIN work.log : work'.log[i] = work.log[i]
      /\ work'.log[Len(work.log) + 1].req = current
      /\ work'.log[Len(work.log) + 1].at = started
  BY DEF TypeOK, StoreOK
<1>2. ReusedLate(work.log)
  BY DEF ReuseInv, IdReusedAfterWindow, ReusedLate, LongAgo
<1>3. QED
  BY <1>1, <1>2 DEF ReuseInv, ReusedLate

\* ReuseInv is kept by every step.
LEMMA NextReuse == IInv /\ ReuseInv /\ [Next]_vars => ReuseInv'
<1> SUFFICES ASSUME IInv, ReuseInv, [Next]_vars PROVE ReuseInv'
  OBVIOUS
<1>1. \A i \in DOMAIN db.log : i \in DOMAIN work.log /\ work.log[i] = db.log[i]
  BY PrefixDomain DEF IInv
<1>2. ReusedLate(db.log) /\ ReusedLate(work.log)
  BY <1>1 DEF ReuseInv, IdReusedAfterWindow, ReusedLate, LongAgo
<1>3. ASSUME work'.log \in {work.log, db.log}, pc' # "dispatch" PROVE ReuseInv'
  BY <1>2, <1>3 DEF ReuseInv, IdReusedAfterWindow, ReusedLate, LongAgo
<1>4. ASSUME NEW r \in Requests, AcceptFresh(r) PROVE ReuseInv'
  <2>1. /\ work'.log = work.log /\ current' = r /\ started' = now /\ r.id \notin Kept(work.rows)
    BY <1>4 DEF AcceptFresh
  <2>2. \A i \in DOMAIN work.log : work.log[i].req.id = r.id => LongAgo(work.log[i].at, now)
    BY <2>1, ForgottenIsLongAgo
  <2>3. IdReusedAfterWindow'
    BY <2>1 DEF ReuseInv, IdReusedAfterWindow
  <2>4. QED
    BY <2>1, <2>2, <2>3 DEF ReuseInv, LongAgo
<1>5. ASSUME NEW r \in Requests, AcceptReplay(r) PROVE ReuseInv'
  BY <1>3, <1>5 DEF AcceptReplay, Rollback, LockReleased
<1>6. CASE Reject \/ DispatchFails \/ Crash
  BY <1>3, <1>6 DEF Reject, DispatchFails, Crash, Rollback, LockReleased
<1>7. CASE DispatchSucceeds
  <2>1. PICK v \in Results :
          work'.log = Append(work.log, [req |-> current, result |-> v, at |-> started])
    BY <1>7 DEF DispatchSucceeds
  <2>2. ReusedLate(work'.log)
    BY <1>7, <2>1, AppendLate DEF IInv, DispatchSucceeds
  <2>3. QED
    BY <1>7, <2>2 DEF ReuseInv, IdReusedAfterWindow, ReusedLate, LongAgo, DispatchSucceeds
<1>8. CASE StoreResult \/ CommitAndAnswer \/ CommitRaises \/ Restart
  BY <1>3, <1>8 DEF StoreResult, CommitAndAnswer, CommitRaises, Restart, LockReleased
<1>9. CASE ClockAdvances \/ ClockStepsBack \/ UNCHANGED vars
  BY <1>9 DEF ClockAdvances, ClockStepsBack, vars, worker, ReuseInv, IdReusedAfterWindow, LongAgo
<1>10. QED
  BY <1>4, <1>5, <1>6, <1>7, <1>8, <1>9 DEF Next, Handler, Environment

\* A message_id serves again only after the replay window, less what the clock
\* was stepped back: this holds for every setting.
THEOREM IdsAreReusedLate == Spec => []IdReusedAfterWindow
<1>1. Init => ReuseInv
  BY DEF Init, Empty, ReuseInv, IdReusedAfterWindow
<1>2. ReuseInv => IdReusedAfterWindow
  BY DEF ReuseInv
<1>3. QED
  BY <1>1, <1>2, NextReuse, InitIInv, NextIInv, PTL DEF Spec

--------------------------------------------------------------------------------
(* Refinement *)

\* A step of the pipeline commits executions of new requests, or nothing.
LEMMA StepRefines ==
  IInv /\ OnceInv /\ [Next]_vars => [Service!Next]_<<db.log, answers>>
<1> SUFFICES ASSUME IInv, OnceInv, [Next]_vars
             PROVE  Service!Next \/ UNCHANGED <<db.log, answers>>
  OBVIOUS
<1>1. CASE CommitAndAnswer
  <2>1. /\ db' = work /\ pc = "commit"
        /\ answers' \in {answers, answers \cup {<<current, body>>}}
    BY <1>1 DEF CommitAndAnswer
  <2>2. /\ Len(db.log) \in Nat /\ Len(work.log) \in Nat /\ DOMAIN work.log = 1..Len(work.log)
        /\ Len(db.log) <= Len(work.log)
        /\ \A i \in 1..Len(db.log) : work.log[i] = db.log[i]
    BY DEF IInv, TypeOK, StoreOK, PrefixInv
  <2>3. \A i, j \in 1..Len(work.log) : work.log[i].req = work.log[j].req => i = j
    BY <2>2 DEF OnceInv, ExecutedOnce
  <2>4. Service!TakeEffect
    BY <2>1, <2>2, <2>3 DEF Service!TakeEffect
  <2>5. /\ current \in Requests /\ body \in Results
        /\ Executed(work, current, body)
    BY <2>1 DEF IInv, HandlerInv
  <2>6. Service!Respond
    BY <2>1, <2>5 DEF Service!Respond, Service!Performed, Executed
  <2>7. QED
    BY <2>4, <2>6 DEF Service!Next
<1>2. ASSUME NEW r \in Requests, AcceptFresh(r) \/ AcceptReplay(r)
      PROVE  UNCHANGED <<db.log, answers>>
  BY <1>2 DEF AcceptFresh, AcceptReplay
<1>3. CASE Reject \/ DispatchSucceeds \/ DispatchFails \/ StoreResult \/ CommitRaises
  BY <1>3 DEF Reject, DispatchSucceeds, DispatchFails, StoreResult, CommitRaises
<1>4. CASE Environment \/ UNCHANGED vars
  BY <1>4 DEF Environment, Crash, Restart, ClockAdvances, ClockStepsBack, vars
<1>5. QED
  BY <1>1, <1>2, <1>3, <1>4 DEF Next, Handler

\* The pipeline implements the idempotent service when the replay window is
\* long enough.
THEOREM PipelineImplementsService ==
  ASSUME WindowCoversExpiry PROVE Spec => ImplementsService
<1>1. Init => Service!Init
  BY DEF Init, Empty, Service!Init
<1>2. QED
  BY <1>1, SpecOnce, StepRefines, PTL DEF Spec, ImplementsService, Service!Spec
================================================================================
