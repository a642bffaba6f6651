---------------------------- MODULE MessagePipeline ----------------------------
(***************************************************************************)
(* The life of a signed POST /message: validation, the message_dedup table *)
(* (replay / idempotency cache), the handler's effect and the SQLite       *)
(* transaction that carries both, with crashes, failed commits, client     *)
(* retries in any order and a wall clock that may be stepped back.         *)
(*                                                                         *)
(* The handler runs under conn_lock with no await inside, so at most one   *)
(* request is between the first and the last of its steps.  Every request  *)
(* of the server shares one connection: "work" is what that connection     *)
(* sees, "db" what is committed, and the two are equal exactly when no     *)
(* transaction holds changes.                                              *)
(***************************************************************************)
EXTENDS Integers, Sequences

CONSTANTS
  Requests,          \* signed envelopes: records [id, body, ts, exp], instants in ticks
  NoRequest,         \* no request is being handled
  Results,           \* success response bodies
  Pending,           \* the placeholder "validated" of result_summary
  TicksPerSecond,    \* resolution of the float clock against the int() of it
  MaxExpiryWindow,   \* max_expiry_window_seconds
  Skew,              \* future_timestamp_skew_seconds
  ReplayWindow,      \* replay_window_seconds
  MaxStepBack,       \* how far, in ticks, the wall clock may fall behind its maximum
  Horizon,           \* bound: last tick of the clock
  MaxLog,            \* bound: number of executed requests
  MaxCrashes         \* bound: number of crashes

ASSUME RequestShape ==
  \A r \in Requests : r.ts \in Int /\ r.exp \in Int

ASSUME ConstantShape ==
  /\ TicksPerSecond \in Nat \ {0}
  /\ {MaxExpiryWindow, Skew, ReplayWindow, MaxStepBack} \subseteq Nat
  /\ {Horizon, MaxLog, MaxCrashes} \subseteq Nat
  /\ NoRequest \notin Requests
  /\ Pending \notin Results

VARIABLES
  now,       \* the wall clock
  latest,    \* the largest reading the clock has given (history)
  db,        \* committed [rows, log]: message_dedup, and the executions that took effect
  work,      \* the same as the server's connection sees it
  pc,        \* where the request under conn_lock is
  current,   \* that request
  started,   \* the reading of the clock its validation used
  body,      \* its response_body
  answers,   \* <<request, result>> success responses clients have received (history)
  crashes    \* number of crashes so far

clock  == <<now, latest>>
worker == <<pc, current, started, body>>
vars   == <<now, latest, db, work, pc, current, started, body, answers, crashes>>

MessageIds == {r.id : r \in Requests}

\* int(now): the clock is a float, the table stores whole seconds.
Seconds(t) == t \div TicksPerSecond

\* One executed request: the handler's effect on the other tables, and when.
Execution == [req : Requests, result : Results, at : Nat]

\* A row of message_dedup; fp is the SHA-256 of the signing preimage, which
\* covers every field of the envelope but the signature, so it is the request.
Row == [fp : Requests, summary : Results \cup {Pending}, seen : Nat]

Empty == [rows |-> [m \in {} |-> NoRequest], log |-> <<>>]

Logged(r, l) == \E i \in DOMAIN l : l[i].req = r

--------------------------------------------------------------------------------
(* Helpers of the code *)

\* The instants of an envelope against the clock, in the order of the checks:
\* positive validity, bounded validity, not expired, not from the future.
Timely(r) ==
  /\ r.ts < r.exp
  /\ r.exp - r.ts <= MaxExpiryWindow * TicksPerSecond
  /\ now <= r.exp
  /\ r.ts <= now + Skew * TicksPerSecond

\* Variant: the purge keeps strictly younger rows only.
KeptStrictlyYounger(rows) ==
  {m \in DOMAIN rows : rows[m].seen > Seconds(now) - ReplayWindow}

\* Variant: the purge uses the expiry setting instead of the replay setting.
KeptForExpiryWindow(rows) ==
  {m \in DOMAIN rows : rows[m].seen >= Seconds(now) - MaxExpiryWindow}

\* delete_older_than(int(now) - replay_window_seconds)
Kept(rows) ==
  LET cutoff == Seconds(now) - ReplayWindow
  IN  {m \in DOMAIN rows : rows[m].seen >= cutoff}

Purged(rows) == [m \in Kept(rows) |-> rows[m]]

Upserted(rows, m, row) ==
  [k \in DOMAIN rows \cup {m} |-> IF k = m THEN row ELSE rows[k]]

\* What _apply_deduplication inserts for a message_id without a row.
PlaceholderRow(r) == [fp |-> r, summary |-> Pending, seen |-> Seconds(now)]

\* The end of the with block: the handler's locals are gone.
LockReleased == pc' = "idle" /\ current' = NoRequest /\ started' = 0 /\ body' = Pending

\* conn.rollback(), and an error envelope is returned.
Rollback ==
  /\ work' = db
  /\ LockReleased

--------------------------------------------------------------------------------
(* The handler of POST /message, step by step *)

\* Variant: INSERT OR REPLACE, with no look at the row that is there.
AcceptWithoutLookup(r) ==
  /\ pc = "idle"
  /\ Timely(r)
  /\ work' = [rows |-> Upserted(Purged(work.rows), r.id, PlaceholderRow(r)),
               log |-> work.log]
  /\ pc' = "dispatch" /\ current' = r /\ started' = now
  /\ UNCHANGED <<clock, db, body, answers, crashes>>

\* A first sight of message_id: the placeholder row is inserted, which opens
\* the transaction, unless an earlier failed commit left one open.
AcceptFresh(r) ==
  /\ pc = "idle"
  /\ Timely(r)
  /\ r.id \notin Kept(work.rows)
  /\ work' = [rows |-> Upserted(Purged(work.rows), r.id, PlaceholderRow(r)),
               log |-> work.log]
  /\ pc' = "dispatch" /\ current' = r /\ started' = now
  /\ UNCHANGED <<clock, db, body, answers, crashes>>

\* Variant: the stored response is sent with no commit before it.
ReplayWithoutCommit(r) ==
  /\ pc = "idle"
  /\ Timely(r)
  /\ r.id \in Kept(work.rows)
  /\ work.rows[r.id].fp = r
  /\ work' = [rows |-> Purged(work.rows), log |-> work.log]
  /\ answers' = answers \cup {<<r, work.rows[r.id].summary>>}
  /\ UNCHANGED <<clock, db, pc, current, started, body, crashes>>

\* The same request again: is_replay.  A stored response is sent once the
\* commit went through; the placeholder gives REPLAY_RESPONSE_UNAVAILABLE.
AcceptReplay(r) ==
  /\ pc = "idle"
  /\ Timely(r)
  /\ r.id \in Kept(work.rows)
  /\ work.rows[r.id].fp = r
  /\ IF work.rows[r.id].summary # Pending
       THEN /\ work' = [rows |-> Purged(work.rows), log |-> work.log]
            /\ pc' = "commit" /\ current' = r /\ started' = now
            /\ body' = work.rows[r.id].summary
       ELSE Rollback
  /\ UNCHANGED <<clock, db, answers, crashes>>

\* Any check of validate_inbound_request fails (an untimely request, the same
\* message_id with another fingerprint, a bad signature, the bootstrap policy,
\* SQLITE_BUSY on the first write ...): the transaction is rolled back, with
\* whatever an earlier request may have left in it.
Reject ==
  /\ pc = "idle"
  /\ Rollback
  /\ UNCHANGED <<clock, db, answers, crashes>>

\* Variant: the handler's writes are committed on their own.
DispatchOnItsOwnConnection ==
  /\ pc = "dispatch"
  /\ Len(work.log) < MaxLog
  /\ \E v \in Results :
       LET done == Append(work.log, [req |-> current, result |-> v, at |-> started])
       IN  /\ work' = [rows |-> work.rows, log |-> done]
           /\ db' = [rows |-> db.rows, log |-> done]
           /\ body' = v
  /\ pc' = "store"
  /\ UNCHANGED <<clock, current, started, answers, crashes>>

\* dispatch_operation returns a response: the handler's writes are in the
\* transaction, nothing is committed.
DispatchSucceeds ==
  /\ pc = "dispatch"
  /\ Len(work.log) < MaxLog
  /\ \E v \in Results :
       /\ work' = [rows |-> work.rows,
                    log |-> Append(work.log, [req |-> current, result |-> v, at |-> started])]
       /\ body' = v
  /\ pc' = "store"
  /\ UNCHANGED <<clock, db, current, started, answers, crashes>>

\* Variant: the error path forgets the rollback.
DispatchFailsNoRollback ==
  /\ pc = "dispatch"
  /\ LockReleased
  /\ UNCHANGED <<clock, db, work, answers, crashes>>

\* dispatch_operation raises a WireValidationError or anything else.
DispatchFails ==
  /\ pc = "dispatch"
  /\ Rollback
  /\ UNCHANGED <<clock, db, answers, crashes>>

\* Variant: the response is not stored.
ResultNotStored ==
  /\ pc = "store"
  /\ pc' = "commit"
  /\ UNCHANGED <<clock, db, work, current, started, body, answers, crashes>>

\* update_result_summary: the response replaces the placeholder.
StoreResult ==
  /\ pc = "store"
  /\ LET row == work.rows[current.id]
     IN  work' = [rows |-> Upserted(work.rows, current.id,
                             [fp |-> row.fp, summary |-> body, seen |-> row.seen]),
                  log |-> work.log]
  /\ pc' = "commit"
  /\ UNCHANGED <<clock, db, current, started, body, answers, crashes>>

\* conn.commit() succeeds; the response reaches the client or is lost.
CommitAndAnswer ==
  /\ pc = "commit"
  /\ db' = work
  /\ answers' \in {answers, answers \cup {<<current, body>>}}
  /\ LockReleased
  /\ UNCHANGED <<clock, work, crashes>>

\* conn.commit() raises outside any try.  SQLITE_BUSY leaves the transaction
\* open on the shared connection, a full or failing disk rolls it back; in
\* both cases the client gets a bare 500 and the lock is released.
CommitRaises ==
  /\ pc = "commit"
  /\ work' \in {work, db}
  /\ LockReleased
  /\ UNCHANGED <<clock, db, answers, crashes>>

--------------------------------------------------------------------------------
(* The environment *)

\* The process dies: SQLite rolls back to the last commit.
Crash ==
  /\ pc # "down"
  /\ crashes < MaxCrashes
  /\ crashes' = crashes + 1
  /\ work' = db
  /\ pc' = "down" /\ current' = NoRequest /\ started' = 0 /\ body' = Pending
  /\ UNCHANGED <<clock, db, answers>>

Restart ==
  /\ pc = "down"
  /\ pc' = "idle"
  /\ UNCHANGED <<clock, db, work, current, started, body, answers, crashes>>

\* time.time() advances, or the host's clock is stepped back.
ClockAdvances ==
  /\ now < Horizon
  /\ now' = now + 1
  /\ latest' = IF now' > latest THEN now' ELSE latest
  /\ UNCHANGED <<db, work, worker, answers, crashes>>

ClockStepsBack ==
  /\ \E d \in 1..MaxStepBack :
       /\ now - d >= 0
       /\ latest - (now - d) <= MaxStepBack
       /\ now' = now - d
  /\ UNCHANGED <<latest, db, work, worker, answers, crashes>>

--------------------------------------------------------------------------------

Init ==
  /\ now = 0 /\ latest = 0
  /\ db = Empty /\ work = Empty
  /\ pc = "idle" /\ current = NoRequest /\ started = 0 /\ body = Pending
  /\ answers = {}
  /\ crashes = 0

Handler ==
  \/ \E r \in Requests : AcceptFresh(r) \/ AcceptReplay(r)
  \/ Reject
  \/ DispatchSucceeds \/ DispatchFails
  \/ StoreResult
  \/ CommitAndAnswer \/ CommitRaises

Environment == Crash \/ Restart \/ ClockAdvances \/ ClockStepsBack

Next == Handler \/ Environment

Spec == Init /\ [][Next]_vars

\* The steps under the lock always finish and a stopped server is restarted;
\* a client keeps sending a request it has no answer to, and neither the commit
\* nor the delivery of the answer fails for ever.
Answer == CommitAndAnswer /\ answers' # answers

Fairness ==
  /\ WF_vars(DispatchSucceeds \/ DispatchFails)
  /\ WF_vars(StoreResult)
  /\ WF_vars(CommitAndAnswer \/ CommitRaises)
  /\ WF_vars(Restart)
  /\ \A r \in Requests : SF_vars(AcceptReplay(r))
  /\ \A r \in Requests : SF_vars(Answer /\ current = r)

FairSpec == Spec /\ Fairness

--------------------------------------------------------------------------------
(* Properties *)

\* The clock's bound for which the replay window is long enough: a request that
\* is still timely has its row, whatever the clock did since it was executed.
WindowCoversExpiry ==
  (MaxExpiryWindow + Skew) * TicksPerSecond + MaxStepBack
    <= ReplayWindow * TicksPerSecond

StoreOK(s) ==
  /\ DOMAIN s.rows \subseteq MessageIds
  /\ \A m \in DOMAIN s.rows : s.rows[m] \in Row
  /\ s.log \in Seq(Execution)

\* Types of the variables; body is the placeholder until dispatch returns.
TypeOK ==
  /\ now \in Nat /\ latest \in Nat
  /\ StoreOK(db) /\ StoreOK(work)
  /\ pc \in {"idle", "dispatch", "store", "commit", "down"}
  /\ current \in Requests \cup {NoRequest} /\ started \in Nat
  /\ body \in Results \cup {Pending}
  /\ answers \subseteq Requests \X Results
  /\ crashes \in Nat

ExecutedOnce(l) ==
  \A i, j \in DOMAIN l : l[i].req = l[j].req => i = j

\* A signed request takes effect at most once, however often it is sent, and
\* whatever crashed, was rolled back or was purged from message_dedup between.
AtMostOnce == ExecutedOnce(work.log)

\* A success response is only ever received for an effect that is committed:
\* no crash, rollback or failed commit later can take it back.
AnsweredIsDurable ==
  \A a \in answers :
    \E i \in DOMAIN db.log : db.log[i].req = a[1] /\ db.log[i].result = a[2]

\* Every success response to a request, the first and the replayed ones, is
\* the same ("replay: success JSON must match first response").
SameAnswer ==
  \A a, b \in answers : a[1] = b[1] => a[2] = b[2]

\* A row and its request's effect are committed together: each committed row
\* holds the response of an execution of that request in the row's second, so
\* REPLAY_RESPONSE_UNAVAILABLE is never a client's answer.
RowsBackedByEffects ==
  \A m \in DOMAIN db.rows :
    \E i \in DOMAIN db.log :
      /\ db.log[i].req = db.rows[m].fp
      /\ db.log[i].result = db.rows[m].summary
      /\ Seconds(db.log[i].at) = db.rows[m].seen
      /\ db.rows[m].fp.id = m

\* A message_id serves again only after the replay window: between two
\* executions under one id lies more than replay_window_seconds, up to what
\* the clock was stepped back in between.
IdReusedAfterWindow ==
  \A i, j \in DOMAIN work.log :
    (i < j /\ work.log[i].req.id = work.log[j].req.id) =>
       work.log[j].at - work.log[i].at > ReplayWindow * TicksPerSecond - MaxStepBack

\* While a request that took effect can still be sent, its row is there to
\* answer it: the purge never removes the row of a live request.
LiveRequestRemembered ==
  \A i \in DOMAIN work.log :
    LET r == work.log[i].req
    IN  now <= r.exp => r.id \in DOMAIN work.rows /\ work.rows[r.id].fp = r

\* What a client may count on: a request that took effect is answered if it is
\* sent again until it expires, through lost answers, failed commits, crashes.
EffectIsAnswered ==
  \A r \in Requests :
    Logged(r, db.log) ~> ((\E a \in answers : a[1] = r) \/ now > r.exp)

\* The service the pipeline implements.
Service == INSTANCE IdempotentService WITH effects <- db.log

\* Every committed step is a step of the idempotent service.
ImplementsService == Service!Spec
================================================================================
