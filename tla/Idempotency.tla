---------------------------- MODULE Idempotency ----------------------------
(***************************************************************************)
(* The idempotency keys of backend/kairos/core/idempotency.py: every write *)
(* of the API runs under a key its client chose.  run_idempotent_write     *)
(* claims the key, writes and records the outcome in one transaction, and  *)
(* records a refusal in another one after the rollback;                    *)
(* run_idempotent_recurring_confirm commits the claim first, then each     *)
(* occurrence, then the outcome.  Requests run concurrently and may carry  *)
(* the same key; rows older than the retention are purged.                 *)
(*                                                                         *)
(* A key stands for the pair (user, key).  A body is the set of slots, or  *)
(* offers, it asks for: a write gets all of them or is refused, a series   *)
(* tries them one by one.  An uncommitted claim is known by its request's  *)
(* pc: under READ COMMITTED no other transaction sees its row, but an      *)
(* INSERT of the same key waits for it.                                    *)
(***************************************************************************)
EXTENDS Integers, FiniteSets

CONSTANTS
    Requests,      \* request ids; each stands for one HTTP request, retries included
    Keys,          \* (user, key) pairs
    Writes,        \* operations run by run_idempotent_write
    Untranslated,  \* those that let a contention error of their own through
    Series,        \* the operation run by run_idempotent_recurring_confirm
    Slots,         \* what can be asked for: slots, offers
    WriteBodies,   \* request bodies of Writes
    SeriesBodies,  \* request bodies of Series
    Retention,     \* IDEMPOTENCY_RETENTION_HOURS, in ticks
    MaxTime        \* bound: the last instant of the clock

ASSUME IdempotencyAssumption ==
    /\ Untranslated \subseteq Writes
    /\ Series \notin Writes
    /\ Slots \subseteq Nat
    /\ WriteBodies \cup SeriesBodies \subseteq (SUBSET Slots) \ {{}}
    /\ WriteBodies \cap SeriesBodies = {}
    /\ Retention \in Nat \ {0}
    /\ MaxTime \in Nat

VARIABLES keys,      \* committed rows of idempotency_key
          requests,  \* where each request stands
          taken,     \* who holds what can be asked for
          now

idempotencyVars == <<keys, requests, taken, now>>

Times  == 0..MaxTime
Bodies == WriteBodies \cup SeriesBodies

\* completed_has_response: a completed row, and only that, carries a response.
InProgressRow == [status : {"in_progress"}, op : Writes \cup {Series},
                  body : Bodies, born : Times]
CompletedRow  == [status : {"completed"}, op : Writes \cup {Series},
                  body : Bodies, born : Times,
                  answer : {"ok", "conflict"}, granted : SUBSET Slots]
NoKey == [status |-> "none"]

\* granted is what the request's answer says it got, or what a series has got
\* so far; born is created_at of the row it claimed or was answered from.
Request ==
    [pc : {"writing", "recording", "replaying", "confirming", "done"},
     key : Keys, op : Writes \cup {Series}, body : Bodies, born : Times,
     todo : SUBSET Slots, granted : SUBSET Slots, replay : BOOLEAN,
     answer : {"none", "ok", "conflict", "in_progress", "mismatch",
               "unavailable", "error", "lost"}]
NotSent == [pc |-> "new"]

Grant  == [key : Keys, born : Times]
Free   == [key |-> "free"]
Others == [key |-> "others"]   \* a request outside the model has it

IdempotencyTypeOK ==
    /\ keys \in [Keys -> InProgressRow \cup CompletedRow \cup {NoKey}]
    /\ requests \in [Requests -> Request \cup {NotSent}]
    /\ taken \in [Slots -> Grant \cup {Free, Others}]
    /\ now \in Times

IdempotencyInit ==
    /\ keys = [k \in Keys |-> NoKey]
    /\ requests = [r \in Requests |-> NotSent]
    /\ taken = [s \in Slots |-> Free]
    /\ now = 0

-----------------------------------------------------------------------------
(* The claim.                                                               *)

\* Fault: no primary key on (user_id, key).
HeldByNobody(k) == FALSE

\* An uncommitted claim of k: an INSERT of the same key would wait for it.
Held(k) == \E r \in Requests : requests[r].pc = "writing" /\ requests[r].key = k

Sent(k, op, body, pc) ==
    [pc |-> pc, key |-> k, op |-> op, body |-> body, born |-> now,
     todo |-> IF pc = "confirming" THEN body ELSE {}, granted |-> {},
     replay |-> FALSE, answer |-> "none"]

BodiesOf(op) == IF op = Series THEN SeriesBodies ELSE WriteBodies

\* INSERT of the key inside the transaction of the write.
Claim(r, k, op, body) ==
    /\ requests[r] = NotSent
    /\ op \in Writes
    /\ keys[k] = NoKey
    /\ ~Held(k)
    /\ requests' = [requests EXCEPT ![r] = Sent(k, op, body, "writing")]
    /\ UNCHANGED <<keys, taken, now>>

\* INSERT of the key in a transaction of its own.
ClaimSeries(r, k, body) ==
    /\ requests[r] = NotSent
    /\ keys[k] = NoKey
    /\ ~Held(k)
    /\ keys' = [keys EXCEPT ![k] = [status |-> "in_progress", op |-> Series,
                                    body |-> body, born |-> now]]
    /\ requests' = [requests EXCEPT ![r] = Sent(k, Series, body, "confirming")]
    /\ UNCHANGED <<taken, now>>

\* The INSERT waits for another transaction's claim until lock_timeout.
ClaimTimesOut(r, k, op, body) ==
    /\ requests[r] = NotSent
    /\ Held(k)
    /\ requests' = [requests EXCEPT ![r] = [Sent(k, op, body, "done")
                                              EXCEPT !.answer = "in_progress"]]
    /\ UNCHANGED <<keys, taken, now>>

\* 23505: the transaction is rolled back, the row is read by a later statement.
ClaimIsDuplicate(r, k, op, body) ==
    /\ requests[r] = NotSent
    /\ keys[k] # NoKey
    /\ requests' = [requests EXCEPT ![r] = Sent(k, op, body, "replaying")]
    /\ UNCHANGED <<keys, taken, now>>

-----------------------------------------------------------------------------
(* The replay.                                                              *)

Done(r, answer) ==
    requests' = [requests EXCEPT ![r].pc = "done", ![r].answer = answer]

Replay(r) ==
    LET row == keys[requests[r].key]
    IN  /\ requests[r].pc = "replaying"
        /\ row.status = "completed"
        /\ row.body = requests[r].body
        /\ requests' = [requests EXCEPT ![r].pc = "done", ![r].answer = row.answer,
                                        ![r].granted = row.granted,
                                        ![r].born = row.born, ![r].replay = TRUE]
        /\ UNCHANGED <<keys, taken, now>>

\* Only the series looks at the status before the fingerprint.
ReplayWaits(r) ==
    /\ requests[r].pc = "replaying"
    /\ requests[r].op = Series
    /\ keys[requests[r].key].status = "in_progress"
    /\ Done(r, "in_progress")
    /\ UNCHANGED <<keys, taken, now>>

ReplayMismatches(r) ==
    LET row == keys[requests[r].key]
    IN  /\ requests[r].pc = "replaying"
        /\ row # NoKey
        /\ row.body # requests[r].body
        /\ row.status = "in_progress" => requests[r].op # Series
        /\ Done(r, "mismatch")
        /\ UNCHANGED <<keys, taken, now>>

\* The row was purged after the INSERT met it: DoesNotExist.
ReplayFindsNothing(r) ==
    /\ requests[r].pc = "replaying"
    /\ keys[requests[r].key] = NoKey
    /\ Done(r, "error")
    /\ UNCHANGED <<keys, taken, now>>

-----------------------------------------------------------------------------
(* run_idempotent_write after the claim.                                    *)

Completed(r, answer, granted, born) ==
    [status |-> "completed", op |-> requests[r].op, body |-> requests[r].body,
     born |-> born, answer |-> answer, granted |-> granted]

Granted(r) == [key |-> requests[r].key, born |-> requests[r].born]

\* Fault: the write commits before its key is recorded.
SucceedUnrecorded(r) ==
    /\ requests[r].pc = "writing"
    /\ \A s \in requests[r].body : taken[s] = Free
    /\ taken' = [s \in Slots |-> IF s \in requests[r].body THEN Granted(r) ELSE taken[s]]
    /\ requests' = [requests EXCEPT ![r].pc = "done", ![r].answer = "lost"]
    /\ UNCHANGED <<keys, now>>

\* perform_write succeeds; claim, write and outcome commit together.
Succeed(r) ==
    /\ requests[r].pc = "writing"
    /\ \A s \in requests[r].body : taken[s] = Free
    /\ taken' = [s \in Slots |-> IF s \in requests[r].body THEN Granted(r) ELSE taken[s]]
    /\ keys' = [keys EXCEPT ![requests[r].key] =
                  Completed(r, "ok", requests[r].body, requests[r].born)]
    /\ requests' = [requests EXCEPT ![r].pc = "done", ![r].answer = "ok",
                                    ![r].granted = requests[r].body]
    /\ UNCHANGED now

\* RecordableConflictError: write and claim are rolled back.
Refuse(r) ==
    /\ requests[r].pc = "writing"
    /\ \E s \in requests[r].body : taken[s] # Free
    /\ requests' = [requests EXCEPT ![r].pc = "recording"]
    /\ UNCHANGED <<keys, taken, now>>

\* ServiceUnavailableError; or a contention error the callee did not translate,
\* which is taken for one of the claim.
WriteFails(r) ==
    /\ requests[r].pc = "writing"
    /\ \/ Done(r, "unavailable")
       \/ requests[r].op \in Untranslated /\ Done(r, "in_progress")
    /\ UNCHANGED <<keys, taken, now>>

\* Fault: an upsert.
RecordOver(r) ==
    /\ requests[r].pc = "recording"
    /\ ~Held(requests[r].key)
    /\ keys' = [keys EXCEPT ![requests[r].key] = Completed(r, "conflict", {}, now)]
    /\ requests' = [requests EXCEPT ![r].pc = "done", ![r].answer = "conflict",
                                    ![r].born = now]
    /\ UNCHANGED <<taken, now>>

\* Fault: a refusal recorded without its response.
RecordBare(r) ==
    /\ requests[r].pc = "recording"
    /\ keys[requests[r].key] = NoKey
    /\ ~Held(requests[r].key)
    /\ keys' = [keys EXCEPT ![requests[r].key] = Completed(r, "none", {}, now)]
    /\ requests' = [requests EXCEPT ![r].pc = "done", ![r].answer = "conflict",
                                    ![r].born = now]
    /\ UNCHANGED <<taken, now>>

\* _record_conflict_outcome, whose INSERT waits for another claim without a
\* timeout.
RecordConflict(r) ==
    /\ requests[r].pc = "recording"
    /\ keys[requests[r].key] = NoKey
    /\ ~Held(requests[r].key)
    /\ keys' = [keys EXCEPT ![requests[r].key] = Completed(r, "conflict", {}, now)]
    /\ requests' = [requests EXCEPT ![r].pc = "done", ![r].answer = "conflict",
                                    ![r].born = now]
    /\ UNCHANGED <<taken, now>>

\* Another request with the key recorded its outcome first: 23505, which
\* nothing catches.
RecordIsDuplicate(r) ==
    /\ requests[r].pc = "recording"
    /\ keys[requests[r].key] # NoKey
    /\ Done(r, "error")
    /\ UNCHANGED <<keys, taken, now>>

-----------------------------------------------------------------------------
(* run_idempotent_recurring_confirm after the claim.                        *)

\* create_booking of the next occurrence, or its SlotUnavailableError.
Occurrence(r) ==
    /\ requests[r].pc = "confirming"
    /\ \E s \in requests[r].todo :
          /\ \A t \in requests[r].todo : s <= t
          /\ taken' = [taken EXCEPT ![s] = IF @ = Free THEN Granted(r) ELSE @]
          /\ requests' = [requests EXCEPT
                            ![r].todo = @ \ {s},
                            ![r].granted = IF taken[s] = Free THEN @ \cup {s} ELSE @]
    /\ UNCHANGED <<keys, now>>

\* The outcome in a third transaction, an UPDATE by user and key.
RecordSeries(r) ==
    /\ requests[r].pc = "confirming"
    /\ requests[r].todo = {}
    /\ keys' = [keys EXCEPT ![requests[r].key] =
                  IF @ = NoKey THEN @
                  ELSE [Completed(r, "ok", requests[r].granted, @.born)
                          EXCEPT !.op = keys[requests[r].key].op,
                                 !.body = keys[requests[r].key].body]]
    /\ Done(r, "ok")
    /\ UNCHANGED <<taken, now>>

\* ServiceUnavailableError in an occurrence ends the confirm; the claim stays.
SeriesFails(r) ==
    /\ requests[r].pc = "confirming"
    /\ Done(r, "unavailable")
    /\ UNCHANGED <<keys, taken, now>>

-----------------------------------------------------------------------------
\* The process dies, or an exception nobody translates ends the request: what
\* it had not committed is rolled back.
Crash(r) ==
    /\ requests[r].pc \in {"writing", "recording", "replaying", "confirming"}
    /\ Done(r, "lost")
    /\ UNCHANGED <<keys, taken, now>>

\* cleanup_expired_idempotency_keys, whatever the status.
Expired == {k \in Keys : keys[k] # NoKey /\ keys[k].born + Retention < now}

Purge ==
    /\ Expired # {}
    /\ keys' = [k \in Keys |-> IF k \in Expired THEN NoKey ELSE keys[k]]
    /\ UNCHANGED <<requests, taken, now>>

\* Bookings by others, and cancellations.
OthersTake(s) ==
    /\ taken[s] = Free
    /\ taken' = [taken EXCEPT ![s] = Others]
    /\ UNCHANGED <<keys, requests, now>>

Release(s) ==
    /\ taken[s] # Free
    /\ taken' = [taken EXCEPT ![s] = Free]
    /\ UNCHANGED <<keys, requests, now>>

\* No confirm runs for as long as a key is kept.
Tick ==
    /\ now < MaxTime
    /\ \A r \in Requests :
          requests[r].pc = "confirming" => now < requests[r].born + Retention
    /\ now' = now + 1
    /\ UNCHANGED <<keys, requests, taken>>

Send(r) ==
    \E k \in Keys :
        \/ \E op \in Writes \cup {Series} :
              \E body \in BodiesOf(op) :
                 \/ Claim(r, k, op, body)
                 \/ ClaimTimesOut(r, k, op, body)
                 \/ ClaimIsDuplicate(r, k, op, body)
        \/ \E body \in SeriesBodies : ClaimSeries(r, k, body)

Handle(r) ==
    \/ Replay(r)
    \/ ReplayWaits(r)
    \/ ReplayMismatches(r)
    \/ ReplayFindsNothing(r)
    \/ Succeed(r)
    \/ Refuse(r)
    \/ WriteFails(r)
    \/ RecordConflict(r)
    \/ RecordIsDuplicate(r)
    \/ Occurrence(r)
    \/ RecordSeries(r)
    \/ SeriesFails(r)

IdempotencyNext ==
    \/ \E r \in Requests : Send(r) \/ Handle(r) \/ Crash(r)
    \/ \E s \in Slots : OthersTake(s) \/ Release(s)
    \/ Purge
    \/ Tick

IdempotencySpec == IdempotencyInit /\ [][IdempotencyNext]_idempotencyVars

-----------------------------------------------------------------------------
(* Properties.                                                              *)

\* Claims of one key that are further apart than the retention are strangers.
Unrelated(r, s) ==
    \/ requests[r].key # requests[s].key
    \/ requests[r].born > requests[s].born + Retention
    \/ requests[s].born > requests[r].born + Retention

\* The request itself, not one it replays, has changed something.
HasEffect(r) ==
    /\ requests[r].pc \in {"confirming", "done"}
    /\ ~requests[r].replay
    /\ requests[r].granted # {}

HasOutcome(r) == requests[r].pc = "done" /\ requests[r].answer \in {"ok", "conflict"}

\* PRD FR35 and FR36: of the requests that carry one key within the retention,
\* however they overlap, crash and retry, at most one changes anything; a series
\* that broke off half way included.
OneEffectPerKey ==
    \A r, s \in Requests :
        (r # s /\ HasEffect(r) /\ HasEffect(s)) => Unrelated(r, s)

\* PRD FR35 and FR37: all outcomes told under one key within the retention are
\* the same outcome of the same body, refusals included.
OneOutcomePerKey ==
    \A r, s \in Requests :
        (HasOutcome(r) /\ HasOutcome(s)) =>
            \/ Unrelated(r, s)
            \/ /\ requests[r].body = requests[s].body
               /\ requests[r].answer = requests[s].answer
               /\ requests[r].granted = requests[s].granted

\* Slot s is held by an earlier request under r's own key.
OwnGrant(r, s) ==
    /\ taken[s] \notin {Free, Others}
    /\ taken[s].key = requests[r].key
    /\ taken[s].born + Retention >= requests[r].born

\* PRD FR38: nobody is told that a slot is unavailable when it is their own
\* earlier request that took it.
OwnGrantNeverRefuses ==
    [][\A r \in Requests :
          /\ Refuse(r) => \A s \in requests[r].body : ~OwnGrant(r, s)
          /\ Occurrence(r) =>
                \A s \in requests[r].todo \ requests'[r].todo : ~OwnGrant(r, s)
      ]_idempotencyVars
=============================================================================
