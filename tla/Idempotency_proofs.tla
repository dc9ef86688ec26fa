------------------------- MODULE Idempotency_proofs -------------------------
(***************************************************************************)
(* Proofs about Idempotency for every value of its constants: any number   *)
(* of requests, keys, operations, bodies and slots, any retention.         *)
(***************************************************************************)
EXTENDS Idempotency, TLAPS

-----------------------------------------------------------------------------
(* The inductive invariant.                                                 *)

AtWork(r) == requests[r].pc \in {"writing", "confirming"}

\* A request at work is the only one under its key.  Before it commits, a write
\* has left nothing in the table; the claim of a confirm is there, and within
\* the retention.
ClaimInv ==
    /\ \A r, s \in Requests :
          (AtWork(r) /\ AtWork(s) /\ requests[r].key = requests[s].key) => r = s
    /\ \A r \in Requests : requests[r].pc = "writing" => keys[requests[r].key] = NoKey
    /\ \A r \in Requests :
          requests[r].pc = "confirming" =>
              /\ keys[requests[r].key].status = "in_progress"
              /\ keys[requests[r].key].body = requests[r].body
              /\ keys[requests[r].key].born = requests[r].born
              /\ now <= requests[r].born + Retention

\* Nothing is granted before a write commits, only an answer is a replay, and
\* nothing is born in the future.
PendingInv ==
    /\ \A r \in Requests :
          /\ requests[r].pc \in {"writing", "recording", "replaying"} => requests[r].granted = {}
          /\ requests[r].pc \notin {"new", "done"} => ~requests[r].replay
          /\ requests[r].pc # "new" => requests[r].born <= now
    /\ \A k \in Keys : keys[k] # NoKey => keys[k].born <= now

\* The row of key k is the one born at b, or b is further back than the retention.
Kept(k, b) ==
    /\ keys[k] # NoKey => keys[k].born = b \/ keys[k].born > b + Retention
    /\ keys[k] = NoKey => now > b + Retention

\* What a request has done or told keeps its key's row in place for the
\* retention, and anybody at work under the key later is a stranger.
OutcomeInv ==
    \A r \in Requests :
        (HasEffect(r) \/ HasOutcome(r)) =>
            /\ Kept(requests[r].key, requests[r].born)
            /\ \A s \in Requests :
                  (AtWork(s) /\ s # r /\ requests[s].key = requests[r].key)
                      => requests[s].born > requests[r].born + Retention

\* A told outcome is the one on record, as long as its row is there.
RecordInv ==
    \A r \in Requests :
        LET row == keys[requests[r].key]
        IN  (HasOutcome(r) /\ row # NoKey /\ row.born = requests[r].born) =>
                /\ row.status = "completed"
                /\ row.body = requests[r].body
                /\ row.answer = requests[r].answer
                /\ row.granted = requests[r].granted

\* So does a grant, whoever is still alive to tell of it.
GrantInv ==
    \A s \in Slots :
        taken[s] \in Grant =>
            /\ Kept(taken[s].key, taken[s].born)
            /\ \A r \in Requests :
                  (/\ AtWork(r)
                   /\ requests[r].key = taken[s].key
                   /\ requests[r].pc = "confirming" => s \in requests[r].todo)
                      => requests[r].born > taken[s].born + Retention

IInv ==
    /\ IdempotencyTypeOK
    /\ ClaimInv
    /\ PendingInv
    /\ OutcomeInv
    /\ RecordInv
    /\ GrantInv
    /\ OneEffectPerKey
    /\ OneOutcomePerKey

-----------------------------------------------------------------------------
(* Type correctness.                                                        *)

\* A request at some stage of its handling is a request.
LEMMA StageIsRequest ==
  ASSUME IdempotencyTypeOK, NEW r \in Requests, requests[r].pc # "new"
  PROVE  requests[r] \in Request
BY DEF IdempotencyTypeOK, NotSent

\* A row of the table is in progress or completed.
LEMMA RowIsTyped ==
  ASSUME IdempotencyTypeOK, NEW k \in Keys, keys[k] # NoKey
  PROVE  /\ keys[k] \in InProgressRow \cup CompletedRow
         /\ keys[k].status = "completed" => keys[k] \in CompletedRow
         /\ keys[k].body \in Bodies
         /\ keys[k].born \in Times
         /\ keys[k].op \in Writes \cup {Series}
BY DEF IdempotencyTypeOK, InProgressRow, CompletedRow

\* What a request starts from.
LEMMA SentIsRequest ==
  ASSUME NEW k \in Keys, NEW op \in Writes \cup {Series}, NEW body \in Bodies,
         NEW pc \in {"writing", "replaying", "confirming", "done"},
         now \in Times
  PROVE  Sent(k, op, body, pc) \in Request
<1>1. body \in SUBSET Slots
  BY IdempotencyAssumption DEF Bodies
<1>. QED  BY <1>1 DEF Sent, Request

LEMMA EndIsTyped ==
  ASSUME IdempotencyTypeOK, NEW r \in Requests, requests[r].pc # "new",
         NEW a \in {"ok", "in_progress", "mismatch", "unavailable", "error", "lost"},
         Done(r, a)
  PROVE  requests' \in [Requests -> Request \cup {NotSent}]
<1>1. requests[r] \in Request
  BY StageIsRequest
<1>2. [requests[r] EXCEPT !.pc = "done", !.answer = a] \in Request
  BY <1>1 DEF Request
<1>3. requests' = [requests EXCEPT ![r] = [requests[r] EXCEPT !.pc = "done", !.answer = a]]
  BY DEF Done, IdempotencyTypeOK
<1>. QED  BY <1>2, <1>3 DEF IdempotencyTypeOK

LEMMA CompletedIsRow ==
  ASSUME IdempotencyTypeOK, NEW r \in Requests, requests[r].pc # "new",
         NEW a \in {"ok", "conflict"}, NEW g \in SUBSET Slots, NEW b \in Times
  PROVE  Completed(r, a, g, b) \in CompletedRow
<1>1. requests[r] \in Request
  BY StageIsRequest
<1>. QED  BY <1>1 DEF Completed, CompletedRow, Request

LEMMA SendType ==
  ASSUME IdempotencyTypeOK, NEW r \in Requests, Send(r)
  PROVE  IdempotencyTypeOK'
<1>. USE DEF IdempotencyTypeOK
<1>1. PICK k \in Keys :
         \/ \E op \in Writes \cup {Series} :
               \E body \in BodiesOf(op) :
                  \/ Claim(r, k, op, body)
                  \/ ClaimTimesOut(r, k, op, body)
                  \/ ClaimIsDuplicate(r, k, op, body)
         \/ \E body \in SeriesBodies : ClaimSeries(r, k, body)
  BY DEF Send
<1>2. ASSUME NEW op \in Writes \cup {Series}, NEW body \in BodiesOf(op)
      PROVE  body \in Bodies
  BY DEF BodiesOf, Bodies
<1>3. ASSUME NEW op \in Writes \cup {Series}, NEW body \in BodiesOf(op),
             Claim(r, k, op, body)
      PROVE  IdempotencyTypeOK'
  <2>1. Sent(k, op, body, "writing") \in Request
    BY <1>2, <1>3, SentIsRequest
  <2>. QED  BY <1>3, <2>1 DEF Claim
<1>4. ASSUME NEW op \in Writes \cup {Series}, NEW body \in BodiesOf(op),
             ClaimTimesOut(r, k, op, body)
      PROVE  IdempotencyTypeOK'
  <2>1. Sent(k, op, body, "done") \in Request
    BY <1>2, <1>4, SentIsRequest
  <2>2. [Sent(k, op, body, "done") EXCEPT !.answer = "in_progress"] \in Request
    BY <2>1 DEF Request
  <2>. QED  BY <1>4, <2>2 DEF ClaimTimesOut
<1>5. ASSUME NEW op \in Writes \cup {Series}, NEW body \in BodiesOf(op),
             ClaimIsDuplicate(r, k, op, body)
      PROVE  IdempotencyTypeOK'
  <2>1. Sent(k, op, body, "replaying") \in Request
    BY <1>2, <1>5, SentIsRequest
  <2>. QED  BY <1>5, <2>1 DEF ClaimIsDuplicate
<1>6. ASSUME NEW body \in SeriesBodies, ClaimSeries(r, k, body)
      PROVE  IdempotencyTypeOK'
  <2>1. body \in Bodies
    BY DEF Bodies
  <2>2. Sent(k, Series, body, "confirming") \in Request
    BY <1>6, <2>1, SentIsRequest
  <2>3. [status |-> "in_progress", op |-> Series, body |-> body, born |-> now]
           \in InProgressRow
    BY <2>1 DEF InProgressRow
  <2>. QED  BY <1>6, <2>2, <2>3 DEF ClaimSeries
<1>. QED  BY <1>1, <1>3, <1>4, <1>5, <1>6

LEMMA HandleType ==
  ASSUME IdempotencyTypeOK, NEW r \in Requests, Handle(r) \/ Crash(r)
  PROVE  IdempotencyTypeOK'
<1>. USE DEF IdempotencyTypeOK
<1>1. CASE Replay(r)
  <2>. DEFINE row == keys[requests[r].key]
  <2>1. requests[r] \in Request
    BY <1>1, StageIsRequest DEF Replay
  <2>2. requests[r].key \in Keys
    BY <2>1 DEF Request
  <2>3. row # NoKey
    BY <1>1 DEF Replay, NoKey
  <2>4. row \in CompletedRow
    BY <1>1, <2>2, <2>3, RowIsTyped DEF Replay
  <2>5. [requests[r] EXCEPT !.pc = "done", !.answer = row.answer, !.granted = row.granted,
                            !.born = row.born, !.replay = TRUE] \in Request
    BY <2>1, <2>4 DEF Request, CompletedRow
  <2>6. requests' = [requests EXCEPT ![r] =
                       [requests[r] EXCEPT !.pc = "done", !.answer = row.answer,
                                           !.granted = row.granted, !.born = row.born,
                                           !.replay = TRUE]]
    BY <1>1 DEF Replay
  <2>. QED  BY <1>1, <2>5, <2>6 DEF Replay
<1>2. CASE ReplayWaits(r)
  BY <1>2, EndIsTyped DEF ReplayWaits
<1>3. CASE ReplayMismatches(r)
  BY <1>3, EndIsTyped DEF ReplayMismatches
<1>4. CASE ReplayFindsNothing(r)
  BY <1>4, EndIsTyped DEF ReplayFindsNothing
<1>5. CASE Succeed(r)
  <2>1. requests[r] \in Request
    BY <1>5, StageIsRequest DEF Succeed
  <2>2. /\ requests[r].key \in Keys
        /\ requests[r].body \in SUBSET Slots
        /\ requests[r].born \in Times
    BY <2>1, IdempotencyAssumption DEF Request, Bodies
  <2>3. Granted(r) \in Grant
    BY <2>2 DEF Granted, Grant
  <2>4. Completed(r, "ok", requests[r].body, requests[r].born) \in CompletedRow
    BY <1>5, <2>2, CompletedIsRow DEF Succeed
  <2>5. [requests[r] EXCEPT !.pc = "done", !.answer = "ok",
                            !.granted = requests[r].body] \in Request
    BY <2>1, <2>2 DEF Request
  <2>6. requests' = [requests EXCEPT ![r] =
                       [requests[r] EXCEPT !.pc = "done", !.answer = "ok",
                                           !.granted = requests[r].body]]
    BY <1>5 DEF Succeed
  <2>. QED  BY <1>5, <2>2, <2>3, <2>4, <2>5, <2>6 DEF Succeed
<1>6. CASE Refuse(r)
  <2>1. requests[r] \in Request
    BY <1>6, StageIsRequest DEF Refuse
  <2>2. [requests[r] EXCEPT !.pc = "recording"] \in Request
    BY <2>1 DEF Request
  <2>. QED  BY <1>6, <2>2 DEF Refuse
<1>7. CASE WriteFails(r)
  BY <1>7, EndIsTyped DEF WriteFails
<1>8. CASE RecordConflict(r)
  <2>1. requests[r] \in Request
    BY <1>8, StageIsRequest DEF RecordConflict
  <2>2. Completed(r, "conflict", {}, now) \in CompletedRow
    BY <1>8, CompletedIsRow DEF RecordConflict
  <2>3. [requests[r] EXCEPT !.pc = "done", !.answer = "conflict", !.born = now] \in Request
    BY <2>1 DEF Request
  <2>4. requests' = [requests EXCEPT ![r] =
                       [requests[r] EXCEPT !.pc = "done", !.answer = "conflict",
                                           !.born = now]]
    BY <1>8 DEF RecordConflict
  <2>5. requests' \in [Requests -> Request \cup {NotSent}]
    BY <2>3, <2>4
  <2>6. requests[r].key \in Keys
    BY <2>1 DEF Request
  <2>7. keys' = [keys EXCEPT ![requests[r].key] = Completed(r, "conflict", {}, now)]
    BY <1>8 DEF RecordConflict
  <2>8. keys' \in [Keys -> InProgressRow \cup CompletedRow \cup {NoKey}]
    BY <2>2, <2>6, <2>7
  <2>. QED  BY <1>8, <2>5, <2>8 DEF RecordConflict
<1>9. CASE RecordIsDuplicate(r)
  BY <1>9, EndIsTyped DEF RecordIsDuplicate
<1>10. CASE Occurrence(r)
  <2>1. requests[r] \in Request
    BY <1>10, StageIsRequest DEF Occurrence
  <2>2. PICK s \in requests[r].todo :
           /\ taken' = [taken EXCEPT ![s] = IF @ = Free THEN Granted(r) ELSE @]
           /\ requests' = [requests EXCEPT
                             ![r].todo = @ \ {s},
                             ![r].granted = IF taken[s] = Free THEN @ \cup {s} ELSE @]
    BY <1>10 DEF Occurrence
  <2>3. s \in Slots
    BY <2>1 DEF Request
  <2>4. Granted(r) \in Grant
    BY <2>1 DEF Granted, Grant, Request
  <2>. DEFINE g == IF taken[s] = Free THEN requests[r].granted \cup {s}
                                      ELSE requests[r].granted
  <2>5. /\ g \in SUBSET Slots
        /\ requests[r].todo \ {s} \in SUBSET Slots
    BY <2>1, <2>3 DEF Request
  <2>6. [requests[r] EXCEPT !.todo = requests[r].todo \ {s}, !.granted = g] \in Request
    BY <2>1, <2>5 DEF Request
  <2>7. requests' = [requests EXCEPT ![r] =
                       [requests[r] EXCEPT !.todo = requests[r].todo \ {s}, !.granted = g]]
    BY <2>2
  <2>8. requests' \in [Requests -> Request \cup {NotSent}]
    BY <2>6, <2>7
  <2>9. taken' \in [Slots -> Grant \cup {Free, Others}]
    BY <2>2, <2>3, <2>4
  <2>. QED  BY <1>10, <2>8, <2>9 DEF Occurrence
<1>11. CASE RecordSeries(r)
  <2>. DEFINE k   == requests[r].key
              row == [Completed(r, "ok", requests[r].granted, keys[k].born)
                        EXCEPT !.op = keys[k].op, !.body = keys[k].body]
  <2>1. requests[r] \in Request
    BY <1>11, StageIsRequest DEF RecordSeries
  <2>2. k \in Keys /\ requests[r].granted \in SUBSET Slots
    BY <2>1 DEF Request
  <2>3. keys' = [keys EXCEPT ![k] = IF keys[k] = NoKey THEN keys[k] ELSE row]
    BY <1>11 DEF RecordSeries
  <2>4. keys[k] # NoKey => row \in CompletedRow
    <3>1. SUFFICES ASSUME keys[k] # NoKey PROVE row \in CompletedRow
      OBVIOUS
    <3>2. /\ keys[k].born \in Times
          /\ keys[k].op \in Writes \cup {Series}
          /\ keys[k].body \in Bodies
      BY <2>2, <3>1, RowIsTyped
    <3>3. Completed(r, "ok", requests[r].granted, keys[k].born) \in CompletedRow
      BY <1>11, <2>2, <3>2, CompletedIsRow DEF RecordSeries
    <3>. QED  BY <3>2, <3>3 DEF CompletedRow
  <2>5. keys' \in [Keys -> InProgressRow \cup CompletedRow \cup {NoKey}]
    BY <2>2, <2>3, <2>4
  <2>6. requests' \in [Requests -> Request \cup {NotSent}]
    BY <1>11, EndIsTyped DEF RecordSeries
  <2>. QED  BY <1>11, <2>5, <2>6 DEF RecordSeries
<1>12. CASE SeriesFails(r)
  BY <1>12, EndIsTyped DEF SeriesFails
<1>13. CASE Crash(r)
  BY <1>13, EndIsTyped DEF Crash
<1>. QED
  BY <1>1, <1>2, <1>3, <1>4, <1>5, <1>6, <1>7, <1>8, <1>9, <1>10, <1>11, <1>12, <1>13
  DEF Handle

LEMMA NextType == IdempotencyTypeOK /\ [IdempotencyNext]_idempotencyVars => IdempotencyTypeOK'
<1>. SUFFICES ASSUME IdempotencyTypeOK, [IdempotencyNext]_idempotencyVars
              PROVE  IdempotencyTypeOK'
  OBVIOUS
<1>1. ASSUME NEW r \in Requests, Send(r) PROVE IdempotencyTypeOK'
  BY <1>1, SendType
<1>2. ASSUME NEW r \in Requests, Handle(r) \/ Crash(r) PROVE IdempotencyTypeOK'
  BY <1>2, HandleType
<1>3. ASSUME NEW s \in Slots, OthersTake(s) \/ Release(s) PROVE IdempotencyTypeOK'
  BY <1>3 DEF IdempotencyTypeOK, OthersTake, Release
<1>4. CASE Purge
  BY <1>4 DEF IdempotencyTypeOK, Purge
<1>5. CASE Tick
  BY <1>5, IdempotencyAssumption DEF IdempotencyTypeOK, Tick, Times
<1>6. CASE UNCHANGED idempotencyVars
  BY <1>6 DEF IdempotencyTypeOK, idempotencyVars
<1>. QED  BY <1>1, <1>2, <1>3, <1>4, <1>5, <1>6 DEF IdempotencyNext

\* Every state of every behaviour is typed: completed rows, and only those,
\* carry a response (the CHECK completed_has_response of idempotency_key).
THEOREM IdempotencyTypeCorrect == IdempotencySpec => []IdempotencyTypeOK
<1>1. IdempotencyInit => IdempotencyTypeOK
  BY IdempotencyAssumption DEF IdempotencyInit, IdempotencyTypeOK, Times
<1>. QED  BY <1>1, NextType, PTL DEF IdempotencySpec

-----------------------------------------------------------------------------
(* One outcome per key.                                                     *)

\* What the invariant says of the types it needs.
LEMMA BornIsNumber ==
  ASSUME IdempotencyTypeOK
  PROVE  /\ now \in Nat
         /\ Retention \in Nat \ {0}
         /\ \A r \in Requests :
               requests[r].pc # "new" =>
                   requests[r] \in Request /\ requests[r].key \in Keys /\ requests[r].born \in Nat
         /\ \A k \in Keys : keys[k] # NoKey => keys[k].born \in Nat
         /\ \A s \in Slots : taken[s] \in Grant => taken[s].key \in Keys /\ taken[s].born \in Nat
<1>1. Times \subseteq Nat
  BY IdempotencyAssumption DEF Times
<1>2. ASSUME NEW r \in Requests, requests[r].pc # "new"
      PROVE  requests[r] \in Request /\ requests[r].key \in Keys /\ requests[r].born \in Nat
  BY <1>1, <1>2, StageIsRequest DEF Request
<1>3. ASSUME NEW k \in Keys, keys[k] # NoKey
      PROVE  keys[k].born \in Nat
  BY <1>1, <1>3, RowIsTyped
<1>. QED  BY <1>1, <1>2, <1>3, IdempotencyAssumption DEF IdempotencyTypeOK, Grant

\* A step of r that commits nothing and tells no outcome: it leaves tables and
\* clock alone and ends neither at work nor with an outcome.
LEMMA QuietStep ==
  ASSUME IInv, IdempotencyTypeOK', NEW r \in Requests,
         UNCHANGED <<keys, taken, now>>,
         \A s \in Requests \ {r} : requests'[s] = requests[s],
         requests'[r].pc \in {"recording", "replaying", "done"},
         requests'[r].pc # "done" => requests'[r].granted = {} /\ ~requests'[r].replay,
         requests'[r].pc = "done" => requests'[r].answer \notin {"ok", "conflict"},
         requests'[r].born <= now,
         requests'[r].granted # {} =>
             /\ HasEffect(r)
             /\ requests'[r].key = requests[r].key
             /\ requests'[r].born = requests[r].born
  PROVE  IInv'
<1>. USE DEF IInv
<1>1. /\ \A s \in Requests \ {r} : HasEffect(s)' = HasEffect(s) /\ HasOutcome(s)' = HasOutcome(s)
      /\ ~HasOutcome(r)'
      /\ ~AtWork(r)'
      /\ HasEffect(r)' => HasEffect(r) /\ requests'[r].key = requests[r].key
                                      /\ requests'[r].born = requests[r].born
  BY DEF HasEffect, HasOutcome, AtWork
<1>2. \A s \in Requests : AtWork(s)' => AtWork(s) /\ s # r /\ requests'[s] = requests[s]
  BY <1>1 DEF AtWork
<1>3. ClaimInv'
  BY <1>2 DEF ClaimInv, AtWork
<1>4. PendingInv'
  BY DEF PendingInv
<1>5. OutcomeInv'
  BY <1>1, <1>2 DEF OutcomeInv, Kept
<1>6. RecordInv'
  BY <1>1 DEF RecordInv
<1>7. GrantInv'
  BY <1>2 DEF GrantInv, Kept
<1>8. OneEffectPerKey'
  BY <1>1 DEF OneEffectPerKey, Unrelated
<1>9. OneOutcomePerKey'
  BY <1>1 DEF OneOutcomePerKey, Unrelated
<1>. QED  BY <1>3, <1>4, <1>5, <1>6, <1>7, <1>8, <1>9

\* A request that ends without an outcome.
LEMMA EndStep ==
  ASSUME IInv, IdempotencyTypeOK', NEW r \in Requests,
         requests[r].pc \notin {"new", "done"},
         NEW a \in {"in_progress", "mismatch", "unavailable", "error", "lost"},
         Done(r, a), UNCHANGED <<keys, taken, now>>
  PROVE  IInv'
<1>1. /\ requests[r] \in Request
      /\ requests[r].born <= now
      /\ ~requests[r].replay
      /\ requests[r].granted # {} => HasEffect(r)
  BY BornIsNumber DEF IInv, PendingInv, HasEffect, Request
<1>2. requests' = [requests EXCEPT ![r] = [requests[r] EXCEPT !.pc = "done", !.answer = a]]
  BY DEF Done, IInv, IdempotencyTypeOK
<1>3. /\ requests'[r] = [requests[r] EXCEPT !.pc = "done", !.answer = a]
      /\ \A s \in Requests \ {r} : requests'[s] = requests[s]
  BY <1>2 DEF IInv, IdempotencyTypeOK
<1>4. /\ requests'[r].pc = "done"
      /\ requests'[r].answer = a
      /\ requests'[r].key = requests[r].key
      /\ requests'[r].born = requests[r].born
      /\ requests'[r].granted = requests[r].granted
  BY <1>1, <1>3 DEF Request
<1>. QED  BY <1>1, <1>3, <1>4, QuietStep

\* A refused write, rolled back and not yet recorded.
LEMMA RefuseStep ==
  ASSUME IInv, IdempotencyTypeOK', NEW r \in Requests, Refuse(r)
  PROVE  IInv'
<1>1. /\ requests[r] \in Request
      /\ requests[r].born <= now
      /\ requests[r].granted = {}
      /\ ~requests[r].replay
  BY BornIsNumber DEF IInv, PendingInv, Refuse
<1>2. /\ requests'[r] = [requests[r] EXCEPT !.pc = "recording"]
      /\ \A s \in Requests \ {r} : requests'[s] = requests[s]
  BY DEF Refuse, IInv, IdempotencyTypeOK
<1>3. /\ requests'[r].pc = "recording"
      /\ requests'[r].born = requests[r].born
      /\ requests'[r].granted = {}
      /\ ~requests'[r].replay
  BY <1>1, <1>2 DEF Request
<1>. QED  BY <1>1, <1>2, <1>3, QuietStep DEF Refuse

\* A claim that is turned away, or finds the key taken.
LEMMA TurnedAwayStep ==
  ASSUME IInv, IdempotencyTypeOK', NEW r \in Requests, NEW k \in Keys,
         NEW op \in Writes \cup {Series}, NEW body \in Bodies,
         ClaimTimesOut(r, k, op, body) \/ ClaimIsDuplicate(r, k, op, body)
  PROVE  IInv'
<1>1. /\ \A s \in Requests \ {r} : requests'[s] = requests[s]
      /\ UNCHANGED <<keys, taken, now>>
  BY DEF ClaimTimesOut, ClaimIsDuplicate, IInv, IdempotencyTypeOK
<1>2. CASE ClaimTimesOut(r, k, op, body)
  <2>1. requests'[r] = [Sent(k, op, body, "done") EXCEPT !.answer = "in_progress"]
    BY <1>2 DEF ClaimTimesOut, IInv, IdempotencyTypeOK
  <2>2. /\ requests'[r].pc = "done"
        /\ requests'[r].answer = "in_progress"
        /\ requests'[r].granted = {}
        /\ requests'[r].born = now
    BY <2>1 DEF Sent
  <2>. QED  BY <1>1, <2>2, BornIsNumber, QuietStep DEF IInv
<1>3. CASE ClaimIsDuplicate(r, k, op, body)
  <2>1. requests'[r] = Sent(k, op, body, "replaying")
    BY <1>3 DEF ClaimIsDuplicate, IInv, IdempotencyTypeOK
  <2>2. /\ requests'[r].pc = "replaying"
        /\ requests'[r].answer = "none"
        /\ requests'[r].granted = {}
        /\ ~requests'[r].replay
        /\ requests'[r].born = now
    BY <2>1 DEF Sent
  <2>. QED  BY <1>1, <2>2, BornIsNumber, QuietStep DEF IInv
<1>. QED  BY <1>2, <1>3

\* A write claims a free key.
LEMMA ClaimStep ==
  ASSUME IInv, IdempotencyTypeOK', NEW r \in Requests, NEW k \in Keys,
         NEW op \in Writes, NEW body \in Bodies, Claim(r, k, op, body)
  PROVE  IInv'
<1>. USE DEF IInv
<1>1. /\ requests'[r] = Sent(k, op, body, "writing")
      /\ \A s \in Requests \ {r} : requests'[s] = requests[s]
      /\ UNCHANGED <<keys, taken, now>>
      /\ requests[r].pc = "new"
  BY DEF Claim, IdempotencyTypeOK, NotSent
<1>2. /\ requests'[r].pc = "writing"
      /\ requests'[r].key = k
      /\ requests'[r].born = now
      /\ requests'[r].granted = {}
      /\ ~requests'[r].replay
  BY <1>1 DEF Sent
<1>3. /\ keys[k] = NoKey
      /\ \A s \in Requests : requests[s].pc = "writing" => requests[s].key # k
  BY DEF Claim, Held
<1>4. \A s \in Requests : requests[s].pc = "confirming" => requests[s].key # k
  BY <1>3 DEF ClaimInv, NoKey
<1>5. /\ \A s \in Requests \ {r} :
            HasEffect(s)' = HasEffect(s) /\ HasOutcome(s)' = HasOutcome(s) /\ AtWork(s)' = AtWork(s)
      /\ ~HasOutcome(r)' /\ ~HasEffect(r)'
  BY <1>1, <1>2 DEF HasEffect, HasOutcome, AtWork
<1>6. ClaimInv'
  BY <1>1, <1>2, <1>3, <1>4 DEF ClaimInv, AtWork
<1>7. PendingInv'
  BY <1>1, <1>2, BornIsNumber DEF PendingInv
<1>8. OutcomeInv'
  BY <1>1, <1>2, <1>3, <1>5 DEF OutcomeInv, Kept
<1>9. RecordInv'
  BY <1>1, <1>5 DEF RecordInv
<1>10. GrantInv'
  BY <1>1, <1>2, <1>3 DEF GrantInv, Kept, AtWork
<1>11. OneEffectPerKey'
  BY <1>1, <1>5 DEF OneEffectPerKey, Unrelated
<1>12. OneOutcomePerKey'
  BY <1>1, <1>5 DEF OneOutcomePerKey, Unrelated
<1>. QED  BY <1>6, <1>7, <1>8, <1>9, <1>10, <1>11, <1>12

\* A recurring confirm claims a free key, for everybody to see.
LEMMA ClaimSeriesStep ==
  ASSUME IInv, IdempotencyTypeOK', NEW r \in Requests, NEW k \in Keys,
         NEW body \in SeriesBodies, ClaimSeries(r, k, body)
  PROVE  IInv'
<1>. USE DEF IInv
<1>1. /\ requests'[r] = Sent(k, Series, body, "confirming")
      /\ \A s \in Requests \ {r} : requests'[s] = requests[s]
      /\ keys'[k] = [status |-> "in_progress", op |-> Series, body |-> body, born |-> now]
      /\ \A j \in Keys \ {k} : keys'[j] = keys[j]
      /\ UNCHANGED <<taken, now>>
      /\ requests[r].pc = "new"
  BY DEF ClaimSeries, IdempotencyTypeOK, NotSent
<1>2. /\ requests'[r].pc = "confirming"
      /\ requests'[r].key = k
      /\ requests'[r].body = body
      /\ requests'[r].born = now
      /\ requests'[r].granted = {}
      /\ ~requests'[r].replay
      /\ keys'[k].status = "in_progress"
      /\ keys'[k].body = body
      /\ keys'[k].born = now
      /\ keys'[k] # NoKey
  BY <1>1 DEF Sent, NoKey
<1>3. /\ keys[k] = NoKey
      /\ \A s \in Requests : requests[s].pc = "writing" => requests[s].key # k
  BY DEF ClaimSeries, Held
<1>4. \A s \in Requests : requests[s].pc = "confirming" => requests[s].key # k
  BY <1>3 DEF ClaimInv, NoKey
<1>5. /\ \A s \in Requests \ {r} :
            HasEffect(s)' = HasEffect(s) /\ HasOutcome(s)' = HasOutcome(s) /\ AtWork(s)' = AtWork(s)
      /\ ~HasOutcome(r)' /\ ~HasEffect(r)'
  BY <1>1, <1>2 DEF HasEffect, HasOutcome, AtWork
<1>6. /\ \A s \in Requests : requests[s].pc # "new" => requests[s].key \in Keys
      /\ now <= now + Retention
  BY BornIsNumber
<1>7. ClaimInv'
  BY <1>1, <1>2, <1>3, <1>4, <1>6 DEF ClaimInv, AtWork
<1>8. PendingInv'
  BY <1>1, <1>2, BornIsNumber DEF PendingInv
<1>9. OutcomeInv'
  <2>1. \A s \in Requests : HasEffect(s) \/ HasOutcome(s) => requests[s].pc # "new"
    BY DEF HasEffect, HasOutcome
  <2>2. ASSUME NEW s \in Requests \ {r}, HasEffect(s) \/ HasOutcome(s)
        PROVE  Kept(requests[s].key, requests[s].born)'
    BY <1>1, <1>2, <1>3, <1>6, <2>1, <2>2 DEF OutcomeInv, Kept
  <2>. QED  BY <1>1, <1>2, <1>3, <1>5, <2>2 DEF OutcomeInv, Kept
<1>10. RecordInv'
  <2>1. ASSUME NEW s \in Requests \ {r}, HasOutcome(s)
        PROVE  /\ requests[s].key \in Keys
               /\ requests[s].born \in Nat
               /\ requests[s].key = k => now > requests[s].born + Retention
    BY <1>3, <2>1, BornIsNumber DEF OutcomeInv, Kept, HasOutcome
  <2>2. ASSUME NEW s \in Requests \ {r}, HasOutcome(s)
        PROVE  requests[s].key = k => keys'[k].born # requests[s].born
    BY <1>2, <2>1, <2>2, BornIsNumber
  <2>. QED  BY <1>1, <1>5, <2>1, <2>2 DEF RecordInv
<1>11. GrantInv'
  BY <1>1, <1>2, <1>3, BornIsNumber DEF GrantInv, Kept, AtWork
<1>12. OneEffectPerKey'
  BY <1>1, <1>5 DEF OneEffectPerKey, Unrelated
<1>13. OneOutcomePerKey'
  BY <1>1, <1>5 DEF OneOutcomePerKey, Unrelated
<1>. QED  BY <1>7, <1>8, <1>9, <1>10, <1>11, <1>12, <1>13

\* A replay tells the outcome on record.
LEMMA ReplayStep ==
  ASSUME IInv, IdempotencyTypeOK', NEW r \in Requests, Replay(r)
  PROVE  IInv'
<1>. USE DEF IInv
<1>. DEFINE k   == requests[r].key
            row == keys[k]
<1>a. /\ requests[r].pc = "replaying"
      /\ row.status = "completed"
      /\ row.body = requests[r].body
      /\ requests' = [requests EXCEPT ![r] =
                        [requests[r] EXCEPT !.pc = "done", !.answer = row.answer,
                                            !.granted = row.granted, !.born = row.born,
                                            !.replay = TRUE]]
      /\ UNCHANGED <<keys, taken, now>>
  BY DEF Replay
<1>1. /\ requests[r] \in Request
      /\ k \in Keys
      /\ row # NoKey
      /\ row.born \in Nat
      /\ row.born <= now
  BY <1>a, BornIsNumber DEF NoKey, PendingInv
<1>2. /\ requests'[r] = [requests[r] EXCEPT !.pc = "done", !.answer = row.answer,
                                          !.granted = row.granted, !.born = row.born,
                                          !.replay = TRUE]
      /\ \A s \in Requests \ {r} : requests'[s] = requests[s]
  BY <1>a DEF IdempotencyTypeOK
<1>3. /\ requests'[r].pc = "done"
      /\ requests'[r].key = k
      /\ requests'[r].body = row.body
      /\ requests'[r].born = row.born
      /\ requests'[r].answer = row.answer
      /\ requests'[r].granted = row.granted
      /\ requests'[r].replay
  <2>. HIDE DEF row
  <2>1. /\ requests'[r].key = k
        /\ requests'[r].body = requests[r].body
    BY <1>1, <1>2 DEF Request
  <2>2. /\ requests'[r].pc = "done"
        /\ requests'[r].born = row.born
        /\ requests'[r].answer = row.answer
        /\ requests'[r].granted = row.granted
    BY <1>1, <1>2 DEF Request
  <2>3. requests'[r].replay = TRUE
    BY <1>1, <1>2 DEF Request
  <2>. QED  BY <1>a, <2>1, <2>2, <2>3
<1>4. /\ \A s \in Requests \ {r} :
            HasEffect(s)' = HasEffect(s) /\ HasOutcome(s)' = HasOutcome(s) /\ AtWork(s)' = AtWork(s)
      /\ ~HasEffect(r)' /\ ~AtWork(r)'
      /\ HasOutcome(r)'
  BY <1>a, <1>1, <1>2, <1>3, RowIsTyped DEF HasEffect, HasOutcome, AtWork, CompletedRow
<1>5. \A s \in Requests : AtWork(s) => requests[s].key # k
  BY <1>a, <1>1 DEF ClaimInv, AtWork
<1>. HIDE DEF k, row
<1>6. ClaimInv'
  <2>1. \A s \in Requests : requests'[s].pc \in {"writing", "confirming"} =>
            s # r /\ requests'[s] = requests[s]
    BY <1>2, <1>3
  <2>. QED  BY <1>a, <2>1 DEF ClaimInv, AtWork
<1>7. PendingInv'
  BY <1>a, <1>1, <1>2, <1>3 DEF PendingInv
<1>8. OutcomeInv'
  <2>1. ASSUME NEW s \in Requests, (HasEffect(s) \/ HasOutcome(s))', s # r
        PROVE  /\ Kept(requests[s].key, requests[s].born)'
               /\ \A t \in Requests :
                     (AtWork(t) /\ t # s /\ requests[t].key = requests[s].key)'
                         => requests'[t].born > requests'[s].born + Retention
    BY <1>a, <1>2, <1>4, <2>1 DEF OutcomeInv, Kept
  <2>2. Kept(requests[r].key, requests[r].born)'
    BY <1>a, <1>1, <1>3 DEF Kept, row
  <2>3. \A t \in Requests : AtWork(t)' => requests'[t].key # requests'[r].key
    BY <1>2, <1>3, <1>4, <1>5
  <2>. QED  BY <2>1, <2>2, <2>3 DEF OutcomeInv
<1>9. RecordInv'
  <2>1. \A s \in Requests : HasOutcome(s)' => s = r \/ (HasOutcome(s) /\ requests'[s] = requests[s])
    BY <1>2, <1>4
  <2>. QED  BY <1>a, <1>3, <2>1 DEF RecordInv, row
<1>10. GrantInv'
  BY <1>a, <1>2, <1>3, <1>4 DEF GrantInv, Kept, AtWork
<1>11. OneEffectPerKey'
  BY <1>2, <1>4 DEF OneEffectPerKey, Unrelated
<1>12. OneOutcomePerKey'
  <2>1. ASSUME NEW s \in Requests \ {r}, HasOutcome(s), requests[s].key = k
        PROVE  \/ row.born > requests[s].born + Retention
               \/ /\ requests[s].body = row.body
                  /\ requests[s].answer = row.answer
                  /\ requests[s].granted = row.granted
    BY <1>1, <2>1 DEF OutcomeInv, Kept, RecordInv, row
  <2>2. ASSUME NEW s \in Requests \ {r}, HasOutcome(s)'
        PROVE  \/ Unrelated(r, s)' /\ Unrelated(s, r)'
               \/ /\ requests'[s].body = requests'[r].body
                  /\ requests'[s].answer = requests'[r].answer
                  /\ requests'[s].granted = requests'[r].granted
    BY <1>2, <1>3, <1>4, <2>1, <2>2 DEF Unrelated
  <2>3. ASSUME NEW s \in Requests \ {r}, NEW t \in Requests \ {r},
               HasOutcome(s)', HasOutcome(t)'
        PROVE  \/ Unrelated(s, t)'
               \/ /\ requests'[s].body = requests'[t].body
                  /\ requests'[s].answer = requests'[t].answer
                  /\ requests'[s].granted = requests'[t].granted
    BY <1>2, <1>4, <2>3 DEF OneOutcomePerKey, Unrelated
  <2>. QED  BY <2>2, <2>3 DEF OneOutcomePerKey
<1>. QED  BY <1>6, <1>7, <1>8, <1>9, <1>10, <1>11, <1>12

\* A write ends with an outcome recorded in a row born at b, under a key that had
\* no row: whoever has done or told something under that key is further back than
\* the retention, and nobody else is at work under it.
Tells(r, k, a, g, b) ==
    /\ requests[r].pc \in {"writing", "recording"}
    /\ k = requests[r].key
    /\ keys[k] = NoKey
    /\ a \in {"ok", "conflict"}
    /\ b \in Nat
    /\ b <= now
    /\ \A s \in Requests \ {r} :
          /\ AtWork(s) => requests[s].key # k
          /\ ((HasEffect(s) \/ HasOutcome(s)) /\ requests[s].key = k)
                 => b > requests[s].born + Retention
    /\ \A s \in Slots :
          (taken[s] \in Grant /\ taken[s].key = k) => b > taken[s].born + Retention
    /\ requests'[r].pc = "done"
    /\ requests'[r].key = k
    /\ requests'[r].born = b
    /\ requests'[r].body = requests[r].body
    /\ requests'[r].answer = a
    /\ requests'[r].granted = g
    /\ \A s \in Requests \ {r} : requests'[s] = requests[s]
    /\ keys'[k] = Completed(r, a, g, b)
    /\ \A j \in Keys \ {k} : keys'[j] = keys[j]
    /\ \A s \in Slots : taken'[s] = taken[s] \/ taken'[s] = [key |-> k, born |-> b]
    /\ now' = now

LEMMA OutcomeStep ==
  ASSUME IInv, IdempotencyTypeOK', NEW r \in Requests, NEW k \in Keys,
         NEW a, NEW g, NEW b, Tells(r, k, a, g, b)
  PROVE  IInv'
<1>. USE DEF Tells
<1>. USE DEF IInv
<1>1. /\ keys'[k] # NoKey
      /\ keys'[k].status = "completed"
      /\ keys'[k].body = requests[r].body
      /\ keys'[k].born = b
      /\ keys'[k].answer = a
      /\ keys'[k].granted = g
  BY DEF Completed, NoKey
<1>2. /\ \A s \in Requests \ {r} :
            HasEffect(s)' = HasEffect(s) /\ HasOutcome(s)' = HasOutcome(s) /\ AtWork(s)' = AtWork(s)
      /\ ~AtWork(r)'
      /\ HasOutcome(r)'
  BY DEF HasEffect, HasOutcome, AtWork
<1>3. \A s \in Requests : AtWork(s)' =>
          s # r /\ AtWork(s) /\ requests'[s] = requests[s] /\ requests[s].key # k
  BY <1>2
<1>4. \A s \in Requests :
          /\ AtWork(s) => requests[s].pc # "new"
          /\ HasEffect(s) \/ HasOutcome(s) => requests[s].pc # "new"
  BY DEF AtWork, HasEffect, HasOutcome
<1>5. ClaimInv'
  <2>1. \A s \in Requests : AtWork(s)' => keys'[requests'[s].key] = keys[requests[s].key]
    BY <1>3, <1>4, BornIsNumber
  <2>. QED  BY <1>3, <2>1 DEF ClaimInv, AtWork
<1>6. PendingInv'
  BY <1>1 DEF PendingInv
<1>7. OutcomeInv'
  <2>1. ASSUME NEW s \in Requests \ {r}, (HasEffect(s) \/ HasOutcome(s))'
        PROVE  Kept(requests[s].key, requests[s].born)'
    <3>1. CASE requests[s].key = k
      BY <1>1, <1>2, <2>1, <3>1 DEF Kept
    <3>2. CASE requests[s].key # k
      BY <1>2, <1>4, <2>1, <3>2, BornIsNumber DEF Kept, OutcomeInv
    <3>. QED  BY <3>1, <3>2
  <2>2. Kept(requests[r].key, requests[r].born)'
    BY <1>1 DEF Kept
  <2>3. ASSUME NEW s \in Requests, (HasEffect(s) \/ HasOutcome(s))',
               NEW t \in Requests, (AtWork(t) /\ t # s /\ requests[t].key = requests[s].key)'
        PROVE  requests'[t].born > requests'[s].born + Retention
    BY <1>2, <1>3, <2>3 DEF OutcomeInv
  <2>. QED  BY <2>1, <2>2, <2>3 DEF OutcomeInv
<1>8. RecordInv'
  <2>1. ASSUME NEW s \in Requests \ {r}, HasOutcome(s)'
        PROVE  \/ requests[s].key \in Keys \ {k}
               \/ requests[s].key = k /\ requests[s].born # b
    BY <1>2, <1>4, <2>1, BornIsNumber
  <2>. QED  BY <1>1, <1>2, <2>1 DEF RecordInv
<1>9. GrantInv'
  <2>1. ASSUME NEW s \in Slots, taken'[s] \in Grant, taken'[s] = taken[s]
        PROVE  /\ Kept(taken[s].key, taken[s].born)'
               /\ \A t \in Requests :
                     (/\ AtWork(t)
                      /\ requests[t].key = taken[s].key
                      /\ requests[t].pc = "confirming" => s \in requests[t].todo)'
                         => requests'[t].born > taken'[s].born + Retention
    <3>1. Kept(taken[s].key, taken[s].born)'
      <4>1. CASE taken[s].key = k
        BY <1>1, <2>1, <4>1 DEF Kept
      <4>2. CASE taken[s].key # k
        BY <2>1, <4>2, BornIsNumber DEF Kept, GrantInv
      <4>. QED  BY <4>1, <4>2
    <3>. QED  BY <1>3, <2>1, <3>1 DEF GrantInv
  <2>2. ASSUME NEW s \in Slots, taken'[s] = [key |-> k, born |-> b]
        PROVE  /\ Kept(taken[s].key, taken[s].born)'
               /\ \A t \in Requests : AtWork(t)' => requests'[t].key # taken'[s].key
    BY <1>1, <1>3, <2>2 DEF Kept
  <2>. QED  BY <2>1, <2>2 DEF GrantInv
<1>10. OneEffectPerKey'
  <2>1. ASSUME NEW s \in Requests \ {r}, HasEffect(s)'
        PROVE  Unrelated(r, s)' /\ Unrelated(s, r)'
    BY <1>2, <2>1 DEF Unrelated
  <2>2. ASSUME NEW s \in Requests \ {r}, NEW t \in Requests \ {r}, s # t,
               HasEffect(s)', HasEffect(t)'
        PROVE  Unrelated(s, t)'
    BY <1>2, <2>2 DEF OneEffectPerKey, Unrelated
  <2>. QED  BY <2>1, <2>2 DEF OneEffectPerKey
<1>11. OneOutcomePerKey'
  <2>1. ASSUME NEW s \in Requests \ {r}, HasOutcome(s)'
        PROVE  Unrelated(r, s)' /\ Unrelated(s, r)'
    BY <1>2, <2>1 DEF Unrelated
  <2>2. ASSUME NEW s \in Requests \ {r}, NEW t \in Requests \ {r},
               HasOutcome(s)', HasOutcome(t)'
        PROVE  \/ Unrelated(s, t)'
               \/ /\ requests'[s].body = requests'[t].body
                  /\ requests'[s].answer = requests'[t].answer
                  /\ requests'[s].granted = requests'[t].granted
    BY <1>2, <2>2 DEF OneOutcomePerKey, Unrelated
  <2>. QED  BY <2>1, <2>2 DEF OneOutcomePerKey
<1>. QED  BY <1>5, <1>6, <1>7, <1>8, <1>9, <1>10, <1>11

\* A write that gets everything it asks for.
LEMMA SucceedStep ==
  ASSUME IInv, IdempotencyTypeOK', NEW r \in Requests, Succeed(r)
  PROVE  IInv'
<1>. DEFINE k == requests[r].key
            b == requests[r].born
            g == requests[r].body
<1>1. /\ requests[r].pc = "writing"
      /\ requests[r] \in Request
      /\ k \in Keys /\ b \in Nat /\ b <= now
      /\ keys[k] = NoKey
      /\ AtWork(r)
  BY BornIsNumber DEF Succeed, IInv, PendingInv, ClaimInv, AtWork
<1>2. requests' = [requests EXCEPT ![r] =
                     [requests[r] EXCEPT !.pc = "done", !.answer = "ok", !.granted = g]]
  BY DEF Succeed, IInv, IdempotencyTypeOK
<1>3. /\ requests'[r] = [requests[r] EXCEPT !.pc = "done", !.answer = "ok", !.granted = g]
      /\ \A s \in Requests \ {r} : requests'[s] = requests[s]
  BY <1>2 DEF IInv, IdempotencyTypeOK
<1>4. /\ requests'[r].pc = "done"
      /\ requests'[r].key = k
      /\ requests'[r].born = b
      /\ requests'[r].body = requests[r].body
      /\ requests'[r].answer = "ok"
      /\ requests'[r].granted = g
  BY <1>1, <1>3 DEF Request
<1>5. /\ keys'[k] = Completed(r, "ok", g, b)
      /\ \A j \in Keys \ {k} : keys'[j] = keys[j]
      /\ \A s \in Slots : taken'[s] = taken[s] \/ taken'[s] = [key |-> k, born |-> b]
      /\ now' = now
  BY <1>1 DEF Succeed, Granted, IInv, IdempotencyTypeOK
<1>6. \A s \in Requests \ {r} :
          /\ AtWork(s) => requests[s].key # k
          /\ ((HasEffect(s) \/ HasOutcome(s)) /\ requests[s].key = k)
                 => b > requests[s].born + Retention
  BY <1>1 DEF IInv, ClaimInv, OutcomeInv
<1>7. \A s \in Slots :
          (taken[s] \in Grant /\ taken[s].key = k) => b > taken[s].born + Retention
  BY <1>1 DEF IInv, GrantInv
<1>8. /\ requests[r].pc \in {"writing", "recording"}
      /\ "ok" \in {"ok", "conflict"}
      /\ k = requests[r].key
  BY <1>1
<1>. HIDE DEF k, b, g
<1>. QED
  <2>1. Tells(r, k, "ok", g, b)
    BY <1>1, <1>3, <1>4, <1>5, <1>6, <1>7, <1>8 DEF Tells
  <2>. QED  BY <1>1, <2>1, OutcomeStep

\* A refusal is recorded.
LEMMA RecordConflictStep ==
  ASSUME IInv, IdempotencyTypeOK', NEW r \in Requests, RecordConflict(r)
  PROVE  IInv'
<1>. DEFINE k == requests[r].key
<1>1. /\ requests[r].pc = "recording"
      /\ requests[r] \in Request
      /\ k \in Keys
      /\ keys[k] = NoKey
      /\ now \in Nat
  BY BornIsNumber DEF RecordConflict, IInv
<1>2. requests' = [requests EXCEPT ![r] =
                     [requests[r] EXCEPT !.pc = "done", !.answer = "conflict", !.born = now]]
  BY DEF RecordConflict, IInv, IdempotencyTypeOK
<1>3. /\ requests'[r] = [requests[r] EXCEPT !.pc = "done", !.answer = "conflict", !.born = now]
      /\ \A s \in Requests \ {r} : requests'[s] = requests[s]
  BY <1>2 DEF IInv, IdempotencyTypeOK
<1>4. /\ requests'[r].pc = "done"
      /\ requests'[r].key = k
      /\ requests'[r].born = now
      /\ requests'[r].body = requests[r].body
      /\ requests'[r].answer = "conflict"
      /\ requests'[r].granted = {}
  BY <1>1, <1>3 DEF Request, IInv, PendingInv
<1>5. /\ keys'[k] = Completed(r, "conflict", {}, now)
      /\ \A j \in Keys \ {k} : keys'[j] = keys[j]
      /\ \A s \in Slots : taken'[s] = taken[s]
      /\ now' = now
  BY <1>1 DEF RecordConflict, IInv, IdempotencyTypeOK
<1>6. \A s \in Requests \ {r} : AtWork(s) => requests[s].key # k
  BY <1>1 DEF IInv, ClaimInv, AtWork, RecordConflict, Held, NoKey
<1>7. \A s \in Requests \ {r} :
          ((HasEffect(s) \/ HasOutcome(s)) /\ requests[s].key = k)
              => now > requests[s].born + Retention
  BY <1>1 DEF IInv, OutcomeInv, Kept
<1>8. \A s \in Slots :
          (taken[s] \in Grant /\ taken[s].key = k) => now > taken[s].born + Retention
  BY <1>1 DEF IInv, GrantInv, Kept
<1>9. /\ requests[r].pc \in {"writing", "recording"}
      /\ "conflict" \in {"ok", "conflict"}
      /\ k = requests[r].key
      /\ now <= now
  BY <1>1
<1>. HIDE DEF k
<1>. QED
  <2>1. Tells(r, k, "conflict", {}, now)
    BY <1>1, <1>3, <1>4, <1>5, <1>6, <1>7, <1>8, <1>9 DEF Tells
  <2>. QED  BY <1>1, <2>1, OutcomeStep


\* A confirm tries its next occurrence.
LEMMA OccurrenceStep ==
  ASSUME IInv, IdempotencyTypeOK', NEW r \in Requests, Occurrence(r)
  PROVE  IInv'
<1>. USE DEF IInv
<1>. DEFINE k == requests[r].key
            b == requests[r].born
<1>1. /\ requests[r].pc = "confirming"
      /\ AtWork(r)
      /\ requests[r] \in Request
      /\ k \in Keys /\ b \in Nat /\ b <= now
      /\ keys[k] # NoKey
      /\ keys[k].born = b
      /\ UNCHANGED <<keys, now>>
  BY BornIsNumber DEF Occurrence, PendingInv, ClaimInv, AtWork, NoKey
<1>2. PICK s \in requests[r].todo :
         /\ taken' = [taken EXCEPT ![s] = IF @ = Free THEN Granted(r) ELSE @]
         /\ requests' = [requests EXCEPT
                           ![r].todo = @ \ {s},
                           ![r].granted = IF taken[s] = Free THEN @ \cup {s} ELSE @]
  BY DEF Occurrence
<1>. DEFINE g == IF taken[s] = Free THEN requests[r].granted \cup {s} ELSE requests[r].granted
<1>3. requests' = [requests EXCEPT ![r] =
                     [requests[r] EXCEPT !.todo = requests[r].todo \ {s}, !.granted = g]]
  BY <1>2
<1>. HIDE DEF g
<1>4. /\ requests'[r] = [requests[r] EXCEPT !.todo = requests[r].todo \ {s}, !.granted = g]
      /\ \A t \in Requests \ {r} : requests'[t] = requests[t]
  BY <1>3 DEF IdempotencyTypeOK
<1>5. /\ requests'[r].pc = "confirming"
      /\ requests'[r].key = k
      /\ requests'[r].born = b
      /\ requests'[r].body = requests[r].body
      /\ requests'[r].replay = requests[r].replay
      /\ requests'[r].todo = requests[r].todo \ {s}
  BY <1>1, <1>4 DEF Request
<1>6. /\ s \in Slots
      /\ taken'[s] = taken[s] \/ taken'[s] = [key |-> k, born |-> b]
      /\ \A t \in Slots \ {s} : taken'[t] = taken[t]
  BY <1>1, <1>2 DEF Granted, IdempotencyTypeOK, Request
<1>7. \A t \in Requests : /\ AtWork(t)' = AtWork(t)
                          /\ requests[t].pc # "new" => /\ requests'[t].pc = requests[t].pc
                                                       /\ requests'[t].key = requests[t].key
                                                       /\ requests'[t].born = requests[t].born
                                                       /\ requests'[t].body = requests[t].body
  BY <1>1, <1>4, <1>5 DEF AtWork
<1>8. /\ \A t \in Requests \ {r} : HasEffect(t)' = HasEffect(t) /\ HasOutcome(t)' = HasOutcome(t)
      /\ ~HasOutcome(r)'
  BY <1>4, <1>5 DEF HasEffect, HasOutcome
<1>9. \A t \in Requests \ {r} :
          /\ AtWork(t) => requests[t].key # k
          /\ ((HasEffect(t) \/ HasOutcome(t)) /\ requests[t].key = k)
                 => b > requests[t].born + Retention
  BY <1>1 DEF ClaimInv, OutcomeInv
<1>10. ClaimInv'
  <2>1. \A t \in Requests : requests'[t].pc \in {"writing", "confirming"} =>
            /\ requests[t].pc = requests'[t].pc
            /\ requests'[t].key = requests[t].key
            /\ requests'[t].born = requests[t].born
            /\ requests'[t].body = requests[t].body
    BY <1>1, <1>4, <1>5
  <2>2. \A t \in Requests : AtWork(t)' => AtWork(t) /\ requests'[t].key = requests[t].key
    BY <2>1 DEF AtWork
  <2>3. \A t, u \in Requests :
            (AtWork(t) /\ AtWork(u) /\ requests[t].key = requests[u].key)' => t = u
    BY <2>2 DEF ClaimInv
  <2>4. \A t \in Requests : requests'[t].pc = "writing" => keys'[requests'[t].key] = NoKey
    BY <1>1, <2>1 DEF ClaimInv
  <2>5. \A t \in Requests :
            requests'[t].pc = "confirming" =>
              /\ keys'[requests'[t].key].status = "in_progress"
              /\ keys'[requests'[t].key].body = requests'[t].body
              /\ keys'[requests'[t].key].born = requests'[t].born
              /\ now' <= requests'[t].born + Retention
    BY <1>1, <2>1 DEF ClaimInv
  <2>. QED  BY <2>3, <2>4, <2>5 DEF ClaimInv
<1>11. PendingInv'
  BY <1>1, <1>4, <1>5 DEF PendingInv
<1>12. OutcomeInv'
  <2>1. ASSUME NEW t \in Requests \ {r}, (HasEffect(t) \/ HasOutcome(t))'
        PROVE  /\ Kept(requests[t].key, requests[t].born)'
               /\ \A u \in Requests :
                     (AtWork(u) /\ u # t /\ requests[u].key = requests[t].key)'
                         => requests'[u].born > requests'[t].born + Retention
    BY <1>1, <1>4, <1>5, <1>7, <1>8, <2>1 DEF OutcomeInv, Kept
  <2>2. Kept(requests[r].key, requests[r].born)'
    BY <1>1, <1>5 DEF Kept
  <2>3. \A u \in Requests \ {r} : AtWork(u)' => requests'[u].key # requests'[r].key
    BY <1>4, <1>5, <1>7, <1>9
  <2>. QED  BY <2>1, <2>2, <2>3 DEF OutcomeInv
<1>13. RecordInv'
  BY <1>1, <1>4, <1>8 DEF RecordInv
<1>14. GrantInv'
  <2>1. ASSUME NEW t \in Slots, taken'[t] \in Grant, taken'[t] = taken[t]
        PROVE  /\ Kept(taken[t].key, taken[t].born)'
               /\ \A u \in Requests :
                     (/\ AtWork(u)
                      /\ requests[u].key = taken[t].key
                      /\ requests[u].pc = "confirming" => t \in requests[u].todo)'
                         => requests'[u].born > taken'[t].born + Retention
    <3>1. Kept(taken[t].key, taken[t].born)'
      BY <1>1, <2>1 DEF GrantInv, Kept
    <3>2. ASSUME NEW u \in Requests, AtWork(u)', requests'[u].key = taken'[t].key,
                 requests'[u].pc = "confirming" => t \in requests'[u].todo
          PROVE  requests'[u].born > taken'[t].born + Retention
      <4>1. /\ AtWork(u)
            /\ requests[u].key = taken[t].key
            /\ requests'[u].born = requests[u].born
            /\ requests'[u].pc = requests[u].pc
        BY <1>7, <2>1, <3>2 DEF AtWork
      <4>2. requests[u].pc = "confirming" => t \in requests[u].todo
        BY <1>4, <1>5, <3>2, <4>1
      <4>. QED  BY <2>1, <4>1, <4>2 DEF GrantInv
    <3>. QED  BY <3>1, <3>2
  <2>2. ASSUME taken'[s] = [key |-> k, born |-> b]
        PROVE  /\ Kept(taken[s].key, taken[s].born)'
               /\ \A u \in Requests :
                     (AtWork(u) /\ requests[u].key = taken[s].key)'
                         => u = r /\ requests'[u].pc = "confirming" /\ s \notin requests'[u].todo
    <3>1. Kept(taken[s].key, taken[s].born)'
      BY <1>1, <2>2 DEF Kept
    <3>2. \A u \in Requests \ {r} : AtWork(u)' => requests'[u].key # k
      BY <1>4, <1>7, <1>9
    <3>3. taken'[s].key = k
      BY <2>2
    <3>4. s \notin requests'[r].todo
      BY <1>5
    <3>. QED  BY <1>5, <3>1, <3>2, <3>3, <3>4
  <2>. QED  BY <1>6, <2>1, <2>2 DEF GrantInv
<1>15. OneEffectPerKey'
  <2>1. ASSUME NEW t \in Requests \ {r}, HasEffect(t)'
        PROVE  Unrelated(r, t)' /\ Unrelated(t, r)'
    BY <1>4, <1>5, <1>8, <1>9, <2>1 DEF Unrelated
  <2>2. ASSUME NEW t \in Requests \ {r}, NEW u \in Requests \ {r}, t # u,
               HasEffect(t)', HasEffect(u)'
        PROVE  Unrelated(t, u)'
    BY <1>4, <1>8, <2>2 DEF OneEffectPerKey, Unrelated
  <2>. QED  BY <2>1, <2>2 DEF OneEffectPerKey
<1>16. OneOutcomePerKey'
  BY <1>4, <1>8 DEF OneOutcomePerKey, Unrelated
<1>. QED  BY <1>10, <1>11, <1>12, <1>13, <1>14, <1>15, <1>16

\* A confirm records its outcome in the row it claimed.
LEMMA RecordSeriesStep ==
  ASSUME IInv, IdempotencyTypeOK', NEW r \in Requests, RecordSeries(r)
  PROVE  IInv'
<1>. USE DEF IInv
<1>. DEFINE k == requests[r].key
            b == requests[r].born
<1>1. /\ requests[r].pc = "confirming"
      /\ AtWork(r)
      /\ requests[r] \in Request
      /\ k \in Keys /\ b \in Nat /\ b <= now
      /\ keys[k] # NoKey
      /\ keys[k].born = b
      /\ keys[k].body = requests[r].body
      /\ ~requests[r].replay
      /\ UNCHANGED <<taken, now>>
  BY BornIsNumber DEF RecordSeries, PendingInv, ClaimInv, AtWork, NoKey
<1>2. requests' = [requests EXCEPT ![r] = [requests[r] EXCEPT !.pc = "done", !.answer = "ok"]]
  BY DEF RecordSeries, Done, IdempotencyTypeOK
<1>3. /\ requests'[r] = [requests[r] EXCEPT !.pc = "done", !.answer = "ok"]
      /\ \A t \in Requests \ {r} : requests'[t] = requests[t]
  BY <1>2 DEF IdempotencyTypeOK
<1>4. /\ requests'[r].pc = "done"
      /\ requests'[r].key = k
      /\ requests'[r].born = b
      /\ requests'[r].body = requests[r].body
      /\ requests'[r].answer = "ok"
      /\ requests'[r].granted = requests[r].granted
      /\ requests'[r].replay = requests[r].replay
  BY <1>1, <1>3 DEF Request
<1>5. /\ keys'[k] = [Completed(r, "ok", requests[r].granted, b)
                       EXCEPT !.op = keys[k].op, !.body = keys[k].body]
      /\ \A j \in Keys \ {k} : keys'[j] = keys[j]
  BY <1>1 DEF RecordSeries, IdempotencyTypeOK
<1>6. /\ keys'[k] # NoKey
      /\ keys'[k].status = "completed"
      /\ keys'[k].body = requests[r].body
      /\ keys'[k].born = b
      /\ keys'[k].answer = "ok"
      /\ keys'[k].granted = requests[r].granted
  BY <1>1, <1>5 DEF Completed, NoKey
<1>7. /\ \A t \in Requests \ {r} :
            HasEffect(t)' = HasEffect(t) /\ HasOutcome(t)' = HasOutcome(t) /\ AtWork(t)' = AtWork(t)
      /\ ~AtWork(r)'
      /\ HasOutcome(r)'
      /\ HasEffect(r)' = HasEffect(r)
  BY <1>1, <1>3, <1>4 DEF HasEffect, HasOutcome, AtWork
<1>8. \A t \in Requests \ {r} :
          /\ AtWork(t) => requests[t].key # k
          /\ ((HasEffect(t) \/ HasOutcome(t)) /\ requests[t].key = k)
                 => b > requests[t].born + Retention
  BY <1>1 DEF ClaimInv, OutcomeInv
<1>9. \A t \in Requests :
          /\ AtWork(t)' => t # r /\ AtWork(t) /\ requests'[t] = requests[t] /\ requests[t].key # k
          /\ AtWork(t) \/ HasEffect(t) \/ HasOutcome(t) => requests[t].key \in Keys
  BY <1>3, <1>7, <1>8, BornIsNumber DEF AtWork, HasEffect, HasOutcome
<1>10. ASSUME NEW j \in Keys, NEW c \in Nat, Kept(j, c)
       PROVE  Kept(j, c)'
  <2>1. CASE j = k
    BY <1>1, <1>6, <1>10, <2>1 DEF Kept
  <2>2. CASE j # k
    BY <1>1, <1>5, <1>10, <2>2 DEF Kept
  <2>. QED  BY <2>1, <2>2
<1>11. ClaimInv'
  <2>1. \A t \in Requests : AtWork(t)' => keys'[requests'[t].key] = keys[requests[t].key]
    BY <1>5, <1>9
  <2>. QED  BY <1>1, <1>9, <2>1 DEF ClaimInv, AtWork
<1>12. PendingInv'
  <2>1. \A j \in Keys : keys'[j] # NoKey => keys'[j].born <= now'
    BY <1>1, <1>5, <1>6 DEF PendingInv
  <2>2. \A t \in Requests \ {r} :
            /\ requests'[t].pc \in {"writing", "recording", "replaying"} => requests'[t].granted = {}
            /\ requests'[t].pc \notin {"new", "done"} => ~requests'[t].replay
            /\ requests'[t].pc # "new" => requests'[t].born <= now'
    BY <1>1, <1>3 DEF PendingInv
  <2>3. requests'[r].pc = "done" /\ requests'[r].born <= now'
    BY <1>1, <1>4
  <2>. QED  BY <2>1, <2>2, <2>3 DEF PendingInv
<1>13. OutcomeInv'
  <2>1. ASSUME NEW t \in Requests \ {r}, (HasEffect(t) \/ HasOutcome(t))'
        PROVE  Kept(requests[t].key, requests[t].born)'
    <3>1. /\ Kept(requests[t].key, requests[t].born)
          /\ requests[t].key \in Keys /\ requests[t].born \in Nat
      BY <1>7, <2>1, BornIsNumber DEF OutcomeInv, HasEffect, HasOutcome
    <3>2. /\ requests'[t].key = requests[t].key
          /\ requests'[t].born = requests[t].born
      BY <1>3
    <3>. QED  BY <1>10, <3>1, <3>2 DEF Kept
  <2>2. Kept(requests[r].key, requests[r].born)'
    BY <1>4, <1>6 DEF Kept
  <2>3. ASSUME NEW t \in Requests, (HasEffect(t) \/ HasOutcome(t))',
               NEW u \in Requests, (AtWork(u) /\ u # t /\ requests[u].key = requests[t].key)'
        PROVE  requests'[u].born > requests'[t].born + Retention
    BY <1>3, <1>4, <1>7, <1>9, <2>3 DEF OutcomeInv
  <2>. QED  BY <2>1, <2>2, <2>3 DEF OutcomeInv
<1>14. RecordInv'
  <2>1. ASSUME NEW t \in Requests \ {r}, HasOutcome(t)'
        PROVE  \/ requests[t].key \in Keys \ {k}
               \/ requests[t].key = k /\ requests[t].born # b
    <3>1. requests[t].key \in Keys /\ requests[t].born \in Nat
      BY <1>7, <2>1, BornIsNumber DEF HasOutcome
    <3>. QED  BY <1>1, <1>7, <1>8, <2>1, <3>1, BornIsNumber
  <2>2. ASSUME NEW t \in Requests \ {r}, HasOutcome(t)', requests[t].key \in Keys \ {k},
               keys'[requests[t].key] # NoKey, keys'[requests[t].key].born = requests[t].born
        PROVE  /\ keys'[requests[t].key].status = "completed"
               /\ keys'[requests[t].key].body = requests[t].body
               /\ keys'[requests[t].key].answer = requests[t].answer
               /\ keys'[requests[t].key].granted = requests[t].granted
    BY <1>5, <1>7, <2>2 DEF RecordInv
  <2>3. ASSUME NEW t \in Requests \ {r}, HasOutcome(t)', keys'[requests[t].key] # NoKey,
               keys'[requests[t].key].born = requests[t].born
        PROVE  requests[t].key \in Keys \ {k}
    BY <1>6, <2>1, <2>3
  <2>4. ASSUME NEW t \in Requests \ {r}, HasOutcome(t)', keys'[requests'[t].key] # NoKey,
               keys'[requests'[t].key].born = requests'[t].born
        PROVE  /\ keys'[requests'[t].key].status = "completed"
               /\ keys'[requests'[t].key].body = requests'[t].body
               /\ keys'[requests'[t].key].answer = requests'[t].answer
               /\ keys'[requests'[t].key].granted = requests'[t].granted
    BY <1>3, <2>2, <2>3, <2>4
  <2>. QED  BY <1>4, <1>6, <2>4 DEF RecordInv
<1>15. GrantInv'
  <2>1. ASSUME NEW s \in Slots, taken[s] \in Grant
        PROVE  /\ Kept(taken[s].key, taken[s].born)'
               /\ \A t \in Requests :
                     (/\ AtWork(t)
                      /\ requests[t].key = taken[s].key
                      /\ requests[t].pc = "confirming" => s \in requests[t].todo)'
                         => requests'[t].born > taken[s].born + Retention
    <3>1. Kept(taken[s].key, taken[s].born)'
      <4>1. Kept(taken[s].key, taken[s].born)
        BY <2>1 DEF GrantInv
      <4>2. taken'[s] = taken[s]
        BY <1>1
      <4>3. taken[s].key \in Keys /\ taken[s].born \in Nat
        BY <2>1, BornIsNumber
      <4>. QED  BY <1>10, <4>1, <4>2, <4>3 DEF Kept
    <3>2. ASSUME NEW t \in Requests, AtWork(t)', requests'[t].key = taken'[s].key,
                 requests'[t].pc = "confirming" => s \in requests'[t].todo
          PROVE  requests'[t].born > taken[s].born + Retention
      <4>1. AtWork(t) /\ requests'[t] = requests[t] /\ taken'[s] = taken[s]
        BY <1>1, <1>9, <3>2
      <4>2. /\ requests[t].key = taken[s].key
            /\ requests[t].pc = "confirming" => s \in requests[t].todo
        BY <3>2, <4>1
      <4>. QED  BY <2>1, <4>1, <4>2 DEF GrantInv
    <3>. QED  BY <3>1, <3>2
  <2>. QED  BY <1>1, <2>1 DEF GrantInv
<1>16. OneEffectPerKey'
  <2>1. \A t \in Requests : HasEffect(t)' => /\ HasEffect(t)
                                             /\ requests'[t].key = requests[t].key
                                             /\ requests'[t].born = requests[t].born
    BY <1>3, <1>4, <1>7
  <2>. QED  BY <2>1 DEF OneEffectPerKey, Unrelated
<1>17. OneOutcomePerKey'
  <2>1. ASSUME NEW t \in Requests \ {r}, HasOutcome(t)'
        PROVE  Unrelated(r, t)' /\ Unrelated(t, r)'
    BY <1>3, <1>4, <1>7, <1>8, <2>1 DEF Unrelated
  <2>2. ASSUME NEW s \in Requests \ {r}, NEW t \in Requests \ {r},
               HasOutcome(s)', HasOutcome(t)'
        PROVE  \/ Unrelated(s, t)'
               \/ /\ requests'[s].body = requests'[t].body
                  /\ requests'[s].answer = requests'[t].answer
                  /\ requests'[s].granted = requests'[t].granted
    BY <1>3, <1>7, <2>2 DEF OneOutcomePerKey, Unrelated
  <2>. QED  BY <2>1, <2>2 DEF OneOutcomePerKey
<1>. QED  BY <1>11, <1>12, <1>13, <1>14, <1>15, <1>16, <1>17

\* Somebody else takes a slot, or one is given back.
LEMMA SlotStep ==
  ASSUME IInv, IdempotencyTypeOK', NEW s \in Slots, OthersTake(s) \/ Release(s)
  PROVE  IInv'
<1>1. /\ \A t \in Slots : taken'[t] \in Grant => taken'[t] = taken[t]
      /\ UNCHANGED <<keys, requests, now>>
  <2>1. taken \in [Slots -> Grant \cup {Free, Others}]
    BY DEF IInv, IdempotencyTypeOK
  <2>2. PICK v \in {Free, Others} : taken' = [taken EXCEPT ![s] = v]
    BY DEF OthersTake, Release
  <2>3. v \notin Grant
    BY DEF Grant, Free, Others
  <2>4. UNCHANGED <<keys, requests, now>>
    BY DEF OthersTake, Release
  <2>. QED  BY <2>1, <2>2, <2>3, <2>4
<1>. USE DEF IInv
<1>2. ClaimInv' /\ PendingInv' /\ RecordInv'
  <2>1. ClaimInv'
    BY <1>1 DEF ClaimInv, AtWork
  <2>2. PendingInv'
    BY <1>1 DEF PendingInv
  <2>3. RecordInv'
    BY <1>1 DEF RecordInv, HasOutcome
  <2>. QED  BY <2>1, <2>2, <2>3
<1>3. OutcomeInv'
  BY <1>1 DEF OutcomeInv, HasEffect, HasOutcome, AtWork, Kept
<1>4. GrantInv'
  BY <1>1 DEF GrantInv, AtWork, Kept
<1>5. OneEffectPerKey' /\ OneOutcomePerKey'
  BY <1>1 DEF OneEffectPerKey, OneOutcomePerKey, HasEffect, HasOutcome, Unrelated
<1>. QED  BY <1>2, <1>3, <1>4, <1>5

\* Rows older than the retention are purged; a confirm at work has none.
LEMMA PurgeStep ==
  ASSUME IInv, IdempotencyTypeOK', Purge
  PROVE  IInv'
<1>. USE DEF IInv
<1>1. /\ \A k \in Keys : keys'[k] = keys[k]
                         \/ (keys'[k] = NoKey /\ keys[k] # NoKey /\ keys[k].born + Retention < now)
      /\ UNCHANGED <<requests, taken, now>>
  BY DEF Purge, Expired
<1>2. ASSUME NEW k \in Keys, NEW b \in Nat, Kept(k, b)
      PROVE  Kept(k, b)'
  BY <1>1, <1>2, BornIsNumber DEF Kept
<1>3. \A r \in Requests : requests[r].pc # "new" => requests[r].key \in Keys /\ requests[r].born \in Nat
  BY BornIsNumber
<1>4. ClaimInv'
  <2>1. \A r, s \in Requests :
            (AtWork(r) /\ AtWork(s) /\ requests[r].key = requests[s].key)' => r = s
    BY <1>1 DEF ClaimInv, AtWork
  <2>2. \A r \in Requests : requests'[r].pc = "writing" => keys'[requests'[r].key] = NoKey
    BY <1>1, <1>3 DEF ClaimInv
  <2>3. ASSUME NEW r \in Requests, requests[r].pc = "confirming"
        PROVE  keys'[requests[r].key] = keys[requests[r].key]
    <3>1. /\ requests[r].key \in Keys
          /\ keys[requests[r].key].born = requests[r].born
          /\ now <= requests[r].born + Retention
          /\ requests[r].born \in Nat
      BY <1>3, <2>3 DEF ClaimInv
    <3>. QED  BY <1>1, <3>1, BornIsNumber
  <2>. QED  BY <1>1, <2>1, <2>2, <2>3 DEF ClaimInv
<1>5. PendingInv'
  BY <1>1 DEF PendingInv
<1>6. OutcomeInv'
  <2>1. ASSUME NEW r \in Requests, (HasEffect(r) \/ HasOutcome(r))'
        PROVE  Kept(requests[r].key, requests[r].born)'
    <3>1. /\ HasEffect(r) \/ HasOutcome(r)
          /\ requests[r].pc # "new"
      BY <1>1, <2>1 DEF HasEffect, HasOutcome
    <3>2. Kept(requests[r].key, requests[r].born)
      BY <3>1 DEF OutcomeInv
    <3>. QED  BY <1>1, <1>2, <1>3, <3>1, <3>2 DEF Kept
  <2>2. ASSUME NEW r \in Requests, (HasEffect(r) \/ HasOutcome(r))',
               NEW s \in Requests, (AtWork(s) /\ s # r /\ requests[s].key = requests[r].key)'
        PROVE  requests'[s].born > requests'[r].born + Retention
    BY <1>1, <2>2 DEF OutcomeInv, HasEffect, HasOutcome, AtWork
  <2>. QED  BY <2>1, <2>2 DEF OutcomeInv
<1>7. RecordInv'
  BY <1>1, <1>3 DEF RecordInv, HasOutcome
<1>8. GrantInv'
  <2>1. ASSUME NEW s \in Slots, taken'[s] \in Grant
        PROVE  Kept(taken[s].key, taken[s].born)'
    <3>1. /\ taken[s] \in Grant
          /\ Kept(taken[s].key, taken[s].born)
          /\ taken[s].key \in Keys /\ taken[s].born \in Nat
      BY <1>1, <2>1, BornIsNumber DEF GrantInv
    <3>. QED  BY <1>1, <1>2, <3>1 DEF Kept
  <2>. QED  BY <1>1, <2>1 DEF GrantInv, AtWork
<1>9. OneEffectPerKey' /\ OneOutcomePerKey'
  BY <1>1 DEF OneEffectPerKey, OneOutcomePerKey, HasEffect, HasOutcome, Unrelated
<1>. QED  BY <1>4, <1>5, <1>6, <1>7, <1>8, <1>9

\* Time passes, though not beyond what a confirm at work may take.
LEMMA TickStep ==
  ASSUME IInv, IdempotencyTypeOK', Tick
  PROVE  IInv'
<1>. USE DEF IInv
<1>1. /\ now' = now + 1
      /\ \A r \in Requests : requests[r].pc = "confirming" => now < requests[r].born + Retention
      /\ UNCHANGED <<keys, requests, taken>>
  BY DEF Tick
<1>2. ASSUME NEW k, NEW b \in Nat, Kept(k, b)
      PROVE  Kept(k, b)'
  BY <1>1, <1>2, BornIsNumber DEF Kept
<1>3. \A r \in Requests : requests[r].pc # "new" => requests[r].key \in Keys /\ requests[r].born \in Nat
  BY BornIsNumber
<1>4. ClaimInv'
  <2>1. \A r \in Requests : requests[r].pc = "confirming" => now' <= requests[r].born + Retention
    BY <1>1, <1>3, BornIsNumber
  <2>. QED  BY <1>1, <2>1 DEF ClaimInv, AtWork
<1>5. PendingInv'
  <2>1. /\ \A r \in Requests : requests[r].pc # "new" => requests[r].born <= now'
        /\ \A k \in Keys : keys[k] # NoKey => keys[k].born <= now'
    BY <1>1, BornIsNumber DEF PendingInv
  <2>. QED  BY <1>1, <2>1 DEF PendingInv
<1>6. OutcomeInv'
  <2>1. ASSUME NEW r \in Requests, (HasEffect(r) \/ HasOutcome(r))'
        PROVE  Kept(requests[r].key, requests[r].born)'
    <3>1. /\ HasEffect(r) \/ HasOutcome(r)
          /\ requests[r].pc # "new"
      BY <1>1, <2>1 DEF HasEffect, HasOutcome
    <3>2. Kept(requests[r].key, requests[r].born)
      BY <3>1 DEF OutcomeInv
    <3>. QED  BY <1>1, <1>2, <1>3, <3>1, <3>2 DEF Kept
  <2>2. ASSUME NEW r \in Requests, (HasEffect(r) \/ HasOutcome(r))',
               NEW s \in Requests, (AtWork(s) /\ s # r /\ requests[s].key = requests[r].key)'
        PROVE  requests'[s].born > requests'[r].born + Retention
    BY <1>1, <2>2 DEF OutcomeInv, HasEffect, HasOutcome, AtWork
  <2>. QED  BY <2>1, <2>2 DEF OutcomeInv
<1>7. RecordInv'
  BY <1>1 DEF RecordInv, HasOutcome
<1>8. GrantInv'
  <2>1. ASSUME NEW s \in Slots, taken'[s] \in Grant
        PROVE  Kept(taken[s].key, taken[s].born)'
    <3>1. /\ taken[s] \in Grant
          /\ Kept(taken[s].key, taken[s].born)
          /\ taken[s].key \in Keys /\ taken[s].born \in Nat
      BY <1>1, <2>1, BornIsNumber DEF GrantInv
    <3>. QED  BY <1>1, <1>2, <3>1 DEF Kept
  <2>. QED  BY <1>1, <2>1 DEF GrantInv, AtWork
<1>9. OneEffectPerKey' /\ OneOutcomePerKey'
  BY <1>1 DEF OneEffectPerKey, OneOutcomePerKey, HasEffect, HasOutcome, Unrelated
<1>. QED  BY <1>4, <1>5, <1>6, <1>7, <1>8, <1>9

LEMMA SendStep ==
  ASSUME IInv, IdempotencyTypeOK', NEW r \in Requests, Send(r)
  PROVE  IInv'
<1>1. PICK k \in Keys :
         \/ \E op \in Writes \cup {Series} :
               \E body \in BodiesOf(op) :
                  \/ Claim(r, k, op, body)
                  \/ ClaimTimesOut(r, k, op, body)
                  \/ ClaimIsDuplicate(r, k, op, body)
         \/ \E body \in SeriesBodies : ClaimSeries(r, k, body)
  BY DEF Send
<1>2. ASSUME NEW op \in Writes \cup {Series}, NEW body \in BodiesOf(op),
             \/ Claim(r, k, op, body)
             \/ ClaimTimesOut(r, k, op, body)
             \/ ClaimIsDuplicate(r, k, op, body)
      PROVE  IInv'
  <2>1. body \in Bodies
    BY DEF BodiesOf, Bodies
  <2>2. CASE Claim(r, k, op, body)
    <3>1. op \in Writes
      BY <2>2 DEF Claim
    <3>. QED  BY <2>1, <2>2, <3>1, ClaimStep
  <2>3. CASE ClaimTimesOut(r, k, op, body) \/ ClaimIsDuplicate(r, k, op, body)
    BY <2>1, <2>3, TurnedAwayStep
  <2>. QED  BY <1>2, <2>2, <2>3
<1>3. ASSUME NEW body \in SeriesBodies, ClaimSeries(r, k, body)
      PROVE  IInv'
  BY <1>3, ClaimSeriesStep
<1>. QED  BY <1>1, <1>2, <1>3

LEMMA HandleStep ==
  ASSUME IInv, IdempotencyTypeOK', NEW r \in Requests, Handle(r) \/ Crash(r)
  PROVE  IInv'
<1>1. CASE ReplayWaits(r)
  BY <1>1, EndStep DEF ReplayWaits
<1>2. CASE ReplayMismatches(r)
  BY <1>2, EndStep DEF ReplayMismatches
<1>3. CASE ReplayFindsNothing(r)
  BY <1>3, EndStep DEF ReplayFindsNothing
<1>4. CASE WriteFails(r)
  BY <1>4, EndStep DEF WriteFails
<1>5. CASE RecordIsDuplicate(r)
  BY <1>5, EndStep DEF RecordIsDuplicate
<1>6. CASE SeriesFails(r)
  BY <1>6, EndStep DEF SeriesFails
<1>7. CASE Crash(r)
  BY <1>7, EndStep DEF Crash
<1>. QED
  BY <1>1, <1>2, <1>3, <1>4, <1>5, <1>6, <1>7, ReplayStep, RefuseStep, SucceedStep,
     RecordConflictStep, OccurrenceStep, RecordSeriesStep
  DEF Handle

LEMMA InvariantIsInductive == IInv /\ [IdempotencyNext]_idempotencyVars => IInv'
<1>. SUFFICES ASSUME IInv, [IdempotencyNext]_idempotencyVars
              PROVE  IInv'
  OBVIOUS
<1>1. IdempotencyTypeOK'
  BY NextType DEF IInv
<1>2. ASSUME NEW r \in Requests, Send(r) \/ Handle(r) \/ Crash(r) PROVE IInv'
  BY <1>1, <1>2, SendStep, HandleStep
<1>3. ASSUME NEW s \in Slots, OthersTake(s) \/ Release(s) PROVE IInv'
  BY <1>1, <1>3, SlotStep
<1>4. CASE Purge
  BY <1>1, <1>4, PurgeStep
<1>5. CASE Tick
  BY <1>1, <1>5, TickStep
<1>6. CASE UNCHANGED idempotencyVars
  BY <1>6 DEF idempotencyVars, IInv, IdempotencyTypeOK, ClaimInv, PendingInv, OutcomeInv,
     RecordInv, GrantInv, OneEffectPerKey, OneOutcomePerKey, HasEffect, HasOutcome, AtWork,
     Kept, Unrelated
<1>. QED  BY <1>2, <1>3, <1>4, <1>5, <1>6 DEF IdempotencyNext

LEMMA InvariantHolds == IdempotencySpec => []IInv
<1>1. IdempotencyInit => IInv
  <2>. SUFFICES ASSUME IdempotencyInit PROVE IInv
    OBVIOUS
  <2>1. IdempotencyTypeOK
    BY IdempotencyAssumption DEF IdempotencyInit, IdempotencyTypeOK, Times
  <2>2. /\ \A r \in Requests : requests[r].pc = "new"
        /\ \A k \in Keys : keys[k] = NoKey
        /\ \A s \in Slots : taken[s] \notin Grant
    BY DEF IdempotencyInit, NotSent, Free, Grant
  <2>3. \A r \in Requests : ~AtWork(r) /\ ~HasEffect(r) /\ ~HasOutcome(r)
    BY <2>2 DEF AtWork, HasEffect, HasOutcome
  <2>4. ClaimInv /\ PendingInv
    BY <2>2, <2>3 DEF ClaimInv, PendingInv
  <2>. QED
    BY <2>1, <2>2, <2>3, <2>4
    DEF IInv, OutcomeInv, RecordInv, GrantInv, OneEffectPerKey, OneOutcomePerKey
<1>. QED  BY <1>1, InvariantIsInductive, PTL DEF IdempotencySpec

\* However many requests carry a key within the retention, and however they
\* overlap, fail and are retried, at most one of them changes anything (PRD FR35).
THEOREM AtMostOneEffect == IdempotencySpec => []OneEffectPerKey
<1>1. IInv => OneEffectPerKey
  BY DEF IInv
<1>. QED  BY <1>1, InvariantHolds, PTL

\* All of them that are told an outcome are told the same one (PRD FR37).
THEOREM AtMostOneOutcome == IdempotencySpec => []OneOutcomePerKey
<1>1. IInv => OneOutcomePerKey
  BY DEF IInv
<1>. QED  BY <1>1, InvariantHolds, PTL

\* No request is refused a slot that an earlier request under its own key has
\* taken, even one whose answer was lost (PRD FR38).
THEOREM RetryIsNotRefusedItsOwn == IdempotencySpec => OwnGrantNeverRefuses
<1>. DEFINE NotItsOwn(r) ==
              /\ Refuse(r) => \A s \in requests[r].body : ~OwnGrant(r, s)
              /\ Occurrence(r) =>
                    \A s \in requests[r].todo \ requests'[r].todo : ~OwnGrant(r, s)
<1>1. ASSUME IInv, NEW r \in Requests, NEW s \in Slots, AtWork(r),
             requests[r].pc = "confirming" => s \in requests[r].todo
      PROVE  ~OwnGrant(r, s)
  <2>1. SUFFICES ASSUME OwnGrant(r, s) PROVE FALSE
    OBVIOUS
  <2>2. taken[s] \in Grant
    BY <1>1, <2>1 DEF OwnGrant, IInv, IdempotencyTypeOK
  <2>3. /\ requests[r].born > taken[s].born + Retention
        /\ requests[r].born \in Nat /\ taken[s].born \in Nat /\ Retention \in Nat
    BY <1>1, <2>1, <2>2, BornIsNumber DEF OwnGrant, IInv, GrantInv, AtWork
  <2>. QED  BY <2>1, <2>3 DEF OwnGrant
<1>2. ASSUME IInv, NEW r \in Requests PROVE NotItsOwn(r)
  <2>1. ASSUME Refuse(r), NEW s \in requests[r].body PROVE ~OwnGrant(r, s)
    <3>1. requests[r].pc = "writing" /\ requests[r] \in Request
      BY <1>2, <2>1, BornIsNumber DEF Refuse, IInv
    <3>2. s \in Slots
      BY <2>1, <3>1, IdempotencyAssumption DEF Request, Bodies
    <3>. QED  BY <1>1, <1>2, <3>1, <3>2 DEF AtWork
  <2>2. ASSUME Occurrence(r), NEW s \in requests[r].todo PROVE ~OwnGrant(r, s)
    <3>1. requests[r].pc = "confirming" /\ requests[r] \in Request
      BY <1>2, <2>2, BornIsNumber DEF Occurrence, IInv
    <3>2. s \in Slots
      BY <2>2, <3>1 DEF Request
    <3>. QED  BY <1>1, <1>2, <2>2, <3>1, <3>2 DEF AtWork
  <2>. QED  BY <2>1, <2>2
<1>3. IInv /\ [IdempotencyNext]_idempotencyVars
        => [\A r \in Requests : NotItsOwn(r)]_idempotencyVars
  BY <1>2
<1>. QED  BY <1>3, InvariantHolds, PTL DEF IdempotencySpec, OwnGrantNeverRefuses
=============================================================================
