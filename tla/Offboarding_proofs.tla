------------------------- MODULE Offboarding_proofs -------------------------
(***************************************************************************)
(* Proofs about Offboarding and the Delivery it hands its messages to, for *)
(* every value of their constants: any number of users, resources,         *)
(* bookings and series, any policies, any number of retries and faults.    *)
(***************************************************************************)
EXTENDS Offboarding, BookingTable_proofs

-----------------------------------------------------------------------------
(* Delivery: the inductive invariant.                                       *)

\* A task that has not begun has left no trace.
NotBegun(m) ==
    task[m].pc \in {"none", "lost"} =>
        log[m] = NoLog /\ mails[m] = 0 /\ task[m].retries = 0 /\ m \notin shaken

\* An attempt is counted once, before its mail.
Counted(m) ==
    /\ log[m].attempts <= task[m].retries + 1
    /\ task[m].pc \in {"queued", "opened"} => log[m].attempts <= task[m].retries
    /\ mails[m] <= log[m].attempts
    /\ task[m].pc = "counted" => mails[m] < log[m].attempts
    /\ task[m].pc = "accepted" => mails[m] > 0
    /\ log[m].status = "sent" => mails[m] > 0

\* A task nothing disturbed sends one mail, and ends with it.
Undisturbed(m) ==
    m \notin shaken =>
        /\ mails[m] <= 1
        /\ task[m].pc \notin {"accepted", "done"} => mails[m] = 0
        /\ task[m].pc = "done" => log[m].status = "sent"

DeliveryInv ==
    /\ DeliveryTypeOK
    /\ \A m \in Messages : NotBegun(m) /\ Counted(m) /\ Undisturbed(m)

-----------------------------------------------------------------------------
(* Offboarding: the inductive invariant.                                    *)

Working == job.pc \notin {"idle", "callbacks"}

\* A message is true.
Told(m) ==
    IF m \in Series
    THEN users[Owner[m]] = "deactivated"
    ELSE /\ bookings[m].status = "cancelled"
         /\ Policy[bookings[m].resource] = "cancel_and_notify"
         /\ users[bookings[m].user] = "deactivated"

\* A message will be true when the transaction commits.
WillBeTrue(m) ==
    IF m \in Series
    THEN Owner[m] = job.target
    ELSE /\ m \in job.cancelled \/ bookings[m].status = "cancelled"
         /\ InTable(bookings[m])
         /\ Policy[bookings[m].resource] = "cancel_and_notify"
         /\ bookings[m].user = job.target

\* What is told, or is about to be, is true, and is told once.
ToldInv ==
    /\ \A m \in Messages : task[m].pc # "none" => Told(m)
    /\ job.pc = "callbacks" => \A m \in job.notes : task[m].pc = "none" /\ Told(m)
    /\ Working => \A m \in job.notes : task[m].pc = "none" /\ WillBeTrue(m)

\* The rows the transaction has read or written are the target's.
JobInv ==
    Working =>
        /\ users[job.target] = "active"
        /\ job.at <= now
        /\ job.pc \in {"each_booking", "each_offer"} =>
              \A b \in job.todo : InTable(bookings[b]) /\ bookings[b].user = job.target
        /\ job.pc = "each_booking" => \A b \in job.todo : bookings[b].status # "held"
        /\ \A b \in job.moved :
              /\ bookings[b].status \in {"confirmed", "cancelled"}
              /\ bookings[b].user = job.target
              /\ Policy[bookings[b].resource] = "transfer"
              /\ Heir(bookings[b].resource) # {}
        /\ \A b \in job.cancelled :
              /\ bookings[b].status = "confirmed"
              /\ bookings[b].user = job.target
              /\ Policy[bookings[b].resource] = "cancel_and_notify"
        /\ \A b \in job.declined :
              bookings[b].status = "held" /\ bookings[b].user = job.target

\* A hold is there for as long as its offer is open.
HoldInv == \A b \in BookingIds : offers[b] = "active" <=> bookings[b].status = "held"

\* What the transaction has looked for is decided, kept or came too missed.
DecidedInv ==
    /\ Working /\ job.pc # "bookings" =>
          \A b \in BookingIds \ missed :
             bookings[b].status = "confirmed" /\ bookings[b].user = job.target =>
                \/ job.pc = "each_booking" /\ b \in job.todo
                \/ b \in job.moved \cup job.cancelled
                \/ Stays(bookings[b], job.target)
    /\ Working /\ job.pc \notin {"bookings", "each_booking"} =>
          \A b \in BookingIds \ missed :
             bookings[b].status = "held" /\ bookings[b].user = job.target =>
                \/ job.pc = "each_offer" /\ b \in job.todo
                \/ b \in job.declined
    /\ job.pc \in {"series", "commit"} =>
          (entries[job.target] = "waiting" => job.target \in missed \cup job.withdrawn)

\* NothingLeftBehind, in the words of the others.
LeftInv ==
    \A u \in Users : users[u] = "deactivated" =>
        /\ \A b \in BookingIds \ missed :
              (bookings[b].status \in {"held", "confirmed"} /\ bookings[b].user = u) =>
                  bookings[b].status = "confirmed" /\ Stays(bookings[b], u)
        /\ entries[u] = "waiting" => u \in missed

\* The series a deactivation of their owner has to tell somebody of.
Entrusted(s, u) == Owner[s] = u /\ Heir(SeriesResource[s]) # {}

SeriesFlagged == job.pc = "commit" => \A s \in Series : Entrusted(s, job.target) => s \in job.notes

\* Who administers a series is told of it, or about to be.
SeriesInv ==
    /\ SeriesFlagged
    /\ \A u \in Users : users[u] = "deactivated" =>
          \A s \in Series \ missed : Entrusted(s, u) =>
              task[s].pc # "none" \/ (job.pc = "callbacks" /\ s \in job.notes)

TableInv == ToldInv /\ JobInv /\ HoldInv /\ DecidedInv /\ LeftInv /\ SeriesInv

IInv ==
    /\ OffboardingTypeOK
    /\ DeliveryInv
    /\ TableInv

-----------------------------------------------------------------------------
(* Delivery: its steps.                                                     *)

DeliveryTypes(m) ==
    /\ log[m] \in [status : {"none", "pending", "sent", "failed"}, attempts : 0..(MaxRetries + 1)]
    /\ task[m] \in [pc : {"none", "queued"} \cup AtWork \cup Ended, retries : 0..MaxRetries]
    /\ mails[m] \in 0..(MaxRetries + 1)

DeliveryAt(m) == DeliveryTypes(m) /\ NotBegun(m) /\ Counted(m) /\ Undisturbed(m)

\* Only m's record, task and mails may have changed, and its task had begun.
OnlyAt(m) ==
    /\ log' = [log EXCEPT ![m] = log'[m]]
    /\ task' = [task EXCEPT ![m] = task'[m]]
    /\ mails' = [mails EXCEPT ![m] = mails'[m]]
    /\ shaken' \in {shaken, shaken \cup {m}}
    /\ faults' \in 0..MaxFaults
    /\ task[m].pc # "none" /\ task'[m].pc # "none"

LEMMA DeliveryElsewhere ==
  ASSUME DeliveryInv, NEW m \in Messages, OnlyAt(m), DeliveryAt(m)'
  PROVE  /\ DeliveryInv'
         /\ \A k \in Messages : task'[k].pc = "none" <=> task[k].pc = "none"
<1>1. \A k \in Messages \ {m} :
         /\ log'[k] = log[k] /\ task'[k] = task[k] /\ mails'[k] = mails[k]
         /\ k \in shaken' <=> k \in shaken
  BY DEF OnlyAt, DeliveryInv, DeliveryTypeOK
<1>2. \A k \in Messages : DeliveryAt(k)'
  <2>1. \A k \in Messages \ {m} : DeliveryAt(k)
    BY DEF DeliveryInv, DeliveryTypeOK, DeliveryAt, DeliveryTypes
  <2>2. \A k \in Messages \ {m} : DeliveryAt(k)'
    BY <1>1, <2>1 DEF DeliveryAt, DeliveryTypes, NotBegun, Counted, Undisturbed, NoLog
  <2>. QED  BY <2>2
<1>3. DeliveryTypeOK'
  BY <1>2 DEF OnlyAt, DeliveryInv, DeliveryTypeOK, DeliveryAt, DeliveryTypes
<1>4. \A k \in Messages : (NotBegun(k) /\ Counted(k) /\ Undisturbed(k))'
  BY <1>2 DEF DeliveryAt
<1>5. \A k \in Messages : task'[k].pc = "none" <=> task[k].pc = "none"
  BY <1>1 DEF OnlyAt
<1>. QED  BY <1>3, <1>4, <1>5 DEF DeliveryInv

\* An attempt, a failing statement and a dying worker keep the invariant.
LEMMA DeliverStep ==
  ASSUME DeliveryInv, NEW m \in Messages, Deliver(m)
  PROVE  /\ DeliveryInv'
         /\ \A k \in Messages : task'[k].pc = "none" <=> task[k].pc = "none"
<1>. USE DeliveryAssumption
<1>1. DeliveryTypes(m) /\ NotBegun(m) /\ Counted(m) /\ Undisturbed(m)
      /\ shaken \subseteq Messages /\ faults \in 0..MaxFaults
  BY DEF DeliveryInv, DeliveryTypeOK, DeliveryTypes
<1>2. /\ log \in [Messages -> [status : {"none", "pending", "sent", "failed"},
                               attempts : 0..(MaxRetries + 1)]]
      /\ task \in [Messages -> [pc : {"none", "queued"} \cup AtWork \cup Ended,
                                retries : 0..MaxRetries]]
      /\ mails \in [Messages -> 0..(MaxRetries + 1)]
  BY DEF DeliveryInv, DeliveryTypeOK
<1>3. ASSUME Retry(m), task[m].pc \in {"queued"} \cup AtWork
      PROVE  /\ task' = [task EXCEPT ![m] = task'[m]]
             /\ task'[m] \in [pc : {"queued", "gave_up"}, retries : 0..MaxRetries]
             /\ task'[m].pc = "queued" => task'[m].retries = task[m].retries + 1
             /\ task'[m].pc = "gave_up" => task'[m].retries = task[m].retries
  <2>1. CASE task[m].retries < MaxRetries
    <3>1. task' = [task EXCEPT ![m] = [pc |-> "queued", retries |-> task[m].retries + 1]]
      BY <1>2, <1>3, <2>1 DEF Retry
    <3>. QED  BY <1>2, <2>1, <3>1
  <2>2. CASE ~(task[m].retries < MaxRetries)
    <3>1. task' = [task EXCEPT ![m] = [task[m] EXCEPT !.pc = "gave_up"]]
      BY <1>2, <1>3, <2>2 DEF Retry
    <3>. QED  BY <1>2, <3>1
  <2>. QED  BY <2>1, <2>2
<1>4. ASSUME NEW pc \in AtWork \cup Ended, Goto(m, pc)
      PROVE  /\ task' = [task EXCEPT ![m] = task'[m]]
             /\ task'[m] = [pc |-> pc, retries |-> task[m].retries]
  BY <1>2, <1>4 DEF Goto
<1>5. CASE OpenLog(m)
  <2>1. /\ log' = [log EXCEPT ![m] = log'[m]]
        /\ log'[m].status \in {"pending", "sent", "failed"}
        /\ log'[m] \in [status : {"none", "pending", "sent", "failed"}, attempts : 0..(MaxRetries + 1)]
        /\ log'[m].attempts = log[m].attempts
        /\ log[m].status # "none" => log'[m].status = log[m].status
        /\ log[m].status = "none" => log'[m].status = "pending"
    BY <1>2, <1>5 DEF OpenLog
  <2>2. task' = [task EXCEPT ![m] = task'[m]] /\ task'[m] = [pc |-> "opened", retries |-> task[m].retries]
    BY <1>4, <1>5 DEF OpenLog, AtWork
  <2>3. DeliveryAt(m)'
    BY <1>1, <1>5, <2>1, <2>2 DEF OpenLog, DeliveryAt, DeliveryTypes, NotBegun, Counted, Undisturbed, AtWork, Ended
  <2>4. OnlyAt(m)
    BY <1>1, <1>2, <1>5, <2>1, <2>2 DEF OpenLog, OnlyAt
  <2>. QED  BY <2>3, <2>4, DeliveryElsewhere
<1>6. CASE CountAttempt(m)
  <2>1. /\ log' = [log EXCEPT ![m] = log'[m]]
        /\ log'[m] = [status |-> log[m].status, attempts |-> log[m].attempts + 1]
    BY <1>2, <1>6 DEF CountAttempt
  <2>2. task' = [task EXCEPT ![m] = task'[m]] /\ task'[m] = [pc |-> "counted", retries |-> task[m].retries]
    BY <1>4, <1>6 DEF CountAttempt, AtWork
  <2>3. DeliveryAt(m)'
    BY <1>1, <1>6, <2>1, <2>2 DEF CountAttempt, DeliveryAt, DeliveryTypes, NotBegun, Counted, Undisturbed, AtWork, Ended
  <2>4. OnlyAt(m)
    BY <1>1, <1>2, <1>6, <2>1, <2>2 DEF CountAttempt, OnlyAt
  <2>. QED  BY <2>3, <2>4, DeliveryElsewhere
<1>7. CASE ProviderAccepts(m)
  <2>1. mails' = [mails EXCEPT ![m] = mails'[m]] /\ mails'[m] = mails[m] + 1
    BY <1>2, <1>7 DEF ProviderAccepts
  <2>2. task' = [task EXCEPT ![m] = task'[m]] /\ task'[m] = [pc |-> "accepted", retries |-> task[m].retries]
    BY <1>4, <1>7 DEF ProviderAccepts, AtWork
  <2>3. DeliveryAt(m)'
    BY <1>1, <1>7, <2>1, <2>2 DEF ProviderAccepts, DeliveryAt, DeliveryTypes, NotBegun, Counted, Undisturbed, AtWork, Ended
  <2>4. OnlyAt(m)
    BY <1>1, <1>2, <1>7, <2>1, <2>2 DEF ProviderAccepts, OnlyAt
  <2>. QED  BY <2>3, <2>4, DeliveryElsewhere
<1>8. CASE ProviderRejects(m)
  <2>2. task' = [task EXCEPT ![m] = task'[m]] /\ task'[m] = [pc |-> "rejected", retries |-> task[m].retries]
    BY <1>4, <1>8 DEF ProviderRejects, AtWork
  <2>3. DeliveryAt(m)'
    BY <1>1, <1>8, <2>2 DEF ProviderRejects, DeliveryAt, DeliveryTypes, NotBegun, Counted, Undisturbed, AtWork, Ended
  <2>4. OnlyAt(m)
    BY <1>1, <1>2, <1>8, <2>2 DEF ProviderRejects, OnlyAt
  <2>. QED  BY <2>3, <2>4, DeliveryElsewhere
<1>9. CASE RecordSent(m)
  <2>1. /\ log' = [log EXCEPT ![m] = log'[m]]
        /\ log'[m] = [status |-> "sent", attempts |-> log[m].attempts]
    BY <1>2, <1>9 DEF RecordSent
  <2>2. task' = [task EXCEPT ![m] = task'[m]] /\ task'[m] = [pc |-> "done", retries |-> task[m].retries]
    BY <1>4, <1>9 DEF RecordSent, Ended
  <2>3. DeliveryAt(m)'
    BY <1>1, <1>9, <2>1, <2>2 DEF RecordSent, DeliveryAt, DeliveryTypes, NotBegun, Counted, Undisturbed, AtWork, Ended
  <2>4. OnlyAt(m)
    BY <1>1, <1>2, <1>9, <2>1, <2>2 DEF RecordSent, OnlyAt
  <2>. QED  BY <2>3, <2>4, DeliveryElsewhere
<1>10. CASE RecordFailure(m)
  <2>1. /\ log' = [log EXCEPT ![m] = log'[m]]
        /\ log'[m] = [status |-> "failed", attempts |-> log[m].attempts]
    BY <1>2, <1>10 DEF RecordFailure
  <2>2. /\ task' = [task EXCEPT ![m] = task'[m]]
        /\ task'[m] \in [pc : {"queued", "gave_up"}, retries : 0..MaxRetries]
        /\ task'[m].pc = "queued" => task'[m].retries = task[m].retries + 1
        /\ task'[m].pc = "gave_up" => task'[m].retries = task[m].retries
    BY <1>3, <1>10 DEF RecordFailure, AtWork
  <2>3. DeliveryAt(m)'
    BY <1>1, <1>10, <2>1, <2>2 DEF RecordFailure, DeliveryAt, DeliveryTypes, NotBegun, Counted, Undisturbed, AtWork, Ended
  <2>4. OnlyAt(m)
    BY <1>1, <1>2, <1>10, <2>1, <2>2 DEF RecordFailure, OnlyAt
  <2>. QED  BY <2>3, <2>4, DeliveryElsewhere
<1>11. CASE StatementFails(m)
  <2>2. /\ task' = [task EXCEPT ![m] = task'[m]]
        /\ task'[m] \in [pc : {"queued", "gave_up"}, retries : 0..MaxRetries]
        /\ task'[m].pc = "queued" => task'[m].retries = task[m].retries + 1
        /\ task'[m].pc = "gave_up" => task'[m].retries = task[m].retries
    BY <1>3, <1>11 DEF StatementFails, AtWork
  <2>3. DeliveryAt(m)'
    BY <1>1, <1>11, <2>2 DEF StatementFails, DeliveryAt, DeliveryTypes, NotBegun, Counted, Undisturbed, AtWork, Ended
  <2>4. OnlyAt(m)
    BY <1>1, <1>2, <1>11, <2>2 DEF StatementFails, OnlyAt, AtWork
  <2>. QED  BY <2>3, <2>4, DeliveryElsewhere
<1>12. CASE WorkerDies(m)
  <2>2. task' = [task EXCEPT ![m] = task'[m]] /\ task'[m] = [pc |-> "dead", retries |-> task[m].retries]
    BY <1>4, <1>12 DEF WorkerDies, Ended
  <2>3. DeliveryAt(m)'
    BY <1>1, <1>12, <2>2 DEF WorkerDies, DeliveryAt, DeliveryTypes, NotBegun, Counted, Undisturbed, AtWork, Ended
  <2>4. OnlyAt(m)
    BY <1>1, <1>2, <1>12, <2>2 DEF WorkerDies, OnlyAt, AtWork
  <2>. QED  BY <2>3, <2>4, DeliveryElsewhere
<1>. QED  BY <1>5, <1>6, <1>7, <1>8, <1>9, <1>10, <1>11, <1>12 DEF Deliver, Attempt

\* Handing over messages that were not handed over before.
LEMMA DispatchStep ==
  ASSUME DeliveryInv, NEW M \in SUBSET Messages, \A m \in M : task[m].pc = "none",
         Dispatch(M), UNCHANGED <<log, mails, shaken>>
  PROVE  /\ DeliveryInv'
         /\ \A k \in Messages \ M : task'[k] = task[k]
         /\ \A k \in M : task'[k].pc # "none"
<1>. USE DeliveryAssumption
<1>1. /\ \A k \in Messages \ M : task'[k] = task[k]
      /\ \A k \in M : /\ task'[k].pc \in {"queued", "lost"}
                      /\ task'[k].retries = task[k].retries
      /\ task' \in [Messages -> [pc : {"none", "queued"} \cup AtWork \cup Ended,
                                 retries : 0..MaxRetries]]
  <2>1. CASE task' = Dispatched(task, M)
    BY <2>1 DEF Dispatched, DeliveryInv, DeliveryTypeOK
  <2>2. CASE task' = Swallowed(task, M)
    BY <2>2 DEF Swallowed, DeliveryInv, DeliveryTypeOK, Ended
  <2>. QED  BY <2>1, <2>2 DEF Dispatch
<1>2. faults' \in 0..MaxFaults
  BY DEF Dispatch, DeliveryInv, DeliveryTypeOK
<1>3. DeliveryTypeOK'
  BY <1>1, <1>2 DEF DeliveryInv, DeliveryTypeOK
<1>4. ASSUME NEW k \in Messages PROVE (NotBegun(k) /\ Counted(k) /\ Undisturbed(k))'
  <2>1. NotBegun(k) /\ Counted(k) /\ Undisturbed(k)
    BY DEF DeliveryInv
  <2>2. CASE k \notin M
    BY <1>1, <2>1, <2>2 DEF NotBegun, Counted, Undisturbed
  <2>3. CASE k \in M
    BY <1>1, <2>1, <2>3 DEF NotBegun, Counted, Undisturbed, NoLog
  <2>. QED  BY <2>2, <2>3
<1>. QED  BY <1>1, <1>3, <1>4 DEF DeliveryInv

\* The invariant says that the record can be trusted.
LEMMA DeliveryIsTruthful ==
  ASSUME DeliveryInv
  PROVE  LogIsTruthful
<1>. SUFFICES ASSUME NEW m \in Messages
              PROVE  /\ mails[m] <= log[m].attempts
                     /\ log[m].status = "sent" => mails[m] > 0
                     /\ m \notin shaken =>
                           /\ mails[m] <= 1
                           /\ log[m].status = "failed" /\ task[m].pc # "accepted" => mails[m] = 0
  BY DEF LogIsTruthful
<1>. QED  BY DEF DeliveryInv, Counted, Undisturbed

-----------------------------------------------------------------------------
(* Offboarding: facts about states.                                         *)

LEMMA LeftIsNothingLeftBehind ==
  ASSUME LeftInv, SeriesInv
  PROVE  NothingLeftBehind
<1>. SUFFICES ASSUME NEW u \in Users, users[u] = "deactivated"
              PROVE  /\ \A b \in BookingIds \ missed :
                           InTable(bookings[b]) /\ bookings[b].user = u =>
                               /\ bookings[b].status # "held"
                               /\ bookings[b].status = "confirmed" => Stays(bookings[b], u)
                     /\ entries[u] = "waiting" => u \in missed
                     /\ \A s \in Series \ missed : Entrusted(s, u) =>
                           task[s].pc # "none" \/ (job.pc = "callbacks" /\ s \in job.notes)
  BY DEF NothingLeftBehind, Entrusted
<1>1. \A b \in BookingIds \ missed : bookings[b].user = u =>
         /\ bookings[b].status # "held"
         /\ bookings[b].status = "confirmed" => Stays(bookings[b], u)
  BY DEF LeftInv
<1>2. entries[u] = "waiting" => u \in missed
  BY DEF LeftInv
<1>. QED  BY <1>1, <1>2 DEF SeriesInv

\* What the type says of a transaction at work.
LEMMA WorkingTypes ==
  ASSUME OffboardingTypeOK, Working
  PROVE  job \in Job
BY DEF OffboardingTypeOK, Working, Callbacks, Idle

LEMMA TableTypes ==
  ASSUME OffboardingTypeOK
  PROVE  /\ bookings \in Table
         /\ \A b \in BookingIds : bookings[b] \in Row \cup {Absent}
         /\ \A b \in BookingIds : InTable(bookings[b]) => bookings[b] \in Row
         /\ \A b \in BookingIds : bookings[b] = Absent => ~InTable(bookings[b])
<1>1. \A b \in BookingIds : bookings[b] \in Row \cup {Absent}
  BY DEF OffboardingTypeOK
<1>2. bookings \in Table
  BY DEF OffboardingTypeOK, Table
<1>3. ~InTable(Absent)
  BY DEF InTable, Absent
<1>. QED  BY <1>1, <1>2, <1>3

-----------------------------------------------------------------------------
(* Steps of everybody else.                                                 *)

\* What a step of anybody else may do to a row: nothing if it is locked; a row
\* stays whose it is; a booking or a hold that is new comes too late for a
\* transaction that has looked for it.
Touched(b) ==
    /\ Locked(b) => bookings'[b] = bookings[b]
    /\ InTable(bookings[b]) =>
          /\ InTable(bookings'[b])
          /\ bookings'[b].user = bookings[b].user
          /\ bookings'[b].resource = bookings[b].resource
          /\ bookings'[b].series = bookings[b].series
          /\ bookings'[b].range = bookings[b].range
          /\ bookings[b].status # "held" => bookings'[b].status # "held"
    /\ bookings[b].status = "cancelled" => bookings'[b].status = "cancelled"
    /\ bookings'[b].status = "confirmed" =>
          \/ bookings[b].status = "confirmed"
          \/ TooLate(bookings'[b].user, {"bookings"}) => b \in missed'
    /\ bookings'[b].status = "held" =>
          \/ bookings[b].status = "held"
          \/ TooLate(bookings'[b].user, {"bookings", "each_booking"}) => b \in missed'
    /\ offers'[b] = "active" <=> bookings'[b].status = "held"

Entered(u) ==
    entries'[u] = "waiting" =>
        \/ entries[u] = "waiting"
        \/ TooLate(u, {"bookings", "each_booking", "each_offer"}) => u \in missed'

ExternalStep ==
    /\ UNCHANGED <<users, job, task>>
    /\ missed \subseteq missed'
    /\ now' \in {now, now + 1}
    /\ \A b \in BookingIds : Touched(b)
    /\ \A u \in Users : Entered(u)

\* What may stay with a user may stay for good.
LEMMA StaysForGood ==
  ASSUME OffboardingTypeOK, now' \in {now, now + 1}, NEW u, NEW b \in BookingIds,
         InTable(bookings[b]), Stays(bookings[b], u),
         bookings'[b].resource = bookings[b].resource,
         bookings'[b].series = bookings[b].series,
         bookings'[b].range = bookings[b].range
  PROVE  Stays(bookings[b], u)'
<1>1. bookings[b] \in Row /\ now \in Nat
  BY TableTypes, TableAssumption DEF OffboardingTypeOK, Times
<1>2. bookings[b].range[1] \in Int
  BY <1>1 DEF Row, Held, Settled, Range
<1>3. bookings[b].range[1] < now => bookings'[b].range[1] < now'
  BY <1>1, <1>2
<1>. QED  BY <1>3 DEF Stays

\* Such a step keeps what the transaction and its messages rest on.
LEMMA ExternalKeeps ==
  ASSUME IInv, ExternalStep
  PROVE  TableInv'
<1>. USE DEF ExternalStep
<1>1. ToldInv /\ JobInv /\ HoldInv /\ DecidedInv /\ LeftInv /\ SeriesInv /\ OffboardingTypeOK
  BY DEF IInv, TableInv
<1>2. Working' = Working
  BY DEF Working
<1>3. \A m \in Messages \ Series : m \in BookingIds
  BY OffboardingAssumption
<1>4. ToldInv'
  <2>1. ASSUME NEW m \in Messages, Told(m) PROVE Told(m)'
    BY <1>3, <2>1 DEF Told, Touched, InTable
  <2>2. ASSUME Working, NEW m \in job.notes, m \in Messages, WillBeTrue(m)
        PROVE  WillBeTrue(m)'
    <3>1. m \in job.cancelled => Locked(m)
      BY <2>2 DEF Locked, Working
    <3>. QED  BY <1>3, <2>2, <3>1 DEF WillBeTrue, Touched
  <2>3. job.pc = "callbacks" \/ Working => job.notes \subseteq Messages
    BY <1>1 DEF OffboardingTypeOK, Working, Job, Callbacks, Idle
  <2>. QED  BY <1>1, <1>2, <2>1, <2>2, <2>3 DEF ToldInv
<1>5. JobInv'
  <2>. SUFFICES ASSUME Working PROVE JobInv'
    BY <1>2 DEF JobInv
  <2>1. job \in Job
    BY <1>1, WorkingTypes
  <2>2. \A b \in job.moved \cup job.cancelled \cup job.declined : bookings'[b] = bookings[b]
    BY <2>1 DEF Job, Touched, Locked, Working
  <2>3. job.todo \subseteq BookingIds
    BY <2>1 DEF Job
  <2>4. job.at <= now'
    BY <1>1, <2>1 DEF JobInv, Job, OffboardingTypeOK, Times
  <2>. QED  BY <1>1, <1>2, <2>2, <2>3, <2>4 DEF JobInv, Touched, InTable
<1>6. HoldInv'
  BY DEF HoldInv, Touched
<1>7. DecidedInv'
  <2>. SUFFICES ASSUME Working PROVE DecidedInv'
    BY <1>2 DEF DecidedInv, Working
  <2>1. job \in Job
    BY <1>1, WorkingTypes
  <2>2. ASSUME job.pc # "bookings", NEW b \in BookingIds \ missed',
               bookings'[b].status = "confirmed", bookings'[b].user = job.target
        PROVE  \/ job.pc = "each_booking" /\ b \in job.todo
               \/ b \in job.moved \cup job.cancelled
               \/ Stays(bookings[b], job.target)'
    <3>1. TooLate(job.target, {"bookings"})
      BY <2>2 DEF TooLate, Open, Working
    <3>2. /\ bookings[b].status = "confirmed"
          /\ bookings[b].user = job.target
          /\ bookings'[b].resource = bookings[b].resource
          /\ bookings'[b].series = bookings[b].series
          /\ bookings'[b].range = bookings[b].range
          /\ InTable(bookings[b])
      BY <2>2, <3>1 DEF Touched, InTable
    <3>3. Stays(bookings[b], job.target) => Stays(bookings[b], job.target)'
      BY <1>1, <3>2, StaysForGood
    <3>. QED  BY <1>1, <2>2, <3>2, <3>3 DEF DecidedInv
  <2>3. ASSUME job.pc \notin {"bookings", "each_booking"}, NEW b \in BookingIds \ missed',
               bookings'[b].status = "held", bookings'[b].user = job.target
        PROVE  (job.pc = "each_offer" /\ b \in job.todo) \/ b \in job.declined
    <3>1. TooLate(job.target, {"bookings", "each_booking"})
      BY <2>3 DEF TooLate, Open, Working
    <3>2. bookings[b].status = "held" /\ bookings[b].user = job.target
      BY <2>3, <3>1 DEF Touched, InTable
    <3>. QED  BY <1>1, <2>3, <3>2 DEF DecidedInv
  <2>4. ASSUME job.pc \in {"series", "commit"}, entries'[job.target] = "waiting"
        PROVE  job.target \in missed' \cup job.withdrawn
    <3>1. TooLate(job.target, {"bookings", "each_booking", "each_offer"})
      BY <2>4 DEF TooLate, Open, Working
    <3>2. job.target \in Users
      BY <2>1 DEF Job
    <3>. QED  BY <1>1, <2>4, <3>1, <3>2 DEF DecidedInv, Entered
  <2>. QED  BY <2>2, <2>3, <2>4 DEF DecidedInv
<1>8. LeftInv'
  <2>. SUFFICES ASSUME NEW u \in Users, users[u] = "deactivated"
                PROVE  /\ \A b \in BookingIds \ missed' :
                             (bookings'[b].status \in {"held", "confirmed"} /\ bookings'[b].user = u) =>
                                bookings'[b].status = "confirmed" /\ Stays(bookings[b], u)'
                       /\ entries'[u] = "waiting" => u \in missed'
    BY DEF LeftInv
  <2>1. \A pcs : TooLate(u, pcs)
    BY DEF TooLate
  <2>2. ASSUME NEW b \in BookingIds \ missed',
               bookings'[b].status \in {"held", "confirmed"}, bookings'[b].user = u
        PROVE  bookings'[b].status = "confirmed" /\ Stays(bookings[b], u)'
    <3>1. /\ bookings[b].status = bookings'[b].status
          /\ bookings[b].user = u
          /\ bookings'[b].resource = bookings[b].resource
          /\ bookings'[b].series = bookings[b].series
          /\ bookings'[b].range = bookings[b].range
          /\ InTable(bookings[b])
      BY <2>1, <2>2 DEF Touched, InTable
    <3>2. bookings[b].status = "confirmed" /\ Stays(bookings[b], u)
      BY <1>1, <2>2, <3>1 DEF LeftInv
    <3>. QED  BY <1>1, <3>1, <3>2, StaysForGood
  <2>3. entries'[u] = "waiting" => u \in missed'
    BY <1>1, <2>1 DEF LeftInv, Entered
  <2>. QED  BY <2>2, <2>3
<1>9. SeriesInv'
  BY <1>1 DEF SeriesInv, SeriesFlagged, Entrusted
<1>. QED  BY <1>4, <1>5, <1>6, <1>7, <1>8, <1>9 DEF TableInv

\* A step that leaves rows, offers and entries alone is one of them.
LEMMA NothingTouched ==
  ASSUME IInv, UNCHANGED <<users, job, task, missed, bookings, offers, entries>>,
         now' \in {now, now + 1}
  PROVE  ExternalStep
<1>1. \A b \in BookingIds : Touched(b)
  BY DEF IInv, TableInv, HoldInv, Touched
<1>2. \A u \in Users : Entered(u)
  BY DEF Entered
<1>. QED  BY <1>1, <1>2 DEF ExternalStep

\* One row is touched, and the entry of one user may be set.
LEMMA OneTouched ==
  ASSUME IInv, UNCHANGED <<users, job, task, now>>, missed \subseteq missed',
         NEW b \in BookingIds, Touched(b),
         \A c \in BookingIds \ {b} : bookings'[c] = bookings[c] /\ offers'[c] = offers[c],
         \A u \in Users : entries'[u] # "waiting" \/ entries'[u] = entries[u]
  PROVE  ExternalStep
<1>1. \A c \in BookingIds \ {b} : Touched(c)
  BY DEF IInv, TableInv, HoldInv, Touched
<1>2. \A u \in Users : Entered(u)
  BY DEF Entered
<1>. QED  BY <1>1, <1>2 DEF ExternalStep

LEMMA BookStep ==
  ASSUME IInv, NEW u \in Users, NEW r \in Resources, NEW s \in Series \cup {NoSeries},
         Book(u, r, s)
  PROVE  OffboardingTypeOK' /\ ExternalStep
<1>. DEFINE row == NewRow(r, u, Slot, s, "confirmed", now)
<1>1. OffboardingTypeOK /\ HoldInv
  BY DEF IInv, TableInv
<1>2. PICK b \in FreshIds(bookings) : bookings' = [bookings EXCEPT ![b] = row] /\ Came(b, u, {"bookings"})
  BY DEF Book
<1>3. row \in Row /\ row.status = "confirmed" /\ row.user = u
  <2>1. now \in Times /\ Slot \in Range
    BY <1>1, OffboardingAssumption DEF OffboardingTypeOK
  <2>. QED  BY <2>1, NewRowIsRow DEF NewRow
<1>. HIDE DEF row
<1>4. b \in BookingIds /\ bookings[b] = Absent
  BY <1>2 DEF FreshIds
<1>5. /\ bookings' \in [BookingIds -> Row \cup {Absent}]
      /\ bookings'[b] = row
      /\ \A c \in BookingIds \ {b} : bookings'[c] = bookings[c]
  BY <1>1, <1>2, <1>3, <1>4 DEF OffboardingTypeOK
<1>6. missed' \subseteq BookingIds \cup Users \cup Series /\ missed \subseteq missed'
  BY <1>1, <1>2, <1>4 DEF Came, OffboardingTypeOK
<1>7. OffboardingTypeOK'
  BY <1>1, <1>5, <1>6 DEF Book, OffboardingTypeOK, deliveryVars, DeliveryTypeOK
<1>8. Touched(b)
  <2>1. ~Locked(b)
    <3>1. Locked(b) => InTable(bookings[b])
      BY DEF IInv, TableInv, JobInv, Locked, Working, InTable
    <3>. QED  BY <1>4, <3>1 DEF InTable, Absent
  <2>2. TooLate(u, {"bookings"}) => b \in missed'
    BY <1>2 DEF Came
  <2>. QED  BY <1>1, <1>3, <1>4, <1>5, <2>1, <2>2 DEF Touched, InTable, Absent, Book, HoldInv
<1>. QED  BY <1>4, <1>5, <1>6, <1>7, <1>8, OneTouched DEF Book, deliveryVars

LEMMA MakeOfferStep ==
  ASSUME IInv, NEW u \in Users, MakeOffer(u)
  PROVE  OffboardingTypeOK' /\ ExternalStep
<1>. DEFINE row == NewRow(Wanted, u, Slot, NoSeries, "held", now)
<1>1. OffboardingTypeOK /\ HoldInv
  BY DEF IInv, TableInv
<1>2. PICK b \in FreshIds(bookings) : /\ bookings' = [bookings EXCEPT ![b] = row]
                                      /\ offers' = [offers EXCEPT ![b] = "active"]
                                      /\ Came(b, u, {"bookings", "each_booking"})
  BY DEF MakeOffer
<1>3. row \in Row /\ row.status = "held" /\ row.user = u
  <2>1. now \in Times /\ Slot \in Range /\ Wanted \in Resources
    BY <1>1, OffboardingAssumption DEF OffboardingTypeOK
  <2>. QED  BY <2>1, NewRowIsRow DEF NewRow
<1>. HIDE DEF row
<1>4. b \in BookingIds /\ bookings[b] = Absent
  BY <1>2 DEF FreshIds
<1>5. /\ bookings' \in [BookingIds -> Row \cup {Absent}]
      /\ bookings'[b] = row
      /\ \A c \in BookingIds \ {b} : bookings'[c] = bookings[c]
  BY <1>1, <1>2, <1>3, <1>4 DEF OffboardingTypeOK
<1>6. /\ offers' \in [BookingIds -> {"none", "active", "confirmed", "declined", "expired"}]
      /\ offers'[b] = "active"
      /\ \A c \in BookingIds \ {b} : offers'[c] = offers[c]
  BY <1>1, <1>2, <1>4 DEF OffboardingTypeOK
<1>7. /\ entries' \in [Users -> {"none", "waiting", "offered", "fulfilled", "expired", "cancelled"}]
      /\ \A v \in Users : entries'[v] # "waiting" \/ entries'[v] = entries[v]
  BY <1>1 DEF OffboardingTypeOK, MakeOffer
<1>8. missed' \subseteq BookingIds \cup Users \cup Series /\ missed \subseteq missed'
  BY <1>1, <1>2, <1>4 DEF Came, OffboardingTypeOK
<1>9. OffboardingTypeOK'
  <2>1. worker' \in [step : {"off", "called", "offering"}, list : SUBSET Users]
    BY DEF MakeOffer, Off
  <2>. QED  BY <1>1, <1>5, <1>6, <1>7, <1>8, <2>1 DEF MakeOffer, OffboardingTypeOK, deliveryVars, DeliveryTypeOK
<1>10. Touched(b)
  <2>1. ~Locked(b)
    <3>1. Locked(b) => InTable(bookings[b])
      BY DEF IInv, TableInv, JobInv, Locked, Working, InTable
    <3>. QED  BY <1>4, <3>1 DEF InTable, Absent
  <2>2. TooLate(u, {"bookings", "each_booking"}) => b \in missed'
    BY <1>2 DEF Came
  <2>. QED  BY <1>3, <1>4, <1>5, <1>6, <2>1, <2>2 DEF Touched, InTable, Absent
<1>. QED  BY <1>4, <1>5, <1>6, <1>7, <1>8, <1>9, <1>10, OneTouched DEF MakeOffer, deliveryVars

LEMMA JoinStep ==
  ASSUME IInv, NEW u \in Users, Join(u)
  PROVE  OffboardingTypeOK' /\ ExternalStep
<1>1. OffboardingTypeOK /\ HoldInv
  BY DEF IInv, TableInv
<1>2. missed' \subseteq BookingIds \cup Users \cup Series /\ missed \subseteq missed'
  BY <1>1 DEF Join, Came, OffboardingTypeOK
<1>3. OffboardingTypeOK'
  BY <1>1, <1>2 DEF Join, OffboardingTypeOK, deliveryVars, DeliveryTypeOK
<1>4. \A b \in BookingIds : Touched(b)
  BY <1>1 DEF Join, HoldInv, Touched
<1>5. \A v \in Users : Entered(v)
  BY <1>1 DEF Join, Came, Entered, OffboardingTypeOK
<1>. QED  BY <1>2, <1>3, <1>4, <1>5 DEF Join, ExternalStep, deliveryVars

LEMMA CancelOwnStep ==
  ASSUME IInv, NEW u \in Users, NEW b \in BookingIds, CancelOwn(u, b)
  PROVE  OffboardingTypeOK' /\ ExternalStep
<1>1. OffboardingTypeOK /\ HoldInv
  BY DEF IInv, TableInv
<1>2. bookings \in Table /\ bookings[b] \in Row /\ bookings[b].status = "confirmed"
  BY <1>1, TableTypes DEF CancelOwn, InTable
<1>3. /\ bookings'[b] \in Row
      /\ bookings'[b] = [bookings[b] EXCEPT !.status = "cancelled"]
      /\ \A c \in BookingIds \ {b} : bookings'[c] = bookings[c]
  BY <1>2, CancelledTable DEF CancelOwn, AfterCancel
<1>4. bookings' \in [BookingIds -> Row \cup {Absent}]
  BY <1>1, <1>3 DEF CancelOwn, AfterCancel, OffboardingTypeOK
<1>5. worker' \in [step : {"off", "called", "offering"}, list : SUBSET Users]
  BY <1>1 DEF CancelOwn, Called, Off, OffboardingTypeOK
<1>6. OffboardingTypeOK'
  BY <1>1, <1>4, <1>5 DEF CancelOwn, OffboardingTypeOK, deliveryVars, DeliveryTypeOK
<1>7. Touched(b)
  <2>1. /\ bookings'[b].status = "cancelled"
        /\ bookings'[b].user = bookings[b].user
        /\ bookings'[b].resource = bookings[b].resource
        /\ bookings'[b].series = bookings[b].series
        /\ bookings'[b].range = bookings[b].range
    BY <1>2, <1>3 DEF Row, Held, Settled
  <2>. QED  BY <1>1, <1>2, <2>1 DEF CancelOwn, Touched, InTable, HoldInv
<1>. QED  BY <1>3, <1>6, <1>7, OneTouched DEF CancelOwn, deliveryVars

\* What a hold becomes when it is accepted or released.
LEMMA HoldEnds ==
  ASSUME OffboardingTypeOK, NEW b \in BookingIds, bookings[b].status = "held",
         NEW st \in {"confirmed", "cancelled"},
         bookings' = [bookings EXCEPT ![b] = [@ EXCEPT !.status = st, !.expires = NoExpiry]]
  PROVE  /\ bookings' \in [BookingIds -> Row \cup {Absent}]
         /\ \A c \in BookingIds \ {b} : bookings'[c] = bookings[c]
         /\ InTable(bookings[b])
         /\ bookings[b].user \in Users
         /\ bookings'[b].status = st
         /\ bookings'[b].user = bookings[b].user
         /\ bookings'[b].resource = bookings[b].resource
         /\ bookings'[b].series = bookings[b].series
         /\ bookings'[b].range = bookings[b].range
<1>1. bookings[b] \in Row
  BY TableTypes DEF InTable
<1>2. bookings'[b] = [bookings[b] EXCEPT !.status = st, !.expires = NoExpiry]
  BY DEF OffboardingTypeOK
<1>3. bookings'[b] \in Row
  BY <1>1, <1>2, SettledAfterHeld
<1>4. \A c \in BookingIds \ {b} : bookings'[c] = bookings[c]
  BY DEF OffboardingTypeOK
<1>5. bookings' \in [BookingIds -> Row \cup {Absent}]
  BY <1>1, SettledAfterHeld DEF OffboardingTypeOK
<1>. QED  BY <1>1, <1>2, <1>4, <1>5 DEF InTable, Row, Held, Settled

LEMMA AcceptStep ==
  ASSUME IInv, NEW u \in Users, NEW b \in BookingIds, Accept(u, b)
  PROVE  OffboardingTypeOK' /\ ExternalStep
<1>1. OffboardingTypeOK /\ HoldInv
  BY DEF IInv, TableInv
<1>2. /\ bookings' \in [BookingIds -> Row \cup {Absent}]
      /\ \A c \in BookingIds \ {b} : bookings'[c] = bookings[c]
      /\ InTable(bookings[b])
      /\ bookings'[b].status = "confirmed"
      /\ bookings'[b].user = bookings[b].user
      /\ bookings'[b].resource = bookings[b].resource
      /\ bookings'[b].series = bookings[b].series
      /\ bookings'[b].range = bookings[b].range
  BY <1>1, HoldEnds DEF Accept, AfterAccept
<1>3. /\ offers' \in [BookingIds -> {"none", "active", "confirmed", "declined", "expired"}]
      /\ offers'[b] = "confirmed"
      /\ \A c \in BookingIds \ {b} : offers'[c] = offers[c]
  BY <1>1 DEF Accept, OffboardingTypeOK
<1>4. /\ entries' \in [Users -> {"none", "waiting", "offered", "fulfilled", "expired", "cancelled"}]
      /\ \A v \in Users : entries'[v] # "waiting" \/ entries'[v] = entries[v]
  BY <1>1 DEF Accept, OffboardingTypeOK
<1>5. missed' \subseteq BookingIds \cup Users \cup Series /\ missed \subseteq missed'
  BY <1>1 DEF Accept, Came, OffboardingTypeOK
<1>6. OffboardingTypeOK'
  BY <1>1, <1>2, <1>3, <1>4, <1>5 DEF Accept, OffboardingTypeOK, deliveryVars, DeliveryTypeOK
<1>7. Touched(b)
  <2>1. TooLate(u, {"bookings"}) => b \in missed'
    BY DEF Accept, Came
  <2>. QED  BY <1>2, <1>3, <2>1 DEF Accept, Touched, InTable
<1>. QED  BY <1>2, <1>3, <1>4, <1>5, <1>6, <1>7, OneTouched DEF Accept, deliveryVars

LEMMA SweepStep ==
  ASSUME IInv, NEW b \in BookingIds, Sweep(b)
  PROVE  OffboardingTypeOK' /\ ExternalStep
<1>1. OffboardingTypeOK /\ HoldInv
  BY DEF IInv, TableInv
<1>2. /\ bookings' \in [BookingIds -> Row \cup {Absent}]
      /\ \A c \in BookingIds \ {b} : bookings'[c] = bookings[c]
      /\ InTable(bookings[b])
      /\ bookings[b].user \in Users
      /\ bookings'[b].status = "cancelled"
      /\ bookings'[b].user = bookings[b].user
      /\ bookings'[b].resource = bookings[b].resource
      /\ bookings'[b].series = bookings[b].series
      /\ bookings'[b].range = bookings[b].range
  BY <1>1, HoldEnds DEF Sweep, Lapsed, AfterRelease
<1>3. /\ offers' \in [BookingIds -> {"none", "active", "confirmed", "declined", "expired"}]
      /\ offers'[b] = "expired"
      /\ \A c \in BookingIds \ {b} : offers'[c] = offers[c]
  BY <1>1 DEF Sweep, OffboardingTypeOK
<1>4. /\ entries' \in [Users -> {"none", "waiting", "offered", "fulfilled", "expired", "cancelled"}]
      /\ \A v \in Users : entries'[v] # "waiting" \/ entries'[v] = entries[v]
  BY <1>1, <1>2 DEF Sweep, OffboardingTypeOK
<1>5. worker' \in [step : {"off", "called", "offering"}, list : SUBSET Users]
  BY <1>1 DEF Sweep, Called, Off, OffboardingTypeOK
<1>6. OffboardingTypeOK'
  BY <1>1, <1>2, <1>3, <1>4, <1>5 DEF Sweep, OffboardingTypeOK, deliveryVars, DeliveryTypeOK
<1>7. Touched(b)
  BY <1>2, <1>3 DEF Sweep, Touched, InTable
<1>. QED  BY <1>2, <1>3, <1>4, <1>6, <1>7, OneTouched DEF Sweep, deliveryVars

\* Steps of everybody else that touch no row.
LEMMA QuietStep ==
  ASSUME IInv,
         \/ \E u \in Callers : Enter(u)
         \/ ReadCandidates
         \/ EndCascade
         \/ Tick
  PROVE  OffboardingTypeOK' /\ ExternalStep
<1>1. OffboardingTypeOK
  BY DEF IInv
<1>2. CASE \E u \in Callers : Enter(u)
  <2>1. PICK u \in Callers : Enter(u)
    BY <1>2
  <2>2. u \in Users
    BY OffboardingAssumption
  <2>3. OffboardingTypeOK'
    BY <1>1, <2>1, <2>2 DEF Enter, OffboardingTypeOK, tableVars, deliveryVars, DeliveryTypeOK
  <2>. QED  BY <2>1, <2>3, NothingTouched DEF Enter, tableVars, deliveryVars
<1>3. CASE ReadCandidates
  <2>1. worker' \in [step : {"off", "called", "offering"}, list : SUBSET Users]
    BY <1>3 DEF ReadCandidates
  <2>2. OffboardingTypeOK'
    BY <1>1, <1>3, <2>1 DEF ReadCandidates, OffboardingTypeOK, tableVars, deliveryVars, DeliveryTypeOK
  <2>. QED  BY <1>3, <2>2, NothingTouched DEF ReadCandidates, tableVars, deliveryVars
<1>4. CASE EndCascade
  <2>1. worker' \in [step : {"off", "called", "offering"}, list : SUBSET Users]
    BY <1>4 DEF EndCascade, Off
  <2>2. OffboardingTypeOK'
    BY <1>1, <1>4, <2>1 DEF EndCascade, OffboardingTypeOK, tableVars, deliveryVars, DeliveryTypeOK
  <2>. QED  BY <1>4, <2>2, NothingTouched DEF EndCascade, tableVars, deliveryVars
<1>5. CASE Tick
  <2>1. now' \in Times
    BY <1>1, <1>5, TableAssumption DEF Tick, OffboardingTypeOK, Times
  <2>2. OffboardingTypeOK'
    BY <1>1, <1>5, <2>1 DEF Tick, OffboardingTypeOK, tableVars, deliveryVars, DeliveryTypeOK
  <2>. QED  BY <1>5, <2>2, NothingTouched DEF Tick, tableVars, deliveryVars
<1>. QED  BY <1>2, <1>3, <1>4, <1>5

-----------------------------------------------------------------------------
(* Steps of the transaction.                                                *)

LEMMA DeliveryStutters ==
  ASSUME DeliveryInv, UNCHANGED deliveryVars
  PROVE  DeliveryInv'
BY DEF DeliveryInv, DeliveryTypeOK, deliveryVars, NotBegun, Counted, Undisturbed

\* A step that changes the transaction's own variables only keeps the rest; what
\* it does to them is left to its lemma.
LEMMA PrivateStep ==
  ASSUME IInv, UNCHANGED <<tableVars, inside, worker, now, missed, deliveryVars>>,
         job' \in Job \cup Callbacks \cup {Idle},
         JobInv', DecidedInv', SeriesFlagged',
         Working' => \A m \in job'.notes :
                        task[m].pc = "none" /\ WillBeTrue(m)',
         job.pc # "callbacks", job'.pc # "callbacks"
  PROVE  IInv'
<1>1. OffboardingTypeOK /\ ToldInv /\ HoldInv /\ LeftInv /\ SeriesInv /\ DeliveryInv
  BY DEF IInv, TableInv
<1>2. DeliveryInv'
  BY <1>1, DeliveryStutters
<1>3. OffboardingTypeOK'
  BY <1>1, <1>2 DEF OffboardingTypeOK, tableVars, DeliveryInv
<1>4. HoldInv' /\ LeftInv'
  BY <1>1 DEF HoldInv, LeftInv, Stays, tableVars
<1>5. ToldInv'
  BY <1>1 DEF ToldInv, Told, tableVars, deliveryVars
<1>6. SeriesInv'
  BY <1>1 DEF SeriesInv, Entrusted, tableVars, deliveryVars
<1>. QED  BY <1>2, <1>3, <1>4, <1>5, <1>6 DEF IInv, TableInv

LEMMA FlipStep ==
  ASSUME IInv, NEW u \in Targets, Flip(u)
  PROVE  IInv'
<1>1. u \in Users
  BY OffboardingAssumption
<1>2. job' = [pc |-> "bookings", target |-> u, at |-> now, todo |-> {}, moved |-> {}, cancelled |-> {},
              declined |-> {}, withdrawn |-> {}, notes |-> {}]
  BY DEF Flip, StartJob
<1>3. job' \in Job /\ now \in Nat
  BY <1>1, <1>2, TableAssumption DEF Job, IInv, OffboardingTypeOK, Times
<1>4. JobInv'
  BY <1>2, <1>3 DEF Flip, JobInv, tableVars
<1>5. DecidedInv' /\ SeriesFlagged'
  BY <1>2 DEF DecidedInv, SeriesFlagged
<1>. QED  BY <1>2, <1>3, <1>4, <1>5, PrivateStep DEF Flip, Idle

LEMMA ReadBookingsStep ==
  ASSUME IInv, ReadBookings
  PROVE  IInv'
<1>. DEFINE found == {b \in BookingIds : /\ InTable(bookings[b])
                                         /\ bookings[b].status = "confirmed"
                                         /\ bookings[b].user = job.target
                                         /\ bookings[b].series = NoSeries
                                         /\ bookings[b].range[1] >= job.at}
<1>1. OffboardingTypeOK /\ ToldInv /\ JobInv
  BY DEF IInv, TableInv
<1>2. Working /\ job \in Job
  BY <1>1, WorkingTypes DEF ReadBookings, Working
<1>3. job' = [job EXCEPT !.pc = "each_booking", !.todo = found]
  BY DEF ReadBookings
<1>4. \A b \in BookingIds : b \in found <=>
         /\ InTable(bookings[b])
         /\ bookings[b].status = "confirmed"
         /\ bookings[b].user = job.target
         /\ bookings[b].series = NoSeries
         /\ bookings[b].range[1] >= job.at
  OBVIOUS
<1>5. found \in SUBSET BookingIds
  OBVIOUS
<1>. HIDE DEF found
<1>6. job' \in Job
  BY <1>2, <1>3, <1>5 DEF Job
<1>7. /\ job'.pc = "each_booking" /\ job'.todo = found /\ job'.target = job.target
      /\ job'.at = job.at /\ job'.moved = job.moved /\ job'.cancelled = job.cancelled
      /\ job'.declined = job.declined /\ job'.notes = job.notes
  BY <1>2, <1>3 DEF Job
<1>8. JobInv'
  BY <1>1, <1>2, <1>4, <1>5, <1>7 DEF ReadBookings, JobInv, tableVars, Working
<1>9. DecidedInv'
  <2>1. ASSUME NEW b \in BookingIds, bookings[b].status = "confirmed", bookings[b].user = job.target,
               b \notin found
        PROVE  Stays(bookings[b], job.target)
    <3>1. bookings[b] \in Row /\ InTable(bookings[b])
      BY <1>1, <2>1, TableTypes DEF InTable
    <3>2. /\ bookings[b].range[1] \in Int /\ now \in Int
          /\ job.at \in Int /\ job.at <= now
      BY <1>1, <1>2, <3>1, TableAssumption
         DEF Row, Held, Settled, Range, JobInv, Job, OffboardingTypeOK, Times
    <3>3. bookings[b].series # NoSeries \/ bookings[b].range[1] < now
      BY <1>4, <2>1, <3>1, <3>2
    <3>. QED  BY <3>3 DEF Stays
  <2>. QED  BY <1>7, <2>1 DEF ReadBookings, DecidedInv, Stays, tableVars
<1>10. \A m \in job'.notes : task[m].pc = "none" /\ WillBeTrue(m)'
  BY <1>1, <1>2, <1>7 DEF ReadBookings, ToldInv, WillBeTrue, tableVars
<1>. QED  BY <1>6, <1>7, <1>8, <1>9, <1>10, PrivateStep DEF ReadBookings, SeriesFlagged

LEMMA ApplyPolicyStep ==
  ASSUME IInv, NEW b \in BookingIds, ApplyPolicy(b)
  PROVE  IInv'
<1>. DEFINE policy == Policy[bookings[b].resource]
            give   == policy = "transfer" /\ Heir(bookings[b].resource) # {}
            notify == policy = "cancel_and_notify"
            still  == bookings[b].status = "confirmed"
            moved  == IF give THEN job.moved \cup {b} ELSE job.moved
            cancelled == IF notify /\ still THEN job.cancelled \cup {b} ELSE job.cancelled
            notes  == IF notify THEN job.notes \cup {b} ELSE job.notes
<1>1. OffboardingTypeOK /\ ToldInv /\ JobInv /\ DecidedInv
  BY DEF IInv, TableInv
<1>2. Working /\ job \in Job /\ job.pc = "each_booking" /\ b \in job.todo
  BY <1>1, WorkingTypes DEF ApplyPolicy, Working
<1>3. /\ InTable(bookings[b])
      /\ bookings[b].user = job.target
      /\ bookings[b].status \in {"confirmed", "cancelled"}
      /\ bookings[b].resource \in Resources
      /\ users[job.target] = "active"
  <2>1. InTable(bookings[b]) /\ bookings[b].user = job.target /\ bookings[b].status # "held"
    BY <1>1, <1>2 DEF JobInv
  <2>2. bookings[b] \in Row
    BY <1>1, <2>1, TableTypes
  <2>. QED  BY <1>1, <1>2, <2>1, <2>2 DEF JobInv, InTable, Row, Held, Settled
<1>4. policy \in {"transfer", "cancel_and_notify", "retain"}
  BY <1>3, OffboardingAssumption
<1>5. job' = [job EXCEPT !.todo = job.todo \ {b}, !.moved = moved,
                         !.cancelled = cancelled, !.notes = notes]
  BY <1>2 DEF ApplyPolicy, Job
<1>6. /\ moved \in SUBSET BookingIds /\ cancelled \in SUBSET BookingIds
      /\ notes \in SUBSET Messages
  BY <1>2, OffboardingAssumption DEF Job
<1>7. /\ \A c : c \in moved <=> c \in job.moved \/ (c = b /\ give)
      /\ \A c : c \in cancelled <=> c \in job.cancelled \/ (c = b /\ notify /\ still)
      /\ \A c : c \in notes <=> c \in job.notes \/ (c = b /\ notify)
  OBVIOUS
<1>. HIDE DEF moved, cancelled, notes
<1>8. job' \in Job
  BY <1>2, <1>5, <1>6 DEF Job
<1>9. /\ job'.pc = "each_booking" /\ job'.todo = job.todo \ {b} /\ job'.target = job.target
      /\ job'.at = job.at /\ job'.moved = moved /\ job'.cancelled = cancelled
      /\ job'.declined = job.declined /\ job'.notes = notes
  BY <1>2, <1>5 DEF Job
<1>10. JobInv'
  <2>1. \A c \in moved : /\ bookings[c].status \in {"confirmed", "cancelled"}
                         /\ bookings[c].user = job.target
                         /\ Policy[bookings[c].resource] = "transfer"
                         /\ Heir(bookings[c].resource) # {}
    BY <1>1, <1>2, <1>3, <1>7 DEF JobInv
  <2>2. \A c \in cancelled : /\ bookings[c].status = "confirmed"
                             /\ bookings[c].user = job.target
                             /\ Policy[bookings[c].resource] = "cancel_and_notify"
    BY <1>1, <1>2, <1>3, <1>7 DEF JobInv
  <2>. QED  BY <1>1, <1>2, <1>9, <2>1, <2>2 DEF ApplyPolicy, JobInv, tableVars
<1>11. DecidedInv'
  <2>1. ASSUME NEW c \in BookingIds \ missed,
               bookings[c].status = "confirmed", bookings[c].user = job.target
        PROVE  c \in job.todo \ {b} \/ c \in moved \cup cancelled \/ Stays(bookings[c], job.target)
    <3>1. CASE c = b
      <4>1. CASE policy = "transfer"
        BY <1>7, <3>1, <4>1 DEF Stays
      <4>2. CASE policy = "cancel_and_notify"
        BY <1>7, <2>1, <3>1, <4>2
      <4>3. CASE policy = "retain"
        BY <3>1, <4>3 DEF Stays
      <4>. QED  BY <1>4, <4>1, <4>2, <4>3
    <3>2. CASE c # b
      BY <1>1, <1>2, <1>7, <2>1, <3>2 DEF DecidedInv
    <3>. QED  BY <3>1, <3>2
  <2>. QED  BY <1>9, <2>1 DEF ApplyPolicy, DecidedInv, Stays, tableVars
<1>12. \A m \in job'.notes : task[m].pc = "none" /\ WillBeTrue(m)'
  <2>1. ASSUME NEW m \in job.notes
        PROVE  task[m].pc = "none" /\ WillBeTrue(m)'
    BY <1>1, <1>2, <1>7, <1>9, <2>1 DEF ApplyPolicy, ToldInv, WillBeTrue, tableVars
  <2>2. ASSUME notify
        PROVE  task[b].pc = "none" /\ WillBeTrue(b)'
    <3>1. b \in Messages /\ b \notin Series
      BY OffboardingAssumption
    <3>2. task[b].pc = "none"
      BY <1>1, <1>3, <3>1 DEF ToldInv, Told
    <3>3. b \in cancelled \/ bookings[b].status = "cancelled"
      BY <1>3, <1>7, <2>2
    <3>. QED  BY <1>3, <1>9, <2>2, <3>1, <3>2, <3>3 DEF ApplyPolicy, WillBeTrue, tableVars
  <2>. QED  BY <1>7, <1>9, <2>1, <2>2
<1>. QED  BY <1>8, <1>9, <1>10, <1>11, <1>12, PrivateStep DEF ApplyPolicy, SeriesFlagged

LEMMA ReadOffersStep ==
  ASSUME IInv, ReadOffers
  PROVE  IInv'
<1>. DEFINE found == {b \in BookingIds : /\ offers[b] = "active"
                                         /\ bookings[b].user = job.target}
<1>1. OffboardingTypeOK /\ ToldInv /\ JobInv /\ DecidedInv /\ HoldInv
  BY DEF IInv, TableInv
<1>2. Working /\ job \in Job /\ job.pc = "each_booking" /\ job.todo = {}
  BY <1>1, WorkingTypes DEF ReadOffers, Working
<1>3. job' = [job EXCEPT !.pc = "each_offer", !.todo = found]
  BY DEF ReadOffers
<1>4. \A b \in BookingIds : b \in found <=>
         bookings[b].status = "held" /\ bookings[b].user = job.target
  BY <1>1 DEF HoldInv
<1>5. found \in SUBSET BookingIds
  OBVIOUS
<1>. HIDE DEF found
<1>6. job' \in Job
  BY <1>2, <1>3, <1>5 DEF Job
<1>7. /\ job'.pc = "each_offer" /\ job'.todo = found /\ job'.target = job.target
      /\ job'.at = job.at /\ job'.moved = job.moved /\ job'.cancelled = job.cancelled
      /\ job'.declined = job.declined /\ job'.notes = job.notes
  BY <1>2, <1>3 DEF Job
<1>8. JobInv'
  BY <1>1, <1>2, <1>4, <1>5, <1>7 DEF ReadOffers, JobInv, tableVars, Working, InTable
<1>9. DecidedInv'
  BY <1>1, <1>2, <1>4, <1>7 DEF ReadOffers, DecidedInv, Stays, tableVars
<1>10. \A m \in job'.notes : task[m].pc = "none" /\ WillBeTrue(m)'
  BY <1>1, <1>2, <1>7 DEF ReadOffers, ToldInv, WillBeTrue, tableVars
<1>. QED  BY <1>6, <1>7, <1>8, <1>9, <1>10, PrivateStep DEF ReadOffers, SeriesFlagged

LEMMA DeclineStep ==
  ASSUME IInv, NEW b \in BookingIds, Decline(b)
  PROVE  IInv'
<1>1. OffboardingTypeOK /\ ToldInv /\ JobInv /\ DecidedInv /\ HoldInv
  BY DEF IInv, TableInv
<1>2. Working /\ job \in Job /\ job.pc = "each_offer" /\ b \in job.todo
  BY <1>1, WorkingTypes DEF Decline, Working
<1>3. bookings[b].status = "held" /\ bookings[b].user = job.target
  BY <1>1, <1>2 DEF Decline, HoldInv, JobInv
<1>4. job' \in Job
  BY <1>2 DEF Decline, Job
<1>5. /\ job'.pc = "each_offer" /\ job'.todo = job.todo \ {b} /\ job'.target = job.target
      /\ job'.at = job.at /\ job'.moved = job.moved /\ job'.cancelled = job.cancelled
      /\ job'.declined = job.declined \cup {b} /\ job'.notes = job.notes
  BY <1>2 DEF Decline, Job
<1>6. JobInv'
  BY <1>1, <1>2, <1>3, <1>5 DEF Decline, JobInv, tableVars
<1>7. DecidedInv'
  BY <1>1, <1>2, <1>5 DEF Decline, DecidedInv, Stays, tableVars
<1>8. \A m \in job'.notes : task[m].pc = "none" /\ WillBeTrue(m)'
  BY <1>1, <1>2, <1>5 DEF Decline, ToldInv, WillBeTrue, tableVars
<1>. QED  BY <1>4, <1>5, <1>6, <1>7, <1>8, PrivateStep DEF Decline, SeriesFlagged

\* A transaction that ends without a commit has changed nothing, and its target
\* is still active.
LEMMA RollbackStep ==
  ASSUME IInv, Working, RolledBack, job' = Idle, DeliveryInv',
         UNCHANGED <<tableVars, inside, worker, now, task>>
  PROVE  IInv'
<1>1. OffboardingTypeOK /\ ToldInv /\ JobInv /\ HoldInv /\ LeftInv /\ SeriesInv
  BY DEF IInv, TableInv
<1>2. job.target \in Users /\ users[job.target] = "active"
  BY <1>1, WorkingTypes DEF JobInv, Job
<1>3. job'.pc = "idle" /\ ~Working' /\ missed' \subseteq missed
  BY DEF Idle, Working, RolledBack
<1>4. OffboardingTypeOK'
  BY <1>1, <1>3 DEF OffboardingTypeOK, tableVars, DeliveryInv
<1>5. ToldInv' /\ HoldInv' /\ JobInv' /\ DecidedInv'
  BY <1>1, <1>3 DEF ToldInv, Told, HoldInv, JobInv, DecidedInv, tableVars
<1>6. ASSUME NEW u \in Users, users[u] = "deactivated"
      PROVE  /\ u \in missed => u \in missed'
             /\ \A b \in BookingIds : InTable(bookings[b]) /\ bookings[b].user = u =>
                   (b \in missed => b \in missed')
             /\ \A s \in Series : s \in missed => s \in missed'
  <2>1. u # job.target
    BY <1>2, <1>6
  <2>2. u \notin BookingIds /\ \A x \in BookingIds \cup Series : x # job.target
    BY <1>2, OffboardingAssumption
  <2>3. \A s \in Series : s \notin BookingIds
    BY OffboardingAssumption
  <2>. QED  BY <2>1, <2>2, <2>3 DEF RolledBack
<1>7. LeftInv'
  <2>1. ASSUME NEW u \in Users, users[u] = "deactivated", NEW b \in BookingIds \ missed',
               bookings[b].status \in {"held", "confirmed"}, bookings[b].user = u
        PROVE  bookings[b].status = "confirmed" /\ Stays(bookings[b], u)
    BY <1>1, <1>6, <2>1 DEF LeftInv, InTable
  <2>2. \A u \in Users : users[u] = "deactivated" => (entries[u] = "waiting" => u \in missed')
    BY <1>1, <1>6 DEF LeftInv
  <2>. QED  BY <2>1, <2>2 DEF LeftInv, Stays, tableVars
<1>8. SeriesInv'
  BY <1>1, <1>3, <1>6 DEF SeriesInv, SeriesFlagged, Entrusted, Working, tableVars
<1>. QED  BY <1>4, <1>5, <1>7, <1>8 DEF IInv, TableInv

LEMMA AlreadyResolvedStep ==
  ASSUME IInv, NEW b \in BookingIds, AlreadyResolved(b)
  PROVE  IInv'
<1>1. DeliveryInv'
  BY DeliveryStutters DEF IInv, AlreadyResolved
<1>. QED  BY <1>1, RollbackStep DEF AlreadyResolved, Working, deliveryVars

\* The steps over the waitlist entry and the series.
LEMMA ReadEntriesStep ==
  ASSUME IInv, ReadEntries
  PROVE  IInv'
<1>1. OffboardingTypeOK /\ ToldInv /\ JobInv /\ DecidedInv
  BY DEF IInv, TableInv
<1>2. Working /\ job \in Job /\ job.pc = "each_offer" /\ job.todo = {}
  BY <1>1, WorkingTypes DEF ReadEntries, Working
<1>3. job' \in Job
  BY <1>2 DEF ReadEntries, Job
<1>4. /\ job'.pc \in {"each_entry", "series"}
      /\ job'.pc = "series" => entries[job.target] # "waiting"
      /\ job'.target = job.target /\ job'.at = job.at /\ job'.moved = job.moved
      /\ job'.cancelled = job.cancelled /\ job'.declined = job.declined
      /\ job'.notes = job.notes /\ job'.withdrawn = job.withdrawn
  BY <1>2 DEF ReadEntries, Job
<1>5. JobInv'
  BY <1>1, <1>2, <1>4 DEF ReadEntries, JobInv, tableVars
<1>6. DecidedInv'
  BY <1>1, <1>2, <1>4 DEF ReadEntries, DecidedInv, Stays, tableVars
<1>7. \A m \in job'.notes : task[m].pc = "none" /\ WillBeTrue(m)'
  BY <1>1, <1>2, <1>4 DEF ReadEntries, ToldInv, WillBeTrue, tableVars
<1>. QED  BY <1>3, <1>4, <1>5, <1>6, <1>7, PrivateStep DEF ReadEntries, SeriesFlagged

LEMMA WithdrawStep ==
  ASSUME IInv, Withdraw
  PROVE  IInv'
<1>1. OffboardingTypeOK /\ ToldInv /\ JobInv /\ DecidedInv
  BY DEF IInv, TableInv
<1>2. Working /\ job \in Job /\ job.pc = "each_entry" /\ job.target \in Users
  BY <1>1, WorkingTypes DEF Withdraw, Working, Job
<1>3. job' \in Job
  BY <1>2 DEF Withdraw, Job
<1>4. /\ job'.pc = "series"
      /\ entries[job.target] = "waiting" => job.target \in job'.withdrawn
      /\ job'.target = job.target /\ job'.at = job.at /\ job'.moved = job.moved
      /\ job'.cancelled = job.cancelled /\ job'.declined = job.declined
      /\ job'.notes = job.notes
  BY <1>2 DEF Withdraw, Job
<1>5. JobInv'
  BY <1>1, <1>2, <1>4 DEF Withdraw, JobInv, tableVars
<1>6. DecidedInv'
  BY <1>1, <1>2, <1>4 DEF Withdraw, DecidedInv, Stays, tableVars
<1>7. \A m \in job'.notes : task[m].pc = "none" /\ WillBeTrue(m)'
  BY <1>1, <1>2, <1>4 DEF Withdraw, ToldInv, WillBeTrue, tableVars
<1>. QED  BY <1>3, <1>4, <1>5, <1>6, <1>7, PrivateStep DEF Withdraw, SeriesFlagged

LEMMA FlagSeriesStep ==
  ASSUME IInv, FlagSeries
  PROVE  IInv'
<1>. DEFINE owned == {s \in Series : Owner[s] = job.target /\ Heir(SeriesResource[s]) # {}}
<1>1. OffboardingTypeOK /\ ToldInv /\ JobInv /\ DecidedInv
  BY DEF IInv, TableInv
<1>2. Working /\ job \in Job /\ job.pc = "series"
  BY <1>1, WorkingTypes DEF FlagSeries, Working
<1>3. job' = [job EXCEPT !.pc = "commit", !.notes = job.notes \cup owned]
  BY DEF FlagSeries
<1>4. owned \subseteq Messages
  BY OffboardingAssumption
<1>5. job' \in Job
  BY <1>2, <1>3, <1>4 DEF Job
<1>6. /\ job'.pc = "commit" /\ job'.target = job.target /\ job'.at = job.at
      /\ job'.moved = job.moved
      /\ job'.cancelled = job.cancelled /\ job'.declined = job.declined
      /\ job'.notes = job.notes \cup owned /\ job'.withdrawn = job.withdrawn
  BY <1>2, <1>3 DEF Job
<1>7. JobInv'
  BY <1>1, <1>2, <1>6 DEF FlagSeries, JobInv, tableVars
<1>8. DecidedInv'
  BY <1>1, <1>2, <1>6 DEF FlagSeries, DecidedInv, Stays, tableVars
<1>9. SeriesFlagged'
  BY <1>6 DEF SeriesFlagged, Entrusted
<1>10. \A m \in job'.notes : task[m].pc = "none" /\ WillBeTrue(m)'
  <2>1. ASSUME NEW m \in job.notes
        PROVE  task[m].pc = "none" /\ WillBeTrue(m)'
    BY <1>1, <1>2, <1>6 DEF FlagSeries, ToldInv, WillBeTrue, tableVars
  <2>2. ASSUME NEW s \in Series, Owner[s] = job.target
        PROVE  task[s].pc = "none" /\ WillBeTrue(s)'
    <3>1. s \in Messages /\ users[Owner[s]] = "active"
      BY <1>1, <1>2, <2>2, OffboardingAssumption DEF JobInv
    <3>2. task[s].pc = "none"
      BY <1>1, <3>1 DEF ToldInv, Told
    <3>. QED  BY <1>6, <2>2, <3>2 DEF WillBeTrue
  <2>. QED  BY <1>6, <2>1, <2>2
<1>. QED  BY <1>2, <1>5, <1>6, <1>7, <1>8, <1>9, <1>10, PrivateStep DEF FlagSeries

\* The rows after the commit.
LEMMA CommittedRows ==
  ASSUME IInv, Commit
  PROVE  /\ bookings' \in [BookingIds -> Row \cup {Absent}]
         /\ \A b \in job.cancelled :
               /\ bookings'[b].status = "cancelled"
               /\ bookings'[b].user = bookings[b].user
               /\ bookings'[b].resource = bookings[b].resource
         /\ \A b \in job.declined : bookings'[b].status = "cancelled"
         /\ \A b \in job.moved :
               /\ bookings'[b].status = bookings[b].status
               /\ bookings'[b].resource = bookings[b].resource
               /\ Heir(bookings[b].resource) = {bookings'[b].user}
               /\ \E v \in Users : bookings'[b] = [bookings[b] EXCEPT !.user = v]
         /\ \A b \in BookingIds \ (job.cancelled \cup job.declined \cup job.moved) :
               bookings'[b] = bookings[b]
<1>1. OffboardingTypeOK /\ JobInv
  BY DEF IInv, TableInv
<1>2. Working /\ job \in Job
  BY <1>1, WorkingTypes DEF Commit, Working
<1>3. /\ job.cancelled \subseteq BookingIds /\ job.declined \subseteq BookingIds
      /\ job.moved \subseteq BookingIds
  BY <1>2 DEF Job
<1>4. /\ \A b \in job.cancelled : bookings[b].status = "confirmed"
                                   /\ Policy[bookings[b].resource] = "cancel_and_notify"
      /\ \A b \in job.declined : bookings[b].status = "held"
      /\ \A b \in job.moved : /\ bookings[b].status \in {"confirmed", "cancelled"}
                              /\ Policy[bookings[b].resource] = "transfer"
                              /\ Heir(bookings[b].resource) # {}
  BY <1>1, <1>2 DEF JobInv
<1>5. /\ job.cancelled \cap job.declined = {} /\ job.cancelled \cap job.moved = {}
      /\ job.declined \cap job.moved = {}
  BY <1>4
<1>6. /\ \A b \in job.cancelled : bookings'[b] = [bookings[b] EXCEPT !.status = "cancelled"]
      /\ \A b \in job.declined : bookings'[b] = AfterRelease(bookings, b)[b]
      /\ \A b \in job.moved :
            bookings'[b] = [bookings[b] EXCEPT !.user = Admins[bookings[b].resource][1]]
      /\ \A b \in BookingIds \ (job.cancelled \cup job.declined \cup job.moved) :
            bookings'[b] = bookings[b]
      /\ bookings' = [b \in BookingIds |-> bookings'[b]]
  BY <1>3, <1>5 DEF Commit
<1>7. \A b \in job.cancelled \cup job.declined \cup job.moved : bookings[b] \in Row
  BY <1>1, <1>3, <1>4, TableTypes DEF InTable
<1>8. ASSUME NEW b \in job.cancelled
      PROVE  /\ bookings'[b] \in Row
             /\ bookings'[b].status = "cancelled"
             /\ bookings'[b].user = bookings[b].user
             /\ bookings'[b].resource = bookings[b].resource
  <2>1. [bookings[b] EXCEPT !.status = "cancelled"] \in Row
    BY <1>4, <1>7, CancelledRow
  <2>. QED  BY <1>6, <1>7, <2>1 DEF Row, Held, Settled
<1>9. ASSUME NEW b \in job.declined
      PROVE  bookings'[b] \in Row /\ bookings'[b].status = "cancelled"
  BY <1>1, <1>3, <1>4, <1>6, TableTypes, ReleasedTable
<1>10. ASSUME NEW b \in job.moved
       PROVE  /\ bookings'[b] \in Row
              /\ bookings'[b].status = bookings[b].status
              /\ bookings'[b].resource = bookings[b].resource
              /\ Heir(bookings[b].resource) = {bookings'[b].user}
              /\ \E v \in Users : bookings'[b] = [bookings[b] EXCEPT !.user = v]
  <2>1. bookings[b] \in Row /\ bookings[b].resource \in Resources
    BY <1>7 DEF Row, Held, Settled
  <2>2. Admins[bookings[b].resource] \in Seq(Users) /\ Admins[bookings[b].resource] # <<>>
    BY <1>4, <2>1, OffboardingAssumption DEF Heir
  <2>. DEFINE heir == Admins[bookings[b].resource][1]
  <2>3. heir \in Users /\ Heir(bookings[b].resource) = {heir}
    BY <2>2 DEF Heir
  <2>4. bookings'[b] = [bookings[b] EXCEPT !.user = heir]
    BY <1>6
  <2>. HIDE DEF heir
  <2>5. bookings'[b] \in Row
    BY <2>1, <2>3, <2>4, GivenRow
  <2>6. \E v \in Users : bookings'[b] = [bookings[b] EXCEPT !.user = v]
    BY <2>3, <2>4
  <2>. QED  BY <2>1, <2>3, <2>4, <2>5, <2>6 DEF Row, Held, Settled
<1>11. \A b \in BookingIds : bookings'[b] \in Row \cup {Absent}
  BY <1>1, <1>6, <1>8, <1>9, <1>10 DEF OffboardingTypeOK
<1>12. bookings' \in [BookingIds -> Row \cup {Absent}]
  BY <1>6, <1>11
<1>. QED  BY <1>6, <1>8, <1>9, <1>10, <1>12

LEMMA CommitStep ==
  ASSUME IInv, Commit
  PROVE  IInv'
<1>1. OffboardingTypeOK /\ ToldInv /\ JobInv /\ HoldInv /\ DecidedInv /\ LeftInv /\ SeriesInv /\ DeliveryInv
  BY DEF IInv, TableInv
<1>2. Working /\ job \in Job /\ job.pc = "commit" /\ job.target \in Users
  BY <1>1, WorkingTypes DEF Commit, Working, Job
<1>3. /\ bookings' \in [BookingIds -> Row \cup {Absent}]
      /\ \A b \in job.cancelled :
            /\ bookings'[b].status = "cancelled"
            /\ bookings'[b].user = bookings[b].user
            /\ bookings'[b].resource = bookings[b].resource
      /\ \A b \in job.declined : bookings'[b].status = "cancelled"
      /\ \A b \in job.moved :
            /\ bookings'[b].status = bookings[b].status
            /\ bookings'[b].resource = bookings[b].resource
            /\ Heir(bookings[b].resource) = {bookings'[b].user}
      /\ \A b \in BookingIds \ (job.cancelled \cup job.declined \cup job.moved) :
            bookings'[b] = bookings[b]
  BY CommittedRows
<1>4. /\ \A b \in job.moved : /\ bookings[b].status \in {"confirmed", "cancelled"}
                              /\ Policy[bookings[b].resource] = "transfer"
      /\ \A b \in job.cancelled : /\ bookings[b].status = "confirmed"
                                  /\ bookings[b].user = job.target
                                  /\ Policy[bookings[b].resource] = "cancel_and_notify"
      /\ \A b \in job.declined : bookings[b].status = "held"
  BY <1>1, <1>2 DEF JobInv
<1>5. /\ users' \in [Users -> {"active", "deactivated"}]
      /\ users'[job.target] = "deactivated"
      /\ \A u \in Users \ {job.target} : users'[u] = users[u]
  BY <1>1, <1>2 DEF Commit, OffboardingTypeOK
<1>6. /\ job'.pc = "callbacks" /\ job'.notes = job.notes
      /\ job' \in Callbacks
  <2>1. job.notes \in SUBSET Messages
    BY <1>2 DEF Job
  <2>. DEFINE freed == \E b \in job.cancelled \cup job.declined : bookings[b].resource = Wanted
  <2>2. job' = [pc |-> "callbacks", notes |-> job.notes, freed |-> freed]
    BY DEF Commit
  <2>3. freed \in BOOLEAN
    OBVIOUS
  <2>. HIDE DEF freed
  <2>. QED  BY <2>1, <2>2, <2>3 DEF Callbacks
<1>7. /\ offers' \in [BookingIds -> {"none", "active", "confirmed", "declined", "expired"}]
      /\ \A b \in job.declined : b \in BookingIds => offers'[b] = "declined"
      /\ \A b \in BookingIds \ job.declined : offers'[b] = offers[b]
  BY <1>1 DEF Commit, OffboardingTypeOK
<1>8. /\ entries' \in [Users -> {"none", "waiting", "offered", "fulfilled", "expired", "cancelled"}]
      /\ \A u \in Users : entries'[u] = "waiting" =>
            entries[u] = "waiting" /\ u \notin job.withdrawn
  <2>1. \A u \in Users :
           \/ entries'[u] \in {"cancelled", "expired"}
           \/ entries'[u] = entries[u] /\ u \notin job.withdrawn
    BY DEF Commit
  <2>2. entries' = [u \in Users |-> entries'[u]]
    BY DEF Commit
  <2>. QED  BY <1>1, <2>1, <2>2 DEF OffboardingTypeOK
<1>9. DeliveryInv'
  BY <1>1, DeliveryStutters DEF Commit
<1>10. OffboardingTypeOK'
  BY <1>1, <1>3, <1>5, <1>6, <1>7, <1>8, <1>9 DEF Commit, OffboardingTypeOK, DeliveryInv
<1>11. /\ job'.pc # "bookings" /\ ~Working' /\ missed' = missed /\ task' = task /\ now' = now
  BY <1>6 DEF Working, Commit, deliveryVars
<1>12. HoldInv'
  <2>. SUFFICES ASSUME NEW b \in BookingIds
                PROVE  offers'[b] = "active" <=> bookings'[b].status = "held"
    BY DEF HoldInv
  <2>1. offers[b] = "active" <=> bookings[b].status = "held"
    BY <1>1 DEF HoldInv
  <2>. QED  BY <1>3, <1>4, <1>7, <2>1
<1>13. ToldInv'
  <2>1. ASSUME NEW m \in Messages, Told(m)
        PROVE  Told(m)'
    <3>1. CASE m \in Series
      <4>1. Owner[m] \in Users
        BY <3>1, OffboardingAssumption
      <4>. QED  BY <1>5, <2>1, <3>1, <4>1 DEF Told
    <3>2. CASE m \notin Series
      <4>1. m \in BookingIds /\ bookings[m].status = "cancelled"
            /\ Policy[bookings[m].resource] = "cancel_and_notify"
        BY <2>1, <3>2, OffboardingAssumption DEF Told
      <4>2. bookings'[m] = bookings[m]
        BY <1>3, <1>4, <4>1
      <4>3. bookings[m].user \in Users
        BY <1>1, <4>1, TableTypes DEF InTable, Row, Held, Settled
      <4>. QED  BY <1>5, <2>1, <3>2, <4>2, <4>3 DEF Told
    <3>. QED  BY <3>1, <3>2
  <2>2. ASSUME NEW m \in job.notes
        PROVE  task[m].pc = "none" /\ Told(m)'
    <3>1. task[m].pc = "none" /\ WillBeTrue(m)
      BY <1>1, <1>2 DEF ToldInv
    <3>2. CASE m \in Series
      BY <1>5, <3>1, <3>2 DEF WillBeTrue, Told
    <3>3. CASE m \notin Series
      <4>1. m \in BookingIds
        BY <1>2, <3>3, OffboardingAssumption DEF Job
      <4>2. CASE m \in job.cancelled
        BY <1>3, <1>4, <1>5, <3>1, <3>3, <4>2 DEF Told
      <4>3. CASE m \notin job.cancelled
        <5>1. /\ bookings[m].status = "cancelled"
              /\ Policy[bookings[m].resource] = "cancel_and_notify"
              /\ bookings[m].user = job.target
          BY <3>1, <3>3, <4>3 DEF WillBeTrue
        <5>2. bookings'[m] = bookings[m]
          BY <1>3, <1>4, <4>1, <4>3, <5>1
        <5>. QED  BY <1>5, <3>1, <3>3, <5>1, <5>2 DEF Told
      <4>. QED  BY <4>2, <4>3
    <3>. QED  BY <3>2, <3>3
  <2>. QED  BY <1>1, <1>6, <1>11, <2>1, <2>2 DEF ToldInv
<1>14. LeftInv'
  <2>. SUFFICES ASSUME NEW u \in Users, users'[u] = "deactivated"
                PROVE  /\ \A b \in BookingIds \ missed :
                             (bookings'[b].status \in {"held", "confirmed"} /\ bookings'[b].user = u) =>
                                bookings'[b].status = "confirmed" /\ Stays(bookings[b], u)'
                       /\ entries'[u] = "waiting" => u \in missed
    BY <1>11 DEF LeftInv
  <2>1. u = job.target \/ users[u] = "deactivated"
    BY <1>5
  <2>2. ASSUME NEW b \in BookingIds \ missed,
               bookings'[b].status \in {"held", "confirmed"}, bookings'[b].user = u
        PROVE  bookings'[b].status = "confirmed" /\ Stays(bookings[b], u)'
    <3>1. b \notin job.cancelled /\ b \notin job.declined
      BY <1>3, <2>2
    <3>2. CASE b \in job.moved
      BY <1>3, <1>4, <2>2, <3>2 DEF Stays
    <3>3. CASE b \notin job.moved
      <4>1. bookings'[b] = bookings[b]
        BY <1>3, <3>1, <3>3
      <4>2. CASE u = job.target
        BY <1>1, <1>2, <1>11, <2>2, <3>1, <3>3, <4>1, <4>2 DEF DecidedInv, Stays
      <4>3. CASE users[u] = "deactivated"
        BY <1>1, <1>11, <2>2, <4>1, <4>3 DEF LeftInv, Stays
      <4>. QED  BY <2>1, <4>2, <4>3
    <3>. QED  BY <3>2, <3>3
  <2>3. entries'[u] = "waiting" => u \in missed
    BY <1>1, <1>2, <1>8, <2>1 DEF DecidedInv, LeftInv
  <2>. QED  BY <2>2, <2>3
<1>15. JobInv' /\ DecidedInv'
  BY <1>6, <1>11 DEF JobInv, DecidedInv
<1>16. SeriesInv'
  <2>1. ASSUME NEW u \in Users, users'[u] = "deactivated", NEW s \in Series \ missed, Entrusted(s, u)
        PROVE  task[s].pc # "none" \/ s \in job.notes
    <3>1. CASE u = job.target
      BY <1>1, <1>2, <2>1, <3>1 DEF SeriesInv, SeriesFlagged
    <3>2. CASE users[u] = "deactivated"
      BY <1>1, <1>2, <2>1, <3>2 DEF SeriesInv
    <3>. QED  BY <1>5, <2>1, <3>1, <3>2
  <2>. QED  BY <1>6, <1>11, <2>1 DEF SeriesInv, SeriesFlagged, Entrusted
<1>. QED  BY <1>9, <1>10, <1>12, <1>13, <1>14, <1>15, <1>16 DEF IInv, TableInv

LEMMA RunCallbacksStep ==
  ASSUME IInv, RunCallbacks
  PROVE  IInv'
<1>1. OffboardingTypeOK /\ ToldInv /\ HoldInv /\ LeftInv /\ SeriesInv /\ DeliveryInv
  BY DEF IInv, TableInv
<1>2. job.notes \in SUBSET Messages
  BY <1>1 DEF RunCallbacks, OffboardingTypeOK, Job, Callbacks, Idle
<1>3. \A m \in job.notes : task[m].pc = "none" /\ Told(m)
  BY <1>1 DEF RunCallbacks, ToldInv
<1>4. /\ DeliveryInv'
      /\ \A m \in job.notes : task'[m].pc # "none"
      /\ \A m \in Messages \ job.notes : task'[m] = task[m]
  BY <1>1, <1>2, <1>3, DispatchStep DEF RunCallbacks
<1>5. worker' \in [step : {"off", "called", "offering"}, list : SUBSET Users]
  BY <1>1 DEF RunCallbacks, Called, Off, OffboardingTypeOK
<1>6. OffboardingTypeOK'
  BY <1>1, <1>4, <1>5 DEF RunCallbacks, OffboardingTypeOK, tableVars, DeliveryInv
<1>7. job' = Idle /\ ~Working'
  BY DEF RunCallbacks, Working, Idle
<1>8. ToldInv'
  <2>1. \A m \in Messages : Told(m) => Told(m)'
    BY DEF RunCallbacks, Told, tableVars
  <2>. QED  BY <1>1, <1>3, <1>4, <1>7, <2>1 DEF ToldInv, Idle
<1>9. HoldInv' /\ LeftInv'
  BY <1>1 DEF RunCallbacks, HoldInv, LeftInv, Stays, tableVars
<1>10. JobInv' /\ DecidedInv'
  BY <1>7 DEF JobInv, DecidedInv, Idle
<1>11. SeriesInv'
  <2>1. \A s \in Series : task[s].pc # "none" \/ s \in job.notes => task'[s].pc # "none"
    BY <1>4, OffboardingAssumption
  <2>2. UNCHANGED <<users, missed>>
    BY DEF RunCallbacks, tableVars
  <2>. QED  BY <1>1, <1>7, <2>1, <2>2 DEF SeriesInv, SeriesFlagged, Entrusted, Idle
<1>. QED  BY <1>4, <1>6, <1>8, <1>9, <1>10, <1>11 DEF IInv, TableInv

LEMMA JobDiesStep ==
  ASSUME IInv, JobDies
  PROVE  IInv'
<1>1. OffboardingTypeOK /\ ToldInv /\ HoldInv /\ LeftInv /\ SeriesInv /\ DeliveryInv
  BY DEF IInv, TableInv
<1>2. faults' \in 0..MaxFaults
  BY <1>1, DeliveryAssumption DEF JobDies, DeliveryInv, DeliveryTypeOK
<1>3. DeliveryInv'
  BY <1>1, <1>2 DEF JobDies, DeliveryInv, DeliveryTypeOK, NotBegun, Counted, Undisturbed
<1>4. CASE Working
  BY <1>3, <1>4, RollbackStep DEF JobDies, Working
<1>5. CASE ~Working
  <2>1. job.pc = "callbacks" /\ missed' = missed \cup (job.notes \cap Series)
    <3>1. job \in Job \cup Callbacks
      BY <1>1 DEF JobDies, OffboardingTypeOK
    <3>2. job \in Job => Working
      BY DEF Job, Working
    <3>3. job.pc = "callbacks"
      BY <1>5, <3>1, <3>2 DEF Callbacks
    <3>. QED  BY <3>3 DEF JobDies
  <2>2. OffboardingTypeOK'
    BY <1>1, <1>3, <2>1 DEF JobDies, OffboardingTypeOK, tableVars, DeliveryInv
  <2>3. job' = Idle /\ ~Working'
    BY DEF JobDies, Working, Idle
  <2>4. ToldInv' /\ HoldInv' /\ LeftInv'
    BY <1>1, <2>1, <2>3 DEF JobDies, ToldInv, Told, HoldInv, LeftInv, Stays, tableVars, Idle
  <2>5. JobInv' /\ DecidedInv'
    BY <2>3 DEF JobInv, DecidedInv, Idle
  <2>6. SeriesInv'
    BY <1>1, <2>1, <2>3 DEF JobDies, SeriesInv, SeriesFlagged, Entrusted, tableVars, Idle
  <2>. QED  BY <1>3, <2>2, <2>4, <2>5, <2>6 DEF IInv, TableInv
<1>. QED  BY <1>4, <1>5

LEMMA MailIsIndependent ==
  ASSUME IInv, NEW m \in Messages, MailStep(m)
  PROVE  IInv'
<1>1. OffboardingTypeOK /\ ToldInv /\ JobInv /\ HoldInv /\ DecidedInv /\ LeftInv /\ SeriesInv /\ DeliveryInv
  BY DEF IInv, TableInv
<1>2. /\ DeliveryInv'
      /\ \A k \in Messages : task'[k].pc = "none" <=> task[k].pc = "none"
  BY <1>1, DeliverStep DEF MailStep
<1>3. OffboardingTypeOK'
  BY <1>1, <1>2 DEF MailStep, OffboardingTypeOK, tableVars, DeliveryInv
<1>4. ToldInv'
  <2>1. \A k \in Messages : (Told(k) => Told(k)') /\ (WillBeTrue(k) => WillBeTrue(k)')
    BY DEF MailStep, Told, WillBeTrue, tableVars
  <2>2. job.pc = "callbacks" \/ Working => job.notes \subseteq Messages
    BY <1>1 DEF OffboardingTypeOK, Working, Job, Callbacks, Idle
  <2>. QED  BY <1>1, <1>2, <2>1, <2>2 DEF MailStep, ToldInv, Working
<1>5. UNCHANGED <<users, bookings, offers, entries, job, missed, now>>
  BY DEF MailStep, tableVars
<1>6. JobInv' /\ HoldInv'
  BY <1>1, <1>5 DEF JobInv, HoldInv, Working
<1>7. LeftInv' /\ DecidedInv'
  BY <1>1, <1>5 DEF LeftInv, DecidedInv, Stays, Working
<1>8. SeriesInv'
  BY <1>1, <1>2, <1>5, OffboardingAssumption DEF SeriesInv, SeriesFlagged, Entrusted
<1>. QED  BY <1>2, <1>3, <1>4, <1>6, <1>7, <1>8 DEF IInv, TableInv

-----------------------------------------------------------------------------
(* The theorems.                                                            *)

LEMMA InitInv ==
  ASSUME OffboardingInit
  PROVE  IInv
<1>. USE DEF OffboardingInit
<1>1. DeliveryTypeOK
  BY DeliveryAssumption DEF DeliveryInit, DeliveryTypeOK, NoLog, NoTask
<1>2. DeliveryInv
  BY <1>1, DeliveryAssumption
     DEF DeliveryInit, DeliveryInv, NoLog, NoTask, NotBegun, Counted, Undisturbed
<1>3. OffboardingTypeOK
  BY <1>1, TableAssumption DEF OffboardingTypeOK, Idle, Off, Times
<1>4. ToldInv /\ JobInv /\ DecidedInv
  BY DEF DeliveryInit, ToldInv, JobInv, DecidedInv, Working, Idle, NoTask
<1>5. HoldInv /\ LeftInv /\ SeriesInv
  BY DEF HoldInv, LeftInv, SeriesInv, SeriesFlagged, Absent, Idle
<1>. QED  BY <1>2, <1>3, <1>4, <1>5 DEF IInv, TableInv

LEMMA ExternalInv ==
  ASSUME IInv, OffboardingTypeOK', ExternalStep, UNCHANGED deliveryVars
  PROVE  IInv'
BY ExternalKeeps, DeliveryStutters DEF IInv

LEMMA NextInv ==
  ASSUME IInv, [OffboardingNext]_offboardingVars
  PROVE  IInv'
<1>1. CASE \E u \in Callers : Enter(u)
  BY <1>1, QuietStep, ExternalInv DEF Enter
<1>2. ASSUME NEW u \in Users, Join(u) \/ MakeOffer(u) PROVE IInv'
  BY <1>2, JoinStep, MakeOfferStep, ExternalInv DEF Join, MakeOffer
<1>3. ASSUME NEW u \in Users, NEW r \in Resources, NEW s \in Series \cup {NoSeries}, Book(u, r, s)
      PROVE  IInv'
  BY <1>3, BookStep, ExternalInv DEF Book
<1>4. ASSUME NEW u \in Users, NEW b \in BookingIds, CancelOwn(u, b) \/ Accept(u, b)
      PROVE  IInv'
  BY <1>4, CancelOwnStep, AcceptStep, ExternalInv DEF CancelOwn, Accept
<1>5. CASE ReadCandidates \/ EndCascade \/ Tick
  BY <1>5, QuietStep, ExternalInv DEF ReadCandidates, EndCascade, Tick
<1>6. ASSUME NEW b \in BookingIds, Sweep(b) PROVE IInv'
  BY <1>6, SweepStep, ExternalInv DEF Sweep
<1>7. CASE Deactivation
  <2>1. CASE \E u \in Targets : Flip(u)
    BY <2>1, FlipStep
  <2>2. CASE \E b \in BookingIds : ApplyPolicy(b)
    BY <2>2, ApplyPolicyStep
  <2>3. CASE \E b \in BookingIds : Decline(b) \/ AlreadyResolved(b)
    BY <2>3, DeclineStep, AlreadyResolvedStep
  <2>. QED  BY <1>7, <2>1, <2>2, <2>3, ReadBookingsStep, ReadOffersStep, ReadEntriesStep,
               WithdrawStep, FlagSeriesStep, CommitStep, RunCallbacksStep DEF Deactivation
<1>8. CASE JobDies
  BY <1>8, JobDiesStep
<1>9. CASE \E m \in Messages : MailStep(m)
  BY <1>9, MailIsIndependent
<1>10. CASE UNCHANGED offboardingVars
  <2>1. ExternalStep /\ OffboardingTypeOK'
    BY <1>10, NothingTouched DEF offboardingVars, tableVars, deliveryVars, IInv, OffboardingTypeOK, DeliveryTypeOK
  <2>. QED  BY <1>10, <2>1, ExternalInv DEF offboardingVars
<1>. QED  BY <1>1, <1>2, <1>3, <1>4, <1>5, <1>6, <1>7, <1>8, <1>9, <1>10 DEF OffboardingNext

LEMMA Invariance == OffboardingSpec => []IInv
<1>1. OffboardingInit => IInv
  BY InitInv
<1>2. IInv /\ [OffboardingNext]_offboardingVars => IInv'
  BY NextInv
<1>. QED  BY <1>1, <1>2, PTL DEF OffboardingSpec

\* The variables of a deactivation, of what runs beside it and of the messages
\* keep their types.
THEOREM OffboardingTypeCorrect == OffboardingSpec => []OffboardingTypeOK
<1>1. IInv => OffboardingTypeOK
  BY DEF IInv
<1>. QED  BY <1>1, Invariance, PTL

\* Nobody is told of what did not happen, however many deactivations are rolled
\* back and whatever other requests do to the target's rows meanwhile
\* (deactivate_user's on_commit callbacks).
THEOREM NobodyIsToldInVain == OffboardingSpec => []AnnouncedIsDone
<1>1. IInv => AnnouncedIsDone
  BY DEF IInv, TableInv, ToldInv, Told, AnnouncedIsDone
<1>. QED  BY <1>1, Invariance, PTL

\* Of a deactivated user nothing is left but what has begun, the occurrences of
\* their series, what the policy retains or would transfer to nobody else than
\* the first administrator, and what came after the deactivation had looked; and
\* every administered series is told of unless the process died after the
\* commit.  For every interleaving of the deactivation's statements with
\* requests, the cascade worker, the sweep and rollbacks (deactivate_user).
THEOREM DeactivationLeavesNothing == OffboardingSpec => []NothingLeftBehind
<1>1. IInv => NothingLeftBehind
  BY LeftIsNothingLeftBehind DEF IInv, TableInv
<1>. QED  BY <1>1, Invariance, PTL

\* The delivery record never says more than happened, for any number of retries
\* and faults (_execute_notification_delivery).
THEOREM RecordIsTruthful == OffboardingSpec => []LogIsTruthful
<1>1. IInv => LogIsTruthful
  BY DeliveryIsTruthful DEF IInv
<1>. QED  BY <1>1, Invariance, PTL

-----------------------------------------------------------------------------
(* The table under deactivations implements the calendar of claims.         *)

\* All that a deactivation does to the table is one owner leaving.
LEMMA CommitLeaves ==
  ASSUME IInv, Commit
  PROVE  Abs!CalendarNext
<1>1. OffboardingTypeOK /\ JobInv
  BY DEF IInv, TableInv
<1>2. Working /\ job \in Job /\ job.target \in Users
  BY <1>1, WorkingTypes DEF Commit, Working, Job
<1>3. /\ bookings \in Table /\ bookings' \in Table
      /\ \A b \in BookingIds : InTable(bookings[b]) => bookings[b] \in Row
  BY <1>1, CommittedRows, TableTypes DEF Table
<1>4. ASSUME NEW b \in BookingIds, InExclusionDomain(bookings[b]),
             bookings[b].user = job.target, bookings'[b].status = "cancelled"
      PROVE  b \in Abs!Standing /\ Claims[b].owner = job.target /\ Claims'[b] = Abs!Gone
  <2>1. /\ bookings[b] \in Row \cup {Absent, Deleted}
        /\ bookings'[b] \in Row \cup {Absent, Deleted}
    BY <1>3 DEF Table
  <2>2. Claims[b].owner = job.target
    BY <1>4, <2>1, DomainIsClaim DEF Claims
  <2>3. Claims'[b] = Abs!Gone
    BY <1>4, <2>1, OutsideIsNoClaim DEF Claims, InExclusionDomain, Absent
  <2>. QED  BY <1>3, <1>4, <2>2, <2>3, StandingIsDomain
<1>5. ASSUME NEW b \in job.cancelled \cup job.declined
      PROVE  b \in Abs!Standing /\ Claims[b].owner = job.target /\ Claims'[b] = Abs!Gone
  <2>1. /\ b \in BookingIds
        /\ bookings[b].status \in {"confirmed", "held"}
        /\ bookings[b].user = job.target
    BY <1>1, <1>2 DEF JobInv, Job
  <2>2. bookings'[b].status = "cancelled"
    BY CommittedRows
  <2>. QED  BY <1>4, <2>1, <2>2 DEF InExclusionDomain
<1>6. ASSUME NEW b \in job.moved
      PROVE  \/ Claims'[b] = Claims[b]
             \/ /\ b \in Abs!Standing /\ Claims[b].owner = job.target
                /\ \E v \in Users : Claims'[b] = [Claims[b] EXCEPT !.owner = v]
  <2>1. /\ b \in BookingIds
        /\ bookings[b].status \in {"confirmed", "cancelled"}
        /\ bookings[b].user = job.target
    BY <1>1, <1>2 DEF JobInv, Job
  <2>2. bookings[b] \in Row
    BY <1>3, <2>1 DEF InTable
  <2>3. PICK v \in Users : bookings'[b] = [bookings[b] EXCEPT !.user = v]
    BY CommittedRows
  <2>4. /\ InExclusionDomain(bookings[b]) => Claims'[b] = [Claims[b] EXCEPT !.owner = v]
        /\ ~InExclusionDomain(bookings[b]) => Claims'[b] = Claims[b]
    BY <2>1, <2>2, <2>3, GivingHandsOver DEF Claims
  <2>5. InExclusionDomain(bookings[b]) => b \in Abs!Standing /\ Claims[b].owner = job.target
    BY <1>3, <2>1, <2>2, StandingIsDomain, DomainIsClaim DEF Claims
  <2>. QED  BY <2>4, <2>5
<1>7. \A b \in BookingIds \ (job.cancelled \cup job.declined \cup job.moved) :
         Claims'[b] = Claims[b]
  BY CommittedRows DEF Claims
<1>8. Claims' = [b \in BookingIds |-> Claims'[b]]
  BY DEF Claims
<1>9. Abs!Leave(job.target)
  BY <1>5, <1>6, <1>7, <1>8 DEF Abs!Leave, Abs!BookingIds, BookingIds
<1>. QED  BY <1>2, <1>9 DEF Abs!CalendarNext

LEMMA OffboardingCalendarStep ==
  ASSUME IInv, [OffboardingNext]_offboardingVars
  PROVE  [Abs!CalendarNext]_Claims
<1>1. OffboardingTypeOK /\ OffboardingTypeOK'
  BY NextInv DEF IInv
<1>2. bookings \in Table /\ bookings' \in Table
  BY <1>1 DEF OffboardingTypeOK, Table
<1>3. CASE UNCHANGED bookings
  BY <1>3 DEF Claims
<1>4. ASSUME NEW u \in Users, NEW r \in Resources, NEW s \in Series \cup {NoSeries}, Book(u, r, s)
      PROVE  Abs!CalendarNext
  <2>. DEFINE row == NewRow(r, u, Slot, s, "confirmed", now)
  <2>1. PICK b \in FreshIds(bookings) : bookings' = [bookings EXCEPT ![b] = row]
    BY <1>4 DEF Book
  <2>2. row.status = "confirmed" /\ row.resource = r /\ row.range = Slot
    BY DEF NewRow
  <2>. HIDE DEF row
  <2>3. b \in BookingIds /\ bookings'[b] = row
    BY <1>2, <2>1 DEF Table, FreshIds
  <2>4. \A c \in BookingIds \ {b} : bookings'[c] = bookings[c]
    BY <1>2, <2>1, <2>3 DEF Table
  <2>5. Excludes(bookings, BookingIds, bookings'[b].resource, bookings'[b].range)
    BY <1>4, <2>2, <2>3 DEF Book
  <2>. QED  BY <1>2, <2>2, <2>3, <2>4, <2>5, InsertingWhereFree
<1>5. ASSUME NEW u \in Users, MakeOffer(u)
      PROVE  Abs!CalendarNext
  <2>. DEFINE row == NewRow(Wanted, u, Slot, NoSeries, "held", now)
  <2>1. PICK b \in FreshIds(bookings) : bookings' = [bookings EXCEPT ![b] = row]
    BY <1>5 DEF MakeOffer
  <2>2. row.status = "held" /\ row.resource = Wanted /\ row.range = Slot
    BY DEF NewRow
  <2>. HIDE DEF row
  <2>3. b \in BookingIds /\ bookings'[b] = row
    BY <1>2, <2>1 DEF Table, FreshIds
  <2>4. \A c \in BookingIds \ {b} : bookings'[c] = bookings[c]
    BY <1>2, <2>1, <2>3 DEF Table
  <2>5. Excludes(bookings, BookingIds, bookings'[b].resource, bookings'[b].range)
    BY <1>5, <2>2, <2>3 DEF MakeOffer
  <2>. QED  BY <1>2, <2>2, <2>3, <2>4, <2>5, InsertingWhereFree
<1>6. ASSUME NEW u \in Users, NEW b \in BookingIds, CancelOwn(u, b)
      PROVE  Abs!CalendarNext
  BY <1>2, <1>6, CancelledTable, FreeingOne DEF CancelOwn
<1>7. ASSUME NEW u \in Users, NEW b \in BookingIds, Accept(u, b)
      PROVE  Abs!CalendarNext
  BY <1>2, <1>7, AcceptingMakesFirm DEF Accept
<1>8. ASSUME NEW b \in BookingIds, Sweep(b)
      PROVE  Abs!CalendarNext
  BY <1>2, <1>8, ReleasedTable, FreeingOne DEF Sweep, Lapsed
<1>9. CASE Deactivation
  <2>1. CASE Commit
    BY <2>1, CommitLeaves
  <2>2. CASE ~Commit
    <3>1. UNCHANGED bookings
      BY <1>9, <2>2 DEF Deactivation, Flip, ReadBookings, ApplyPolicy, ReadOffers, Decline,
                        AlreadyResolved, ReadEntries, Withdraw, FlagSeries, RunCallbacks, tableVars
    <3>. QED  BY <1>3, <3>1
  <2>. QED  BY <2>1, <2>2
<1>10. ASSUME \/ \E u \in Callers : Enter(u)
              \/ \E u \in Users : Join(u)
              \/ ReadCandidates
              \/ EndCascade
              \/ Tick
              \/ JobDies
              \/ \E m \in Messages : MailStep(m)
              \/ UNCHANGED offboardingVars
       PROVE  UNCHANGED bookings
  BY <1>10 DEF Enter, Join, ReadCandidates, EndCascade, Tick, JobDies, MailStep, tableVars, offboardingVars
<1>. QED
  BY <1>3, <1>4, <1>5, <1>6, <1>7, <1>8, <1>9, <1>10 DEF OffboardingNext

\* The table the deactivations write to, beside requests, offers and sweeps,
\* implements the calendar: nothing is granted over another claim, and what
\* one user loses and others are given by a deactivation is one step
\* (deactivate_user is one transaction).
THEOREM OffboardingImplementsCalendar == OffboardingSpec => ImplementsCalendar
<1>1. OffboardingInit => Abs!CalendarInit
  BY EmptyTableStarts DEF OffboardingInit
<1>2. IInv /\ [OffboardingNext]_offboardingVars => [Abs!CalendarNext]_Claims
  BY OffboardingCalendarStep
<1>. QED
  BY <1>1, <1>2, Invariance, PTL DEF OffboardingSpec, ImplementsCalendar, Abs!CalendarSpec

\* Hence no two bookings or holds on one resource overlap, whatever
\* deactivations hand over and free (no_overlapping_bookings).
THEOREM OffboardingNeverDoubleBooks == OffboardingSpec => []Abs!NeverShared
BY OffboardingImplementsCalendar, CalendarNeverShares, PTL
=============================================================================
