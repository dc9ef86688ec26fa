------------------------------ MODULE Delivery ------------------------------
(***************************************************************************)
(* How a message leaves the engine: the hand-over to the broker            *)
(* (dispatch_notification, _dispatch_alert_email), the Celery task with    *)
(* its retries (backend/kairos/core/tasks.py) and one delivery attempt,    *)
(* statement by statement (_execute_notification_delivery of               *)
(* core/notifications.py, _execute_alert_email_delivery of                 *)
(* core/alerting.py).  Every statement commits on its own.  The task is    *)
(* acknowledged when a worker takes it: nothing delivers it again but its  *)
(* own retries.                                                            *)
(***************************************************************************)
EXTENDS Integers, FiniteSets

CONSTANTS Messages,   \* messages that may be dispatched
          MaxRetries, \* NOTIFICATION_MAX_RETRIES, ALERT_EMAIL_MAX_RETRIES
          MaxFaults   \* bound: broker outages, database failures, worker deaths

ASSUME DeliveryAssumption == MaxRetries \in Nat /\ MaxFaults \in Nat

VARIABLES log,     \* the row that records the delivery of a message
          task,    \* the Celery task of a message
          mails,   \* how many mails the provider accepted
          shaken,  \* history: messages whose task met a database failure or died
          faults   \* how many faults there were

deliveryVars == <<log, task, mails, shaken, faults>>

NoLog  == [status |-> "none", attempts |-> 0]
NoTask == [pc |-> "none", retries |-> 0]

\* lost: the broker was not there; dead: the worker was not there any more;
\* gave_up: the retries are used up.
Ended   == {"done", "gave_up", "lost", "dead"}
AtWork  == {"opened", "counted", "accepted", "rejected"}

DeliveryTypeOK ==
    /\ log \in [Messages -> [status : {"none", "pending", "sent", "failed"},
                             attempts : 0..(MaxRetries + 1)]]
    /\ task \in [Messages -> [pc : {"none", "queued"} \cup AtWork \cup Ended,
                              retries : 0..MaxRetries]]
    /\ mails \in [Messages -> 0..(MaxRetries + 1)]
    /\ shaken \subseteq Messages
    /\ faults \in 0..MaxFaults

DeliveryInit ==
    /\ log = [m \in Messages |-> NoLog]
    /\ task = [m \in Messages |-> NoTask]
    /\ mails = [m \in Messages |-> 0]
    /\ shaken = {}
    /\ faults = 0

-----------------------------------------------------------------------------
(* The hand-over, for use in the steps of the callers.                      *)

Dispatched(t, M) == [m \in Messages |-> IF m \in M THEN [t[m] EXCEPT !.pc = "queued"] ELSE t[m]]

\* A broker outage is logged and swallowed: the caller goes on.
Swallowed(t, M) == [m \in Messages |-> IF m \in M THEN [t[m] EXCEPT !.pc = "lost"] ELSE t[m]]

Dispatch(M) ==
    \/ task' = Dispatched(task, M) /\ UNCHANGED faults
    \/ M # {} /\ faults < MaxFaults /\ task' = Swallowed(task, M) /\ faults' = faults + 1

-----------------------------------------------------------------------------
(* One attempt.                                                             *)

Goto(m, pc) == task' = [task EXCEPT ![m].pc = pc]

\* Fault: max_retries is left to be unlimited.
RetryForever(m) ==
    task' = [task EXCEPT ![m] = [pc |-> "queued", retries |-> @.retries + 1]]

\* autoretry_for=(Exception,): the next attempt, unless it was the last.
Retry(m) ==
    task' = [task EXCEPT ![m] = IF @.retries < MaxRetries
                                THEN [pc |-> "queued", retries |-> @.retries + 1]
                                ELSE [@ EXCEPT !.pc = "gave_up"]]

\* get_or_create: one row through all attempts.
OpenLog(m) ==
    /\ task[m].pc = "queued"
    /\ log' = [log EXCEPT ![m].status = IF @ = "none" THEN "pending" ELSE @]
    /\ Goto(m, "opened")
    /\ UNCHANGED <<mails, shaken, faults>>

CountAttempt(m) ==
    /\ task[m].pc = "opened"
    /\ log' = [log EXCEPT ![m].attempts = @ + 1]
    /\ Goto(m, "counted")
    /\ UNCHANGED <<mails, shaken, faults>>

ProviderAccepts(m) ==
    /\ task[m].pc = "counted"
    /\ mails' = [mails EXCEPT ![m] = @ + 1]
    /\ Goto(m, "accepted")
    /\ UNCHANGED <<log, shaken, faults>>

\* Fault: fail_silently=True, the failure is not seen.
RejectionUnseen(m) ==
    /\ task[m].pc = "counted"
    /\ Goto(m, "accepted")
    /\ UNCHANGED <<log, mails, shaken, faults>>

ProviderRejects(m) ==
    /\ task[m].pc = "counted"
    /\ Goto(m, "rejected")
    /\ UNCHANGED <<log, mails, shaken, faults>>

RecordSent(m) ==
    /\ task[m].pc = "accepted"
    /\ log' = [log EXCEPT ![m].status = "sent"]
    /\ Goto(m, "done")
    /\ UNCHANGED <<mails, shaken, faults>>

\* Recorded and raised again, which has the task retried.
RecordFailure(m) ==
    /\ task[m].pc = "rejected"
    /\ log' = [log EXCEPT ![m].status = "failed"]
    /\ Retry(m)
    /\ UNCHANGED <<mails, shaken, faults>>

\* A statement of the attempt raises: the task is retried all the same, also
\* when it is the one that records a mail already sent.
StatementFails(m) ==
    /\ faults < MaxFaults
    /\ task[m].pc \in {"queued"} \cup AtWork
    /\ faults' = faults + 1
    /\ shaken' = shaken \cup {m}
    /\ Retry(m)
    /\ UNCHANGED <<log, mails>>

WorkerDies(m) ==
    /\ faults < MaxFaults
    /\ task[m].pc \in AtWork
    /\ faults' = faults + 1
    /\ shaken' = shaken \cup {m}
    /\ Goto(m, "dead")
    /\ UNCHANGED <<log, mails>>

Attempt(m) ==
    \/ OpenLog(m)
    \/ CountAttempt(m)
    \/ ProviderAccepts(m)
    \/ ProviderRejects(m)
    \/ RecordSent(m)
    \/ RecordFailure(m)

Deliver(m) == Attempt(m) \/ StatementFails(m) \/ WorkerDies(m)

-----------------------------------------------------------------------------
(* Properties.                                                              *)

\* The record can be trusted: no mail leaves uncounted and none is reported
\* sent that was not, whatever fails between two statements; and as long as
\* nothing failed there is at most one mail, and a delivery recorded as failed
\* sent none (PRD FR55: "recorded and retried").
LogIsTruthful ==
    \A m \in Messages :
        /\ mails[m] <= log[m].attempts
        /\ log[m].status = "sent" => mails[m] > 0
        /\ m \notin shaken => /\ mails[m] <= 1
                              /\ log[m].status = "failed" /\ task[m].pc # "accepted" => mails[m] = 0
=============================================================================
