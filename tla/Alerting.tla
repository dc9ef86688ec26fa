------------------------------ MODULE Alerting ------------------------------
(***************************************************************************)
(* The watch over the booking guarantee: the schema assertion, which reads *)
(* the constraint (backend/kairos/core/schema_assertion.py), and the       *)
(* reconciliation, which reads the rows (core/reconciliation.py); their    *)
(* heartbeats (core/heartbeat.py); the periodic evaluation that opens and  *)
(* resolves alerts (core/alerting.py), to the hand-over of each firing's   *)
(* mail to the broker.  Delivery has what becomes of it from there.  The   *)
(* other six keys differ in what they read and go through the same         *)
(* fire_or_resolve.                                                        *)
(***************************************************************************)
EXTENDS BookingTable, Sequences

CONSTANTS Keys,       \* the alert keys, in the order in which they are evaluated
          Writes,     \* the ranges that are written, each with its status
          MaxEvents,  \* ids of alert events (one whose event is resolved serves again)
          Evaluators, \* runs of evaluate_alerts at one time
          MaxChanges, \* bound: times someone changes the constraint
          MaxDeaths   \* bound: evaluations that die

Checks    == {"schema_assertion", "reconciliation"}
KeySet    == {Keys[i] : i \in DOMAIN Keys}
EventIds  == 1..MaxEvents

ASSUME AlertingAssumption ==
    /\ Keys \in Seq(KeySet) /\ Keys # <<>>
    /\ KeySet \subseteq Checks
    /\ Writes \subseteq Range \X {"confirmed", "held"}
    /\ MaxEvents \in Nat /\ MaxEvents >= Cardinality(KeySet) + Cardinality(Evaluators) - 1
    /\ MaxChanges \in Nat
    /\ MaxDeaths \in Nat

VARIABLES constraint, \* no_overlapping_bookings as the catalog has it
          changes,    \* how often it was changed; the first change removes it
          checks,     \* the latest system_check_run of every check
          events,     \* alert_event rows that are open (resolved_at IS NULL)
          evals,      \* evaluations at work
          deaths      \* how many of them died

watchVars == <<bookings, constraint, changes, checks>>
alertVars == <<watchVars, events, evals, deaths>>

NoRun   == [status |-> "none", old |-> TRUE]
NoEvent == "none"
Resting == [step |-> "resting"]

AlertingInit ==
    /\ bookings = [b \in BookingIds |-> Absent]
    /\ constraint = "whole"
    /\ changes = 0
    /\ checks = [c \in Checks |-> NoRun]
    /\ events = [m \in EventIds |-> NoEvent]
    /\ evals = [e \in Evaluators |-> Resting]
    /\ deaths = 0

-----------------------------------------------------------------------------
(* The booking table under the constraint there is.                         *)

\* What the constraint demands of two rows, by its definition in the catalog.
Guarded(row) ==
    CASE constraint = "whole"          -> row.status \in {"confirmed", "held"}
      [] constraint = "confirmed_only" -> row.status = "confirmed"
      [] constraint = "missing"        -> FALSE

Admits(row) ==
    Guarded(row) => \A b \in BookingIds :
                        (Guarded(bookings[b]) /\ bookings[b].resource = row.resource)
                            => ~Overlaps(bookings[b].range, row.range)

\* Any writer of the table: the INSERT of a booking or a hold.
WriteRow(r, u, p, st) ==
    LET row == NewRow(r, u, p, NoSeries, st, 0)
    IN  /\ Admits(row)
        /\ \E b \in FreshIds(bookings) : bookings' = [bookings EXCEPT ![b] = row]
        /\ UNCHANGED <<constraint, changes, checks, events, evals, deaths>>

FreeRow(b) ==
    /\ InTable(bookings[b])
    /\ bookings[b].status # "cancelled"
    /\ bookings' = AfterRelease(bookings, b)
    /\ UNCHANGED <<constraint, changes, checks, events, evals, deaths>>

\* The query of find_overlapping_active_bookings: pairs, by the operator &&.
OverlappingPairs ==
    {pair \in BookingIds \X BookingIds :
        LET b == bookings[pair[1]]
            c == bookings[pair[2]]
        IN  /\ pair[1] < pair[2]
            /\ b.status \in {"confirmed", "held"}
            /\ c.status \in {"confirmed", "held"}
            /\ b.resource = c.resource
            /\ Overlaps(b.range, c.range)}

\* A migration, a restore or an operator changes the constraint.  It can be
\* put back only over rows that satisfy it.
ChangeConstraint(c) ==
    /\ changes < MaxChanges
    /\ c # constraint
    /\ c = "whole" => OverlappingPairs = {}
    /\ c = "confirmed_only" =>
          \A pair \in OverlappingPairs :
              ~(bookings[pair[1]].status = "confirmed" /\ bookings[pair[2]].status = "confirmed")
    /\ constraint' = c
    /\ changes' = changes + 1
    /\ UNCHANGED <<bookings, checks, events, evals, deaths>>

-----------------------------------------------------------------------------
(* The checks write a run, pass or fail, each time.                         *)

Records(c, ok) ==
    /\ checks' = [checks EXCEPT ![c] = [status |-> IF ok THEN "pass" ELSE "fail", old |-> FALSE]]
    /\ UNCHANGED <<bookings, constraint, changes, events, evals, deaths>>

\* Fault: the constraint is looked up by name, not by definition.
ExistenceAlone == Records("schema_assertion", constraint # "missing")

\* check_schema_assertion: the definition exists and names both statuses.
CheckSchemaAssertion == Records("schema_assertion", constraint = "whole")

\* Fault: an overlap definition that counts adjacent ranges (RUNBOOK-01 #4).
AdjacentCounts ==
    Records("reconciliation",
            \A b, c \in BookingIds :
                (/\ b < c
                 /\ bookings[b].status \in {"confirmed", "held"}
                 /\ bookings[c].status \in {"confirmed", "held"})
                    => \/ bookings[b].range[2] < bookings[c].range[1]
                       \/ bookings[c].range[2] < bookings[b].range[1])

CheckReconciliation == Records("reconciliation", OverlappingPairs = {})

\* The latest run becomes older than the threshold of heartbeat_is_stale.
Ages ==
    /\ checks["schema_assertion"] # NoRun
    /\ checks' = [checks EXCEPT !["schema_assertion"].old = TRUE]
    /\ UNCHANGED <<bookings, constraint, changes, events, evals, deaths>>

-----------------------------------------------------------------------------
(* evaluate_alerts: key after key, each through fire_or_resolve.            *)

\* No evidence of health is not health: a missing run is a stale one.
Active(k) ==
    \/ checks[k].status = "fail"
    \/ k = "schema_assertion" /\ checks[k].old

OpenEvents(k) == {m \in EventIds : events[m] = k}

\* The id of a new event: of none that is open or that an evaluation has read.
FreshEvents ==
    LET unknown == {m \in EventIds : /\ events[m] = NoEvent
                                     /\ \A e \in Evaluators :
                                           evals[e].step = "write" => evals[e].open # m}
    IN  {m \in unknown : \A n \in unknown : m <= n}

\* The next key, or the end of the run.
Advanced(e) ==
    [evals EXCEPT ![e] = IF evals[e].at < Len(Keys)
                         THEN [step |-> "look", at |-> evals[e].at + 1] ELSE Resting]

StartEvaluation(e) ==
    /\ evals[e] = Resting
    /\ evals' = [evals EXCEPT ![e] = [step |-> "look", at |-> 1]]
    /\ UNCHANGED <<watchVars, events, deaths>>

\* The condition and the open event, read before anything is written.
Look(e) ==
    /\ evals[e].step = "look"
    /\ LET k == Keys[evals[e].at]
       IN  evals' = [evals EXCEPT ![e] =
              [step |-> "write", at |-> evals[e].at, active |-> Active(k),
               open |-> IF OpenEvents(k) = {} THEN 0 ELSE CHOOSE m \in OpenEvents(k) : TRUE]]
    /\ UNCHANGED <<watchVars, events, deaths>>

\* Fault: an alert stays open until someone closes it.
NeverResolved(e) ==
    /\ evals[e].step = "write"
    /\ ~(evals[e].active /\ evals[e].open = 0)
    /\ evals' = Advanced(e)
    /\ UNCHANGED <<watchVars, events, deaths>>

\* Not active: the UPDATE of the event that was open when it was read.
ResolveOrRest(e) ==
    /\ evals[e].step = "write"
    /\ ~(evals[e].active /\ evals[e].open = 0)
    /\ events' = IF evals[e].active \/ evals[e].open = 0 THEN events
                 ELSE [events EXCEPT ![evals[e].open] = NoEvent]
    /\ evals' = Advanced(e)
    /\ UNCHANGED <<watchVars, deaths>>

\* A new event, if uniq_open_alert_per_key admits it; then its mail.
Fire(e) ==
    /\ evals[e].step = "write"
    /\ evals[e].active
    /\ evals[e].open = 0
    /\ OpenEvents(Keys[evals[e].at]) = {}
    /\ \E m \in FreshEvents :
          /\ events' = [events EXCEPT ![m] = Keys[evals[e].at]]
          /\ evals' = [evals EXCEPT ![e] = [step |-> "mail", at |-> evals[e].at]]
    /\ UNCHANGED <<watchVars, deaths>>

\* Another evaluation has fired the key since: the duplicate-key error ends
\* this one, and the keys behind it wait for the next.
FiredByAnother(e) ==
    /\ evals[e].step = "write"
    /\ evals[e].active
    /\ evals[e].open = 0
    /\ OpenEvents(Keys[evals[e].at]) # {}
    /\ evals' = [evals EXCEPT ![e] = Resting]
    /\ UNCHANGED <<watchVars, events, deaths>>

\* The mail is handed over, or lost to a broker outage that is swallowed.
SendAlert(e) ==
    /\ evals[e].step = "mail"
    /\ evals' = Advanced(e)
    /\ UNCHANGED <<watchVars, events, deaths>>

\* The worker dies, or a statement raises.
EvaluationDies(e) ==
    /\ deaths < MaxDeaths
    /\ evals[e] # Resting
    /\ deaths' = deaths + 1
    /\ evals' = [evals EXCEPT ![e] = Resting]
    /\ UNCHANGED <<watchVars, events>>

Evaluate(e) ==
    \/ StartEvaluation(e)
    \/ Look(e)
    \/ ResolveOrRest(e)
    \/ Fire(e)
    \/ FiredByAnother(e)
    \/ SendAlert(e)

AlertingNext ==
    \/ \E r \in Resources, u \in Users, w \in Writes : WriteRow(r, u, w[1], w[2])
    \/ \E b \in BookingIds : FreeRow(b)
    \/ \E c \in {"whole", "confirmed_only", "missing"} : ChangeConstraint(c)
    \/ CheckSchemaAssertion
    \/ CheckReconciliation
    \/ Ages
    \/ \E e \in Evaluators : Evaluate(e) \/ EvaluationDies(e)

AlertingSpec == AlertingInit /\ [][AlertingNext]_alertVars

\* The beat schedules the checks and the evaluation without end, and a worker
\* goes on with what it has taken.
FairAlertingSpec ==
    /\ AlertingSpec
    /\ WF_alertVars(CheckSchemaAssertion)
    /\ WF_alertVars(CheckReconciliation)
    /\ \A e \in Evaluators : WF_alertVars(Evaluate(e))

-----------------------------------------------------------------------------
(* Properties.                                                              *)

\* A hit of the reconciliation means that the guarantee was removed, never that
\* writers raced: without a removal there is no such alert (RFC 14,
\* RECONCILIATION_FAILURE_MESSAGE).
HitMeansRemoved ==
    (OpenEvents("reconciliation") # {}) => changes > 0

\* A guarantee that stays removed is reported, and stays so: the schema
\* assertion's alert is open for good, whatever evaluations overlap or die.
RemovalIsReported ==
    <>[](constraint # "whole")
        => <>[](OpenEvents("schema_assertion") # {})

\* An alert does not outlive its condition: when the guarantee is whole for
\* good and the check runs in time, its alert is resolved in the end.
AllClearIsReported ==
    <>[](constraint = "whole" /\ ~checks["schema_assertion"].old)
        => <>[](OpenEvents("schema_assertion") = {})
=============================================================================
