--------------------------- MODULE RecurringSeries ---------------------------
(***************************************************************************)
(* Weekly series beside the booking table: preview and confirm             *)
(* (backend/kairos/bookings/recurring_series.py), and the two background   *)
(* jobs of backend/kairos/bookings/tasks.py, which extend series to the    *)
(* moving horizon and move their occurrences when the timezone rules       *)
(* change.  None of the three runs in one transaction: every occurrence is *)
(* a booking transaction of its own, the series row is written before or   *)
(* after them, and other requests, other runs and crashes come in between. *)
(*                                                                         *)
(* Dates are the ordinals of the occurrences.  A release of the tz         *)
(* database is a number; what it makes of a date is the constant Rule.  A  *)
(* preview token is named by the series it is the first to become.         *)
(***************************************************************************)
EXTENDS Bookings

CONSTANTS Count,     \* occurrence_count of every series
          Week,      \* seven days, in clock ticks
          Nearby,    \* the two days within which a booking matches an occurrence
          MaxRelease, \* the last release of the tz database
          Rule,      \* release -> date -> shift of the occurrence under its rules
          Advance,   \* MAX_ADVANCE_HORIZON_DAYS
          TokenTTL,  \* PREVIEW_TOKEN_TTL_SECONDS
          Workers,   \* runs of the background jobs at one time
          MaxStops,  \* bound: jobs and confirms that are cut off
          UserSlots  \* bound: the ranges users book and move bookings to

Dates    == 1..Count
Releases == 0..MaxRelease

ASSUME SeriesAssumption ==
    /\ Count \in Nat \ {0}
    /\ Nearby \in Nat /\ Week \in Nat /\ 3 * Nearby < Week
    /\ MaxRelease \in Nat
    /\ Rule \in [Releases -> [Dates -> 0..Nearby]]
    /\ Week * (Count - 1) + Nearby < Horizon
    /\ Advance \in Nat
    /\ TokenTTL \in Nat
    /\ MaxStops \in Nat
    /\ UserSlots \subseteq Range

VARIABLES series,      \* recurring_series rows
          previews,    \* the preview tokens handed out, the last for each series
          confirming,  \* confirms at work
          jobs,        \* runs of the background jobs at work
          installed,   \* the release of the running processes
          stops,       \* how many runs were cut off
          met,         \* history: dates attempted, or acknowledged as taken
          cut,         \* history: series whose confirm was cut off
          lagging,     \* history: series whose watermark fell behind what was booked
          edited       \* history: rows their owner has moved

seriesVars == <<bookings, offered, now, series, previews, confirming, jobs,
                installed, stops, met, cut, lagging, edited>>
histories == <<met, cut, lagging, edited>>

NoRow     == [state |-> "none"]
NoPreview == [state |-> "none"]
NoConfirm == [state |-> "none"]
Idle      == [job |-> "none"]

\* expand_occurrences under a release.
Occurrence(v, d) == LET a == Week * (d - 1) + Rule[v][d] IN <<a, a + 1>>

SeriesRow == [resource : Resources, owner : Users, through : 0..Count, version : Releases]
Preview   == [resource : Resources, user : Users, at : Times, conflicts : SUBSET Dates]
Confirm   == [version : Releases, left : SUBSET Dates]
Rolling   == [job : {"rolling"}, version : Releases, due : [Series -> SUBSET Dates],
              current : Series \cup {NoSeries}, through : 0..Count]
Target    == [row : BookingIds, date : Dates]
Remat     == [job : {"remat"}, version : Releases, asof : Times, queue : SUBSET Series,
              current : Series \cup {NoSeries}, targets : SUBSET Target,
              conflict : BOOLEAN]

SeriesTypeOK ==
    /\ TypeOK
    /\ series \in [Series -> SeriesRow \cup {NoRow}]
    /\ previews \in [Series -> Preview \cup {NoPreview}]
    /\ confirming \in [Series -> Confirm \cup {NoConfirm}]
    /\ jobs \in [Workers -> Rolling \cup Remat \cup {Idle}]
    /\ installed \in Releases
    /\ stops \in 0..MaxStops
    /\ met \in [Series -> SUBSET Dates]
    /\ cut \subseteq Series
    /\ lagging \subseteq Series
    /\ edited \subseteq BookingIds

\* A series is there from the start, materialized up to a date (the rows the
\* rolling job is written for), or is confirmed later.
SeriesInit ==
    /\ Init
    /\ installed = 0
    /\ series \in [Series -> {NoRow} \cup [resource : Resources, owner : Users,
                                           through : 0..Count, version : {0}]]
    /\ met = [s \in Series |-> IF series[s] = NoRow THEN {} ELSE 1..series[s].through]
    /\ previews = [s \in Series |-> NoPreview]
    /\ confirming = [s \in Series |-> NoConfirm]
    /\ jobs = [w \in Workers |-> Idle]
    /\ stops = 0
    /\ cut = {}
    /\ lagging = {}
    /\ edited = {}

Exists(s) == series[s] # NoRow

FirstOf(D) == {d \in D : \A e \in D : d <= e}

-----------------------------------------------------------------------------
(* One occurrence: create_booking in its own transaction, by the owner or   *)
(* for the owner by the system; SlotUnavailableError is passed over.        *)

CreateOccurrence(s, r, u, v, d) ==
    CreateBooking(r, u, Occurrence(v, d), s, "confirmed")

Taken(r, v, d) ==
    /\ ~Excludes(AfterCleanup(bookings, r, Occurrence(v, d), now), BookingIds, r,
                 Occurrence(v, d))
    /\ UNCHANGED bookingVars

AttemptOccurrence(s, v, d) ==
    LET row == series[s]
    IN  /\ \/ CreateOccurrence(s, row.resource, row.owner, v, d)
           \/ Taken(row.resource, v, d)
        /\ met' = [met EXCEPT ![s] = @ \cup {d}]

-----------------------------------------------------------------------------
(* Preview and confirm.                                                     *)

\* preview_recurring_series: a read-only look at availability, its result in
\* the token.
PreviewSeries(s, r, u) ==
    /\ ~Exists(s)
    /\ Occurrence(installed, Count)[1] <= now + Advance
    /\ previews' = [previews EXCEPT ![s] =
          [resource |-> r, user |-> u, at |-> now,
           conflicts |-> {d \in Dates :
                             ~Excludes(bookings, BookingIds, r, Occurrence(installed, d))}]]
    /\ UNCHANGED <<bookingVars, series, confirming, jobs, installed, stops, histories>>

\* confirm_recurring_series, its first statement: the row, with the watermark
\* already at the last date.  What the preview had in conflict, and the user
\* has acknowledged, is never attempted.
\* The token may have become a series before: only the idempotency key knows.
ConfirmSeries(s, q) ==
    /\ ~Exists(s)
    /\ previews[q] # NoPreview
    /\ now < previews[q].at + TokenTTL
    /\ series' = [series EXCEPT ![s] =
          [resource |-> previews[q].resource, owner |-> previews[q].user,
           through |-> Count, version |-> installed]]
    /\ confirming' = [confirming EXCEPT ![s] =
          [version |-> installed, left |-> Dates \ previews[q].conflicts]]
    /\ met' = [met EXCEPT ![s] = previews[q].conflicts]
    /\ UNCHANGED <<bookingVars, previews, jobs, installed, stops, cut, lagging, edited>>

ConfirmOccurrence(s) ==
    /\ confirming[s] # NoConfirm
    /\ \E d \in FirstOf(confirming[s].left) :
          /\ AttemptOccurrence(s, confirming[s].version, d)
          /\ confirming' = [confirming EXCEPT ![s].left = @ \ {d}]
    /\ UNCHANGED <<series, previews, jobs, installed, stops, cut, lagging, edited>>

ConfirmAnswers(s) ==
    /\ confirming[s] # NoConfirm
    /\ confirming[s].left = {}
    /\ confirming' = [confirming EXCEPT ![s] = NoConfirm]
    /\ UNCHANGED <<bookingVars, series, previews, jobs, installed, stops, histories>>

\* The process dies, or an occurrence raises anything but slot_unavailable.
ConfirmStops(s) ==
    /\ stops < MaxStops
    /\ confirming[s] # NoConfirm
    /\ confirming' = [confirming EXCEPT ![s] = NoConfirm]
    /\ cut' = cut \cup {s}
    /\ stops' = stops + 1
    /\ UNCHANGED <<bookingVars, series, previews, jobs, installed, met, lagging, edited>>

-----------------------------------------------------------------------------
(* rolling_materialize_series.                                              *)

\* Fault: the date of the watermark is taken once more.
DueAgain(s) ==
    IF Exists(s)
    THEN {d \in Dates : /\ d >= series[s].through
                        /\ Occurrence(installed, d)[1] <= now + Advance}
    ELSE {}

\* The dates to materialize, from the rows as they are when the run starts.
Due(s) ==
    IF Exists(s)
    THEN {d \in Dates : /\ d > series[s].through
                        /\ Occurrence(installed, d)[1] <= now + Advance}
    ELSE {}

StartRolling(w) ==
    /\ jobs[w] = Idle
    /\ \E s \in Series : Due(s) # {}
    /\ jobs' = [jobs EXCEPT ![w] =
          [job |-> "rolling", version |-> installed, due |-> [s \in Series |-> Due(s)],
           current |-> NoSeries, through |-> 0]]
    /\ UNCHANGED <<bookingVars, series, previews, confirming, installed, stops, histories>>

\* The next occurrence of the series at work, booked or passed over.
RollOccurrence(w, s) ==
    /\ jobs[w].job = "rolling"
    /\ jobs[w].current \in {NoSeries, s}
    /\ \E d \in FirstOf(jobs[w].due[s]) :
          /\ AttemptOccurrence(s, jobs[w].version, d)
          /\ jobs' = [jobs EXCEPT ![w].due[s] = @ \ {d}, ![w].current = s, ![w].through = d]
    /\ UNCHANGED <<series, previews, confirming, installed, stops, cut, lagging, edited>>

\* Fault: the watermark goes to the last date, attempted or not.
AdvanceToTheEnd(w) ==
    /\ jobs[w].job = "rolling"
    /\ LET s == jobs[w].current
       IN  /\ s # NoSeries
           /\ jobs[w].due[s] = {}
           /\ series' = [series EXCEPT ![s].through = Count]
           /\ jobs' = [jobs EXCEPT ![w].current = NoSeries]
    /\ UNCHANGED <<bookingVars, previews, confirming, installed, stops, histories>>

\* The watermark, when the last due occurrence of the series was attempted: the
\* date this run has come to, also when another run has come further since.
AdvanceWatermark(w) ==
    /\ jobs[w].job = "rolling"
    /\ LET s == jobs[w].current
       IN  /\ s # NoSeries
           /\ jobs[w].due[s] = {}
           /\ series' = [series EXCEPT ![s].through = jobs[w].through]
           /\ lagging' = IF jobs[w].through < series[s].through THEN lagging \cup {s} ELSE lagging
           /\ jobs' = [jobs EXCEPT ![w].current = NoSeries]
    /\ UNCHANGED <<bookingVars, previews, confirming, installed, stops, met, cut, edited>>

RollingEnds(w) ==
    /\ jobs[w].job = "rolling"
    /\ jobs[w].current = NoSeries
    /\ \A s \in Series : jobs[w].due[s] = {}
    /\ jobs' = [jobs EXCEPT ![w] = Idle]
    /\ UNCHANGED <<bookingVars, series, previews, confirming, installed, stops, histories>>

-----------------------------------------------------------------------------
(* rematerialize_stale_series.                                              *)

StartRemat(w) ==
    /\ jobs[w] = Idle
    /\ \E s \in Series : Exists(s) /\ series[s].version # installed
    /\ jobs' = [jobs EXCEPT ![w] =
          [job |-> "remat", version |-> installed, asof |-> now,
           queue |-> {s \in Series : Exists(s) /\ series[s].version # installed},
           current |-> NoSeries, targets |-> {}, conflict |-> FALSE]]
    /\ UNCHANGED <<bookingVars, series, previews, confirming, installed, stops, histories>>

Distance(a, b) == IF a < b THEN b - a ELSE a - b

\* The confirmed occurrences to come that are near to an occurrence of the
\* definition but not on it.
Misplaced(s, v, t) ==
    {e \in Target :
        /\ bookings[e.row].status = "confirmed"
        /\ bookings[e.row].series = s
        /\ bookings[e.row].range[1] >= t
        /\ Distance(bookings[e.row].range[1], Occurrence(v, e.date)[1]) <= Nearby
        /\ bookings[e.row].range # Occurrence(v, e.date)}

\* The bookings of one series are read once and worked off from that read.
ReadOccurrences(w, s) ==
    /\ jobs[w].job = "remat"
    /\ jobs[w].current = NoSeries
    /\ s \in jobs[w].queue
    /\ jobs' = [jobs EXCEPT ![w].queue = @ \ {s}, ![w].current = s, ![w].conflict = FALSE,
                            ![w].targets = Misplaced(s, jobs[w].version, jobs[w].asof)]
    /\ UNCHANGED <<bookingVars, series, previews, confirming, installed, stops, histories>>

\* edit_booking by the system: an UPDATE by id, whatever has become of the row
\* since it was read.  A conflict is recorded and passed over.
MoveOccurrence(w, e) ==
    /\ jobs[w].job = "remat"
    /\ e \in jobs[w].targets
    /\ LET p == Occurrence(jobs[w].version, e.date)
       IN  \/ /\ Fits(e.row, p)
              /\ bookings' = [bookings EXCEPT ![e.row] = [@ EXCEPT !.range = p]]
              /\ jobs' = [jobs EXCEPT ![w].targets = @ \ {e}]
           \/ /\ ~Fits(e.row, p)
              /\ jobs' = [jobs EXCEPT ![w].targets = @ \ {e}, ![w].conflict = TRUE]
              /\ UNCHANGED bookings
    /\ UNCHANGED <<offered, now, series, previews, confirming, installed, stops, histories>>

\* Fault: the new release is recorded although an occurrence could not be moved.
StampAnyway(w) ==
    /\ jobs[w].job = "remat"
    /\ LET s == jobs[w].current
       IN  /\ s # NoSeries
           /\ jobs[w].targets = {}
           /\ series' = [series EXCEPT ![s].version = jobs[w].version]
           /\ jobs' = [jobs EXCEPT ![w].current = NoSeries]
    /\ UNCHANGED <<bookingVars, previews, confirming, installed, stops, histories>>

\* Fault: a series once met with a conflict is left to its owner for good.
StampNever(w) ==
    /\ jobs[w].job = "remat"
    /\ jobs[w].current # NoSeries
    /\ jobs[w].targets = {}
    /\ jobs' = [jobs EXCEPT ![w].current = NoSeries]
    /\ UNCHANGED <<bookingVars, series, previews, confirming, installed, stops, histories>>

\* The release is recorded only for a series that had no conflict; the others
\* stay stale and are tried again by the next run.
StampSeries(w) ==
    /\ jobs[w].job = "remat"
    /\ LET s == jobs[w].current
       IN  /\ s # NoSeries
           /\ jobs[w].targets = {}
           /\ series' = IF jobs[w].conflict THEN series
                        ELSE [series EXCEPT ![s].version = jobs[w].version]
           /\ jobs' = [jobs EXCEPT ![w].current = NoSeries]
    /\ UNCHANGED <<bookingVars, previews, confirming, installed, stops, histories>>

RematEnds(w) ==
    /\ jobs[w].job = "remat"
    /\ jobs[w].current = NoSeries
    /\ jobs[w].queue = {}
    /\ jobs' = [jobs EXCEPT ![w] = Idle]
    /\ UNCHANGED <<bookingVars, series, previews, confirming, installed, stops, histories>>

\* The series that the rolling runs W are in the middle of.
RolledBy(W) == {jobs[w].current : w \in {v \in W : jobs[v].job = "rolling"}} \ {NoSeries}

\* A worker dies, or an occurrence raises anything but slot_unavailable.
JobStops(w) ==
    /\ stops < MaxStops
    /\ jobs[w] # Idle
    /\ jobs' = [jobs EXCEPT ![w] = Idle]
    /\ lagging' = lagging \cup RolledBy({w})
    /\ stops' = stops + 1
    /\ UNCHANGED <<bookingVars, series, previews, confirming, installed, met, cut, edited>>

\* A deployment with the next release of the tz database: the processes are
\* restarted, and what they were at stops.
Upgrade ==
    /\ installed + 1 \in Releases
    /\ installed' = installed + 1
    /\ jobs' = [w \in Workers |-> Idle]
    /\ confirming' = [s \in Series |-> NoConfirm]
    /\ cut' = cut \cup {s \in Series : confirming[s] # NoConfirm}
    /\ lagging' = lagging \cup RolledBy(Workers)
    /\ UNCHANGED <<bookingVars, series, previews, stops, met, edited>>

-----------------------------------------------------------------------------
(* The users: one-off bookings, edits and cancellations beside the jobs.    *)

UserBooks(r, u, p) ==
    /\ Book(r, u, p, NoSeries)
    /\ UNCHANGED <<series, previews, confirming, jobs, installed, stops, histories>>

\* Bound: every row is moved by its owner at most once.
UserEdits(u, b, p) ==
    /\ b \notin edited
    /\ Edit(u, b, p)
    /\ edited' = edited \cup {b}
    /\ UNCHANGED <<series, previews, confirming, jobs, installed, stops, met, cut, lagging>>

UserCancels(b) ==
    /\ Cancel(b)
    /\ UNCHANGED <<series, previews, confirming, jobs, installed, stops, histories>>

\* cancel_recurring_series: the bookings; the series row stays as it is.
UserCancelsSeries(s) ==
    /\ Exists(s)
    /\ CancelSeries(s)
    /\ UNCHANGED <<series, previews, confirming, jobs, installed, stops, histories>>

TimePasses ==
    /\ Tick
    /\ UNCHANGED <<series, previews, confirming, jobs, installed, stops, histories>>

JobStep(w) ==
    \/ StartRolling(w)
    \/ \E s \in Series : RollOccurrence(w, s)
    \/ AdvanceWatermark(w)
    \/ RollingEnds(w)
    \/ StartRemat(w)
    \/ \E s \in Series : ReadOccurrences(w, s)
    \/ \E e \in Target : MoveOccurrence(w, e)
    \/ StampSeries(w)
    \/ RematEnds(w)

UserStep ==
    \/ \E s \in Series, r \in Resources, u \in Users : PreviewSeries(s, r, u)
    \/ \E s, q \in Series : ConfirmSeries(s, q)
    \/ \E s \in Series : ConfirmOccurrence(s)
    \/ \E s \in Series : ConfirmAnswers(s)
    \/ \E r \in Resources, u \in Users, p \in UserSlots : UserBooks(r, u, p)
    \/ \E u \in Users, b \in BookingIds, p \in UserSlots : UserEdits(u, b, p)
    \/ \E b \in BookingIds : UserCancels(b)
    \/ \E s \in Series : UserCancelsSeries(s)

SeriesNext ==
    \/ \E w \in Workers : JobStep(w) \/ JobStops(w)
    \/ UserStep
    \/ \E s \in Series : ConfirmStops(s)
    \/ Upgrade
    \/ TimePasses

SeriesSpec == SeriesInit /\ [][SeriesNext]_seriesVars

\* The beat starts the jobs again and again, and a run that is not cut off goes
\* on.  Nothing is assumed of users, deployments and the clock.
FairSeriesSpec == SeriesSpec /\ \A w \in Workers : WF_seriesVars(JobStep(w))

-----------------------------------------------------------------------------
(* Properties.                                                              *)

\* The watermark never passes a date over: each date up to it was booked, or
\* refused, or acknowledged as taken, whatever runs were cut off or overlapped.
\* (A confirm writes its watermark first: while it is at work, and after it was
\* cut off, the watermark promises what is not there.)
NoDatePassedOver ==
    \A s \in Series :
        (Exists(s) /\ confirming[s] = NoConfirm /\ s \notin cut)
            => 1..series[s].through \subseteq met[s]

\* No occurrence is left behind: the occurrences to come of a series recorded
\* under a release are where that release or a later one has them, however the
\* two jobs, confirms, cancellations and bookings of others interleave.  Only a
\* row its owner has moved may be elsewhere.
NoneLeftBehind ==
    \A s \in Series, b \in BookingIds :
        (/\ Exists(s)
         /\ bookings[b].status = "confirmed"
         /\ bookings[b].series = s
         /\ bookings[b].range[1] >= now
         /\ b \notin edited)
            => \E v \in Releases, d \in Dates :
                  v >= series[s].version /\ bookings[b].range = Occurrence(v, d)

\* An occurrence that is not where the installed release has it, and whose
\* place somebody else has.
Blocked(s) ==
    \E e \in Misplaced(s, installed, now) : ~Fits(e.row, Occurrence(installed, e.date))

\* A stale series does not stay stale unless a conflict waits for its people:
\* every conflict is retried by the runs to come (PRD FR13, FR13b).
StaleIsResolved ==
    \A s \in Series :
        []<>(\/ ~Exists(s)
             \/ series[s].version = installed
             \/ Blocked(s)
             \/ FreshIds(bookings) = {})

\* Each date of a series is booked at most once, whatever release booked it,
\* moved it and runs again.  Not so where the watermark fell behind, when a
\* rolling run was cut off before it or a slower run set it back: the next
\* release may book a date behind it a second time.
OneBookingPerDate ==
    \A s \in Series \ lagging, b, c \in BookingIds \ edited :
        (/\ b # c
         /\ {bookings[b].status, bookings[c].status} = {"confirmed"}
         /\ bookings[b].series = s
         /\ bookings[c].series = s)
            => Distance(bookings[b].range[1], bookings[c].range[1]) > Nearby
=============================================================================
