# Kairos booking engine: a TLA+ verification project

Kairos (`src/backend/kairos`, Django on PostgreSQL, Celery on Redis) books resources for
users, keeps a waitlist for taken slots, expands recurring bookings and answers retried
requests from a table of idempotency keys. Correctness rests on the database: one exclusion
constraint on the booking table, guarded UPDATEs, and unique keys. The services read no
availability before they write. This directory models the engine and the calendar page of its
frontend, model-checks them with TLC and proves the main invariants with TLAPS.

Paths below are relative to `src/backend/kairos` unless they start with `src/`.

## 1. The system

| Component | State | Operations | Modules |
|---|---|---|---|
| Booking table and write path (`bookings/services.py`, `bookings/models.py`, migration 0002) | rows (resource, user, range, series, status, `expires_at`) under `no_overlapping_bookings` and `hold_has_expiry` | create with cleanup-on-write, edit, cancel, series cancel, transfer; the waitlist's accept, decline, reclaim of a hold; lists page by page (`core/pagination.py`) | TimeRanges, BookingTable, Bookings, BookingRequests, BookingPages; Calendar (abstract) |
| Waitlist (`waitlist/services.py`, `waitlist/tasks.py`) | entries, offers, cascade tasks in the broker, where each worker and sweep stands | join (check, insert), withdraw, the cascade worker statement by statement, accept, decline, sweep | Waitlist |
| Idempotency keys (`core/idempotency.py`) | key rows, where each request stands | claim, replay, write and record, refuse and record, recurring confirm, cleanup | Idempotency |
| Recurring series (`bookings/recurring_series.py`, `bookings/tasks.py`) | series rows with watermark and tz version, preview tokens, where each confirm and each run of a job stands | preview, confirm, rolling materialization, re-materialization, a deployment with new tz rules | RecurringSeries (over Bookings) |
| Expansion and time zones (`bookings/recurrence.py`, `core/timezones.py`) | none (pure) | local time to instant, expansion, nearest match | Recurrence |
| Offboarding (`identity/services.py`) | user status, what the deactivating transaction has written and locked | deactivation statement by statement, its rollback, its callbacks after commit | Offboarding (with Delivery) |
| Notifications (`core/notifications.py`, `core/tasks.py`) | delivery record, Celery task, accepted mails | dispatch, attempt, retry | Delivery |
| Alerting (`core/alerting.py`, `core/schema_assertion.py`, `core/reconciliation.py`, `core/heartbeat.py`) | check runs and their age, open alerts, where each evaluation stands | the two checks, fire or resolve, mail | Alerting |
| Rate limiting (`core/rate_limit.py`) | buckets in Redis, the time a process has read | the Lua script, expiry, failing open | RateLimit |
| Authentication, authorization, resources (`identity/authentication.py`, `identity/authorization.py`, `resources/services.py`, the views) | user status, sessions, grants, resources, each process's request | authenticate, throttle, check, write | Gateway (over RateLimit) |
| Calendar page (`src/frontend/src/booking`, `src/frontend/src/api/client.ts`) | view, fetched and optimistic blocks, the call of a click | navigate, book, move, cancel, retry, late answers | CalendarPage |

How they interact. Every writer issues statements against the one booking table. A
cancellation or a decline dispatches, after its commit, a cascade task for the freed range; a
Celery worker (or the reaper, for a hold it has reclaimed) lists eligible entries, places a hold
through the same `create_booking` as everybody, writes the offer, and marks the entry. The
writes of the API run under an idempotency key: write and recorded outcome commit together, a
refusal is recorded in a transaction of its own, a recurring confirm commits claim, occurrences
and outcome separately. The two series jobs book and move rows as the system. A deactivation
touches bookings, offers, entries and series in one transaction and sends its messages after
the commit. Checks and alerts watch the constraint all of this rests on.

What is hard, and what makes each component correct:

- Booking table: writers commit in any order; acceptance, edit and hold placement never look at
  availability. Correct when no two live rows overlap, an unexpired hold is lost to nobody, a
  freed row never comes back, a refusal names a live row as its reason, and a list read page by
  page shows a booking that stays in it exactly once.
- Waitlist: four autocommitted statements per offer, a worker that dies or is overtaken between
  any two of them, candidates read once, three parties racing for a hold at its expiry, a broker
  that loses tasks. Correct when offer and hold tell one story, an offer is resolved once, a
  fulfilled user has the slot, no slot is on two outstanding offers, and nothing stays held for
  ever.
- Idempotency: requests overlap, crash and are retried before and after the retention. Correct
  when one key has one effect and one outcome, and a retry is not refused by what its own first
  attempt took.
- Series: nothing runs in one transaction; watermark and tz version are written before or after
  the occurrences they speak of. Correct when no date is passed over or booked twice and no
  occurrence stays behind under old rules.
- Offboarding: reads in one statement what it writes in a later one, while requests
  authenticated earlier still run. Correct when nothing of the user is left but what the code
  leaves on purpose or could not see any more, and nobody is told of what was rolled back.
- Delivery, Alerting: acknowledged before run, edge-triggered, any statement may be the last.
  Correct when records do not claim more than happened and alerts follow their condition.
- Gateway, RateLimit: rights change between check and write, clocks reach Redis out of order.
  Correct when nothing revoked before a request arrived acts through it, and a bucket never
  grants more than its rate and what disorder refills.
- Calendar page: answers come late and in another order, calls are retried. Correct when a
  refusal is true, a confirmed cancellation stays away, and the calendar looked at loads.

All hazards, each at its line with the properties about it, are `hazards` in PROJECT.json.

## 2. Modules and how they compose

```
            TimeRanges
             /      \
      Calendar <-- BookingTable  (rows, exclusion, statements as operators;
     (abstract)     /     |  \                     Abs == INSTANCE Calendar)
                   /      |   \---------\----------\
            Bookings      |    Alerting  CalendarPage  Offboarding --- Delivery
                  /    \  Waitlist
   BookingRequests      \    (Waitlist!BookingsOf == INSTANCE Bookings)
          |         RecurringSeries
     BookingPages

 RateLimit --- Gateway          Idempotency          Recurrence
```

- **TimeRanges**: the half-open ranges and ids that rows and abstract claims have in common.
- **BookingTable**: the table `bookings`, its row types (a held row, and only it, has an expiry), the predicate of
  the exclusion constraint, and each SQL statement as an operator from a table to a table.
  `Claims` is what the rows claim, and `ImplementsCalendar` the refinement of Calendar under
  `claims <- Claims`, for every module that extends this one.
- **Bookings**: one action per committed transaction. `CreateBooking` is DELETE and INSERT in
  one step with the conditions under which both commit. `offered` is the set of rows an offer
  refers to, all the booking table has to know of the waitlist.
- **BookingRequests**: Bookings plus the last answer; the refusals are steps, and the answer
  carries whether a live row was in the way.
- **BookingPages**: BookingRequests plus a client that reads a list. The server keeps nothing
  between two pages: `cursor` is the sort key of the last row, and `Rank` the order of the ids,
  which are random. `steady` is a history: the rows that stayed in the list, where they were.
- **Calendar**: the promise without mechanism: claims that are granted whole, displaced only
  while provisional, moved, made firm, handed over, given up. `Leave(u)` is an owner leaving:
  in one step some of its claims end and others go to new owners. Implemented by Bookings, the
  series jobs, Waitlist, Offboarding and CalendarPage.
- **Waitlist**: a worker's `pc` says which statement it has committed (`listing`, `holding`,
  `attaching`, `marking`); `sweeps` is the list a sweep has read and not finished; `checked` are
  joins that passed `slot_is_free` and have not inserted. Its rows implement Bookings with
  `offered <- Offered`.
- **Idempotency**: one action per commit; an uncommitted claim is the `pc` of its request. What
  is asked for is abstracted to `taken`: a slot or an offer is free, or somebody's.
- **RecurringSeries**: extends Bookings with the series rows. A date is its ordinal; a release
  of the tz rules is a number and `Rule` says what it makes of each date. `jobs[w]` is a run of
  a job with what it has read and not done; `confirming[s]` a confirm at work. `Upgrade` is a
  deployment: it restarts all processes, so runs of two releases never overlap. `met`, `cut`,
  `lagging`, `edited` are histories the properties need.
- **Recurrence**: a zone is one transition; `ExpandOccurrences` and `Closest` are the code's,
  `ShownAt` is the reference ("the first instant whose wall clock shows it").
- **Delivery**: one message per name, its Celery task, each statement of an attempt a step. A
  task is acknowledged when taken; only its own retries deliver it again.
- **Offboarding**: what the deactivating transaction has written is kept in `job` until the
  commit; rows it has written are locked, other statements on them wait. `missed` is a history:
  what came to a user after the deactivation had looked for it, cleared by a rollback, and the
  series whose message died with the process. All bookings are for one range and are not edited
  here; the waitlist's worker, sweep and acceptance are coarser than in Waitlist.
- **Alerting**: two checks, their staleness, overlapping evaluations key by key. The partial
  unique index on open alerts makes the second INSERT fail, which ends that evaluation.
- **RateLimit**: tokens are counted in parts of `1 / Window`, so that refilling stays whole. A
  check reads the clock, and its script runs at most `Delay` later.
- **Gateway**: a request is a job that goes through authentication, throttles (RateLimit's
  actions), permission check and write; other requests step in between. `waiting` is what the
  requests to join and leave a waitlist change.
- **CalendarPage**: one page of one user; everybody else writes to the table. `fetches` are
  availability requests on their way, `clicks` the calls with their retries under one key. The
  server answers as `cancel_booking` and `edit_booking` do: cancelling a cancelled booking is
  answered like the first time, and an edit writes the row whatever its status is.

Every `M_proofs` module extends `M` and holds the theorems about it. BookingTable_proofs holds
the lemmas about rows and statements that the others cite, and what follows from implementing
the calendar for whoever writes the table; BookingClients_proofs is about the modules that extend
Bookings (BookingRequests, BookingPages, RecurringSeries) and about Recurrence, Readers_proofs
about the two that watch a table others write (CalendarPage, Alerting), Gateway_proofs about
RateLimit too.

Operators marked "Fault:" are part of no specification. Each is a plausible mistake in the
definition that follows it, used to confirm that a property notices it (`mutants` in
PROJECT.json).

## 3. Modelling assumptions

- One action is one committed transaction or one autocommitted statement. That is sound because
  every check the code relies on is made by the database at write time: the exclusion
  constraint waits for an overlapping uncommitted row, a guarded UPDATE rechecks its WHERE after
  a lock wait, an INSERT of a key waits for an uncommitted duplicate. Reads that precede a write
  in another transaction are actions of their own. Offboarding, whose one transaction reads and
  writes many rows, is modelled statement by statement (READ COMMITTED) with its row locks.
- Row ids, entries and requests are never reused; entries are numbered in `joined_at` order.
- Celery runs without `acks_late`: a dead worker's task is gone. A dispatch puts the task in the
  broker or loses it. Faults are counted against a bound (`MaxFaults`, `MaxStops`, `MaxDeaths`).
- The cascade of a hold the reaper has reclaimed runs in the reaper's process, and an exception
  in it ends the sweep.
- `Tick` of Idempotency does not move while a recurring confirm is as old as the retention
  (24 hours).
- `PromptWorkers`, where a configuration sets it, keeps the clock still between a worker's hold
  and its last statement; only `waitlist_fair` sets it, for its liveness. `HoldReserve` there leaves ids for
  holds, so that a bounded set of ids does not block the cascade.
- `Delay <= Window` in RateLimit: a process waits one second for Redis (`socket_timeout`), which
  is shorter than a window.
- A user moves each row at most once in RecurringSeries (`edited`), and the shifts of a release
  stay within `Nearby`, less than a third of a week. `ReleasesAreNearby` proves of Recurrence that
  the expansion keeps to that: two releases put an occurrence less than two days apart.
  `UserSlots` bounds the ranges its users book and move bookings to.
- The offset of a zone is strictly less than a day in either direction, which is the contract of
  Python's `utcoffset()`; a zone of Recurrence has one transition.
- A message of Offboarding is named by the booking or the series it is about (`BookingIds` and
  `Series` are disjoint: primary keys of two tables).
- Two ids have different ranks (`PagesAssumption`): the sort key of a list ends in the primary
  key.

## 4. Runs

Two TLC workers; times of a small machine.

| Run | What it asks | Instance |
|---|---|---|
| `bookings` | Does any interleaving overlap two live rows, take a slot from an unexpired hold, revive a freed row, or do what the calendar does not allow? | one resource, two users, a series, three rows, three instants; 1 min |
| `booking_requests` | Is `slot_unavailable` ever said because of a lapsed hold alone? Does a list miss or repeat a booking that stays in it? | the same without the series, ids ranked against their age, pages of one; 1.5 min |
| `waitlist` | Do offers, holds and entries agree under every interleaving of users, a worker that may stall or die, and a sweep? Is a range on two outstanding offers? | two entries, three rows, one fault, holds may be edited away; 1.5 min |
| `waitlist_fair` | Are expired holds reclaimed and freed ranges offered? Do the rows move as Bookings allows? | prompt workers, one fault; 1 min |
| `idempotency` | One effect, one outcome, no refusal by one's own attempt, for three concurrent, crashing and retried requests? | one key, two slots, retention 1; 1.5 min |
| `series` | Is a date passed over, left behind or booked twice by confirm, two overlapping runs of the jobs, a new release, the owner's bookings and edits, and one run cut off anywhere? | two dates, two releases, three rows; 40 s |
| `series_settles` | Is a stale series brought to the installed release unless a conflict waits for its people? | two rows, one run at a time, fair, no interruption; 15 s |
| `recurrence` | Do expansion and nearest match agree with the reference around transitions? | 25 zones, a day of six ticks; 10 s |
| `alerting` | Does a removal of the constraint raise its alert for good, a repair close it, and nothing else raise it? | a hold of one slot and a booking of the next, two evaluations, one death; 2 min |
| `offboarding` | Is anything left undecided, or announced and not done, or recorded and not sent? | three resources (cancel; transfer to another; transfer to the user, with a second administrator), two rows, an entry, a series, one fault; 1 min |
| `gateway` | Does what was revoked act, does a bucket grant too much, do racing changes close a resource? | two processes, every kind of request, one bucket; 2 min |
| `calendar_page` | Is a refusal true, does a cancelled block come back, does the calendar load? | one slot and a second resource to turn to, three clicks, one retry, two fetches; 2.5 min |

Why the bounds are enough for their questions: three rows are a lapsed hold, the row that
displaces it and a third in the way of an edit; two users are owner and stranger; three instants
give two disjoint ranges and one over both; `HoldWindow = 1` lets a hold be seen before, at and
after its expiry; two entries are one that is offered and one behind it; three requests are two
that race and one that retries; two dates of a series are one below the watermark and one above (its bookings
are all one user's: no property tells users apart), and its users book and move to one later
place, where the two releases put the second date on either side; one bucket of the gateway is
both processes', the arithmetic of many is RateLimit's and proved; pages of one put a boundary
behind every row;
three clicks are book, cancel, and cancel once more after an answer was lost (an edit there moves
a booking to its own range; to other ranges in the proofs only); an offboarding with two rows
and three instants has bookings that have begun and holds that lapse (the user who is deactivated
is one; heirs deactivated before are in the proof only); one fault is placed anywhere. What the bounds cannot show, the theorems do, for any number of
each. `CHECK_DEADLOCK FALSE` everywhere: clocks, ids, clicks and requests run out in the
instances; nothing in the models waits in a circle.

### Fairness

- `FairWaitlistSpec`: weak fairness of the clock, of each worker's next statement, of an idle
  Celery slot taking a task, and of the sweep, which beat starts again and again
  (`settings/base.py:188-221`). Nothing is assumed of users. `FreedRangeIsOffered` excludes
  behaviours with a fault: the code does not offer a range again whose task is lost.
- `FairSeriesSpec`: weak fairness of each run of the jobs. Nothing of users, deployments, clock.
- `FairAlertingSpec`: weak fairness of both checks and of each evaluation.
- `FairCalendarPageSpec`: a request on its way is answered or fails in the end.

Strong fairness is nowhere needed: each of these actions stays enabled until taken, or its
reason is gone.

## 5. Theorems

Proved by TLAPS for every value of the constants that satisfies the assumption of its module
(types, bounds, distinct sets; `SeriesAssumption` also that occurrences fit the horizon and that
shifts are below a third of a week; `RateAssumption` that `Delay <= Window`;
`RecurrenceAssumption` that offsets are less than a day). TLC evaluates each assumption in the
runs of its module. One theorem has hypotheses of its own: `ReleasesAreNearby` is about two modules
at once, and they say that both speak of the same units: a week is seven days, `Nearby` is two,
and both expand the same number of dates.

| Module | Theorems |
|---|---|
| BookingTable_proofs | `CalendarNeverShares`, `CalendarEndsForGood`, `CalendarBumpsNobody`: of every writer that implements the calendar |
| Bookings_proofs | `TypeCorrect`, `NoDoubleBooking`, `FreedRowsStayFreed`, `HoldsKeepTheirSlots`, `TableImplementsCalendar` (refinement) |
| BookingClients_proofs | `RequestsImplementBookings` (refinement), `RefusalsAreHonest`, `PagesImplementRequests` (refinement), `PagesShowEachRowOnce`; `SeriesTypeCorrect`, `WatermarkSkipsNothing`, `SeriesNeverDoubleBook`, `SeriesImplementsTheCalendar` (refinement), `NobodyIsLeftBehind`, `EachDateBookedOnce`; `OccurrencesAreAsRequested`, `NearestIsItsOwnDate`, `ReleasesAreNearby` |
| Waitlist_proofs | `WaitlistTypeCorrect`, `OffersAndHoldsAgree`, `FulfilmentIsReal`, `EntriesAreUnique`, `ResolvedOffersStand`, `WaitlistImplementsBookings` (refinement), `WaitlistNeverDoubleBooks`, `WaitlistKeepsHolds`, `WaitlistImplementsCalendar` (refinement), `OneOfferAtATime` |
| Idempotency_proofs | `IdempotencyTypeCorrect`, `AtMostOneEffect`, `AtMostOneOutcome`, `RetryIsNotRefusedItsOwn` |
| Offboarding_proofs | `OffboardingTypeCorrect`, `NobodyIsToldInVain`, `DeactivationLeavesNothing`, `RecordIsTruthful`, `OffboardingImplementsCalendar` (refinement), `OffboardingNeverDoubleBooks` |
| Readers_proofs | `CalendarTypeCorrect`, `RefusalsAreTrue`, `CancelledStaysAway`, `PageImplementsCalendar` (refinement); `HitsAreRemovals` |
| Gateway_proofs | `RateTypeCorrect`, `GrantsStayWithinLimit`, `GatewayTypeCorrect`, `OnlyAuthorityActs`, `GatewayImplementsRateLimit` (refinement), `GatewayStaysWithinLimit` |

The arguments:

- **Bookings.** `TypeOK /\ NoOverlappingBookings` is inductive once each writer is sorted into
  one of two lemmas: it makes nothing newly occupied (`NothingNewOccupied`), or one row only,
  which the constraint compares with all others (`OnlyOneNewOccupied`, used by `CreateNoOverlap`
  and `MoveNoOverlap`). The action properties follow from the types: every UPDATE is guarded on
  a status that no freed row has, or leaves the status alone.
- **Calendar.** `CreateBooking` maps to `Take` with the stale holds displaced; accept to
  `MakeFirm`, cancel, decline and reap to `GiveUp`, a transfer to `HandOver`, an edit and a
  re-materialization to `Move`. The lemmas about one row (`GivingHandsOver`,
  `InsertingWhereFree`, `FreeingOne`, ...) are shared by all writers. The commit of
  `deactivate_user` is one `Leave` of its user: it writes only rows that were the user's, and
  those are locked since (`JobInv`). Waitlist inherits its refinement from Bookings, through
  `WaitlistImplementsBookings`. From the calendar alone follow, for any mix of writers: standing
  claims never overlap (`NeverShared`, inductive together with the claims' types; a claim comes
  to be, or to lie elsewhere, only where `Available` holds), what has ended stays ended, and a
  step that ends a booking grants nothing (`Take` displaces provisional claims only).
- **BookingPages.** `PagesInv`: a row that stays was on one page if the cursor has passed it and
  on none if it is still to come. A page holds the rows from the cursor to its own last one, so
  it takes the rows it shows from one side to the other; a write cannot move a steady row. That
  rests on the sort key being a total order over all rows, the lemmas about `After`.
- **Waitlist.** `IInv` adds to the checked invariants three facts about work in progress:
  `EntryInv` (workers and offers name entries that exist, the row under an offer is the entry's
  user's), `AttachInv` (a hold about to get its offer has none, and no other worker attaches to
  it) and `SweepInv` (a hold a sweep has listed stays lapsed for as long as it is a hold).
  Without `AttachInv` a worker could write an offer over a resolved one; without `SweepInv` a
  late reclaim could end an unexpired hold. `OneOfferAtATime` rests on `NoDoubleBooking`, through
  the refinement: `StandingInv` says of every active offer that its hold is held until the offer
  expires, and of a hold a worker is about to offer that it is held until the expiry the worker
  will write. Two outstanding offers are then two live rows where they are offered, and those do not
  overlap. Nothing is assumed of workers, edits or the clock.
- **Idempotency.** `IInv`: at most one request is at work under a key, its row is kept until it
  has answered, every outcome told is the one on record while the record is kept, and what was
  granted under a key has that key's row, or a request at work, behind it (`ClaimInv`,
  `PendingInv`, `OutcomeInv`, `RecordInv`, `GrantInv`).
- **RecurringSeries.** Every step is a step of the table (`SeriesStepIsTableStep`): of Bookings,
  or a booking or a move by the system, for which the lemmas of Bookings and Calendar are cited
  again. The watermark needs `SeriesInv`: up to each date a run still has due, every date was
  met or is due too (`RunInv`, from `OccurrencesInOrder`: dates that are due form an interval
  above the watermark); a confirm at work has met every date it has not left (`ConfirmInv`);
  what a run wants to move is a booking or a cancelled one (`TargetInv`). It holds for
  overlapping runs, also where one writes a lower watermark over a higher one.
  `NobodyIsLeftBehind` and `EachDateBookedOnce` are proved together, from `OccurrenceInv`, since
  each needs the other's facts: every row is at one date (`DateInv`; dates are far apart,
  `PlaceTellsDate`), no two of a series at the same (`UniqueInv`), rows beyond the watermark
  are of the installed release and of a run at work (`BeyondInv`), a date that is due is free or
  taken where the run will look (`RollInv`), a run that wants to move a row moves it to its own
  date (`TargetsInv`), and one without a conflict has put right, or has as a target, every
  occurrence to come (`RematInv`). Every writer is reduced to what it does to a row of a series:
  it keeps it, shifts it to its date's place under the installed release, or inserts it (`RowsStep`).
- **Offboarding.** For the messages, `ToldInv`: what the transaction has noted will be true at
  its commit (the rows it has written are locked, `JobInv`), and what is told is true and stays
  so, because a deactivated user and a cancelled booking stay what they are. For what is left,
  `DecidedInv` follows the transaction from statement to statement: what it has looked for is
  still on its list, written, one of those that stay, or came too late; its commit turns that into
  `LeftInv`. What stays, stays for good (`StaysForGood`), a rollback leaves nothing to be excused
  (`RollbackStep`), and a series is noted, announced, or was lost with the process (`SeriesInv`).
  `HoldInv` ties holds to open offers. For Delivery, `Counted` and `Undisturbed`:
  an attempt is counted before its mail, and a task that nothing disturbed sends one.
- **RateLimit.** `RateInv`: what the watched bucket has granted and still holds is within the
  budget; no process has read a time to come; a bucket once checked is kept two windows after
  the time of its last check, so that forgetting it grants nothing.
- **Gateway.** `GatewayInv`: a job past authentication was valid when it arrived, and a job past
  its check was entitled at a moment since and acts on a row that is there.
- **CalendarPage.** One call at a time is at work, in the order of the clicks, and what was made
  for it, what is stored under its key and what was answered agree (`CallInv`): a second attempt
  finds the first one's outcome, so a conflict has made nothing. Every refetch raises the
  generation and silences the fetches before it, and a cancelled row stays cancelled
  (`Forward`); so nothing that is listened to, or shown for the latest generation, has a booking
  whose cancellation the page was told of (`GoneInv`).
- **Alerting.** Rows under the whole constraint never overlap, also when it was taken away and
  put back (`WholeInv`); hence before the first change no run fails, no evaluation has seen one
  fail and no event is open (`QuietInv`).

- **Recurrence.** No induction is needed: occurrence `i` of an expansion is defined from its date
  alone (`OccurrenceIs`), so it is enough to compare a local time with the transition. Four
  cases, before it, after it, skipped by it, repeated by it, give where the clock shows a local
  time (`WallOfInstant`, `ShownWhere`) and hence start, end and disclosure
  (`StartIsRequested`, `EndIsRequested`, `IssueOfLocal`). All places of one date under any offset
  lie within two days of each other, those of two dates more than two days apart (`PlacesTellDates`),
  so the nearest is that of one's own date (`ClosestIs`). `StoredInv` is what makes this inductive:
  whatever releases have moved it, a stored occurrence is at a place of its own date.

## 6. Only model-checked

- Liveness (`HoldsAreReclaimed`, `FreedRangeIsOffered`, `StaleIsResolved`, `RemovalIsReported`,
  `AllClearIsReported`, `LoadingEnds`): out of the prover's reach.
  Those of Waitlist are checked with prompt workers and without edits.

## 7. Where code and documents part

Met while modelling; each is part of the models as the code does it, and the properties are
stated of what remains true.

- *Booking*: a lapsed hold that has an offer cannot be deleted by cleanup-on-write (foreign key
  at COMMIT), so the next booking is answered with a server error until the reaper has run;
  `edit_booking` does no cleanup and is refused by a lapsed hold (PRD FR18).
- *Waitlist*: an entry withdrawn or fulfilled after the worker read its list is still offered;
  the worker's last UPDATE (`waitlist/services.py:319`) turns an accepted entry back to
  `OFFERED`; the beneficiary may edit a hold away from its offer, and the range is offered again;
  a stalled worker may write an offer whose hold is already released, and which has expired when it
  is written. So two offers of one range may both be `ACTIVE` in the table (PRD FR25), and
  `OneOutstandingOffer` is stated of unexpired offers whose holds are where they were offered. Both
  exceptions take more than the run has, a fourth row or a second worker: the run would pass without
  them, and the theorem needs them.
- *Idempotency*: keys are compared by body, not by operation (PRD FR37); a recurring confirm
  answered 503 leaves its key in progress for 24 hours; the second of two racing refusals, and a
  replay that races the cleanup, end in a server error.
- *Series*: the series row is written with its last date as watermark before any occurrence is,
  so a confirm cut off leaves dates that no job makes up for; a preview token can become more
  than one series under different keys; a rolling run cut off before its watermark may let the
  next release book a date a second time, and so may the slower of two overlapping runs, whose
  unconditional UPDATE (`bookings/tasks.py:127`) sets the watermark back (met in the attempt to
  prove `OneBookingPerDate`, which therefore excludes the series in `lagging`); re-materialization moves an occurrence its owner
  edited by less than two days, and writes to rows cancelled since it read them; cancelling a
  series does not stop the rolling job; an occurrence whose end falls into a transition is longer
  or shorter without being disclosed.
- *Offboarding*: the test plan's OFF-01 ends with "No booking is silently orphaned", every one in a
  defined state. `_resource_admin_for` returns the first administrator by grant time and asks no
  other: if it is the very user, the booking stays with the deactivated user although the
  resource has a second administrator, and it is counted as transferred; if it is somebody deactivated
  before, the booking goes to a deactivated user. `NothingLeftBehind` does not state OFF-01:
  these bookings, those that have begun, and the occurrences of series are exceptions it names
  (`Stays`). Nobody is told of a series whose resource has no administrator. An
  offer resolved in between rolls the whole deactivation back; a request authenticated before the
  commit may still book, join or accept after its rows were read; a process that dies between
  commit and callbacks loses the messages.
- *Alerting*: mails are edge-triggered: an evaluation that dies between event and dispatch, or a
  broker outage, means no mail for that alert.
- *Rate limiting*: fails open; a check that reaches Redis with an older time refills twice.
- *Calendar page*: a call answered after the view has changed puts its block or its banner into
  the other view; a block that was just created stays after its booking is cancelled; a request
  lost by the network is not retried, so a committed booking is not shown until a refetch.

## 8. Not modelled, and why

- Row locks and their order below a transaction: accept takes booking, offer, entry and decline
  offer, booking, entry, so two requests on one offer may deadlock; PostgreSQL ends one of them,
  an outcome Idempotency has (`WriteFails`).
- Attribution (`cancelled_by`, reasons), audit rows and triggers, metrics, middleware, logging:
  no decision of the program reads them. Replica routing: `current_replica_lag_seconds` always
  returns `None`, so every read goes to the primary.
- Input validation: its outcome is the set of ranges the models draw from. Queue positions and
  other reads. Wording and recipients of messages.
- The frontend's other pages: they load a list and post a form. Settings, migrations, deployment
  files, scripts, tests: configuration and evidence of intent.

## 9. Plan

Next, in this order: a configuration of `series` with three dates and a third release; the
composition of Waitlist and Offboarding at the granularity of Waitlist; an abstract specification
of a key that takes effect at most once, for Idempotency to implement.
