---------------------------- MODULE Offboarding ----------------------------
(***************************************************************************)
(* Deactivating a user (backend/kairos/identity/services.py): one          *)
(* transaction over the user's bookings, offers, waitlist entries and      *)
(* series, statement by statement, beside requests that were authenticated *)
(* before it committed, the cascade worker and the sweep; what it tells    *)
(* whom once it has committed (core/notifications.py, through Delivery).   *)
(*                                                                         *)
(* READ COMMITTED: a statement sees what is committed when it runs.  What  *)
(* the transaction writes is kept in its job until the commit; the rows it *)
(* has written are locked until then, and a statement of anybody else on   *)
(* one of them waits.                                                      *)
(*                                                                         *)
(* A message is named by what it is about: the booking that was cancelled, *)
(* the series that lost its owner.  Waitlist has the worker, the sweep and *)
(* the acceptance in their own steps.                                      *)
(***************************************************************************)
EXTENDS BookingTable, Delivery, Sequences

CONSTANTS Policy,  \* the offboarding_policy of every resource
          Admins,  \* the administrators of every resource, in the order of their grants
          Owner,   \* created_by of every series
          SeriesResource, \* the resource of every series
          Callers, \* bound: the users that make requests
          Targets, \* bound: the users that may be deactivated
          Wanted,  \* the resource people wait for
          Slot     \* the range of all bookings

ASSUME OffboardingAssumption ==
    /\ Policy \in [Resources -> {"transfer", "cancel_and_notify", "retain"}]
    /\ Admins \in [Resources -> Seq(Users)]
    /\ Owner \in [Series -> Users]
    /\ SeriesResource \in [Series -> Resources]
    /\ Callers \cup Targets \subseteq Users
    /\ Wanted \in Resources
    /\ Slot \in Range
    /\ Messages = BookingIds \cup Series
    /\ BookingIds \cap Series = {}
    /\ Users \cap (BookingIds \cup Series) = {}

VARIABLES users,    \* app_user.status
          offers,   \* the status of the offer of a hold
          entries,  \* the status of a user's waitlist entry
          inside,   \* users with a request that is authenticated and has not written
          job,      \* the deactivation at work
          worker,   \* the cascade worker: what it has read
          now,      \* the clock
          missed    \* history: what came to a user after the deactivation had looked
                    \* for it, and the series it died before telling of

tableVars  == <<users, bookings, offers, entries>>
offboardingVars == <<tableVars, inside, job, worker, now, missed, deliveryVars>>

\* _resource_admin_for: the first by the time of the grant.
Heir(r) == IF Admins[r] = <<>> THEN {} ELSE {Admins[r][1]}

Idle == [pc |-> "idle"]

Off == [step |-> "off", list |-> {}]

\* One run at a time: a call while one is at work adds nothing here.
Called(w) == IF w = Off THEN [w EXCEPT !.step = "called"] ELSE w

\* The local variables of deactivate_user, and the writes not committed yet.
Job == [pc : {"bookings", "each_booking", "each_offer", "each_entry", "series", "commit"},
        target : Users, at : Times, todo : SUBSET BookingIds, moved : SUBSET BookingIds,
        cancelled : SUBSET BookingIds, declined : SUBSET BookingIds,
        withdrawn : SUBSET Users, notes : SUBSET Messages]
Callbacks == [pc : {"callbacks"}, notes : SUBSET Messages, freed : BOOLEAN]

OffboardingTypeOK ==
    /\ DeliveryTypeOK
    /\ users \in [Users -> {"active", "deactivated"}]
    /\ bookings \in [BookingIds -> Row \cup {Absent}]
    /\ offers \in [BookingIds -> {"none", "active", "confirmed", "declined", "expired"}]
    /\ entries \in [Users -> {"none", "waiting", "offered", "fulfilled", "expired", "cancelled"}]
    /\ inside \subseteq Users
    /\ job \in Job \cup Callbacks \cup {Idle}
    /\ worker \in [step : {"off", "called", "offering"}, list : SUBSET Users]
    /\ now \in Times
    /\ missed \subseteq BookingIds \cup Users \cup Series

OffboardingInit ==
    /\ DeliveryInit
    /\ users = [u \in Users |-> "active"]
    /\ bookings = [b \in BookingIds |-> Absent]
    /\ offers = [b \in BookingIds |-> "none"]
    /\ entries = [u \in Users |-> "none"]
    /\ inside = {}
    /\ job = Idle
    /\ worker = Off
    /\ now = 0
    /\ missed = {}

Open(u) == job.pc \notin {"idle", "callbacks"} /\ job.target = u

\* Rows the open transaction has written.
Locked(b) == job.pc \notin {"idle", "callbacks"} /\ b \in job.moved \cup job.cancelled \cup job.declined

LockedEntry(u) ==
    job.pc \notin {"idle", "callbacks"}
        /\ (u \in job.withdrawn \/ \E b \in job.declined : bookings[b].user = u)

\* A deactivation of u that has read this list, or is committed, will not see more of it.
TooLate(u, pcs) == users[u] = "deactivated" \/ (Open(u) /\ job.pc \notin pcs)

\* Rolled back: the target stays active, and nothing of theirs was missed.
RolledBack ==
    missed' = missed \ ({job.target} \cup {b \in BookingIds : /\ InTable(bookings[b])
                                                             /\ bookings[b].user = job.target})

Came(x, u, pcs) == missed' = IF TooLate(u, pcs) THEN missed \cup {x} ELSE missed

-----------------------------------------------------------------------------
(* Requests of users.                                                       *)

\* Authentication, before the request's own transaction: the status is read once.
Enter(u) ==
    /\ u \notin inside
    /\ users[u] = "active"
    /\ inside' = inside \cup {u}
    /\ UNCHANGED <<tableVars, job, worker, now, missed, deliveryVars>>

Book(u, r, s) ==
    LET row == NewRow(r, u, Slot, s, "confirmed", now)
    IN  /\ u \in inside
        /\ s # NoSeries => Owner[s] = u /\ SeriesResource[s] = r
        /\ now <= Slot[1]
        /\ Excludes(bookings, BookingIds, r, Slot)
        /\ \E b \in FreshIds(bookings) : /\ bookings' = [bookings EXCEPT ![b] = row]
                                         /\ Came(b, u, {"bookings"})
        /\ inside' = inside \ {u}
        /\ UNCHANGED <<users, offers, entries, job, worker, now, deliveryVars>>

\* create_waitlist_entry, with the availability check of its serializer.
Join(u) ==
    /\ u \in inside
    /\ ~Excludes(bookings, BookingIds, Wanted, Slot)
    /\ entries[u] \notin {"waiting", "offered"}
    /\ ~LockedEntry(u)
    /\ entries' = [entries EXCEPT ![u] = "waiting"]
    /\ Came(u, u, {"bookings", "each_booking", "each_offer"})
    /\ inside' = inside \ {u}
    /\ UNCHANGED <<users, bookings, offers, job, worker, now, deliveryVars>>

CancelOwn(u, b) ==
    /\ u \in inside
    /\ ~Locked(b)
    /\ bookings[b].status = "confirmed"
    /\ bookings[b].user = u
    /\ bookings' = AfterCancel(bookings, {b})
    /\ worker' = IF bookings[b].resource = Wanted THEN Called(worker) ELSE worker
    /\ inside' = inside \ {u}
    /\ UNCHANGED <<users, offers, entries, job, now, missed, deliveryVars>>

Accept(u, b) ==
    /\ u \in inside
    /\ ~Locked(b)
    /\ bookings[b].status = "held"
    /\ bookings[b].user = u
    /\ bookings[b].expires > now
    /\ bookings' = AfterAccept(bookings, b)
    /\ offers' = [offers EXCEPT ![b] = "confirmed"]
    /\ entries' = [entries EXCEPT ![u] = "fulfilled"]
    /\ Came(b, u, {"bookings"})
    /\ inside' = inside \ {u}
    /\ UNCHANGED <<users, job, worker, now, deliveryVars>>

-----------------------------------------------------------------------------
(* Background work on the waitlist.                                         *)

\* find_eligible_entries: read once.
ReadCandidates ==
    /\ worker.step = "called"
    /\ worker' = [step |-> "offering", list |-> {u \in Users : entries[u] = "waiting"}]
    /\ UNCHANGED <<tableVars, inside, job, now, missed, deliveryVars>>

\* A candidate as it was read; its status is not looked at again.
MakeOffer(u) ==
    LET row == NewRow(Wanted, u, Slot, NoSeries, "held", now)
    IN  /\ worker.step = "offering"
        /\ u \in worker.list
        /\ ~LockedEntry(u)
        /\ Excludes(bookings, BookingIds, Wanted, Slot)
        /\ \E b \in FreshIds(bookings) :
              /\ bookings' = [bookings EXCEPT ![b] = row]
              /\ offers' = [offers EXCEPT ![b] = "active"]
              /\ Came(b, u, {"bookings", "each_booking"})
        /\ entries' = [entries EXCEPT ![u] = "offered"]
        /\ worker' = Off
        /\ UNCHANGED <<users, inside, job, now, deliveryVars>>

\* Nobody waits, or the slot is taken.
EndCascade ==
    /\ worker.step = "offering"
    /\ worker.list = {} \/ ~Excludes(bookings, BookingIds, Wanted, Slot)
    /\ worker' = Off
    /\ UNCHANGED <<tableVars, inside, job, now, missed, deliveryVars>>

Sweep(b) ==
    /\ Lapsed(bookings[b], now)
    /\ ~Locked(b)
    /\ bookings' = AfterRelease(bookings, b)
    /\ offers' = [offers EXCEPT ![b] = "expired"]
    /\ entries' = [entries EXCEPT ![bookings[b].user] = "expired"]
    /\ worker' = Called(worker)
    /\ UNCHANGED <<users, inside, job, now, missed, deliveryVars>>

Tick ==
    /\ now < MaxTime
    /\ now' = now + 1
    /\ UNCHANGED <<tableVars, inside, job, worker, missed, deliveryVars>>

-----------------------------------------------------------------------------
(* deactivate_user.                                                         *)

StartJob(u) ==
    job' = [pc |-> "bookings", target |-> u, at |-> now, todo |-> {}, moved |-> {}, cancelled |-> {},
            declined |-> {}, withdrawn |-> {}, notes |-> {}]

\* The guarded flip.  On a user who is deactivated already it matches no row,
\* and the request ends.
Flip(u) ==
    /\ job = Idle
    /\ users[u] = "active"
    /\ StartJob(u)
    /\ UNCHANGED <<tableVars, inside, worker, now, missed, deliveryVars>>

\* One-off bookings that begin after the call, with their resources.
ReadBookings ==
    /\ job.pc = "bookings"
    /\ job' = [job EXCEPT !.pc = "each_booking",
                          !.todo = {b \in BookingIds : /\ InTable(bookings[b])
                                                       /\ bookings[b].status = "confirmed"
                                                       /\ bookings[b].user = job.target
                                                       /\ bookings[b].series = NoSeries
                                                       /\ bookings[b].range[1] >= job.at}]
    /\ UNCHANGED <<tableVars, inside, worker, now, missed, deliveryVars>>

\* Fault: the policy is compared with a value it does not have.
CancelFallsThrough(b) ==
    /\ job.pc = "each_booking"
    /\ b \in job.todo
    /\ job' = IF Policy[bookings[b].resource] = "transfer" /\ Heir(bookings[b].resource) # {}
              THEN [job EXCEPT !.todo = @ \ {b}, !.moved = @ \cup {b}]
              ELSE [job EXCEPT !.todo = @ \ {b}]
    /\ UNCHANGED <<tableVars, inside, worker, now, missed, deliveryVars>>

\* Fault: the notification is sent from within the transaction.
NotifyAtOnce(b) ==
    /\ job.pc = "each_booking"
    /\ b \in job.todo
    /\ IF Policy[bookings[b].resource] = "cancel_and_notify"
       THEN /\ job' = [job EXCEPT !.todo = @ \ {b}, !.cancelled = @ \cup {b}]
            /\ Dispatch({b})
       ELSE /\ job' = [job EXCEPT !.todo = @ \ {b}]
            /\ UNCHANGED <<task, faults>>
    /\ UNCHANGED <<tableVars, inside, worker, now, missed, log, mails, shaken>>

\* transfer_booking_ownership looks at no status; cancel_booking takes only a
\* confirmed row, but its owner is told in any case.
ApplyPolicy(b) ==
    LET policy == Policy[bookings[b].resource]
        still  == bookings[b].status = "confirmed"
    IN  /\ job.pc = "each_booking"
        /\ b \in job.todo
        /\ job' = [job EXCEPT
                     !.todo = @ \ {b},
                     !.moved = IF policy = "transfer" /\ Heir(bookings[b].resource) # {}
                               THEN @ \cup {b} ELSE @,
                     !.cancelled = IF policy = "cancel_and_notify" /\ still THEN @ \cup {b} ELSE @,
                     !.notes = IF policy = "cancel_and_notify" THEN @ \cup {b} ELSE @]
        /\ UNCHANGED <<tableVars, inside, worker, now, missed, deliveryVars>>

ReadOffers ==
    /\ job.pc = "each_booking" /\ job.todo = {}
    /\ job' = [job EXCEPT !.pc = "each_offer",
                          !.todo = {b \in BookingIds : /\ offers[b] = "active"
                                                       /\ bookings[b].user = job.target}]
    /\ UNCHANGED <<tableVars, inside, worker, now, missed, deliveryVars>>

Decline(b) ==
    /\ job.pc = "each_offer"
    /\ b \in job.todo
    /\ offers[b] = "active"
    /\ job' = [job EXCEPT !.todo = @ \ {b}, !.declined = @ \cup {b}]
    /\ UNCHANGED <<tableVars, inside, worker, now, missed, deliveryVars>>

\* Accepted or swept since it was read: OfferAlreadyResolvedError leaves
\* deactivate_user, and the whole transaction is rolled back.
AlreadyResolved(b) ==
    /\ job.pc = "each_offer"
    /\ b \in job.todo
    /\ offers[b] # "active"
    /\ RolledBack
    /\ job' = Idle
    /\ UNCHANGED <<tableVars, inside, worker, now, deliveryVars>>

\* The waiting entry; one that is being offered is not among them.
ReadEntries ==
    /\ job.pc = "each_offer" /\ job.todo = {}
    /\ job' = [job EXCEPT !.pc = IF entries[job.target] = "waiting" THEN "each_entry" ELSE "series"]
    /\ UNCHANGED <<tableVars, inside, worker, now, missed, deliveryVars>>

\* cancel_waitlist_entry: a no-op on an entry that is not waiting any more.
Withdraw ==
    /\ job.pc = "each_entry"
    /\ job' = [job EXCEPT !.pc = "series",
                          !.withdrawn = IF entries[job.target] = "waiting" THEN {job.target} ELSE {}]
    /\ UNCHANGED <<tableVars, inside, worker, now, missed, deliveryVars>>

\* The administrator of the resource is told of a series, if there is one.
\* (Of active series: nothing ever sets a series to another status.)
FlagSeries ==
    /\ job.pc = "series"
    /\ job' = [job EXCEPT !.pc = "commit",
                          !.notes = @ \cup {s \in Series : /\ Owner[s] = job.target
                                                           /\ Heir(SeriesResource[s]) # {}}]
    /\ UNCHANGED <<tableVars, inside, worker, now, missed, deliveryVars>>

Commit ==
    /\ job.pc = "commit"
    /\ users' = [users EXCEPT ![job.target] = "deactivated"]
    /\ bookings' =
          [b \in BookingIds |->
              CASE b \in job.cancelled -> [bookings[b] EXCEPT !.status = "cancelled"]
                [] b \in job.declined  -> AfterRelease(bookings, b)[b]
                [] b \in job.moved     -> [bookings[b] EXCEPT !.user = Admins[bookings[b].resource][1]]
                [] OTHER               -> bookings[b]]
    /\ offers' = [b \in BookingIds |-> IF b \in job.declined THEN "declined" ELSE offers[b]]
    /\ entries' = [u \in Users |->
                      CASE u \in job.withdrawn -> "cancelled"
                        [] \E b \in job.declined : bookings[b].user = u -> "expired"
                        [] OTHER -> entries[u]]
    /\ job' = [pc |-> "callbacks", notes |-> job.notes,
               freed |-> \E b \in job.cancelled \cup job.declined : bookings[b].resource = Wanted]
    /\ UNCHANGED <<inside, worker, now, missed, deliveryVars>>

\* on_commit: the cascade of what was freed, then the notifications.
RunCallbacks ==
    /\ job.pc = "callbacks"
    /\ worker' = IF job.freed THEN Called(worker) ELSE worker
    /\ Dispatch(job.notes)
    /\ job' = Idle
    /\ UNCHANGED <<tableVars, inside, now, missed, log, mails, shaken>>

\* The web process dies, or a statement fails: before the commit nothing has
\* happened, after it nobody is told.
JobDies ==
    /\ faults < MaxFaults
    /\ job # Idle
    /\ faults' = faults + 1
    /\ IF job.pc = "callbacks" THEN missed' = missed \cup (job.notes \cap Series) ELSE RolledBack
    /\ job' = Idle
    /\ UNCHANGED <<tableVars, inside, worker, now, log, task, mails, shaken>>

MailStep(m) == Deliver(m) /\ UNCHANGED <<tableVars, inside, job, worker, now, missed>>

Deactivation ==
    \/ \E u \in Targets : Flip(u)
    \/ ReadBookings
    \/ \E b \in BookingIds : ApplyPolicy(b)
    \/ ReadOffers
    \/ \E b \in BookingIds : Decline(b) \/ AlreadyResolved(b)
    \/ ReadEntries
    \/ Withdraw
    \/ FlagSeries
    \/ Commit
    \/ RunCallbacks

OffboardingNext ==
    \/ \E u \in Callers : Enter(u)
    \/ \E u \in Users : Join(u) \/ MakeOffer(u)
    \/ \E u \in Users, r \in Resources, s \in Series \cup {NoSeries} : Book(u, r, s)
    \/ \E u \in Users, b \in BookingIds : CancelOwn(u, b) \/ Accept(u, b)
    \/ ReadCandidates
    \/ EndCascade
    \/ \E b \in BookingIds : Sweep(b)
    \/ Tick
    \/ Deactivation
    \/ JobDies
    \/ \E m \in Messages : MailStep(m)

OffboardingSpec == OffboardingInit /\ [][OffboardingNext]_offboardingVars

-----------------------------------------------------------------------------
(* Properties.                                                              *)

\* Nobody is told of what did not happen: a message about a cancellation or a
\* series goes out only when the deactivation it belongs to is committed and
\* the booking is cancelled, however many deactivations were rolled back.
AnnouncedIsDone ==
    \A m \in Messages : task[m].pc # "none" =>
        IF m \in Series THEN users[Owner[m]] = "deactivated"
                        ELSE /\ bookings[m].status = "cancelled"
                             /\ users[bookings[m].user] = "deactivated"

\* What deactivate_user leaves with user u although it has seen it: a booking
\* that has begun, an occurrence of a series, what the policy retains, and what
\* it would transfer to nobody or to u, the first administrator by the time of
\* the grant.  Another administrator there may be is not asked, and a booking
\* may have been transferred to an heir who was deactivated before.
Stays(row, u) ==
    \/ row.range[1] < now
    \/ row.series # NoSeries
    \/ Policy[row.resource] = "retain"
    \/ Policy[row.resource] = "transfer" /\ Heir(row.resource) \subseteq {u}

\* Nothing of a deactivated user is left but what Stays describes and what the
\* deactivation missed, because it came by a request authenticated before or by
\* a cascade that had read its candidates before: no hold, no other confirmed
\* booking, no waiting entry.  Their series, whose occurrences stay, are on
\* their way to an administrator where the resource has one, unless the process
\* died between the commit and the message.
NothingLeftBehind ==
    \A u \in Users : users[u] = "deactivated" =>
        /\ \A b \in BookingIds \ missed :
              InTable(bookings[b]) /\ bookings[b].user = u =>
                  /\ bookings[b].status # "held"
                  /\ bookings[b].status = "confirmed" => Stays(bookings[b], u)
        /\ entries[u] = "waiting" => u \in missed
        /\ \A s \in Series \ missed :
              Owner[s] = u /\ Heir(SeriesResource[s]) # {} =>
                  task[s].pc # "none" \/ (job.pc = "callbacks" /\ s \in job.notes)
=============================================================================
