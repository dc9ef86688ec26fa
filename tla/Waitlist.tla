------------------------------ MODULE Waitlist ------------------------------
(***************************************************************************)
(* The waitlist of backend/kairos/waitlist: entries, offers, the cascade   *)
(* worker (create_offer_for_freed_range, run by Celery slots and by the    *)
(* reaper itself), acceptance, decline and the reaper's sweep, with the    *)
(* booking services that feed it.                                          *)
(*                                                                         *)
(* One action is one committed transaction or autocommitted statement.     *)
(* Celery acknowledges a task before running it (no acks_late), so a task  *)
(* whose worker dies, or whose dispatch meets a broker outage, is lost.    *)
(* Entries are numbered in joined_at order.  An offer is kept under the id *)
(* of its hold (hold_booking is one-to-one).                               *)
(***************************************************************************)
EXTENDS BookingTable

CONSTANTS
    MaxEntries,    \* bound: entries ever joined
    Slots,         \* Celery worker slots that run cascade tasks
    Reapers,       \* Celery worker slots that run the reaper's sweep
    BookRanges,    \* bound: the ranges users book
    JoinRanges,    \* bound: the ranges users wait for
    EditRanges,    \* bound: the ranges edits move bookings to
    HoldReserve,   \* bound: rows that direct bookings leave for holds
    MaxFaults,     \* bound: worker deaths and lost dispatches
    PromptWorkers  \* the clock stands still between a hold and its entry's mark

ASSUME WaitlistAssumption ==
    /\ MaxEntries \in Nat \ {0}
    /\ Slots \cap Reapers = {}
    /\ BookRanges \subseteq Range
    /\ JoinRanges \subseteq Range
    /\ HoldReserve \in Nat
    /\ EditRanges \subseteq Range
    /\ MaxFaults \in Nat
    /\ PromptWorkers \in BOOLEAN

VARIABLES offers,     \* waitlist_offer, by hold_booking_id
          entries,    \* waitlist_entry
          freed,      \* cascade tasks in the broker
          workers,    \* where each run of create_offer_for_freed_range stands
          sweeps,     \* holds each running sweep has still to reclaim
          checked,    \* joins that passed slot_is_free and have not inserted
          now,
          faults      \* faults so far

waitlistVars ==
    <<bookings, offers, entries, freed, workers, sweeps, checked, now, faults>>

EntryIds == 1..MaxEntries
Workers  == Slots \cup Reapers

EntryStatus == {"waiting", "offered", "fulfilled", "expired", "cancelled"}
Entry == [user : Users, resource : Resources, range : Range, status : EntryStatus]
NotJoined == [status |-> "absent"]

OfferStatus == {"active", "confirmed", "expired", "declined"}
Offer == [entry : EntryIds, range : Range, status : OfferStatus,
          expires : 0..(MaxTime + HoldWindow)]
NoOffer == [status |-> "none"]

\* A task names the booking or hold whose end freed the range.
Task == [of : BookingIds, resource : Resources, range : Range]
JoinRequest == [user : Users, resource : Resources, range : Range]

Idle == [pc |-> "idle"]
Worker ==
    {Idle}
    \cup [pc : {"listing"}, resource : Resources, range : Range]
    \cup [pc : {"holding"}, todo : SUBSET EntryIds]
    \cup [pc : {"attaching"}, entry : EntryIds, hold : BookingIds,
           expires : 0..(MaxTime + HoldWindow)]
    \cup [pc : {"marking"}, entry : EntryIds]

WaitlistTypeOK ==
    /\ bookings \in [BookingIds -> Row \cup {Absent, Deleted}]
    /\ offers \in [BookingIds -> Offer \cup {NoOffer}]
    /\ entries \in [EntryIds -> Entry \cup {NotJoined}]
    /\ freed \subseteq Task
    /\ workers \in [Workers -> Worker]
    /\ sweeps \in [Reapers -> SUBSET BookingIds]
    /\ checked \subseteq JoinRequest
    /\ now \in Times
    /\ faults \in 0..MaxFaults

WaitlistInit ==
    /\ bookings = [b \in BookingIds |-> Absent]
    /\ offers = [b \in BookingIds |-> NoOffer]
    /\ entries = [e \in EntryIds |-> NotJoined]
    /\ freed = {}
    /\ workers = [w \in Workers |-> Idle]
    /\ sweeps = [w \in Reapers |-> {}]
    /\ checked = {}
    /\ now = 0
    /\ faults = 0

-----------------------------------------------------------------------------
(* Queries.                                                                 *)

Offered == {b \in BookingIds : offers[b] # NoOffer}

\* slot_is_free: no confirmed or held row overlaps, an expired hold included.
SlotIsFree(r, p) == Excludes(bookings, BookingIds, r, p)

\* The key of uniq_live_waitlist_per_user_slot, and who occupies it.
LiveEntries(u, r, p) ==
    {e \in EntryIds : /\ entries[e].status \in {"waiting", "offered"}
                      /\ entries[e].user = u
                      /\ entries[e].resource = r
                      /\ entries[e].range = p}

\* Fault: equality for containment.
SameRangeEntries(r, p) ==
    {e \in EntryIds : /\ entries[e].status = "waiting"
                      /\ entries[e].resource = r
                      /\ entries[e].range = p}

\* find_eligible_entries: waiting for a range the freed one contains.
EligibleEntries(r, p) ==
    {e \in EntryIds : /\ entries[e].status = "waiting"
                      /\ entries[e].resource = r
                      /\ Contains(p, entries[e].range)}

ActiveOffers(e) ==
    {h \in Offered : offers[h].status = "active" /\ offers[h].entry = e}

\* order_by("joined_at", "id"), entries being numbered in that order.
FirstOf(E) == {e \in E : \A d \in E : e <= d}

-----------------------------------------------------------------------------
(* The booking services.                                                    *)

\* create_booking, its cleanup-on-write and the foreign key of Bookings.
InsertBooking(b, r, u, p, st) ==
    LET cleaned == AfterCleanup(bookings, r, p, now)
    IN  /\ b \in FreshIds(bookings)
        /\ Excludes(cleaned, BookingIds, r, p)
        /\ StaleHolds(bookings, r, p, now) \cap Offered = {}
        /\ bookings' = [cleaned EXCEPT ![b] = NewRow(r, u, p, NoSeries, st, now)]

\* dispatch_cascade: the task reaches the broker, or the outage is logged.
Dispatch(task) ==
    \/ /\ freed' = freed \cup {task}
       /\ UNCHANGED faults
    \/ /\ faults < MaxFaults
       /\ faults' = faults + 1
       /\ UNCHANGED freed

Book(r, u, p) ==
    /\ p[1] >= now
    /\ \E b \in 1..(MaxBookings - HoldReserve) : InsertBooking(b, r, u, p, "confirmed")
    /\ UNCHANGED <<offers, entries, freed, workers, sweeps, checked, now, faults>>

\* edit_booking asks for ownership only: a hold's beneficiary may move it.
Edit(b, p) ==
    /\ InTable(bookings[b])
    /\ p[1] >= now
    /\ InExclusionDomain(bookings[b])
          => Excludes(bookings, BookingIds \ {b}, bookings[b].resource, p)
    /\ bookings' = [bookings EXCEPT ![b] = [@ EXCEPT !.range = p]]
    /\ UNCHANGED <<offers, entries, freed, workers, sweeps, checked, now, faults>>

CancelBooking(b) ==
    /\ bookings[b].status = "confirmed"
    /\ bookings' = AfterCancel(bookings, {b})
    /\ Dispatch([of |-> b, resource |-> bookings[b].resource, range |-> bookings[b].range])
    /\ UNCHANGED <<offers, entries, workers, sweeps, checked, now>>

-----------------------------------------------------------------------------
(* Joining and leaving the waitlist.                                        *)

\* WaitlistJoinSerializer.validate refuses a free slot; join_waitlist inserts
\* in a later transaction, without looking again.
CheckJoin(u, r, p) ==
    /\ ~SlotIsFree(r, p)
    /\ checked' = checked \cup {[user |-> u, resource |-> r, range |-> p]}
    /\ UNCHANGED <<bookings, offers, entries, freed, workers, sweeps, now, faults>>

NextEntry == {e \in EntryIds : /\ entries[e] = NotJoined
                               /\ \A d \in EntryIds : d < e => entries[d] # NotJoined}

Join(q) ==
    /\ q \in checked
    /\ checked' = checked \ {q}
    /\ \/ /\ LiveEntries(q.user, q.resource, q.range) = {}
          /\ \E e \in NextEntry :
                entries' = [entries EXCEPT
                              ![e] = [user |-> q.user, resource |-> q.resource,
                                      range |-> q.range, status |-> "waiting"]]
       \/ /\ LiveEntries(q.user, q.resource, q.range) # {}   \* already_on_waitlist
          /\ UNCHANGED entries
    /\ UNCHANGED <<bookings, offers, freed, workers, sweeps, now, faults>>

\* cancel_waitlist_entry: a no-op unless the entry is waiting.
CancelEntry(e) ==
    /\ entries[e].status = "waiting"
    /\ entries' = [entries EXCEPT ![e].status = "cancelled"]
    /\ UNCHANGED <<bookings, offers, freed, workers, sweeps, checked, now, faults>>

-----------------------------------------------------------------------------
(* create_offer_for_freed_range.                                            *)

Take(w, task) ==
    /\ workers[w] = Idle
    /\ task \in freed
    /\ freed' = freed \ {task}
    /\ workers' = [workers EXCEPT ![w] = [pc |-> "listing", resource |-> task.resource,
                                          range |-> task.range]]
    /\ UNCHANGED <<bookings, offers, entries, sweeps, checked, now, faults>>

\* The candidates are read once; the loop never reads them again.
List(w) ==
    /\ workers[w].pc = "listing"
    /\ LET E == EligibleEntries(workers[w].resource, workers[w].range)
       IN  workers' = [workers EXCEPT
                         ![w] = IF E = {} THEN Idle
                                ELSE [pc |-> "holding", todo |-> E]]
    /\ UNCHANGED <<bookings, offers, entries, freed, sweeps, checked, now, faults>>

\* The hold of the next candidate, whatever became of its entry meanwhile.
PlaceHold(w) ==
    /\ workers[w].pc = "holding"
    /\ \E e \in FirstOf(workers[w].todo), h \in BookingIds :
          /\ InsertBooking(h, entries[e].resource, entries[e].user, entries[e].range, "held")
          /\ workers' = [workers EXCEPT ![w] = [pc |-> "attaching", entry |-> e, hold |-> h,
                                                expires |-> now + HoldWindow]]
    /\ UNCHANGED <<offers, entries, freed, sweeps, checked, now, faults>>

\* SlotUnavailableError: on to the next candidate.
SkipCandidate(w) ==
    /\ workers[w].pc = "holding"
    /\ \E e \in FirstOf(workers[w].todo) :
          /\ ~Excludes(AfterCleanup(bookings, entries[e].resource, entries[e].range, now),
                       BookingIds, entries[e].resource, entries[e].range)
          /\ workers' = [workers EXCEPT
                           ![w] = IF @.todo = {e} THEN Idle
                                  ELSE [pc |-> "holding", todo |-> @.todo \ {e}]]
    /\ UNCHANGED <<bookings, offers, entries, freed, sweeps, checked, now, faults>>

\* An exception nothing catches ends the task; in the reaper, the whole sweep.
Abandon(w) ==
    /\ workers' = [workers EXCEPT ![w] = Idle]
    /\ sweeps' = [v \in Reapers |-> IF v = w THEN {} ELSE sweeps[v]]
    /\ UNCHANGED <<bookings, offers, entries, freed, checked, now, faults>>

\* Cleanup-on-write would delete a hold an offer refers to (23503).
HoldBreaksForeignKey(w) ==
    /\ workers[w].pc = "holding"
    /\ \E e \in FirstOf(workers[w].todo) :
          LET r == entries[e].resource
              p == entries[e].range
          IN  /\ Excludes(AfterCleanup(bookings, r, p, now), BookingIds, r, p)
              /\ StaleHolds(bookings, r, p, now) \cap Offered # {}
    /\ Abandon(w)

\* The offer runs out with the hold as it was placed.
AttachOffer(w) ==
    /\ workers[w].pc = "attaching"
    /\ LET e == workers[w].entry
           h == workers[w].hold
       IN  /\ bookings[h] # Deleted
           /\ ActiveOffers(e) = {}
           /\ offers' = [offers EXCEPT ![h] = [entry |-> e, range |-> entries[e].range,
                                               status |-> "active",
                                               expires |-> workers[w].expires]]
           /\ workers' = [workers EXCEPT ![w] = [pc |-> "marking", entry |-> e]]
    /\ UNCHANGED <<bookings, entries, freed, sweeps, checked, now, faults>>

\* The hold is gone (foreign key), or the entry has an active offer
\* (uniq_active_offer_per_entry).
AttachFails(w) ==
    /\ workers[w].pc = "attaching"
    /\ \/ bookings[workers[w].hold] = Deleted
       \/ ActiveOffers(workers[w].entry) # {}
    /\ Abandon(w)

OtherLiveEntries(e) == LiveEntries(entries[e].user, entries[e].resource, entries[e].range) \ {e}

\* UPDATE waitlist_entry SET status = 'offered', unconditionally.
MarkOffered(w) ==
    /\ workers[w].pc = "marking"
    /\ OtherLiveEntries(workers[w].entry) = {}
    /\ entries' = [entries EXCEPT ![workers[w].entry].status = "offered"]
    /\ workers' = [workers EXCEPT ![w] = Idle]
    /\ UNCHANGED <<bookings, offers, freed, sweeps, checked, now, faults>>

\* The update would make a second live entry (uniq_live_waitlist_per_user_slot).
MarkFails(w) ==
    /\ workers[w].pc = "marking"
    /\ OtherLiveEntries(workers[w].entry) # {}
    /\ Abandon(w)

-----------------------------------------------------------------------------
(* Resolving an offer, given by its hold.                                   *)

\* Fault: an acceptance that forgets the offer.
AcceptHoldOnly(h) ==
    /\ offers[h] # NoOffer
    /\ bookings[h].status = "held"
    /\ bookings[h].user = entries[offers[h].entry].user
    /\ bookings[h].expires > now
    /\ bookings' = AfterAccept(bookings, h)
    /\ entries' = [entries EXCEPT ![offers[h].entry].status = "fulfilled"]
    /\ UNCHANGED <<offers, freed, workers, sweeps, checked, now, faults>>

\* Fault: an UPDATE of the hold whose row count nobody looks at.
AcceptUnconditionally(h) ==
    /\ offers[h] # NoOffer
    /\ bookings' = IF bookings[h].status = "held" /\ bookings[h].expires > now
                   THEN AfterAccept(bookings, h) ELSE bookings
    /\ offers' = [offers EXCEPT ![h].status = IF @ = "active" THEN "confirmed" ELSE @]
    /\ entries' = [entries EXCEPT ![offers[h].entry].status = "fulfilled"]
    /\ UNCHANGED <<freed, workers, sweeps, checked, now, faults>>

\* Fault: an acceptance that leaves expiry to the reaper.
AcceptExpired(h) ==
    /\ offers[h] # NoOffer
    /\ bookings[h].status = "held"
    /\ bookings[h].user = entries[offers[h].entry].user
    /\ bookings' = AfterAccept(bookings, h)
    /\ offers' = [offers EXCEPT ![h].status = IF @ = "active" THEN "confirmed" ELSE @]
    /\ entries' = [entries EXCEPT ![offers[h].entry].status = "fulfilled"]
    /\ UNCHANGED <<freed, workers, sweeps, checked, now, faults>>

\* accept_offer: the hold decides; offer and entry follow.
Accept(h) ==
    /\ offers[h] # NoOffer
    /\ bookings[h].status = "held"
    /\ bookings[h].user = entries[offers[h].entry].user
    /\ bookings[h].expires > now
    /\ bookings' = AfterAccept(bookings, h)
    /\ offers' = [offers EXCEPT ![h].status = IF @ = "active" THEN "confirmed" ELSE @]
    /\ entries' = [entries EXCEPT ![offers[h].entry].status = "fulfilled"]
    /\ UNCHANGED <<freed, workers, sweeps, checked, now, faults>>

\* Fault: a decline that is a no-op on the hold but not on the offer.
DeclineAnyOffer(h) ==
    /\ offers[h] # NoOffer
    /\ offers' = [offers EXCEPT ![h].status = "declined"]
    /\ bookings' = IF bookings[h].status = "held" THEN AfterRelease(bookings, h) ELSE bookings
    /\ entries' = [entries EXCEPT ![offers[h].entry].status = "expired"]
    /\ Dispatch([of |-> h, resource |-> bookings[h].resource, range |-> offers[h].range])
    /\ UNCHANGED <<workers, sweeps, checked, now>>

\* decline_offer: the offer decides; hold and entry follow.
Decline(h) ==
    /\ offers[h].status = "active"
    /\ offers' = [offers EXCEPT ![h].status = "declined"]
    /\ bookings' = IF bookings[h].status = "held" THEN AfterRelease(bookings, h) ELSE bookings
    /\ entries' = [entries EXCEPT ![offers[h].entry].status = "expired"]
    /\ Dispatch([of |-> h, resource |-> bookings[h].resource, range |-> offers[h].range])
    /\ UNCHANGED <<workers, sweeps, checked, now>>

-----------------------------------------------------------------------------
(* reap_expired_holds.                                                      *)

\* Fault: a sweep over offers, which misses a hold whose worker died.
LapsedOffers ==
    {b \in BookingIds : Lapsed(bookings[b], now) /\ offers[b].status = "active"}

LapsedHolds == {b \in BookingIds : Lapsed(bookings[b], now)}

BeginSweep(w) ==
    /\ workers[w] = Idle
    /\ sweeps[w] = {}
    /\ LapsedHolds # {}
    /\ sweeps' = [sweeps EXCEPT ![w] = LapsedHolds]
    /\ UNCHANGED <<bookings, offers, entries, freed, workers, checked, now, faults>>

\* One hold of the sweep, in a transaction of its own; its cascade follows at
\* once in the same process.
Reclaim(w, h) ==
    /\ workers[w] = Idle
    /\ h \in sweeps[w]
    /\ sweeps' = [sweeps EXCEPT ![w] = @ \ {h}]
    /\ bookings[h].status = "held"
    /\ bookings' = AfterRelease(bookings, h)
    /\ IF offers[h].status = "active"
       THEN /\ offers' = [offers EXCEPT ![h].status = "expired"]
            /\ entries' = [entries EXCEPT ![offers[h].entry].status = "expired"]
            /\ workers' = [workers EXCEPT
                             ![w] = [pc |-> "listing", resource |-> bookings[h].resource,
                                     range |-> offers[h].range]]
       ELSE UNCHANGED <<offers, entries, workers>>
    /\ UNCHANGED <<freed, checked, now, faults>>

\* Someone resolved or deleted the hold first: nothing to reclaim.
SkipReclaim(w, h) ==
    /\ workers[w] = Idle
    /\ h \in sweeps[w]
    /\ bookings[h].status # "held"
    /\ sweeps' = [sweeps EXCEPT ![w] = @ \ {h}]
    /\ UNCHANGED <<bookings, offers, entries, freed, workers, checked, now, faults>>

-----------------------------------------------------------------------------
\* A worker process dies between two statements.
Crash(w) ==
    /\ faults < MaxFaults
    /\ workers[w] # Idle \/ (w \in Reapers /\ sweeps[w] # {})
    /\ faults' = faults + 1
    /\ workers' = [workers EXCEPT ![w] = Idle]
    /\ sweeps' = [v \in Reapers |-> IF v = w THEN {} ELSE sweeps[v]]
    /\ UNCHANGED <<bookings, offers, entries, freed, checked, now>>

Tick ==
    /\ now < MaxTime
    /\ PromptWorkers => \A w \in Workers : workers[w].pc \notin {"attaching", "marking"}
    /\ now' = now + 1
    /\ UNCHANGED <<bookings, offers, entries, freed, workers, sweeps, checked, faults>>

Cascade(w) ==
    \/ List(w)
    \/ PlaceHold(w)
    \/ SkipCandidate(w)
    \/ HoldBreaksForeignKey(w)
    \/ AttachOffer(w)
    \/ AttachFails(w)
    \/ MarkOffered(w)
    \/ MarkFails(w)

Sweep(w) ==
    \/ BeginSweep(w)
    \/ \E h \in BookingIds : Reclaim(w, h) \/ SkipReclaim(w, h)

Requests ==
    \/ \E r \in Resources, u \in Users, p \in BookRanges : Book(r, u, p)
    \/ \E b \in BookingIds, p \in EditRanges : Edit(b, p)
    \/ \E b \in BookingIds : CancelBooking(b)
    \/ \E u \in Users, r \in Resources, p \in JoinRanges : CheckJoin(u, r, p)
    \/ \E q \in checked : Join(q)
    \/ \E e \in EntryIds : CancelEntry(e)
    \/ \E h \in BookingIds : Accept(h) \/ Decline(h)

WaitlistNext ==
    \/ Requests
    \/ \E w \in Slots, task \in freed : Take(w, task)
    \/ \E w \in Workers : Cascade(w) \/ Crash(w)
    \/ \E w \in Reapers : Sweep(w)
    \/ Tick

WaitlistSpec == WaitlistInit /\ [][WaitlistNext]_waitlistVars

\* Time passes, worker slots are scheduled, and beat starts the sweep again and
\* again.  Users need not act.
Fairness ==
    /\ WF_waitlistVars(Tick)
    /\ \A w \in Workers : WF_waitlistVars(Cascade(w))
    /\ \A w \in Slots : WF_waitlistVars(\E task \in freed : Take(w, task))
    /\ \A w \in Reapers : WF_waitlistVars(Sweep(w))

FairWaitlistSpec == WaitlistSpec /\ Fairness

-----------------------------------------------------------------------------
(* Properties.                                                              *)

\* An offer and its hold never tell different stories, in whatever order
\* acceptances, declines, sweeps and workers commit: a confirmed offer's hold
\* was confirmed, a declined or expired offer's was released, an open hold that
\* has an offer has an active one, and no hold with an offer is ever deleted.
OffersMatchHolds ==
    \A h \in Offered :
        /\ bookings[h] \notin {Absent, Deleted}
        /\ offers[h].status = "confirmed" => bookings[h].status \in {"confirmed", "cancelled"}
        /\ offers[h].status \in {"declined", "expired"} => bookings[h].status = "cancelled"
        /\ offers[h].status = "active" => bookings[h].status \in {"held", "cancelled"}
        /\ bookings[h].status = "held" => offers[h].status = "active"

\* PRD FR25: at most one offer is outstanding for a range.  Nothing compares
\* offers; it is to follow from the holds under them.  Outstanding is an active
\* offer that has not expired: a worker may be so slow that the offer it attaches
\* is of a hold that has expired and gone.  And the hold is to be where the
\* offer is: its owner may edit it away, and the range is then offered again.
Outstanding(h) ==
    /\ offers[h].status = "active"
    /\ offers[h].expires > now
    /\ bookings[h].range = offers[h].range

OneOutstandingOffer ==
    \A g, h \in Offered :
        (/\ g # h
         /\ Outstanding(g)
         /\ Outstanding(h)
         /\ bookings[g].resource = bookings[h].resource)
            => ~Overlaps(offers[g].range, offers[h].range)

\* An offer that was resolved stays resolved the same way: of an acceptance, a
\* decline and a sweep racing for it one wins for good (test plan WL-02).
ResolvedOnce ==
    [][\A h \in Offered :
          offers[h].status # "active" => offers'[h] = offers[h]]_waitlistVars

\* Who was told their request is fulfilled did get the slot: one of the entry's
\* offers was confirmed, and its hold became a booking of that user.
FulfilledWasGranted ==
    \A e \in EntryIds :
        entries[e].status = "fulfilled" =>
            \E h \in Offered : /\ offers[h].entry = e
                               /\ offers[h].status = "confirmed"
                               /\ bookings[h].user = entries[e].user

\* A user has at most one live entry for a slot, late marks of a worker
\* included (test plan SEC-03).
OneLiveEntry ==
    \A e \in EntryIds :
        \A d \in EntryIds \ {e} :
            (/\ entries[d].status \in {"waiting", "offered"}
             /\ entries[e].status \in {"waiting", "offered"}
             /\ entries[d].user = entries[e].user
             /\ entries[d].resource = entries[e].resource)
                => entries[d].range # entries[e].range

\* The booking rows move as the booking services promise (Bookings), whatever
\* the waitlist around them does.
BookingsOf == INSTANCE Bookings WITH offered <- Offered

ImplementsBookings == BookingsOf!Spec

\* An expired hold is eventually released or confirmed or displaced, even when
\* nobody books and a sweep dies on the way (RFC 10.4).
HoldsAreReclaimed ==
    \A b \in BookingIds : (Lapsed(bookings[b], now) ~> bookings[b].status # "held")

\* The cascade a cancellation or a decline dispatches is not in vain: a freed
\* range does not stay wholly free while someone waits for a part of it, unless
\* a worker died or a dispatch was lost.
FreedRangeIsOffered ==
    \A r \in Resources, p \in Range :
        (\E task \in freed : task.resource = r /\ task.range = p)
            ~> \/ ~SlotIsFree(r, p)
               \/ faults > 0
               \/ \A e \in EntryIds :
                     (entries[e].status = "waiting" /\ entries[e].resource = r)
                         => ~Contains(p, entries[e].range)
=============================================================================
