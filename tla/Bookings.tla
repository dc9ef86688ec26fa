------------------------------ MODULE Bookings ------------------------------
(***************************************************************************)
(* The booking services of backend/kairos/bookings/services.py, with the   *)
(* statements that accept_offer, decline_offer and reap_expired_holds of   *)
(* backend/kairos/waitlist/services.py issue against booking rows.  One    *)
(* action is one committed transaction: the exclusion constraint and the   *)
(* row locks of the guarded UPDATEs order concurrent transactions, and no  *)
(* service reads availability before it writes.  A transaction that rolls  *)
(* back leaves the table as it was: its answer is the matter of            *)
(* BookingRequests.                                                        *)
(*                                                                         *)
(* The foreign key waitlist_offer.hold_booking_id -> booking.id            *)
(* (deferred, no action) is the set offered of rows an offer refers to.    *)
(***************************************************************************)
EXTENDS BookingTable

VARIABLES offered,    \* rows that a waitlist_offer row refers to
          now         \* the clock

bookingVars == <<bookings, offered, now>>

TypeOK ==
    /\ bookings \in [BookingIds -> Row \cup {Absent, Deleted}]
    /\ offered \subseteq BookingIds
    /\ now \in Times

Init ==
    /\ bookings = [b \in BookingIds |-> Absent]
    /\ offered = {}
    /\ now = 0

-----------------------------------------------------------------------------
(* create_booking.  In one transaction: DELETE the lapsed holds in the way, *)
(* INSERT the row.  The INSERT is checked at once (23P01), the foreign key  *)
(* of a deleted row at COMMIT (23503); either undoes both statements.       *)

CreateBooking(r, u, p, s, st) ==
    LET cleaned == AfterCleanup(bookings, r, p, now)
    IN  /\ Excludes(cleaned, BookingIds, r, p)
        /\ StaleHolds(bookings, r, p, now) \cap offered = {}
        /\ \E b \in FreshIds(bookings) :
              bookings' = [cleaned EXCEPT ![b] = NewRow(r, u, p, s, st, now)]
        /\ UNCHANGED <<offered, now>>

\* POST /bookings and a series occurrence; past starts are refused before.
Book(r, u, p, s) ==
    /\ p[1] >= now
    /\ CreateBooking(r, u, p, s, "confirmed")

\* The cascade worker's hold for a waitlisted user.
PlaceHold(r, u, p) == CreateBooking(r, u, p, NoSeries, "held")

-----------------------------------------------------------------------------
(* edit_booking: UPDATE ... SET time_range WHERE id.  The owner's, whatever *)
(* the row's status; no cleanup-on-write precedes it.                       *)

Fits(b, p) ==
    InExclusionDomain(bookings[b])
        => Excludes(bookings, BookingIds \ {b}, bookings[b].resource, p)

\* Fault: an UPDATE the constraint does not see.
EditUnchecked(u, b, p) ==
    /\ InTable(bookings[b])
    /\ bookings[b].user = u
    /\ p[1] >= now
    /\ bookings' = [bookings EXCEPT ![b] = [@ EXCEPT !.range = p]]
    /\ UNCHANGED <<offered, now>>

Edit(u, b, p) ==
    /\ InTable(bookings[b])
    /\ bookings[b].user = u
    /\ p[1] >= now
    /\ Fits(b, p)
    /\ bookings' = [bookings EXCEPT ![b] = [@ EXCEPT !.range = p]]
    /\ UNCHANGED <<offered, now>>

\* cancel_booking: guarded on the current status, so a repeat is a no-op.
Cancel(b) ==
    /\ bookings[b].status = "confirmed"
    /\ bookings' = AfterCancel(bookings, {b})
    /\ UNCHANGED <<offered, now>>

\* cancel_recurring_series: the confirmed occurrences still to come.
FutureOccurrences(s) ==
    {b \in BookingIds : /\ bookings[b].status = "confirmed"
                        /\ bookings[b].series = s
                        /\ bookings[b].range[1] >= now}

CancelSeries(s) ==
    /\ FutureOccurrences(s) # {}
    /\ bookings' = AfterCancel(bookings, FutureOccurrences(s))
    /\ UNCHANGED <<offered, now>>

\* transfer_booking_ownership: the row was confirmed when it was selected and
\* may have been cancelled since.
Transfer(b, u) ==
    /\ bookings[b].status \in {"confirmed", "cancelled"}
    /\ bookings' = [bookings EXCEPT ![b] = [@ EXCEPT !.user = u]]
    /\ UNCHANGED <<offered, now>>

-----------------------------------------------------------------------------
(* The waitlist's statements against holds.                                 *)

\* INSERT INTO waitlist_offer: one offer per hold, which must exist.
AttachOffer(b) ==
    /\ bookings[b].status \in {"held", "cancelled"}
    /\ b \notin offered
    /\ offered' = offered \cup {b}
    /\ UNCHANGED <<bookings, now>>

\* Fault: an acceptance that trusts the offer and never looks at the hold.
AcceptBlindly(u, b) ==
    /\ b \in offered
    /\ InTable(bookings[b])
    /\ bookings[b].user = u
    /\ bookings' = AfterAccept(bookings, b)
    /\ UNCHANGED <<offered, now>>

\* accept_offer: held, the beneficiary's, and not past its expiry.
Accept(u, b) ==
    /\ b \in offered
    /\ bookings[b].status = "held"
    /\ bookings[b].user = u
    /\ bookings[b].expires > now
    /\ bookings' = AfterAccept(bookings, b)
    /\ UNCHANGED <<offered, now>>

\* decline_offer: whatever the expiry.
Decline(b) ==
    /\ b \in offered
    /\ bookings[b].status = "held"
    /\ bookings' = AfterRelease(bookings, b)
    /\ UNCHANGED <<offered, now>>

\* reap_expired_holds, one hold of a sweep.
Reap(b) ==
    /\ Lapsed(bookings[b], now)
    /\ bookings' = AfterRelease(bookings, b)
    /\ UNCHANGED <<offered, now>>

Tick ==
    /\ now < MaxTime
    /\ now' = now + 1
    /\ UNCHANGED <<bookings, offered>>

Next ==
    \/ \E r \in Resources, u \in Users, p \in Range, s \in Series \cup {NoSeries} :
          Book(r, u, p, s)
    \/ \E r \in Resources, u \in Users, p \in Range : PlaceHold(r, u, p)
    \/ \E u \in Users, b \in BookingIds, p \in Range : Edit(u, b, p)
    \/ \E b \in BookingIds : Cancel(b)
    \/ \E s \in Series : CancelSeries(s)
    \/ \E b \in BookingIds, u \in Users : Transfer(b, u)
    \/ \E b \in BookingIds : AttachOffer(b)
    \/ \E u \in Users, b \in BookingIds : Accept(u, b)
    \/ \E b \in BookingIds : Decline(b)
    \/ \E b \in BookingIds : Reap(b)
    \/ Tick

Spec == Init /\ [][Next]_bookingVars

-----------------------------------------------------------------------------
(* Properties.                                                              *)

\* At every moment two rows of the exclusion domain on one resource do not
\* overlap (PRD FR1).  Accept takes no availability check at all: it keeps this
\* because the hold it confirms already occupies the domain (RFC 10.1, 10.3).
NoOverlappingBookings ==
    \A b, c \in BookingIds :
        (/\ b # c
         /\ bookings[b].status \in {"confirmed", "held"}
         /\ bookings[c].status \in {"confirmed", "held"}
         /\ bookings[b].resource = bookings[c].resource)
            => ~Overlaps(bookings[b].range, bookings[c].range)

\* Until it expires, a hold belongs to its beneficiary: it stops being a hold
\* only by becoming that user's booking or by the decline of its own offer,
\* whatever other writers, sweeps and cancellations do (RFC 10.3).
HoldKeepsTheSlot ==
    [][\A b \in BookingIds :
          (/\ bookings[b].status = "held"
           /\ bookings[b].expires > now
           /\ bookings'[b].status # "held")
              => /\ b \in offered
                 /\ bookings'[b].status \in {"confirmed", "cancelled"}
                 /\ bookings'[b].user = bookings[b].user
                 /\ \A c \in BookingIds \ {b} : bookings'[c] = bookings[c]]_bookingVars

\* A row that left the exclusion domain never comes back to it: no accept,
\* edit or transfer revives a cancelled booking or a reclaimed hold, on which
\* someone else may have booked meanwhile (PRD FR4).
FreedForGood ==
    [][\A b \in BookingIds :
          bookings[b].status \in {"cancelled", "deleted"}
              => bookings'[b].status = bookings[b].status]_bookingVars
=============================================================================
