---------------------------- MODULE BookingTable ----------------------------
(***************************************************************************)
(* The booking table every writer of the engine shares                     *)
(* (backend/kairos/bookings/models.py) with the exclusion constraint that  *)
(* guards it (bookings/migrations/0002_exclusion_constraint.py) and the    *)
(* statements the services issue against it, as operators from a table to  *)
(* a table.  A statement's WHERE clause is the set of rows it matches, its *)
(* SET clause the new rows.                                                *)
(***************************************************************************)
EXTENDS TimeRanges, FiniteSets

CONSTANTS Series,      \* recurring series a booking may be an occurrence of
          NoSeries,    \* "series IS NULL", a one-off booking
          HoldWindow,  \* OFFER_WINDOW_MINUTES, in clock ticks
          MaxTime      \* bound: last instant of the clock

ASSUME TableAssumption ==
    /\ Horizon \in Nat \ {0}
    /\ MaxBookings \in Nat \ {0}
    /\ HoldWindow \in Nat \ {0}
    /\ MaxTime \in Nat
    /\ NoSeries \notin Series

VARIABLE bookings   \* the table: a row, or Absent or Deleted, for each id

-----------------------------------------------------------------------------
(* Rows.  Ids are handed out once: a deleted row's id is never reused.     *)

Times      == 0..MaxTime
NoExpiry   == -1

Absent  == [status |-> "absent"]     \* not inserted yet
Deleted == [status |-> "deleted"]    \* removed by cleanup-on-write

\* The CHECK constraint hold_has_expiry is the shape of the two kinds of row:
\* exactly a held row has an expiry.
Held == [resource : Resources, user : Users, range : Range,
         series : Series \cup {NoSeries}, status : {"held"},
         expires : 0..(MaxTime + HoldWindow)]
Settled == [resource : Resources, user : Users, range : Range,
            series : Series \cup {NoSeries},
            status : {"confirmed", "cancelled"}, expires : {NoExpiry}]
Row == Held \cup Settled

InTable(row) == row.status \in {"held", "confirmed", "cancelled"}

\* Fault: the predicate narrowed to 'confirmed' (the change create_booking's
\* comment warns of).
ConfirmedOnly(row) == row.status = "confirmed"

\* The predicate of no_overlapping_bookings: a hold occupies the exclusion
\* domain exactly as a confirmed booking does.
InExclusionDomain(row) == row.status \in {"confirmed", "held"}

\* Fault: reclamation that forgets the expiry.
AnyHold(row, t) == row.status = "held"

\* "status = 'held' AND expires_at <= t"
Lapsed(row, t) == row.status = "held" /\ row.expires <= t

\* What EXCLUDE USING gist (resource_id WITH =, time_range WITH &&) demands of
\* the other rows before a row of the domain may hold p on r.
Excludes(tbl, others, r, p) ==
    \A c \in others : (InExclusionDomain(tbl[c]) /\ tbl[c].resource = r)
                          => ~Overlaps(tbl[c].range, p)

\* Rows in the way of p on r that nobody may displace at time t.
LiveBlockers(tbl, others, r, p, t) ==
    {c \in others : /\ tbl[c].status \in {"confirmed", "held"}
                    /\ tbl[c].resource = r
                    /\ Overlaps(tbl[c].range, p)
                    /\ ~Lapsed(tbl[c], t)}

-----------------------------------------------------------------------------
(* Statements.                                                             *)

\* The WHERE clause of the cleanup-on-write DELETE.
StaleHolds(tbl, r, p, t) ==
    {b \in BookingIds : /\ Lapsed(tbl[b], t)
                        /\ tbl[b].resource = r
                        /\ Overlaps(tbl[b].range, p)}

\* Fault: the DELETE removed or skipped.
NoCleanup(tbl, r, p, t) == tbl

AfterCleanup(tbl, r, p, t) ==
    [b \in BookingIds |-> IF b \in StaleHolds(tbl, r, p, t) THEN Deleted ELSE tbl[b]]

\* The next id to insert (none once MaxBookings rows were inserted).
FreshIds(tbl) == {b \in BookingIds : /\ tbl[b] = Absent
                                     /\ \A c \in BookingIds : c < b => tbl[c] # Absent}

\* Fault: every row is stamped with an expiry.
RowWithExpiry(r, u, p, s, st, t) ==
    [resource |-> r, user |-> u, range |-> p, series |-> s, status |-> st,
     expires |-> t + HoldWindow]

\* Booking.objects.create: a hold is stamped with its own expiry.
NewRow(r, u, p, s, st, t) ==
    [resource |-> r, user |-> u, range |-> p, series |-> s, status |-> st,
     expires |-> IF st = "held" THEN t + HoldWindow ELSE NoExpiry]

\* accept_offer: status = confirmed, expires_at = NULL.
AfterAccept(tbl, b) ==
    [tbl EXCEPT ![b] = [@ EXCEPT !.status = "confirmed", !.expires = NoExpiry]]

\* Fault: a release that leaves expires_at alone (SQLSTATE 23514 in the code).
ReleaseKeepsExpiry(tbl, b) == [tbl EXCEPT ![b] = [@ EXCEPT !.status = "cancelled"]]

\* decline_offer and reap_expired_holds: status = cancelled, expires_at = NULL.
AfterRelease(tbl, b) ==
    [tbl EXCEPT ![b] = [@ EXCEPT !.status = "cancelled", !.expires = NoExpiry]]

\* cancel_booking and cancel_recurring_series over the rows B: status only.
AfterCancel(tbl, B) ==
    [b \in BookingIds |-> IF b \in B THEN [tbl[b] EXCEPT !.status = "cancelled"]
                                     ELSE tbl[b]]

-----------------------------------------------------------------------------
(* What the table stands for.                                               *)

\* A row of the exclusion domain is a claim, firm when confirmed.
ClaimOf(row) ==
    IF row.status \in {"confirmed", "held"}
    THEN [resource |-> row.resource, range |-> row.range, owner |-> row.user,
          firm |-> row.status = "confirmed"]
    ELSE IF row = Absent THEN [state |-> "never"]
    ELSE [state |-> "gone"]

Claims == [b \in BookingIds |-> ClaimOf(bookings[b])]

Abs == INSTANCE Calendar WITH claims <- Claims

\* The table implements the calendar, whichever services write it: offers,
\* expiries, sweeps, refused writes and the clock are invisible, cleanup-on-write
\* and the INSERT behind it are one grant, an acceptance only makes the holder's
\* claim firm, and all that a deactivation does to rows is one step.
ImplementsCalendar == Abs!CalendarSpec
=============================================================================
