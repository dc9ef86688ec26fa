--------------------------- MODULE BookingRequests ---------------------------
(***************************************************************************)
(* Bookings with the answers a client of create_booking and edit_booking   *)
(* gets, the refusals included: SlotUnavailableError (23P01, answered 409) *)
(* and the errors _handle_write_database_error does not translate (23503,  *)
(* answered 500).  A refused request leaves the table as it was.           *)
(***************************************************************************)
EXTENDS Bookings

VARIABLE reply   \* how the last create or edit ended

requestVars == <<bookings, offered, now, reply>>

Results == {"none", "ok", "slot_unavailable", "integrity_error"}
Reply   == [op : {"none", "create", "edit"}, result : Results, live : BOOLEAN]
NoReply == [op |-> "none", result |-> "none", live |-> FALSE]

\* live says whether a row that nobody may displace was in the way.
ReplyTo(op, result, others, r, p) ==
    [op |-> op, result |-> result,
     live |-> LiveBlockers(bookings, others, r, p, now) # {}]

RequestTypeOK == TypeOK /\ reply \in Reply

RequestInit == Init /\ reply = NoReply

-----------------------------------------------------------------------------
RequestBooking(r, u, p, s) ==
    /\ Book(r, u, p, s)
    /\ reply' = ReplyTo("create", "ok", BookingIds, r, p)

\* The INSERT still meets a row of the exclusion domain after the DELETE.
BookingConflicts(r, p) ==
    /\ p[1] >= now
    /\ ~Excludes(AfterCleanup(bookings, r, p, now), BookingIds, r, p)
    /\ reply' = ReplyTo("create", "slot_unavailable", BookingIds, r, p)
    /\ UNCHANGED bookingVars

\* The DELETE took a row that an offer still refers to.
BookingBreaksForeignKey(r, p) ==
    /\ p[1] >= now
    /\ Excludes(AfterCleanup(bookings, r, p, now), BookingIds, r, p)
    /\ StaleHolds(bookings, r, p, now) \cap offered # {}
    /\ reply' = ReplyTo("create", "integrity_error", BookingIds, r, p)
    /\ UNCHANGED bookingVars

RequestEdit(u, b, p) ==
    /\ Edit(u, b, p)
    /\ reply' = ReplyTo("edit", "ok", BookingIds \ {b}, bookings[b].resource, p)

EditConflicts(b, p) ==
    /\ InTable(bookings[b])
    /\ p[1] >= now
    /\ ~Fits(b, p)
    /\ reply' = ReplyTo("edit", "slot_unavailable", BookingIds \ {b},
                        bookings[b].resource, p)
    /\ UNCHANGED bookingVars

\* The other writers, whose answers are not the matter of this module.
OtherWrites ==
    \/ \E r \in Resources, u \in Users, p \in Range : PlaceHold(r, u, p)
    \/ \E b \in BookingIds : Cancel(b)
    \/ \E s \in Series : CancelSeries(s)
    \/ \E b \in BookingIds, u \in Users : Transfer(b, u)
    \/ \E b \in BookingIds : AttachOffer(b)
    \/ \E u \in Users, b \in BookingIds : Accept(u, b)
    \/ \E b \in BookingIds : Decline(b)
    \/ \E b \in BookingIds : Reap(b)
    \/ Tick

RequestNext ==
    \/ \E r \in Resources, u \in Users, p \in Range, s \in Series \cup {NoSeries} :
          RequestBooking(r, u, p, s)
    \/ \E r \in Resources, p \in Range : BookingConflicts(r, p)
    \/ \E r \in Resources, p \in Range : BookingBreaksForeignKey(r, p)
    \/ \E u \in Users, b \in BookingIds, p \in Range : RequestEdit(u, b, p)
    \/ \E b \in BookingIds, p \in Range : EditConflicts(b, p)
    \/ OtherWrites /\ reply' = NoReply

RequestSpec == RequestInit /\ [][RequestNext]_requestVars

-----------------------------------------------------------------------------
(* Properties.                                                              *)

\* A booking request is told slot_unavailable only when a booking or an
\* unexpired hold is in its way: the rollback of the refused INSERT also undoes
\* its cleanup, but a lapsed hold alone never refuses anybody (PRD FR18).
RefusedOnlyByLiveRows ==
    (reply.op = "create" /\ reply.result = "slot_unavailable") => reply.live
=============================================================================
