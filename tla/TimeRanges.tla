----------------------------- MODULE TimeRanges -----------------------------
(***************************************************************************)
(* What bookings and claims are about: resources, their users, ranges of   *)
(* time and the ids that are handed out.                                   *)
(***************************************************************************)
EXTENDS Integers

CONSTANTS Resources,   \* bookable resources
          Users,       \* principals
          Horizon,     \* instants 0..Horizon delimit the bookable ranges
          MaxBookings  \* bound: rows ever inserted

BookingIds == 1..MaxBookings

\* Half-open time ranges, tstzrange's [start, end).
Range == {p \in (0..Horizon) \X (0..Horizon) : p[1] < p[2]}

Overlaps(p, q) == p[1] < q[2] /\ q[1] < p[2]      \* operator &&
Contains(p, q) == p[1] <= q[1] /\ q[2] <= p[2]    \* operator @>
=============================================================================
