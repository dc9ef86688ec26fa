-------------------------- MODULE MCBookingRequests --------------------------
(* Instances of BookingPages, with BookingRequests, for TLC.                *)
EXTENDS BookingPages, TLC

CONSTANTS room, ann, bob

List(of, status, time) == [of |-> of, status |-> status, time |-> time]

Lists == {List(room, "any", "past"), List(room, "confirmed", "upcoming")}

Interchangeable == Permutations({ann, bob})

\* The second row has the smallest id.
Ranks == [b \in BookingIds |-> (b + 1) % 3]
=============================================================================
