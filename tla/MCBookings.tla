----------------------------- MODULE MCBookings -----------------------------
(* Instances of Bookings for TLC.                                           *)
EXTENDS Bookings, TLC

\* Resources and users are interchangeable in every definition and property.
Interchangeable == Permutations(Users) \cup Permutations(Resources)
=============================================================================
