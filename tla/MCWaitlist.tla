----------------------------- MODULE MCWaitlist -----------------------------
(* Instances of Waitlist for TLC.                                           *)
EXTENDS Waitlist, TLC

Interchangeable == Permutations(Users)

NoRange == {}
OneSlot == {<<2, 3>>}
Whole   == {<<2, 4>>}
SecondHalf == {<<3, 4>>}
=============================================================================
