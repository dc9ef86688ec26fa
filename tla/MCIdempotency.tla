--------------------------- MODULE MCIdempotency ---------------------------
(* Instances of Idempotency for TLC.                                        *)
EXTENDS Idempotency, TLC

Interchangeable == Permutations(Requests) \cup Permutations(Keys)

TwoSlots  == {1, 2}
Single    == {{1}, {2}}
Recurring == {{1, 2}}
=============================================================================
