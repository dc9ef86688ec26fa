----------------------------- MODULE MCAlerting -----------------------------
(* An instance of Alerting for TLC.                                         *)
EXTENDS Alerting

KeysInOrder == <<"schema_assertion", "reconciliation">>

\* A hold of one slot and a booking of the slot after it.
Rows == {<<<<0, 1>>, "held">>, <<<<1, 2>>, "confirmed">>}
=============================================================================
