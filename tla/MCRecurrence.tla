---------------------------- MODULE MCRecurrence ----------------------------
(* Instances of Recurrence for TLC.                                         *)
EXTENDS Recurrence

\* Transitions by one tick and by two, in both directions and none, around the
\* first date and around the second, with a day of six ticks.
Changes == {<<0, 1>>, <<1, 0>>, <<0, 2>>, <<2, 0>>, <<0, 0>>}
ZonesAround == {[at |-> t, before |-> c[1], after |-> c[2]] :
                   t \in {1, 2, 3, 43, 44}, c \in Changes}
=============================================================================
