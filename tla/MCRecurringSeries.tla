-------------------------- MODULE MCRecurringSeries --------------------------
(* Instances of RecurringSeries for TLC.                                    *)
EXTENDS RecurringSeries, TLC

\* The first release has the second date one tick later than the second.
RuleChange == [v \in 0..1 |-> [d \in 1..2 |-> IF v = 0 /\ d = 2 THEN 1 ELSE 0]]

\* Where an occurrence of either release may be.
OccurrencePlaces == {<<0, 1>>, <<4, 5>>, <<5, 6>>}

LaterPlace == {<<4, 5>>}

AlikeRuns == Permutations(Workers)
=============================================================================
