------------------------------ MODULE Calendar ------------------------------
(***************************************************************************)
(* What the booking engine promises, without holds, offers, expiries or    *)
(* cleanup: a calendar of claims.  A claim is one owner's exclusive right  *)
(* to a range of a resource; it is provisional (a hold) or firm (a         *)
(* booking).  A claim is granted whole or not at all, never over another   *)
(* claim except provisional ones it displaces in the same step, and a firm *)
(* claim ends only by being given up.  An owner who leaves gives up claims *)
(* and hands others over, all in one step.                                 *)
(***************************************************************************)
EXTENDS TimeRanges

VARIABLE claims

Claim == [resource : Resources, range : Range, owner : Users, firm : BOOLEAN]
Never == [state |-> "never"]    \* the id has not been used
Gone  == [state |-> "gone"]     \* the claim has ended

Standing == {b \in BookingIds : claims[b] \notin {Never, Gone}}

CalendarInit == claims = [b \in BookingIds |-> Never]

\* No standing claim outside the set except is in the way of p on r.
Available(r, p, except) ==
    \A c \in Standing \ except :
        claims[c].resource = r => ~Overlaps(claims[c].range, p)

Take(b, displaced) ==
    /\ claims[b] = Never
    /\ \A d \in displaced : d \in Standing /\ ~claims[d].firm
    /\ \E c \in Claim :
          /\ Available(c.resource, c.range, displaced)
          /\ claims' = [d \in BookingIds |-> IF d = b THEN c
                                             ELSE IF d \in displaced THEN Gone
                                             ELSE claims[d]]

Move(b, p) ==
    /\ b \in Standing
    /\ Available(claims[b].resource, p, {b})
    /\ claims' = [claims EXCEPT ![b] = [@ EXCEPT !.range = p]]

MakeFirm(b) ==
    /\ b \in Standing
    /\ ~claims[b].firm
    /\ claims' = [claims EXCEPT ![b] = [@ EXCEPT !.firm = TRUE]]

HandOver(b, u) ==
    /\ b \in Standing
    /\ claims' = [claims EXCEPT ![b] = [@ EXCEPT !.owner = u]]

GiveUp(B) ==
    /\ B \subseteq Standing
    /\ claims' = [b \in BookingIds |-> IF b \in B THEN Gone ELSE claims[b]]

\* Of u's claims some end, others are handed over, the rest stay u's.
Leave(u) ==
    /\ claims' = [b \in BookingIds |-> claims'[b]]
    /\ \A b \in BookingIds :
          \/ claims'[b] = claims[b]
          \/ /\ b \in Standing /\ claims[b].owner = u
             /\ \/ claims'[b] = Gone
                \/ \E v \in Users : claims'[b] = [claims[b] EXCEPT !.owner = v]

CalendarNext ==
    \/ \E b \in BookingIds, displaced \in SUBSET BookingIds : Take(b, displaced)
    \/ \E b \in BookingIds, p \in Range : Move(b, p)
    \/ \E b \in BookingIds : MakeFirm(b)
    \/ \E b \in BookingIds, u \in Users : HandOver(b, u)
    \/ \E B \in SUBSET BookingIds : GiveUp(B)
    \/ \E u \in Users : Leave(u)

CalendarSpec == CalendarInit /\ [][CalendarNext]_claims

-----------------------------------------------------------------------------

\* Two standing claims on one resource never overlap.
NeverShared ==
    \A b, c \in Standing :
        b # c /\ claims[b].resource = claims[c].resource
            => ~Overlaps(claims[b].range, claims[c].range)
=============================================================================
