--------------------------- MODULE MCOffboarding ---------------------------
(* An instance of Offboarding for TLC.                                      *)
EXTENDS Offboarding, TLC

CONSTANTS ann, bob, room, hall, lab, weekly

PolicyOf   == (room :> "cancel_and_notify") @@ (hall :> "transfer") @@ (lab :> "transfer")
AdminsOf   == (room :> <<>>) @@ (hall :> <<bob>>) @@ (lab :> <<ann, bob>>)
OwnerOf    == weekly :> ann
SeriesAt   == weekly :> hall
TheSlot    == <<1, 2>>
TheMessages == BookingIds \cup Series
=============================================================================
