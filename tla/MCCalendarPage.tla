---------------------------- MODULE MCCalendarPage ----------------------------
(* An instance of CalendarPage for TLC.                                     *)
EXTENDS CalendarPage

CONSTANTS room, bob

RoomSlot  == {<<room, <<0, 1>>>>}
BobInRoom == {<<bob, room, <<0, 1>>>>}
=============================================================================
