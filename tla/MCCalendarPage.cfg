\* A resource with a slot, one without to look away to, the user of the page
\* and another one who wants the slot, three clicks (book, cancel, cancel once
\* more), one retry, two fetches on their way.
SPECIFICATION FairCalendarPageSpec
CONSTANTS
    Resources = {room, lab}
    Users = {ann, bob}
    Series = {}
    NoSeries = NoSeries
    Horizon = 2
    MaxBookings = 2
    HoldWindow = 1
    MaxTime = 0
    Me = ann
    Slots <- RoomSlot
    room = room
    bob = bob
    Contested <- BobInRoom
    MaxClicks = 3
    MaxFetches = 2
    MaxRetries = 1
INVARIANTS CalendarTypeOK RefusedIsNotBooked CancelledDisappears
PROPERTIES LoadingEnds
CHECK_DEADLOCK FALSE
