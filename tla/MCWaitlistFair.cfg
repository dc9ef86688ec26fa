\* Users wait for the first half of a longer booking; one fault; two rows that
\* direct bookings may not use, so that the cascade never runs out of rows.
SPECIFICATION FairWaitlistSpec
CONSTANTS
    Resources = {room}
    Users = {ann, bob}
    Series = {}
    NoSeries = NoSeries
    Horizon = 4
    MaxBookings = 3
    HoldWindow = 1
    MaxTime = 2
    MaxEntries = 2
    Slots = {celery}
    Reapers = {reaper}
    BookRanges <- Whole
    JoinRanges <- OneSlot
    EditRanges <- NoRange
    HoldReserve = 2
    MaxFaults = 1
    PromptWorkers = TRUE
PROPERTIES ImplementsBookings HoldsAreReclaimed FreedRangeIsOffered
\* The clock and the ids run out: the bounded system may stop.
CHECK_DEADLOCK FALSE
