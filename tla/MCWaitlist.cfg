\* Two users wait for one slot and may move what they hold to the next one; a
\* worker may outlive its hold; three rows, one worker slot, one reaper, one fault.
SPECIFICATION WaitlistSpec
CONSTANTS
    Resources = {room}
    Users = {ann, bob}
    Series = {}
    NoSeries = NoSeries
    Horizon = 4
    MaxBookings = 3
    HoldWindow = 1
    MaxTime = 1
    MaxEntries = 2
    Slots = {celery}
    Reapers = {reaper}
    BookRanges <- OneSlot
    JoinRanges <- OneSlot
    EditRanges <- SecondHalf
    HoldReserve = 0
    MaxFaults = 1
    PromptWorkers = FALSE
SYMMETRY Interchangeable
INVARIANTS WaitlistTypeOK OffersMatchHolds FulfilledWasGranted OneOutstandingOffer
PROPERTIES ResolvedOnce
\* The clock and the ids run out: the bounded system may stop.
CHECK_DEADLOCK FALSE
