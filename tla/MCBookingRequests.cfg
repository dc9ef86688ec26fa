\* Three rows of two users on one resource: two holds and a booking in the way,
\* and lists of the resource, read a row at a time.
SPECIFICATION PagesSpec
CONSTANTS
    room = room
    ann = ann
    bob = bob
    Resources = {room}
    Users = {ann, bob}
    Series = {}
    NoSeries = NoSeries
    Horizon = 2
    MaxBookings = 3
    HoldWindow = 1
    MaxTime = 2
    Rank <- Ranks
    Asked <- Lists
    PageSizes = {1}
SYMMETRY Interchangeable
INVARIANTS RefusedOnlyByLiveRows EachRowOnce
\* The clock and the ids run out: the bounded system may stop.
CHECK_DEADLOCK FALSE
