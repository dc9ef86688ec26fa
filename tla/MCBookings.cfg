\* Three rows over two users, ranges of three instants, one resource and one series.
SPECIFICATION Spec
CONSTANTS
    Resources = {room}
    Users = {ann, bob}
    Series = {weekly}
    NoSeries = NoSeries
    Horizon = 2
    MaxBookings = 3
    HoldWindow = 1
    MaxTime = 2
SYMMETRY Interchangeable
INVARIANTS TypeOK NoOverlappingBookings
PROPERTIES HoldKeepsTheSlot FreedForGood ImplementsCalendar
\* The clock and the ids run out: the bounded system may stop.
CHECK_DEADLOCK FALSE
