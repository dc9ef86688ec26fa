\* One series of two dates, two releases, three rows, two runs of the jobs that
\* overlap, one of them cut off; the owner also makes the one-off bookings.
SPECIFICATION SeriesSpec
CONSTANTS
    Resources = {room}
    Users = {ann}
    Series = {weekly}
    NoSeries = NoSeries
    Horizon = 6
    MaxBookings = 3
    HoldWindow = 1
    MaxTime = 1
    Count = 2
    Week = 4
    Nearby = 1
    MaxRelease = 1
    Rule <- RuleChange
    Advance = 4
    TokenTTL = 1
    Workers = {w1, w2}
    MaxStops = 1
    UserSlots <- LaterPlace
SYMMETRY AlikeRuns
INVARIANTS SeriesTypeOK NoDatePassedOver NoneLeftBehind
    OneBookingPerDate
CHECK_DEADLOCK FALSE
