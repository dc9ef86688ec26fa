\* The same series under fairness, the clock stopped.
SPECIFICATION FairSeriesSpec
CONSTANTS
    Resources = {room}
    Users = {ann, bob}
    Series = {weekly}
    NoSeries = NoSeries
    Horizon = 6
    MaxBookings = 2
    HoldWindow = 1
    MaxTime = 0
    Count = 2
    Week = 4
    Nearby = 1
    MaxRelease = 1
    Rule <- RuleChange
    Advance = 4
    TokenTTL = 1
    Workers = {w1}
    MaxStops = 0
    UserSlots <- OccurrencePlaces
PROPERTIES StaleIsResolved
CHECK_DEADLOCK FALSE
