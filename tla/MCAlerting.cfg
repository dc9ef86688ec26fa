SPECIFICATION FairAlertingSpec
CONSTANTS
    Resources = {room}
    Users = {ann}
    Series = {}
    NoSeries = NoSeries
    Horizon = 2
    MaxBookings = 2
    HoldWindow = 1
    MaxTime = 0
    Keys <- KeysInOrder
    Writes <- Rows
    MaxEvents = 3
    Evaluators = {e1, e2}
    MaxChanges = 2
    MaxDeaths = 1
INVARIANTS HitMeansRemoved
PROPERTIES RemovalIsReported AllClearIsReported
CHECK_DEADLOCK FALSE
