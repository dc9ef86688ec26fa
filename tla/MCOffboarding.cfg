SPECIFICATION OffboardingSpec
CONSTANTS
    ann = ann
    bob = bob
    room = room
    hall = hall
    lab = lab
    weekly = weekly
    Resources = {room, hall, lab}
    Users = {ann, bob}
    Series = {weekly}
    NoSeries = NoSeries
    Horizon = 2
    MaxBookings = 2
    HoldWindow = 1
    MaxTime = 2
    Policy <- PolicyOf
    Admins <- AdminsOf
    Owner <- OwnerOf
    SeriesResource <- SeriesAt
    Targets = {ann}
    Callers = {ann}
    Wanted = room
    Slot <- TheSlot
    Messages <- TheMessages
    MaxRetries = 1
    MaxFaults = 1
INVARIANTS OffboardingTypeOK AnnouncedIsDone NothingLeftBehind LogIsTruthful
CHECK_DEADLOCK FALSE
