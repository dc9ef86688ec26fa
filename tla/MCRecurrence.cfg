\* Two dates, a day of six ticks, 25 zones.
SPECIFICATION RecurrenceSpec
CONSTANTS
    Zones <- ZonesAround
    Day = 6
    OccurrenceCount = 2
INVARIANTS OccursAsRequested ClosestIsOfItsDate
\* All occurrences may be materialized and one release installed for good.
CHECK_DEADLOCK FALSE
