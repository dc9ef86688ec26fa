\* Three requests under one key: two bodies of single writes and a series of both
\* slots; the clock outlasts the retention twice.
SPECIFICATION IdempotencySpec
CONSTANTS
    Requests = {r1, r2, r3}
    Keys = {key}
    Writes = {book}
    Untranslated = {book}
    Series = series
    Slots <- TwoSlots
    WriteBodies <- Single
    SeriesBodies <- Recurring
    Retention = 1
    MaxTime = 3
SYMMETRY Interchangeable
INVARIANTS IdempotencyTypeOK OneEffectPerKey OneOutcomePerKey
PROPERTIES OwnGrantNeverRefuses
\* The clock and the requests run out: the bounded system may stop.
CHECK_DEADLOCK FALSE
