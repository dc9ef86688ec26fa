----------------------------- MODULE Recurrence -----------------------------
(***************************************************************************)
(* From a series definition in local time to instants: the expansion of    *)
(* backend/kairos/bookings/recurrence.py over the conversions of           *)
(* backend/kairos/core/timezones.py, and the nearest match by which        *)
(* re-materialization finds the occurrence a booking stands for            *)
(* (backend/kairos/bookings/tasks.py).                                     *)
(*                                                                         *)
(* Instants and local times are integers, in ticks; local time l is tick   *)
(* l % Day of date l \div Day.  A zone is one transition: at instant `at`  *)
(* its offset changes from `before` to `after`.                            *)
(***************************************************************************)
EXTENDS Integers, Sequences

CONSTANTS Zones,  \* what releases of the tz database may make of the zone
          Day,    \* ticks of a day
          OccurrenceCount

\* utcoffset() is "strictly between -timedelta(hours=24) and timedelta(hours=24)".
Offsets == (1 - Day)..(Day - 1)

ASSUME RecurrenceAssumption ==
    /\ Day \in Nat \ {0}
    /\ OccurrenceCount \in Nat \ {0}
    /\ Zones \subseteq [at : Int, before : Offsets, after : Offsets]

VARIABLES zone,        \* the zone under the installed release
          definition,  \* local start and end of the series, ticks of a day
          stored       \* its materialized occurrences

recurrenceVars == <<zone, definition, stored>>

-----------------------------------------------------------------------------
(* zoneinfo: the offset of an instant, and of a local time on either side   *)
(* (fold) of a transition.                                                  *)

Wall(z, i) == i + (IF i < z.at THEN z.before ELSE z.after)

Larger(a, b)  == IF a > b THEN a ELSE b
Smaller(a, b) == IF a < b THEN a ELSE b

OffsetOf(z, l, fold) ==
    IF l < z.at + (IF fold = 0 THEN Larger(z.before, z.after)
                               ELSE Smaller(z.before, z.after))
    THEN z.before ELSE z.after

Instant(z, l, fold) == l - OffsetOf(z, l, fold)

-----------------------------------------------------------------------------
(* core/timezones.py                                                        *)

\* Fault: the offset of the series' first date for every occurrence.
OffsetOfFirstDate(z, l, date) == (Day * date + (l % Day)) - OffsetOf(z, l % Day, 0)

LocalToInstant(z, l, date) == Instant(z, Day * date + (l % Day), 0)

IsNonexistent(z, l) == Wall(z, Instant(z, l, 0)) # l

IsAmbiguous(z, l) == ~IsNonexistent(z, l) /\ Instant(z, l, 0) # Instant(z, l, 1)

-----------------------------------------------------------------------------
(* recurrence.py                                                            *)

TransitionGap(z, l) == Instant(z, l, 0) - Instant(z, l, 1)

\* Fault: a start that does not exist is moved, the end is not.
StartAloneMoves(z, d, date) ==
    LET naive == Day * date + d.from
        gap   == IF IsNonexistent(z, naive) THEN TransitionGap(z, naive) ELSE 0
        end   == Day * date + d.to
    IN  [date  |-> date,
         start |-> LocalToInstant(z, naive + gap, (naive + gap) \div Day),
         end   |-> LocalToInstant(z, end, end \div Day),
         issue |-> IF IsNonexistent(z, naive) THEN "nonexistent_local_time"
                   ELSE IF IsAmbiguous(z, naive) THEN "ambiguous_local_time"
                   ELSE "none"]

\* A start in a gap moves the whole occurrence by the gap; one in an overlap is
\* taken as its first instance.  The end is converted on its own.
MaterializeOccurrence(z, d, date) ==
    LET naive == Day * date + d.from
        gap   == IF IsNonexistent(z, naive) THEN TransitionGap(z, naive) ELSE 0
        start == naive + gap
        end   == Day * date + d.to + gap
    IN  [date  |-> date,
         start |-> LocalToInstant(z, start, start \div Day),
         end   |-> LocalToInstant(z, end, end \div Day),
         issue |-> IF IsNonexistent(z, naive) THEN "nonexistent_local_time"
                   ELSE IF IsAmbiguous(z, naive) THEN "ambiguous_local_time"
                   ELSE "none"]

\* expand_occurrences: seven days from date to date, in local time.
ExpandOccurrences(z, d) == [i \in 1..OccurrenceCount |-> MaterializeOccurrence(z, d, 7 * (i - 1))]

-----------------------------------------------------------------------------
(* tasks.py: min(occurrences, key=...), the first of equals.                *)

Between(a, b) == IF a < b THEN b - a ELSE a - b

\* Fault: the signed difference instead of the distance.
ClosestSigned(occurrences, start) ==
    CHOOSE i \in DOMAIN occurrences :
        \A j \in DOMAIN occurrences :
            \/ occurrences[i].start - start < occurrences[j].start - start
            \/ occurrences[i].start = occurrences[j].start /\ i <= j

Closest(occurrences, start) ==
    CHOOSE i \in DOMAIN occurrences :
        \A j \in DOMAIN occurrences :
            LET di == Between(occurrences[i].start, start)
                dj == Between(occurrences[j].start, start)
            IN  di < dj \/ (di = dj /\ i <= j)

-----------------------------------------------------------------------------

\* RecurringSeriesPreviewSerializer: local_start_time before local_end_time.
Definitions == {d \in [from : 0..(Day - 1), to : 0..(Day - 1)] : d.from < d.to}

RecurrenceInit ==
    /\ zone \in Zones
    /\ definition \in Definitions
    /\ stored = <<>>

\* Confirm or the rolling job, its next occurrence.
Materialize ==
    /\ Len(stored) < OccurrenceCount
    /\ stored' = Append(stored, ExpandOccurrences(zone, definition)[Len(stored) + 1])
    /\ UNCHANGED <<zone, definition>>

\* A deployment with another release of the tz database.
Release(z) ==
    /\ zone' = z
    /\ UNCHANGED <<definition, stored>>

\* rematerialize_stale_series, one booking: moved onto its nearest occurrence,
\* if that is within two days.
Rematerialize(i) ==
    LET occurrences == ExpandOccurrences(zone, definition)
        match == occurrences[Closest(occurrences, stored[i].start)]
    IN  /\ Between(match.start, stored[i].start) <= 2 * Day
        /\ <<match.start, match.end>> # <<stored[i].start, stored[i].end>>
        /\ stored' = [stored EXCEPT ![i] = match]
        /\ UNCHANGED <<zone, definition>>

RecurrenceNext ==
    \/ Materialize
    \/ \E z \in Zones : Release(z)
    \/ \E i \in DOMAIN stored : Rematerialize(i)

RecurrenceSpec == RecurrenceInit /\ [][RecurrenceNext]_recurrenceVars

-----------------------------------------------------------------------------
(* Properties.                                                              *)

\* The reference: the first instant whose wall clock shows l.
ShownAt(z, l) == {i \in {l - z.before, l - z.after} : Wall(z, i) = l}

IsFirstShown(z, i, l) == i \in ShownAt(z, l) /\ \A j \in ShownAt(z, l) : i <= j

StartsAsRequested(o) ==
    LET l == Day * o.date + definition.from
    IN  CASE o.issue = "none" -> ShownAt(zone, l) = {o.start}
          [] o.issue = "ambiguous_local_time" ->
                 ShownAt(zone, l) # {o.start} /\ IsFirstShown(zone, o.start, l)
          [] o.issue = "nonexistent_local_time" ->
                 /\ ShownAt(zone, l) = {}
                 /\ IsFirstShown(zone, o.start, l + (zone.after - zone.before))

EndsAsRequested(o) ==
    /\ o.start < o.end
    /\ \/ /\ Wall(zone, o.start) = Day * o.date + definition.from
          /\ Wall(zone, o.end) = Day * o.date + definition.to
       \/ o.end - o.start = definition.to - definition.from

\* Every occurrence begins when the wall clock of its date first shows the
\* requested time, on whichever side of a transition it lies (RFC 9.1, PRD
\* FR12); where the clock skips that time, it begins later by exactly what was
\* skipped (PRD FR11), and anything else than the only such instant is
\* disclosed.  It ends at its local time or after its local duration, also when
\* the transition falls into it: the range that is booked is never empty.
OccursAsRequested ==
    \A i \in 1..OccurrenceCount :
        LET o == ExpandOccurrences(zone, definition)[i]
        IN  StartsAsRequested(o) /\ EndsAsRequested(o)

\* The nearest match is unambiguous: whatever release a booking was
\* materialized under and whatever release is installed, the nearest occurrence
\* is that of its own date, and within the two days (the comment of
\* rematerialize_stale_series).
ClosestIsOfItsDate ==
    LET occurrences == ExpandOccurrences(zone, definition)
    IN  \A i \in DOMAIN stored :
            LET match == occurrences[Closest(occurrences, stored[i].start)]
            IN  /\ match.date = stored[i].date
                /\ Between(match.start, stored[i].start) <= 2 * Day
=============================================================================
