------------------------- MODULE BookingTable_proofs -------------------------
(***************************************************************************)
(* Lemmas about the rows and statements of the booking table, for every    *)
(* value of the constants, which the proofs of its writers share.          *)
(***************************************************************************)
EXTENDS BookingTable, TLAPS

-----------------------------------------------------------------------------
(* What the statements do to a table.                                       *)

Table == [BookingIds -> Row \cup {Absent, Deleted}]

\* Inserting a new booking or hold at a time of the clock yields a row.
LEMMA NewRowIsRow ==
  ASSUME NEW r \in Resources, NEW u \in Users, NEW p \in Range,
         NEW s \in Series \cup {NoSeries}, NEW st \in {"confirmed", "held"},
         NEW t \in Times
  PROVE  NewRow(r, u, p, s, st, t) \in Row
<1>1. CASE st = "held"
  <2>1. t + HoldWindow \in 0..(MaxTime + HoldWindow)
    BY TableAssumption DEF Times
  <2>2. NewRow(r, u, p, s, st, t) \in Held
    BY <1>1, <2>1 DEF NewRow, Held
  <2>. QED  BY <2>2 DEF Row
<1>2. CASE st = "confirmed"
  <2>1. NewRow(r, u, p, s, st, t) \in Settled
    BY <1>2 DEF NewRow, Settled
  <2>. QED  BY <2>1 DEF Row
<1>. QED  BY <1>1, <1>2

\* Cleanup-on-write keeps the table a table.
LEMMA CleanupIsTable ==
  ASSUME NEW tbl \in Table, NEW r, NEW p, NEW t
  PROVE  AfterCleanup(tbl, r, p, t) \in Table
BY DEF AfterCleanup, Table

\* The INSERT of create_booking keeps the table a table.
LEMMA InsertIsTable ==
  ASSUME NEW tbl \in Table, NEW b \in BookingIds, NEW row \in Row
  PROVE  [tbl EXCEPT ![b] = row] \in Table
BY DEF Table

\* A held row, accepted or released, is a settled row; so is a confirmed row,
\* cancelled.
LEMMA SettledAfterHeld ==
  ASSUME NEW row \in Row, row.status \in {"held", "confirmed"},
         NEW st \in {"confirmed", "cancelled"}
  PROVE  [row EXCEPT !.status = st, !.expires = NoExpiry] \in Row
BY DEF Row, Held, Settled

LEMMA CancelledRow ==
  ASSUME NEW row \in Row, row.status = "confirmed"
  PROVE  [row EXCEPT !.status = "cancelled"] \in Row
BY DEF Row, Held, Settled

\* Moving a row or giving it to another user keeps it a row.
LEMMA MovedRow ==
  ASSUME NEW row \in Row, NEW p \in Range
  PROVE  [row EXCEPT !.range = p] \in Row
BY DEF Row, Held, Settled

LEMMA GivenRow ==
  ASSUME NEW row \in Row, NEW u \in Users
  PROVE  [row EXCEPT !.user = u] \in Row
BY DEF Row, Held, Settled

\* Only rows of the table have a status of the table.
LEMMA InTableIsRow ==
  ASSUME NEW x \in Row \cup {Absent, Deleted},
         x.status \in {"held", "confirmed", "cancelled"}
  PROVE  x \in Row
BY DEF Absent, Deleted

-----------------------------------------------------------------------------
(* What the statements do to the rows of a table.                           *)

\* Accepting and releasing a hold.
LEMMA AcceptedTable ==
  ASSUME NEW tbl \in Table, NEW b \in BookingIds, tbl[b].status = "held"
  PROVE  /\ AfterAccept(tbl, b) \in Table
         /\ AfterAccept(tbl, b)[b] \in Row
         /\ AfterAccept(tbl, b)[b].status = "confirmed"
         /\ AfterAccept(tbl, b)[b].user = tbl[b].user
         /\ \A c \in BookingIds \ {b} : AfterAccept(tbl, b)[c] = tbl[c]
<1>1. tbl[b] \in Row
  BY InTableIsRow DEF Table
<1>2. [tbl[b] EXCEPT !.status = "confirmed", !.expires = NoExpiry] \in Row
  BY <1>1, SettledAfterHeld
<1>3. AfterAccept(tbl, b) \in Table
  BY <1>2, InsertIsTable DEF AfterAccept
<1>. QED  BY <1>1, <1>2, <1>3 DEF AfterAccept, Table, Row, Held, Settled

LEMMA ReleasedTable ==
  ASSUME NEW tbl \in Table, NEW b \in BookingIds, tbl[b].status = "held"
  PROVE  /\ AfterRelease(tbl, b) \in Table
         /\ AfterRelease(tbl, b)[b] \in Row
         /\ AfterRelease(tbl, b)[b].status = "cancelled"
         /\ AfterRelease(tbl, b)[b].user = tbl[b].user
         /\ \A c \in BookingIds \ {b} : AfterRelease(tbl, b)[c] = tbl[c]
<1>1. tbl[b] \in Row
  BY InTableIsRow DEF Table
<1>2. [tbl[b] EXCEPT !.status = "cancelled", !.expires = NoExpiry] \in Row
  BY <1>1, SettledAfterHeld
<1>3. AfterRelease(tbl, b) \in Table
  BY <1>2, InsertIsTable DEF AfterRelease
<1>. QED  BY <1>1, <1>2, <1>3 DEF AfterRelease, Table, Row, Held, Settled

\* Cancelling a booking.
LEMMA CancelledTable ==
  ASSUME NEW tbl \in Table, NEW b \in BookingIds, tbl[b].status = "confirmed"
  PROVE  /\ AfterCancel(tbl, {b}) \in Table
         /\ AfterCancel(tbl, {b})[b] \in Row
         /\ AfterCancel(tbl, {b})[b].status = "cancelled"
         /\ AfterCancel(tbl, {b})[b].user = tbl[b].user
         /\ \A c \in BookingIds \ {b} : AfterCancel(tbl, {b})[c] = tbl[c]
<1>1. tbl[b] \in Row
  BY InTableIsRow DEF Table
<1>2. AfterCancel(tbl, {b})[b] = [tbl[b] EXCEPT !.status = "cancelled"]
  BY DEF AfterCancel
<1>3. AfterCancel(tbl, {b})[b] \in Row
  BY <1>1, <1>2, CancelledRow
<1>4. \A c \in BookingIds \ {b} : AfterCancel(tbl, {b})[c] = tbl[c]
  BY DEF AfterCancel
<1>5. AfterCancel(tbl, {b}) \in Table
  BY <1>3, <1>4 DEF AfterCancel, Table
<1>. QED  BY <1>1, <1>2, <1>3, <1>4, <1>5 DEF Row, Held, Settled

\* Moving a row.
Moved(tbl, b, p) == [tbl EXCEPT ![b] = [@ EXCEPT !.range = p]]

LEMMA MovedTable ==
  ASSUME NEW tbl \in Table, NEW b \in BookingIds, InTable(tbl[b]), NEW p \in Range
  PROVE  /\ Moved(tbl, b, p) \in Table
         /\ Moved(tbl, b, p)[b] \in Row
         /\ Moved(tbl, b, p)[b].status = tbl[b].status
         /\ Moved(tbl, b, p)[b].user = tbl[b].user
         /\ Moved(tbl, b, p)[b].resource = tbl[b].resource
         /\ Moved(tbl, b, p)[b].expires = tbl[b].expires
         /\ \A c \in BookingIds \ {b} : Moved(tbl, b, p)[c] = tbl[c]
<1>1. tbl[b] \in Row
  BY InTableIsRow DEF Table, InTable
<1>2. [tbl[b] EXCEPT !.range = p] \in Row
  BY <1>1, MovedRow
<1>. QED  BY <1>1, <1>2, InsertIsTable DEF Moved, Table, Row, Held, Settled

\* Cleanup-on-write and the INSERT behind it.
Inserted(tbl, b, r, u, p, s, st, t) ==
    [AfterCleanup(tbl, r, p, t) EXCEPT ![b] = NewRow(r, u, p, s, st, t)]

LEMMA InsertedTable ==
  ASSUME NEW tbl \in Table, NEW b \in FreshIds(tbl),
         NEW r \in Resources, NEW u \in Users, NEW p \in Range,
         NEW s \in Series \cup {NoSeries}, NEW st \in {"confirmed", "held"},
         NEW t \in Times
  PROVE  LET new == Inserted(tbl, b, r, u, p, s, st, t)
         IN  /\ b \in BookingIds
             /\ tbl[b] = Absent
             /\ new \in Table
             /\ new[b] \in Row
             /\ new[b] = NewRow(r, u, p, s, st, t)
             /\ b \notin StaleHolds(tbl, r, p, t)
             /\ \A c \in BookingIds \ {b} :
                   IF c \in StaleHolds(tbl, r, p, t)
                   THEN new[c] = Deleted ELSE new[c] = tbl[c]
<1>1. b \in BookingIds /\ tbl[b] = Absent
  BY DEF FreshIds
<1>2. NewRow(r, u, p, s, st, t) \in Row
  BY NewRowIsRow
<1>3. AfterCleanup(tbl, r, p, t) \in Table
  BY CleanupIsTable
<1>4. Inserted(tbl, b, r, u, p, s, st, t) \in Table
  BY <1>1, <1>2, <1>3, InsertIsTable DEF Inserted
<1>5. b \notin StaleHolds(tbl, r, p, t)
  BY <1>1 DEF StaleHolds, Lapsed, Absent
<1>. QED  BY <1>1, <1>2, <1>4, <1>5 DEF AfterCleanup, Inserted

-----------------------------------------------------------------------------
(* The claims a table stands for (Calendar), and what the statements are    *)
(* in terms of claims.                                                      *)

\* An active row is a claim, and its fields are the row's.
LEMMA DomainIsClaim ==
  ASSUME NEW x \in Row \cup {Absent, Deleted}, InExclusionDomain(x)
  PROVE  /\ ClaimOf(x) = [resource |-> x.resource, range |-> x.range, owner |-> x.user,
                          firm |-> x.status = "confirmed"]
         /\ ClaimOf(x) \in Abs!Claim
         /\ ClaimOf(x) \notin {Abs!Never, Abs!Gone}
<1>1. x \in Row
  BY InTableIsRow DEF InExclusionDomain
<1>2. ClaimOf(x) = [resource |-> x.resource, range |-> x.range, owner |-> x.user,
                    firm |-> x.status = "confirmed"]
  BY DEF ClaimOf, InExclusionDomain
<1>3. /\ x.resource \in Resources
      /\ x.range \in Range
      /\ x.user \in Users
  BY <1>1 DEF Row, Held, Settled
<1>4. ClaimOf(x) \in Abs!Claim
  BY <1>2, <1>3 DEF Abs!Claim, Abs!Range, Range
<1>5. Abs!Never \notin Abs!Claim /\ Abs!Gone \notin Abs!Claim
  BY DEF Abs!Never, Abs!Gone, Abs!Claim
<1>. QED  BY <1>2, <1>4, <1>5

\* A hold's claim is provisional, a booking's firm.
LEMMA FirmIsConfirmed ==
  ASSUME NEW x \in Row \cup {Absent, Deleted}
  PROVE  /\ x.status = "held" =>
               /\ ClaimOf(x) = [resource |-> x.resource, range |-> x.range,
                                owner |-> x.user, firm |-> FALSE]
               /\ ~ClaimOf(x).firm
         /\ x.status = "confirmed" =>
               ClaimOf(x) = [resource |-> x.resource, range |-> x.range,
                             owner |-> x.user, firm |-> TRUE]
<1>1. CASE x.status = "held"
  <2>1. (x.status = "confirmed") = FALSE
    BY <1>1
  <2>2. ClaimOf(x) = [resource |-> x.resource, range |-> x.range,
                      owner |-> x.user, firm |-> FALSE]
    BY <1>1, <2>1 DEF ClaimOf
  <2>. QED  BY <1>1, <2>2
<1>2. CASE x.status = "confirmed"
  <2>1. (x.status = "confirmed") = TRUE
    BY <1>2
  <2>. QED  BY <1>2, <2>1 DEF ClaimOf
<1>. QED  BY <1>1, <1>2

\* An unused id has no claim yet, and a freed row none any more.
LEMMA OutsideIsNoClaim ==
  ASSUME NEW x \in Row \cup {Absent, Deleted}, ~InExclusionDomain(x)
  PROVE  ClaimOf(x) = IF x = Absent THEN Abs!Never ELSE Abs!Gone
BY DEF ClaimOf, InExclusionDomain, Abs!Never, Abs!Gone

\* The standing claims are the active rows.
LEMMA StandingIsDomain ==
  ASSUME bookings \in Table
  PROVE  Abs!Standing = {b \in BookingIds : InExclusionDomain(bookings[b])}
<1>1. ASSUME NEW b \in BookingIds
      PROVE  Claims[b] \notin {Abs!Never, Abs!Gone} <=> InExclusionDomain(bookings[b])
  <2>1. bookings[b] \in Row \cup {Absent, Deleted}
    BY DEF Table
  <2>. QED  BY <2>1, DomainIsClaim, OutsideIsNoClaim DEF Claims
<1>. QED  BY <1>1 DEF Abs!Standing, Abs!BookingIds, BookingIds

\* A range that no active row but those displaced occupies is available.
LEMMA FreeIsAvailable ==
  ASSUME bookings \in Table, NEW r, NEW p, NEW except,
         \A c \in BookingIds \ except :
            (InExclusionDomain(bookings[c]) /\ bookings[c].resource = r)
                => ~Overlaps(bookings[c].range, p)
  PROVE  Abs!Available(r, p, except)
<1>1. ASSUME NEW c \in Abs!Standing \ except, Claims[c].resource = r
      PROVE  ~Abs!Overlaps(Claims[c].range, p)
  <2>1. c \in BookingIds /\ InExclusionDomain(bookings[c])
    BY StandingIsDomain
  <2>2. bookings[c] \in Row \cup {Absent, Deleted}
    BY <2>1 DEF Table
  <2>3. Claims[c].resource = bookings[c].resource /\ Claims[c].range = bookings[c].range
    BY <2>1, <2>2, DomainIsClaim DEF Claims
  <2>. QED  BY <1>1, <2>1, <2>3 DEF Abs!Overlaps, Overlaps
<1>. QED  BY <1>1 DEF Abs!Available

\* Inserting an active row is one grant, whatever lapsed holds it displaces.
LEMMA InsertingTakes ==
  ASSUME bookings \in Table, bookings' \in Table,
         NEW b \in BookingIds, bookings[b] = Absent, InExclusionDomain(bookings'[b]),
         NEW D \in SUBSET BookingIds, b \notin D,
         \A d \in D : bookings[d].status = "held" /\ bookings'[d] = Deleted,
         \A d \in BookingIds \ (D \cup {b}) : bookings'[d] = bookings[d],
         \A d \in BookingIds \ D :
            (InExclusionDomain(bookings[d]) /\ bookings[d].resource = bookings'[b].resource)
                => ~Overlaps(bookings[d].range, bookings'[b].range)
  PROVE  Abs!CalendarNext
<1>. DEFINE c == Claims'[b]
<1>1. Claims[b] = Abs!Never
  BY OutsideIsNoClaim DEF Claims, InExclusionDomain, Absent
<1>2. ASSUME NEW d \in D
      PROVE  d \in Abs!Standing /\ ~Claims[d].firm
  <2>1. bookings[d] \in Row \cup {Absent, Deleted}
    BY DEF Table
  <2>. QED  BY <2>1, StandingIsDomain, FirmIsConfirmed DEF Claims, InExclusionDomain
<1>3. bookings'[b] \in Row \cup {Absent, Deleted}
  BY DEF Table
<1>4. /\ c \in Abs!Claim
      /\ c.resource = bookings'[b].resource
      /\ c.range = bookings'[b].range
  BY <1>3, DomainIsClaim DEF Claims
<1>5. Abs!Available(c.resource, c.range, D)
  BY <1>4, FreeIsAvailable
<1>6. \A d \in D : Claims'[d] = Abs!Gone
  BY OutsideIsNoClaim DEF Claims, InExclusionDomain, Deleted, Absent
<1>7. \A d \in BookingIds \ (D \cup {b}) : Claims'[d] = Claims[d]
  BY DEF Claims
<1>8. Claims' = [d \in BookingIds |-> Claims'[d]]
  BY DEF Claims
<1>. HIDE DEF c
<1>9. Claims' = [d \in BookingIds |-> IF d = b THEN c
                                      ELSE IF d \in D THEN Abs!Gone
                                      ELSE Claims[d]]
  BY <1>6, <1>7, <1>8 DEF c
<1>10. Abs!Take(b, D)
  BY <1>1, <1>2, <1>4, <1>5, <1>9 DEF Abs!Take, Abs!BookingIds, BookingIds
<1>. QED  BY <1>10 DEF Abs!CalendarNext, Abs!BookingIds, BookingIds

\* In particular one that displaces nothing.
LEMMA InsertingWhereFree ==
  ASSUME bookings \in Table, bookings' \in Table, NEW b \in FreshIds(bookings),
         bookings'[b].status \in {"confirmed", "held"},
         Excludes(bookings, BookingIds, bookings'[b].resource, bookings'[b].range),
         \A c \in BookingIds \ {b} : bookings'[c] = bookings[c]
  PROVE  Abs!CalendarNext
<1>. DEFINE none == {}
<1>1. b \in BookingIds /\ bookings[b] = Absent
  BY DEF FreshIds
<1>2. /\ none \in SUBSET BookingIds /\ b \notin none
      /\ \A d \in none : bookings[d].status = "held" /\ bookings'[d] = Deleted
      /\ \A d \in BookingIds \ (none \cup {b}) : bookings'[d] = bookings[d]
      /\ \A d \in BookingIds \ none :
            (InExclusionDomain(bookings[d]) /\ bookings[d].resource = bookings'[b].resource)
                => ~Overlaps(bookings[d].range, bookings'[b].range)
  BY DEF Excludes
<1>3. InExclusionDomain(bookings'[b])
  BY DEF InExclusionDomain
<1>. HIDE DEF none
<1>. QED  BY <1>1, <1>2, <1>3, InsertingTakes

\* Freeing active rows, however it is done, gives up their claims.
LEMMA FreeingGivesUp ==
  ASSUME bookings \in Table, bookings' \in Table,
         NEW B \in SUBSET BookingIds,
         \A b \in B : InExclusionDomain(bookings[b]) /\ bookings'[b].status = "cancelled",
         \A b \in BookingIds \ B : bookings'[b] = bookings[b]
  PROVE  Abs!CalendarNext
<1>1. B \subseteq Abs!Standing
  BY StandingIsDomain
<1>2. \A b \in B : Claims'[b] = Abs!Gone
  <2>1. \A b \in B : bookings'[b] \in Row \cup {Absent, Deleted}
    BY DEF Table
  <2>2. \A b \in B : ~InExclusionDomain(bookings'[b]) /\ bookings'[b] # Absent
    BY DEF InExclusionDomain, Absent
  <2>. QED  BY <2>1, <2>2, OutsideIsNoClaim DEF Claims
<1>3. Claims' = [b \in BookingIds |-> IF b \in B THEN Abs!Gone ELSE Claims[b]]
  BY <1>2 DEF Claims
<1>. QED  BY <1>1, <1>3 DEF Abs!CalendarNext, Abs!GiveUp, Abs!BookingIds, BookingIds

LEMMA FreeingOne ==
  ASSUME bookings \in Table, bookings' \in Table, NEW b \in BookingIds,
         bookings[b].status \in {"confirmed", "held"}, bookings'[b].status = "cancelled",
         \A c \in BookingIds \ {b} : bookings'[c] = bookings[c]
  PROVE  Abs!CalendarNext
BY FreeingGivesUp DEF InExclusionDomain

\* A row that is not active stands for no claim however it is rewritten.
LEMMA RewritingOutside ==
  ASSUME bookings \in Table, bookings' \in Table, NEW b \in BookingIds,
         bookings[b].status = "cancelled", bookings'[b].status = "cancelled",
         \A c \in BookingIds \ {b} : bookings'[c] = bookings[c]
  PROVE  Claims' = Claims
<1>1. /\ bookings[b] \in Row \cup {Absent, Deleted}
      /\ bookings'[b] \in Row \cup {Absent, Deleted}
  BY DEF Table
<1>2. /\ ~InExclusionDomain(bookings[b]) /\ bookings[b] # Absent
      /\ ~InExclusionDomain(bookings'[b]) /\ bookings'[b] # Absent
  BY DEF InExclusionDomain, Absent
<1>3. Claims'[b] = Claims[b]
  BY <1>1, <1>2, OutsideIsNoClaim DEF Claims
<1>. QED  BY <1>3 DEF Claims

\* Moving a row to where no other active row is moves a claim, or touches a row
\* that stands for none.
LEMMA MovingMoves ==
  ASSUME bookings \in Table, bookings' \in Table, NEW b \in BookingIds, NEW p \in Range,
         InTable(bookings[b]),
         InExclusionDomain(bookings[b])
            => Excludes(bookings, BookingIds \ {b}, bookings[b].resource, p),
         bookings' = [bookings EXCEPT ![b] = [@ EXCEPT !.range = p]]
  PROVE  Abs!CalendarNext \/ Claims' = Claims
<1>1. /\ bookings[b] \in Row
      /\ bookings'[b] = [bookings[b] EXCEPT !.range = p]
      /\ \A c \in BookingIds \ {b} : bookings'[c] = bookings[c]
  BY InTableIsRow DEF InTable, Table
<1>2. CASE ~InExclusionDomain(bookings[b])
  <2>1. bookings[b].status = "cancelled" /\ bookings'[b].status = "cancelled"
    BY <1>1, <1>2 DEF InExclusionDomain, Row, Held, Settled
  <2>. QED  BY <1>1, <2>1, RewritingOutside
<1>3. CASE InExclusionDomain(bookings[b])
  <2>1. b \in Abs!Standing
    BY <1>3, StandingIsDomain
  <2>2. Claims[b] = [resource |-> bookings[b].resource, range |-> bookings[b].range,
                     owner |-> bookings[b].user, firm |-> bookings[b].status = "confirmed"]
    BY <1>1, <1>3, DomainIsClaim DEF Claims
  <2>3. Abs!Available(Claims[b].resource, p, {b})
    <3>1. Excludes(bookings, BookingIds \ {b}, bookings[b].resource, p)
      BY <1>3
    <3>. QED  BY <2>2, <3>1, FreeIsAvailable DEF Excludes, InExclusionDomain
  <2>4. Claims'[b] = [Claims[b] EXCEPT !.range = p]
    <3>1. /\ InExclusionDomain(bookings'[b])
          /\ bookings'[b].resource = bookings[b].resource
          /\ bookings'[b].user = bookings[b].user
          /\ bookings'[b].status = bookings[b].status
          /\ bookings'[b].range = p
      BY <1>1, <1>3 DEF InExclusionDomain, Row, Held, Settled
    <3>2. /\ bookings'[b] \in Row \cup {Absent, Deleted}
          /\ bookings[b] \in Row \cup {Absent, Deleted}
      BY DEF Table
    <3>3. ASSUME NEW firm,
                 Claims[b] = [resource |-> bookings[b].resource, range |-> bookings[b].range,
                              owner |-> bookings[b].user, firm |-> firm],
                 Claims'[b] = [resource |-> bookings[b].resource, range |-> p,
                               owner |-> bookings[b].user, firm |-> firm]
          PROVE  Claims'[b] = [Claims[b] EXCEPT !.range = p]
      BY <3>3
    <3>4. CASE bookings[b].status = "confirmed"
      BY <3>1, <3>2, <3>3, <3>4, FirmIsConfirmed DEF Claims
    <3>5. CASE bookings[b].status = "held"
      BY <3>1, <3>2, <3>3, <3>5, FirmIsConfirmed DEF Claims
    <3>. QED  BY <1>3, <3>4, <3>5 DEF InExclusionDomain
  <2>5. Claims' = [Claims EXCEPT ![b] = [@ EXCEPT !.range = p]]
    <3>. DEFINE moved == [Claims[b] EXCEPT !.range = p]
    <3>1. \A c \in BookingIds \ {b} : Claims'[c] = Claims[c]
      BY <1>1 DEF Claims
    <3>2. Claims'[b] = moved
      BY <2>4
    <3>. HIDE DEF moved
    <3>3. /\ Claims = [c \in BookingIds |-> Claims[c]]
          /\ Claims' = [c \in BookingIds |-> Claims'[c]]
      BY DEF Claims
    <3>4. Claims' = [Claims EXCEPT ![b] = moved]
      BY <3>1, <3>2, <3>3
    <3>. QED  BY <3>4 DEF moved
  <2>6. Abs!Move(b, p)
    BY <2>1, <2>3, <2>5 DEF Abs!Move
  <2>. QED  BY <2>6 DEF Abs!CalendarNext, Abs!BookingIds, BookingIds, Abs!Range, Range
<1>. QED  BY <1>2, <1>3

\* A row that is given to somebody is a claim that is handed over, if it is one.
LEMMA GivingHandsOver ==
  ASSUME NEW x \in Row, NEW v \in Users, NEW y, y = [x EXCEPT !.user = v]
  PROVE  /\ InExclusionDomain(x) => ClaimOf(y) = [ClaimOf(x) EXCEPT !.owner = v]
         /\ ~InExclusionDomain(x) => ClaimOf(y) = ClaimOf(x)
<1>1. /\ y \in Row
      /\ y.resource = x.resource /\ y.user = v
      /\ y.status = x.status /\ y.range = x.range
  BY GivenRow DEF Row, Held, Settled
<1>2. CASE InExclusionDomain(x)
  <2>1. /\ ClaimOf(x) = [resource |-> x.resource, range |-> x.range, owner |-> x.user,
                         firm |-> x.status = "confirmed"]
        /\ ClaimOf(y) = [resource |-> x.resource, range |-> x.range, owner |-> v,
                         firm |-> x.status = "confirmed"]
    BY <1>1, <1>2, DomainIsClaim DEF InExclusionDomain
  <2>. QED  BY <1>2, <2>1
<1>3. CASE ~InExclusionDomain(x)
  BY <1>1, <1>3, OutsideIsNoClaim DEF InExclusionDomain, Absent, Row, Held, Settled
<1>. QED  BY <1>2, <1>3

\* An acceptance makes the beneficiary's claim firm and changes nothing else.
LEMMA AcceptingMakesFirm ==
  ASSUME bookings \in Table, bookings' \in Table, NEW b \in BookingIds,
         bookings[b].status = "held", bookings' = AfterAccept(bookings, b)
  PROVE  Abs!CalendarNext
<1>1. bookings[b] \in Row
  BY InTableIsRow DEF Table
<1>2. /\ bookings'[b].status = "confirmed"
      /\ bookings'[b].user = bookings[b].user
      /\ bookings'[b].resource = bookings[b].resource
      /\ bookings'[b].range = bookings[b].range
      /\ \A c \in BookingIds \ {b} : bookings'[c] = bookings[c]
  BY <1>1 DEF AfterAccept, Table, Row, Held, Settled
<1>3. /\ bookings[b] \in Row \cup {Absent, Deleted}
      /\ bookings'[b] \in Row \cup {Absent, Deleted}
  BY DEF Table
<1>. DEFINE before == FALSE
            after  == TRUE
<1>4. Claims[b] = [resource |-> bookings[b].resource, range |-> bookings[b].range,
                   owner |-> bookings[b].user, firm |-> before]
  BY <1>1, <1>3, FirmIsConfirmed DEF Claims
<1>5. Claims'[b] = [resource |-> bookings[b].resource, range |-> bookings[b].range,
                    owner |-> bookings[b].user, firm |-> after]
  BY <1>2, <1>3, FirmIsConfirmed DEF Claims
<1>6. Claims' = [Claims EXCEPT ![b] = [@ EXCEPT !.firm = after]]
  <2>. HIDE DEF before, after
  <2>1. Claims'[b] = [Claims[b] EXCEPT !.firm = after]
    BY <1>4, <1>5
  <2>. QED  BY <1>2, <2>1 DEF Claims
<1>7. b \in Abs!Standing
  BY <1>1, StandingIsDomain DEF InExclusionDomain
<1>8. ~Claims[b].firm
  BY <1>1, <1>3, FirmIsConfirmed DEF Claims
<1>9. Abs!MakeFirm(b)
  BY <1>6, <1>7, <1>8 DEF Abs!MakeFirm
<1>. QED  BY <1>9 DEF Abs!CalendarNext, Abs!BookingIds, BookingIds

\* An empty table has granted nothing.
LEMMA EmptyTableStarts ==
  ASSUME bookings = [b \in BookingIds |-> Absent]
  PROVE  Abs!CalendarInit
<1>1. \A b \in BookingIds : ClaimOf(bookings[b]) = Abs!Never
  BY DEF ClaimOf, Absent, Abs!Never
<1>. QED  BY <1>1 DEF Abs!CalendarInit, Claims, Abs!BookingIds, BookingIds

-----------------------------------------------------------------------------
(* What the calendar promises, hence every table that implements it.        *)

ClaimsTyped == Claims \in [BookingIds -> Abs!Claim \cup {Abs!Never, Abs!Gone}]

LEMMA StandingClaims ==
  ASSUME ClaimsTyped, NEW b \in Abs!Standing
  PROVE  b \in BookingIds /\ Claims[b] \in Abs!Claim
BY DEF ClaimsTyped, Abs!Standing, Abs!BookingIds, BookingIds

\* A claim whose range, owner or firmness is set stays a claim.
LEMMA ClaimIsClaim ==
  ASSUME NEW c \in Abs!Claim
  PROVE  /\ c \notin {Abs!Never, Abs!Gone}
         /\ \A p \in Range : LET d == [c EXCEPT !.range = p]
                             IN  d \in Abs!Claim /\ d.resource = c.resource /\ d.range = p
         /\ LET d == [c EXCEPT !.firm = TRUE]
            IN  d \in Abs!Claim /\ d.resource = c.resource /\ d.range = c.range
         /\ \A u \in Users : LET d == [c EXCEPT !.owner = u]
                             IN  d \in Abs!Claim /\ d.resource = c.resource /\ d.range = c.range
<1>1. c \notin {Abs!Never, Abs!Gone}
  BY DEF Abs!Claim, Abs!Never, Abs!Gone
<1>2. Abs!Range = Range
  BY DEF Abs!Range, Range
<1>. DEFINE firms == BOOLEAN
<1>3. TRUE \in firms
  OBVIOUS
<1>4. Abs!Claim = [resource : Resources, range : Range, owner : Users, firm : firms]
  BY <1>2 DEF Abs!Claim
<1>. DEFINE yes == TRUE
<1>5. yes \in firms
  BY <1>3
<1>. HIDE DEF firms, yes
<1>6. ASSUME NEW p \in Range
      PROVE  LET d == [c EXCEPT !.range = p]
             IN  d \in Abs!Claim /\ d.resource = c.resource /\ d.range = p
  BY <1>4
<1>7. LET d == [c EXCEPT !.firm = yes]
      IN  d \in Abs!Claim /\ d.resource = c.resource /\ d.range = c.range
  BY <1>4, <1>5
<1>8. ASSUME NEW u \in Users
      PROVE  LET d == [c EXCEPT !.owner = u]
             IN  d \in Abs!Claim /\ d.resource = c.resource /\ d.range = c.range
  BY <1>4
<1>. QED  BY <1>1, <1>6, <1>7, <1>8 DEF yes

\* A step changes at most one standing claim's place, to where none is that is
\* not displaced.
LEMMA OneClaimPlaced ==
  ASSUME Abs!NeverShared, NEW b, NEW r, NEW p, NEW D,
         Abs!Available(r, p, D \cup {b}),
         Claims'[b].resource = r, Claims'[b].range = p,
         \A c \in Abs!Standing' : c # b =>
            /\ c \in Abs!Standing /\ c \notin D
            /\ Claims'[c].resource = Claims[c].resource
            /\ Claims'[c].range = Claims[c].range
  PROVE  Abs!NeverShared'
<1>1. ASSUME NEW x \in Abs!Standing', NEW y \in Abs!Standing', x # y,
             Claims'[x].resource = Claims'[y].resource
      PROVE  ~Abs!Overlaps(Claims'[x].range, Claims'[y].range)
  <2>1. CASE x # b /\ y # b
    BY <1>1, <2>1 DEF Abs!NeverShared
  <2>2. CASE x = b
    <3>1. ~Abs!Overlaps(Claims[y].range, p) /\ Claims'[y].range = Claims[y].range
      BY <1>1, <2>2 DEF Abs!Available
    <3>. QED  BY <2>2, <3>1 DEF Abs!Overlaps
  <2>3. CASE y = b
    <3>1. ~Abs!Overlaps(Claims[x].range, p) /\ Claims'[x].range = Claims[x].range
      BY <1>1, <2>3 DEF Abs!Available
    <3>. QED  BY <2>3, <3>1
  <2>. QED  BY <2>1, <2>2, <2>3
<1>. QED  BY <1>1 DEF Abs!NeverShared

\* A step after which nothing stands that did not stand at the same place.
LEMMA NoClaimPlaced ==
  ASSUME Abs!NeverShared,
         \A c \in Abs!Standing' :
            /\ c \in Abs!Standing
            /\ Claims'[c].resource = Claims[c].resource
            /\ Claims'[c].range = Claims[c].range
  PROVE  Abs!NeverShared'
BY DEF Abs!NeverShared

LEMMA CalendarStepIsExclusive ==
  ASSUME ClaimsTyped, Abs!NeverShared, [Abs!CalendarNext]_Claims
  PROVE  /\ ClaimsTyped' /\ Abs!NeverShared'
         /\ \A b \in BookingIds : Claims[b] = Abs!Gone => Claims'[b] = Abs!Gone
<1>. USE DEF Abs!BookingIds
<1>1. Abs!Standing' = {b \in BookingIds : Claims'[b] \notin {Abs!Never, Abs!Gone}}
  BY DEF Abs!Standing, BookingIds, Abs!Never, Abs!Gone
<1>2. Abs!Standing = {b \in BookingIds : Claims[b] \notin {Abs!Never, Abs!Gone}}
  BY DEF Abs!Standing, BookingIds
<1>3. BookingIds = Abs!BookingIds /\ Abs!Never # Abs!Gone
  BY DEF BookingIds, Abs!Never, Abs!Gone
<1>4. ASSUME NEW b \in BookingIds, NEW D \in SUBSET BookingIds, Abs!Take(b, D)
      PROVE  /\ ClaimsTyped' /\ Abs!NeverShared'
             /\ \A c \in BookingIds : Claims[c] = Abs!Gone => Claims'[c] = Abs!Gone
  <2>1. PICK c \in Abs!Claim :
           /\ Abs!Available(c.resource, c.range, D)
           /\ Claims' = [d \in BookingIds |-> IF d = b THEN c
                                              ELSE IF d \in D THEN Abs!Gone
                                              ELSE Claims[d]]
    BY <1>3, <1>4 DEF Abs!Take
  <2>2. Claims[b] = Abs!Never
    BY <1>4 DEF Abs!Take
  <2>3. ClaimsTyped'
    BY <2>1 DEF ClaimsTyped
  <2>4. Abs!Available(c.resource, c.range, D \cup {b})
    BY <2>1 DEF Abs!Available
  <2>5. \A d \in Abs!Standing' : d # b =>
           d \in Abs!Standing /\ d \notin D /\ Claims'[d] = Claims[d]
    BY <1>1, <1>2, <2>1
  <2>6. Abs!NeverShared'
    BY <2>1, <2>4, <2>5, OneClaimPlaced
  <2>. QED  BY <1>3, <2>1, <2>2, <2>3, <2>6
<1>5. ASSUME NEW b \in BookingIds, NEW p \in Range, Abs!Move(b, p)
      PROVE  /\ ClaimsTyped' /\ Abs!NeverShared'
             /\ \A c \in BookingIds : Claims[c] = Abs!Gone => Claims'[c] = Abs!Gone
  <2>1. b \in Abs!Standing /\ Claims[b] \in Abs!Claim
    BY <1>5, StandingClaims DEF Abs!Move
  <2>. DEFINE c == [Claims[b] EXCEPT !.range = p]
  <2>2. c \in Abs!Claim /\ c.resource = Claims[b].resource /\ c.range = p
    BY <2>1, ClaimIsClaim
  <2>3. Claims' = [Claims EXCEPT ![b] = c]
    BY <1>5 DEF Abs!Move
  <2>. HIDE DEF c
  <2>4. /\ ClaimsTyped' /\ Claims'[b] = c
        /\ \A d \in BookingIds \ {b} : Claims'[d] = Claims[d]
    BY <2>2, <2>3 DEF ClaimsTyped
  <2>5. Abs!Available(c.resource, p, {} \cup {b})
    BY <1>5, <2>2 DEF Abs!Move
  <2>6. \A d \in Abs!Standing' : d # b => d \in Abs!Standing /\ Claims'[d] = Claims[d]
    BY <1>1, <1>2, <2>4
  <2>7. Abs!NeverShared'
    <3>1. /\ Claims'[b].resource = c.resource
          /\ Claims'[b].range = p
      BY <2>2, <2>4
    <3>. DEFINE none == {}
    <3>2. Abs!Available(c.resource, p, none \cup {b})
      BY <2>5
    <3>3. \A d \in Abs!Standing' : d # b =>
             /\ d \in Abs!Standing /\ d \notin none
             /\ Claims'[d].resource = Claims[d].resource
             /\ Claims'[d].range = Claims[d].range
      BY <2>6
    <3>. DEFINE r == c.resource
    <3>4. Claims'[b].resource = r /\ Abs!Available(r, p, none \cup {b})
      BY <3>1, <3>2
    <3>. HIDE DEF none, r
    <3>. QED  BY <3>1, <3>3, <3>4, OneClaimPlaced
  <2>. QED  BY <1>2, <2>1, <2>4, <2>7
<1>6. ASSUME \A b \in BookingIds :
                \/ Claims'[b] = Claims[b]
                \/ Claims[b] \in Abs!Claim /\ Claims'[b] = Abs!Gone
                \/ /\ Claims[b] \in Abs!Claim /\ Claims'[b] \in Abs!Claim
                   /\ Claims'[b].resource = Claims[b].resource
                   /\ Claims'[b].range = Claims[b].range,
             Claims' = [b \in BookingIds |-> Claims'[b]]
      PROVE  /\ ClaimsTyped' /\ Abs!NeverShared'
             /\ \A c \in BookingIds : Claims[c] = Abs!Gone => Claims'[c] = Abs!Gone
  <2>1. ClaimsTyped'
    BY <1>6 DEF ClaimsTyped
  <2>2. \A c \in Abs!Standing' :
           /\ c \in Abs!Standing
           /\ Claims'[c].resource = Claims[c].resource
           /\ Claims'[c].range = Claims[c].range
    BY <1>1, <1>2, <1>6, ClaimIsClaim
  <2>3. Abs!NeverShared'
    BY <2>2, NoClaimPlaced
  <2>. QED  BY <1>6, <2>1, <2>3, ClaimIsClaim
<1>7. ASSUME NEW b \in BookingIds, Abs!MakeFirm(b) \/ \E u \in Users : Abs!HandOver(b, u)
      PROVE  /\ ClaimsTyped' /\ Abs!NeverShared'
             /\ \A c \in BookingIds : Claims[c] = Abs!Gone => Claims'[c] = Abs!Gone
  <2>1. Claims[b] \in Abs!Claim
    BY <1>7, StandingClaims DEF Abs!MakeFirm, Abs!HandOver
  <2>2. PICK c \in Abs!Claim :
           /\ Claims' = [Claims EXCEPT ![b] = c]
           /\ c.resource = Claims[b].resource /\ c.range = Claims[b].range
    <3>1. CASE Abs!MakeFirm(b)
      <4>1. Claims' = [Claims EXCEPT ![b] = [Claims[b] EXCEPT !.firm = TRUE]]
        BY <3>1 DEF Abs!MakeFirm
      <4>. DEFINE firm == [Claims[b] EXCEPT !.firm = TRUE]
      <4>2. /\ firm \in Abs!Claim
            /\ firm.resource = Claims[b].resource /\ firm.range = Claims[b].range
        BY <2>1, ClaimIsClaim
      <4>. HIDE DEF firm
      <4>. QED  BY <4>1, <4>2 DEF firm
    <3>2. ASSUME NEW u \in Users, Abs!HandOver(b, u)
          PROVE  \E c \in Abs!Claim : /\ Claims' = [Claims EXCEPT ![b] = c]
                                      /\ c.resource = Claims[b].resource /\ c.range = Claims[b].range
      <4>1. Claims' = [Claims EXCEPT ![b] = [Claims[b] EXCEPT !.owner = u]]
        BY <3>2 DEF Abs!HandOver
      <4>. DEFINE given == [Claims[b] EXCEPT !.owner = u]
      <4>2. /\ given \in Abs!Claim
            /\ given.resource = Claims[b].resource /\ given.range = Claims[b].range
        BY <2>1, ClaimIsClaim
      <4>. HIDE DEF given
      <4>. QED  BY <4>1, <4>2 DEF given
    <3>. QED  BY <1>7, <3>1, <3>2
  <2>3. /\ Claims'[b] = c
        /\ \A d \in BookingIds \ {b} : Claims'[d] = Claims[d]
        /\ Claims' = [d \in BookingIds |-> Claims'[d]]
    BY <2>2 DEF ClaimsTyped
  <2>. QED  BY <1>6, <2>1, <2>2, <2>3
<1>8. ASSUME NEW B \in SUBSET BookingIds, Abs!GiveUp(B)
      PROVE  /\ ClaimsTyped' /\ Abs!NeverShared'
             /\ \A c \in BookingIds : Claims[c] = Abs!Gone => Claims'[c] = Abs!Gone
  <2>1. Claims' = [b \in BookingIds |-> IF b \in B THEN Abs!Gone ELSE Claims[b]]
    BY <1>3, <1>8 DEF Abs!GiveUp
  <2>2. \A b \in B : Claims[b] \in Abs!Claim
    BY <1>8, StandingClaims DEF Abs!GiveUp
  <2>. QED  BY <1>6, <2>1, <2>2
<1>9. ASSUME NEW u \in Users, Abs!Leave(u)
      PROVE  /\ ClaimsTyped' /\ Abs!NeverShared'
             /\ \A c \in BookingIds : Claims[c] = Abs!Gone => Claims'[c] = Abs!Gone
  <2>1. ASSUME NEW b \in BookingIds
        PROVE  \/ Claims'[b] = Claims[b]
               \/ Claims[b] \in Abs!Claim /\ Claims'[b] = Abs!Gone
               \/ /\ Claims[b] \in Abs!Claim /\ Claims'[b] \in Abs!Claim
                  /\ Claims'[b].resource = Claims[b].resource
                  /\ Claims'[b].range = Claims[b].range
    <3>1. b \in Abs!Standing => Claims[b] \in Abs!Claim
      BY StandingClaims
    <3>2. ASSUME Claims[b] \in Abs!Claim, NEW v \in Users,
                 Claims'[b] = [Claims[b] EXCEPT !.owner = v]
          PROVE  /\ Claims'[b] \in Abs!Claim
                 /\ Claims'[b].resource = Claims[b].resource
                 /\ Claims'[b].range = Claims[b].range
      <4>. DEFINE given == [Claims[b] EXCEPT !.owner = v]
      <4>1. /\ given \in Abs!Claim
            /\ given.resource = Claims[b].resource /\ given.range = Claims[b].range
        BY <3>2, ClaimIsClaim
      <4>2. Claims'[b] = given
        BY <3>2
      <4>. HIDE DEF given
      <4>. QED  BY <4>1, <4>2
    <3>. QED  BY <1>3, <1>9, <3>1, <3>2 DEF Abs!Leave
  <2>2. Claims' = [b \in BookingIds |-> Claims'[b]]
    BY <1>3, <1>9 DEF Abs!Leave
  <2>. QED  BY <1>6, <2>1, <2>2
<1>10. CASE Claims' = Claims
  BY <1>10 DEF ClaimsTyped, Abs!NeverShared, Abs!Standing
<1>. QED
  BY <1>3, <1>4, <1>5, <1>7, <1>8, <1>9, <1>10 DEF Abs!CalendarNext, Abs!Range, Range

LEMMA CalendarStartsEmpty == Abs!CalendarInit => ClaimsTyped /\ Abs!NeverShared
BY DEF Abs!CalendarInit, ClaimsTyped, Abs!NeverShared, Abs!Standing, Abs!BookingIds, BookingIds

\* Whatever writes the table: as long as it implements the calendar, no two
\* bookings or holds on one resource ever overlap (no_overlapping_bookings).
THEOREM CalendarNeverShares == ImplementsCalendar => []Abs!NeverShared
<1>1. ClaimsTyped /\ Abs!NeverShared /\ [Abs!CalendarNext]_Claims
         => (ClaimsTyped /\ Abs!NeverShared)'
  BY CalendarStepIsExclusive
<1>. QED  BY <1>1, CalendarStartsEmpty, PTL DEF ImplementsCalendar, Abs!CalendarSpec

\* And what has ended stays ended: no later write revives a cancelled booking or
\* a released hold, over which others may have booked.
THEOREM CalendarEndsForGood ==
  ImplementsCalendar
     => [][\A b \in BookingIds : Claims[b] = Abs!Gone => Claims'[b] = Abs!Gone]_Claims
<1>1. ClaimsTyped /\ Abs!NeverShared /\ [Abs!CalendarNext]_Claims
         => (ClaimsTyped /\ Abs!NeverShared)'
  BY CalendarStepIsExclusive
<1>2. ClaimsTyped /\ Abs!NeverShared /\ [Abs!CalendarNext]_Claims
         => [\A b \in BookingIds : Claims[b] = Abs!Gone => Claims'[b] = Abs!Gone]_Claims
  BY CalendarStepIsExclusive
<1>. QED  BY <1>1, <1>2, CalendarStartsEmpty, PTL DEF ImplementsCalendar, Abs!CalendarSpec

\* What was never granted is granted by no step but Take, which displaces
\* nothing firm.
LEMMA NothingFirmIsDisplaced ==
  ASSUME Abs!CalendarNext, NEW b \in Abs!Standing, Claims[b].firm, Claims'[b] = Abs!Gone,
         NEW c \in BookingIds, Claims[c] = Abs!Never
  PROVE  Claims'[c] = Abs!Never
<1>1. c \notin Abs!Standing /\ b \in BookingIds /\ Abs!BookingIds = BookingIds /\ b # c
  BY DEF Abs!Standing, Abs!BookingIds, BookingIds
<1>2. DOMAIN Claims = BookingIds /\ Claims = [d \in BookingIds |-> Claims[d]]
  BY DEF Claims
<1>3. ASSUME NEW d \in BookingIds, NEW D \in SUBSET BookingIds, Abs!Take(d, D)
      PROVE  Claims'[c] = Abs!Never
  <2>1. Claims[d] = Abs!Never /\ b # d /\ b \notin D
    BY <1>3 DEF Abs!Take, Abs!Standing
  <2>2. Claims'[b] = Claims[b]
    BY <1>1, <1>3, <2>1 DEF Abs!Take
  <2>. QED  BY <2>2 DEF Abs!Standing
<1>4. ASSUME NEW d \in Abs!Standing, NEW claim, Claims' = [Claims EXCEPT ![d] = claim]
      PROVE  Claims'[c] = Abs!Never
  BY <1>1, <1>2, <1>4
<1>5. ASSUME NEW d \in BookingIds, NEW p, Abs!Move(d, p)
      PROVE  Claims'[c] = Abs!Never
  BY <1>4, <1>5, Zenon DEF Abs!Move
<1>6. ASSUME NEW d \in BookingIds, Abs!MakeFirm(d)
      PROVE  Claims'[c] = Abs!Never
  BY <1>4, <1>6, Zenon DEF Abs!MakeFirm
<1>7. ASSUME NEW d \in BookingIds, NEW u, Abs!HandOver(d, u)
      PROVE  Claims'[c] = Abs!Never
  BY <1>4, <1>7, Zenon DEF Abs!HandOver
<1>8. ASSUME NEW B \in SUBSET BookingIds, Abs!GiveUp(B)
      PROVE  Claims'[c] = Abs!Never
  BY <1>1, <1>8 DEF Abs!GiveUp
<1>9. ASSUME NEW u, Abs!Leave(u)
      PROVE  Claims'[c] = Abs!Never
  BY <1>1, <1>9 DEF Abs!Leave
<1>. QED  BY <1>1, <1>3, <1>5, <1>6, <1>7, <1>8, <1>9 DEF Abs!CalendarNext

\* And nobody is bumped: a step in which a booking ends grants nobody anything,
\* so a booking makes room for another only after it was given up
\* (create_booking's cleanup deletes held rows alone).
THEOREM CalendarBumpsNobody ==
  ImplementsCalendar
     => [][\A b, c \in BookingIds :
              (b \in Abs!Standing /\ Claims[b].firm /\ Claims'[b] = Abs!Gone)
                 => (Claims[c] = Abs!Never => Claims'[c] = Abs!Never)]_Claims
<1>1. [Abs!CalendarNext]_Claims
         => [\A b, c \in BookingIds :
                (b \in Abs!Standing /\ Claims[b].firm /\ Claims'[b] = Abs!Gone)
                   => (Claims[c] = Abs!Never => Claims'[c] = Abs!Never)]_Claims
  BY NothingFirmIsDisplaced
<1>. QED  BY <1>1, PTL DEF ImplementsCalendar, Abs!CalendarSpec
=============================================================================
