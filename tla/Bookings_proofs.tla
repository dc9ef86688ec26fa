-------------------------- MODULE Bookings_proofs --------------------------
(***************************************************************************)
(* Proofs about Bookings for every value of its constants.                 *)
(***************************************************************************)
EXTENDS Bookings, BookingTable_proofs

-----------------------------------------------------------------------------
(* Type correctness.                                                        *)

\* A successful create_booking, with its cleanup, leaves a table.
LEMMA CreateType ==
  ASSUME TypeOK,
         NEW r \in Resources, NEW u \in Users, NEW p \in Range,
         NEW s \in Series \cup {NoSeries}, NEW st \in {"confirmed", "held"},
         CreateBooking(r, u, p, s, st)
  PROVE  bookings' \in Table
<1>1. AfterCleanup(bookings, r, p, now) \in Table
  BY CleanupIsTable DEF TypeOK, Table
<1>2. NewRow(r, u, p, s, st, now) \in Row
  BY NewRowIsRow DEF TypeOK
<1>3. PICK b \in FreshIds(bookings) :
        bookings' = [AfterCleanup(bookings, r, p, now)
                       EXCEPT ![b] = NewRow(r, u, p, s, st, now)]
  BY DEF CreateBooking
<1>4. b \in BookingIds
  BY DEF FreshIds
<1>. QED  BY <1>1, <1>2, <1>3, <1>4, InsertIsTable

\* Every step of the services keeps the types, hold_has_expiry included.
LEMMA TypeStep == TypeOK /\ [Next]_bookingVars => TypeOK'
<1>. SUFFICES ASSUME TypeOK, [Next]_bookingVars  PROVE TypeOK'
  OBVIOUS
<1>. USE DEF Table
<1>1. ASSUME NEW r \in Resources, NEW u \in Users, NEW p \in Range,
             NEW s \in Series \cup {NoSeries}, Book(r, u, p, s)
      PROVE  TypeOK'
  <2>1. CreateBooking(r, u, p, s, "confirmed")
    BY <1>1 DEF Book
  <2>2. bookings' \in Table
    BY <2>1, CreateType
  <2>. QED  BY <2>1, <2>2 DEF TypeOK, CreateBooking
<1>2. ASSUME NEW r \in Resources, NEW u \in Users, NEW p \in Range,
             PlaceHold(r, u, p)
      PROVE  TypeOK'
  <2>1. CreateBooking(r, u, p, NoSeries, "held")
    BY <1>2 DEF PlaceHold
  <2>2. bookings' \in Table
    BY <2>1, CreateType
  <2>. QED  BY <2>1, <2>2 DEF TypeOK, CreateBooking
<1>3. ASSUME NEW u \in Users, NEW b \in BookingIds, NEW p \in Range, Edit(u, b, p)
      PROVE  TypeOK'
  <2>1. bookings[b] \in Row
    BY <1>3, InTableIsRow DEF Edit, InTable, TypeOK
  <2>2. [bookings[b] EXCEPT !.range = p] \in Row
    BY <2>1, MovedRow
  <2>3. bookings' \in Table
    BY <1>3, <2>2, InsertIsTable DEF Edit, TypeOK
  <2>. QED  BY <1>3, <2>3 DEF TypeOK, Edit
<1>4. ASSUME NEW B \in SUBSET BookingIds,
             \A b \in B : bookings[b].status = "confirmed"
      PROVE  AfterCancel(bookings, B) \in Table
  <2>1. \A b \in B : bookings[b] \in Row
    BY <1>4, InTableIsRow DEF TypeOK
  <2>2. \A b \in B : [bookings[b] EXCEPT !.status = "cancelled"] \in Row
    BY <1>4, <2>1, CancelledRow
  <2>. QED  BY <2>2 DEF AfterCancel, TypeOK
<1>5. ASSUME NEW b \in BookingIds, Cancel(b)
      PROVE  TypeOK'
  BY <1>4, <1>5 DEF TypeOK, Cancel
<1>6. ASSUME NEW s \in Series, CancelSeries(s)
      PROVE  TypeOK'
  BY <1>4, <1>6 DEF TypeOK, CancelSeries, FutureOccurrences
<1>7. ASSUME NEW b \in BookingIds, NEW u \in Users, Transfer(b, u)
      PROVE  TypeOK'
  <2>1. [bookings[b] EXCEPT !.user = u] \in Row
    BY <1>7, InTableIsRow, GivenRow DEF Transfer, TypeOK
  <2>. QED  BY <1>7, <2>1, InsertIsTable DEF TypeOK, Transfer
<1>8. ASSUME NEW b \in BookingIds, AttachOffer(b)
      PROVE  TypeOK'
  BY <1>8 DEF TypeOK, AttachOffer
<1>9. ASSUME NEW b \in BookingIds, bookings[b].status = "held",
             NEW st \in {"confirmed", "cancelled"}
      PROVE  [bookings EXCEPT ![b] = [@ EXCEPT !.status = st, !.expires = NoExpiry]]
                \in Table
  BY <1>9, InTableIsRow, SettledAfterHeld, InsertIsTable DEF TypeOK
<1>10. ASSUME NEW u \in Users, NEW b \in BookingIds, Accept(u, b)
       PROVE  TypeOK'
  BY <1>9, <1>10 DEF TypeOK, Accept, AfterAccept
<1>11. ASSUME NEW b \in BookingIds, Decline(b) \/ Reap(b)
       PROVE  TypeOK'
  BY <1>9, <1>11 DEF TypeOK, Decline, Reap, AfterRelease, Lapsed
<1>12. CASE Tick
  BY <1>12, TableAssumption DEF TypeOK, Tick, Times
<1>13. CASE UNCHANGED bookingVars
  BY <1>13 DEF TypeOK, bookingVars
<1>. QED
  BY <1>1, <1>2, <1>3, <1>5, <1>6, <1>7, <1>8, <1>10, <1>11, <1>12, <1>13 DEF Next

\* The booking table keeps its types in every behaviour of the services: in
\* particular exactly its held rows carry an expiry.
THEOREM TypeCorrect == Spec => []TypeOK
<1>1. Init => TypeOK
  BY TableAssumption DEF Init, TypeOK, Times
<1>. QED  BY <1>1, TypeStep, PTL DEF Spec

-----------------------------------------------------------------------------
(* No double booking.                                                       *)

Active(row) == row.status \in {"confirmed", "held"}

\* Overlapping is symmetric.
LEMMA OverlapsSymmetric ==
  ASSUME NEW p, NEW q
  PROVE  Overlaps(p, q) <=> Overlaps(q, p)
BY DEF Overlaps

\* A step after which every active row was active before, with the same
\* resource and range, cannot create an overlap.
LEMMA NothingNewOccupied ==
  ASSUME NoOverlappingBookings,
         \A b \in BookingIds :
            Active(bookings'[b]) => /\ Active(bookings[b])
                                    /\ bookings'[b].resource = bookings[b].resource
                                    /\ bookings'[b].range = bookings[b].range
  PROVE  NoOverlappingBookings'
BY DEF NoOverlappingBookings, Active

\* A step that puts one row b on a range nobody else occupies, and otherwise
\* only shrinks the domain, cannot create an overlap.
LEMMA OnlyOneNewOccupied ==
  ASSUME NoOverlappingBookings,
         NEW b \in BookingIds,
         \A c \in BookingIds \ {b} :
            Active(bookings'[c]) =>
               /\ Active(bookings[c])
               /\ bookings'[c].resource = bookings[c].resource
               /\ bookings'[c].range = bookings[c].range
               /\ bookings'[c].resource = bookings'[b].resource
                    => ~Overlaps(bookings'[c].range, bookings'[b].range)
  PROVE  NoOverlappingBookings'
BY OverlapsSymmetric DEF NoOverlappingBookings, Active

\* A row that is inserted behind its cleanup overlaps nothing.
LEMMA CreateNoOverlap ==
  ASSUME TypeOK, NoOverlappingBookings,
         NEW r \in Resources, NEW u \in Users, NEW p \in Range,
         NEW s \in Series \cup {NoSeries}, NEW st \in {"confirmed", "held"},
         CreateBooking(r, u, p, s, st)
  PROVE  NoOverlappingBookings'
<1>. DEFINE cleaned == AfterCleanup(bookings, r, p, now)
<1>1. PICK b \in FreshIds(bookings) :
        bookings' = [cleaned EXCEPT ![b] = NewRow(r, u, p, s, st, now)]
  BY DEF CreateBooking
<1>2. b \in BookingIds
  BY DEF FreshIds
<1>3. /\ bookings'[b].resource = r
      /\ bookings'[b].range = p
  BY <1>1, <1>2 DEF NewRow, AfterCleanup
<1>4. ASSUME NEW c \in BookingIds \ {b}, Active(bookings'[c])
      PROVE  /\ bookings'[c] = bookings[c]
             /\ bookings[c].resource = r => ~Overlaps(bookings[c].range, p)
  <2>1. bookings'[c] = cleaned[c]
    BY <1>1, <1>2 DEF AfterCleanup
  <2>2. cleaned[c] = bookings[c]
    BY <1>4, <2>1 DEF AfterCleanup, Active, Deleted
  <2>3. Excludes(cleaned, BookingIds, r, p)
    BY DEF CreateBooking
  <2>. QED  BY <1>4, <2>1, <2>2, <2>3 DEF Excludes, InExclusionDomain, Active
<1>. QED  BY <1>2, <1>3, <1>4, OnlyOneNewOccupied

\* Nor does a row that is moved to where it fits.
LEMMA MoveNoOverlap ==
  ASSUME TypeOK, NoOverlappingBookings, NEW b \in BookingIds, NEW p \in Range,
         InTable(bookings[b]), Fits(b, p),
         bookings' = [bookings EXCEPT ![b] = [@ EXCEPT !.range = p]]
  PROVE  NoOverlappingBookings'
<1>. DEFINE r == bookings[b].resource
<1>1. bookings' = [bookings EXCEPT ![b] = [@ EXCEPT !.range = p]]
  OBVIOUS
<1>2. bookings[b] \in Row
  BY InTableIsRow DEF InTable, TypeOK
<1>3. /\ bookings'[b].status = bookings[b].status
      /\ bookings'[b].resource = r
      /\ bookings'[b].range = p
  BY <1>1, <1>2 DEF TypeOK, Row, Held, Settled
<1>4. \A c \in BookingIds \ {b} : bookings'[c] = bookings[c]
  BY <1>1 DEF TypeOK
<1>5. CASE ~InExclusionDomain(bookings[b])
  BY <1>3, <1>4, <1>5, NothingNewOccupied DEF InExclusionDomain, Active
<1>6. CASE Excludes(bookings, BookingIds \ {b}, r, p)
  BY <1>3, <1>4, <1>6, OnlyOneNewOccupied DEF Excludes, InExclusionDomain, Active
<1>. QED  BY <1>5, <1>6 DEF Fits

\* No step of any service puts two rows of the domain on overlapping ranges of
\* one resource.
LEMMA NoOverlapStep ==
  TypeOK /\ NoOverlappingBookings /\ [Next]_bookingVars => NoOverlappingBookings'
<1>. SUFFICES ASSUME TypeOK, NoOverlappingBookings, [Next]_bookingVars
              PROVE  NoOverlappingBookings'
  OBVIOUS
<1>1. ASSUME NEW r \in Resources, NEW u \in Users, NEW p \in Range,
             NEW s \in Series \cup {NoSeries}, NEW st \in {"confirmed", "held"},
             CreateBooking(r, u, p, s, st)
      PROVE  NoOverlappingBookings'
  BY <1>1, CreateNoOverlap
<1>2. ASSUME NEW r \in Resources, NEW u \in Users, NEW p \in Range,
             NEW s \in Series \cup {NoSeries}, Book(r, u, p, s)
      PROVE  NoOverlappingBookings'
  BY <1>1, <1>2 DEF Book
<1>3. ASSUME NEW u \in Users, NEW b \in BookingIds, NEW p \in Range, Edit(u, b, p)
      PROVE  NoOverlappingBookings'
  BY <1>3, MoveNoOverlap DEF Edit
<1>4. ASSUME NEW B \in SUBSET BookingIds, bookings' = AfterCancel(bookings, B)
      PROVE  NoOverlappingBookings'
  <2>1. ASSUME NEW b \in BookingIds, Active(bookings'[b])
        PROVE  bookings'[b] = bookings[b]
    <3>1. CASE b \in B
      <4>1. bookings'[b] = [bookings[b] EXCEPT !.status = "cancelled"]
        BY <1>4, <3>1 DEF AfterCancel
      <4>2. bookings[b] \in Row \/ bookings[b] \in {Absent, Deleted}
        BY DEF TypeOK
      <4>3. bookings'[b].status = "cancelled"
        BY <4>1, <4>2 DEF Row, Held, Settled, Absent, Deleted
      <4>. QED  BY <2>1, <4>3 DEF Active
    <3>. QED  BY <1>4, <3>1 DEF AfterCancel
  <2>. QED  BY <2>1, NothingNewOccupied
<1>5. ASSUME NEW b \in BookingIds, NEW row \in Row,
             bookings[b] \in Row,
             bookings' = [bookings EXCEPT ![b] = row],
             Active(row) => Active(bookings[b]),
             row.resource = bookings[b].resource,
             row.range = bookings[b].range
      PROVE  NoOverlappingBookings'
  BY <1>5, NothingNewOccupied DEF TypeOK
<1>6. ASSUME NEW b \in BookingIds, NEW u \in Users, Transfer(b, u)
      PROVE  NoOverlappingBookings'
  <2>. DEFINE row == [bookings[b] EXCEPT !.user = u]
  <2>1. bookings[b] \in Row
    BY <1>6, InTableIsRow DEF Transfer, TypeOK
  <2>2. /\ row \in Row
        /\ row.status = bookings[b].status
        /\ row.resource = bookings[b].resource
        /\ row.range = bookings[b].range
    BY <2>1, GivenRow DEF Row, Held, Settled
  <2>3. bookings' = [bookings EXCEPT ![b] = row]
    BY <1>6 DEF Transfer
  <2>. HIDE DEF row
  <2>. QED  BY <1>5, <2>1, <2>2, <2>3 DEF Active
<1>7. ASSUME NEW b \in BookingIds, bookings[b].status = "held",
             NEW st \in {"confirmed", "cancelled"},
             bookings' = [bookings EXCEPT
                            ![b] = [@ EXCEPT !.status = st, !.expires = NoExpiry]]
      PROVE  NoOverlappingBookings'
  <2>. DEFINE row == [bookings[b] EXCEPT !.status = st, !.expires = NoExpiry]
  <2>1. bookings[b] \in Row
    BY <1>7, InTableIsRow DEF TypeOK
  <2>2. /\ row \in Row
        /\ row.resource = bookings[b].resource
        /\ row.range = bookings[b].range
    BY <1>7, <2>1, SettledAfterHeld DEF Row, Held, Settled
  <2>3. bookings' = [bookings EXCEPT ![b] = row]
    BY <1>7
  <2>4. Active(bookings[b])
    BY <1>7 DEF Active
  <2>. HIDE DEF row
  <2>. QED  BY <1>5, <2>1, <2>2, <2>3, <2>4
<1>8. CASE UNCHANGED bookings
  BY <1>8, NothingNewOccupied
<1>9. CASE \E r \in Resources, u \in Users, p \in Range : PlaceHold(r, u, p)
  BY <1>1, <1>9 DEF PlaceHold
<1>10. CASE \/ \E b \in BookingIds : Cancel(b)
            \/ \E s \in Series : CancelSeries(s)
  BY <1>4, <1>10 DEF Cancel, CancelSeries, FutureOccurrences
<1>11. CASE \E u \in Users, b \in BookingIds : Accept(u, b)
  BY <1>7, <1>11 DEF Accept, AfterAccept
<1>12. CASE \E b \in BookingIds : Decline(b) \/ Reap(b)
  BY <1>7, <1>12 DEF Decline, Reap, AfterRelease, Lapsed
<1>13. CASE Tick \/ (\E b \in BookingIds : AttachOffer(b)) \/ UNCHANGED bookingVars
  BY <1>8, <1>13 DEF Tick, AttachOffer, bookingVars
<1>. QED
  BY <1>2, <1>3, <1>6, <1>9, <1>10, <1>11, <1>12, <1>13 DEF Next

\* The exclusion promise of PRD FR1 in every behaviour, for any number of
\* resources, users, ranges and rows, whichever service writes.
THEOREM NoDoubleBooking == Spec => []NoOverlappingBookings
<1>1. Init => NoOverlappingBookings
  BY DEF Init, NoOverlappingBookings, Absent
<1>. QED  BY <1>1, NoOverlapStep, TypeCorrect, PTL DEF Spec

-----------------------------------------------------------------------------
(* What a step may do to one row.                                           *)

\* A successful create_booking fills one unused id, deletes lapsed holds, and
\* leaves every other row alone.
LEMMA CreateRows ==
  ASSUME NEW r \in Resources, NEW u \in Users, NEW p \in Range,
         NEW s \in Series \cup {NoSeries}, NEW st \in {"confirmed", "held"},
         TypeOK, CreateBooking(r, u, p, s, st)
  PROVE  \E b \in BookingIds :
            /\ bookings[b] = Absent
            /\ bookings'[b] = NewRow(r, u, p, s, st, now)
            /\ \A c \in BookingIds \ {b} :
                  IF c \in StaleHolds(bookings, r, p, now)
                  THEN bookings'[c] = Deleted ELSE bookings'[c] = bookings[c]
            /\ b \notin StaleHolds(bookings, r, p, now)
<1>1. PICK b \in FreshIds(bookings) :
        bookings' = [AfterCleanup(bookings, r, p, now)
                       EXCEPT ![b] = NewRow(r, u, p, s, st, now)]
  BY DEF CreateBooking
<1>2. b \in BookingIds /\ bookings[b] = Absent
  BY DEF FreshIds
<1>3. b \notin StaleHolds(bookings, r, p, now)
  BY <1>2 DEF StaleHolds, Lapsed, Absent
<1>4. bookings'[b] = NewRow(r, u, p, s, st, now)
  BY <1>1, <1>2 DEF AfterCleanup
<1>5. \A c \in BookingIds \ {b} :
         IF c \in StaleHolds(bookings, r, p, now)
         THEN bookings'[c] = Deleted ELSE bookings'[c] = bookings[c]
  BY <1>1, <1>2 DEF AfterCleanup
<1>. QED  BY <1>2, <1>3, <1>4, <1>5

\* The statement of an edit or a transfer keeps the row's status.
LEMMA EditRows ==
  ASSUME NEW b \in BookingIds, TypeOK, InTable(bookings[b]),
         \/ \E p \in Range : bookings' = [bookings EXCEPT ![b] = [@ EXCEPT !.range = p]]
         \/ \E u \in Users : bookings' = [bookings EXCEPT ![b] = [@ EXCEPT !.user = u]]
  PROVE  \A c \in BookingIds : bookings'[c].status = bookings[c].status
<1>1. bookings[b] \in Row
  BY InTableIsRow DEF InTable, TypeOK
<1>2. ASSUME NEW p, bookings' = [bookings EXCEPT ![b] = [@ EXCEPT !.range = p]]
      PROVE  \A c \in BookingIds : bookings'[c].status = bookings[c].status
  BY <1>1, <1>2 DEF TypeOK, Row, Held, Settled
<1>3. ASSUME NEW u, bookings' = [bookings EXCEPT ![b] = [@ EXCEPT !.user = u]]
      PROVE  \A c \in BookingIds : bookings'[c].status = bookings[c].status
  BY <1>1, <1>3 DEF TypeOK, Row, Held, Settled
<1>. QED  BY <1>2, <1>3

\* Cancelling confirmed rows leaves the others alone.
LEMMA CancelRows ==
  ASSUME NEW B \in SUBSET BookingIds, TypeOK,
         \A b \in B : bookings[b].status = "confirmed",
         bookings' = AfterCancel(bookings, B)
  PROVE  \A c \in BookingIds :
            IF c \in B THEN bookings'[c].status = "cancelled"
            ELSE bookings'[c] = bookings[c]
<1>1. ASSUME NEW c \in B  PROVE bookings'[c].status = "cancelled"
  <2>1. bookings[c] \in Row
    BY InTableIsRow DEF TypeOK
  <2>2. bookings'[c] = [bookings[c] EXCEPT !.status = "cancelled"]
    BY DEF AfterCancel
  <2>. QED  BY <2>1, <2>2 DEF Row, Held, Settled
<1>. QED  BY <1>1 DEF AfterCancel

\* Accepting or releasing a hold leaves the others alone, and its owner.
LEMMA ResolveRows ==
  ASSUME NEW b \in BookingIds, TypeOK, bookings[b].status = "held",
         NEW st \in {"confirmed", "cancelled"},
         bookings' = [bookings EXCEPT
                        ![b] = [@ EXCEPT !.status = st, !.expires = NoExpiry]]
  PROVE  /\ bookings'[b].status = st
         /\ bookings'[b].user = bookings[b].user
         /\ bookings'[b].resource = bookings[b].resource
         /\ bookings'[b].range = bookings[b].range
         /\ \A c \in BookingIds \ {b} : bookings'[c] = bookings[c]
<1>1. bookings[b] \in Row
  BY InTableIsRow DEF TypeOK
<1>. QED  BY <1>1 DEF TypeOK, Row, Held, Settled

-----------------------------------------------------------------------------
(* Freed for good.                                                          *)

\* No step changes the status of a row that was cancelled or deleted.
LEMMA FreedStep ==
  ASSUME TypeOK, [Next]_bookingVars
  PROVE  \A b \in BookingIds :
            bookings[b].status \in {"cancelled", "deleted"}
                => bookings'[b].status = bookings[b].status
<1>1. ASSUME NEW r \in Resources, NEW u \in Users, NEW p \in Range,
             NEW s \in Series \cup {NoSeries}, NEW st \in {"confirmed", "held"},
             CreateBooking(r, u, p, s, st)
      PROVE  \A b \in BookingIds :
                bookings[b].status \in {"cancelled", "deleted"}
                    => bookings'[b].status = bookings[b].status
  BY <1>1, CreateRows DEF StaleHolds, Lapsed, Absent
<1>2. CASE \/ \E r \in Resources, u \in Users, p \in Range, s \in Series \cup {NoSeries} :
                 Book(r, u, p, s)
           \/ \E r \in Resources, u \in Users, p \in Range : PlaceHold(r, u, p)
  BY <1>1, <1>2 DEF Book, PlaceHold
<1>3. CASE \/ \E u \in Users, b \in BookingIds, p \in Range : Edit(u, b, p)
           \/ \E b \in BookingIds, u \in Users : Transfer(b, u)
  BY <1>3, EditRows DEF Edit, Transfer, InTable
<1>4. CASE (\E b \in BookingIds : Cancel(b)) \/ (\E s \in Series : CancelSeries(s))
  <2>1. PICK B \in SUBSET BookingIds :
           /\ \A b \in B : bookings[b].status = "confirmed"
           /\ bookings' = AfterCancel(bookings, B)
    BY <1>4 DEF Cancel, CancelSeries, FutureOccurrences
  <2>. QED  BY <2>1, CancelRows
<1>5. CASE \/ \E u \in Users, b \in BookingIds : Accept(u, b)
           \/ \E b \in BookingIds : Decline(b) \/ Reap(b)
  <2>1. PICK b \in BookingIds, st \in {"confirmed", "cancelled"} :
           /\ bookings[b].status = "held"
           /\ bookings' = [bookings EXCEPT
                             ![b] = [@ EXCEPT !.status = st, !.expires = NoExpiry]]
    BY <1>5 DEF Accept, Decline, Reap, Lapsed, AfterAccept, AfterRelease
  <2>. QED  BY <2>1, ResolveRows
<1>6. CASE Tick \/ (\E b \in BookingIds : AttachOffer(b)) \/ UNCHANGED bookingVars
  BY <1>6 DEF Tick, AttachOffer, bookingVars
<1>. QED  BY <1>2, <1>3, <1>4, <1>5, <1>6 DEF Next

\* A booking stays a booking or is cancelled: nothing deletes it or turns it
\* back into a hold.
LEMMA SettledStep ==
  ASSUME TypeOK, [Next]_bookingVars
  PROVE  \A b \in BookingIds :
            bookings[b].status \in {"confirmed", "cancelled"}
                => bookings'[b].status \in {"confirmed", "cancelled"}
<1>1. ASSUME NEW r \in Resources, NEW u \in Users, NEW p \in Range,
             NEW s \in Series \cup {NoSeries}, NEW st \in {"confirmed", "held"},
             CreateBooking(r, u, p, s, st)
      PROVE  \A b \in BookingIds :
                bookings[b].status \in {"confirmed", "cancelled"}
                    => bookings'[b].status \in {"confirmed", "cancelled"}
  BY <1>1, CreateRows DEF StaleHolds, Lapsed, Absent
<1>2. CASE \/ \E r \in Resources, u \in Users, p \in Range, s \in Series \cup {NoSeries} :
                 Book(r, u, p, s)
           \/ \E r \in Resources, u \in Users, p \in Range : PlaceHold(r, u, p)
  BY <1>1, <1>2 DEF Book, PlaceHold
<1>3. CASE \/ \E u \in Users, b \in BookingIds, p \in Range : Edit(u, b, p)
           \/ \E b \in BookingIds, u \in Users : Transfer(b, u)
  BY <1>3, EditRows DEF Edit, Transfer, InTable
<1>4. CASE (\E b \in BookingIds : Cancel(b)) \/ (\E s \in Series : CancelSeries(s))
  <2>1. PICK B \in SUBSET BookingIds :
           /\ \A b \in B : bookings[b].status = "confirmed"
           /\ bookings' = AfterCancel(bookings, B)
    BY <1>4 DEF Cancel, CancelSeries, FutureOccurrences
  <2>. QED  BY <2>1, CancelRows
<1>5. CASE \/ \E u \in Users, b \in BookingIds : Accept(u, b)
           \/ \E b \in BookingIds : Decline(b) \/ Reap(b)
  <2>1. PICK b \in BookingIds, st \in {"confirmed", "cancelled"} :
           /\ bookings[b].status = "held"
           /\ bookings' = [bookings EXCEPT
                             ![b] = [@ EXCEPT !.status = st, !.expires = NoExpiry]]
    BY <1>5 DEF Accept, Decline, Reap, Lapsed, AfterAccept, AfterRelease
  <2>. QED  BY <2>1, ResolveRows
<1>6. CASE Tick \/ (\E b \in BookingIds : AttachOffer(b)) \/ UNCHANGED bookingVars
  BY <1>6 DEF Tick, AttachOffer, bookingVars
<1>. QED  BY <1>2, <1>3, <1>4, <1>5, <1>6 DEF Next

\* PRD FR4: a cancelled booking, a released or a deleted hold never comes back,
\* whatever accept, edit, transfer or series cancellation still does to its row.
THEOREM FreedRowsStayFreed == Spec => FreedForGood
<1>1. TypeOK /\ [Next]_bookingVars
        => [\A b \in BookingIds :
              bookings[b].status \in {"cancelled", "deleted"}
                  => bookings'[b].status = bookings[b].status]_bookingVars
  BY FreedStep
<1>. QED  BY <1>1, TypeCorrect, PTL DEF Spec, FreedForGood

-----------------------------------------------------------------------------
(* A hold keeps its slot.                                                   *)

KeepsTheSlot(b) ==
    (/\ bookings[b].status = "held"
     /\ bookings[b].expires > now
     /\ bookings'[b].status # "held")
        => /\ b \in offered
           /\ bookings'[b].status \in {"confirmed", "cancelled"}
           /\ bookings'[b].user = bookings[b].user
           /\ \A c \in BookingIds \ {b} : bookings'[c] = bookings[c]

\* No step takes an unexpired hold from its beneficiary.
LEMMA HoldStep ==
  ASSUME TypeOK, [Next]_bookingVars
  PROVE  \A b \in BookingIds : KeepsTheSlot(b)
<1>1. ASSUME NEW r \in Resources, NEW u \in Users, NEW p \in Range,
             NEW s \in Series \cup {NoSeries}, NEW st \in {"confirmed", "held"},
             CreateBooking(r, u, p, s, st),
             NEW b \in BookingIds
      PROVE  KeepsTheSlot(b)
  <2>1. SUFFICES ASSUME bookings[b].status = "held", bookings[b].expires > now
                 PROVE  bookings'[b] = bookings[b]
    BY DEF KeepsTheSlot
  <2>2. b \notin StaleHolds(bookings, r, p, now)
    <3>1. bookings[b] \in Held
      BY <2>1, InTableIsRow DEF TypeOK, Row, Held, Settled
    <3>2. bookings[b].expires \in Int /\ now \in Int
      BY <3>1, TableAssumption DEF TypeOK, Times, Held
    <3>. QED  BY <2>1, <3>2 DEF StaleHolds, Lapsed
  <2>. QED  BY <1>1, <2>1, <2>2, CreateRows DEF Absent
<1>2. CASE \/ \E r \in Resources, u \in Users, p \in Range, s \in Series \cup {NoSeries} :
                 Book(r, u, p, s)
           \/ \E r \in Resources, u \in Users, p \in Range : PlaceHold(r, u, p)
  BY <1>1, <1>2 DEF Book, PlaceHold
<1>3. CASE \/ \E u \in Users, b \in BookingIds, p \in Range : Edit(u, b, p)
           \/ \E b \in BookingIds, u \in Users : Transfer(b, u)
  BY <1>3, EditRows DEF Edit, Transfer, InTable, KeepsTheSlot
<1>4. CASE (\E b \in BookingIds : Cancel(b)) \/ (\E s \in Series : CancelSeries(s))
  <2>1. PICK B \in SUBSET BookingIds :
           /\ \A b \in B : bookings[b].status = "confirmed"
           /\ bookings' = AfterCancel(bookings, B)
    BY <1>4 DEF Cancel, CancelSeries, FutureOccurrences
  <2>. QED  BY <2>1, CancelRows DEF KeepsTheSlot
<1>5. ASSUME NEW h \in BookingIds, NEW st \in {"confirmed", "cancelled"},
             bookings[h].status = "held",
             h \in offered \/ Lapsed(bookings[h], now),
             bookings' = [bookings EXCEPT
                            ![h] = [@ EXCEPT !.status = st, !.expires = NoExpiry]],
             NEW b \in BookingIds
      PROVE  KeepsTheSlot(b)
  <2>1. CASE b # h
    BY <1>5, <2>1, ResolveRows DEF KeepsTheSlot
  <2>2. CASE b = h /\ h \in offered
    BY <1>5, <2>2, ResolveRows DEF KeepsTheSlot
  <2>3. CASE b = h /\ Lapsed(bookings[h], now)
    <3>1. bookings[h].expires \in Int /\ now \in Int
      BY <1>5, InTableIsRow, TableAssumption DEF TypeOK, Times, Row, Held, Settled
    <3>. QED  BY <2>3, <3>1 DEF KeepsTheSlot, Lapsed
  <2>. QED  BY <1>5, <2>1, <2>2, <2>3
<1>6. CASE \/ \E u \in Users, b \in BookingIds : Accept(u, b)
           \/ \E b \in BookingIds : Decline(b) \/ Reap(b)
  BY <1>5, <1>6 DEF Accept, Decline, Reap, Lapsed, AfterAccept, AfterRelease
<1>7. CASE Tick \/ (\E b \in BookingIds : AttachOffer(b)) \/ UNCHANGED bookingVars
  BY <1>7 DEF Tick, AttachOffer, bookingVars, KeepsTheSlot
<1>. QED  BY <1>2, <1>3, <1>4, <1>6, <1>7 DEF Next

\* RFC 10.3: until it expires a hold can only become its beneficiary's booking
\* or be declined through its own offer; no create, edit, cancellation, sweep or
\* transfer of anybody takes it away.
THEOREM HoldsKeepTheirSlots == Spec => HoldKeepsTheSlot
<1>1. TypeOK /\ [Next]_bookingVars
        => [\A b \in BookingIds :
              (/\ bookings[b].status = "held"
               /\ bookings[b].expires > now
               /\ bookings'[b].status # "held")
                  => /\ b \in offered
                     /\ bookings'[b].status \in {"confirmed", "cancelled"}
                     /\ bookings'[b].user = bookings[b].user
                     /\ \A c \in BookingIds \ {b} : bookings'[c] = bookings[c]]_bookingVars
  BY HoldStep DEF KeepsTheSlot
<1>. QED  BY <1>1, TypeCorrect, PTL DEF Spec, HoldKeepsTheSlot

-----------------------------------------------------------------------------
(***************************************************************************)
(* The booking table implements the calendar of claims, for every value of *)
(* the constants: each transaction of Bookings is one step of Calendar, or *)
(* none.                                                                   *)
(***************************************************************************)

LEMMA TableOfType == /\ TypeOK => bookings \in Table
                     /\ TypeOK' => bookings' \in Table
BY DEF TypeOK, Table

\* A booking or a hold is one grant, whatever lapsed holds it displaces.
LEMMA CreateTakes ==
  ASSUME TypeOK, TypeOK',
         NEW r \in Resources, NEW u \in Users, NEW p \in Range,
         NEW s \in Series \cup {NoSeries}, NEW st \in {"confirmed", "held"},
         CreateBooking(r, u, p, s, st)
  PROVE  Abs!CalendarNext
<1>. DEFINE D == StaleHolds(bookings, r, p, now)
<1>1. PICK b \in BookingIds :
         /\ bookings[b] = Absent
         /\ bookings'[b] = NewRow(r, u, p, s, st, now)
         /\ \A d \in BookingIds \ {b} :
               IF d \in D THEN bookings'[d] = Deleted ELSE bookings'[d] = bookings[d]
         /\ b \notin D
  BY CreateRows
<1>2. D \in SUBSET BookingIds /\ \A d \in D : bookings[d].status = "held"
  BY DEF StaleHolds, Lapsed
<1>3. /\ InExclusionDomain(bookings'[b])
      /\ bookings'[b].resource = r
      /\ bookings'[b].range = p
  BY <1>1 DEF NewRow, InExclusionDomain
<1>4. \A d \in BookingIds \ D :
         (InExclusionDomain(bookings[d]) /\ bookings[d].resource = r)
            => ~Overlaps(bookings[d].range, p)
  <2>1. Excludes(AfterCleanup(bookings, r, p, now), BookingIds, r, p)
    BY DEF CreateBooking
  <2>2. \A d \in BookingIds \ D : AfterCleanup(bookings, r, p, now)[d] = bookings[d]
    BY DEF AfterCleanup
  <2>. QED  BY <2>1, <2>2 DEF Excludes
<1>5. /\ \A d \in D : bookings'[d] = Deleted
      /\ \A d \in BookingIds \ (D \cup {b}) : bookings'[d] = bookings[d]
  BY <1>1, <1>2
<1>6. bookings \in Table /\ bookings' \in Table
  BY TableOfType
<1>. HIDE DEF D
<1>. QED  BY <1>1, <1>2, <1>3, <1>4, <1>5, <1>6, InsertingTakes

\* An edit moves a claim, or touches a row that stands for none.
LEMMA EditMoves ==
  ASSUME TypeOK, TypeOK', NEW b \in BookingIds, NEW p \in Range,
         InTable(bookings[b]), Fits(b, p),
         bookings' = [bookings EXCEPT ![b] = [@ EXCEPT !.range = p]]
  PROVE  Abs!CalendarNext \/ Claims' = Claims
<1>1. bookings \in Table /\ bookings' \in Table
  BY TableOfType
<1>. QED  BY <1>1, MovingMoves DEF Fits

\* A transfer hands a claim over, or touches a row that stands for none.
LEMMA TransferHandsOver ==
  ASSUME TypeOK, TypeOK', NEW b \in BookingIds, NEW u \in Users, Transfer(b, u)
  PROVE  Abs!CalendarNext \/ Claims' = Claims
<1>0. bookings \in Table /\ bookings' \in Table
  BY TableOfType
<1>1. /\ bookings[b] \in Row
      /\ bookings'[b] = [bookings[b] EXCEPT !.user = u]
      /\ \A c \in BookingIds \ {b} : bookings'[c] = bookings[c]
  BY InTableIsRow DEF Transfer, TypeOK
<1>2. CASE bookings[b].status = "cancelled"
  <2>1. bookings'[b].status = "cancelled"
    BY <1>1, <1>2 DEF Row, Held, Settled
  <2>. QED  BY <1>0, <1>1, <1>2, <2>1, RewritingOutside
<1>3. CASE bookings[b].status = "confirmed"
  <2>1. b \in Abs!Standing
    BY <1>0, <1>3, StandingIsDomain DEF InExclusionDomain
  <2>2. Claims'[b] = [Claims[b] EXCEPT !.owner = u]
    BY <1>1, <1>3, GivingHandsOver DEF Claims, InExclusionDomain
  <2>3. Claims' = [Claims EXCEPT ![b] = [@ EXCEPT !.owner = u]]
    BY <1>1, <2>2 DEF Claims
  <2>4. Abs!HandOver(b, u)
    BY <2>1, <2>3 DEF Abs!HandOver
  <2>. QED  BY <2>4 DEF Abs!CalendarNext, Abs!BookingIds, BookingIds
<1>. QED  BY <1>2, <1>3 DEF Transfer

\* Every step of the table is a step of the calendar, or leaves it as it is.
LEMMA CalendarStep ==
  TypeOK /\ [Next]_bookingVars => [Abs!CalendarNext]_Claims
<1>. SUFFICES ASSUME TypeOK, [Next]_bookingVars
              PROVE  Abs!CalendarNext \/ Claims' = Claims
  OBVIOUS
<1>0. TypeOK' /\ bookings \in Table /\ bookings' \in Table
  BY TypeStep, TableOfType
<1>1. CASE \/ \E r \in Resources, u \in Users, p \in Range, s \in Series \cup {NoSeries} :
                 Book(r, u, p, s)
           \/ \E r \in Resources, u \in Users, p \in Range : PlaceHold(r, u, p)
  BY <1>0, <1>1, CreateTakes DEF Book, PlaceHold
<1>2. CASE \E u \in Users, b \in BookingIds, p \in Range : Edit(u, b, p)
  BY <1>0, <1>2, EditMoves DEF Edit
<1>3. CASE \E b \in BookingIds, u \in Users : Transfer(b, u)
  BY <1>0, <1>3, TransferHandsOver
<1>4. CASE (\E b \in BookingIds : Cancel(b)) \/ (\E s \in Series : CancelSeries(s))
  <2>1. PICK B \in SUBSET BookingIds :
           /\ \A b \in B : bookings[b].status = "confirmed"
           /\ bookings' = AfterCancel(bookings, B)
    BY <1>4 DEF Cancel, CancelSeries, FutureOccurrences
  <2>2. /\ \A b \in B : bookings'[b].status = "cancelled"
        /\ \A b \in BookingIds \ B : bookings'[b] = bookings[b]
    BY <2>1, CancelRows
  <2>. QED  BY <1>0, <2>1, <2>2, FreeingGivesUp DEF InExclusionDomain
<1>5. CASE \E u \in Users, b \in BookingIds : Accept(u, b)
  BY <1>0, <1>5, AcceptingMakesFirm DEF Accept
<1>6. CASE \E b \in BookingIds : Decline(b) \/ Reap(b)
  <2>1. PICK b \in BookingIds :
           /\ bookings[b].status = "held"
           /\ bookings' = [bookings EXCEPT
                             ![b] = [@ EXCEPT !.status = "cancelled", !.expires = NoExpiry]]
    BY <1>6 DEF Decline, Reap, Lapsed, AfterRelease
  <2>2. /\ bookings'[b].status = "cancelled"
        /\ \A c \in BookingIds \ {b} : bookings'[c] = bookings[c]
    BY <2>1, ResolveRows
  <2>. QED  BY <1>0, <2>1, <2>2, FreeingGivesUp DEF InExclusionDomain
<1>7. CASE Tick \/ (\E b \in BookingIds : AttachOffer(b)) \/ UNCHANGED bookingVars
  BY <1>7 DEF Tick, AttachOffer, bookingVars, Claims
<1>. QED  BY <1>1, <1>2, <1>3, <1>4, <1>5, <1>6, <1>7 DEF Next

\* The table of the booking services implements the calendar of claims: every
\* claim is granted whole, over nothing but lapsed holds, and a firm one ends
\* only by being given up.
THEOREM TableImplementsCalendar == Spec => ImplementsCalendar
<1>1. Init => Abs!CalendarInit
  BY EmptyTableStarts DEF Init
<1>. QED
  BY <1>1, CalendarStep, TypeCorrect, PTL DEF Spec, ImplementsCalendar, Abs!CalendarSpec
=============================================================================
