------------------------ MODULE BookingClients_proofs ------------------------
(***************************************************************************)
(* Proofs about the modules that extend Bookings, for every value of their *)
(* constants: the answers of create_booking and edit_booking, lists that   *)
(* are read page by page, and recurring series with their background jobs. *)
(***************************************************************************)
EXTENDS BookingPages, RecurringSeries, Recurrence, Bookings_proofs

-----------------------------------------------------------------------------
(* Part 1.  Requests and lists (BookingRequests, BookingPages): for any     *)
(* lists, any page sizes and any order of the ids.                          *)

\* Answering requests changes nothing about the table: every step of the
\* requests is a step of Bookings, or leaves the table alone.
LEMMA RequestStep == [RequestNext]_requestVars => [Next]_bookingVars
<1>. SUFFICES ASSUME [RequestNext]_requestVars
              PROVE  Next \/ UNCHANGED bookingVars
  OBVIOUS
<1>1. CASE \E r \in Resources, u \in Users, p \in Range, s \in Series \cup {NoSeries} :
              RequestBooking(r, u, p, s)
  BY <1>1 DEF RequestBooking, Next
<1>2. CASE \E u \in Users, b \in BookingIds, p \in Range : RequestEdit(u, b, p)
  BY <1>2 DEF RequestEdit, Next
<1>3. CASE \/ \E r \in Resources, p \in Range : BookingConflicts(r, p)
           \/ \E r \in Resources, p \in Range : BookingBreaksForeignKey(r, p)
           \/ \E b \in BookingIds, p \in Range : EditConflicts(b, p)
  BY <1>3 DEF BookingConflicts, BookingBreaksForeignKey, EditConflicts
<1>4. CASE OtherWrites
  BY <1>4 DEF OtherWrites, Next
<1>5. CASE UNCHANGED requestVars
  BY <1>5 DEF requestVars, bookingVars
<1>. QED  BY <1>1, <1>2, <1>3, <1>4, <1>5 DEF RequestNext

\* Refused requests included, the table behaves as Bookings says; so all that
\* is proved of Spec holds under the requests.
THEOREM RequestsImplementBookings == RequestSpec => Spec
<1>1. RequestInit => Init
  BY DEF RequestInit
<1>. QED  BY <1>1, RequestStep, PTL DEF RequestSpec, Spec

-----------------------------------------------------------------------------
\* A range that is still taken after cleanup-on-write is taken by a row that
\* nobody may displace.
LEMMA ConflictIsLive ==
  ASSUME TypeOK, NEW r, NEW p,
         ~Excludes(AfterCleanup(bookings, r, p, now), BookingIds, r, p)
  PROVE  LiveBlockers(bookings, BookingIds, r, p, now) # {}
<1>. DEFINE cleaned == AfterCleanup(bookings, r, p, now)
<1>1. PICK c \in BookingIds : /\ InExclusionDomain(cleaned[c])
                              /\ cleaned[c].resource = r
                              /\ Overlaps(cleaned[c].range, p)
  BY DEF Excludes
<1>2. c \notin StaleHolds(bookings, r, p, now) /\ cleaned[c] = bookings[c]
  BY <1>1 DEF AfterCleanup, InExclusionDomain, Deleted
<1>3. ~Lapsed(bookings[c], now)
  BY <1>1, <1>2 DEF StaleHolds
<1>. QED  BY <1>1, <1>2, <1>3 DEF LiveBlockers, InExclusionDomain

\* Every answer is one of the answers, and a refused create met a live row.
LEMMA AnswerStep ==
  TypeOK /\ RequestTypeOK /\ RefusedOnlyByLiveRows /\ [RequestNext]_requestVars
     => (reply \in Reply /\ RefusedOnlyByLiveRows)'
<1>. SUFFICES ASSUME TypeOK, RequestTypeOK, RefusedOnlyByLiveRows,
                     [RequestNext]_requestVars
              PROVE  reply' \in Reply /\ RefusedOnlyByLiveRows'
  OBVIOUS
<1>1. ASSUME NEW op \in {"create", "edit"}, NEW result \in Results,
             NEW others, NEW r, NEW p,
             reply' = ReplyTo(op, result, others, r, p),
             op = "edit" \/ result # "slot_unavailable"
                \/ LiveBlockers(bookings, others, r, p, now) # {}
      PROVE  reply' \in Reply /\ RefusedOnlyByLiveRows'
  <2>1. reply'.op = op /\ reply'.result = result
    BY <1>1 DEF ReplyTo
  <2>2. LiveBlockers(bookings, others, r, p, now) # {} => reply'.live
    BY <1>1 DEF ReplyTo
  <2>3. reply' \in Reply
    BY <1>1 DEF ReplyTo, Reply
  <2>. QED  BY <1>1, <2>1, <2>2, <2>3 DEF RefusedOnlyByLiveRows
<1>2. CASE \E r \in Resources, u \in Users, p \in Range, s \in Series \cup {NoSeries} :
              RequestBooking(r, u, p, s)
  BY <1>1, <1>2 DEF RequestBooking, Results
<1>3. CASE \E r \in Resources, p \in Range : BookingConflicts(r, p)
  BY <1>1, <1>3, ConflictIsLive DEF BookingConflicts, Results
<1>4. CASE \E r \in Resources, p \in Range : BookingBreaksForeignKey(r, p)
  BY <1>1, <1>4 DEF BookingBreaksForeignKey, Results
<1>5. CASE \E u \in Users, b \in BookingIds, p \in Range : RequestEdit(u, b, p)
  BY <1>1, <1>5 DEF RequestEdit, Results
<1>6. CASE \E b \in BookingIds, p \in Range : EditConflicts(b, p)
  BY <1>1, <1>6 DEF EditConflicts, Results
<1>7. CASE reply' = NoReply
  BY <1>7 DEF NoReply, Reply, Results, RefusedOnlyByLiveRows
<1>8. CASE UNCHANGED requestVars
  BY <1>8 DEF requestVars, RequestTypeOK, RefusedOnlyByLiveRows
<1>. QED  BY <1>2, <1>3, <1>4, <1>5, <1>6, <1>7, <1>8 DEF RequestNext

\* PRD FR18: whoever books is told slot_unavailable only because of a booking
\* or of a hold that has not expired, never because of a lapsed hold.
THEOREM RefusalsAreHonest == RequestSpec => [](RequestTypeOK /\ RefusedOnlyByLiveRows)
<1>1. RequestInit => reply \in Reply /\ RefusedOnlyByLiveRows
  BY DEF RequestInit, NoReply, Reply, Results, RefusedOnlyByLiveRows
<1>2. RequestSpec => []TypeOK
  BY RequestsImplementBookings, TypeCorrect, PTL
<1>3. TypeOK /\ reply \in Reply <=> RequestTypeOK
  BY DEF RequestTypeOK
<1>. QED  BY <1>1, <1>2, <1>3, AnswerStep, PTL DEF RequestSpec

-----------------------------------------------------------------------------
(* Pages: the order of the keys.                                            *)

LEMMA KeyType ==
  ASSUME TypeOK, NEW f, NEW b \in BookingIds, Listed(f, b)
  PROVE  Key(b) \in Keys
<1>1. bookings[b] \in Row
  BY DEF TypeOK, Listed, Absent, Deleted
<1>2. bookings[b].range \in Range
  BY <1>1 DEF Row, Held, Settled
<1>3. bookings[b].range[1] \in 0..Horizon
  BY <1>2 DEF Range
<1>4. Rank[b] \in Nat
  BY PagesAssumption DEF PagesAssumption
<1>. QED  BY <1>3, <1>4 DEF Key, Keys

LEMMA KeysAreIntegers ==
  ASSUME NEW k \in Keys
  PROVE  k[1] \in Int /\ k[2] \in Int /\ k # NoCursor
<1>1. PICK x \in 0..Horizon, y \in Nat : k = <<x, y>>
  BY DEF Keys
<1>2. k[1] = x /\ k[2] = y /\ Len(k) = 2
  BY <1>1
<1>. QED  BY <1>1, <1>2, TableAssumption DEF NoCursor, TableAssumption

\* The rows after a row are those that the order puts behind it.
LEMMA AfterIsBehind ==
  ASSUME NEW f, NEW c \in Keys, NEW k \in Keys
  PROVE  AfterCursor(f, c, k) <=> Precedes(f, c, k)
BY KeysAreIntegers DEF AfterCursor, Precedes

LEMMA NotBehindItself ==
  ASSUME NEW f, NEW k \in Keys
  PROVE  ~Precedes(f, k, k)
BY KeysAreIntegers DEF Precedes

LEMMA OrderIsTransitive ==
  ASSUME NEW f, NEW k \in Keys, NEW l \in Keys, NEW m \in Keys,
         Precedes(f, k, l), Precedes(f, l, m)
  PROVE  Precedes(f, k, m)
BY KeysAreIntegers DEF Precedes

-----------------------------------------------------------------------------
(* Pages: what a page does to a row of the list.                            *)

\* Whether a row is still to come on a later page.
Ahead(b) == pages = "more" /\ AfterCursor(filter, cursor, Key(b))

\* A page shows the rows that were to come and are not any more, each once,
\* and brings none back.
LEMMA PageStep ==
  ASSUME TypeOK, PagesTypeOK, NEW f, NEW c \in Keys \cup {NoCursor}, NEW limit,
         Page(f, c, limit), NEW b \in BookingIds, Listed(f, b)
  PROVE  LET coming == pages' = "more" /\ AfterCursor(f, cursor', Key(b))
         IN  /\ shown'[b] = IF AfterCursor(f, c, Key(b)) /\ ~coming THEN shown[b] + 1
                            ELSE shown[b]
             /\ coming => AfterCursor(f, c, Key(b))
<1>. DEFINE rest == Rest(f, c)
<1>1. PICK page \in SUBSET rest :
        /\ \A x \in page, y \in rest \ page : Precedes(f, Key(x), Key(y))
        /\ \/ page = rest /\ pages' = "all"
           \/ /\ pages' = "more"
              /\ \E last \in LastOf(f, page) : cursor' = Key(last)
        /\ shown' = [x \in BookingIds |-> IF x \in page THEN shown[x] + 1 ELSE shown[x]]
  BY DEF Page
<1>2. b \in rest <=> AfterCursor(f, c, Key(b))
  BY DEF Rest
<1>3. \A x \in rest : x \in BookingIds /\ Listed(f, x) /\ AfterCursor(f, c, Key(x)) /\ Key(x) \in Keys
  BY KeyType DEF Rest
<1>4. shown'[b] = IF b \in page THEN shown[b] + 1 ELSE shown[b]
  BY <1>1
<1>5. CASE pages' = "all" /\ page = rest
  BY <1>2, <1>4, <1>5
<1>6. CASE pages' = "more"
  <2>1. PICK last \in page : /\ \A x \in page \ {last} : Precedes(f, Key(x), Key(last))
                             /\ cursor' = Key(last)
    BY <1>1, <1>6 DEF LastOf
  <2>2. Key(last) \in Keys /\ Key(b) \in Keys /\ AfterCursor(f, c, Key(last))
    BY <1>3, <2>1, KeyType
  <2>3. AfterCursor(f, cursor', Key(b)) <=> Precedes(f, Key(last), Key(b))
    BY <2>1, <2>2, AfterIsBehind
  <2>4. CASE b \in page
    <3>1. ~Precedes(f, Key(last), Key(b))
      <4>1. CASE b = last
        BY <4>1, <2>2, NotBehindItself
      <4>2. CASE b # last
        <5>1. Precedes(f, Key(b), Key(last))
          BY <4>2, <2>1, <2>4
        <5>. QED  BY <5>1, <2>2, OrderIsTransitive, NotBehindItself
      <4>. QED  BY <4>1, <4>2
    <3>. QED  BY <3>1, <2>3, <2>4, <1>2, <1>4
  <2>5. CASE b \in rest \ page
    <3>1. Precedes(f, Key(last), Key(b))
      BY <1>1, <2>1, <2>5
    <3>. QED  BY <3>1, <2>3, <2>5, <1>2, <1>4, <1>6
  <2>6. CASE b \notin rest
    <3>1. ~Precedes(f, Key(last), Key(b))
      <4>. SUFFICES ASSUME Precedes(f, Key(last), Key(b)) PROVE FALSE
        OBVIOUS
      <4>1. AfterCursor(f, c, Key(b))
        <5>1. CASE c = NoCursor
          BY <5>1 DEF AfterCursor
        <5>2. CASE c \in Keys
          <6>1. Precedes(f, c, Key(last))
            BY <5>2, <2>2, AfterIsBehind
          <6>2. Precedes(f, c, Key(b))
            BY <6>1, <5>2, <2>2, OrderIsTransitive
          <6>. QED  BY <6>2, <5>2, <2>2, AfterIsBehind
        <5>. QED  BY <5>1, <5>2
      <4>. QED  BY <4>1, <1>2, <2>6
    <3>2. b \notin page
      BY <2>6
    <3>. QED  BY <3>1, <3>2, <2>3, <2>6, <1>2, <1>4
  <2>. QED  BY <2>4, <2>5, <2>6
<1>. QED  BY <1>1, <1>5, <1>6

LEMMA PageTypes ==
  ASSUME TypeOK, PagesTypeOK, NEW f, NEW c, NEW limit, Page(f, c, limit)
  PROVE  /\ cursor' \in Keys \cup {NoCursor}
         /\ pages' \in {"more", "all"}
         /\ pages' = "more" => cursor' \in Keys
         /\ shown' \in [BookingIds -> Nat]
<1>1. PICK page \in SUBSET Rest(f, c) :
        /\ \/ pages' = "all" /\ cursor' = NoCursor
           \/ pages' = "more" /\ \E last \in LastOf(f, page) : cursor' = Key(last)
        /\ shown' = [x \in BookingIds |-> IF x \in page THEN shown[x] + 1 ELSE shown[x]]
  BY DEF Page
<1>2. \A x \in Rest(f, c) : Key(x) \in Keys
  BY KeyType DEF Rest
<1>3. LastOf(f, page) \subseteq Rest(f, c)
  BY <1>1 DEF LastOf
<1>4. shown' \in [BookingIds -> Nat]
  BY <1>1 DEF PagesTypeOK
<1>. QED  BY <1>1, <1>2, <1>3, <1>4

-----------------------------------------------------------------------------
(* Pages: the invariant.                                                    *)

\* A row that has stayed in the list was on one page, or is to come.
PagesInv ==
    /\ PagesTypeOK
    /\ pages = "unread" => steady = {}
    /\ pages = "more" => cursor \in Keys
    /\ \A b \in steady : /\ Listed(filter, b)
                         /\ shown[b] = IF Ahead(b) THEN 0 ELSE 1

LEMMA FirstPageStep ==
  ASSUME TypeOK, PagesInv, shown = [b \in BookingIds |-> 0],
         NEW f \in Asked, NEW limit, FirstPage(f, limit)
  PROVE  PagesInv'
<1>1. /\ filter' = f
      /\ Page(f, NoCursor, limit)
      /\ steady' = {b \in BookingIds : Listed(f, b)}
      /\ bookings' = bookings /\ now' = now
  BY DEF FirstPage, requestVars
<1>2. /\ cursor' \in Keys \cup {NoCursor}
      /\ pages' \in {"more", "all"}
      /\ pages' = "more" => cursor' \in Keys
      /\ shown' \in [BookingIds -> Nat]
  BY <1>1, PageTypes DEF PagesInv
<1>3. ASSUME NEW b \in steady'
      PROVE  Listed(filter, b)' /\ shown'[b] = IF Ahead(b)' THEN 0 ELSE 1
  <2>1. b \in BookingIds /\ Listed(f, b) /\ AfterCursor(f, NoCursor, Key(b))
    BY <1>1, <1>3 DEF AfterCursor
  <2>2. Listed(filter, b)'
    BY <1>1, <2>1 DEF Listed
  <2>3. Ahead(b)' <=> pages' = "more" /\ AfterCursor(f, cursor', Key(b))
    BY <1>1 DEF Ahead, AfterCursor, Key
  <2>4. shown[b] = 0
    BY <2>1
  <2>5. NoCursor \in Keys \cup {NoCursor}
    OBVIOUS
  <2>6. shown'[b] = IF ~Ahead(b)' THEN shown[b] + 1 ELSE shown[b]
    BY <1>1, <2>1, <2>3, <2>5, PageStep DEF PagesInv
  <2>. QED  BY <2>2, <2>4, <2>6
<1>. QED  BY <1>1, <1>2, <1>3 DEF PagesInv, PagesTypeOK

LEMMA NextPageStep ==
  ASSUME TypeOK, PagesInv, NEW limit, NextPage(limit)
  PROVE  PagesInv'
<1>1. /\ Page(filter, cursor, limit)
      /\ pages = "more" /\ cursor \in Keys
      /\ bookings' = bookings /\ now' = now /\ filter' = filter /\ steady' = steady
  BY DEF NextPage, requestVars, PagesInv
<1>2. /\ cursor' \in Keys \cup {NoCursor}
      /\ pages' \in {"more", "all"}
      /\ pages' = "more" => cursor' \in Keys
      /\ shown' \in [BookingIds -> Nat]
  BY <1>1, PageTypes DEF PagesInv
<1>3. ASSUME NEW b \in steady
      PROVE  Listed(filter, b)' /\ shown'[b] = IF Ahead(b)' THEN 0 ELSE 1
  <2>1. b \in BookingIds /\ Listed(filter, b) /\ shown[b] = IF Ahead(b) THEN 0 ELSE 1
    BY <1>3 DEF PagesInv, PagesTypeOK
  <2>2. Listed(filter, b)'
    BY <1>1, <2>1 DEF Listed
  <2>3. Ahead(b)' <=> pages' = "more" /\ AfterCursor(filter, cursor', Key(b))
    BY <1>1 DEF Ahead, AfterCursor, Key
  <2>4. Ahead(b) <=> AfterCursor(filter, cursor, Key(b))
    BY <1>1 DEF Ahead
  <2>5. /\ shown'[b] = IF Ahead(b) /\ ~Ahead(b)' THEN shown[b] + 1 ELSE shown[b]
        /\ Ahead(b)' => Ahead(b)
    BY <1>1, <2>1, <2>3, <2>4, PageStep DEF PagesInv
  <2>. QED  BY <2>1, <2>2, <2>5
<1>. QED  BY <1>1, <1>2, <1>3 DEF PagesInv, PagesTypeOK

LEMMA WriteStep ==
  ASSUME PagesInv, Write
  PROVE  PagesInv'
<1>1. /\ UNCHANGED <<filter, cursor, pages, shown>>
      /\ steady' = {b \in steady : Listed(filter, b)' /\ Key(b)' = Key(b)}
  BY DEF Write
<1>2. ASSUME NEW b \in steady'
      PROVE  Listed(filter, b)' /\ shown'[b] = IF Ahead(b)' THEN 0 ELSE 1
  <2>1. b \in steady /\ Listed(filter, b)' /\ Key(b)' = Key(b)
    BY <1>1, <1>2
  <2>2. Ahead(b)' <=> Ahead(b)
    BY <1>1, <2>1 DEF Ahead, AfterCursor
  <2>. QED  BY <1>1, <2>1, <2>2 DEF PagesInv
<1>. QED  BY <1>1, <1>2 DEF PagesInv, PagesTypeOK

\* Reading changes nothing: what is proved of RequestSpec holds beside readers.
THEOREM PagesImplementRequests == PagesSpec => RequestSpec
<1>1. PagesInit => RequestInit
  BY DEF PagesInit
<1>2. [PagesNext]_listVars => [RequestNext]_requestVars
  BY DEF PagesNext, FirstPage, NextPage, Write, listVars
<1>. QED  BY <1>1, <1>2, PTL DEF PagesSpec, RequestSpec

\* core/pagination.py: whoever writes between two pages, however the ids are
\* ordered and whatever the page size, a booking that stays in a list where it
\* is comes on exactly one page of it.
THEOREM PagesShowEachRowOnce == PagesSpec => []EachRowOnce
<1>. DEFINE Unread == pages = "unread" => shown = [b \in BookingIds |-> 0]
<1>1. PagesInit => PagesInv /\ Unread
  BY DEF PagesInit, PagesInv, PagesTypeOK
<1>2. TypeOK /\ PagesInv /\ Unread /\ [PagesNext]_listVars => PagesInv' /\ Unread'
  <2>. SUFFICES ASSUME TypeOK, PagesInv, Unread, [PagesNext]_listVars
                PROVE  PagesInv' /\ Unread'
    OBVIOUS
  <2>1. CASE \E f \in Asked, limit \in PageSizes : FirstPage(f, limit)
    <3>1. PICK f \in Asked, limit \in PageSizes : FirstPage(f, limit)
      BY <2>1
    <3>2. pages = "unread"
      BY <3>1 DEF FirstPage
    <3>3. pages' \in {"more", "all"}
      BY <3>1, PageTypes DEF FirstPage, PagesInv
    <3>. QED  BY <3>1, <3>2, <3>3, FirstPageStep
  <2>2. CASE \E limit \in PageSizes : NextPage(limit)
    <3>1. PICK limit \in PageSizes : NextPage(limit)
      BY <2>2
    <3>2. pages' \in {"more", "all"}
      BY <3>1, PageTypes DEF NextPage, PagesInv
    <3>. QED  BY <3>1, <3>2, NextPageStep
  <2>3. CASE Write
    BY <2>3, WriteStep DEF Write
  <2>4. CASE UNCHANGED listVars
    <3>1. UNCHANGED <<bookings, now, filter, cursor, pages, shown, steady>>
      BY <2>4 DEF listVars, pageVars, requestVars
    <3>2. \A b \in steady : (Listed(filter, b)' <=> Listed(filter, b)) /\ (Ahead(b)' <=> Ahead(b))
      BY <3>1 DEF Listed, Ahead, AfterCursor, Key
    <3>. QED  BY <3>1, <3>2 DEF PagesInv, PagesTypeOK
  <2>. QED  BY <2>1, <2>2, <2>3, <2>4 DEF PagesNext
<1>3. PagesInv => EachRowOnce
  BY DEF PagesInv, EachRowOnce, Ahead
<1>4. PagesSpec => []TypeOK
  BY PagesImplementRequests, RequestsImplementBookings, TypeCorrect, PTL
<1>. HIDE DEF Unread
<1>. QED  BY <1>1, <1>2, <1>3, <1>4, PTL DEF PagesSpec

-----------------------------------------------------------------------------
(* Part 2.  Recurring series (RecurringSeries): for any number of series,   *)
(* dates, releases of the tz database, overlapping runs and interruptions.  *)

-----------------------------------------------------------------------------
(* Dates.                                                                   *)

LEMMA WeeksGrow ==
    ASSUME NEW n \in Nat, NEW a \in Nat, NEW b \in Nat, a <= b
    PROVE  n * a \in Nat /\ n * b \in Nat /\ n * a <= n * b
<1>1. n * b = n * a + n * (b - a)
  BY SMT
<1>2. n * (b - a) \in Nat /\ n * a \in Nat /\ n * b \in Nat
  BY SMT
<1>. QED  BY <1>1, <1>2

\* An occurrence is within the bookable ranges.
LEMMA OccurrenceIsRange ==
    ASSUME NEW v \in Releases, NEW d \in Dates
    PROVE  Occurrence(v, d) \in Range
<1>. USE SeriesAssumption, TableAssumption
<1>. DEFINE weeks == Week * (d - 1)
            last  == Week * (Count - 1)
            shift == Rule[v][d]
<1>1. d - 1 \in Nat /\ Count - 1 \in Nat /\ d - 1 <= Count - 1 /\ Week \in Nat
  BY DEF SeriesAssumption, Dates
<1>2. weeks \in Nat /\ last \in Nat /\ weeks <= last
  BY <1>1, WeeksGrow
<1>3. shift \in Nat /\ shift <= Nearby /\ Nearby \in Nat
  BY DEF SeriesAssumption
<1>4. last + Nearby < Horizon /\ Horizon \in Nat
  BY DEF SeriesAssumption, TableAssumption
<1>5. Occurrence(v, d) = <<weeks + shift, weeks + shift + 1>>
  BY DEF Occurrence
<1>. HIDE DEF weeks, last, shift
<1>6. /\ weeks + shift \in 0..Horizon /\ weeks + shift + 1 \in 0..Horizon
      /\ weeks + shift < weeks + shift + 1
  BY <1>2, <1>3, <1>4
<1>. QED  BY <1>5, <1>6 DEF Range

\* Occurrences come in the order of their dates.
LEMMA OccurrencesInOrder ==
    ASSUME NEW v \in Releases, NEW d \in Dates, NEW e \in Dates, e <= d
    PROVE  /\ Occurrence(v, d)[1] \in Nat /\ Occurrence(v, e)[1] \in Nat
           /\ Occurrence(v, e)[1] <= Occurrence(v, d)[1]
<1>. USE SeriesAssumption
<1>. DEFINE shiftd == Rule[v][d]
            shifte == Rule[v][e]
            weeksd == Week * (d - 1)
            weekse == Week * (e - 1)
<1>1. /\ shiftd \in Nat /\ shifte \in Nat /\ shifte <= Nearby /\ Nearby \in Nat
      /\ Week \in Nat /\ 3 * Nearby < Week
  BY DEF SeriesAssumption
<1>2. /\ Occurrence(v, d)[1] = weeksd + shiftd
      /\ Occurrence(v, e)[1] = weekse + shifte
  BY DEF Occurrence
<1>3. weeksd \in Nat /\ weekse \in Nat
  BY <1>1, WeeksGrow DEF Dates, SeriesAssumption
<1>4. CASE e = d
  BY <1>1, <1>2, <1>3, <1>4
<1>5. CASE e < d
  <2>1. e \in Nat /\ d - 1 \in Nat /\ e <= d - 1 /\ e - 1 \in Nat
    BY <1>5 DEF Dates, SeriesAssumption
  <2>2. Week * e <= weeksd /\ Week * e \in Nat
    BY <2>1, <1>1, WeeksGrow
  <2>3. Week * e = weekse + Week
    BY <2>1, <1>1
  <2>. HIDE DEF weeksd, weekse, shiftd, shifte
  <2>4. weekse + shifte <= weeksd + shiftd
    BY <2>2, <2>3, <1>1, <1>3
  <2>. QED  BY <2>4, <1>1, <1>2, <1>3
<1>. QED  BY <1>4, <1>5 DEF Dates, SeriesAssumption

-----------------------------------------------------------------------------
(* The booking table under the jobs: beside the services of Bookings, the   *)
(* system books and moves, also into the past.                              *)

SystemBooks ==
    \E r \in Resources, u \in Users, p \in Range, s \in Series : CreateBooking(r, u, p, s, "confirmed")

SystemMoves ==
    \E b \in BookingIds, p \in Range :
        /\ InTable(bookings[b])
        /\ Fits(b, p)
        /\ bookings' = [bookings EXCEPT ![b] = [@ EXCEPT !.range = p]]
        /\ UNCHANGED <<offered, now>>

TableStep == [Next]_bookingVars \/ SystemBooks \/ SystemMoves

SettledStay ==
    \A b \in BookingIds : bookings[b].status \in {"confirmed", "cancelled"}
                              => bookings'[b].status \in {"confirmed", "cancelled"}

LEMMA TableStepType ==
    ASSUME TypeOK, TableStep
    PROVE  TypeOK' /\ SettledStay
<1>1. CASE [Next]_bookingVars
  BY <1>1, TypeStep, SettledStep DEF SettledStay
<1>2. CASE SystemBooks
  <2>1. PICK r \in Resources, u \in Users, p \in Range, s \in Series :
           CreateBooking(r, u, p, s, "confirmed")
    BY <1>2 DEF SystemBooks
  <2>2. bookings' \in Table
    BY <2>1, CreateType
  <2>3. TypeOK'
    BY <2>1, <2>2 DEF TypeOK, CreateBooking, Table
  <2>4. SettledStay
    BY <2>1, CreateRows DEF StaleHolds, Lapsed, Absent, SettledStay
  <2>. QED  BY <2>3, <2>4
<1>3. CASE SystemMoves
  <2>1. PICK b \in BookingIds, p \in Range :
           /\ InTable(bookings[b])
           /\ bookings' = [bookings EXCEPT ![b] = [@ EXCEPT !.range = p]]
           /\ UNCHANGED <<offered, now>>
    BY <1>3 DEF SystemMoves
  <2>2. bookings' \in Table
    BY <2>1, MovedTable DEF Moved, TypeOK, Table
  <2>3. TypeOK'
    BY <2>1, <2>2 DEF TypeOK, Table
  <2>4. SettledStay
    BY <2>1, EditRows DEF SettledStay
  <2>. QED  BY <2>3, <2>4
<1>. QED  BY <1>1, <1>2, <1>3 DEF TableStep

LEMMA TableStepNoOverlap ==
    ASSUME TypeOK, NoOverlappingBookings, TableStep
    PROVE  NoOverlappingBookings'
BY NoOverlapStep, CreateNoOverlap, MoveNoOverlap DEF TableStep, SystemBooks, SystemMoves

LEMMA TableStepCalendar ==
    ASSUME TypeOK, TableStep
    PROVE  [Abs!CalendarNext]_Claims
<1>1. TypeOK'
  BY TableStepType
<1>2. CASE [Next]_bookingVars
  BY <1>2, CalendarStep
<1>3. CASE SystemBooks
  BY <1>1, <1>3, CreateTakes DEF SystemBooks
<1>4. CASE SystemMoves
  BY <1>1, <1>4, EditMoves DEF SystemMoves
<1>. QED  BY <1>2, <1>3, <1>4 DEF TableStep

-----------------------------------------------------------------------------
(* The inductive invariant.                                                 *)

JobType == Rolling \cup Remat \cup {Idle}

\* The variables of the jobs have their types.
JobsTypeOK ==
    /\ series \in [Series -> SeriesRow \cup {NoRow}]
    /\ previews \in [Series -> Preview \cup {NoPreview}]
    /\ confirming \in [Series -> Confirm \cup {NoConfirm}]
    /\ jobs \in [Workers -> JobType]
    /\ installed \in Releases
    /\ stops \in 0..MaxStops
    /\ met \in [Series -> SUBSET Dates]
    /\ cut \subseteq Series
    /\ lagging \subseteq Series
    /\ edited \subseteq BookingIds

\* A series whose confirm came to its end, or that was there from the start.
Finished(s) == Exists(s) /\ confirming[s] = NoConfirm /\ s \notin cut

\* What a rolling run j still has to do it has read off rows that are there; up
\* to each date that is due, and up to the date it has come to, every date was
\* met or is due itself.
RunInv(j) ==
    j.job = "rolling" =>
        /\ \A s \in Series : j.due[s] # {} \/ j.current = s => Exists(s)
        /\ \A s \in Series : Finished(s) => \A d \in j.due[s] : 1..d \subseteq met[s] \cup j.due[s]
        /\ \A s \in Series : Finished(s) /\ j.current = s => 1..j.through \subseteq met[s]

\* What a run wants to move was a booking when it was read, and is one or a
\* cancelled one.
TargetInv(j) ==
    j.job = "remat" =>
        \A e \in j.targets : bookings[e.row].status \in {"confirmed", "cancelled"}

\* A confirm at work has met every date that it has not left.
ConfirmInv(s) ==
    confirming[s] # NoConfirm => Exists(s) /\ Dates \subseteq met[s] \cup confirming[s].left

SeriesInv ==
    /\ TypeOK
    /\ JobsTypeOK
    /\ \A w \in Workers : RunInv(jobs[w]) /\ TargetInv(jobs[w])
    /\ \A s \in Series : ConfirmInv(s)
    /\ \A s \in Series : Finished(s) => 1..series[s].through \subseteq met[s]

LEMMA SeriesInvImplies ==
    ASSUME SeriesInv
    PROVE  SeriesTypeOK /\ NoDatePassedOver
<1>1. SeriesTypeOK
  BY DEF SeriesInv, JobsTypeOK, JobType, SeriesTypeOK
<1>2. NoDatePassedOver
  BY DEF SeriesInv, Finished, NoDatePassedOver
<1>. QED  BY <1>1, <1>2

\* The kinds of jobs.
LEMMA JobKinds ==
    ASSUME NEW j \in JobType
    PROVE  /\ j.job = "rolling" => j \in Rolling
           /\ j.job = "remat" => j \in Remat
           /\ j \in Rolling => j.job = "rolling"
           /\ j \in Remat => j.job = "remat"
BY DEF JobType, Rolling, Remat, Idle

LEMMA IdleIsFine ==
    /\ Idle \in JobType /\ Idle.job = "none"
    /\ RunInv(Idle) /\ TargetInv(Idle)
BY DEF JobType, Idle, RunInv, TargetInv

-----------------------------------------------------------------------------
(* Steps and the invariant.                                                 *)

\* A step beside the jobs.
LEMMA QuietStep ==
    ASSUME SeriesInv, TypeOK', SettledStay, JobsTypeOK',
           UNCHANGED <<series, confirming, jobs, met, cut>>
    PROVE  SeriesInv'
<1>1. \A w \in Workers : RunInv(jobs[w])'
  BY DEF SeriesInv, RunInv, Finished, Exists
<1>2. \A w \in Workers : TargetInv(jobs[w])'
  <2>. SUFFICES ASSUME NEW w \in Workers, jobs[w].job = "remat", NEW e \in jobs[w].targets
                PROVE  bookings'[e.row].status \in {"confirmed", "cancelled"}
    BY DEF TargetInv
  <2>1. jobs[w] \in Remat
    BY JobKinds DEF SeriesInv, JobsTypeOK
  <2>2. e.row \in BookingIds
    BY <2>1 DEF Remat, Target
  <2>3. bookings[e.row].status \in {"confirmed", "cancelled"}
    BY DEF SeriesInv, TargetInv
  <2>. QED  BY <2>2, <2>3 DEF SettledStay
<1>3. \A s \in Series : ConfirmInv(s)'
  BY DEF SeriesInv, ConfirmInv, Exists
<1>4. \A s \in Series : Finished(s)' => 1..series'[s].through \subseteq met'[s]
  BY DEF SeriesInv, Finished, Exists
<1>. QED  BY <1>1, <1>2, <1>3, <1>4 DEF SeriesInv

\* A step of one job, which may meet dates and rewrite rows of series.
LEMMA OneRunStep ==
    ASSUME SeriesInv, TypeOK', SettledStay, UNCHANGED <<previews, confirming, installed, cut, edited>>,
           stops' \in 0..MaxStops, lagging' \subseteq Series,
           series' \in [Series -> SeriesRow \cup {NoRow}],
           \A s \in Series : Exists(s)' <=> Exists(s),
           met' \in [Series -> SUBSET Dates],
           \A s \in Series : met[s] \subseteq met'[s],
           \A s \in Series : Finished(s) => 1..series'[s].through \subseteq met'[s],
           NEW w \in Workers, NEW j \in JobType, RunInv(j)', TargetInv(j),
           jobs' = [jobs EXCEPT ![w] = j]
    PROVE  SeriesInv'
<1>1. \A s \in Series : Finished(s)' <=> Finished(s)
  BY DEF Finished
<1>2. \A v \in Workers : jobs'[v] = IF v = w THEN j ELSE jobs[v]
  BY DEF SeriesInv, JobsTypeOK
<1>3. JobsTypeOK'
  BY DEF SeriesInv, JobsTypeOK
<1>4. ASSUME NEW v \in Workers
      PROVE  RunInv(jobs[v])'
  <2>1. CASE v = w
    BY <1>2, <2>1 DEF RunInv, Finished, Exists
  <2>2. CASE v # w
    <3>1. jobs'[v] = jobs[v]
      BY <1>2, <2>2
    <3>2. RunInv(jobs[v])
      BY DEF SeriesInv
    <3>3. ASSUME jobs[v].job = "rolling", NEW s \in Series
          PROVE  /\ jobs[v].due[s] # {} \/ jobs[v].current = s => Exists(s)'
                 /\ Finished(s)' => \A d \in jobs[v].due[s] : 1..d \subseteq met'[s] \cup jobs[v].due[s]
                 /\ Finished(s)' /\ jobs[v].current = s => 1..jobs[v].through \subseteq met'[s]
      <4>1. jobs[v].due[s] # {} \/ jobs[v].current = s => Exists(s)'
        BY <3>2, <3>3 DEF RunInv
      <4>2. Finished(s)' => \A d \in jobs[v].due[s] : 1..d \subseteq met'[s] \cup jobs[v].due[s]
        BY <3>2, <3>3, <1>1 DEF RunInv
      <4>3. Finished(s)' /\ jobs[v].current = s => 1..jobs[v].through \subseteq met'[s]
        BY <3>2, <3>3, <1>1 DEF RunInv
      <4>. QED  BY <4>1, <4>2, <4>3
    <3>. QED  BY <3>1, <3>3 DEF RunInv, Finished, Exists
  <2>. QED  BY <2>1, <2>2
<1>5. ASSUME NEW v \in Workers
      PROVE  TargetInv(jobs[v])'
  <2>. SUFFICES ASSUME jobs'[v].job = "remat", NEW e \in jobs'[v].targets
                PROVE  bookings'[e.row].status \in {"confirmed", "cancelled"}
    BY DEF TargetInv
  <2>1. jobs'[v] \in Remat
    BY <1>3, JobKinds DEF JobsTypeOK
  <2>2. e.row \in BookingIds
    BY <2>1 DEF Remat, Target
  <2>3. bookings[e.row].status \in {"confirmed", "cancelled"}
    BY <1>2 DEF SeriesInv, TargetInv
  <2>. QED  BY <2>2, <2>3 DEF SettledStay
<1>6. \A s \in Series : ConfirmInv(s)'
  BY DEF SeriesInv, ConfirmInv
<1>7. \A s \in Series : Finished(s)' => 1..series'[s].through \subseteq met'[s]
  BY <1>1
<1>8. \A v \in Workers : RunInv(jobs[v])' /\ TargetInv(jobs[v])'
  BY <1>4, <1>5
<1>. QED  BY <1>3, <1>6, <1>7, <1>8 DEF SeriesInv

-----------------------------------------------------------------------------
(* Every step as a step of the booking table.                               *)

LEMMA AttemptIsTableStep ==
    ASSUME SeriesInv, NEW s \in Series, Exists(s), NEW v \in Releases, NEW d \in Dates,
           AttemptOccurrence(s, v, d)
    PROVE  TableStep
<1>1. series[s] \in SeriesRow
  BY DEF SeriesInv, JobsTypeOK, Exists
<1>2. series[s].resource \in Resources /\ series[s].owner \in Users
  BY <1>1 DEF SeriesRow
<1>3. Occurrence(v, d) \in Range
  BY OccurrenceIsRange
<1>4. CASE CreateOccurrence(s, series[s].resource, series[s].owner, v, d)
  BY <1>2, <1>3, <1>4 DEF CreateOccurrence, SystemBooks, TableStep
<1>5. CASE Taken(series[s].resource, v, d)
  BY <1>5 DEF Taken, TableStep, bookingVars
<1>. QED  BY <1>4, <1>5 DEF AttemptOccurrence

LEMMA MoveIsTableStep ==
    ASSUME SeriesInv, NEW w \in Workers, NEW e \in Target, MoveOccurrence(w, e)
    PROVE  TableStep
<1>. DEFINE p == Occurrence(jobs[w].version, e.date)
<1>1. jobs[w].job = "remat" /\ e \in jobs[w].targets /\ jobs[w] \in JobType
  BY DEF MoveOccurrence, SeriesInv, JobsTypeOK
<1>2. jobs[w] \in Remat
  BY <1>1, JobKinds
<1>3. jobs[w].version \in Releases /\ e.date \in Dates /\ e.row \in BookingIds
  BY <1>2 DEF Remat, Target
<1>4. p \in Range
  BY <1>3, OccurrenceIsRange
<1>5. bookings[e.row].status \in {"confirmed", "cancelled"}
  BY <1>1 DEF SeriesInv, TargetInv
<1>6. InTable(bookings[e.row])
  BY <1>5 DEF InTable
<1>7. CASE /\ Fits(e.row, p)
           /\ bookings' = [bookings EXCEPT ![e.row] = [@ EXCEPT !.range = p]]
           /\ UNCHANGED <<offered, now>>
  BY <1>3, <1>4, <1>6, <1>7 DEF SystemMoves, TableStep
<1>8. CASE UNCHANGED bookingVars
  BY <1>8 DEF TableStep
<1>. QED  BY <1>7, <1>8 DEF MoveOccurrence, bookingVars

LEMMA SeriesStepIsTableStep ==
    ASSUME SeriesInv, [SeriesNext]_seriesVars
    PROVE  TableStep
<1>. USE TableAssumption
<1>1. UserSlots \subseteq Range
  BY SeriesAssumption DEF SeriesAssumption
<1>2. ASSUME UNCHANGED bookingVars
      PROVE  TableStep
  BY <1>2 DEF TableStep
<1>3. ASSUME NEW w \in Workers, JobStep(w) \/ JobStops(w)
      PROVE  TableStep
  <2>1. ASSUME NEW s \in Series, RollOccurrence(w, s)
        PROVE  TableStep
    <3>1. jobs[w] \in Rolling
      BY <2>1, JobKinds DEF SeriesInv, JobsTypeOK, RollOccurrence
    <3>2. PICK d \in jobs[w].due[s] : AttemptOccurrence(s, jobs[w].version, d)
      BY <2>1 DEF RollOccurrence, FirstOf
    <3>3. jobs[w].version \in Releases /\ d \in Dates
      BY <3>1, <3>2 DEF Rolling
    <3>4. Exists(s)
      BY <2>1, <3>2 DEF SeriesInv, RunInv, RollOccurrence
    <3>. QED  BY <3>2, <3>3, <3>4, AttemptIsTableStep
  <2>2. CASE StartRolling(w)
    BY <1>2, <2>2 DEF StartRolling
  <2>3. CASE AdvanceWatermark(w)
    BY <1>2, <2>3 DEF AdvanceWatermark
  <2>4. CASE RollingEnds(w) \/ StartRemat(w)
    BY <1>2, <2>4 DEF RollingEnds, StartRemat
  <2>5. ASSUME NEW s \in Series, ReadOccurrences(w, s)
        PROVE  TableStep
    BY <1>2, <2>5 DEF ReadOccurrences
  <2>6. ASSUME NEW e \in Target, MoveOccurrence(w, e)
        PROVE  TableStep
    BY <2>6, MoveIsTableStep
  <2>7. CASE StampSeries(w)
    BY <1>2, <2>7 DEF StampSeries
  <2>8. CASE RematEnds(w) \/ JobStops(w)
    BY <1>2, <2>8 DEF RematEnds, JobStops
  <2>. QED  BY <1>3, <2>1, <2>2, <2>3, <2>4, <2>5, <2>6, <2>7, <2>8 DEF JobStep
<1>4. CASE UserStep
  <2>1. ASSUME NEW s \in Series, ConfirmOccurrence(s)
        PROVE  TableStep
    <3>1. confirming[s] \in Confirm /\ Exists(s)
      BY <2>1 DEF SeriesInv, JobsTypeOK, ConfirmInv, ConfirmOccurrence
    <3>2. PICK d \in confirming[s].left : AttemptOccurrence(s, confirming[s].version, d)
      BY <2>1 DEF ConfirmOccurrence, FirstOf
    <3>3. confirming[s].version \in Releases /\ d \in Dates
      BY <3>1, <3>2 DEF Confirm
    <3>. QED  BY <3>1, <3>2, <3>3, AttemptIsTableStep
  <2>2. ASSUME NEW r \in Resources, NEW u \in Users, NEW p \in UserSlots, UserBooks(r, u, p)
        PROVE  TableStep
    <3>1. Book(r, u, p, NoSeries) /\ p \in Range
      BY <2>2, <1>1 DEF UserBooks
    <3>2. Next
      BY <3>1 DEF Next
    <3>. QED  BY <3>2 DEF TableStep
  <2>3. ASSUME NEW u \in Users, NEW b \in BookingIds, NEW p \in UserSlots, UserEdits(u, b, p)
        PROVE  TableStep
    <3>1. Edit(u, b, p) /\ p \in Range
      BY <2>3, <1>1 DEF UserEdits
    <3>2. Next
      BY <3>1 DEF Next
    <3>. QED  BY <3>2 DEF TableStep
  <2>4. ASSUME NEW b \in BookingIds, UserCancels(b)
        PROVE  TableStep
    BY <2>4 DEF UserCancels, Next, TableStep
  <2>5. ASSUME NEW s \in Series, UserCancelsSeries(s)
        PROVE  TableStep
    BY <2>5 DEF UserCancelsSeries, Next, TableStep
  <2>6. ASSUME NEW s \in Series, NEW r \in Resources, NEW u \in Users, PreviewSeries(s, r, u)
        PROVE  TableStep
    BY <1>2, <2>6 DEF PreviewSeries
  <2>7. ASSUME NEW s \in Series, NEW q \in Series, ConfirmSeries(s, q)
        PROVE  TableStep
    BY <1>2, <2>7 DEF ConfirmSeries
  <2>8. ASSUME NEW s \in Series, ConfirmAnswers(s)
        PROVE  TableStep
    BY <1>2, <2>8 DEF ConfirmAnswers
  <2>. QED  BY <1>4, <2>1, <2>2, <2>3, <2>4, <2>5, <2>6, <2>7, <2>8 DEF UserStep
<1>5. ASSUME NEW s \in Series, ConfirmStops(s)
      PROVE  TableStep
  BY <1>2, <1>5 DEF ConfirmStops
<1>6. CASE Upgrade
  BY <1>2, <1>6 DEF Upgrade
<1>7. CASE TimePasses
  BY <1>7 DEF TimePasses, Next, TableStep
<1>8. CASE UNCHANGED seriesVars
  BY <1>2, <1>8 DEF seriesVars, bookingVars
<1>. QED  BY <1>3, <1>4, <1>5, <1>6, <1>7, <1>8 DEF SeriesNext

-----------------------------------------------------------------------------
(* The steps of the rolling run.                                            *)

LEMMA RowsAreRows ==
    ASSUME NEW x \in SeriesRow
    PROVE  x # NoRow
BY DEF SeriesRow, NoRow

\* Every row of the history of dates grows or stays with an attempt.
LEMMA AttemptMeets ==
    ASSUME SeriesInv, NEW s \in Series, NEW v, NEW d \in Dates, AttemptOccurrence(s, v, d)
    PROVE  /\ met' \in [Series -> SUBSET Dates]
           /\ \A t \in Series : met[t] \subseteq met'[t]
           /\ d \in met'[s]
BY DEF SeriesInv, JobsTypeOK, AttemptOccurrence

LEMMA StartRollingInv ==
    ASSUME SeriesInv, TypeOK', SettledStay, NEW w \in Workers, StartRolling(w)
    PROVE  SeriesInv'
<1>. USE TableAssumption
<1>1. PICK j : j = [job |-> "rolling", version |-> installed, due |-> [s \in Series |-> Due(s)],
                    current |-> NoSeries, through |-> 0]
  OBVIOUS
<1>2. jobs' = [jobs EXCEPT ![w] = j]
  BY <1>1 DEF StartRolling
<1>3. \A s \in Series : j.due[s] = Due(s) /\ j.due[s] \in SUBSET Dates
  BY <1>1 DEF Due
<1>4. j \in Rolling
  <2>1. j.due \in [Series -> SUBSET Dates]
    BY <1>1 DEF Due
  <2>2. 0 \in 0..Count /\ installed \in Releases
    BY SeriesAssumption DEF SeriesAssumption, SeriesInv, JobsTypeOK
  <2>. QED  BY <1>1, <2>1, <2>2 DEF Rolling
<1>5. j \in JobType /\ TargetInv(j)
  BY <1>1, <1>4 DEF JobType, TargetInv
<1>6. ASSUME NEW s \in Series, Finished(s), NEW d \in Due(s), NEW e \in 1..d
      PROVE  e \in met[s] \cup Due(s)
  <2>1. /\ Exists(s) /\ d \in Dates /\ d > series[s].through
        /\ Occurrence(installed, d)[1] <= now + Advance
    BY <1>6 DEF Due
  <2>2. series[s].through \in Nat /\ installed \in Releases /\ now \in Nat /\ Advance \in Nat
    <3>1. series[s] \in SeriesRow
      BY <2>1 DEF SeriesInv, JobsTypeOK, Exists
    <3>2. now \in Nat /\ installed \in Releases
      BY DEF SeriesInv, JobsTypeOK, TypeOK, Times
    <3>. QED  BY <3>1, <3>2, SeriesAssumption DEF SeriesRow, SeriesAssumption
  <2>3. e \in Dates /\ e <= d
    BY <2>1, SeriesAssumption DEF Dates, SeriesAssumption
  <2>4. CASE e <= series[s].through
    <3>1. e \in 1..series[s].through
      BY <2>2, <2>3, <2>4, SeriesAssumption DEF Dates, SeriesAssumption
    <3>. QED  BY <3>1, <1>6 DEF SeriesInv
  <2>5. CASE e > series[s].through
    <3>1. /\ Occurrence(installed, e)[1] <= Occurrence(installed, d)[1]
          /\ Occurrence(installed, e)[1] \in Nat /\ Occurrence(installed, d)[1] \in Nat
      BY <2>1, <2>2, <2>3, OccurrencesInOrder
    <3>2. Occurrence(installed, e)[1] <= now + Advance
      BY <3>1, <2>1, <2>2
    <3>. QED  BY <3>2, <2>1, <2>3, <2>5 DEF Due
  <2>6. e \in Nat
    BY <2>3, SeriesAssumption DEF Dates, SeriesAssumption
  <2>. QED  BY <2>2, <2>4, <2>5, <2>6
<1>7. RunInv(j)'
  <2>1. \A s \in Series : j.due[s] # {} \/ j.current = s => Exists(s)
    BY <1>1, <1>3 DEF Due
  <2>2. \A s \in Series : Finished(s) => \A d \in j.due[s] : 1..d \subseteq met[s] \cup j.due[s]
    BY <1>3, <1>6
  <2>3. \A s \in Series : j.current # s
    BY <1>1
  <2>4. UNCHANGED <<series, confirming, met, cut>>
    BY DEF StartRolling, histories
  <2>. QED  BY <2>1, <2>2, <2>3, <2>4 DEF RunInv, Finished, Exists
<1>8. UNCHANGED <<series, previews, confirming, installed, stops, met, cut, lagging, edited>>
  BY DEF StartRolling, histories
<1>9. \A s \in Series : Finished(s) => 1..series[s].through \subseteq met[s]
  BY DEF SeriesInv
<1>10. JobsTypeOK
  BY DEF SeriesInv
<1>. QED
  BY <1>2, <1>5, <1>7, <1>8, <1>9, <1>10, OneRunStep DEF JobsTypeOK, Exists

LEMMA RollOccurrenceInv ==
    ASSUME SeriesInv, TypeOK', SettledStay, NEW w \in Workers, NEW s \in Series,
           RollOccurrence(w, s)
    PROVE  SeriesInv'
<1>. USE TableAssumption
<1>1. jobs[w] \in Rolling /\ jobs[w].job = "rolling" /\ RunInv(jobs[w])
  BY JobKinds DEF SeriesInv, JobsTypeOK, RollOccurrence
<1>2. PICK d \in FirstOf(jobs[w].due[s]) :
         /\ AttemptOccurrence(s, jobs[w].version, d)
         /\ jobs' = [jobs EXCEPT ![w].due[s] = @ \ {d}, ![w].current = s, ![w].through = d]
  BY DEF RollOccurrence
<1>3. d \in jobs[w].due[s] /\ \A e \in jobs[w].due[s] : d <= e
  BY <1>2 DEF FirstOf
<1>4. d \in Dates /\ d \in 0..Count /\ d \in Nat
  BY <1>1, <1>3, SeriesAssumption DEF Rolling, Dates, SeriesAssumption
<1>5. PICK j : j = [jobs[w] EXCEPT !.due[s] = @ \ {d}, !.current = s, !.through = d]
  OBVIOUS
<1>6. jobs' = [jobs EXCEPT ![w] = j]
  BY <1>2, <1>5 DEF SeriesInv, JobsTypeOK
<1>7. /\ j \in Rolling /\ j.current = s /\ j.through = d /\ j.job = "rolling"
      /\ j.due = [jobs[w].due EXCEPT ![s] = @ \ {d}]
  BY <1>1, <1>4, <1>5 DEF Rolling
<1>8. /\ j.due[s] = jobs[w].due[s] \ {d}
      /\ \A t \in Series : t # s => j.due[t] = jobs[w].due[t]
  BY <1>1, <1>7 DEF Rolling
<1>9. j \in JobType /\ TargetInv(j)
  BY <1>7 DEF JobType, TargetInv
<1>10. /\ met' \in [Series -> SUBSET Dates]
       /\ \A t \in Series : met[t] \subseteq met'[t]
       /\ d \in met'[s]
  BY <1>2, <1>4, AttemptMeets
<1>11. UNCHANGED <<series, previews, confirming, installed, stops, cut, lagging, edited>>
  BY DEF RollOccurrence
<1>12. RunInv(j)'
  <2>1. \A t \in Series : j.due[t] # {} \/ j.current = t => Exists(t)
    BY <1>1, <1>3, <1>7, <1>8 DEF RunInv
  <2>2. \A t \in Series : Finished(t) => \A e \in j.due[t] : 1..e \subseteq met'[t] \cup j.due[t]
    <3>1. ASSUME NEW t \in Series, Finished(t), NEW e \in j.due[t]
          PROVE  1..e \subseteq met'[t] \cup j.due[t]
      <4>1. e \in jobs[w].due[t]
        BY <3>1, <1>8
      <4>2. 1..e \subseteq met[t] \cup jobs[w].due[t]
        BY <3>1, <4>1, <1>1 DEF RunInv
      <4>. QED  BY <4>2, <1>8, <1>10
    <3>. QED  BY <3>1
  <2>3. \A t \in Series : Finished(t) /\ j.current = t => 1..j.through \subseteq met'[t]
    <3>1. ASSUME Finished(s), NEW e \in 1..d
          PROVE  e \in met'[s]
      <4>1. e \in met[s] \cup jobs[w].due[s]
        BY <3>1, <1>1, <1>3 DEF RunInv
      <4>2. e \in Nat /\ e <= d
        BY <1>4
      <4>3. e \in jobs[w].due[s] => e = d
        BY <4>2, <1>3, <1>4
      <4>. QED  BY <4>1, <4>3, <1>10
    <3>. QED  BY <3>1, <1>7
  <2>. QED  BY <2>1, <2>2, <2>3, <1>11 DEF RunInv, Finished, Exists
<1>13. \A t \in Series : Finished(t) => 1..series'[t].through \subseteq met'[t]
  BY <1>10, <1>11 DEF SeriesInv
<1>14. JobsTypeOK
  BY DEF SeriesInv
<1>. QED
  BY <1>6, <1>9, <1>10, <1>11, <1>12, <1>13, <1>14, OneRunStep DEF JobsTypeOK, Exists

LEMMA AdvanceWatermarkInv ==
    ASSUME SeriesInv, TypeOK', SettledStay, NEW w \in Workers, AdvanceWatermark(w)
    PROVE  SeriesInv'
<1>. USE TableAssumption
<1>1. jobs[w] \in Rolling /\ jobs[w].job = "rolling" /\ RunInv(jobs[w])
  BY JobKinds DEF SeriesInv, JobsTypeOK, AdvanceWatermark
<1>2. PICK s \in Series : s = jobs[w].current
  BY <1>1 DEF AdvanceWatermark, Rolling
<1>3. /\ series' = [series EXCEPT ![s].through = jobs[w].through]
      /\ jobs' = [jobs EXCEPT ![w].current = NoSeries]
      /\ UNCHANGED <<previews, confirming, installed, stops, met, cut, edited>>
      /\ lagging' \in {lagging, lagging \cup {s}}
  BY <1>2 DEF AdvanceWatermark
<1>4. Exists(s) /\ series[s] \in SeriesRow /\ jobs[w].through \in 0..Count
  BY <1>1, <1>2 DEF RunInv, Exists, SeriesInv, JobsTypeOK, Rolling
<1>5. PICK j : j = [jobs[w] EXCEPT !.current = NoSeries]
  OBVIOUS
<1>6. jobs' = [jobs EXCEPT ![w] = j]
  BY <1>3, <1>5 DEF SeriesInv, JobsTypeOK
<1>7. /\ j \in Rolling /\ j.current = NoSeries /\ j.due = jobs[w].due /\ j.job = "rolling"
  BY <1>1, <1>5 DEF Rolling
<1>8. j \in JobType /\ TargetInv(j)
  BY <1>7 DEF JobType, TargetInv
<1>9. /\ series'[s] = [series[s] EXCEPT !.through = jobs[w].through]
      /\ \A t \in Series : t # s => series'[t] = series[t]
      /\ series' \in [Series -> SeriesRow \cup {NoRow}]
      /\ series'[s] \in SeriesRow /\ series'[s].through = jobs[w].through
  BY <1>3, <1>4 DEF SeriesInv, JobsTypeOK, SeriesRow
<1>10. \A t \in Series : Exists(t)' <=> Exists(t)
  BY <1>4, <1>9, RowsAreRows DEF Exists
<1>11. RunInv(j)'
  <2>1. \A t \in Series : j.due[t] # {} \/ j.current = t => Exists(t)'
    BY <1>1, <1>7, <1>10 DEF RunInv
  <2>2. \A t \in Series : Finished(t)' => \A d \in j.due[t] : 1..d \subseteq met'[t] \cup j.due[t]
    BY <1>1, <1>3, <1>7, <1>10 DEF RunInv, Finished
  <2>3. \A t \in Series : j.current # t
    BY <1>7
  <2>. QED  BY <2>1, <2>2, <2>3 DEF RunInv
<1>12. \A t \in Series : Finished(t) => 1..series'[t].through \subseteq met'[t]
  <2>1. Finished(s) => 1..series'[s].through \subseteq met'[s]
    BY <1>1, <1>2, <1>3, <1>9 DEF RunInv
  <2>. QED  BY <2>1, <1>3, <1>9 DEF SeriesInv
<1>13. JobsTypeOK
  BY DEF SeriesInv
<1>14. lagging' \subseteq Series /\ stops' \in 0..MaxStops
  BY <1>3 DEF SeriesInv, JobsTypeOK
<1>. QED
  BY <1>3, <1>6, <1>8, <1>9, <1>10, <1>11, <1>12, <1>13, <1>14, OneRunStep DEF JobsTypeOK

-----------------------------------------------------------------------------
(* The steps of re-materialization, and the end of a run.                   *)

\* A step of one run that meets no date.
LEMMA RunOnly ==
    ASSUME SeriesInv, TypeOK', SettledStay,
           UNCHANGED <<series, previews, confirming, installed, met, cut, edited>>,
           stops' \in 0..MaxStops, lagging' \subseteq Series,
           NEW w \in Workers, NEW j \in Remat \cup {Idle}, TargetInv(j),
           jobs' = [jobs EXCEPT ![w] = j]
    PROVE  SeriesInv'
<1>1. j \in JobType /\ j.job # "rolling"
  BY JobKinds, IdleIsFine DEF JobType, Remat
<1>2. RunInv(j)'
  BY <1>1 DEF RunInv
<1>3. \A s \in Series : met[s] \subseteq met'[s]
  OBVIOUS
<1>4. \A s \in Series : Finished(s) => 1..series'[s].through \subseteq met'[s]
  BY DEF SeriesInv
<1>5. \A s \in Series : Exists(s)' <=> Exists(s)
  BY DEF Exists
<1>6. JobsTypeOK
  BY DEF SeriesInv
<1>. QED  BY <1>1, <1>2, <1>3, <1>4, <1>5, <1>6, OneRunStep DEF JobsTypeOK

LEMMA RunEndsInv ==
    ASSUME SeriesInv, TypeOK', SettledStay, NEW w \in Workers,
           RollingEnds(w) \/ RematEnds(w) \/ JobStops(w)
    PROVE  SeriesInv'
<1>1. JobsTypeOK
  BY DEF SeriesInv
<1>2. jobs' = [jobs EXCEPT ![w] = Idle]
  BY DEF RollingEnds, RematEnds, JobStops
<1>3. UNCHANGED <<series, previews, confirming, installed, met, cut, edited>>
  BY DEF RollingEnds, RematEnds, JobStops, histories
<1>4. stops' \in 0..MaxStops
  BY <1>1, SeriesAssumption DEF RollingEnds, RematEnds, JobStops, JobsTypeOK, SeriesAssumption
<1>5. lagging' \subseteq Series
  <2>1. CASE RollingEnds(w) \/ RematEnds(w)
    BY <1>1, <2>1 DEF RollingEnds, RematEnds, histories, JobsTypeOK
  <2>2. CASE JobStops(w)
    <3>1. jobs[w].job = "rolling" => jobs[w].current \in Series \cup {NoSeries}
      BY <1>1, JobKinds DEF JobsTypeOK, Rolling
    <3>2. RolledBy({w}) \subseteq Series
      BY <3>1 DEF RolledBy
    <3>. QED  BY <1>1, <2>2, <3>2 DEF JobStops, JobsTypeOK
  <2>. QED  BY <2>1, <2>2
<1>. QED  BY <1>2, <1>3, <1>4, <1>5, IdleIsFine, RunOnly

LEMMA StartRematInv ==
    ASSUME SeriesInv, TypeOK', SettledStay, NEW w \in Workers, StartRemat(w)
    PROVE  SeriesInv'
<1>1. JobsTypeOK /\ TypeOK
  BY DEF SeriesInv
<1>2. PICK j : j = [job |-> "remat", version |-> installed, asof |-> now,
                    queue |-> {s \in Series : Exists(s) /\ series[s].version # installed},
                    current |-> NoSeries, targets |-> {}, conflict |-> FALSE]
  OBVIOUS
<1>3. jobs' = [jobs EXCEPT ![w] = j]
  BY <1>2 DEF StartRemat
<1>4. j \in Remat /\ j.targets = {}
  BY <1>1, <1>2 DEF Remat, JobsTypeOK, TypeOK
<1>5. TargetInv(j)
  BY <1>4 DEF TargetInv
<1>6. /\ UNCHANGED <<series, previews, confirming, installed, met, cut, edited>>
      /\ stops' \in 0..MaxStops /\ lagging' \subseteq Series
  BY <1>1 DEF StartRemat, histories, JobsTypeOK
<1>. QED  BY <1>3, <1>4, <1>5, <1>6, RunOnly

LEMMA ReadOccurrencesInv ==
    ASSUME SeriesInv, TypeOK', SettledStay, NEW w \in Workers, NEW s \in Series,
           ReadOccurrences(w, s)
    PROVE  SeriesInv'
<1>1. JobsTypeOK /\ TypeOK
  BY DEF SeriesInv
<1>2. jobs[w] \in Remat
  BY <1>1, JobKinds DEF JobsTypeOK, ReadOccurrences
<1>. DEFINE found == Misplaced(s, jobs[w].version, jobs[w].asof)
<1>3. found \subseteq Target /\ \A e \in found : bookings[e.row].status = "confirmed"
  BY DEF Misplaced
<1>. HIDE DEF found
<1>4. PICK j : j = [jobs[w] EXCEPT !.queue = @ \ {s}, !.current = s, !.conflict = FALSE,
                                   !.targets = found]
  OBVIOUS
<1>5. jobs' = [jobs EXCEPT ![w] = j]
  BY <1>1, <1>4 DEF ReadOccurrences, JobsTypeOK, found
<1>6. j \in Remat /\ j.targets = found
  BY <1>2, <1>3, <1>4 DEF Remat
<1>7. TargetInv(j)
  BY <1>3, <1>6 DEF TargetInv
<1>8. /\ UNCHANGED <<series, previews, confirming, installed, met, cut, edited>>
      /\ stops' \in 0..MaxStops /\ lagging' \subseteq Series
  BY <1>1 DEF ReadOccurrences, histories, JobsTypeOK
<1>. QED  BY <1>5, <1>6, <1>7, <1>8, RunOnly

LEMMA MoveOccurrenceInv ==
    ASSUME SeriesInv, TypeOK', SettledStay, NEW w \in Workers, NEW e \in Target,
           MoveOccurrence(w, e)
    PROVE  SeriesInv'
<1>1. JobsTypeOK /\ TypeOK
  BY DEF SeriesInv
<1>2. jobs[w] \in Remat
  BY <1>1, JobKinds DEF JobsTypeOK, MoveOccurrence
<1>3. PICK j \in Remat : jobs' = [jobs EXCEPT ![w] = j] /\ j.targets = jobs[w].targets \ {e}
  <2>1. CASE jobs' = [jobs EXCEPT ![w].targets = @ \ {e}]
    <3>1. PICK j : j = [jobs[w] EXCEPT !.targets = @ \ {e}]
      OBVIOUS
    <3>2. jobs' = [jobs EXCEPT ![w] = j]
      BY <1>1, <2>1, <3>1 DEF JobsTypeOK
    <3>3. j \in Remat /\ j.targets = jobs[w].targets \ {e}
      BY <1>2, <3>1 DEF Remat
    <3>. QED  BY <3>2, <3>3
  <2>2. CASE jobs' = [jobs EXCEPT ![w].targets = @ \ {e}, ![w].conflict = TRUE]
    <3>1. PICK j : j = [jobs[w] EXCEPT !.targets = @ \ {e}, !.conflict = TRUE]
      OBVIOUS
    <3>2. jobs' = [jobs EXCEPT ![w] = j]
      BY <1>1, <2>2, <3>1 DEF JobsTypeOK
    <3>3. j \in Remat /\ j.targets = jobs[w].targets \ {e}
      BY <1>2, <3>1 DEF Remat
    <3>. QED  BY <3>2, <3>3
  <2>. QED  BY <2>1, <2>2 DEF MoveOccurrence
<1>4. j \in Remat /\ jobs' = [jobs EXCEPT ![w] = j] /\ j.targets \subseteq jobs[w].targets
  BY <1>3
<1>7. TargetInv(j)
  <2>1. TargetInv(jobs[w]) /\ jobs[w].job = "remat"
    BY <1>2 DEF SeriesInv, Remat
  <2>. QED  BY <1>4, <2>1 DEF TargetInv
<1>8. /\ UNCHANGED <<series, previews, confirming, installed, met, cut, edited>>
      /\ stops' \in 0..MaxStops /\ lagging' \subseteq Series
  BY <1>1 DEF MoveOccurrence, histories, JobsTypeOK
<1>. QED  BY <1>4, <1>7, <1>8, RunOnly

LEMMA StampSeriesInv ==
    ASSUME SeriesInv, TypeOK', SettledStay, NEW w \in Workers, StampSeries(w)
    PROVE  SeriesInv'
<1>. USE TableAssumption
<1>1. JobsTypeOK /\ TypeOK
  BY DEF SeriesInv
<1>2. jobs[w] \in Remat /\ jobs[w].targets = {}
  BY <1>1, JobKinds DEF JobsTypeOK, StampSeries
<1>3. PICK j : j = [jobs[w] EXCEPT !.current = NoSeries]
  OBVIOUS
<1>4. jobs' = [jobs EXCEPT ![w] = j]
  BY <1>1, <1>3 DEF StampSeries, JobsTypeOK
<1>5. j \in Remat /\ j.targets = {} /\ j.job = "remat"
  BY <1>2, <1>3 DEF Remat
<1>6. j \in JobType /\ TargetInv(j)
  BY <1>5 DEF JobType, TargetInv
<1>7. RunInv(j)'
  BY <1>5 DEF RunInv
<1>8. PICK s \in Series : s = jobs[w].current
  BY <1>2 DEF StampSeries, Remat
<1>9. /\ series' \in [Series -> SeriesRow \cup {NoRow}]
      /\ \A t \in Series : (Exists(t)' <=> Exists(t)) /\ (Finished(t) => series'[t].through = series[t].through)
  <2>1. CASE series' = series
    BY <1>1, <2>1 DEF JobsTypeOK, Exists
  <2>2. CASE series' = [series EXCEPT ![s].version = jobs[w].version]
    <3>1. jobs[w].version \in Releases
      BY <1>2 DEF Remat
    <3>2. CASE Exists(s)
      <4>1. series[s] \in SeriesRow
        BY <3>2, <1>1 DEF Exists, JobsTypeOK
      <4>2. /\ series'[s] = [series[s] EXCEPT !.version = jobs[w].version]
            /\ \A t \in Series : t # s => series'[t] = series[t]
        BY <2>2, <1>1 DEF JobsTypeOK
      <4>3. series'[s] \in SeriesRow /\ series'[s].through = series[s].through
        BY <4>1, <4>2, <3>1 DEF SeriesRow
      <4>4. series' \in [Series -> SeriesRow \cup {NoRow}]
        BY <2>2, <4>2, <4>3, <1>1 DEF JobsTypeOK
      <4>. QED  BY <4>1, <4>2, <4>3, <4>4, RowsAreRows DEF Exists
    <3>3. CASE ~Exists(s)
      <4>1. series[s] = NoRow
        BY <3>3 DEF Exists
      <4>2. [series[s] EXCEPT !.version = jobs[w].version] = NoRow
        BY <4>1 DEF NoRow
      <4>3. series' = series
        BY <2>2, <4>1, <4>2, <1>1 DEF JobsTypeOK
      <4>. QED  BY <4>3, <1>1 DEF JobsTypeOK, Exists
    <3>. QED  BY <3>2, <3>3
  <2>. QED  BY <2>1, <2>2, <1>8 DEF StampSeries
<1>10. /\ UNCHANGED <<previews, confirming, installed, stops, met, cut, lagging, edited>>
  BY DEF StampSeries, histories
<1>11. \A t \in Series : Finished(t) => 1..series'[t].through \subseteq met'[t]
  BY <1>9, <1>10 DEF SeriesInv
<1>. QED
  BY <1>1, <1>4, <1>6, <1>7, <1>9, <1>10, <1>11, OneRunStep DEF JobsTypeOK

-----------------------------------------------------------------------------
(* The steps of a confirm.                                                  *)

\* A series counts as finished after the step only if it did before, or if all
\* of its dates are met.
Finishes(t) ==
    Finished(t)' => \/ Finished(t) /\ series'[t] = series[t] /\ met[t] \subseteq met'[t]
                    \/ Dates \subseteq met'[t]

LEMMA ConfirmStep ==
    ASSUME SeriesInv, TypeOK', SettledStay, JobsTypeOK', UNCHANGED jobs,
           \A t \in Series : (Exists(t) => Exists(t)') /\ Finishes(t) /\ ConfirmInv(t)'
    PROVE  SeriesInv'
<1>. USE TableAssumption
<1>1. JobsTypeOK /\ Count \in Nat
  BY SeriesAssumption DEF SeriesInv, SeriesAssumption
<1>2. ASSUME NEW w \in Workers
      PROVE  RunInv(jobs[w])' /\ TargetInv(jobs[w])'
  <2>1. jobs'[w] = jobs[w] /\ RunInv(jobs[w]) /\ TargetInv(jobs[w])
    BY DEF SeriesInv
  <2>2. ASSUME jobs[w].job = "rolling"
        PROVE  RunInv(jobs[w])'
    <3>1. jobs[w] \in Rolling
      BY <2>2, <1>1, JobKinds DEF JobsTypeOK
    <3>2. \A t \in Series : jobs[w].due[t] # {} \/ jobs[w].current = t => Exists(t)'
      BY <2>1, <2>2 DEF RunInv
    <3>3. ASSUME NEW t \in Series, Finished(t)', NEW d \in jobs[w].due[t]
          PROVE  1..d \subseteq met'[t] \cup jobs[w].due[t]
      <4>1. d \in Dates
        BY <3>1 DEF Rolling
      <4>2. 1..d \subseteq Dates
        BY <4>1, <1>1 DEF Dates
      <4>3. Finished(t) => 1..d \subseteq met[t] \cup jobs[w].due[t]
        BY <2>1, <2>2, <3>3 DEF RunInv
      <4>. QED  BY <3>3, <4>2, <4>3 DEF Finishes
    <3>4. ASSUME NEW t \in Series, Finished(t)', jobs[w].current = t
          PROVE  1..jobs[w].through \subseteq met'[t]
      <4>1. jobs[w].through \in 0..Count
        BY <3>1 DEF Rolling
      <4>2. 1..jobs[w].through \subseteq Dates
        BY <4>1, <1>1 DEF Dates
      <4>3. Finished(t) => 1..jobs[w].through \subseteq met[t]
        BY <2>1, <2>2, <3>4 DEF RunInv
      <4>. QED  BY <3>4, <4>2, <4>3 DEF Finishes
    <3>5. /\ \A t \in Series : Finished(t)' =>
                 \A d \in jobs[w].due[t] : 1..d \subseteq met'[t] \cup jobs[w].due[t]
          /\ \A t \in Series : Finished(t)' /\ jobs[w].current = t
                                   => 1..jobs[w].through \subseteq met'[t]
      BY <3>3, <3>4
    <3>. QED  BY <2>1, <3>2, <3>5 DEF RunInv
  <2>3. RunInv(jobs[w])'
    BY <2>1, <2>2 DEF RunInv
  <2>4. ASSUME jobs[w].job = "remat", NEW e \in jobs[w].targets
        PROVE  bookings'[e.row].status \in {"confirmed", "cancelled"}
    <3>1. jobs[w] \in Remat
      BY <2>4, <1>1, JobKinds DEF JobsTypeOK
    <3>2. e.row \in BookingIds
      BY <2>4, <3>1 DEF Remat, Target
    <3>. QED  BY <2>1, <2>4, <3>2 DEF TargetInv, SettledStay
  <2>. QED  BY <2>1, <2>3, <2>4 DEF TargetInv
<1>3. ASSUME NEW t \in Series, Finished(t)'
      PROVE  1..series'[t].through \subseteq met'[t]
  <2>1. CASE Finished(t) /\ series'[t] = series[t] /\ met[t] \subseteq met'[t]
    BY <2>1 DEF SeriesInv
  <2>2. CASE Dates \subseteq met'[t]
    <3>1. series'[t] \in SeriesRow
      BY <1>3 DEF Finished, Exists, JobsTypeOK
    <3>2. series'[t].through \in 0..Count
      BY <3>1 DEF SeriesRow
    <3>3. 1..series'[t].through \subseteq Dates
      BY <3>2, <1>1 DEF Dates
    <3>. QED  BY <2>2, <3>3
  <2>. QED  BY <1>3, <2>1, <2>2 DEF Finishes
<1>. QED  BY <1>2, <1>3 DEF SeriesInv

LEMMA ConfirmsAreConfirms ==
    ASSUME NEW x \in Confirm
    PROVE  x # NoConfirm
BY DEF Confirm, NoConfirm

LEMMA PreviewsArePreviews ==
    ASSUME NEW x \in Preview
    PROVE  x # NoPreview
BY DEF Preview, NoPreview

LEMMA ConfirmSeriesInv ==
    ASSUME SeriesInv, TypeOK', SettledStay, NEW s \in Series, NEW q \in Series,
           ConfirmSeries(s, q)
    PROVE  SeriesInv'
<1>. USE TableAssumption
<1>1. JobsTypeOK
  BY DEF SeriesInv
<1>2. previews[q] \in Preview /\ Count \in 0..Count /\ installed \in Releases
  BY <1>1, SeriesAssumption DEF ConfirmSeries, JobsTypeOK, SeriesAssumption
<1>3. PICK row : row = [resource |-> previews[q].resource, owner |-> previews[q].user,
                        through |-> Count, version |-> installed]
  OBVIOUS
<1>4. PICK c : c = [version |-> installed, left |-> Dates \ previews[q].conflicts]
  OBVIOUS
<1>5. previews[q].conflicts \subseteq Dates
  BY <1>2 DEF Preview
<1>6. row \in SeriesRow /\ c \in Confirm
  BY <1>2, <1>3, <1>4 DEF Preview, SeriesRow, Confirm
<1>7. /\ series' = [series EXCEPT ![s] = row]
      /\ confirming' = [confirming EXCEPT ![s] = c]
      /\ met' = [met EXCEPT ![s] = previews[q].conflicts]
      /\ UNCHANGED <<previews, jobs, installed, stops, cut, lagging, edited>>
      /\ ~Exists(s)
  BY <1>3, <1>4 DEF ConfirmSeries
<1>8. JobsTypeOK'
  BY <1>1, <1>5, <1>6, <1>7 DEF JobsTypeOK
<1>9. ASSUME NEW t \in Series
      PROVE  (Exists(t) => Exists(t)') /\ Finishes(t) /\ ConfirmInv(t)'
  <2>1. CASE t = s
    <3>1. series'[t] = row /\ confirming'[t] = c /\ met'[t] = previews[q].conflicts
      BY <1>1, <1>7, <2>1 DEF JobsTypeOK
    <3>2. Exists(t)' /\ ~Finished(t)'
      BY <3>1, <1>6, RowsAreRows, ConfirmsAreConfirms DEF Exists, Finished
    <3>3. Dates \subseteq met'[t] \cup confirming'[t].left
      BY <3>1, <1>4
    <3>. QED  BY <3>2, <3>3 DEF Finishes, ConfirmInv
  <2>2. CASE t # s
    <3>1. series'[t] = series[t] /\ confirming'[t] = confirming[t] /\ met'[t] = met[t]
      BY <1>1, <1>7, <2>2 DEF JobsTypeOK
    <3>. QED  BY <3>1, <1>7 DEF Exists, Finished, Finishes, ConfirmInv, SeriesInv
  <2>. QED  BY <2>1, <2>2
<1>10. UNCHANGED jobs
  BY <1>7
<1>. QED  BY <1>8, <1>9, <1>10, ConfirmStep

LEMMA ConfirmOccurrenceInv ==
    ASSUME SeriesInv, TypeOK', SettledStay, NEW s \in Series, ConfirmOccurrence(s)
    PROVE  SeriesInv'
<1>1. JobsTypeOK
  BY DEF SeriesInv
<1>2. confirming[s] \in Confirm /\ ConfirmInv(s) /\ Exists(s)
  BY <1>1 DEF ConfirmOccurrence, JobsTypeOK, SeriesInv, ConfirmInv
<1>3. PICK d \in confirming[s].left :
         /\ AttemptOccurrence(s, confirming[s].version, d)
         /\ confirming' = [confirming EXCEPT ![s].left = @ \ {d}]
  BY DEF ConfirmOccurrence, FirstOf
<1>4. PICK c : c = [confirming[s] EXCEPT !.left = @ \ {d}]
  OBVIOUS
<1>5. confirming' = [confirming EXCEPT ![s] = c]
  BY <1>1, <1>3, <1>4 DEF JobsTypeOK
<1>6. c \in Confirm /\ c.left = confirming[s].left \ {d} /\ d \in Dates
  BY <1>2, <1>4 DEF Confirm
<1>7. /\ met' \in [Series -> SUBSET Dates]
      /\ \A t \in Series : met[t] \subseteq met'[t]
      /\ d \in met'[s]
  BY <1>3, <1>6, AttemptMeets
<1>8. UNCHANGED <<series, previews, jobs, installed, stops, cut, lagging, edited>>
  BY DEF ConfirmOccurrence
<1>9. JobsTypeOK'
  BY <1>1, <1>5, <1>6, <1>7, <1>8 DEF JobsTypeOK
<1>10. ASSUME NEW t \in Series
       PROVE  (Exists(t) => Exists(t)') /\ Finishes(t) /\ ConfirmInv(t)'
  <2>1. CASE t = s
    <3>1. confirming'[t] = c /\ series'[t] = series[t]
      BY <1>1, <1>5, <1>8, <2>1 DEF JobsTypeOK
    <3>2. ~Finished(t)' /\ Exists(t)'
      BY <3>1, <1>2, <1>6, <2>1, ConfirmsAreConfirms DEF Finished, Exists
    <3>3. Dates \subseteq met'[t] \cup confirming'[t].left
      BY <3>1, <1>2, <1>6, <1>7, <2>1, ConfirmsAreConfirms DEF ConfirmInv
    <3>. QED  BY <3>2, <3>3 DEF Finishes, ConfirmInv
  <2>2. CASE t # s
    <3>1. confirming'[t] = confirming[t] /\ series'[t] = series[t]
      BY <1>1, <1>5, <1>8, <2>2 DEF JobsTypeOK
    <3>. QED  BY <3>1, <1>7, <1>8 DEF Exists, Finished, Finishes, ConfirmInv, SeriesInv
  <2>. QED  BY <2>1, <2>2
<1>11. UNCHANGED jobs
  BY <1>8
<1>. QED  BY <1>9, <1>10, <1>11, ConfirmStep

LEMMA ConfirmEndsInv ==
    ASSUME SeriesInv, TypeOK', SettledStay, NEW s \in Series,
           ConfirmAnswers(s) \/ ConfirmStops(s)
    PROVE  SeriesInv'
<1>1. JobsTypeOK
  BY DEF SeriesInv
<1>2. /\ confirming' = [confirming EXCEPT ![s] = NoConfirm]
      /\ UNCHANGED <<series, previews, jobs, installed, met, lagging, edited>>
  BY DEF ConfirmAnswers, ConfirmStops, histories
<1>3. cut \subseteq cut' /\ cut' \subseteq Series /\ stops' \in 0..MaxStops
  BY <1>1, SeriesAssumption
     DEF ConfirmAnswers, ConfirmStops, histories, JobsTypeOK, SeriesAssumption
<1>4. JobsTypeOK'
  BY <1>1, <1>2, <1>3 DEF JobsTypeOK
<1>5. s \notin cut' => confirming[s] # NoConfirm /\ confirming[s].left = {}
  BY DEF ConfirmAnswers, ConfirmStops
<1>6. ASSUME NEW t \in Series
      PROVE  (Exists(t) => Exists(t)') /\ Finishes(t) /\ ConfirmInv(t)'
  <2>1. CASE t = s
    <3>1. confirming'[t] = NoConfirm /\ series'[t] = series[t]
      BY <1>1, <1>2, <2>1 DEF JobsTypeOK
    <3>2. s \notin cut' => Dates \subseteq met'[t]
      BY <1>2, <1>5, <2>1 DEF SeriesInv, ConfirmInv
    <3>. QED  BY <3>1, <3>2, <2>1 DEF Finishes, Finished, ConfirmInv, Exists
  <2>2. CASE t # s
    <3>1. confirming'[t] = confirming[t] /\ series'[t] = series[t] /\ met'[t] = met[t]
      BY <1>1, <1>2, <2>2 DEF JobsTypeOK
    <3>. QED  BY <3>1, <1>2, <1>3 DEF Exists, Finished, Finishes, ConfirmInv, SeriesInv
  <2>. QED  BY <2>1, <2>2
<1>7. UNCHANGED jobs
  BY <1>2
<1>. QED  BY <1>4, <1>6, <1>7, ConfirmStep

\* A deployment ends every run and every confirm.
LEMMA UpgradeInv ==
    ASSUME SeriesInv, TypeOK', SettledStay, Upgrade
    PROVE  SeriesInv'
<1>1. JobsTypeOK
  BY DEF SeriesInv
<1>2. /\ jobs' = [w \in Workers |-> Idle]
      /\ confirming' = [s \in Series |-> NoConfirm]
      /\ cut' = cut \cup {s \in Series : confirming[s] # NoConfirm}
      /\ UNCHANGED <<series, previews, stops, met, edited>>
      /\ installed' \in Releases
  BY DEF Upgrade
<1>3. lagging' \subseteq Series
  <2>1. \A w \in Workers : jobs[w].job = "rolling" => jobs[w].current \in Series \cup {NoSeries}
    BY <1>1, JobKinds DEF JobsTypeOK, Rolling
  <2>2. RolledBy(Workers) \subseteq Series
    BY <2>1 DEF RolledBy
  <2>. QED  BY <1>1, <2>2 DEF Upgrade, JobsTypeOK
<1>4. JobsTypeOK'
  BY <1>1, <1>2, <1>3, IdleIsFine DEF JobsTypeOK
<1>5. \A w \in Workers : RunInv(jobs[w])' /\ TargetInv(jobs[w])'
  BY <1>2, IdleIsFine DEF RunInv, TargetInv
<1>6. \A s \in Series : ConfirmInv(s)'
  BY <1>2 DEF ConfirmInv
<1>7. \A s \in Series : Finished(s)' => Finished(s)
  BY <1>2 DEF Finished, Exists
<1>8. \A s \in Series : Finished(s)' => 1..series'[s].through \subseteq met'[s]
  BY <1>2, <1>7 DEF SeriesInv
<1>. QED  BY <1>4, <1>5, <1>6, <1>8 DEF SeriesInv

-----------------------------------------------------------------------------
(* The users' steps, and the whole of it.                                   *)

LEMMA BesideTheJobs ==
    ASSUME SeriesInv, TypeOK', SettledStay,
           UNCHANGED <<series, confirming, jobs, installed, stops, met, cut, lagging>>,
           previews' \in [Series -> Preview \cup {NoPreview}],
           edited' \subseteq BookingIds
    PROVE  SeriesInv'
<1>1. JobsTypeOK'
  BY DEF SeriesInv, JobsTypeOK
<1>. QED  BY <1>1, QuietStep

LEMMA UserStepInv ==
    ASSUME SeriesInv, TypeOK', SettledStay, UserStep
    PROVE  SeriesInv'
<1>1. JobsTypeOK /\ TypeOK
  BY DEF SeriesInv
<1>2. ASSUME NEW s \in Series, NEW r \in Resources, NEW u \in Users, PreviewSeries(s, r, u)
      PROVE  SeriesInv'
  <2>. DEFINE taken == {d \in Dates : ~Excludes(bookings, BookingIds, r, Occurrence(installed, d))}
              token == [resource |-> r, user |-> u, at |-> now, conflicts |-> taken]
  <2>1. taken \subseteq Dates
    OBVIOUS
  <2>. HIDE DEF taken
  <2>2. token \in Preview
    BY <1>1, <2>1 DEF Preview, TypeOK
  <2>3. previews' = [previews EXCEPT ![s] = token]
    BY <1>2 DEF PreviewSeries, taken
  <2>. HIDE DEF token
  <2>4. previews' \in [Series -> Preview \cup {NoPreview}]
    BY <1>1, <2>2, <2>3 DEF JobsTypeOK
  <2>5. edited' \subseteq BookingIds
    BY <1>1, <1>2 DEF PreviewSeries, histories, JobsTypeOK
  <2>6. UNCHANGED <<series, confirming, jobs, installed, stops, met, cut, lagging>>
    BY <1>2 DEF PreviewSeries, histories
  <2>. QED  BY <2>4, <2>5, <2>6, BesideTheJobs
<1>3. ASSUME NEW s \in Series, NEW q \in Series, ConfirmSeries(s, q)
      PROVE  SeriesInv'
  BY <1>3, ConfirmSeriesInv
<1>4. ASSUME NEW s \in Series, ConfirmOccurrence(s)
      PROVE  SeriesInv'
  BY <1>4, ConfirmOccurrenceInv
<1>5. ASSUME NEW s \in Series, ConfirmAnswers(s)
      PROVE  SeriesInv'
  BY <1>5, ConfirmEndsInv
<1>6. ASSUME UNCHANGED <<series, previews, confirming, jobs, installed, stops, histories>>
      PROVE  SeriesInv'
  BY <1>1, <1>6, BesideTheJobs DEF histories, JobsTypeOK
<1>7. ASSUME NEW u \in Users, NEW b \in BookingIds, NEW p \in UserSlots, UserEdits(u, b, p)
      PROVE  SeriesInv'
  <2>1. edited' \subseteq BookingIds
    BY <1>1, <1>7 DEF UserEdits, JobsTypeOK
  <2>2. UNCHANGED <<series, previews, confirming, jobs, installed, stops, met, cut, lagging>>
    BY <1>7 DEF UserEdits
  <2>. QED  BY <1>1, <2>1, <2>2, BesideTheJobs DEF JobsTypeOK
<1>8. ASSUME \/ \E r \in Resources, u \in Users, p \in UserSlots : UserBooks(r, u, p)
             \/ \E b \in BookingIds : UserCancels(b)
             \/ \E s \in Series : UserCancelsSeries(s)
      PROVE  SeriesInv'
  BY <1>6, <1>8 DEF UserBooks, UserCancels, UserCancelsSeries
<1>. QED  BY <1>2, <1>3, <1>4, <1>5, <1>7, <1>8 DEF UserStep

LEMMA SeriesStep ==
    ASSUME SeriesInv, [SeriesNext]_seriesVars
    PROVE  SeriesInv'
<1>1. TypeOK' /\ SettledStay
  BY SeriesStepIsTableStep, TableStepType DEF SeriesInv
<1>2. ASSUME NEW w \in Workers, JobStep(w) \/ JobStops(w)
      PROVE  SeriesInv'
  <2>1. CASE StartRolling(w)
    BY <1>1, <2>1, StartRollingInv
  <2>2. ASSUME NEW s \in Series, RollOccurrence(w, s)
        PROVE  SeriesInv'
    BY <1>1, <2>2, RollOccurrenceInv
  <2>3. CASE AdvanceWatermark(w)
    BY <1>1, <2>3, AdvanceWatermarkInv
  <2>4. CASE RollingEnds(w) \/ RematEnds(w) \/ JobStops(w)
    BY <1>1, <2>4, RunEndsInv
  <2>5. CASE StartRemat(w)
    BY <1>1, <2>5, StartRematInv
  <2>6. ASSUME NEW s \in Series, ReadOccurrences(w, s)
        PROVE  SeriesInv'
    BY <1>1, <2>6, ReadOccurrencesInv
  <2>7. ASSUME NEW e \in Target, MoveOccurrence(w, e)
        PROVE  SeriesInv'
    BY <1>1, <2>7, MoveOccurrenceInv
  <2>8. CASE StampSeries(w)
    BY <1>1, <2>8, StampSeriesInv
  <2>. QED  BY <1>2, <2>1, <2>2, <2>3, <2>4, <2>5, <2>6, <2>7, <2>8 DEF JobStep
<1>3. CASE UserStep
  BY <1>1, <1>3, UserStepInv
<1>4. ASSUME NEW s \in Series, ConfirmStops(s)
      PROVE  SeriesInv'
  BY <1>1, <1>4, ConfirmEndsInv
<1>5. CASE Upgrade
  BY <1>1, <1>5, UpgradeInv
<1>6. CASE TimePasses \/ UNCHANGED seriesVars
  <2>1. UNCHANGED <<series, previews, confirming, jobs, installed, stops, histories>>
    BY <1>6 DEF TimePasses, seriesVars, histories
  <2>. QED  BY <1>1, <2>1, BesideTheJobs DEF SeriesInv, JobsTypeOK, histories
<1>. QED  BY <1>2, <1>3, <1>4, <1>5, <1>6 DEF SeriesNext

LEMMA SeriesStart == SeriesInit => SeriesInv
<1>. SUFFICES ASSUME SeriesInit PROVE SeriesInv
  OBVIOUS
<1>. USE SeriesAssumption, TableAssumption
<1>1. TypeOK
  BY DEF SeriesInit, Init, TypeOK, BookingIds, Times, TableAssumption
<1>2. 0 \in Releases /\ Count \in Nat /\ 0 \in 0..MaxStops
  BY DEF SeriesAssumption, Releases
<1>3. series \in [Series -> SeriesRow \cup {NoRow}]
  BY <1>2 DEF SeriesInit, SeriesRow
<1>4. ASSUME NEW s \in Series, Exists(s)
      PROVE  1..series[s].through \subseteq Dates /\ met[s] = 1..series[s].through
  <2>1. series[s].through \in 0..Count
    BY <1>3, <1>4 DEF Exists, SeriesRow
  <2>2. 1..series[s].through \subseteq Dates
    BY <2>1, <1>2 DEF Dates
  <2>. QED  BY <2>2, <1>4 DEF SeriesInit, Exists
<1>5. met \in [Series -> SUBSET Dates]
  <2>1. \A s \in Series : met[s] = IF series[s] = NoRow THEN {} ELSE 1..series[s].through
    BY DEF SeriesInit
  <2>2. \A s \in Series : met[s] \subseteq Dates
    BY <1>4, <2>1 DEF Exists
  <2>. QED  BY <2>2 DEF SeriesInit
<1>6. JobsTypeOK
  BY <1>2, <1>3, <1>5, IdleIsFine DEF SeriesInit, JobsTypeOK
<1>7. \A w \in Workers : RunInv(jobs[w]) /\ TargetInv(jobs[w])
  BY IdleIsFine DEF SeriesInit
<1>8. \A s \in Series : ConfirmInv(s)
  BY DEF SeriesInit, ConfirmInv
<1>9. \A s \in Series : Finished(s) => 1..series[s].through \subseteq met[s]
  BY <1>4 DEF Finished
<1>. QED  BY <1>1, <1>6, <1>7, <1>8, <1>9 DEF SeriesInv

LEMMA SeriesInvariance == SeriesSpec => []SeriesInv
BY SeriesStart, SeriesStep, PTL DEF SeriesSpec

-----------------------------------------------------------------------------
(* The places of occurrences.  The rules of two releases differ by less     *)
(* than half a week, so a place tells the date.                             *)

LEMMA DatesApart ==
    ASSUME NEW d \in Dates, NEW e \in Dates, d < e
    PROVE  /\ Week * (d - 1) \in Nat /\ Week * (e - 1) \in Nat
           /\ Week * (d - 1) + Week <= Week * (e - 1)
<1>1. Week \in Nat /\ d - 1 \in Nat /\ d \in Nat /\ e - 1 \in Nat /\ d <= e - 1
  BY SeriesAssumption DEF SeriesAssumption, Dates
<1>2. Week * d = Week * (d - 1) + Week
  BY <1>1
<1>3. Week * d <= Week * (e - 1) /\ Week * (d - 1) \in Nat /\ Week * (e - 1) \in Nat
  BY <1>1, WeeksGrow
<1>. QED  BY <1>2, <1>3

\* Two places are near to each other when they are of one date, and only then.
LEMMA PlaceTellsDate ==
    ASSUME NEW v \in Releases, NEW w \in Releases, NEW d \in Dates, NEW e \in Dates
    PROVE  Distance(Occurrence(v, d)[1], Occurrence(w, e)[1]) <= Nearby <=> d = e
<1>. USE SeriesAssumption
<1>. DEFINE a == Week * (d - 1)
            b == Week * (e - 1)
            x == Rule[v][d]
            y == Rule[w][e]
<1>1. /\ x \in Nat /\ x <= Nearby /\ y \in Nat /\ y <= Nearby
      /\ Nearby \in Nat /\ Week \in Nat /\ 3 * Nearby < Week
  BY DEF SeriesAssumption
<1>2. Occurrence(v, d)[1] = a + x /\ Occurrence(w, e)[1] = b + y
  BY DEF Occurrence
<1>3. a \in Nat /\ b \in Nat
  BY <1>1, WeeksGrow DEF Dates, SeriesAssumption
<1>4. d < e => a + Week <= b
  BY DatesApart
<1>5. e < d => b + Week <= a
  BY DatesApart
<1>6. d = e => a = b
  OBVIOUS
<1>7. d \in Nat /\ e \in Nat
  BY DEF Dates, SeriesAssumption
<1>. HIDE DEF a, b, x, y
<1>8. CASE d = e
  BY <1>1, <1>2, <1>3, <1>6, <1>8 DEF Distance
<1>9. CASE d # e
  BY <1>1, <1>2, <1>3, <1>4, <1>5, <1>7, <1>9 DEF Distance
<1>. QED  BY <1>8, <1>9

\* A place overlaps itself.
LEMMA PlaceIsTaken ==
    ASSUME NEW v \in Releases, NEW d \in Dates
    PROVE  Overlaps(Occurrence(v, d), Occurrence(v, d))
BY OccurrenceIsRange DEF Range, Overlaps

-----------------------------------------------------------------------------
(* The rows of the series.                                                  *)

\* Row b is a confirmed occurrence of s that its owner has not moved.
Lives(b, s) ==
    /\ bookings[b].status = "confirmed"
    /\ bookings[b].series = s
    /\ b \notin edited

\* Row b is at date d, by the rules of some release; by those installed.
At(b, d) == \E v \in Releases : bookings[b].range = Occurrence(v, d)
Placed(b) == \E d \in Dates : bookings[b].range = Occurrence(installed, d)

\* What a step does to a row that is one of s after it: nothing; move it to a
\* target of a run; insert it, where no row of the resource is.
Kept(b, s) ==
    /\ Lives(b, s)
    /\ bookings'[b].range = bookings[b].range
    /\ bookings'[b].resource = bookings[b].resource

Shifted(b, s) ==
    /\ Lives(b, s)
    /\ bookings'[b].resource = bookings[b].resource
    /\ \E w \in Workers : \E e \in Target :
          /\ jobs[w].job = "remat" /\ e \in jobs[w].targets /\ e.row = b
          /\ bookings'[b].range = Occurrence(installed, e.date)

\* The rolling run or the confirm that makes the occurrence of date d.
MadeBy(s, d) ==
    \/ confirming[s] # NoConfirm
    \/ \E w \in Workers : /\ jobs[w].job = "rolling" /\ d \in jobs[w].due[s]
                          /\ jobs'[w].job = "rolling"
                          /\ jobs'[w].current = s /\ jobs'[w].through = d

Arrives(b, s, d) ==
    /\ bookings[b] = Absent
    /\ Exists(s)
    /\ bookings'[b].range = Occurrence(installed, d)
    /\ bookings'[b].resource = series[s].resource
    /\ \A c \in BookingIds, t \in Series :
          Lives(c, t) /\ bookings[c].resource = series[s].resource
              => ~Overlaps(bookings[c].range, Occurrence(installed, d))
    /\ \A c \in BookingIds \ {b}, t \in Series : Lives(c, t)' => Kept(c, t)
    /\ MadeBy(s, d)

RowsStep ==
    \A b \in BookingIds, s \in Series :
        Lives(b, s)' => \/ Kept(b, s)
                        \/ Shifted(b, s)
                        \/ \E d \in Dates : Arrives(b, s, d)

\* The runs and confirms at work follow the installed release.
ReleaseInv ==
    /\ \A w \in Workers : jobs[w].job # "none" => jobs[w].version = installed
    /\ \A s \in Series : confirming[s] # NoConfirm => confirming[s].version = installed

LEMMA RowsStay ==
    ASSUME bookings' = bookings, edited' = edited
    PROVE  RowsStep
BY DEF RowsStep, Lives, Kept

LEMMA CreateIsRowsStep ==
    ASSUME TypeOK, NEW r \in Resources, NEW u \in Users, NEW p \in Range,
           CreateBooking(r, u, p, NoSeries, "confirmed"), edited' = edited
    PROVE  RowsStep
<1>. USE TableAssumption DEF TableAssumption
<1>1. PICK b \in BookingIds :
         /\ bookings[b] = Absent
         /\ bookings'[b] = NewRow(r, u, p, NoSeries, "confirmed", now)
         /\ \A c \in BookingIds \ {b} :
               IF c \in StaleHolds(bookings, r, p, now)
               THEN bookings'[c] = Deleted ELSE bookings'[c] = bookings[c]
  BY CreateRows
<1>2. bookings'[b].series = NoSeries
  BY <1>1 DEF NewRow
<1>3. ASSUME NEW c \in BookingIds, NEW s \in Series, Lives(c, s)'
      PROVE  Kept(c, s)
  <2>1. c # b
    BY <1>2, <1>3 DEF Lives
  <2>2. bookings'[c] = bookings[c]
    BY <1>1, <1>3, <2>1 DEF Lives, Deleted
  <2>. QED  BY <1>3, <2>2 DEF Lives, Kept
<1>. QED  BY <1>3 DEF RowsStep

LEMMA AttemptIsRowsStep ==
    ASSUME SeriesInv, NEW s \in Series, Exists(s), NEW d \in Dates, MadeBy(s, d),
           AttemptOccurrence(s, installed, d), edited' = edited
    PROVE  RowsStep
<1>1. series[s] \in SeriesRow /\ installed \in Releases /\ TypeOK
  BY DEF SeriesInv, JobsTypeOK, Exists
<1>2. PICK r \in Resources, u \in Users : r = series[s].resource /\ u = series[s].owner
  BY <1>1 DEF SeriesRow
<1>3. PICK p \in Range : p = Occurrence(installed, d)
  BY <1>1, OccurrenceIsRange
<1>4. CASE CreateBooking(r, u, p, s, "confirmed")
  <2>1. PICK b \in BookingIds :
           /\ bookings[b] = Absent
           /\ bookings'[b] = NewRow(r, u, p, s, "confirmed", now)
           /\ \A c \in BookingIds \ {b} :
                 IF c \in StaleHolds(bookings, r, p, now)
                 THEN bookings'[c] = Deleted ELSE bookings'[c] = bookings[c]
    BY <1>1, <1>4, CreateRows
  <2>2. /\ bookings'[b].series = s /\ bookings'[b].range = p
        /\ bookings'[b].resource = r
    BY <2>1 DEF NewRow
  <2>3. ASSUME NEW c \in BookingIds \ {b}, NEW t \in Series, Lives(c, t)'
        PROVE  Kept(c, t)
    <3>1. bookings'[c] = bookings[c]
      BY <2>1, <2>3 DEF Lives, Deleted
    <3>. QED  BY <2>3, <3>1 DEF Lives, Kept
  <2>4. ASSUME NEW c \in BookingIds, NEW t \in Series, Lives(c, t), bookings[c].resource = r
        PROVE  ~Overlaps(bookings[c].range, p)
    <3>1. AfterCleanup(bookings, r, p, now)[c] = bookings[c]
      BY <2>4 DEF AfterCleanup, StaleHolds, Lapsed, Lives
    <3>2. Excludes(AfterCleanup(bookings, r, p, now), BookingIds, r, p)
      BY <1>4 DEF CreateBooking
    <3>. QED  BY <2>4, <3>1, <3>2 DEF Excludes, InExclusionDomain, Lives
  <2>5. Arrives(b, s, d)
    BY <1>2, <1>3, <2>1, <2>2, <2>3, <2>4 DEF Arrives
  <2>6. \A t \in Series : Lives(b, t)' => t = s
    BY <2>2 DEF Lives
  <2>. QED  BY <2>3, <2>5, <2>6 DEF RowsStep
<1>5. CASE UNCHANGED bookingVars
  BY <1>5, RowsStay DEF bookingVars
<1>. QED  BY <1>2, <1>3, <1>4, <1>5 DEF AttemptOccurrence, CreateOccurrence, Taken

LEMMA MoveIsRowsStep ==
    ASSUME SeriesInv, ReleaseInv, NEW w \in Workers, NEW e \in Target, MoveOccurrence(w, e)
    PROVE  RowsStep
<1>1. jobs[w].job = "remat" /\ e \in jobs[w].targets /\ edited' = edited
  BY DEF MoveOccurrence, histories
<1>2. jobs[w].version = installed
  BY <1>1 DEF ReleaseInv
<1>3. PICK p : p = Occurrence(installed, e.date)
  OBVIOUS
<1>4. e.row \in BookingIds /\ bookings[e.row].status \in {"confirmed", "cancelled"}
  BY <1>1 DEF Target, SeriesInv, TargetInv
<1>5. CASE bookings' = [bookings EXCEPT ![e.row] = [@ EXCEPT !.range = p]]
  <2>1. bookings[e.row] \in Row
    BY <1>4, InTableIsRow DEF SeriesInv, TypeOK
  <2>2. /\ bookings'[e.row] = [bookings[e.row] EXCEPT !.range = p]
        /\ \A c \in BookingIds : c # e.row => bookings'[c] = bookings[c]
    BY <1>4, <1>5 DEF SeriesInv, TypeOK
  <2>3. /\ bookings'[e.row].status = bookings[e.row].status
        /\ bookings'[e.row].series = bookings[e.row].series
        /\ bookings'[e.row].resource = bookings[e.row].resource
        /\ bookings'[e.row].range = p
    BY <2>1, <2>2 DEF Row, Held, Settled
  <2>4. ASSUME NEW s \in Series, Lives(e.row, s)'
        PROVE  Shifted(e.row, s)
    BY <1>1, <1>3, <2>3, <2>4 DEF Lives, Shifted
  <2>5. ASSUME NEW c \in BookingIds, c # e.row, NEW s \in Series, Lives(c, s)'
        PROVE  Kept(c, s)
    BY <1>1, <2>2, <2>5 DEF Lives, Kept
  <2>. QED  BY <2>4, <2>5 DEF RowsStep
<1>6. CASE bookings' = bookings
  BY <1>1, <1>6, RowsStay
<1>. QED  BY <1>2, <1>3, <1>5, <1>6 DEF MoveOccurrence

LEMMA CancelIsRowsStep ==
    ASSUME TypeOK, edited' = edited, NEW B \in SUBSET BookingIds,
           \A b \in B : bookings[b].status = "confirmed",
           bookings' = AfterCancel(bookings, B)
    PROVE  RowsStep
<1>1. \A c \in BookingIds : IF c \in B THEN bookings'[c].status = "cancelled"
                            ELSE bookings'[c] = bookings[c]
  BY CancelRows
<1>2. ASSUME NEW c \in BookingIds, NEW s \in Series, Lives(c, s)'
      PROVE  Kept(c, s)
  <2>1. bookings'[c] = bookings[c]
    BY <1>1, <1>2 DEF Lives
  <2>. QED  BY <1>2, <2>1 DEF Lives, Kept
<1>. QED  BY <1>2 DEF RowsStep

LEMMA EditIsRowsStep ==
    ASSUME TypeOK, NEW u \in Users, NEW b \in BookingIds, NEW p, UserEdits(u, b, p)
    PROVE  RowsStep
<1>1. /\ bookings' = [bookings EXCEPT ![b] = [@ EXCEPT !.range = p]]
      /\ edited' = edited \cup {b}
  BY DEF UserEdits, Edit
<1>2. \A c \in BookingIds : c # b => bookings'[c] = bookings[c]
  BY <1>1 DEF TypeOK
<1>3. ASSUME NEW c \in BookingIds, NEW s \in Series, Lives(c, s)'
      PROVE  Kept(c, s)
  <2>1. c # b /\ c \notin edited
    BY <1>1, <1>3 DEF Lives
  <2>. QED  BY <1>2, <1>3, <2>1 DEF Lives, Kept
<1>. QED  BY <1>3 DEF RowsStep

\* Every step is one of these.
LEMMA SeriesStepIsRowsStep ==
    ASSUME SeriesInv, ReleaseInv, [SeriesNext]_seriesVars
    PROVE  RowsStep
<1>. USE TableAssumption
<1>1. UserSlots \subseteq Range /\ TypeOK
  BY SeriesAssumption DEF SeriesAssumption, SeriesInv
<1>2. ASSUME NEW w \in Workers, JobStep(w) \/ JobStops(w)
      PROVE  RowsStep
  <2>1. ASSUME NEW s \in Series, RollOccurrence(w, s)
        PROVE  RowsStep
    <3>1. jobs[w] \in Rolling /\ jobs[w].job = "rolling" /\ jobs \in [Workers -> JobType]
      BY <2>1, JobKinds DEF SeriesInv, JobsTypeOK, RollOccurrence
    <3>2. PICK d \in jobs[w].due[s] :
             /\ AttemptOccurrence(s, jobs[w].version, d)
             /\ jobs' = [jobs EXCEPT ![w].due[s] = @ \ {d}, ![w].current = s, ![w].through = d]
      BY <2>1 DEF RollOccurrence, FirstOf
    <3>3. jobs[w].version = installed /\ d \in Dates
      BY <3>1, <3>2 DEF Rolling, ReleaseInv
    <3>4. Exists(s)
      BY <2>1, <3>2 DEF SeriesInv, RunInv, RollOccurrence
    <3>5. jobs'[w].job = "rolling" /\ jobs'[w].current = s /\ jobs'[w].through = d
      BY <3>1, <3>2 DEF Rolling
    <3>6. MadeBy(s, d)
      BY <3>1, <3>5 DEF MadeBy
    <3>7. edited' = edited
      BY <2>1 DEF RollOccurrence
    <3>8. AttemptOccurrence(s, installed, d)
      BY <3>2, <3>3
    <3>. QED  BY <3>3, <3>4, <3>6, <3>7, <3>8, AttemptIsRowsStep
  <2>2. CASE StartRolling(w) \/ RollingEnds(w) \/ StartRemat(w)
    BY <2>2, RowsStay DEF StartRolling, RollingEnds, StartRemat, bookingVars, histories
  <2>3. CASE AdvanceWatermark(w)
    BY <2>3, RowsStay DEF AdvanceWatermark, bookingVars
  <2>4. ASSUME NEW s \in Series, ReadOccurrences(w, s)
        PROVE  RowsStep
    BY <2>4, RowsStay DEF ReadOccurrences, bookingVars, histories
  <2>5. ASSUME NEW e \in Target, MoveOccurrence(w, e)
        PROVE  RowsStep
    BY <2>5, MoveIsRowsStep
  <2>6. CASE StampSeries(w)
    BY <2>6, RowsStay DEF StampSeries, bookingVars, histories
  <2>7. CASE RematEnds(w) \/ JobStops(w)
    BY <2>7, RowsStay DEF RematEnds, JobStops, bookingVars, histories
  <2>. QED  BY <1>2, <2>1, <2>2, <2>3, <2>4, <2>5, <2>6, <2>7 DEF JobStep
<1>3. CASE UserStep
  <2>1. ASSUME NEW s \in Series, ConfirmOccurrence(s)
        PROVE  RowsStep
    <3>1. confirming[s] \in Confirm /\ confirming[s] # NoConfirm /\ Exists(s)
      BY <2>1 DEF SeriesInv, JobsTypeOK, ConfirmInv, ConfirmOccurrence
    <3>2. PICK d \in confirming[s].left : AttemptOccurrence(s, confirming[s].version, d)
      BY <2>1 DEF ConfirmOccurrence, FirstOf
    <3>3. confirming[s].version = installed /\ d \in Dates
      BY <3>1, <3>2 DEF Confirm, ReleaseInv
    <3>4. MadeBy(s, d)
      BY <3>1 DEF MadeBy
    <3>5. edited' = edited
      BY <2>1 DEF ConfirmOccurrence
    <3>6. AttemptOccurrence(s, installed, d)
      BY <3>2, <3>3
    <3>. QED  BY <3>1, <3>3, <3>4, <3>5, <3>6, AttemptIsRowsStep
  <2>2. ASSUME NEW r \in Resources, NEW u \in Users, NEW p \in UserSlots, UserBooks(r, u, p)
        PROVE  RowsStep
    <3>1. CreateBooking(r, u, p, NoSeries, "confirmed") /\ p \in Range /\ edited' = edited
      BY <2>2, <1>1 DEF UserBooks, Book, histories
    <3>. QED  BY <1>1, <3>1, CreateIsRowsStep
  <2>3. ASSUME NEW u \in Users, NEW b \in BookingIds, NEW p \in UserSlots, UserEdits(u, b, p)
        PROVE  RowsStep
    BY <1>1, <2>3, EditIsRowsStep
  <2>4. ASSUME NEW b \in BookingIds, UserCancels(b)
        PROVE  RowsStep
    BY <1>1, <2>4, CancelIsRowsStep DEF UserCancels, Cancel, histories
  <2>5. ASSUME NEW s \in Series, UserCancelsSeries(s)
        PROVE  RowsStep
    <3>1. /\ FutureOccurrences(s) \in SUBSET BookingIds
          /\ \A b \in FutureOccurrences(s) : bookings[b].status = "confirmed"
      BY DEF FutureOccurrences
    <3>2. bookings' = AfterCancel(bookings, FutureOccurrences(s)) /\ edited' = edited
      BY <2>5 DEF UserCancelsSeries, CancelSeries, histories
    <3>. QED  BY <1>1, <3>1, <3>2, CancelIsRowsStep
  <2>6. ASSUME NEW s \in Series, NEW r \in Resources, NEW u \in Users, PreviewSeries(s, r, u)
        PROVE  RowsStep
    BY <2>6, RowsStay DEF PreviewSeries, bookingVars, histories
  <2>7. ASSUME NEW s \in Series, NEW q \in Series, ConfirmSeries(s, q)
        PROVE  RowsStep
    BY <2>7, RowsStay DEF ConfirmSeries, bookingVars
  <2>8. ASSUME NEW s \in Series, ConfirmAnswers(s)
        PROVE  RowsStep
    BY <2>8, RowsStay DEF ConfirmAnswers, bookingVars, histories
  <2>. QED  BY <1>3, <2>1, <2>2, <2>3, <2>4, <2>5, <2>6, <2>7, <2>8 DEF UserStep
<1>4. ASSUME NEW s \in Series, ConfirmStops(s)
      PROVE  RowsStep
  BY <1>4, RowsStay DEF ConfirmStops, bookingVars
<1>5. CASE Upgrade
  BY <1>5, RowsStay DEF Upgrade, bookingVars
<1>6. CASE TimePasses
  BY <1>6, RowsStay DEF TimePasses, Tick, histories
<1>7. CASE UNCHANGED seriesVars
  BY <1>7, RowsStay DEF seriesVars
<1>. QED  BY <1>2, <1>3, <1>4, <1>5, <1>6, <1>7 DEF SeriesNext

-----------------------------------------------------------------------------
(* The invariant of the rows.                                               *)

ToCome(b, s) == Lives(b, s) /\ bookings[b].range[1] >= now

\* The rows of a series are on its resource, each at a date.
DateInv ==
    \A s \in Series, b \in BookingIds :
        Lives(b, s) => /\ Exists(s)
                       /\ bookings[b].resource = series[s].resource
                       /\ \E d \in Dates : At(b, d)

\* No two of them are at one date.
UniqueInv ==
    \A s \in Series \ lagging, b, c \in BookingIds, d \in Dates :
        Lives(b, s) /\ Lives(c, s) /\ At(b, d) /\ At(c, d) => b = c

\* A row beyond the watermark is of the installed release, and of a run that
\* has come to it.
BeyondInv ==
    \A s \in Series \ lagging, b \in BookingIds, d \in Dates :
        Lives(b, s) /\ At(b, d) /\ d > series[s].through
            => /\ bookings[b].range = Occurrence(installed, d)
               /\ \E w \in Workers : /\ jobs[w].job = "rolling" /\ jobs[w].current = s
                                     /\ d <= jobs[w].through

\* While a confirm is at work, no rolling run touches the series, and no other
\* release has touched its rows.
ConfirmingInv ==
    \A s \in Series : confirming[s] # NoConfirm =>
        /\ series[s].through = Count
        /\ \A w \in Workers : jobs[w].job = "rolling"
                                  => jobs[w].due[s] = {} /\ jobs[w].current # s
        /\ \A b \in BookingIds : Lives(b, s) => Placed(b)

\* A rolling run has its dates in order; a row at a date that is due was made
\* under the installed release (so the run finds the place taken).
RollInv(j) ==
    j.job = "rolling" => \A s \in Series \ lagging :
        /\ \A d \in j.due[s], b \in BookingIds :
              Lives(b, s) /\ At(b, d) => bookings[b].range = Occurrence(installed, d)
        /\ j.current = s => \A d \in j.due[s] : d > j.through

\* What a run wants to move is a row at the date it moves it to.
TargetsInv(j) ==
    j.job = "remat" => \A e \in j.targets, s \in Series :
        Lives(e.row, s) => At(e.row, e.date)

\* A run that met no conflict has put every occurrence to come of the series it
\* is at where the installed release has it, or has it as a target.
RematInv(j) ==
    j.job = "remat" =>
        /\ j.asof <= now
        /\ ~j.conflict => \A s \in Series, b \in BookingIds :
              j.current = s /\ ToCome(b, s) => Placed(b) \/ \E e \in j.targets : e.row = b

JobRows(j) == RollInv(j) /\ TargetsInv(j) /\ RematInv(j)

OccurrenceInv ==
    /\ ReleaseInv
    /\ \A s \in Series : Exists(s) => series[s].version <= installed
    /\ DateInv
    /\ UniqueInv
    /\ BeyondInv
    /\ ConfirmingInv
    /\ NoneLeftBehind
    /\ \A w \in Workers : JobRows(jobs[w])

LEMMA OnePlaceOneDate ==
    ASSUME NEW v \in Releases, NEW w \in Releases, NEW d \in Dates, NEW e \in Dates,
           Occurrence(v, d) = Occurrence(w, e)
    PROVE  d = e
<1>1. Occurrence(v, d)[1] \in Nat /\ Nearby \in Nat
  BY OccurrencesInOrder, SeriesAssumption DEF SeriesAssumption, Dates
<1>2. PICK x \in Nat : x = Occurrence(v, d)[1]
  BY <1>1
<1>3. Distance(x, x) <= Nearby
  BY <1>1, <1>2 DEF Distance
<1>. QED  BY <1>2, <1>3, PlaceTellsDate

\* A row of the series after a step was one before, of the same dates, and has
\* not moved but to a place of the installed release; or it is a new one.
OldRow(b, s) ==
    /\ Lives(b, s)
    /\ bookings'[b].resource = bookings[b].resource
    /\ \A d \in Dates : At(b, d)' <=> At(b, d)
    /\ \/ bookings'[b].range = bookings[b].range
       \/ \E d \in Dates : bookings'[b].range = Occurrence(installed, d)

LEMMA OldOrNew ==
    ASSUME SeriesInv, OccurrenceInv, RowsStep, NEW b \in BookingIds, NEW s \in Series,
           Lives(b, s)'
    PROVE  OldRow(b, s) \/ \E d \in Dates : Arrives(b, s, d)
<1>1. CASE Kept(b, s)
  BY <1>1 DEF Kept, OldRow, At
<1>2. CASE Shifted(b, s)
  <2>1. PICK w \in Workers, e \in Target :
           /\ jobs[w].job = "remat" /\ e \in jobs[w].targets /\ e.row = b
           /\ bookings'[b].range = Occurrence(installed, e.date)
    BY <1>2 DEF Shifted
  <2>2. Lives(b, s) /\ e.date \in Dates /\ installed \in Releases
    BY <1>2 DEF Shifted, Target, SeriesInv, JobsTypeOK
  <2>3. At(b, e.date)
    BY <2>1, <2>2 DEF OccurrenceInv, JobRows, TargetsInv
  <2>4. ASSUME NEW d \in Dates, At(b, d)
        PROVE  d = e.date
    BY <2>2, <2>3, <2>4, OnePlaceOneDate DEF At
  <2>5. ASSUME NEW d \in Dates, At(b, d)'
        PROVE  d = e.date
    BY <2>1, <2>2, <2>5, OnePlaceOneDate DEF At
  <2>6. At(b, e.date)'
    BY <2>1, <2>2 DEF At
  <2>7. \A d \in Dates : At(b, d)' <=> At(b, d)
    BY <2>3, <2>4, <2>5, <2>6
  <2>. QED  BY <1>2, <2>1, <2>2, <2>7 DEF Shifted, OldRow
<1>. QED  BY <1>1, <1>2 DEF RowsStep

LEMMA InsertedAt ==
    ASSUME SeriesInv, NEW b \in BookingIds, NEW s \in Series, NEW d \in Dates, Arrives(b, s, d),
           NEW e \in Dates
    PROVE  At(b, e)' <=> e = d
<1>1. installed \in Releases /\ bookings'[b].range = Occurrence(installed, d)
  BY DEF SeriesInv, JobsTypeOK, Arrives
<1>2. At(b, d)'
  BY <1>1 DEF At
<1>3. At(b, e)' => e = d
  BY <1>1, OnePlaceOneDate DEF At
<1>. QED  BY <1>2, <1>3

\* An old row at a date is at the installed place of that date if it was there
\* before the step.
LEMMA OldStaysPlaced ==
    ASSUME SeriesInv, NEW b \in BookingIds, NEW s \in Series, OldRow(b, s), NEW d \in Dates,
           At(b, d)', bookings[b].range = Occurrence(installed, d)
    PROVE  bookings'[b].range = Occurrence(installed, d)
<1>1. CASE bookings'[b].range = bookings[b].range
  BY <1>1
<1>2. ASSUME NEW e \in Dates, bookings'[b].range = Occurrence(installed, e)
      PROVE  bookings'[b].range = Occurrence(installed, d)
  <2>1. installed \in Releases
    BY DEF SeriesInv, JobsTypeOK
  <2>2. d = e
    BY <1>2, <2>1, OnePlaceOneDate DEF At
  <2>. QED  BY <1>2, <2>2
<1>. QED  BY <1>1, <1>2 DEF OldRow

-----------------------------------------------------------------------------
(* The rows after a step.                                                   *)

LEMMA DateStep ==
    ASSUME SeriesInv, OccurrenceInv, RowsStep,
           \A s \in Series : Exists(s) => Exists(s)' /\ series'[s].resource = series[s].resource
    PROVE  DateInv'
<1>1. ASSUME NEW s \in Series, NEW b \in BookingIds, Lives(b, s)'
      PROVE  /\ Exists(s)'
             /\ bookings'[b].resource = series'[s].resource
             /\ \E d \in Dates : At(b, d)'
  <2>1. CASE OldRow(b, s)
    <3>1. /\ Exists(s) /\ bookings[b].resource = series[s].resource
          /\ \E d \in Dates : At(b, d)
      BY <2>1 DEF OccurrenceInv, DateInv, OldRow
    <3>. QED  BY <2>1, <3>1 DEF OldRow
  <2>2. ASSUME NEW d \in Dates, Arrives(b, s, d)
        PROVE  /\ Exists(s)'
               /\ bookings'[b].resource = series'[s].resource
               /\ \E e \in Dates : At(b, e)'
    BY <2>2, InsertedAt DEF Arrives
  <2>. QED  BY <1>1, <2>1, <2>2, OldOrNew
<1>. QED  BY <1>1 DEF DateInv

\* An occurrence is not inserted at a date that has a row.
LEMMA NoTwin ==
    ASSUME SeriesInv, OccurrenceInv, NEW s \in Series \ lagging,
           NEW b \in BookingIds, NEW c \in BookingIds, b # c, NEW d \in Dates,
           Arrives(b, s, d), Lives(c, s)', At(c, d)'
    PROVE  FALSE
<1>1. Kept(c, s) /\ Lives(c, s) /\ At(c, d)
  <2>1. Kept(c, s)
    BY DEF Arrives
  <2>. QED  BY <2>1 DEF Kept, At
<1>2. bookings[c].range = Occurrence(installed, d)
  <2>1. CASE confirming[s] # NoConfirm
    <3>1. PICK e \in Dates : bookings[c].range = Occurrence(installed, e)
      BY <1>1, <2>1 DEF OccurrenceInv, ConfirmingInv, Placed
    <3>2. installed \in Releases
      BY DEF SeriesInv, JobsTypeOK
    <3>3. e = d
      BY <1>1, <3>1, <3>2, OnePlaceOneDate DEF At
    <3>. QED  BY <3>1, <3>3
  <2>2. ASSUME NEW w \in Workers, jobs[w].job = "rolling", d \in jobs[w].due[s]
        PROVE  bookings[c].range = Occurrence(installed, d)
    BY <1>1, <2>2 DEF OccurrenceInv, JobRows, RollInv
  <2>. QED  BY <2>1, <2>2 DEF Arrives, MadeBy
<1>3. bookings[c].resource = series[s].resource
  BY <1>1 DEF OccurrenceInv, DateInv
<1>4. ~Overlaps(Occurrence(installed, d), Occurrence(installed, d))
  BY <1>1, <1>2, <1>3 DEF Arrives
<1>. QED  BY <1>4, PlaceIsTaken DEF SeriesInv, JobsTypeOK

LEMMA UniqueStep ==
    ASSUME SeriesInv, OccurrenceInv, RowsStep, lagging \subseteq lagging'
    PROVE  UniqueInv'
<1>1. ASSUME NEW s \in Series \ lagging', NEW b \in BookingIds, NEW c \in BookingIds,
             NEW d \in Dates, Lives(b, s)', Lives(c, s)', At(b, d)', At(c, d)', b # c
      PROVE  FALSE
  <2>1. s \in Series \ lagging
    OBVIOUS
  <2>2. ASSUME NEW e \in Dates, Arrives(b, s, e)
        PROVE  FALSE
    BY <1>1, <2>1, <2>2, InsertedAt, NoTwin
  <2>3. ASSUME NEW e \in Dates, Arrives(c, s, e)
        PROVE  FALSE
    BY <1>1, <2>1, <2>3, InsertedAt, NoTwin
  <2>4. OldRow(b, s) /\ OldRow(c, s)
    BY <1>1, <2>2, <2>3, OldOrNew
  <2>5. Lives(b, s) /\ Lives(c, s) /\ At(b, d) /\ At(c, d)
    BY <1>1, <2>4 DEF OldRow
  <2>. QED  BY <1>1, <2>1, <2>5 DEF OccurrenceInv, UniqueInv
<1>. QED  BY <1>1 DEF UniqueInv

\* What a rolling run has come to is behind the watermark after the step, or
\* the run is still at the series; the watermark does not fall behind.
Carried ==
    \A s \in Series \ lagging' :
        /\ Exists(s) => series'[s].through >= series[s].through
        /\ \A w \in Workers :
              jobs[w].job = "rolling" /\ jobs[w].current = s =>
                  \/ series'[s].through >= jobs[w].through
                  \/ /\ jobs'[w].job = "rolling" /\ jobs'[w].current = s
                     /\ jobs'[w].through >= jobs[w].through

LEMMA BeyondStep ==
    ASSUME SeriesInv, SeriesInv', OccurrenceInv, RowsStep, lagging \subseteq lagging',
           installed' = installed, Carried, \A s \in Series : Exists(s) => Exists(s)',
           \A s \in Series : confirming[s] # NoConfirm => series'[s].through = Count
    PROVE  BeyondInv'
<1>. SUFFICES ASSUME NEW s \in Series \ lagging', NEW b \in BookingIds, NEW d \in Dates,
                     Lives(b, s)', At(b, d)', Exists(s), d > series'[s].through
              PROVE  /\ bookings'[b].range = Occurrence(installed, d)
                     /\ \E w \in Workers : /\ jobs'[w].job = "rolling" /\ jobs'[w].current = s
                                           /\ d <= jobs'[w].through
  <2>1. ASSUME NEW s \in Series, NEW b \in BookingIds, Lives(b, s)'
        PROVE  Exists(s)
    <3>1. CASE OldRow(b, s)
      BY <3>1 DEF OldRow, OccurrenceInv, DateInv
    <3>. QED  BY <2>1, <3>1, OldOrNew DEF Arrives
  <2>. QED  BY <2>1 DEF BeyondInv
<1>1. s \in Series \ lagging
  OBVIOUS
<1>2. /\ \A w \in Workers : jobs[w].job = "rolling" => jobs[w].through \in Int
      /\ \A w \in Workers : jobs'[w].job = "rolling" => jobs'[w].through \in Int
      /\ \A w \in Workers : jobs[w].job = "rolling" => jobs[w].due[s] \subseteq Dates
  BY JobKinds DEF SeriesInv, JobsTypeOK, Rolling
<1>3. series[s].through \in Int /\ (series'[s].through \in Int)
  <2>1. series[s] \in SeriesRow
    BY DEF SeriesInv, JobsTypeOK, Exists
  <2>3. Exists(s)' => series'[s] \in SeriesRow
    BY DEF SeriesInv, JobsTypeOK, Exists
  <2>. QED  BY <2>1, <2>3 DEF SeriesRow
<1>4. d \in Int /\ Count \in Nat /\ d <= Count
  BY SeriesAssumption DEF Dates, SeriesAssumption
<1>5. CASE OldRow(b, s)
  <2>1. Lives(b, s) /\ At(b, d) /\ d > series[s].through
    BY <1>3, <1>4, <1>5 DEF OldRow, Carried
  <2>2. bookings[b].range = Occurrence(installed, d)
    BY <1>1, <2>1 DEF OccurrenceInv, BeyondInv
  <2>3. PICK w \in Workers : /\ jobs[w].job = "rolling" /\ jobs[w].current = s
                             /\ d <= jobs[w].through
    BY <1>1, <2>1 DEF OccurrenceInv, BeyondInv
  <2>4. ~(series'[s].through >= jobs[w].through)
    BY <1>2, <1>3, <1>4, <2>3
  <2>5. /\ jobs'[w].job = "rolling" /\ jobs'[w].current = s
        /\ d <= jobs'[w].through
    BY <1>2, <1>4, <2>3, <2>4 DEF Carried
  <2>. QED  BY <1>5, <2>2, <2>5, OldStaysPlaced
<1>6. ASSUME NEW e \in Dates, Arrives(b, s, e)
      PROVE  /\ bookings'[b].range = Occurrence(installed, d)
             /\ \E w \in Workers : /\ jobs'[w].job = "rolling" /\ jobs'[w].current = s
                                   /\ d <= jobs'[w].through
  <2>1. d = e
    BY <1>6, InsertedAt
  <2>2. confirming[s] = NoConfirm
    BY <1>3, <1>4
  <2>3. \E w \in Workers : /\ jobs'[w].job = "rolling" /\ jobs'[w].current = s
                           /\ d <= jobs'[w].through
    BY <1>4, <1>6, <2>1, <2>2 DEF Arrives, MadeBy
  <2>. QED  BY <1>6, <2>1, <2>3 DEF Arrives
<1>. QED  BY <1>5, <1>6, OldOrNew

\* A release that is newly recorded is the installed one, and every occurrence
\* to come of the series is in its place.
Recorded ==
    \A s \in Series : Exists(s)' =>
        \/ Exists(s) /\ series'[s].version = series[s].version
        \/ /\ series'[s].version = installed
           /\ \A b \in BookingIds : ToCome(b, s)' => Placed(b)'

LEMMA LeftBehindStep ==
    ASSUME SeriesInv, SeriesInv', OccurrenceInv, RowsStep, installed' = installed,
           now' \in {now, now + 1}, Recorded
    PROVE  /\ NoneLeftBehind'
           /\ \A s \in Series : Exists(s)' => series'[s].version <= installed
<1>. USE TableAssumption DEF TableAssumption
<1>0. /\ installed \in Releases /\ MaxRelease \in Nat
      /\ \A s \in Series : Exists(s) => series[s].version \in Releases
  BY SeriesAssumption DEF SeriesInv, JobsTypeOK, SeriesRow, Exists, SeriesAssumption
<1>1. ASSUME NEW s \in Series, Exists(s)'
      PROVE  series'[s].version <= installed
  BY <1>0, <1>1 DEF Recorded, OccurrenceInv, Releases
<1>2. ASSUME NEW s \in Series, NEW b \in BookingIds, Exists(s)', ToCome(b, s)'
      PROVE  \E v \in Releases, d \in Dates :
                v >= series'[s].version /\ bookings'[b].range = Occurrence(v, d)
  <2>1. CASE Placed(b)'
    <3>1. PICK d \in Dates : bookings'[b].range = Occurrence(installed, d)
      BY <2>1 DEF Placed
    <3>2. installed >= series'[s].version
      BY <1>0, <1>1, <1>2 DEF Recorded, OccurrenceInv, Releases
    <3>. QED  BY <1>0, <3>1, <3>2
  <2>2. CASE Exists(s) /\ series'[s].version = series[s].version /\ ~Placed(b)'
    <3>1. OldRow(b, s) /\ bookings'[b].range = bookings[b].range
      <4>1. ~\E d \in Dates : bookings'[b].range = Occurrence(installed, d)
        BY <2>2 DEF Placed
      <4>. QED  BY <1>2, <4>1, OldOrNew DEF OldRow, Arrives, ToCome
    <3>2. bookings[b].range[1] \in Int /\ now \in Int
      <4>1. bookings[b] \in Row
        BY <3>1, InTableIsRow DEF OldRow, Lives, SeriesInv, TypeOK
      <4>. QED  BY <4>1 DEF Row, Held, Settled, Range, SeriesInv, TypeOK, Times
    <3>3. bookings[b].range[1] >= now
      BY <1>2, <3>1, <3>2 DEF ToCome
    <3>4. /\ bookings[b].status = "confirmed" /\ bookings[b].series = s
          /\ b \notin edited
      BY <3>1 DEF OldRow, Lives
    <3>5. \E v \in Releases, d \in Dates :
             v >= series[s].version /\ bookings[b].range = Occurrence(v, d)
      BY <2>2, <3>3, <3>4 DEF OccurrenceInv, NoneLeftBehind
    <3>. QED  BY <2>2, <3>1, <3>5
  <2>. QED  BY <1>2, <2>1, <2>2 DEF Recorded
<1>3. NoneLeftBehind'
  BY <1>2 DEF NoneLeftBehind, ToCome, Lives
<1>. QED  BY <1>1, <1>3

-----------------------------------------------------------------------------
(* What a run j knows of the rows holds on, whoever takes a step.           *)

LEMMA JobRowsStay ==
    ASSUME SeriesInv, SeriesInv', OccurrenceInv, RowsStep, installed' = installed,
           now' \in {now, now + 1}, lagging \subseteq lagging',
           NEW j \in JobType, TargetInv(j), JobRows(j)
    PROVE  JobRows(j)'
<1>. USE TableAssumption DEF TableAssumption
<1>1. RollInv(j)'
  <2>1. ASSUME j.job = "rolling", NEW s \in Series \ lagging', NEW d \in j.due[s],
               NEW b \in BookingIds, Lives(b, s)', At(b, d)'
        PROVE  bookings'[b].range = Occurrence(installed, d)
    <3>1. d \in Dates
      BY <2>1, JobKinds DEF Rolling
    <3>2. CASE OldRow(b, s)
      <4>1. Lives(b, s) /\ At(b, d)
        BY <2>1, <3>1, <3>2 DEF OldRow
      <4>2. bookings[b].range = Occurrence(installed, d)
        BY <2>1, <4>1 DEF JobRows, RollInv
      <4>. QED  BY <2>1, <3>1, <3>2, <4>2, OldStaysPlaced
    <3>3. ASSUME NEW e \in Dates, Arrives(b, s, e)
          PROVE  bookings'[b].range = Occurrence(installed, d)
      <4>1. d = e
        BY <2>1, <3>1, <3>3, InsertedAt
      <4>. QED  BY <3>3, <4>1 DEF Arrives
    <3>. QED  BY <2>1, <3>2, <3>3, OldOrNew
  <2>2. j.job = "rolling" => \A s \in Series \ lagging' :
           j.current = s => \A d \in j.due[s] : d > j.through
    BY DEF JobRows, RollInv
  <2>. QED  BY <2>1, <2>2 DEF RollInv
<1>2. TargetsInv(j)'
  <2>1. ASSUME j.job = "remat", NEW e \in j.targets, NEW s \in Series, Lives(e.row, s)'
        PROVE  At(e.row, e.date)'
    <3>1. e.row \in BookingIds /\ e.date \in Dates
      BY <2>1, JobKinds DEF Remat, Target
    <3>2. bookings[e.row] # Absent
      BY <2>1 DEF TargetInv, Absent
    <3>3. OldRow(e.row, s)
      BY <2>1, <3>1, <3>2, OldOrNew DEF Arrives
    <3>4. At(e.row, e.date)
      BY <2>1, <3>3 DEF JobRows, TargetsInv, OldRow
    <3>. QED  BY <3>1, <3>3, <3>4 DEF OldRow
  <2>. QED  BY <2>1 DEF TargetsInv
<1>3. RematInv(j)'
  <2>1. now \in Int /\ now <= now'
    BY DEF SeriesInv, TypeOK, Times
  <2>2. j.job = "remat" => j.asof <= now'
    <3>1. j.job = "remat" => j.asof \in Int
      BY JobKinds DEF Remat, Times
    <3>. QED  BY <2>1, <3>1 DEF JobRows, RematInv
  <2>3. ASSUME j.job = "remat", ~j.conflict, NEW s \in Series, NEW b \in BookingIds,
               j.current = s, ToCome(b, s)'
        PROVE  Placed(b)' \/ \E e \in j.targets : e.row = b
    <3>1. CASE \E d \in Dates : bookings'[b].range = Occurrence(installed, d)
      BY <3>1 DEF Placed
    <3>2. CASE OldRow(b, s) /\ bookings'[b].range = bookings[b].range
      <4>1. bookings[b] \in Row
        BY <3>2, InTableIsRow DEF OldRow, Lives, SeriesInv, TypeOK
      <4>2. bookings[b].range[1] \in Int
        BY <4>1 DEF Row, Held, Settled, Range
      <4>3. ToCome(b, s)
        BY <2>1, <2>3, <3>2, <4>2 DEF ToCome, OldRow
      <4>4. Placed(b) \/ \E e \in j.targets : e.row = b
        BY <2>3, <4>3 DEF JobRows, RematInv
      <4>. QED  BY <3>2, <4>4 DEF Placed
    <3>. QED  BY <2>3, <3>1, <3>2, OldOrNew DEF OldRow, Arrives, ToCome
  <2>. QED  BY <2>2, <2>3 DEF RematInv
<1>. QED  BY <1>1, <1>2, <1>3 DEF JobRows

-----------------------------------------------------------------------------
(* Steps and the rows.                                                      *)

\* The series rows after a step.
SeriesGoOn ==
    /\ \A s \in Series : Exists(s) => Exists(s)' /\ series'[s].resource = series[s].resource
    /\ lagging \subseteq lagging'
    /\ Carried
    /\ Recorded

\* The confirms after a step, and the runs beside them.
ConfirmsGoOn ==
    /\ \A s \in Series : confirming[s] # NoConfirm => series'[s].through = Count
    /\ \A s \in Series : confirming'[s] # NoConfirm =>
          /\ confirming[s] # NoConfirm \/ ~Exists(s)
          /\ series'[s].through = Count
          /\ \A w \in Workers : jobs'[w].job = "rolling"
                                    => jobs'[w].due[s] = {} /\ jobs'[w].current # s

\* A step of anybody but the deployment.
LEMMA OccurrenceStep ==
    ASSUME SeriesInv, SeriesInv', OccurrenceInv, RowsStep, installed' = installed,
           now' \in {now, now + 1}, SeriesGoOn, ConfirmsGoOn, ReleaseInv',
           \A w \in Workers : jobs'[w] = jobs[w] \/ JobRows(jobs[w])'
    PROVE  OccurrenceInv'
<1>1. DateInv' /\ UniqueInv' /\ BeyondInv'
  BY DateStep, UniqueStep, BeyondStep DEF SeriesGoOn, ConfirmsGoOn
<1>2. /\ NoneLeftBehind'
      /\ \A s \in Series : Exists(s)' => series'[s].version <= installed'
  BY LeftBehindStep DEF SeriesGoOn
<1>3. ASSUME NEW w \in Workers, jobs'[w] = jobs[w]
      PROVE  JobRows(jobs[w])'
  <2>1. PICK j \in JobType : j = jobs[w] /\ j = jobs'[w]
    BY <1>3 DEF SeriesInv, JobsTypeOK
  <2>2. JobRows(j)
    BY <2>1 DEF OccurrenceInv
  <2>3. TargetInv(j)
    BY <2>1 DEF SeriesInv
  <2>4. JobRows(j)'
    BY <2>2, <2>3, JobRowsStay DEF SeriesGoOn
  <2>. QED  BY <2>1, <2>4 DEF JobRows, RollInv, TargetsInv, RematInv
<1>4. ConfirmingInv'
  <2>1. ASSUME NEW s \in Series, confirming'[s] # NoConfirm, NEW b \in BookingIds, Lives(b, s)'
        PROVE  Placed(b)'
    <3>1. CASE OldRow(b, s)
      <4>1. Exists(s)
        BY <3>1 DEF OldRow, OccurrenceInv, DateInv
      <4>2. confirming[s] # NoConfirm
        BY <2>1, <4>1 DEF ConfirmsGoOn
      <4>3. Placed(b)
        BY <3>1, <4>2 DEF OldRow, OccurrenceInv, ConfirmingInv
      <4>. QED  BY <3>1, <4>3 DEF OldRow, Placed
    <3>2. ASSUME NEW d \in Dates, Arrives(b, s, d)
          PROVE  Placed(b)'
      BY <3>2 DEF Arrives, Placed
    <3>. QED  BY <2>1, <3>1, <3>2, OldOrNew
  <2>. QED  BY <2>1 DEF ConfirmsGoOn, ConfirmingInv
<1>. QED  BY <1>1, <1>2, <1>3, <1>4 DEF OccurrenceInv

-----------------------------------------------------------------------------
(* Steps beside the runs and the series rows.                               *)

LEMMA BesideOccurrences ==
    ASSUME SeriesInv, SeriesInv', OccurrenceInv, RowsStep,
           UNCHANGED <<series, jobs, installed, lagging>>, now' \in {now, now + 1},
           \A s \in Series : confirming'[s] # NoConfirm =>
               /\ confirming[s] # NoConfirm
               /\ confirming'[s].version = confirming[s].version
    PROVE  OccurrenceInv'
<1>1. ReleaseInv'
  BY DEF OccurrenceInv, ReleaseInv
<1>2. Carried
  <2>1. \A s \in Series : Exists(s) => series[s].through \in Int
    BY SeriesAssumption DEF SeriesInv, JobsTypeOK, SeriesRow, Exists, SeriesAssumption
  <2>2. \A w \in Workers : jobs[w].job = "rolling" => jobs[w].through \in Int
    BY JobKinds, SeriesAssumption DEF SeriesInv, JobsTypeOK, Rolling, SeriesAssumption
  <2>. QED  BY <2>1, <2>2 DEF Carried
<1>3. SeriesGoOn
  BY <1>2 DEF SeriesGoOn, Recorded, Exists
<1>4. ConfirmsGoOn
  BY DEF ConfirmsGoOn, OccurrenceInv, ConfirmingInv
<1>. QED  BY <1>1, <1>3, <1>4, OccurrenceStep

LEMMA ConfirmSeriesRows ==
    ASSUME SeriesInv, SeriesInv', OccurrenceInv, RowsStep,
           NEW s \in Series, NEW q \in Series, ConfirmSeries(s, q)
    PROVE  OccurrenceInv'
<1>1. /\ ~Exists(s) /\ now' = now /\ installed' = installed /\ lagging' = lagging /\ jobs' = jobs
      /\ bookings' = bookings /\ edited' = edited
  BY DEF ConfirmSeries, bookingVars
<1>2. /\ series'[s].through = Count /\ series'[s].version = installed
      /\ confirming'[s].version = installed
      /\ \A t \in Series : t # s => series'[t] = series[t] /\ confirming'[t] = confirming[t]
  BY DEF ConfirmSeries, SeriesInv, JobsTypeOK
<1>3. ReleaseInv'
  BY <1>1, <1>2 DEF OccurrenceInv, ReleaseInv
<1>4. \A w \in Workers : jobs[w].job = "rolling" => jobs[w].due[s] = {} /\ jobs[w].current # s
  BY <1>1 DEF SeriesInv, RunInv
<1>5. Carried
  <2>1. \A t \in Series : Exists(t) => series[t].through \in Int
    BY SeriesAssumption DEF SeriesInv, JobsTypeOK, SeriesRow, Exists, SeriesAssumption
  <2>2. \A w \in Workers : jobs[w].job = "rolling" => jobs[w].through \in Int
    BY JobKinds, SeriesAssumption DEF SeriesInv, JobsTypeOK, Rolling, SeriesAssumption
  <2>. QED  BY <1>1, <1>2, <2>1, <2>2 DEF Carried
<1>6. Recorded
  <2>1. \A b \in BookingIds : ~Lives(b, s)'
    BY <1>1 DEF OccurrenceInv, DateInv, Lives
  <2>. QED  BY <1>2, <2>1 DEF Recorded, Exists, ToCome
<1>7. SeriesGoOn
  BY <1>1, <1>2, <1>5, <1>6 DEF SeriesGoOn, Exists
<1>8. ConfirmsGoOn
  <2>1. confirming[s] = NoConfirm
    BY <1>1 DEF SeriesInv, ConfirmInv
  <2>. QED  BY <1>1, <1>2, <1>4, <2>1 DEF ConfirmsGoOn, OccurrenceInv, ConfirmingInv
<1>. QED  BY <1>1, <1>3, <1>7, <1>8, OccurrenceStep

-----------------------------------------------------------------------------
(* The steps of one run, which becomes j.                                   *)

LEMMA RunOccurrences ==
    ASSUME SeriesInv, SeriesInv', OccurrenceInv, RowsStep,
           UNCHANGED <<confirming, installed, now>>, SeriesGoOn,
           \A s \in Series : confirming[s] # NoConfirm => series'[s].through = Count,
           NEW w \in Workers, NEW j \in JobType, jobs' = [jobs EXCEPT ![w] = j],
           j.job # "none" => j.version = installed, JobRows(j)',
           \A s \in Series : j.job = "rolling" /\ confirming[s] # NoConfirm
                                 => j.due[s] = {} /\ j.current # s
    PROVE  OccurrenceInv'
<1>1. \A v \in Workers : jobs'[v] = IF v = w THEN j ELSE jobs[v]
  BY DEF SeriesInv, JobsTypeOK
<1>2. ReleaseInv'
  BY <1>1 DEF OccurrenceInv, ReleaseInv
<1>3. ConfirmsGoOn
  BY <1>1 DEF ConfirmsGoOn, OccurrenceInv, ConfirmingInv
<1>4. JobRows(jobs[w])'
  BY <1>1 DEF JobRows, RollInv, TargetsInv, RematInv
<1>5. \A v \in Workers : jobs'[v] = jobs[v] \/ JobRows(jobs[v])'
  BY <1>1, <1>4
<1>. QED  BY <1>2, <1>3, <1>5, OccurrenceStep

\* A step of one run that leaves the series rows alone.
LEMMA RunBesideSeries ==
    ASSUME SeriesInv, SeriesInv', OccurrenceInv, RowsStep,
           UNCHANGED <<series, confirming, installed, now>>, lagging \subseteq lagging',
           NEW w \in Workers, NEW j \in JobType, jobs' = [jobs EXCEPT ![w] = j],
           jobs[w].job = "rolling" /\ jobs[w].current \in Series \ lagging' =>
               /\ j.job = "rolling" /\ j.current = jobs[w].current
               /\ j.through >= jobs[w].through,
           j.job # "none" => j.version = installed, JobRows(j)',
           \A s \in Series : j.job = "rolling" /\ confirming[s] # NoConfirm
                                 => j.due[s] = {} /\ j.current # s
    PROVE  OccurrenceInv'
<1>1. \A v \in Workers : jobs'[v] = IF v = w THEN j ELSE jobs[v]
  BY DEF SeriesInv, JobsTypeOK
<1>2. Carried
  <2>1. \A s \in Series : Exists(s) => series[s].through \in Int
    BY SeriesAssumption DEF SeriesInv, JobsTypeOK, SeriesRow, Exists, SeriesAssumption
  <2>2. \A v \in Workers : jobs[v].job = "rolling" => jobs[v].through \in Int
    BY JobKinds, SeriesAssumption DEF SeriesInv, JobsTypeOK, Rolling, SeriesAssumption
  <2>. QED  BY <1>1, <2>1, <2>2 DEF Carried
<1>3. SeriesGoOn
  BY <1>2 DEF SeriesGoOn, Recorded, Exists
<1>4. \A s \in Series : confirming[s] # NoConfirm => series'[s].through = Count
  BY DEF OccurrenceInv, ConfirmingInv
<1>. QED  BY <1>3, <1>4, RunOccurrences

LEMMA StartRollingRows ==
    ASSUME SeriesInv, SeriesInv', OccurrenceInv, RowsStep, NEW w \in Workers, StartRolling(w)
    PROVE  OccurrenceInv'
<1>. USE TableAssumption
<1>1. PICK j : j = [job |-> "rolling", version |-> installed, due |-> [s \in Series |-> Due(s)],
                    current |-> NoSeries, through |-> 0]
  OBVIOUS
<1>2. /\ jobs' = [jobs EXCEPT ![w] = j] /\ jobs[w] = Idle
      /\ UNCHANGED <<series, confirming, installed, now, lagging>>
  BY <1>1 DEF StartRolling, histories, bookingVars
<1>3. /\ j.job = "rolling" /\ j.version = installed /\ j.current = NoSeries
      /\ \A s \in Series : j.due[s] = Due(s)
  BY <1>1
<1>4. j \in JobType
  <2>1. jobs'[w] = j /\ jobs'[w] \in JobType
    BY <1>2 DEF SeriesInv, JobsTypeOK
  <2>. QED  BY <2>1
<1>5. ASSUME NEW s \in Series, NEW d \in Due(s)
      PROVE  d \in Dates /\ d > series[s].through
  BY <1>5 DEF Due
<1>6. RollInv(j)
  BY <1>3, <1>5, TableAssumption DEF RollInv, OccurrenceInv, BeyondInv, TableAssumption
<1>7. JobRows(j) /\ TargetInv(j)
  BY <1>3, <1>6 DEF JobRows, TargetsInv, RematInv, TargetInv
<1>8. JobRows(j)'
  BY <1>2, <1>4, <1>7, JobRowsStay
<1>9. \A s \in Series : confirming[s] # NoConfirm => j.due[s] = {} /\ j.current # s
  <2>1. ASSUME NEW s \in Series, confirming[s] # NoConfirm, NEW d \in Due(s)
        PROVE  FALSE
    <3>1. series[s].through = Count /\ d \in Dates /\ d > series[s].through
      BY <1>5, <2>1 DEF OccurrenceInv, ConfirmingInv
    <3>. QED  BY <3>1, SeriesAssumption DEF Dates, SeriesAssumption
  <2>. QED  BY <1>3, <2>1, TableAssumption DEF TableAssumption
<1>10. jobs[w].job # "rolling"
  BY <1>2 DEF Idle
<1>. QED  BY <1>2, <1>3, <1>4, <1>8, <1>9, <1>10, RunBesideSeries

LEMMA RollOccurrenceRows ==
    ASSUME SeriesInv, SeriesInv', OccurrenceInv, RowsStep, NEW w \in Workers, NEW s \in Series,
           RollOccurrence(w, s)
    PROVE  OccurrenceInv'
<1>. USE TableAssumption DEF TableAssumption
<1>1. /\ jobs[w] \in Rolling /\ jobs[w].job = "rolling" /\ jobs[w].current \in {NoSeries, s}
      /\ jobs[w].version = installed /\ JobRows(jobs[w]) /\ now' = now
  <2>1. jobs[w] \in Rolling
    BY JobKinds DEF SeriesInv, JobsTypeOK, RollOccurrence
  <2>2. now' = now
    BY DEF RollOccurrence, AttemptOccurrence, CreateOccurrence, CreateBooking, Taken, bookingVars
  <2>. QED  BY <2>1, <2>2 DEF RollOccurrence, OccurrenceInv, ReleaseInv
<1>2. PICK d \in FirstOf(jobs[w].due[s]) :
         jobs' = [jobs EXCEPT ![w].due[s] = @ \ {d}, ![w].current = s, ![w].through = d]
  BY DEF RollOccurrence
<1>3. /\ d \in jobs[w].due[s] /\ d \in Dates /\ \A e \in jobs[w].due[s] : d <= e
      /\ \A e \in jobs[w].due[s] : e \in Dates
  BY <1>1, <1>2 DEF FirstOf, Rolling
<1>4. PICK j : j = [jobs[w] EXCEPT !.due[s] = @ \ {d}, !.current = s, !.through = d]
  OBVIOUS
<1>5. jobs' = [jobs EXCEPT ![w] = j]
  BY <1>2, <1>4 DEF SeriesInv, JobsTypeOK
<1>6. /\ j.job = "rolling" /\ j.version = installed /\ j.current = s /\ j.through = d
      /\ j.due[s] = jobs[w].due[s] \ {d}
      /\ \A t \in Series : t # s => j.due[t] = jobs[w].due[t]
  BY <1>1, <1>4 DEF Rolling
<1>7. j \in JobType
  <2>1. jobs'[w] = j /\ jobs'[w] \in JobType
    BY <1>5 DEF SeriesInv, JobsTypeOK
  <2>. QED  BY <2>1
<1>8. RollInv(j)
  <2>1. \A e \in j.due[s] : e > d
    BY <1>3, <1>6, SeriesAssumption DEF Dates, SeriesAssumption
  <2>2. \A t \in Series : j.due[t] \subseteq jobs[w].due[t]
    BY <1>6
  <2>3. RollInv(jobs[w])
    BY <1>1 DEF JobRows
  <2>. QED  BY <1>1, <1>6, <2>1, <2>2, <2>3 DEF RollInv
<1>9. JobRows(j) /\ TargetInv(j)
  BY <1>6, <1>8 DEF JobRows, TargetsInv, RematInv, TargetInv
<1>10. UNCHANGED <<series, confirming, installed, lagging>>
  BY DEF RollOccurrence
<1>11. JobRows(j)'
  BY <1>1, <1>7, <1>9, <1>10, JobRowsStay
<1>12. \A t \in Series : confirming[t] # NoConfirm => j.due[t] = {} /\ j.current # t
  BY <1>1, <1>3, <1>6 DEF OccurrenceInv, ConfirmingInv
<1>13. jobs[w].current \in Series \ lagging' => j.current = jobs[w].current /\ j.through >= jobs[w].through
  <2>1. ASSUME jobs[w].current \in Series \ lagging'
        PROVE  jobs[w].current = s /\ s \in Series \ lagging
    BY <1>1, <1>10, <2>1
  <2>2. ASSUME jobs[w].current = s, s \in Series \ lagging
        PROVE  d > jobs[w].through
    BY <1>1, <1>3, <2>2 DEF JobRows, RollInv
  <2>3. jobs[w].through \in Int /\ d \in Int
    BY <1>1, <1>3, SeriesAssumption DEF Rolling, Dates, SeriesAssumption
  <2>. QED  BY <1>6, <2>1, <2>2, <2>3
<1>. QED  BY <1>1, <1>5, <1>6, <1>7, <1>10, <1>11, <1>12, <1>13, RunBesideSeries

LEMMA AdvanceWatermarkRows ==
    ASSUME SeriesInv, SeriesInv', OccurrenceInv, RowsStep, NEW w \in Workers, AdvanceWatermark(w)
    PROVE  OccurrenceInv'
<1>. USE TableAssumption DEF TableAssumption
<1>1. /\ jobs[w] \in Rolling /\ jobs[w].job = "rolling" /\ JobRows(jobs[w])
      /\ jobs[w].version = installed
  BY JobKinds DEF SeriesInv, JobsTypeOK, AdvanceWatermark, OccurrenceInv, ReleaseInv
<1>2. PICK s \in Series : s = jobs[w].current
  BY <1>1 DEF AdvanceWatermark, Rolling
<1>3. /\ series' = [series EXCEPT ![s].through = jobs[w].through]
      /\ lagging' = IF jobs[w].through < series[s].through THEN lagging \cup {s} ELSE lagging
      /\ jobs' = [jobs EXCEPT ![w].current = NoSeries]
      /\ UNCHANGED <<now, confirming, installed>>
  BY <1>2 DEF AdvanceWatermark, bookingVars
<1>4. /\ Exists(s) /\ series[s] \in SeriesRow /\ jobs[w].through \in Int
      /\ series[s].through \in Int
  BY <1>1, <1>2, SeriesAssumption
     DEF SeriesInv, RunInv, Exists, JobsTypeOK, Rolling, SeriesRow, SeriesAssumption
<1>5. /\ series'[s] = [series[s] EXCEPT !.through = jobs[w].through]
      /\ \A t \in Series : t # s => series'[t] = series[t]
  BY <1>3 DEF SeriesInv, JobsTypeOK
<1>6. /\ series'[s].through = jobs[w].through /\ series'[s].version = series[s].version
      /\ series'[s].resource = series[s].resource /\ series'[s] \in SeriesRow
  <2>1. /\ series'[s].through = jobs[w].through /\ series'[s].version = series[s].version
        /\ series'[s].resource = series[s].resource
    BY <1>4, <1>5 DEF SeriesRow
  <2>2. series'[s] \in SeriesRow
    BY <1>1, <1>4, <1>5 DEF SeriesRow, Rolling
  <2>. QED  BY <2>1, <2>2
<1>7. \A t \in Series : Exists(t)' <=> Exists(t)
  BY <1>4, <1>5, <1>6, RowsAreRows DEF Exists
<1>8. PICK j : j = [jobs[w] EXCEPT !.current = NoSeries]
  OBVIOUS
<1>9. jobs' = [jobs EXCEPT ![w] = j]
  BY <1>3, <1>8 DEF SeriesInv, JobsTypeOK
<1>10. /\ j.job = "rolling" /\ j.version = installed /\ j.current = NoSeries
       /\ j.due = jobs[w].due
  BY <1>1, <1>8 DEF Rolling
<1>11. \A v \in Workers : jobs'[v] = IF v = w THEN j ELSE jobs[v]
  BY <1>9 DEF SeriesInv, JobsTypeOK
<1>12. j \in JobType
  BY <1>11 DEF SeriesInv, JobsTypeOK
<1>13. JobRows(j) /\ TargetInv(j)
  BY <1>1, <1>10 DEF JobRows, RollInv, TargetsInv, RematInv, TargetInv
<1>14. lagging \subseteq lagging'
  BY <1>3
<1>15. JobRows(j)'
  BY <1>3, <1>12, <1>13, <1>14, JobRowsStay
<1>16. Carried
  <2>1. ASSUME NEW t \in Series \ lagging', Exists(t)
        PROVE  series'[t].through >= series[t].through
    <3>1. CASE t = s
      BY <1>3, <1>4, <1>6, <2>1, <3>1
    <3>2. CASE t # s
      <4>1. series[t].through \in Int
        BY <2>1, SeriesAssumption DEF SeriesInv, JobsTypeOK, SeriesRow, Exists, SeriesAssumption
      <4>. QED  BY <1>5, <3>2, <4>1
    <3>. QED  BY <3>1, <3>2
  <2>2. ASSUME NEW t \in Series \ lagging', NEW v \in Workers,
               jobs[v].job = "rolling", jobs[v].current = t
        PROVE  \/ series'[t].through >= jobs[v].through
               \/ /\ jobs'[v].job = "rolling" /\ jobs'[v].current = t
                  /\ jobs'[v].through >= jobs[v].through
    <3>1. jobs[v].through \in Int
      BY <2>2, JobKinds, SeriesAssumption DEF SeriesInv, JobsTypeOK, Rolling, SeriesAssumption
    <3>2. v = w => t = s
      BY <1>2, <2>2
    <3>. QED  BY <1>6, <1>11, <2>2, <3>1, <3>2
  <2>. QED  BY <2>1, <2>2 DEF Carried
<1>17. SeriesGoOn
  <2>1. Recorded
    BY <1>5, <1>6, <1>7 DEF Recorded
  <2>. QED  BY <1>5, <1>6, <1>7, <1>14, <1>16, <2>1 DEF SeriesGoOn
<1>18. /\ \A t \in Series : confirming[t] # NoConfirm => series'[t].through = Count
       /\ \A t \in Series : confirming[t] # NoConfirm => j.due[t] = {} /\ j.current # t
  BY <1>1, <1>2, <1>5, <1>10 DEF OccurrenceInv, ConfirmingInv
<1>. QED  BY <1>3, <1>9, <1>10, <1>12, <1>15, <1>17, <1>18, RunOccurrences

\* A run that ends or is cut off.
LEMMA RunEndsRows ==
    ASSUME SeriesInv, SeriesInv', OccurrenceInv, RowsStep, NEW w \in Workers,
           RollingEnds(w) \/ RematEnds(w) \/ JobStops(w)
    PROVE  OccurrenceInv'
<1>1. /\ jobs' = [jobs EXCEPT ![w] = Idle]
      /\ UNCHANGED <<series, confirming, installed, now>>
  BY DEF RollingEnds, RematEnds, JobStops, bookingVars
<1>2. lagging \subseteq lagging'
  BY DEF RollingEnds, RematEnds, JobStops, histories
<1>3. ~(jobs[w].job = "rolling" /\ jobs[w].current \in Series \ lagging')
  <2>1. CASE RollingEnds(w) \/ RematEnds(w)
    BY <2>1, TableAssumption DEF RollingEnds, RematEnds, TableAssumption
  <2>2. CASE JobStops(w)
    BY <2>2, TableAssumption DEF JobStops, RolledBy, TableAssumption
  <2>. QED  BY <2>1, <2>2
<1>4. JobRows(Idle)' /\ Idle.job = "none"
  BY DEF JobRows, RollInv, TargetsInv, RematInv, Idle
<1>. QED  BY <1>1, <1>2, <1>3, <1>4, IdleIsFine, RunBesideSeries

LEMMA StartRematRows ==
    ASSUME SeriesInv, SeriesInv', OccurrenceInv, RowsStep, NEW w \in Workers, StartRemat(w)
    PROVE  OccurrenceInv'
<1>. USE TableAssumption DEF TableAssumption
<1>1. PICK j : j = [job |-> "remat", version |-> installed, asof |-> now,
                    queue |-> {s \in Series : Exists(s) /\ series[s].version # installed},
                    current |-> NoSeries, targets |-> {}, conflict |-> FALSE]
  OBVIOUS
<1>2. /\ jobs' = [jobs EXCEPT ![w] = j] /\ jobs[w] = Idle
      /\ UNCHANGED <<series, confirming, installed, now, lagging>>
  BY <1>1 DEF StartRemat, histories, bookingVars
<1>3. /\ j.job = "remat" /\ j.version = installed /\ j.asof = now
      /\ j.current = NoSeries /\ j.targets = {}
  BY <1>1
<1>4. j \in JobType
  <2>1. jobs'[w] = j /\ jobs'[w] \in JobType
    BY <1>2 DEF SeriesInv, JobsTypeOK
  <2>. QED  BY <2>1
<1>5. JobRows(j) /\ TargetInv(j)
  <2>1. now \in Int
    BY DEF SeriesInv, TypeOK, Times
  <2>. QED  BY <1>3, <2>1 DEF JobRows, RollInv, TargetsInv, RematInv, TargetInv
<1>6. JobRows(j)'
  BY <1>2, <1>4, <1>5, JobRowsStay
<1>7. jobs[w].job # "rolling"
  BY <1>2 DEF Idle
<1>. QED  BY <1>2, <1>3, <1>4, <1>6, <1>7, RunBesideSeries

LEMMA ReadOccurrencesRows ==
    ASSUME SeriesInv, SeriesInv', OccurrenceInv, RowsStep, NEW w \in Workers, NEW s \in Series,
           ReadOccurrences(w, s)
    PROVE  OccurrenceInv'
<1>. USE TableAssumption DEF TableAssumption
<1>1. /\ jobs[w] \in Remat /\ jobs[w].job = "remat" /\ JobRows(jobs[w])
      /\ jobs[w].version = installed /\ installed \in Releases
  BY JobKinds DEF SeriesInv, JobsTypeOK, ReadOccurrences, OccurrenceInv, ReleaseInv
<1>2. PICK found : found = Misplaced(s, installed, jobs[w].asof)
  OBVIOUS
<1>3. PICK j : j = [jobs[w] EXCEPT !.queue = @ \ {s}, !.current = s, !.conflict = FALSE,
                                   !.targets = found]
  OBVIOUS
<1>4. jobs' = [jobs EXCEPT ![w] = j]
  BY <1>1, <1>2, <1>3 DEF SeriesInv, JobsTypeOK, ReadOccurrences
<1>5. /\ j.job = "remat" /\ j.version = installed /\ j.asof = jobs[w].asof
      /\ j.current = s /\ j.targets = found /\ j.conflict = FALSE
  BY <1>1, <1>3 DEF Remat
<1>6. /\ bookings' = bookings
      /\ UNCHANGED <<series, confirming, installed, now, lagging>>
  BY DEF ReadOccurrences, bookingVars, histories
<1>7. j \in JobType
  <2>1. jobs'[w] = j /\ jobs'[w] \in JobType
    BY <1>4 DEF SeriesInv, JobsTypeOK
  <2>. QED  BY <2>1
<1>8. TargetsInv(j)
  <2>1. ASSUME NEW e \in found, NEW t \in Series, Lives(e.row, t)
        PROVE  At(e.row, e.date)
    <3>1. /\ e.row \in BookingIds /\ e.date \in Dates
          /\ Distance(bookings[e.row].range[1], Occurrence(installed, e.date)[1]) <= Nearby
      BY <1>2, <2>1 DEF Misplaced, Target
    <3>2. PICK d \in Dates : At(e.row, d)
      BY <2>1, <3>1 DEF OccurrenceInv, DateInv
    <3>3. d = e.date
      BY <1>1, <3>1, <3>2, PlaceTellsDate DEF At
    <3>. QED  BY <3>2, <3>3
  <2>. QED  BY <1>5, <2>1 DEF TargetsInv
<1>9. RematInv(j)
  <2>1. ASSUME NEW b \in BookingIds, ToCome(b, s), ~Placed(b)
        PROVE  \E e \in found : e.row = b
    <3>1. Exists(s) /\ bookings[b].status = "confirmed" /\ bookings[b].series = s
      BY <2>1 DEF ToCome, Lives, OccurrenceInv, DateInv
    <3>2. PICK v \in Releases, d \in Dates : bookings[b].range = Occurrence(v, d)
      BY <2>1 DEF ToCome, OccurrenceInv, DateInv, At
    <3>3. Distance(bookings[b].range[1], Occurrence(installed, d)[1]) <= Nearby
      BY <1>1, <3>2, PlaceTellsDate
    <3>4. bookings[b].range # Occurrence(installed, d)
      BY <2>1 DEF Placed
    <3>5. bookings[b].range[1] >= jobs[w].asof
      <4>1. bookings[b].range[1] >= now /\ jobs[w].asof <= now
        BY <1>1, <2>1 DEF ToCome, JobRows, RematInv
      <4>2. bookings[b].range[1] \in Int
        BY <3>2, OccurrencesInOrder DEF Dates
      <4>3. now \in Int /\ jobs[w].asof \in Int
        BY <1>1 DEF Remat, SeriesInv, TypeOK, Times
      <4>. QED  BY <4>1, <4>2, <4>3
    <3>6. [row |-> b, date |-> d] \in found
      BY <1>2, <3>1, <3>3, <3>4, <3>5 DEF Misplaced, Target
    <3>. QED  BY <3>6
  <2>2. j.asof <= now
    BY <1>1, <1>5 DEF JobRows, RematInv
  <2>. QED  BY <1>5, <2>1, <2>2 DEF RematInv
<1>10. TargetInv(j)
  BY <1>2, <1>5 DEF TargetInv, Misplaced
<1>11. JobRows(j)'
  <2>1. JobRows(j)
    BY <1>5, <1>8, <1>9 DEF JobRows, RollInv
  <2>. QED  BY <2>1, <1>6, <1>7, <1>10, JobRowsStay
<1>. QED  BY <1>1, <1>4, <1>5, <1>6, <1>7, <1>11, RunBesideSeries

LEMMA MoveOccurrenceRows ==
    ASSUME SeriesInv, SeriesInv', OccurrenceInv, RowsStep, NEW w \in Workers, NEW e \in Target,
           MoveOccurrence(w, e)
    PROVE  OccurrenceInv'
<1>. USE TableAssumption DEF TableAssumption
<1>1. /\ jobs[w] \in Remat /\ jobs[w].job = "remat" /\ JobRows(jobs[w])
      /\ jobs[w].version = installed /\ e \in jobs[w].targets
  BY JobKinds DEF SeriesInv, JobsTypeOK, MoveOccurrence, OccurrenceInv, ReleaseInv
<1>2. UNCHANGED <<series, confirming, installed, now, lagging>>
  BY DEF MoveOccurrence, histories
<1>3. PICK j : /\ jobs' = [jobs EXCEPT ![w] = j]
               /\ j.job = "remat" /\ j.version = installed /\ j.asof = jobs[w].asof
               /\ j.current = jobs[w].current /\ j.targets = jobs[w].targets \ {e}
               /\ j.conflict \/ (j.conflict = jobs[w].conflict /\ Placed(e.row)')
  <2>1. CASE /\ bookings' = [bookings EXCEPT ![e.row] = [@ EXCEPT !.range = Occurrence(jobs[w].version, e.date)]]
             /\ jobs' = [jobs EXCEPT ![w].targets = @ \ {e}]
    <3>1. PICK j : j = [jobs[w] EXCEPT !.targets = @ \ {e}]
      OBVIOUS
    <3>2. jobs' = [jobs EXCEPT ![w] = j]
      BY <2>1, <3>1 DEF SeriesInv, JobsTypeOK
    <3>3. /\ j.job = "remat" /\ j.version = installed /\ j.asof = jobs[w].asof
          /\ j.current = jobs[w].current /\ j.targets = jobs[w].targets \ {e}
          /\ j.conflict = jobs[w].conflict
      BY <1>1, <3>1 DEF Remat
    <3>4. Placed(e.row)'
      <4>1. bookings[e.row].status \in {"confirmed", "cancelled"} /\ e.row \in BookingIds
        BY <1>1 DEF SeriesInv, TargetInv, Target
      <4>2. bookings[e.row] \in Row
        BY <4>1, InTableIsRow DEF SeriesInv, TypeOK
      <4>3. bookings'[e.row] = [bookings[e.row] EXCEPT !.range = Occurrence(installed, e.date)]
        BY <1>1, <2>1, <4>1 DEF SeriesInv, TypeOK
      <4>4. bookings'[e.row].range = Occurrence(installed, e.date)
        BY <4>2, <4>3 DEF Row, Held, Settled
      <4>. QED  BY <1>2, <4>4 DEF Placed, Target
    <3>. QED  BY <3>2, <3>3, <3>4
  <2>2. CASE jobs' = [jobs EXCEPT ![w].targets = @ \ {e}, ![w].conflict = TRUE]
    <3>1. PICK j : j = [jobs[w] EXCEPT !.targets = @ \ {e}, !.conflict = TRUE]
      OBVIOUS
    <3>2. jobs' = [jobs EXCEPT ![w] = j]
      BY <2>2, <3>1 DEF SeriesInv, JobsTypeOK
    <3>3. /\ j.job = "remat" /\ j.version = installed /\ j.asof = jobs[w].asof
          /\ j.current = jobs[w].current /\ j.targets = jobs[w].targets \ {e}
          /\ j.conflict = TRUE
      BY <1>1, <3>1 DEF Remat
    <3>. QED  BY <3>2, <3>3
  <2>. QED  BY <2>1, <2>2 DEF MoveOccurrence
<1>4. jobs'[w] = j /\ j \in JobType
  BY <1>3 DEF SeriesInv, JobsTypeOK
<1>5. PICK i \in JobType : i = jobs[w]
  BY DEF SeriesInv, JobsTypeOK
<1>6. JobRows(i)'
  BY <1>1, <1>2, <1>5, JobRowsStay DEF SeriesInv
<1>7. JobRows(j)'
  <2>1. RollInv(j)'
    BY <1>3 DEF RollInv
  <2>2. TargetsInv(j)'
    BY <1>1, <1>3, <1>5, <1>6 DEF JobRows, TargetsInv
  <2>3. RematInv(j)'
    <3>1. j.asof <= now'
      BY <1>1, <1>3, <1>5, <1>6 DEF JobRows, RematInv
    <3>2. ASSUME ~j.conflict, NEW s \in Series, NEW b \in BookingIds, j.current = s, ToCome(b, s)'
          PROVE  Placed(b)' \/ \E f \in j.targets : f.row = b
      <4>1. Placed(e.row)' /\ ~i.conflict
        BY <1>3, <1>5, <3>2
      <4>2. Placed(b)' \/ \E f \in i.targets : f.row = b
        BY <1>1, <1>3, <1>5, <1>6, <3>2, <4>1 DEF JobRows, RematInv
      <4>3. ASSUME NEW f \in i.targets, f.row = b, f # e
            PROVE  f \in j.targets
        BY <1>3, <1>5, <4>3
      <4>. QED  BY <4>1, <4>2, <4>3
    <3>. QED  BY <3>1, <3>2 DEF RematInv
  <2>. QED  BY <2>1, <2>2, <2>3 DEF JobRows
<1>. QED  BY <1>1, <1>2, <1>3, <1>4, <1>7, RunBesideSeries

LEMMA StampSeriesRows ==
    ASSUME SeriesInv, SeriesInv', OccurrenceInv, RowsStep, NEW w \in Workers, StampSeries(w)
    PROVE  OccurrenceInv'
<1>. USE TableAssumption DEF TableAssumption
<1>1. /\ jobs[w] \in Remat /\ jobs[w].job = "remat" /\ JobRows(jobs[w])
      /\ jobs[w].version = installed /\ jobs[w].targets = {}
  BY JobKinds DEF SeriesInv, JobsTypeOK, StampSeries, OccurrenceInv, ReleaseInv
<1>2. PICK s \in Series : s = jobs[w].current
  BY <1>1 DEF StampSeries, Remat
<1>3. /\ UNCHANGED <<confirming, installed, lagging, edited>> /\ now' = now
      /\ bookings' = bookings
      /\ jobs' = [jobs EXCEPT ![w].current = NoSeries]
      /\ \/ series' = series
         \/ ~jobs[w].conflict /\ series' = [series EXCEPT ![s].version = installed]
  BY <1>1, <1>2 DEF StampSeries, bookingVars, histories
<1>4. PICK j : j = [jobs[w] EXCEPT !.current = NoSeries]
  OBVIOUS
<1>5. jobs' = [jobs EXCEPT ![w] = j]
  BY <1>3, <1>4 DEF SeriesInv, JobsTypeOK
<1>6. /\ j.job = "remat" /\ j.version = installed /\ j.asof = jobs[w].asof
      /\ j.current = NoSeries /\ j.targets = {}
  BY <1>1, <1>4 DEF Remat
<1>7. \A v \in Workers : jobs'[v] = IF v = w THEN j ELSE jobs[v]
  BY <1>5 DEF SeriesInv, JobsTypeOK
<1>8. j \in JobType
  BY <1>7 DEF SeriesInv, JobsTypeOK
<1>9. JobRows(j)'
  <2>1. JobRows(j) /\ TargetInv(j)
    BY <1>1, <1>6 DEF JobRows, RollInv, TargetsInv, RematInv, TargetInv
  <2>. QED  BY <2>1, <1>3, <1>8, JobRowsStay
<1>10. /\ \A t \in Series : Exists(t)' <=> Exists(t)
       /\ \A t \in Series : Exists(t) => /\ series'[t].through = series[t].through
                                         /\ series'[t].resource = series[t].resource
                                         /\ \/ series'[t].version = series[t].version
                                            \/ t = s /\ ~jobs[w].conflict /\ series'[t].version = installed
  <2>1. CASE series' = series
    BY <2>1 DEF Exists
  <2>2. CASE ~jobs[w].conflict /\ series' = [series EXCEPT ![s].version = installed]
    <3>1. /\ series'[s] = [series[s] EXCEPT !.version = installed]
          /\ \A t \in Series : t # s => series'[t] = series[t]
      BY <2>2 DEF SeriesInv, JobsTypeOK
    <3>2. CASE Exists(s)
      <4>1. series[s] \in SeriesRow
        BY <3>2 DEF Exists, SeriesInv, JobsTypeOK
      <4>2. /\ series'[s].through = series[s].through /\ series'[s].resource = series[s].resource
            /\ series'[s].version = installed
        BY <3>1, <4>1 DEF SeriesRow
      <4>3. series'[s] \in SeriesRow
        BY <3>1, <4>1 DEF SeriesRow, SeriesInv, JobsTypeOK
      <4>. QED  BY <2>2, <3>1, <3>2, <4>2, <4>3, RowsAreRows DEF Exists
    <3>3. CASE ~Exists(s)
      <4>1. series[s] = NoRow
        BY <3>3 DEF Exists
      <4>2. [series[s] EXCEPT !.version = installed] = NoRow
        BY <4>1 DEF NoRow
      <4>3. series' = series
        BY <2>2, <4>1, <4>2 DEF SeriesInv, JobsTypeOK
      <4>. QED  BY <4>3 DEF Exists
    <3>. QED  BY <3>2, <3>3
  <2>. QED  BY <1>3, <2>1, <2>2
<1>11. Carried
  <2>1. \A t \in Series : Exists(t) => series[t].through \in Int
    BY SeriesAssumption DEF SeriesInv, JobsTypeOK, SeriesRow, Exists, SeriesAssumption
  <2>2. \A v \in Workers : jobs[v].job = "rolling" => jobs[v].through \in Int
    BY JobKinds, SeriesAssumption DEF SeriesInv, JobsTypeOK, Rolling, SeriesAssumption
  <2>. QED  BY <1>1, <1>7, <1>10, <2>1, <2>2 DEF Carried
<1>12. Recorded
  <2>1. ASSUME ~jobs[w].conflict, NEW b \in BookingIds, ToCome(b, s)'
        PROVE  Placed(b)'
    <3>1. ToCome(b, s)
      BY <1>3, <2>1 DEF ToCome, Lives
    <3>2. Placed(b)
      BY <1>1, <1>2, <2>1, <3>1 DEF JobRows, RematInv
    <3>. QED  BY <1>3, <3>2 DEF Placed
  <2>. QED  BY <1>10, <2>1 DEF Recorded
<1>13. SeriesGoOn
  BY <1>3, <1>10, <1>11, <1>12 DEF SeriesGoOn
<1>14. \A t \in Series : confirming[t] # NoConfirm => series'[t].through = Count
  BY <1>10 DEF OccurrenceInv, ConfirmingInv, SeriesInv, ConfirmInv
<1>. QED  BY <1>3, <1>5, <1>6, <1>8, <1>9, <1>13, <1>14, RunOccurrences

-----------------------------------------------------------------------------
(* A deployment: the runs and confirms end, the rows stay.                  *)

LEMMA UpgradeRows ==
    ASSUME SeriesInv, SeriesInv', OccurrenceInv, Upgrade
    PROVE  OccurrenceInv'
<1>1. /\ installed' = installed + 1 /\ bookings' = bookings /\ now' = now
      /\ edited' = edited /\ series' = series
      /\ \A w \in Workers : jobs'[w] = Idle
      /\ \A s \in Series : confirming'[s] = NoConfirm
      /\ lagging' = lagging \cup RolledBy(Workers)
  BY DEF Upgrade, bookingVars
<1>2. /\ \A b \in BookingIds, s \in Series : Lives(b, s)' <=> Lives(b, s)
      /\ \A b \in BookingIds, d \in Dates : At(b, d)' <=> At(b, d)
      /\ \A s \in Series : Exists(s)' <=> Exists(s)
  BY <1>1 DEF Lives, At, Exists
<1>3. ReleaseInv' /\ ConfirmingInv'
  BY <1>1 DEF ReleaseInv, ConfirmingInv, Idle
<1>4. \A s \in Series : Exists(s)' => series'[s].version <= installed'
  <2>1. installed \in Int /\ \A s \in Series : Exists(s) => series[s].version \in Int
    BY SeriesAssumption DEF SeriesInv, JobsTypeOK, Releases, SeriesRow, Exists, SeriesAssumption
  <2>. QED  BY <1>1, <1>2, <2>1 DEF OccurrenceInv
<1>5. DateInv' /\ UniqueInv'
  BY <1>1, <1>2 DEF OccurrenceInv, DateInv, UniqueInv
<1>6. BeyondInv'
  <2>1. ASSUME NEW s \in Series \ lagging', NEW b \in BookingIds, NEW d \in Dates,
               Lives(b, s), At(b, d), d > series[s].through
        PROVE  FALSE
    <3>1. PICK w \in Workers : jobs[w].job = "rolling" /\ jobs[w].current = s
      BY <1>1, <2>1 DEF OccurrenceInv, BeyondInv
    <3>2. s \in RolledBy(Workers)
      BY <3>1, TableAssumption DEF RolledBy, TableAssumption
    <3>. QED  BY <1>1, <3>2
  <2>. QED  BY <1>1, <1>2, <2>1 DEF BeyondInv
<1>7. NoneLeftBehind'
  BY <1>1 DEF OccurrenceInv, NoneLeftBehind, Exists
<1>8. \A w \in Workers : JobRows(jobs[w])'
  BY <1>1 DEF JobRows, RollInv, TargetsInv, RematInv, Idle
<1>. QED  BY <1>3, <1>4, <1>5, <1>6, <1>7, <1>8 DEF OccurrenceInv

LEMMA OccurrenceInvStep ==
    ASSUME SeriesInv, SeriesInv', OccurrenceInv, [SeriesNext]_seriesVars
    PROVE  OccurrenceInv'
<1>1. RowsStep
  BY SeriesStepIsRowsStep DEF OccurrenceInv
<1>2. ASSUME NEW w \in Workers, JobStep(w) \/ JobStops(w)
      PROVE  OccurrenceInv'
  <2>1. CASE StartRolling(w)
    BY <1>1, <2>1, StartRollingRows
  <2>2. ASSUME NEW s \in Series, RollOccurrence(w, s)
        PROVE  OccurrenceInv'
    BY <1>1, <2>2, RollOccurrenceRows
  <2>3. CASE AdvanceWatermark(w)
    BY <1>1, <2>3, AdvanceWatermarkRows
  <2>4. CASE RollingEnds(w) \/ RematEnds(w) \/ JobStops(w)
    BY <1>1, <2>4, RunEndsRows
  <2>5. CASE StartRemat(w)
    BY <1>1, <2>5, StartRematRows
  <2>6. ASSUME NEW s \in Series, ReadOccurrences(w, s)
        PROVE  OccurrenceInv'
    BY <1>1, <2>6, ReadOccurrencesRows
  <2>7. ASSUME NEW e \in Target, MoveOccurrence(w, e)
        PROVE  OccurrenceInv'
    BY <1>1, <2>7, MoveOccurrenceRows
  <2>8. CASE StampSeries(w)
    BY <1>1, <2>8, StampSeriesRows
  <2>. QED  BY <1>2, <2>1, <2>2, <2>3, <2>4, <2>5, <2>6, <2>7, <2>8 DEF JobStep
<1>3. ASSUME NEW s \in Series, NEW q \in Series, ConfirmSeries(s, q)
      PROVE  OccurrenceInv'
  BY <1>1, <1>3, ConfirmSeriesRows
<1>4. ASSUME UNCHANGED <<series, confirming, jobs, installed, lagging>>, now' \in {now, now + 1}
      PROVE  OccurrenceInv'
  BY <1>1, <1>4, BesideOccurrences
<1>5. ASSUME NEW s \in Series, ConfirmOccurrence(s)
      PROVE  OccurrenceInv'
  <2>1. /\ UNCHANGED <<series, jobs, installed, lagging>>
        /\ \E d \in Dates : confirming' = [confirming EXCEPT ![s].left = @ \ {d}]
        /\ confirming[s] \in Confirm /\ confirming[s] # NoConfirm
    BY <1>5 DEF ConfirmOccurrence, FirstOf, SeriesInv, JobsTypeOK, Confirm
  <2>2. now' = now
    BY <1>5 DEF ConfirmOccurrence, AttemptOccurrence, CreateOccurrence, CreateBooking, Taken, bookingVars
  <2>3. /\ confirming'[s].version = confirming[s].version
        /\ \A t \in Series : t # s => confirming'[t] = confirming[t]
    BY <2>1 DEF SeriesInv, JobsTypeOK, Confirm
  <2>. QED  BY <1>1, <2>1, <2>2, <2>3, BesideOccurrences
<1>6. ASSUME NEW s \in Series, ConfirmAnswers(s) \/ ConfirmStops(s)
      PROVE  OccurrenceInv'
  <2>1. /\ UNCHANGED <<series, jobs, installed, lagging>> /\ now' = now
        /\ confirming' = [confirming EXCEPT ![s] = NoConfirm]
    BY <1>6 DEF ConfirmAnswers, ConfirmStops, bookingVars, histories
  <2>2. /\ confirming'[s] = NoConfirm
        /\ \A t \in Series : t # s => confirming'[t] = confirming[t]
    BY <2>1 DEF SeriesInv, JobsTypeOK
  <2>. QED  BY <1>1, <2>1, <2>2, BesideOccurrences
<1>7. CASE UserStep
  <2>1. ASSUME NEW s \in Series, NEW r \in Resources, NEW u \in Users, PreviewSeries(s, r, u)
        PROVE  OccurrenceInv'
    BY <1>4, <2>1 DEF PreviewSeries, bookingVars, histories
  <2>2. ASSUME NEW r \in Resources, NEW u \in Users, NEW p \in UserSlots, UserBooks(r, u, p)
        PROVE  OccurrenceInv'
    BY <1>4, <2>2 DEF UserBooks, Book, CreateBooking, histories
  <2>3. ASSUME NEW u \in Users, NEW b \in BookingIds, NEW p \in UserSlots, UserEdits(u, b, p)
        PROVE  OccurrenceInv'
    BY <1>4, <2>3 DEF UserEdits, Edit
  <2>4. ASSUME NEW b \in BookingIds, UserCancels(b)
        PROVE  OccurrenceInv'
    BY <1>4, <2>4 DEF UserCancels, Cancel, histories
  <2>5. ASSUME NEW s \in Series, UserCancelsSeries(s)
        PROVE  OccurrenceInv'
    BY <1>4, <2>5 DEF UserCancelsSeries, CancelSeries, histories
  <2>. QED  BY <1>3, <1>5, <1>6, <1>7, <2>1, <2>2, <2>3, <2>4, <2>5 DEF UserStep
<1>8. CASE Upgrade
  BY <1>8, UpgradeRows
<1>9. CASE TimePasses
  BY <1>4, <1>9 DEF TimePasses, Tick, histories
<1>10. CASE UNCHANGED seriesVars
  BY <1>4, <1>10 DEF seriesVars
<1>. QED  BY <1>2, <1>6, <1>7, <1>8, <1>9, <1>10 DEF SeriesNext

LEMMA OccurrenceInvStart == SeriesInit => OccurrenceInv
<1>. SUFFICES ASSUME SeriesInit PROVE OccurrenceInv
  OBVIOUS
<1>. USE SeriesAssumption DEF SeriesAssumption
<1>1. SeriesInv
  BY SeriesStart
<1>2. /\ \A w \in Workers : jobs[w] = Idle
      /\ \A s \in Series : confirming[s] = NoConfirm
      /\ \A b \in BookingIds : bookings[b].status # "confirmed"
      /\ installed = 0 /\ \A s \in Series : Exists(s) => series[s].version = 0
  BY DEF SeriesInit, Init, Absent, Exists
<1>3. \A b \in BookingIds, s \in Series : ~Lives(b, s)
  BY <1>2 DEF Lives
<1>4. ReleaseInv /\ DateInv /\ UniqueInv /\ BeyondInv /\ ConfirmingInv /\ NoneLeftBehind
  BY <1>2, <1>3 DEF ReleaseInv, DateInv, UniqueInv, BeyondInv, ConfirmingInv, NoneLeftBehind, Idle
<1>5. \A w \in Workers : JobRows(jobs[w])
  BY <1>2 DEF JobRows, RollInv, TargetsInv, RematInv, Idle
<1>. QED  BY <1>2, <1>4, <1>5 DEF OccurrenceInv

LEMMA OccurrenceInvariance == SeriesSpec => []OccurrenceInv
BY SeriesInvariance, OccurrenceInvStart, OccurrenceInvStep, PTL DEF SeriesSpec

\* Two occurrences of one series are of two dates, and dates lie apart.
LEMMA OneRowPerDate ==
    ASSUME SeriesInv, OccurrenceInv
    PROVE  OneBookingPerDate
<1>1. ASSUME NEW s \in Series \ lagging, NEW b \in BookingIds, NEW c \in BookingIds,
             Lives(b, s), Lives(c, s), b # c
      PROVE  Distance(bookings[b].range[1], bookings[c].range[1]) > Nearby
  <2>1. PICK v \in Releases, d \in Dates : bookings[b].range = Occurrence(v, d)
    BY <1>1 DEF OccurrenceInv, DateInv, At
  <2>2. PICK w \in Releases, e \in Dates : bookings[c].range = Occurrence(w, e)
    BY <1>1 DEF OccurrenceInv, DateInv, At
  <2>3. d # e
    BY <1>1, <2>1, <2>2 DEF OccurrenceInv, UniqueInv, At
  <2>4. ~(Distance(Occurrence(v, d)[1], Occurrence(w, e)[1]) <= Nearby)
    BY <2>3, PlaceTellsDate
  <2>5. /\ Occurrence(v, d)[1] \in Int /\ Occurrence(w, e)[1] \in Int /\ Nearby \in Int
    BY OccurrencesInOrder, SeriesAssumption DEF SeriesAssumption, Dates
  <2>. QED  BY <2>1, <2>2, <2>4, <2>5 DEF Distance
<1>. QED  BY <1>1 DEF OneBookingPerDate, Lives

-----------------------------------------------------------------------------
(* What follows.                                                            *)

\* Bookings, series rows, previews, confirms and runs always have their shapes,
\* whatever the jobs of tasks.py and the services of recurring_series.py do.
THEOREM SeriesTypeCorrect == SeriesSpec => []SeriesTypeOK
BY SeriesInvariance, SeriesInvImplies, PTL

\* The watermark of rolling_materialize_series never passes a date over, with
\* any number of overlapping runs, interruptions and releases.
THEOREM WatermarkSkipsNothing == SeriesSpec => []NoDatePassedOver
BY SeriesInvariance, SeriesInvImplies, PTL

\* Occurrences booked and moved by the system, beside the bookings and edits of
\* the users, never overlap another booking of the resource.
THEOREM SeriesNeverDoubleBook == SeriesSpec => []NoOverlappingBookings
<1>1. SeriesInit => NoOverlappingBookings
  BY DEF SeriesInit, Init, NoOverlappingBookings, Absent
<1>2. SeriesInv /\ NoOverlappingBookings /\ [SeriesNext]_seriesVars => NoOverlappingBookings'
  BY SeriesStepIsTableStep, TableStepNoOverlap DEF SeriesInv
<1>. QED  BY <1>1, <1>2, SeriesInvariance, PTL DEF SeriesSpec

\* The booking table under series and jobs keeps the promise of the calendar:
\* a firm claim ends only by being given up, and none is granted over another.
THEOREM SeriesImplementsTheCalendar == SeriesSpec => ImplementsCalendar
<1>1. SeriesInit => Abs!CalendarInit
  BY EmptyTableStarts DEF SeriesInit, Init
<1>2. SeriesInv /\ [SeriesNext]_seriesVars => [Abs!CalendarNext]_Claims
  BY SeriesStepIsTableStep, TableStepCalendar DEF SeriesInv
<1>. QED
  BY <1>1, <1>2, SeriesInvariance, PTL DEF SeriesSpec, ImplementsCalendar, Abs!CalendarSpec

\* The occurrences to come of a series recorded under a release are where that
\* release or a later one has them, however rolling runs, re-materialization,
\* confirms, cancellations, bookings of others, cut-offs and releases
\* interleave (tasks.py, rematerialize_stale_series).
THEOREM NobodyIsLeftBehind == SeriesSpec => []NoneLeftBehind
BY OccurrenceInvariance, PTL DEF OccurrenceInv

\* A date of a series is booked once, by whatever run, confirm and release,
\* unless its watermark has fallen behind what was booked
\* (tasks.py, rolling_materialize_series).
THEOREM EachDateBookedOnce == SeriesSpec => []OneBookingPerDate
BY SeriesInvariance, OccurrenceInvariance, OneRowPerDate, PTL

-----------------------------------------------------------------------------
(* Part 3.  From local times to instants (Recurrence): for a zone with any  *)
(* transition, in either direction and of any size, any times of day and    *)
(* any number of dates.                                                     *)

\* Putting a date and a time of day together gives back the local time they
\* were taken from.
LEMMA LocalIsInstant ==
  ASSUME NEW z, NEW l \in Int
  PROVE  LocalToInstant(z, l, l \div Day) = Instant(z, l, 0)
<1>1. Day * (l \div Day) + (l % Day) = l
  BY RecurrenceAssumption
<1>. QED  BY <1>1 DEF LocalToInstant

\* Where a local time lies about the transition of a zone: the clock shows it
\* once, before or after; skips it; or shows it twice.
LiesBefore(z, l)  == l < z.at + z.before /\ l < z.at + z.after
LiesAfter(z, l)   == l >= z.at + z.before /\ l >= z.at + z.after
IsSkipped(z, l) == l >= z.at + z.before /\ l < z.at + z.after
IsTwice(z, l)   == l < z.at + z.before /\ l >= z.at + z.after

LEMMA ZoneTypes ==
  ASSUME NEW z \in Zones
  PROVE  /\ z.at \in Int /\ z.before \in Int /\ z.after \in Int /\ Day \in Nat
         /\ 0 - Day < z.before /\ z.before < Day
         /\ 0 - Day < z.after /\ z.after < Day
<1>1. z \in [at : Int, before : Offsets, after : Offsets]
  BY RecurrenceAssumption
<1>2. Day \in Nat
  BY RecurrenceAssumption
<1>. QED  BY <1>1, <1>2 DEF Offsets

LEMMA InstantOfLocal ==
  ASSUME NEW z \in Zones, NEW l \in Int
  PROVE  /\ Instant(z, l, 0) = IF LiesAfter(z, l) THEN l - z.after ELSE l - z.before
         /\ Instant(z, l, 1) = IF LiesBefore(z, l) THEN l - z.before ELSE l - z.after
BY ZoneTypes DEF Instant, OffsetOf, Larger, Smaller, LiesBefore, LiesAfter

LEMMA WallOfInstant ==
  ASSUME NEW z \in Zones, NEW l \in Int
  PROVE  /\ Wall(z, l - z.before) = l <=> l < z.at + z.before \/ z.before = z.after
         /\ Wall(z, l - z.after) = l <=> l >= z.at + z.after \/ z.before = z.after
<1>1. z.at \in Int /\ z.before \in Int /\ z.after \in Int
  BY ZoneTypes
<1>2. Wall(z, l - z.before) = IF l < z.at + z.before THEN l ELSE (l - z.before) + z.after
  BY <1>1 DEF Wall
<1>3. Wall(z, l - z.after) = IF l >= z.at + z.after THEN l ELSE (l - z.after) + z.before
  BY <1>1 DEF Wall
<1>. QED  BY <1>1, <1>2, <1>3

\* How a local time is told to the user.
LEMMA IssueOfLocal ==
  ASSUME NEW z \in Zones, NEW l \in Int
  PROVE  /\ IsNonexistent(z, l) <=> IsSkipped(z, l)
         /\ IsAmbiguous(z, l) <=> IsTwice(z, l)
         /\ IsSkipped(z, l) => TransitionGap(z, l) = z.after - z.before
<1>1. IsNonexistent(z, l) <=> IsSkipped(z, l)
  BY ZoneTypes, InstantOfLocal, WallOfInstant DEF IsNonexistent, IsSkipped, LiesAfter
<1>2. IsAmbiguous(z, l) <=> IsTwice(z, l)
  BY <1>1, ZoneTypes, InstantOfLocal DEF IsAmbiguous, IsSkipped, IsTwice, LiesBefore, LiesAfter
<1>3. IsSkipped(z, l) => TransitionGap(z, l) = z.after - z.before
  BY ZoneTypes, InstantOfLocal DEF TransitionGap, IsSkipped, LiesBefore, LiesAfter
<1>. QED  BY <1>1, <1>2, <1>3

-----------------------------------------------------------------------------
(* An occurrence.                                                           *)

LEMMA DefinitionTypes ==
  ASSUME NEW d \in Definitions, NEW date \in Int
  PROVE  /\ d.from \in Int /\ d.to \in Int /\ 0 <= d.from /\ d.from < d.to /\ d.to < Day
         /\ Day * date + d.from \in Int /\ Day * date + d.to \in Int
         /\ Day * date + d.to = (Day * date + d.from) + (d.to - d.from)
<1>1. d \in [from : 0..(Day - 1), to : 0..(Day - 1)] /\ d.from < d.to
  BY DEF Definitions
<1>2. Day \in Nat /\ Day * date \in Int
  BY RecurrenceAssumption
<1>. QED  BY <1>1, <1>2

\* Its start and end, by the region of its start.
LEMMA OccurrenceIs ==
  ASSUME NEW z \in Zones, NEW d \in Definitions, NEW date \in Int
  PROVE  LET o == MaterializeOccurrence(z, d, date)
             l == Day * date + d.from
             e == Day * date + d.to
         IN  /\ o.date = date
             /\ LiesAfter(z, l) => o.start = l - z.after
             /\ ~LiesAfter(z, l) => o.start = l - z.before
             /\ IsSkipped(z, l) => o.end = e - z.before
             /\ ~IsSkipped(z, l) /\ LiesAfter(z, e) => o.end = e - z.after
             /\ ~IsSkipped(z, l) /\ ~LiesAfter(z, e) => o.end = e - z.before
             /\ o.issue = IF IsSkipped(z, l) THEN "nonexistent_local_time"
                          ELSE IF IsTwice(z, l) THEN "ambiguous_local_time" ELSE "none"
<1>. DEFINE o == MaterializeOccurrence(z, d, date)
            l == Day * date + d.from
            e == Day * date + d.to
            gap == IF IsNonexistent(z, l) THEN TransitionGap(z, l) ELSE 0
<1>1. l \in Int /\ e \in Int /\ l < e
  BY DefinitionTypes
<1>2. /\ o.date = date
      /\ o.start = LocalToInstant(z, l + gap, (l + gap) \div Day)
      /\ o.end = LocalToInstant(z, e + gap, (e + gap) \div Day)
      /\ o.issue = IF IsNonexistent(z, l) THEN "nonexistent_local_time"
                   ELSE IF IsAmbiguous(z, l) THEN "ambiguous_local_time" ELSE "none"
  BY DEF MaterializeOccurrence
<1>. HIDE DEF o, l, e
<1>3. gap = IF IsSkipped(z, l) THEN z.after - z.before ELSE 0
  BY <1>1, IssueOfLocal
<1>4. l + gap \in Int /\ e + gap \in Int
  BY <1>1, <1>3, ZoneTypes
<1>. HIDE DEF gap
<1>5. o.start = Instant(z, l + gap, 0) /\ o.end = Instant(z, e + gap, 0)
  BY <1>2, <1>4, LocalIsInstant
<1>6. CASE IsSkipped(z, l)
  <2>1. LiesAfter(z, l + gap) /\ LiesAfter(z, e + gap) /\ ~LiesAfter(z, l)
    BY <1>1, <1>3, <1>6, ZoneTypes DEF IsSkipped, LiesAfter
  <2>2. o.start = (l + gap) - z.after /\ o.end = (e + gap) - z.after
    BY <1>4, <1>5, <2>1, InstantOfLocal
  <2>3. o.start = l - z.before /\ o.end = e - z.before
    BY <1>1, <1>3, <1>6, <2>2, ZoneTypes
  <2>. QED  BY <1>1, <1>2, <1>6, <2>1, <2>3, IssueOfLocal DEF o, l, e
<1>7. CASE ~IsSkipped(z, l)
  <2>1. l + gap = l /\ e + gap = e
    BY <1>1, <1>3, <1>7
  <2>2. o.start = Instant(z, l, 0) /\ o.end = Instant(z, e, 0)
    BY <1>5, <2>1
  <2>. QED  BY <1>1, <1>2, <1>7, <2>2, InstantOfLocal, IssueOfLocal DEF o, l, e
<1>. QED  BY <1>6, <1>7

LEMMA OccurrenceTypes ==
  ASSUME NEW z \in Zones, NEW d \in Definitions, NEW date \in Int
  PROVE  LET o == MaterializeOccurrence(z, d, date)
         IN  /\ o.date = date
             /\ o.start \in Int /\ o.end \in Int
             /\ \E offset \in Offsets : o.start = (Day * date + d.from) - offset
<1>1. z.before \in Offsets /\ z.after \in Offsets
  BY RecurrenceAssumption
<1>. DEFINE o == MaterializeOccurrence(z, d, date)
            l == Day * date + d.from
            e == Day * date + d.to
<1>2. l \in Int /\ e \in Int /\ z.before \in Int /\ z.after \in Int
  BY DefinitionTypes, ZoneTypes
<1>3. o.date = date
  BY OccurrenceIs
<1>4. o.start \in {l - z.before, l - z.after}
  <2>1. CASE LiesAfter(z, l)
    BY <2>1, OccurrenceIs
  <2>2. CASE ~LiesAfter(z, l)
    BY <2>2, OccurrenceIs
  <2>. QED  BY <2>1, <2>2
<1>5. o.end \in {e - z.before, e - z.after}
  <2>1. CASE ~IsSkipped(z, l) /\ LiesAfter(z, e)
    BY <2>1, OccurrenceIs
  <2>2. CASE ~(~IsSkipped(z, l) /\ LiesAfter(z, e))
    BY <2>2, OccurrenceIs
  <2>. QED  BY <2>1, <2>2
<1>. HIDE DEF o, l, e
<1>6. o.start \in Int /\ o.end \in Int
  BY <1>2, <1>4, <1>5
<1>7. \E offset \in Offsets : o.start = l - offset
  BY <1>1, <1>4
<1>. QED  BY <1>3, <1>6, <1>7 DEF o, l

-----------------------------------------------------------------------------
(* It begins and ends as requested.                                         *)

LEMMA ShownWhere ==
  ASSUME NEW z \in Zones, NEW l \in Int
  PROVE  /\ LiesBefore(z, l) => ShownAt(z, l) = {l - z.before}
         /\ LiesAfter(z, l) => ShownAt(z, l) = {l - z.after}
         /\ IsSkipped(z, l) => ShownAt(z, l) = {}
         /\ IsTwice(z, l) => ShownAt(z, l) = {l - z.before, l - z.after}
<1>1. z.at \in Int /\ z.before \in Int /\ z.after \in Int
  BY ZoneTypes
<1>2. /\ l - z.before \in ShownAt(z, l) <=> l < z.at + z.before \/ z.before = z.after
      /\ l - z.after \in ShownAt(z, l) <=> l >= z.at + z.after \/ z.before = z.after
      /\ ShownAt(z, l) \subseteq {l - z.before, l - z.after}
  BY WallOfInstant DEF ShownAt
<1>3. CASE LiesBefore(z, l)
  BY <1>1, <1>2, <1>3 DEF LiesBefore, LiesAfter, IsSkipped, IsTwice
<1>4. CASE LiesAfter(z, l)
  BY <1>1, <1>2, <1>4 DEF LiesBefore, LiesAfter, IsSkipped, IsTwice
<1>5. CASE IsSkipped(z, l)
  BY <1>1, <1>2, <1>5 DEF LiesBefore, LiesAfter, IsSkipped, IsTwice
<1>6. CASE IsTwice(z, l)
  BY <1>1, <1>2, <1>6 DEF LiesBefore, LiesAfter, IsSkipped, IsTwice
<1>. QED  BY <1>1, <1>3, <1>4, <1>5, <1>6 DEF LiesBefore, LiesAfter, IsSkipped, IsTwice

LEMMA StartIsRequested ==
  ASSUME zone \in Zones, definition \in Definitions, NEW date \in Int
  PROVE  StartsAsRequested(MaterializeOccurrence(zone, definition, date))
<1>. DEFINE o == MaterializeOccurrence(zone, definition, date)
            l == Day * date + definition.from
<1>1. l \in Int /\ zone.at \in Int /\ zone.before \in Int /\ zone.after \in Int
  BY ZoneTypes, DefinitionTypes
<1>2. /\ o.date = date
      /\ o.start = IF LiesAfter(zone, l) THEN l - zone.after ELSE l - zone.before
      /\ o.issue = IF IsSkipped(zone, l) THEN "nonexistent_local_time"
                   ELSE IF IsTwice(zone, l) THEN "ambiguous_local_time" ELSE "none"
  BY OccurrenceIs
<1>. HIDE DEF o, l
<1>3. CASE LiesBefore(zone, l) \/ LiesAfter(zone, l)
  <2>1. ~IsSkipped(zone, l) /\ ~IsTwice(zone, l)
    BY <1>1, <1>3 DEF LiesBefore, LiesAfter, IsSkipped, IsTwice
  <2>2. ShownAt(zone, l) = {o.start}
    BY <1>1, <1>2, <1>3, ShownWhere DEF LiesBefore, LiesAfter
  <2>. QED  BY <1>2, <2>1, <2>2 DEF StartsAsRequested, l, o
<1>4. CASE IsTwice(zone, l)
  <2>1. ~IsSkipped(zone, l) /\ ~LiesAfter(zone, l) /\ zone.after < zone.before
    BY <1>1, <1>4 DEF LiesAfter, IsSkipped, IsTwice
  <2>2. ShownAt(zone, l) = {l - zone.before, l - zone.after} /\ o.start = l - zone.before
    BY <1>1, <1>2, <1>4, <2>1, ShownWhere
  <2>3. ShownAt(zone, l) # {o.start} /\ IsFirstShown(zone, o.start, l)
    BY <1>1, <2>1, <2>2 DEF IsFirstShown
  <2>. QED  BY <1>2, <1>4, <2>1, <2>3 DEF StartsAsRequested, l, o
<1>5. CASE IsSkipped(zone, l)
  <2>. DEFINE moved == l + (zone.after - zone.before)
  <2>1. ~LiesAfter(zone, l) /\ LiesAfter(zone, moved) /\ moved \in Int
    BY <1>1, <1>5 DEF LiesAfter, IsSkipped
  <2>2. ShownAt(zone, l) = {} /\ ShownAt(zone, moved) = {moved - zone.after}
    BY <1>1, <1>5, <2>1, ShownWhere
  <2>3. o.start = moved - zone.after
    BY <1>1, <1>2, <2>1
  <2>4. IsFirstShown(zone, o.start, moved)
    BY <1>1, <2>2, <2>3 DEF IsFirstShown
  <2>. QED  BY <1>2, <1>5, <2>2, <2>4 DEF StartsAsRequested, l, o
<1>. QED  BY <1>1, <1>3, <1>4, <1>5 DEF LiesBefore, LiesAfter, IsSkipped, IsTwice, o

LEMMA EndIsRequested ==
  ASSUME zone \in Zones, definition \in Definitions, NEW date \in Int
  PROVE  EndsAsRequested(MaterializeOccurrence(zone, definition, date))
<1>. DEFINE o == MaterializeOccurrence(zone, definition, date)
            l == Day * date + definition.from
            e == Day * date + definition.to
<1>1. /\ l \in Int /\ e \in Int /\ l < e /\ e = l + (definition.to - definition.from)
      /\ definition.from \in Int /\ definition.to \in Int
      /\ zone.at \in Int /\ zone.before \in Int /\ zone.after \in Int
  BY ZoneTypes, DefinitionTypes
<1>2. /\ o.date = date
      /\ o.start = IF LiesAfter(zone, l) THEN l - zone.after ELSE l - zone.before
      /\ o.end = IF ~IsSkipped(zone, l) /\ LiesAfter(zone, e) THEN e - zone.after ELSE e - zone.before
  <2>1. IsSkipped(zone, l) \/ ~IsSkipped(zone, l)
    OBVIOUS
  <2>. QED  BY <2>1, OccurrenceIs
<1>. HIDE DEF o, l, e
<1>3. o.start < o.end
  BY <1>1, <1>2 DEF LiesAfter, IsSkipped
<1>4. \/ Wall(zone, o.start) = l /\ Wall(zone, o.end) = e
      \/ o.end - o.start = definition.to - definition.from
  <2>1. CASE LiesAfter(zone, l) \/ IsSkipped(zone, l) \/ ~LiesAfter(zone, e)
    BY <1>1, <1>2, <2>1 DEF LiesAfter, IsSkipped
  <2>2. CASE ~LiesAfter(zone, l) /\ ~IsSkipped(zone, l) /\ LiesAfter(zone, e)
    <3>1. o.start = l - zone.before /\ o.end = e - zone.after
      BY <1>2, <2>2
    <3>2. l < zone.at + zone.before /\ e >= zone.at + zone.after
      BY <1>1, <2>2 DEF LiesAfter, IsSkipped
    <3>. QED  BY <1>1, <3>1, <3>2, WallOfInstant
  <2>. QED  BY <2>1, <2>2
<1>. QED  BY <1>2, <1>3, <1>4 DEF EndsAsRequested, l, e, o

-----------------------------------------------------------------------------
(* The nearest match.                                                       *)

\* Where the occurrence of a date may lie under any release.
Place(d, i, start) == \E offset \in Offsets : start = (Day * (7 * (i - 1)) + d.from) - offset

LEMMA ExpandedIs ==
  ASSUME NEW z \in Zones, NEW d \in Definitions
  PROVE  /\ DOMAIN ExpandOccurrences(z, d) = 1..OccurrenceCount
         /\ \A i \in 1..OccurrenceCount :
               LET o == ExpandOccurrences(z, d)[i]
               IN  /\ o.date = 7 * (i - 1)
                   /\ o.start \in Int /\ o.end \in Int
                   /\ Place(d, i, o.start)
<1>1. \A i \in 1..OccurrenceCount : 7 * (i - 1) \in Int
  BY RecurrenceAssumption
<1>. QED  BY <1>1, OccurrenceTypes DEF ExpandOccurrences, Place

\* Two places of one date are within two days, places of two dates are not.
LEMMA PlacesTellDates ==
  ASSUME NEW d \in Definitions, NEW i \in Nat, NEW j \in Nat,
         NEW s \in Int, NEW t \in Int, Place(d, i, s), Place(d, j, t)
  PROVE  /\ Between(s, t) \in Nat
         /\ i = j => Between(s, t) <= 2 * Day
         /\ i # j => Between(s, t) > 2 * Day
<1>1. PICK a \in Offsets : s = (Day * (7 * (i - 1)) + d.from) - a
  BY DEF Place
<1>2. PICK b \in Offsets : t = (Day * (7 * (j - 1)) + d.from) - b
  BY DEF Place
<1>3. /\ Day \in Nat \ {0}
      /\ a \in Int /\ 0 - Day < a /\ a < Day
      /\ b \in Int /\ 0 - Day < b /\ b < Day
  BY RecurrenceAssumption DEF Offsets
<1>4. d.from \in Int
  BY DefinitionTypes
<1>. DEFINE x == Day * (7 * (i - 1))
            y == Day * (7 * (j - 1))
<1>5. /\ x \in Int /\ y \in Int
      /\ i = j => x = y
      /\ i < j => y - x >= 7 * Day
      /\ j < i => x - y >= 7 * Day
  BY <1>3
<1>6. s = (x + d.from) - a /\ t = (y + d.from) - b
  BY <1>1, <1>2
<1>. HIDE DEF x, y
<1>. QED  BY <1>3, <1>4, <1>5, <1>6 DEF Between

\* The match of a place is the occurrence of its date.
LEMMA ClosestIs ==
  ASSUME NEW z \in Zones, NEW d \in Definitions, NEW i \in 1..OccurrenceCount,
         NEW s \in Int, Place(d, i, s)
  PROVE  /\ Closest(ExpandOccurrences(z, d), s) = i
         /\ Between(ExpandOccurrences(z, d)[i].start, s) <= 2 * Day
<1>. DEFINE occurrences == ExpandOccurrences(z, d)
            far(j) == Between(occurrences[j].start, s)
            nearest(k) == \A j \in 1..OccurrenceCount :
                             far(k) < far(j) \/ (far(k) = far(j) /\ k <= j)
<1>1. i \in Nat /\ OccurrenceCount \in Nat /\ Day \in Nat
  BY RecurrenceAssumption
<1>2. \A j \in 1..OccurrenceCount :
         far(j) \in Nat /\ (i = j => far(j) <= 2 * Day) /\ (i # j => far(j) > 2 * Day)
  <2>. SUFFICES ASSUME NEW j \in 1..OccurrenceCount
                PROVE  far(j) \in Nat /\ (i = j => far(j) <= 2 * Day) /\ (i # j => far(j) > 2 * Day)
    OBVIOUS
  <2>1. j \in Nat /\ occurrences[j].start \in Int /\ Place(d, j, occurrences[j].start)
    BY <1>1, ExpandedIs
  <2>. QED  BY <1>1, <2>1, PlacesTellDates
<1>3. Closest(occurrences, s) = CHOOSE k \in 1..OccurrenceCount : nearest(k)
  BY ExpandedIs DEF Closest
<1>. HIDE DEF far
<1>4. nearest(i)
  BY <1>1, <1>2
<1>5. \A k \in 1..OccurrenceCount : nearest(k) => k = i
  BY <1>1, <1>2
<1>. HIDE DEF nearest, occurrences
<1>6. (CHOOSE k \in 1..OccurrenceCount : nearest(k)) = i
  BY <1>4, <1>5
<1>. QED  BY <1>2, <1>3, <1>6 DEF far, occurrences
-----------------------------------------------------------------------------
(* What is stored, whatever releases it was materialized and moved under.   *)

Materialized == [date : Int, start : Int, end : Int,
                 issue : {"none", "ambiguous_local_time", "nonexistent_local_time"}]

StoredInv ==
    /\ zone \in Zones
    /\ definition \in Definitions
    /\ stored \in Seq(Materialized)
    /\ Len(stored) <= OccurrenceCount
    /\ \A i \in 1..Len(stored) :
          stored[i].date = 7 * (i - 1) /\ Place(definition, i, stored[i].start)

LEMMA ExpandedIsMaterialized ==
  ASSUME NEW z \in Zones, NEW d \in Definitions, NEW i \in 1..OccurrenceCount
  PROVE  ExpandOccurrences(z, d)[i] \in Materialized
<1>. DEFINE o == ExpandOccurrences(z, d)[i]
<1>1. o = MaterializeOccurrence(z, d, 7 * (i - 1))
  BY DEF ExpandOccurrences
<1>2. o.date = 7 * (i - 1) /\ o.date \in Int /\ o.start \in Int /\ o.end \in Int
  BY ExpandedIs, RecurrenceAssumption
<1>3. /\ o = [date |-> o.date, start |-> o.start, end |-> o.end, issue |-> o.issue]
      /\ o.issue \in {"none", "ambiguous_local_time", "nonexistent_local_time"}
  BY <1>1 DEF MaterializeOccurrence
<1>. HIDE DEF o
<1>4. o \in Materialized
  BY <1>2, <1>3 DEF Materialized
<1>. QED  BY <1>4 DEF o

LEMMA StoredStarts == RecurrenceInit => StoredInv
BY RecurrenceAssumption DEF RecurrenceInit, StoredInv

LEMMA StoredStep == StoredInv /\ [RecurrenceNext]_recurrenceVars => StoredInv'
<1>. SUFFICES ASSUME StoredInv, [RecurrenceNext]_recurrenceVars
              PROVE  StoredInv'
  OBVIOUS
<1>. USE DEF StoredInv
<1>. DEFINE occurrences == ExpandOccurrences(zone, definition)
<1>1. OccurrenceCount \in Nat /\ Len(stored) \in Nat
  BY RecurrenceAssumption
<1>2. CASE Materialize
  <2>. DEFINE n == Len(stored) + 1
  <2>1. n \in 1..OccurrenceCount
    BY <1>1, <1>2 DEF Materialize
  <2>2. occurrences[n] \in Materialized /\ occurrences[n].date = 7 * (n - 1)
        /\ Place(definition, n, occurrences[n].start)
    BY <2>1, ExpandedIs, ExpandedIsMaterialized
  <2>3. stored' = Append(stored, occurrences[n]) /\ UNCHANGED <<zone, definition>>
    BY <1>2 DEF Materialize
  <2>. HIDE DEF occurrences
  <2>4. /\ stored' \in Seq(Materialized) /\ Len(stored') = n
        /\ \A i \in 1..Len(stored) : stored'[i] = stored[i]
        /\ stored'[n] = occurrences[n]
    BY <2>2, <2>3
  <2>5. \A i \in 1..Len(stored') : i \in 1..Len(stored) \/ i = n
    BY <1>1, <2>4
  <2>6. \A i \in 1..Len(stored') :
           stored'[i].date = 7 * (i - 1) /\ Place(definition, i, stored'[i].start)
    BY <2>2, <2>4, <2>5
  <2>. QED  BY <2>1, <2>3, <2>4, <2>6
<1>3. ASSUME NEW z \in Zones, Release(z)
      PROVE  StoredInv'
  BY <1>3 DEF Release
<1>4. ASSUME NEW i \in DOMAIN stored, Rematerialize(i)
      PROVE  StoredInv'
  <2>1. i \in 1..Len(stored) /\ i \in 1..OccurrenceCount
    BY <1>1
  <2>2. stored[i].start \in Int
    <3>1. stored[i] \in Materialized
      BY <2>1
    <3>. QED  BY <3>1 DEF Materialized
  <2>3. Closest(occurrences, stored[i].start) = i
    BY <2>1, <2>2, ClosestIs
  <2>4. occurrences[i] \in Materialized /\ occurrences[i].date = 7 * (i - 1)
        /\ Place(definition, i, occurrences[i].start)
    BY <2>1, ExpandedIs, ExpandedIsMaterialized
  <2>5. stored' = [stored EXCEPT ![i] = occurrences[i]] /\ UNCHANGED <<zone, definition>>
    BY <1>4, <2>3 DEF Rematerialize
  <2>. HIDE DEF occurrences
  <2>. QED  BY <2>1, <2>4, <2>5
<1>5. CASE UNCHANGED recurrenceVars
  BY <1>5 DEF recurrenceVars
<1>. QED  BY <1>2, <1>3, <1>4, <1>5 DEF RecurrenceNext

LEMMA StoredHolds == RecurrenceSpec => []StoredInv
<1>. QED  BY StoredStarts, StoredStep, PTL DEF RecurrenceSpec

\* Every occurrence begins when the wall clock of its date first shows the
\* requested time, or later by what a gap skips, with its disclosure, and ends
\* after it as requested: for all transitions, in either direction and of any
\* size, and any times of day (recurrence.py over core/timezones.py).
THEOREM OccurrencesAreAsRequested == RecurrenceSpec => []OccursAsRequested
<1>1. StoredInv => OccursAsRequested
  <2>. SUFFICES ASSUME StoredInv, NEW i \in 1..OccurrenceCount
                PROVE  LET o == ExpandOccurrences(zone, definition)[i]
                       IN  StartsAsRequested(o) /\ EndsAsRequested(o)
    BY DEF OccursAsRequested
  <2>1. 7 * (i - 1) \in Int
    BY RecurrenceAssumption
  <2>2. ExpandOccurrences(zone, definition)[i]
           = MaterializeOccurrence(zone, definition, 7 * (i - 1))
    BY DEF ExpandOccurrences
  <2>. QED  BY <2>1, <2>2, StartIsRequested, EndIsRequested DEF StoredInv
<1>. QED  BY <1>1, StoredHolds, PTL

\* Whatever sequence of releases a stored occurrence has gone through, the
\* nearest one of the installed release is that of its own date
\* (rematerialize_stale_series: min over the distances, then two days).
THEOREM NearestIsItsOwnDate == RecurrenceSpec => []ClosestIsOfItsDate
<1>1. StoredInv => ClosestIsOfItsDate
  <2>. SUFFICES ASSUME StoredInv, NEW i \in DOMAIN stored
                PROVE  LET occurrences == ExpandOccurrences(zone, definition)
                           match == occurrences[Closest(occurrences, stored[i].start)]
                       IN  /\ match.date = stored[i].date
                           /\ Between(match.start, stored[i].start) <= 2 * Day
    BY DEF ClosestIsOfItsDate
  <2>1. i \in 1..Len(stored) /\ i \in 1..OccurrenceCount
    BY RecurrenceAssumption DEF StoredInv
  <2>2. stored[i].start \in Int /\ Place(definition, i, stored[i].start)
        /\ stored[i].date = 7 * (i - 1)
    <3>1. stored[i] \in Materialized
      BY <2>1 DEF StoredInv
    <3>2. stored[i].start \in Int
      BY <3>1 DEF Materialized
    <3>. QED  BY <2>1, <3>2 DEF StoredInv
  <2>3. /\ Closest(ExpandOccurrences(zone, definition), stored[i].start) = i
        /\ Between(ExpandOccurrences(zone, definition)[i].start, stored[i].start) <= 2 * Day
    BY <2>1, <2>2, ClosestIs DEF StoredInv
  <2>4. ExpandOccurrences(zone, definition)[i].date = 7 * (i - 1)
    BY <2>1, ExpandedIs DEF StoredInv
  <2>. QED  BY <2>2, <2>3, <2>4
<1>. QED  BY <1>1, StoredHolds, PTL

\* What the model of a series takes for granted of a release (SeriesAssumption of
\* RecurringSeries: a rule moves no date by as much as a third of a week) is what
\* the expansion gives: an occurrence starts at its week's time of day, moved by
\* an offset, which is less than a day in either direction.
THEOREM ReleasesAreNearby ==
  ASSUME Week = 7 * Day, Nearby = 2 * Day, OccurrenceCount = Count
  PROVE  /\ 3 * Nearby < Week
         /\ \A z \in Zones, d \in Definitions :
               \E rule \in [Dates -> 0..Nearby] :
                  \A i \in Dates :
                     ExpandOccurrences(z, d)[i].start
                        = (Week * (i - 1) + rule[i]) + (d.from - Day)
<1>1. Day \in Nat \ {0} /\ Dates = 1..OccurrenceCount /\ OccurrenceCount \in Nat
  BY RecurrenceAssumption DEF Dates
<1>2. ASSUME NEW z \in Zones, NEW d \in Definitions
      PROVE  \E rule \in [Dates -> 0..Nearby] :
                \A i \in Dates :
                   ExpandOccurrences(z, d)[i].start = (Week * (i - 1) + rule[i]) + (d.from - Day)
  <2>. DEFINE start(i) == ExpandOccurrences(z, d)[i].start
              rule == [i \in Dates |-> (start(i) - Week * (i - 1)) - (d.from - Day)]
  <2>1. ASSUME NEW i \in Dates
        PROVE  /\ (start(i) - Week * (i - 1)) - (d.from - Day) \in 0..Nearby
               /\ start(i) = (Week * (i - 1) + ((start(i) - Week * (i - 1)) - (d.from - Day)))
                                + (d.from - Day)
    <3>1. start(i) \in Int /\ Place(d, i, start(i))
      BY <1>1, ExpandedIs
    <3>2. PICK offset \in Offsets : start(i) = (Day * (7 * (i - 1)) + d.from) - offset
      BY <3>1 DEF Place
    <3>3. d.from \in Int /\ offset \in Int /\ 0 - Day < offset /\ offset < Day
      BY <1>1, DefinitionTypes DEF Offsets
    <3>. DEFINE w == Week * (i - 1)
    <3>4. w \in Int /\ w = Day * (7 * (i - 1))
      BY <1>1
    <3>. HIDE DEF w, start
    <3>5. start(i) = (w + d.from) - offset
      BY <3>2, <3>4
    <3>6. /\ (start(i) - w) - (d.from - Day) \in 0..Nearby
          /\ start(i) = (w + ((start(i) - w) - (d.from - Day))) + (d.from - Day)
      BY <1>1, <3>3, <3>4, <3>5
    <3>. QED  BY <3>6 DEF w
  <2>. HIDE DEF start
  <2>2. rule \in [Dates -> 0..Nearby]
    BY <2>1
  <2>3. \A i \in Dates : start(i) = (Week * (i - 1) + rule[i]) + (d.from - Day)
    BY <2>1
  <2>. WITNESS rule \in [Dates -> 0..Nearby]
  <2>. QED  BY <2>3 DEF start
<1>3. 3 * Nearby < Week
  BY <1>1
<1>. QED  BY <1>2, <1>3
=============================================================================
