--------------------------- MODULE Readers_proofs ---------------------------
(***************************************************************************)
(* Proofs about the two readers of the booking table that others write:    *)
(* the calendar page of a user (CalendarPage) and the watch over the       *)
(* constraint (Alerting).  For every value of the constants: any number of *)
(* clicks, retries and fetches, of rows, evaluations and changes.          *)
(***************************************************************************)
EXTENDS CalendarPage, Alerting, BookingTable_proofs

Sets == INSTANCE FiniteSetTheorems

-----------------------------------------------------------------------------
(* The inductive invariant.                                                 *)

AtWork(k)   == clicks[k].pc \in {"sent", "answered"}
Underway(k) == clicks[k].pc \in {"sent", "answered", "stray"}

\* What is made for a call, recorded under its key and answered to it agrees,
\* for as long as the page or the server is busy with it.
CallInv(c, table) ==
    /\ c.op = "create" => c.target \in Resources /\ c.range \in Range
    /\ c.op = "edit" => c.target \in BookingIds /\ c.range \in Range
    /\ c.op = "cancel" => c.target \in BookingIds
    /\ \/ c.made = {}
       \/ c.op = "create" /\ c.stored = "ok" /\ \E b \in BookingIds : c.made = {b}
    /\ c.answer \in {"ok", "conflict"} => c.answer = c.stored
    /\ c.op = "cancel" /\ c.stored = "ok" => table[c.target].status = "cancelled"
    /\ c.pc = "stray" => c.stored = "none"

\* The clicks are used in their order, one call is at work at a time, and each
\* call refetches at most once.
ClicksInv ==
    /\ \A k \in Clicks : Underway(k) => CallInv(clicks[k], bookings)
    /\ \A j, k \in Clicks : AtWork(j) /\ AtWork(k) => j = k
    /\ \A j, k \in Clicks : clicks[j] = NoCall /\ j < k => clicks[k] = NoCall
    /\ \A k \in Clicks : AtWork(k) \/ clicks[k] = NoCall => generation < k

SelectionInv ==
    selection \in {Nothing} \cup [kind : {"new"}] \cup [kind : {"manage"}, id : BookingIds]

\* Neither what is shown for the latest question nor what comes in for it has a
\* booking whose cancellation the page was told of.
GoneInv ==
    /\ \A b \in gone : bookings[b].status = "cancelled"
    /\ \A f \in fetches : f.live => \A x \in f.blocks : x.id \notin gone
    /\ shown.generation = generation => \A x \in shown.blocks : x.id \notin gone

IInv == CalendarTypeOK /\ ClicksInv /\ SelectionInv /\ GoneInv

-----------------------------------------------------------------------------
(* Parts of the invariant that a step leaves alone.                         *)

\* The table of a page's model: nothing is held or deleted in it.
PageTable == [BookingIds -> Settled \cup {Absent}]

\* Cancelled rows stay cancelled.
Forward(table) ==
    /\ table \in PageTable
    /\ \A b \in BookingIds : bookings[b].status = "cancelled" => table[b].status = "cancelled"

LEMMA PageTableIsTable == PageTable \subseteq Table
BY DEF PageTable, Table, Row

LEMMA PageRows ==
  ASSUME NEW x \in Row \cup {Absent, Deleted}
  PROVE  /\ x.status \in {"confirmed", "cancelled"} => x \in Settled
         /\ x \in Settled => x.status \in {"confirmed", "cancelled"}
         /\ x \in Settled \cup {Absent} /\ InTable(x) => x \in Settled
BY DEF Row, Held, Settled, InTable, Absent, Deleted

\* A statement that writes one row.
LEMMA OneRowForward ==
  ASSUME bookings \in PageTable, NEW table \in Table, NEW b \in BookingIds, table[b] \in Settled,
         \A c \in BookingIds \ {b} : table[c] = bookings[c],
         bookings[b].status = "cancelled" => table[b].status = "cancelled"
  PROVE  Forward(table)
<1>1. \A c \in BookingIds : table[c] \in Settled \cup {Absent}
  BY DEF PageTable
<1>2. table \in PageTable
  BY <1>1 DEF PageTable, Table
<1>. QED  BY <1>2 DEF Forward

LEMMA SameForward ==
  ASSUME bookings \in PageTable
  PROVE  Forward(bookings)
BY DEF Forward

LEMMA ClicksAreTyped ==
  ASSUME CalendarTypeOK, NEW k \in Clicks
  PROVE  /\ Underway(k) => clicks[k] \in Calls
         /\ ~Underway(k) => clicks[k] \in {NoCall, Done}
         /\ AtWork(k) => Underway(k)
         /\ clicks[k] = NoCall => ~Underway(k)
<1>1. clicks[k] \in Calls \cup {NoCall, Done}
  BY DEF CalendarTypeOK
<1>2. clicks[k] \in Calls => Underway(k)
  BY DEF Calls, Underway
<1>. QED  BY <1>1, <1>2 DEF NoCall, Done, Underway, AtWork

\* The table moves forward, and no call does.
LEMMA ClicksStay ==
  ASSUME IInv, Forward(bookings'), UNCHANGED <<clicks, generation>>
  PROVE  ClicksInv'
<1>1. ASSUME NEW k \in Clicks, Underway(k)
      PROVE  CallInv(clicks[k], bookings')
  BY <1>1 DEF IInv, ClicksInv, CallInv, Forward
<1>2. \A k \in Clicks : /\ Underway(k)' <=> Underway(k)
                        /\ AtWork(k)' <=> AtWork(k)
                        /\ clicks'[k] = clicks[k]
  BY DEF Underway, AtWork
<1>. QED  BY <1>1, <1>2 DEF IInv, ClicksInv

\* One call goes on, or is over.
LEMMA ClickMoves ==
  ASSUME IInv, Forward(bookings'), generation' = generation,
         NEW k \in Clicks, Underway(k), NEW c \in Calls \cup {Done},
         clicks' = [clicks EXCEPT ![k] = c],
         c # Done => CallInv(c, bookings'),
         c.pc \in {"sent", "answered"} => AtWork(k)
  PROVE  ClicksInv' /\ clicks' \in [Clicks -> Calls \cup {NoCall, Done}]
<1>1. clicks \in [Clicks -> Calls \cup {NoCall, Done}]
  BY DEF IInv, CalendarTypeOK
<1>2. /\ clicks'[k] = c
      /\ \A j \in Clicks \ {k} : clicks'[j] = clicks[j]
      /\ clicks' \in [Clicks -> Calls \cup {NoCall, Done}]
  BY <1>1
<1>3. c # NoCall /\ clicks[k] # NoCall
  BY ClicksAreTyped DEF IInv, Calls, NoCall, Done
<1>4. \A j \in Clicks : /\ AtWork(j)' => AtWork(j)
                        /\ clicks'[j] = NoCall <=> clicks[j] = NoCall
  BY <1>2, <1>3 DEF AtWork
<1>5. ASSUME NEW j \in Clicks, Underway(j)'
      PROVE  CallInv(clicks'[j], bookings')
  <2>1. CASE j = k
    <3>1. c # Done
      BY <1>2, <1>5, <2>1 DEF Underway, Done
    <3>. QED  BY <1>2, <2>1, <3>1
  <2>2. CASE j # k
    <3>1. Underway(j) /\ clicks'[j] = clicks[j]
      BY <1>2, <1>5, <2>2 DEF Underway
    <3>. QED  BY <3>1 DEF IInv, ClicksInv, CallInv, Forward
  <2>. QED  BY <2>1, <2>2
<1>. QED  BY <1>2, <1>4, <1>5 DEF IInv, ClicksInv

\* A step that tells the page nothing of its calls.
LEMMA GoneStays ==
  ASSUME IInv, Forward(bookings'), UNCHANGED <<fetches, shown, generation, gone>>
  PROVE  GoneInv'
BY DEF IInv, GoneInv, Forward, CalendarTypeOK

-----------------------------------------------------------------------------
(* The fetches.                                                             *)

FetchSet(g) == [view : Resources, generation : 0..g, live : BOOLEAN, read : BOOLEAN,
                blocks : SUBSET Blocks]

\* Only the new fetch is listened to.
LEMMA RefetchedTypes ==
  ASSUME CalendarTypeOK, NEW v \in Resources, NEW g \in Nat, generation <= g
  PROVE  /\ Refetched(v, g) \subseteq FetchSet(g)
         /\ \A f \in Refetched(v, g) : f.live => f.view = v /\ f.generation = g /\ f.blocks = {}
<1>1. Fetch(v, g) \in FetchSet(g)
  BY DEF Fetch, FetchSet
<1>. DEFINE Unheard(f) == [f EXCEPT !.live = FALSE, !.read = FALSE, !.blocks = {}]
<1>2. ASSUME NEW f \in fetches
      PROVE  Unheard(f) \in FetchSet(g) /\ ~Unheard(f).live
  <2>1. f \in FetchSet(generation) /\ generation \in Nat
    BY DEF CalendarTypeOK, FetchSet
  <2>2. f.generation \in 0..g
    BY <2>1 DEF FetchSet
  <2>. QED  BY <2>1, <2>2 DEF FetchSet
<1>3. Fetch(v, g).view = v /\ Fetch(v, g).generation = g /\ Fetch(v, g).blocks = {}
  BY DEF Fetch
<1>4. Refetched(v, g) = {Unheard(f) : f \in fetches} \cup {Fetch(v, g)}
  BY DEF Refetched
<1>. HIDE DEF Unheard
<1>. QED  BY <1>1, <1>2, <1>3, <1>4

LEMMA RowsHaveRanges ==
  ASSUME NEW row \in Row
  PROVE  row.range \in Range
BY DEF Row, Held, Settled

\* The blocks of the server have no cancelled booking.
LEMMA BusyBlocksTypes ==
  ASSUME bookings \in PageTable, NEW r \in Resources
  PROVE  /\ BusyBlocks(r) \subseteq Blocks
         /\ \A x \in BusyBlocks(r) :
               x.id \in BookingIds => bookings[x.id].status # "cancelled"
<1>1. ASSUME NEW b \in BookingIds, InExclusionDomain(bookings[b])
      PROVE  bookings[b].range \in Range /\ bookings[b].status # "cancelled"
  <2>1. bookings[b] \in Row
    BY <1>1, PageTableIsTable, InTableIsRow DEF Table, InExclusionDomain
  <2>2. bookings[b].range \in Range
    BY <2>1, RowsHaveRanges
  <2>. QED  BY <1>1, <2>2 DEF InExclusionDomain
<1>2. Opaque \notin BookingIds
  BY DEF Opaque, BookingIds
<1>3. ASSUME NEW x \in BusyBlocks(r)
      PROVE  x \in Blocks /\ (x.id \in BookingIds => bookings[x.id].status # "cancelled")
  <2>1. PICK b \in BookingIds :
           /\ InExclusionDomain(bookings[b])
           /\ x = [range |-> bookings[b].range,
                   id |-> IF Revealed(bookings[b]) THEN b ELSE Opaque]
    BY DEF BusyBlocks
  <2>2. PICK id \in {b, Opaque} : x = [range |-> bookings[b].range, id |-> id]
    BY <2>1
  <2>3. x \in Blocks /\ x.id = id
    BY <1>1, <2>1, <2>2 DEF Blocks
  <2>. QED  BY <1>1, <1>2, <2>1, <2>2, <2>3
<1>. QED  BY <1>3

-----------------------------------------------------------------------------
(* The steps of the page without a call.                                    *)

LEMMA ReadStep ==
  ASSUME IInv, NEW f \in fetches, ReadAvailability(f)
  PROVE  IInv'
<1>1. bookings \in PageTable
  BY DEF IInv, CalendarTypeOK, PageTable
<1>2. f \in FetchSet(generation) /\ f.live
  BY DEF IInv, CalendarTypeOK, FetchSet, ReadAvailability
<1>. DEFINE g == [f EXCEPT !.read = TRUE, !.blocks = BusyBlocks(f.view)]
<1>3. f.view \in Resources
  BY <1>2 DEF FetchSet
<1>4. /\ g \in FetchSet(generation)
      /\ g.view = f.view /\ g.generation = f.generation /\ g.blocks = BusyBlocks(f.view)
  BY <1>1, <1>2, <1>3, BusyBlocksTypes DEF FetchSet
<1>5. fetches' = (fetches \ {f}) \cup {g}
  BY DEF ReadAvailability
<1>. HIDE DEF g
<1>6. CalendarTypeOK'
  <2>1. fetches' \subseteq FetchSet(generation)
    BY <1>4, <1>5 DEF IInv, CalendarTypeOK, FetchSet
  <2>2. \A h \in fetches' : h.live => h.view = view /\ h.generation = generation
    BY <1>2, <1>4, <1>5 DEF IInv, CalendarTypeOK
  <2>3. UNCHANGED <<bookings, view, generation, shown, selection, pending, created, busy, clicks, gone>>
    BY DEF ReadAvailability
  <2>. QED  BY <2>1, <2>2, <2>3 DEF IInv, CalendarTypeOK, FetchSet
<1>7. ClicksInv'
  <2>1. UNCHANGED <<bookings, clicks, generation>>
    BY DEF ReadAvailability
  <2>. QED  BY <1>1, <2>1, SameForward, ClicksStay
<1>8. SelectionInv'
  BY DEF ReadAvailability, IInv, SelectionInv
<1>9. GoneInv'
  <2>1. \A x \in g.blocks : x.id \notin gone
    BY <1>1, <1>3, <1>4, BusyBlocksTypes DEF IInv, GoneInv, CalendarTypeOK
  <2>2. UNCHANGED <<bookings, generation, shown, gone>>
    BY DEF ReadAvailability
  <2>. QED  BY <1>5, <2>1, <2>2 DEF IInv, GoneInv
<1>. QED  BY <1>6, <1>7, <1>8, <1>9 DEF IInv

LEMMA ArrivedStep ==
  ASSUME IInv, NEW f \in fetches, f.live, NEW blocks \in SUBSET f.blocks, Arrived(f, blocks)
  PROVE  IInv'
<1>1. bookings \in PageTable
  BY DEF IInv, CalendarTypeOK, PageTable
<1>2. f \in FetchSet(generation) /\ f.generation = generation
  BY DEF IInv, CalendarTypeOK, FetchSet
<1>3. /\ shown'.view = f.view /\ shown'.generation = f.generation /\ shown'.blocks = blocks
      /\ fetches' \subseteq fetches
      /\ UNCHANGED <<bookings, view, generation, selection, pending, created, busy, clicks, gone>>
  BY DEF Arrived
<1>4. CalendarTypeOK'
  <2>1. /\ f.view \in Resources /\ f.generation \in -1..generation /\ blocks \subseteq Blocks
    BY <1>2 DEF FetchSet, IInv, CalendarTypeOK
  <2>. QED  BY <1>3, <2>1 DEF IInv, CalendarTypeOK
<1>5. ClicksInv'
  BY <1>1, <1>3, SameForward, ClicksStay
<1>6. SelectionInv'
  BY <1>3 DEF IInv, SelectionInv
<1>7. GoneInv'
  BY <1>2, <1>3 DEF IInv, GoneInv
<1>. QED  BY <1>4, <1>5, <1>6, <1>7 DEF IInv

LEMMA IgnoreStep ==
  ASSUME IInv, NEW f \in fetches, Ignore(f)
  PROVE  IInv'
<1>1. bookings \in PageTable
  BY DEF IInv, CalendarTypeOK, PageTable
<1>2. /\ fetches' \subseteq fetches
      /\ UNCHANGED <<bookings, view, generation, shown, selection, pending, created, busy, clicks, gone>>
  BY DEF Ignore
<1>3. CalendarTypeOK'
  BY <1>2 DEF IInv, CalendarTypeOK
<1>4. ClicksInv'
  BY <1>1, <1>2, SameForward, ClicksStay
<1>5. SelectionInv' /\ GoneInv'
  BY <1>2 DEF IInv, SelectionInv, GoneInv
<1>. QED  BY <1>3, <1>4, <1>5 DEF IInv

LEMMA NavigateStep ==
  ASSUME IInv, NEW v \in Resources, Navigate(v)
  PROVE  IInv'
<1>1. bookings \in PageTable /\ generation \in Nat
  BY DEF IInv, CalendarTypeOK, PageTable
<1>2. /\ view' = v /\ fetches' = Refetched(v, generation) /\ selection' = Nothing
      /\ pending' = {} /\ created' = {}
      /\ UNCHANGED <<bookings, generation, shown, busy, clicks, gone>>
  BY DEF Navigate
<1>3. /\ fetches' \subseteq FetchSet(generation)
      /\ \A f \in fetches' : f.live => f.view = v /\ f.generation = generation /\ f.blocks = {}
  BY <1>1, <1>2, RefetchedTypes DEF IInv
<1>4. CalendarTypeOK'
  BY <1>2, <1>3 DEF IInv, CalendarTypeOK, FetchSet, Nothing
<1>5. ClicksInv'
  BY <1>1, <1>2, SameForward, ClicksStay
<1>6. SelectionInv' /\ GoneInv'
  BY <1>2, <1>3 DEF IInv, SelectionInv, GoneInv
<1>. QED  BY <1>4, <1>5, <1>6 DEF IInv

\* The panel opens or closes.
LEMMA PanelStep ==
  ASSUME IInv, NEW s, OpenPanel(s),
         s \in {Nothing} \cup [kind : {"new"}] \cup [kind : {"manage"}, id : BookingIds]
  PROVE  IInv'
<1>1. bookings \in PageTable
  BY DEF IInv, CalendarTypeOK, PageTable
<1>2. /\ selection' = s
      /\ UNCHANGED <<bookings, view, generation, fetches, shown, pending, created, busy, clicks, gone>>
  BY DEF OpenPanel
<1>3. s.kind \in {"none", "new", "manage"}
  BY DEF Nothing
<1>4. CalendarTypeOK'
  BY <1>2, <1>3 DEF IInv, CalendarTypeOK
<1>5. ClicksInv' /\ GoneInv'
  BY <1>1, <1>2, SameForward, ClicksStay, GoneStays
<1>6. SelectionInv'
  BY <1>2 DEF SelectionInv
<1>. QED  BY <1>4, <1>5, <1>6 DEF IInv

LEMMA PanelSteps ==
  ASSUME IInv,
         \/ \E s \in Slots : ClickSlot(s[2])
         \/ \E b \in Displayed : ClickBlock(b)
         \/ ClosePanel
  PROVE  IInv'
<1>1. ASSUME NEW p, ClickSlot(p)
      PROVE  IInv'
  <2>1. OpenPanel([kind |-> "new"])
    BY <1>1 DEF ClickSlot
  <2>. QED  BY <2>1, PanelStep
<1>2. ASSUME NEW b \in Displayed, ClickBlock(b)
      PROVE  IInv'
  <2>1. OpenPanel([kind |-> "manage", id |-> b.id])
    BY <1>2 DEF ClickBlock
  <2>2. b \in Blocks /\ b.id # Opaque
    BY <1>2 DEF ClickBlock, Manageable, IInv, CalendarTypeOK
  <2>3. b.id \in BookingIds
    BY <2>2 DEF Blocks
  <2>. QED  BY <2>1, <2>3, PanelStep
<1>3. ASSUME ClosePanel
      PROVE  IInv'
  <2>1. OpenPanel(Nothing)
    BY <1>3 DEF ClosePanel, OpenPanel
  <2>. QED  BY <2>1, PanelStep
<1>. QED  BY <1>1, <1>2, <1>3

-----------------------------------------------------------------------------
(* A click, and its call at the server.                                     *)

LEMMA CallStep ==
  ASSUME IInv, NEW k \in Clicks, NEW op \in {"create", "edit", "cancel"},
         NEW target, NEW p \in Range \cup {NoRange}, Call(k, op, target, p),
         op = "create" => target \in Resources /\ p \in Range,
         op = "edit" => target \in BookingIds /\ p \in Range,
         op = "cancel" => target \in BookingIds,
         pending' \subseteq Blocks
  PROVE  IInv'
<1>. DEFINE c == [pc |-> "sent", op |-> op, target |-> target, range |-> p, retries |-> 0,
                  stored |-> "none", answer |-> "none", made |-> {}]
<1>1. /\ c \in Calls /\ c.pc = "sent" /\ CallInv(c, bookings) /\ c # NoCall
  <2>1. 0 \in 0..MaxRetries
    BY CalendarPageAssumption DEF CalendarPageAssumption
  <2>2. target \in Resources \cup BookingIds
    OBVIOUS
  <2>3. c \in Calls
    BY <2>1, <2>2 DEF Calls
  <2>4. c.pc = "sent" /\ NoCall.pc = "unused"
    BY DEF NoCall
  <2>5. CallInv(c, bookings)
    BY DEF CallInv
  <2>. QED  BY <2>3, <2>4, <2>5
<1>2. /\ ~busy /\ busy' = TRUE /\ clicks[k] = NoCall
      /\ \A j \in Clicks : j < k => clicks[j] # NoCall
      /\ clicks' = [clicks EXCEPT ![k] = c]
      /\ UNCHANGED <<bookings, view, generation, fetches, shown, selection, created, gone>>
  BY DEF Call
<1>. HIDE DEF c
<1>3. clicks \in [Clicks -> Calls \cup {NoCall, Done}] /\ bookings \in PageTable
  BY DEF IInv, CalendarTypeOK, PageTable
<1>4. /\ clicks'[k] = c
      /\ \A j \in Clicks \ {k} : clicks'[j] = clicks[j]
      /\ clicks' \in [Clicks -> Calls \cup {NoCall, Done}]
  BY <1>1, <1>2, <1>3
<1>5. \A j \in Clicks : ~AtWork(j)
  BY <1>2 DEF IInv, CalendarTypeOK, AtWork
<1>6. AtWork(k)' /\ \A j \in Clicks : AtWork(j)' => j = k
  BY <1>1, <1>4, <1>5 DEF AtWork
<1>7. CalendarTypeOK'
  <2>1. busy' = (\E j \in Clicks : clicks'[j].pc \in {"sent", "answered"})
    BY <1>2, <1>6 DEF AtWork
  <2>. QED  BY <1>2, <1>4, <2>1 DEF IInv, CalendarTypeOK
<1>8. ClicksInv'
  <2>1. ASSUME NEW j \in Clicks, Underway(j)'
        PROVE  CallInv(clicks'[j], bookings')
    <3>1. CASE j = k
      BY <1>1, <1>2, <1>4, <3>1
    <3>2. CASE j # k
      BY <1>2, <1>4, <2>1, <3>2 DEF IInv, ClicksInv, Underway
    <3>. QED  BY <3>1, <3>2
  <2>2. \A i, j \in Clicks : clicks'[i] = NoCall /\ i < j => clicks'[j] = NoCall
    BY <1>1, <1>2, <1>4 DEF IInv, ClicksInv, Clicks
  <2>3. \A j \in Clicks : AtWork(j)' \/ clicks'[j] = NoCall => generation' < j
    BY <1>1, <1>2, <1>4, <1>6 DEF IInv, ClicksInv
  <2>. QED  BY <1>6, <2>1, <2>2, <2>3 DEF ClicksInv
<1>9. SelectionInv' /\ GoneInv'
  BY <1>2, <1>3, SameForward, GoneStays DEF IInv, SelectionInv
<1>. QED  BY <1>7, <1>8, <1>9 DEF IInv

LEMMA ClickSteps ==
  ASSUME IInv, NEW k \in Clicks,
         \/ \E s \in Slots : HandleCreate(k, s[2]) \/ HandleEdit(k, s[2])
         \/ HandleCancel(k)
  PROVE  IInv'
<1>. USE CalendarPageAssumption DEF CalendarPageAssumption
<1>1. view \in Resources /\ pending \subseteq Blocks
  BY DEF IInv, CalendarTypeOK
<1>2. selection.kind = "manage" => selection.id \in BookingIds
  BY DEF IInv, SelectionInv, Nothing
<1>3. ASSUME NEW p \in Range, HandleCreate(k, p)
      PROVE  IInv'
  <2>1. Call(k, "create", view, p) /\ pending' = {[range |-> p, id |-> Opaque]}
    BY <1>3 DEF HandleCreate
  <2>2. [range |-> p, id |-> Opaque] \in Blocks /\ p \in Range
    BY DEF Blocks
  <2>3. p \in Range \cup {NoRange} /\ pending' \subseteq Blocks
    BY <2>1, <2>2
  <2>. QED  BY <1>1, <2>1, <2>2, <2>3, CallStep
<1>4. ASSUME NEW p \in Range, HandleEdit(k, p)
      PROVE  IInv'
  <2>1. /\ Call(k, "edit", selection.id, p) /\ pending' = pending
        /\ selection.id \in BookingIds
    BY <1>2, <1>4 DEF HandleEdit
  <2>2. p \in Range /\ p \in Range \cup {NoRange} /\ pending' \subseteq Blocks
    BY <1>1, <2>1
  <2>. QED  BY <2>1, <2>2, CallStep
<1>5. ASSUME HandleCancel(k)
      PROVE  IInv'
  <2>1. /\ Call(k, "cancel", selection.id, NoRange) /\ pending' = pending
        /\ selection.id \in BookingIds
    BY <1>2, <1>5 DEF HandleCancel
  <2>. QED  BY <1>1, <2>1, CallStep
<1>6. \A s \in Slots : s[2] \in Range
  OBVIOUS
<1>. QED  BY <1>3, <1>4, <1>5, <1>6

\* A call goes on, whatever it does to the table; the page has not heard of it.
LEMMA CallGoesOnStep ==
  ASSUME IInv, NEW k \in Clicks, Underway(k), Forward(bookings'), UNCHANGED <<pageVars, gone>>,
         NEW c \in Calls \cup {Done}, clicks' = [clicks EXCEPT ![k] = c],
         c # Done => CallInv(c, bookings'),
         c.pc \in {"sent", "answered"} <=> AtWork(k)
  PROVE  IInv'
<1>1. UNCHANGED <<view, generation, fetches, shown, selection, pending, created, busy, gone>>
  BY DEF pageVars
<1>2. ClicksInv' /\ clicks' \in [Clicks -> Calls \cup {NoCall, Done}]
  BY <1>1, ClickMoves
<1>3. \A j \in Clicks : AtWork(j)' <=> AtWork(j)
  BY DEF AtWork, IInv, CalendarTypeOK
<1>4. busy' = \E j \in Clicks : clicks'[j].pc \in {"sent", "answered"}
  BY <1>1, <1>3 DEF AtWork, IInv, CalendarTypeOK
<1>5. CalendarTypeOK'
  BY <1>1, <1>2, <1>4 DEF IInv, CalendarTypeOK, Forward, PageTable
<1>6. SelectionInv' /\ GoneInv'
  BY <1>1, GoneStays DEF IInv, SelectionInv
<1>. QED  BY <1>2, <1>5, <1>6 DEF IInv

\* The outcome is recorded with the write.
LEMMA RecordStep ==
  ASSUME IInv, NEW k \in Clicks, clicks[k].pc \in {"sent", "stray"},
         NEW table, Forward(table), NEW outcome \in {"ok", "conflict"}, NEW made,
         \/ made = {} /\ (clicks[k].made = {} \/ outcome = "ok")
         \/ /\ clicks[k].made = {} /\ clicks[k].op = "create" /\ outcome = "ok"
            /\ \E b \in BookingIds : made = {b},
         clicks[k].op = "cancel" /\ outcome = "ok" => table[clicks[k].target].status = "cancelled",
         Record(k, table, outcome, made), UNCHANGED <<pageVars, gone>>
  PROVE  IInv'
<1>1. /\ Underway(k) /\ clicks[k] \in Calls /\ CallInv(clicks[k], bookings)
      /\ clicks \in [Clicks -> Calls \cup {NoCall, Done}]
  BY ClicksAreTyped DEF IInv, ClicksInv, Underway, CalendarTypeOK
<1>2. bookings' = table
  BY DEF Record
<1>3. CASE clicks[k].pc = "stray"
  <2>1. clicks' = [clicks EXCEPT ![k] = Done]
    BY <1>3 DEF Record
  <2>2. ~AtWork(k) /\ Done.pc \notin {"sent", "answered"}
    BY <1>3 DEF AtWork, Done
  <2>. QED  BY <1>1, <1>2, <2>1, <2>2, CallGoesOnStep
<1>4. CASE clicks[k].pc = "sent"
  <2>1. PICK answer \in {outcome, "unavailable", "lost"} :
           clicks' = [clicks EXCEPT ![k].pc = "answered", ![k].answer = answer,
                                    ![k].stored = outcome, ![k].made = @ \cup made]
    BY <1>4 DEF Record
  <2>. DEFINE c == [clicks[k] EXCEPT !.pc = "answered", !.answer = answer,
                                     !.stored = outcome, !.made = @ \cup made]
  <2>2. clicks' = [clicks EXCEPT ![k] = c]
    BY <1>1, <2>1
  <2>3. /\ c.op = clicks[k].op /\ c.target = clicks[k].target /\ c.range = clicks[k].range
        /\ c.pc = "answered" /\ c.answer = answer /\ c.stored = outcome
        /\ c.made = clicks[k].made \cup made
    BY <1>1 DEF Calls
  <2>4. made \subseteq BookingIds
    OBVIOUS
  <2>5. c \in Calls
    BY <1>1, <2>4 DEF Calls
  <2>. HIDE DEF c
  <2>6. \/ c.made = {}
        \/ c.op = "create" /\ c.stored = "ok" /\ \E b \in BookingIds : c.made = {b}
    BY <1>1, <2>3 DEF CallInv
  <2>7. CallInv(c, table)
    BY <1>1, <2>3, <2>6 DEF CallInv
  <2>8. AtWork(k)
    BY <1>4 DEF AtWork
  <2>. QED  BY <1>1, <1>2, <2>2, <2>3, <2>5, <2>7, <2>8, CallGoesOnStep
<1>. QED  BY <1>3, <1>4

LEMMA ServeStep ==
  ASSUME IInv, NEW k \in Clicks, Serve(k)
  PROVE  IInv'
<1>. USE CalendarPageAssumption, TableAssumption DEF CalendarPageAssumption, TableAssumption
<1>1. /\ clicks[k].pc \in {"sent", "stray"} /\ UNCHANGED <<pageVars, gone>>
      /\ clicks[k] \in Calls /\ CallInv(clicks[k], bookings)
      /\ bookings \in PageTable /\ bookings \in Table
  BY ClicksAreTyped, PageTableIsTable
     DEF Serve, IInv, ClicksInv, Underway, CalendarTypeOK, PageTable
<1>2. CASE clicks[k].stored # "none"
  <2>1. Record(k, bookings, clicks[k].stored, {})
    BY <1>2 DEF Serve
  <2>2. clicks[k].stored \in {"ok", "conflict"} /\ (clicks[k].made = {} \/ clicks[k].stored = "ok")
    BY <1>1, <1>2 DEF Calls, CallInv
  <2>3. Forward(bookings)
    BY <1>1, SameForward
  <2>. QED  BY <1>1, <2>1, <2>2, <2>3, RecordStep DEF CallInv
<1>. SUFFICES ASSUME clicks[k].stored = "none"
              PROVE  IInv'
  BY <1>2
<1>3. clicks[k].made = {}
  BY <1>1 DEF CallInv
\* An answer that changes nothing.
<1>4. ASSUME Record(k, bookings, "conflict", {})
      PROVE  IInv'
  BY <1>1, <1>3, <1>4, SameForward, RecordStep
<1>5. CASE clicks[k].op = "create"
  <2>1. PICK b \in FreshIds(bookings) :
           \/ Record(k, [bookings EXCEPT ![b] = NewRow(clicks[k].target, Me, clicks[k].range,
                                                      NoSeries, "confirmed", 0)], "ok", {b})
           \/ Record(k, bookings, "conflict", {})
    BY <1>5 DEF Serve, Booked
  <2>. DEFINE row   == NewRow(clicks[k].target, Me, clicks[k].range, NoSeries, "confirmed", 0)
              table == [bookings EXCEPT ![b] = row]
  <2>2. b \in BookingIds /\ bookings[b] = Absent
    BY DEF FreshIds
  <2>3. row \in Row /\ row \in Settled
    <3>1. row \in Row
      BY <1>1, <1>5, NewRowIsRow DEF CallInv, Times
    <3>2. row.status = "confirmed"
      BY DEF NewRow
    <3>. QED  BY <3>1, <3>2, PageRows
  <2>. HIDE DEF row
  <2>4. table \in Table /\ table[b] = row /\ \A c \in BookingIds \ {b} : table[c] = bookings[c]
    BY <1>1, <2>2, <2>3, InsertIsTable DEF Table
  <2>5. Forward(table)
    <3>1. bookings[b].status # "cancelled"
      BY <2>2 DEF Absent
    <3>. HIDE DEF table
    <3>. QED  BY <1>1, <2>2, <2>3, <2>4, <3>1, OneRowForward
  <2>6. ASSUME Record(k, table, "ok", {b})
        PROVE  IInv'
    BY <1>1, <1>3, <1>5, <2>2, <2>5, <2>6, RecordStep
  <2>. QED  BY <1>4, <2>1, <2>6 DEF row
<1>6. CASE clicks[k].op = "edit"
  <2>. DEFINE c == clicks[k]
              table == [bookings EXCEPT ![c.target].range = c.range]
  <2>1. /\ InTable(bookings[c.target])
        /\ \/ Record(k, table, "ok", {})
           \/ Record(k, bookings, "conflict", {})
    BY <1>6 DEF Serve, Edited
  <2>2. c.target \in BookingIds /\ c.range \in Range
    BY <1>1, <1>6 DEF CallInv
  <2>3. Forward(table)
    <3>1. table = Moved(bookings, c.target, c.range)
      BY DEF Moved
    <3>2. /\ Moved(bookings, c.target, c.range) \in Table
          /\ Moved(bookings, c.target, c.range)[c.target] \in Row
          /\ Moved(bookings, c.target, c.range)[c.target].status = bookings[c.target].status
          /\ \A d \in BookingIds \ {c.target} :
                Moved(bookings, c.target, c.range)[d] = bookings[d]
      BY <1>1, <2>1, <2>2, MovedTable
    <3>3. bookings[c.target].status \in {"confirmed", "cancelled"}
      BY <1>1, <2>1, <2>2, PageRows DEF PageTable, Table
    <3>. HIDE DEF table
    <3>4. table[c.target] \in Settled
      BY <3>1, <3>2, <3>3, PageRows
    <3>. QED  BY <1>1, <2>2, <3>1, <3>2, <3>4, OneRowForward
  <2>. HIDE DEF table
  <2>4. ASSUME Record(k, table, "ok", {})
        PROVE  IInv'
    BY <1>1, <1>3, <1>6, <2>3, <2>4, RecordStep
  <2>. QED  BY <1>4, <2>1, <2>4
<1>7. CASE clicks[k].op = "cancel"
  <2>. DEFINE b     == clicks[k].target
              table == IF bookings[b].status = "confirmed" THEN AfterCancel(bookings, {b})
                       ELSE bookings
  <2>1. InTable(bookings[b]) /\ Record(k, table, "ok", {})
    BY <1>7 DEF Serve, Cancelled
  <2>2. b \in BookingIds
    BY <1>1, <1>7 DEF CallInv
  <2>3. bookings[b].status \in {"confirmed", "cancelled"}
    BY <1>1, <2>1, <2>2, PageRows DEF PageTable, Table
  <2>4. Forward(table) /\ table[b].status = "cancelled"
    <3>1. CASE bookings[b].status = "confirmed"
      <4>. DEFINE after == AfterCancel(bookings, {b})
      <4>1. /\ after \in Table /\ after[b] \in Row /\ after[b].status = "cancelled"
            /\ \A c \in BookingIds \ {b} : after[c] = bookings[c]
        BY <1>1, <2>2, <3>1, CancelledTable
      <4>2. table = after
        BY <3>1
      <4>. HIDE DEF after, table
      <4>3. after[b] \in Settled
        BY <4>1, PageRows
      <4>4. Forward(after)
        BY <1>1, <2>2, <4>1, <4>3, OneRowForward
      <4>. QED  BY <4>1, <4>2, <4>4
    <3>2. CASE bookings[b].status # "confirmed"
      BY <1>1, <2>3, <3>2, SameForward
    <3>. QED  BY <3>1, <3>2
  <2>. HIDE DEF table
  <2>. QED  BY <1>1, <1>3, <1>7, <2>1, <2>4, RecordStep
<1>. QED  BY <1>1, <1>5, <1>6, <1>7 DEF Calls

LEMMA FailAndRetrySteps ==
  ASSUME IInv, NEW k \in Clicks, Fail(k) \/ Retry(k)
  PROVE  IInv'
<1>1. /\ AtWork(k) /\ Underway(k) /\ UNCHANGED <<pageVars, gone>> /\ bookings' = bookings
      /\ clicks \in [Clicks -> Calls \cup {NoCall, Done}]
      /\ bookings \in PageTable
  BY DEF Fail, Retry, AtWork, Underway, IInv, CalendarTypeOK, PageTable
<1>2. /\ clicks[k] \in Calls /\ CallInv(clicks[k], bookings) /\ Forward(bookings')
  BY <1>1, ClicksAreTyped, SameForward DEF IInv, ClicksInv
<1>3. ASSUME NEW answer \in {"error", "unavailable", "lost"},
             clicks' = [clicks EXCEPT ![k].pc = "answered", ![k].answer = answer]
      PROVE  IInv'
  <2>. DEFINE c == [clicks[k] EXCEPT !.pc = "answered", !.answer = answer]
  <2>1. clicks' = [clicks EXCEPT ![k] = c]
    BY <1>1, <1>3
  <2>2. c \in Calls /\ c.pc = "answered"
    BY <1>2 DEF Calls
  <2>3. CallInv(c, bookings)
    BY <1>2 DEF Calls, CallInv
  <2>. HIDE DEF c
  <2>. QED  BY <1>1, <1>2, <2>1, <2>2, <2>3, CallGoesOnStep
<1>4. ASSUME Retry(k)
      PROVE  IInv'
  <2>. DEFINE c == [clicks[k] EXCEPT !.pc = "sent", !.answer = "none", !.retries = @ + 1]
  <2>1. clicks' = [clicks EXCEPT ![k] = c]
    BY <1>1, <1>4 DEF Retry
  <2>2. clicks[k].retries + 1 \in 0..MaxRetries
    BY <1>2, <1>4, CalendarPageAssumption DEF Retry, Calls, CalendarPageAssumption
  <2>3. c \in Calls /\ c.pc = "sent"
    BY <1>2, <2>2 DEF Calls
  <2>4. CallInv(c, bookings)
    BY <1>2 DEF Calls, CallInv
  <2>. HIDE DEF c
  <2>. QED  BY <1>1, <1>2, <2>1, <2>3, <2>4, CallGoesOnStep
<1>. QED  BY <1>3, <1>4 DEF Fail

-----------------------------------------------------------------------------
(* The answer.                                                              *)

\* What Finish does, and what may follow it: no refetch, or one.
LEMMA FinishStep ==
  ASSUME IInv, NEW k \in Clicks, Finish(k), created' \subseteq Blocks,
         selection' \in {selection, Nothing},
         \/ UNCHANGED <<generation, fetches, gone>>
         \/ /\ Refetch /\ clicks[k].answer # "lost"
            /\ gone' \subseteq BookingIds /\ \A b \in gone' : bookings[b].status = "cancelled"
  PROVE  IInv'
<1>1. /\ clicks[k].pc = "answered" /\ AtWork(k) /\ Underway(k)
      /\ busy' = FALSE /\ UNCHANGED <<bookings, view, shown>>
      /\ pending' \in {{}, pending}
  BY DEF Finish, AtWork, Underway
<1>2. /\ clicks \in [Clicks -> Calls \cup {NoCall, Done}] /\ generation \in 0..MaxClicks
      /\ bookings \in PageTable /\ Forward(bookings') /\ MaxClicks \in Nat
  BY <1>1, SameForward, CalendarPageAssumption
     DEF IInv, CalendarTypeOK, PageTable, CalendarPageAssumption
<1>3. clicks[k] \in Calls /\ CallInv(clicks[k], bookings)
  BY <1>1, ClicksAreTyped DEF IInv, ClicksInv
<1>4. PICK c \in Calls \cup {Done} :
         /\ clicks' = [clicks EXCEPT ![k] = c]
         /\ c.pc \notin {"sent", "answered"} /\ c # NoCall
         /\ c # Done => CallInv(c, bookings)
  <2>1. CASE clicks[k].answer = "lost" /\ clicks[k].stored = "none"
    <3>. DEFINE c == [clicks[k] EXCEPT !.pc = "stray", !.retries = 0]
    <3>1. clicks' = [clicks EXCEPT ![k] = c]
      BY <1>2, <2>1 DEF Finish
    <3>2. c \in Calls /\ c.pc = "stray" /\ NoCall.pc = "unused"
      <4>1. 0 \in 0..MaxRetries
        BY CalendarPageAssumption DEF CalendarPageAssumption
      <4>. QED  BY <1>3, <4>1 DEF Calls, NoCall
    <3>3. CallInv(c, bookings)
      BY <1>3, <2>1 DEF Calls, CallInv
    <3>. HIDE DEF c
    <3>. QED  BY <3>1, <3>2, <3>3
  <2>2. CASE ~(clicks[k].answer = "lost" /\ clicks[k].stored = "none")
    <3>1. clicks' = [clicks EXCEPT ![k] = Done]
      BY <2>2 DEF Finish
    <3>. QED  BY <3>1 DEF Done, NoCall
  <2>. QED  BY <2>1, <2>2
<1>5. /\ clicks'[k] = c
      /\ \A j \in Clicks \ {k} : clicks'[j] = clicks[j]
      /\ clicks' \in [Clicks -> Calls \cup {NoCall, Done}]
  BY <1>2, <1>4
<1>6. \A j \in Clicks : ~AtWork(j)'
  BY <1>1, <1>4, <1>5 DEF AtWork, IInv, ClicksInv
<1>7. /\ generation' \in {generation, generation + 1} /\ generation' \in 0..MaxClicks
      /\ generation' \in Nat /\ generation <= generation'
  <2>1. generation < k /\ k \in 1..MaxClicks
    BY <1>1 DEF IInv, ClicksInv, Clicks
  <2>2. generation' \in {generation, generation + 1}
    BY DEF Refetch
  <2>. QED  BY <1>2, <2>1, <2>2
<1>8. /\ fetches' \subseteq FetchSet(generation')
      /\ \A f \in fetches' : f.live => f.view = view /\ f.generation = generation'
      /\ \A f \in fetches' : f.live => \A x \in f.blocks : x.id \notin gone'
  <2>1. CASE UNCHANGED <<generation, fetches, gone>>
    BY <2>1 DEF IInv, CalendarTypeOK, FetchSet, GoneInv
  <2>2. CASE Refetch
    <3>1. generation' = generation + 1 /\ fetches' = Refetched(view, generation')
      BY <2>2 DEF Refetch
    <3>2. view \in Resources
      BY DEF IInv, CalendarTypeOK
    <3>. QED  BY <1>7, <3>1, <3>2, RefetchedTypes DEF IInv
  <2>. QED  BY <2>1, <2>2
<1>9. CalendarTypeOK'
  <2>1. busy' = \E j \in Clicks : clicks'[j].pc \in {"sent", "answered"}
    BY <1>1, <1>6 DEF AtWork
  <2>2. /\ bookings' \in [BookingIds -> Settled \cup {Absent}] /\ view' \in Resources
        /\ selection'.kind \in {"none", "new", "manage"}
        /\ pending' \subseteq Blocks /\ gone' \subseteq BookingIds
    BY <1>1 DEF IInv, CalendarTypeOK, Nothing
  <2>3. /\ shown'.view \in Resources /\ shown'.blocks \subseteq Blocks
        /\ shown'.generation \in -1..generation'
    <3>1. shown.generation \in -1..generation /\ shown' = shown
      BY <1>1 DEF IInv, CalendarTypeOK
    <3>2. shown.generation \in -1..generation'
      BY <1>2, <1>7, <3>1
    <3>. QED  BY <3>1, <3>2 DEF IInv, CalendarTypeOK
  <2>. QED  BY <1>1, <1>5, <1>7, <1>8, <2>1, <2>2, <2>3 DEF CalendarTypeOK, FetchSet
<1>10. ClicksInv'
  <2>1. ASSUME NEW j \in Clicks, Underway(j)'
        PROVE  CallInv(clicks'[j], bookings')
    <3>1. CASE j = k
      <4>1. c # Done
        BY <1>5, <2>1, <3>1 DEF Underway, Done
      <4>. QED  BY <1>1, <1>4, <1>5, <3>1, <4>1
    <3>2. CASE j # k
      BY <1>1, <1>5, <2>1, <3>2 DEF IInv, ClicksInv, Underway
    <3>. QED  BY <3>1, <3>2
  <2>2. clicks[k] # NoCall
    BY <1>1 DEF NoCall
  <2>3. \A i, j \in Clicks : clicks'[i] = NoCall /\ i < j => clicks'[j] = NoCall
    BY <1>4, <1>5, <2>2 DEF IInv, ClicksInv
  <2>4. ASSUME NEW j \in Clicks, clicks'[j] = NoCall
        PROVE  generation' < j
    <3>1. j # k /\ clicks[j] = NoCall
      BY <1>4, <1>5, <2>4
    <3>2. k < j
      <4>1. ~(j < k)
        BY <2>2, <3>1 DEF IInv, ClicksInv
      <4>. QED  BY <3>1, <4>1, <1>2 DEF Clicks
    <3>3. generation < k
      BY <1>1 DEF IInv, ClicksInv
    <3>. QED  BY <1>2, <1>7, <3>2, <3>3 DEF Clicks
  <2>. QED  BY <1>6, <2>1, <2>3, <2>4 DEF ClicksInv
<1>11. SelectionInv'
  BY DEF IInv, SelectionInv
<1>12. GoneInv'
  <2>1. \A b \in gone' : bookings'[b].status = "cancelled"
    BY <1>1 DEF IInv, GoneInv
  <2>2. shown'.generation = generation' => \A x \in shown'.blocks : x.id \notin gone'
    <3>1. CASE UNCHANGED <<generation, fetches, gone>>
      BY <1>1, <3>1 DEF IInv, GoneInv
    <3>2. CASE Refetch
      <4>1. generation' = generation + 1
        BY <3>2 DEF Refetch
      <4>2. shown'.generation \in -1..generation
        BY <1>1 DEF IInv, CalendarTypeOK
      <4>. QED  BY <1>2, <4>1, <4>2
    <3>. QED  BY <3>1, <3>2
  <2>. QED  BY <1>8, <2>1, <2>2 DEF GoneInv
<1>. QED  BY <1>9, <1>10, <1>11, <1>12 DEF IInv

LEMMA AnswerSteps ==
  ASSUME IInv, NEW k \in Clicks, Succeed(k) \/ ShowConflict(k) \/ ShowError(k)
  PROVE  IInv'
<1>1. /\ Finish(k) /\ created \subseteq Blocks /\ gone \subseteq BookingIds
      /\ \A b \in gone : bookings[b].status = "cancelled"
  BY DEF Succeed, ShowConflict, ShowError, IInv, CalendarTypeOK, GoneInv
<1>2. clicks[k] \in Calls /\ CallInv(clicks[k], bookings)
  BY <1>1, ClicksAreTyped DEF Finish, IInv, ClicksInv, Underway
<1>3. ASSUME ShowError(k)
      PROVE  IInv'
  BY <1>1, <1>3, FinishStep DEF ShowError
<1>4. ASSUME ShowConflict(k)
      PROVE  IInv'
  BY <1>1, <1>4, FinishStep DEF ShowConflict
<1>5. ASSUME Succeed(k), clicks[k].op = "create"
      PROVE  IInv'
  <2>1. created' = created \cup {[range |-> clicks[k].range, id |-> b] : b \in clicks[k].made}
    BY <1>5 DEF Succeed
  <2>2. clicks[k].range \in Range /\ clicks[k].made \subseteq BookingIds
    BY <1>2, <1>5 DEF CallInv, Calls
  <2>3. created' \subseteq Blocks
    BY <1>1, <2>1, <2>2 DEF Blocks
  <2>4. UNCHANGED <<generation, fetches, gone>> /\ selection' = Nothing
    BY <1>5 DEF Succeed
  <2>. QED  BY <1>1, <2>3, <2>4, FinishStep
<1>6. ASSUME Succeed(k), clicks[k].op # "create"
      PROVE  IInv'
  <2>1. /\ Refetch /\ clicks[k].answer = "ok" /\ selection' = Nothing /\ created' = created
        /\ gone' = IF clicks[k].op = "cancel" THEN gone \cup {clicks[k].target} ELSE gone
    BY <1>6 DEF Succeed
  <2>2. clicks[k].op = "cancel" =>
           /\ clicks[k].target \in BookingIds
           /\ bookings[clicks[k].target].status = "cancelled"
    BY <1>2, <2>1 DEF CallInv
  <2>3. gone' \subseteq BookingIds /\ \A b \in gone' : bookings[b].status = "cancelled"
    BY <1>1, <2>1, <2>2
  <2>. QED  BY <1>1, <2>1, <2>3, FinishStep
<1>. QED  BY <1>3, <1>4, <1>5, <1>6

-----------------------------------------------------------------------------
(* Everybody else.                                                          *)

LEMMA OtherStep ==
  ASSUME IInv, Forward(bookings'), UNCHANGED <<pageVars, clicks, gone>>
  PROVE  IInv'
<1>1. UNCHANGED <<view, generation, fetches, shown, selection, pending, created, busy>>
  BY DEF pageVars
<1>2. CalendarTypeOK'
  BY <1>1 DEF IInv, CalendarTypeOK, Forward, PageTable
<1>3. ClicksInv' /\ GoneInv'
  BY <1>1, ClicksStay, GoneStays
<1>4. SelectionInv'
  BY <1>1 DEF IInv, SelectionInv
<1>. QED  BY <1>2, <1>3, <1>4 DEF IInv

LEMMA OtherSteps ==
  ASSUME IInv,
         \/ \E c \in Contested : OtherBooks(c[1], c[2], c[3])
         \/ \E b \in BookingIds : OtherFrees(b)
  PROVE  IInv'
<1>. USE TableAssumption DEF TableAssumption
<1>1. bookings \in PageTable /\ bookings \in Table
  BY PageTableIsTable DEF IInv, CalendarTypeOK, PageTable
<1>2. ASSUME NEW c \in Contested, OtherBooks(c[1], c[2], c[3])
      PROVE  IInv'
  <2>1. c[1] \in Users /\ c[2] \in Resources /\ c[3] \in Range
    BY CalendarPageAssumption DEF CalendarPageAssumption
  <2>. DEFINE row == NewRow(c[2], c[1], c[3], NoSeries, "confirmed", 0)
  <2>2. PICK b \in FreshIds(bookings) : bookings' = [bookings EXCEPT ![b] = row]
    BY <1>2 DEF OtherBooks
  <2>3. row \in Row /\ row \in Settled
    <3>1. row \in Row
      BY <2>1, NewRowIsRow DEF Times
    <3>2. row.status = "confirmed"
      BY DEF NewRow
    <3>. QED  BY <3>1, <3>2, PageRows
  <2>. HIDE DEF row
  <2>4. b \in BookingIds /\ bookings[b] = Absent
    BY DEF FreshIds
  <2>5. /\ bookings' \in Table /\ bookings'[b] = row
        /\ \A d \in BookingIds \ {b} : bookings'[d] = bookings[d]
    BY <1>1, <2>2, <2>3, <2>4, InsertIsTable DEF Table
  <2>6. Forward(bookings')
    BY <1>1, <2>3, <2>4, <2>5, OneRowForward DEF Absent
  <2>. QED  BY <1>2, <2>6, OtherStep DEF OtherBooks
<1>3. ASSUME NEW b \in BookingIds, OtherFrees(b)
      PROVE  IInv'
  <2>1. bookings[b] \in Row /\ bookings[b].status \in {"held", "confirmed"}
    BY <1>1, <1>3, InTableIsRow DEF OtherFrees, InTable, Table
  <2>2. bookings' = [bookings EXCEPT ![b] = [@ EXCEPT !.status = "cancelled", !.expires = NoExpiry]]
    BY <1>3 DEF OtherFrees, AfterRelease
  <2>. DEFINE row == [bookings[b] EXCEPT !.status = "cancelled", !.expires = NoExpiry]
  <2>3. row \in Row /\ row \in Settled
    <3>1. row \in Row
      BY <2>1, SettledAfterHeld
    <3>2. row.status = "cancelled"
      BY <2>1 DEF Row, Held, Settled
    <3>. QED  BY <3>1, <3>2, PageRows
  <2>4. bookings' = [bookings EXCEPT ![b] = row]
    BY <2>2
  <2>. HIDE DEF row
  <2>5. /\ bookings' \in Table /\ bookings'[b] = row
        /\ \A d \in BookingIds \ {b} : bookings'[d] = bookings[d]
    BY <1>1, <2>3, <2>4, InsertIsTable DEF Table
  <2>6. Forward(bookings')
    BY <1>1, <2>1, <2>3, <2>5, OneRowForward
  <2>. QED  BY <1>3, <2>6, OtherStep DEF OtherFrees
<1>. QED  BY <1>2, <1>3

-----------------------------------------------------------------------------
(* The theorems.                                                            *)

LEMMA InitHolds == CalendarInit => IInv
<1>. SUFFICES ASSUME CalendarInit
              PROVE  IInv
  OBVIOUS
<1>. USE CalendarPageAssumption DEF CalendarPageAssumption
<1>1. \A k \in Clicks : ~AtWork(k) /\ ~Underway(k) /\ clicks[k] = NoCall
  BY DEF CalendarInit, AtWork, Underway, NoCall
<1>2. \A f \in fetches : f = Fetch(view, 0)
  BY DEF CalendarInit
<1>3. Fetch(view, 0) \in FetchSet(0)
  BY DEF CalendarInit, FetchSet, Fetch
<1>4. CalendarTypeOK
  <2>1. busy = \E k \in Clicks : clicks[k].pc \in {"sent", "answered"}
    BY <1>1 DEF CalendarInit, AtWork
  <2>2. 0 \in 0..MaxClicks /\ -1 \in -1..0
    OBVIOUS
  <2>3. /\ fetches \subseteq FetchSet(generation)
        /\ \A f \in fetches : f.live => f.view = view /\ f.generation = generation
    BY <1>2, <1>3 DEF CalendarInit, Fetch
  <2>. QED  BY <2>1, <2>2, <2>3 DEF CalendarInit, CalendarTypeOK, FetchSet, Nothing
<1>5. ClicksInv
  BY <1>1 DEF ClicksInv, CalendarInit, Clicks
<1>6. SelectionInv /\ GoneInv
  BY DEF SelectionInv, GoneInv, CalendarInit
<1>. QED  BY <1>4, <1>5, <1>6 DEF IInv

LEMMA StepHolds == IInv /\ [CalendarNext]_calendarVars => IInv'
<1>. SUFFICES ASSUME IInv, [CalendarNext]_calendarVars
              PROVE  IInv'
  OBVIOUS
<1>1. CASE UserActs
  <2>1. CASE \E v \in Resources : Navigate(v)
    BY <2>1, NavigateStep
  <2>2. CASE \/ \E s \in Slots : view = s[1] /\ ClickSlot(s[2])
             \/ \E b \in Displayed : ClickBlock(b)
             \/ ClosePanel
    BY <2>2, PanelSteps
  <2>3. CASE \E k \in Clicks, s \in Slots : view = s[1] /\ (HandleCreate(k, s[2]) \/ HandleEdit(k, s[2]))
    BY <2>3, ClickSteps
  <2>4. CASE \E k \in Clicks : HandleCancel(k)
    BY <2>4, ClickSteps
  <2>. QED  BY <1>1, <2>1, <2>2, <2>3, <2>4 DEF UserActs
<1>2. CASE FetchGoesOn \/ StaleFetch
  <2>1. ASSUME NEW f \in fetches, Arrive(f)
        PROVE  IInv'
    <3>1. f.live /\ (Arrived(f, f.blocks) \/ Arrived(f, {}))
      BY <2>1 DEF Arrive
    <3>2. f.blocks \in SUBSET f.blocks /\ {} \in SUBSET f.blocks
      OBVIOUS
    <3>. QED  BY <3>1, <3>2, ArrivedStep
  <2>. QED  BY <1>2, <2>1, ReadStep, IgnoreStep DEF FetchGoesOn, StaleFetch
<1>3. ASSUME NEW k \in Clicks, CallGoesOn(k)
      PROVE  IInv'
  BY <1>3, ServeStep, FailAndRetrySteps, AnswerSteps DEF CallGoesOn
<1>4. CASE \/ \E c \in Contested : OtherBooks(c[1], c[2], c[3])
           \/ \E b \in BookingIds : OtherFrees(b)
  BY <1>4, OtherSteps
<1>5. CASE UNCHANGED calendarVars
  <2>1. UNCHANGED <<pageVars, clicks, gone>> /\ Forward(bookings')
    BY <1>5, SameForward DEF calendarVars, IInv, CalendarTypeOK, PageTable
  <2>. QED  BY <2>1, OtherStep
<1>. QED  BY <1>1, <1>2, <1>3, <1>4, <1>5 DEF CalendarNext

LEMMA InvariantHolds == CalendarPageSpec => []IInv
<1>. QED  BY InitHolds, StepHolds, PTL DEF CalendarPageSpec

\* The page's state keeps its types: a fetch that is listened to is the one for
\* what is looked at, and the buttons are disabled exactly while a call is on
\* its way or its answer is being taken in (CalendarPage.tsx, useAvailability.ts).
THEOREM CalendarTypeCorrect == CalendarPageSpec => []CalendarTypeOK
<1>. QED  BY InvariantHolds, PTL DEF IInv

\* A click on Book that ends with slot_unavailable has made no booking, and no
\* click makes two, however often its call is lost and sent again under its key
\* (apiClient.request with the server's table of keys).
THEOREM RefusalsAreTrue == CalendarPageSpec => []RefusedIsNotBooked
<1>1. IInv => RefusedIsNotBooked
  <2>. SUFFICES ASSUME IInv, NEW k \in Clicks, clicks[k].pc \notin {"unused", "over"}
                PROVE  /\ Cardinality(clicks[k].made) <= 1
                       /\ clicks[k].op = "create" /\ clicks[k].answer = "conflict"
                             => clicks[k].made = {}
    BY DEF RefusedIsNotBooked
  <2>1. Underway(k)
    BY ClicksAreTyped DEF IInv, NoCall, Done
  <2>2. CallInv(clicks[k], bookings)
    BY <2>1 DEF IInv, ClicksInv
  <2>3. Cardinality(clicks[k].made) <= 1
    <3>1. CASE clicks[k].made = {}
      BY <3>1, Sets!FS_EmptySet DEF Cardinality, Sets!Cardinality
    <3>2. ASSUME NEW b \in BookingIds, clicks[k].made = {b}
          PROVE  Cardinality(clicks[k].made) <= 1
      <4>1. Sets!Cardinality({b}) = 1
        BY Sets!FS_Singleton
      <4>2. Cardinality({b}) = Sets!Cardinality({b})
        BY DEF Cardinality, Sets!Cardinality
      <4>. QED  BY <3>2, <4>1, <4>2
    <3>. QED  BY <2>2, <3>1, <3>2 DEF CallInv
  <2>. QED  BY <2>2, <2>3 DEF CallInv
<1>. QED  BY <1>1, InvariantHolds, PTL

\* A booking whose cancellation the page was told of is not shown again once the
\* page has stopped loading, in whatever order fetches are answered
\* (useAvailability: the generation is part of the key).
THEOREM CancelledStaysAway == CalendarPageSpec => []CancelledDisappears
<1>1. IInv => CancelledDisappears
  <2>. SUFFICES ASSUME IInv, ~Loading
                PROVE  \A b \in shown.blocks : b.id \notin gone
    BY DEF CancelledDisappears
  <2>1. shown.generation = generation
    BY DEF Loading
  <2>. QED  BY <2>1 DEF IInv, GoneInv
<1>. QED  BY <1>1, InvariantHolds, PTL

-----------------------------------------------------------------------------
(* The table behind the page implements the calendar of claims.             *)

\* What a served call writes, and what the answer says, the table allows.
LEMMA ServingIsClaimed ==
  ASSUME IInv, NEW k \in Clicks, Serve(k), bookings' \in Table
  PROVE  Abs!CalendarNext \/ Claims' = Claims
<1>1. /\ clicks[k].pc \in {"sent", "stray"}
      /\ clicks[k] \in Calls /\ CallInv(clicks[k], bookings)
      /\ bookings \in Table
  BY ClicksAreTyped, PageTableIsTable
     DEF Serve, IInv, ClicksInv, Underway, CalendarTypeOK, PageTable
<1>2. ASSUME NEW outcome, NEW made, Record(k, bookings, outcome, made)
      PROVE  Claims' = Claims
  BY <1>2 DEF Record, Claims
<1>3. CASE clicks[k].stored # "none"
  <2>1. bookings' = bookings
    BY <1>3 DEF Serve, Record
  <2>. QED  BY <2>1 DEF Claims
<1>4. CASE clicks[k].stored = "none" /\ clicks[k].op = "create"
  <2>. DEFINE c   == clicks[k]
              row == NewRow(c.target, Me, c.range, NoSeries, "confirmed", 0)
  <2>1. PICK b \in FreshIds(bookings) :
           \/ /\ Excludes(bookings, BookingIds, c.target, c.range)
              /\ bookings' = [bookings EXCEPT ![b] = row]
           \/ Claims' = Claims
    <3>1. PICK b \in FreshIds(bookings) :
             \/ /\ Excludes(bookings, BookingIds, c.target, c.range)
                /\ Record(k, [bookings EXCEPT ![b] = row], "ok", {b})
             \/ Record(k, bookings, "conflict", {})
      BY <1>4 DEF Serve, Booked
    <3>2. Record(k, [bookings EXCEPT ![b] = row], "ok", {b})
             => bookings' = [bookings EXCEPT ![b] = row]
      BY DEF Record
    <3>. HIDE DEF c, row
    <3>. QED  BY <1>2, <3>1, <3>2
  <2>2. row.status = "confirmed" /\ row.resource = c.target /\ row.range = c.range
    BY DEF NewRow
  <2>. HIDE DEF c, row
  <2>3. b \in BookingIds
    BY DEF FreshIds
  <2>4. ASSUME Excludes(bookings, BookingIds, c.target, c.range),
               bookings' = [bookings EXCEPT ![b] = row]
        PROVE  Abs!CalendarNext
    <3>1. bookings'[b] = row /\ \A d \in BookingIds \ {b} : bookings'[d] = bookings[d]
      BY <1>1, <2>3, <2>4 DEF Table
    <3>2. Excludes(bookings, BookingIds, bookings'[b].resource, bookings'[b].range)
      BY <2>2, <2>4, <3>1
    <3>. QED  BY <1>1, <2>2, <3>1, <3>2, InsertingWhereFree
  <2>. QED  BY <2>1, <2>4
<1>5. CASE clicks[k].stored = "none" /\ clicks[k].op = "edit"
  <2>. DEFINE c == clicks[k]
  <2>1. /\ InTable(bookings[c.target])
        /\ \/ /\ InExclusionDomain(bookings[c.target])
                  => Excludes(bookings, BookingIds \ {c.target}, bookings[c.target].resource, c.range)
              /\ bookings' = [bookings EXCEPT ![c.target].range = c.range]
           \/ Claims' = Claims
    <3>. DEFINE table == [bookings EXCEPT ![c.target].range = c.range]
                free  == InExclusionDomain(bookings[c.target])
                  => Excludes(bookings, BookingIds \ {c.target}, bookings[c.target].resource, c.range)
    <3>1. /\ InTable(bookings[c.target])
          /\ \/ free /\ Record(k, table, "ok", {})
             \/ Record(k, bookings, "conflict", {})
      BY <1>5 DEF Serve, Edited
    <3>2. Record(k, table, "ok", {}) => bookings' = table
      BY DEF Record
    <3>. HIDE DEF c, table, free
    <3>3. \/ free /\ bookings' = table
          \/ Claims' = Claims
      BY <1>2, <3>1, <3>2
    <3>. QED  BY <3>1, <3>3 DEF table, free
  <2>2. c.target \in BookingIds /\ c.range \in Range
    BY <1>1, <1>5 DEF CallInv
  <2>. HIDE DEF c
  <2>3. ASSUME InExclusionDomain(bookings[c.target])
                  => Excludes(bookings, BookingIds \ {c.target}, bookings[c.target].resource, c.range),
               bookings' = [bookings EXCEPT ![c.target].range = c.range]
        PROVE  Abs!CalendarNext \/ Claims' = Claims
    <3>1. bookings' = [bookings EXCEPT ![c.target] = [@ EXCEPT !.range = c.range]]
      BY <2>3
    <3>. QED  BY <1>1, <2>1, <2>2, <2>3, <3>1, MovingMoves
  <2>. QED  BY <2>1, <2>3
<1>6. CASE clicks[k].stored = "none" /\ clicks[k].op = "cancel"
  <2>. DEFINE b == clicks[k].target
  <2>1. \/ bookings[b].status = "confirmed" /\ bookings' = AfterCancel(bookings, {b})
        \/ Claims' = Claims
    <3>1. Record(k, IF bookings[b].status = "confirmed" THEN AfterCancel(bookings, {b}) ELSE bookings,
                 "ok", {})
      BY <1>6 DEF Serve, Cancelled
    <3>2. bookings' = IF bookings[b].status = "confirmed" THEN AfterCancel(bookings, {b}) ELSE bookings
      BY <3>1 DEF Record
    <3>. QED  BY <3>2 DEF Claims
  <2>2. b \in BookingIds
    BY <1>1, <1>6 DEF CallInv
  <2>. HIDE DEF b
  <2>3. ASSUME bookings[b].status = "confirmed", bookings' = AfterCancel(bookings, {b})
        PROVE  Abs!CalendarNext
    <3>1. /\ bookings'[b].status = "cancelled"
          /\ \A c \in BookingIds \ {b} : bookings'[c] = bookings[c]
      BY <1>1, <2>2, <2>3, CancelledTable
    <3>. QED  BY <1>1, <2>2, <2>3, <3>1, FreeingOne
  <2>. QED  BY <2>1, <2>3
<1>. QED  BY <1>1, <1>3, <1>4, <1>5, <1>6 DEF Calls

LEMMA OthersAreClaimed ==
  ASSUME IInv, bookings' \in Table,
         \/ \E c \in Contested : OtherBooks(c[1], c[2], c[3])
         \/ \E b \in BookingIds : OtherFrees(b)
  PROVE  Abs!CalendarNext
<1>1. bookings \in PageTable /\ bookings \in Table
  BY PageTableIsTable DEF IInv, CalendarTypeOK, PageTable
<1>2. ASSUME NEW u, NEW r, NEW p, OtherBooks(u, r, p)
      PROVE  Abs!CalendarNext
  <2>. DEFINE row == NewRow(r, u, p, NoSeries, "confirmed", 0)
  <2>1. PICK b \in FreshIds(bookings) : bookings' = [bookings EXCEPT ![b] = row]
    BY <1>2 DEF OtherBooks
  <2>2. row.status = "confirmed" /\ row.resource = r /\ row.range = p
    BY DEF NewRow
  <2>. HIDE DEF row
  <2>3. bookings'[b] = row /\ \A d \in BookingIds \ {b} : bookings'[d] = bookings[d]
    BY <1>1, <2>1 DEF Table, FreshIds
  <2>4. Excludes(bookings, BookingIds, bookings'[b].resource, bookings'[b].range)
    BY <1>2, <2>2, <2>3 DEF OtherBooks
  <2>. QED  BY <1>1, <2>2, <2>3, <2>4, InsertingWhereFree
<1>3. ASSUME NEW b \in BookingIds, OtherFrees(b)
      PROVE  Abs!CalendarNext
  <2>1. bookings[b] \in Row /\ bookings[b].status \in {"held", "confirmed"}
    BY <1>1, <1>3, InTableIsRow DEF OtherFrees, InTable, Table
  <2>2. /\ bookings'[b] = [bookings[b] EXCEPT !.status = "cancelled", !.expires = NoExpiry]
        /\ \A c \in BookingIds \ {b} : bookings'[c] = bookings[c]
    BY <1>1, <1>3 DEF OtherFrees, AfterRelease, Table
  <2>3. bookings'[b].status = "cancelled"
    BY <2>1, <2>2 DEF Row, Held, Settled
  <2>. QED  BY <1>1, <2>1, <2>2, <2>3, FreeingOne
<1>. QED  BY <1>2, <1>3

LEMMA PageCalendarStep ==
  ASSUME IInv, [CalendarNext]_calendarVars
  PROVE  [Abs!CalendarNext]_Claims
<1>1. bookings' \in Table
  BY StepHolds, PageTableIsTable DEF IInv, CalendarTypeOK, PageTable
<1>2. CASE UNCHANGED bookings
  BY <1>2 DEF Claims
<1>3. CASE UserActs
  <2>1. UNCHANGED bookings
    BY <1>3 DEF UserActs, Navigate, ClickSlot, ClickBlock, ClosePanel, OpenPanel,
                HandleCreate, HandleEdit, HandleCancel, Call
  <2>. QED  BY <1>2, <2>1
<1>4. CASE FetchGoesOn \/ StaleFetch
  <2>1. UNCHANGED bookings
    BY <1>4 DEF FetchGoesOn, StaleFetch, ReadAvailability, Arrive, Arrived, Ignore
  <2>. QED  BY <1>2, <2>1
<1>5. ASSUME NEW k \in Clicks, CallGoesOn(k)
      PROVE  Abs!CalendarNext \/ Claims' = Claims
  <2>1. CASE Serve(k)
    BY <1>1, <2>1, ServingIsClaimed
  <2>2. CASE ~Serve(k)
    <3>1. UNCHANGED bookings
      BY <1>5, <2>2 DEF CallGoesOn, Fail, Retry, Succeed, ShowConflict, ShowError, Finish
    <3>. QED  BY <1>2, <3>1
  <2>. QED  BY <2>1, <2>2
<1>6. CASE \/ \E c \in Contested : OtherBooks(c[1], c[2], c[3])
           \/ \E b \in BookingIds : OtherFrees(b)
  BY <1>1, <1>6, OthersAreClaimed
<1>7. CASE UNCHANGED calendarVars
  BY <1>2, <1>7 DEF calendarVars
<1>. QED  BY <1>3, <1>4, <1>5, <1>6, <1>7 DEF CalendarNext

\* However the page's calls are lost, repeated under their key and overtaken,
\* what they and everybody else write to the table implements the calendar: a
\* retry books nothing twice over somebody else's claim (api/client.ts).
THEOREM PageImplementsCalendar == CalendarPageSpec => ImplementsCalendar
<1>1. CalendarInit => Abs!CalendarInit
  BY EmptyTableStarts DEF CalendarInit
<1>. QED
  BY <1>1, PageCalendarStep, InvariantHolds, PTL
     DEF CalendarPageSpec, ImplementsCalendar, Abs!CalendarSpec

-----------------------------------------------------------------------------
(* Alerting: the rows the watch reads are those its constraint allows.      *)

EvaluationSteps ==
    [step : {"resting"}] \cup [step : {"look", "mail"}, at : DOMAIN Keys]
        \cup [step : {"write"}, at : DOMAIN Keys, active : BOOLEAN, open : EventIds \cup {0}]

\* The table of the watch's model: nothing is deleted in it.
WatchTable == [BookingIds -> Row \cup {Absent}]

WatchTypes ==
    /\ bookings \in WatchTable
    /\ constraint \in {"whole", "confirmed_only", "missing"}
    /\ changes \in Nat
    /\ checks \in [Checks -> [status : {"none", "pass", "fail"}, old : BOOLEAN]]
    /\ events \in [EventIds -> KeySet \cup {NoEvent}]
    /\ evals \in [Evaluators -> EvaluationSteps]

\* The whole constraint, also one that was put back, is over disjoint rows.
WholeInv == constraint = "whole" => OverlappingPairs = {}

\* An evaluation that has seen the reconciliation fail.
SawHit(e) ==
    evals[e].step = "write" /\ evals[e].active /\ Keys[evals[e].at] = "reconciliation"

\* Before anybody has touched the constraint there is no hit, nobody has seen
\* one, and none is reported.
QuietInv ==
    changes = 0 =>
        /\ constraint = "whole"
        /\ checks["reconciliation"].status # "fail"
        /\ \A e \in Evaluators : ~SawHit(e)
        /\ \A m \in EventIds : events[m] # "reconciliation"

WatchInv == WatchTypes /\ WholeInv /\ QuietInv

LEMMA OverlapsEitherWay ==
  ASSUME NEW p \in Range, NEW q \in Range
  PROVE  Overlaps(p, q) <=> Overlaps(q, p)
BY DEF Overlaps

\* Rows of the domain that lie on one resource keep apart.
Apart(table) ==
    \A b, c \in BookingIds :
        (/\ b < c
         /\ InExclusionDomain(table[b]) /\ InExclusionDomain(table[c])
         /\ table[b].resource = table[c].resource)
           => ~Overlaps(table[b].range, table[c].range)

\* What the query of the reconciliation finds, before a step and after it.
LEMMA NoPairIsApart ==
  /\ OverlappingPairs = {} <=> Apart(bookings)
  /\ OverlappingPairs' = {} <=> Apart(bookings')
<1>1. OverlappingPairs = {} <=> Apart(bookings)
  <2>1. \A b, c \in BookingIds :
           <<b, c>> \in OverlappingPairs <=>
              /\ b < c
              /\ InExclusionDomain(bookings[b]) /\ InExclusionDomain(bookings[c])
              /\ bookings[b].resource = bookings[c].resource
              /\ Overlaps(bookings[b].range, bookings[c].range)
    BY DEF OverlappingPairs, InExclusionDomain
  <2>2. OverlappingPairs = {} <=> \A b, c \in BookingIds : <<b, c>> \notin OverlappingPairs
    BY DEF OverlappingPairs
  <2>. QED  BY <2>1, <2>2 DEF Apart
<1>2. OverlappingPairs' = {} <=> Apart(bookings')
  <2>1. \A b, c \in BookingIds :
           <<b, c>> \in OverlappingPairs' <=>
              /\ b < c
              /\ InExclusionDomain(bookings'[b]) /\ InExclusionDomain(bookings'[c])
              /\ bookings'[b].resource = bookings'[c].resource
              /\ Overlaps(bookings'[b].range, bookings'[c].range)
    BY DEF OverlappingPairs, InExclusionDomain
  <2>2. OverlappingPairs' = {} <=> \A b, c \in BookingIds : <<b, c>> \notin OverlappingPairs'
    BY DEF OverlappingPairs
  <2>. QED  BY <2>1, <2>2 DEF Apart
<1>. QED  BY <1>1, <1>2

\* The INSERT of a row that the whole constraint admits.
LEMMA WriteRowKeepsWhole ==
  ASSUME WatchTypes, WholeInv, NEW r \in Resources, NEW u \in Users, NEW p \in Range,
         NEW st \in {"confirmed", "held"}, WriteRow(r, u, p, st)
  PROVE  WatchTypes' /\ WholeInv'
<1>. DEFINE row == NewRow(r, u, p, NoSeries, st, 0)
<1>1. row \in Row
  BY NewRowIsRow, TableAssumption DEF Times
<1>2. PICK b \in BookingIds : bookings' = [bookings EXCEPT ![b] = row] /\ bookings[b] = Absent
  BY DEF WriteRow, FreshIds
<1>3. bookings' \in WatchTable /\ bookings'[b] = row
      /\ \A c \in BookingIds \ {b} : bookings'[c] = bookings[c]
  BY <1>1, <1>2 DEF WatchTypes, WatchTable
<1>4. WatchTypes'
  BY <1>3 DEF WriteRow, WatchTypes
<1>5. ASSUME constraint = "whole"
      PROVE  Apart(bookings')
  <2>1. row.status = st /\ row.resource = r /\ row.range = p
    BY DEF NewRow
  <2>2. \A c \in BookingIds :
           InExclusionDomain(bookings[c]) /\ bookings[c].resource = r
              => ~Overlaps(bookings[c].range, p)
    BY <1>5, <2>1 DEF WriteRow, Admits, Guarded, InExclusionDomain
  <2>3. Apart(bookings)
    BY <1>5, NoPairIsApart DEF WholeInv
  <2>4. \A c \in BookingIds : InExclusionDomain(bookings[c]) => bookings[c].range \in Range
    BY DEF WatchTypes, WatchTable, InExclusionDomain, Absent, Row, Held, Settled
  <2>5. ASSUME NEW c \in BookingIds, NEW d \in BookingIds, c < d,
               InExclusionDomain(bookings'[c]), InExclusionDomain(bookings'[d]),
               bookings'[c].resource = bookings'[d].resource
        PROVE  ~Overlaps(bookings'[c].range, bookings'[d].range)
    <3>1. CASE c = b
      <4>1. d # b
        BY <2>5, <3>1 DEF BookingIds
      <4>2. ~Overlaps(bookings[d].range, p) /\ bookings[d].range \in Range
        BY <1>3, <2>1, <2>2, <2>4, <2>5, <3>1, <4>1
      <4>. QED  BY <1>3, <2>1, <3>1, <4>1, <4>2, OverlapsEitherWay
    <3>2. CASE d = b
      <4>1. c # b
        BY <2>5, <3>2 DEF BookingIds
      <4>. QED  BY <1>3, <2>1, <2>2, <2>5, <3>2, <4>1
    <3>3. CASE c # b /\ d # b
      BY <1>3, <2>3, <2>5, <3>3 DEF Apart
    <3>. QED  BY <3>1, <3>2, <3>3
  <2>. QED  BY <2>5 DEF Apart
<1>6. WholeInv'
  BY <1>5, NoPairIsApart DEF WholeInv, WriteRow
<1>. QED  BY <1>4, <1>6

\* A row that ends, at any time and under any constraint.
LEMMA FreeRowKeepsWhole ==
  ASSUME WatchTypes, WholeInv, NEW b \in BookingIds, FreeRow(b)
  PROVE  WatchTypes' /\ WholeInv'
<1>1. /\ bookings' \in WatchTable
      /\ ~InExclusionDomain(bookings'[b])
      /\ \A c \in BookingIds \ {b} : bookings'[c] = bookings[c]
  <2>1. bookings[b] \in Row /\ bookings[b].status \in {"held", "confirmed"}
    BY DEF FreeRow, WatchTypes, WatchTable, InTable, Absent
  <2>2. [bookings[b] EXCEPT !.status = "cancelled", !.expires = NoExpiry] \in Row
    BY <2>1, SettledAfterHeld
  <2>3. bookings' = [bookings EXCEPT ![b] =
                       [bookings[b] EXCEPT !.status = "cancelled", !.expires = NoExpiry]]
    BY DEF FreeRow, AfterRelease
  <2>4. [bookings[b] EXCEPT !.status = "cancelled", !.expires = NoExpiry].status = "cancelled"
    BY <2>1 DEF Row, Held, Settled
  <2>5. bookings' \in WatchTable /\ bookings'[b].status = "cancelled"
    BY <2>2, <2>3, <2>4 DEF WatchTypes, WatchTable
  <2>. QED  BY <2>3, <2>5 DEF InExclusionDomain, WatchTypes, WatchTable
<1>2. WatchTypes'
  BY <1>1 DEF FreeRow, WatchTypes
<1>3. Apart(bookings) => Apart(bookings')
  BY <1>1 DEF Apart
<1>. QED  BY <1>2, <1>3, NoPairIsApart DEF FreeRow, WholeInv

\* A constraint that is made whole again is made so over rows that are apart.
LEMMA ChangeKeepsWhole ==
  ASSUME WatchInv, NEW c \in {"whole", "confirmed_only", "missing"}, ChangeConstraint(c)
  PROVE  WatchInv'
<1>1. WatchTypes' /\ changes' # 0
  BY DEF ChangeConstraint, WatchInv, WatchTypes
<1>2. WholeInv'
  BY DEF ChangeConstraint, WatchInv, WholeInv, OverlappingPairs
<1>. QED  BY <1>1, <1>2 DEF WatchInv, QuietInv

-----------------------------------------------------------------------------
(* The checks and the evaluations.                                          *)

LEMMA CheckSteps ==
  ASSUME WatchInv, CheckSchemaAssertion \/ CheckReconciliation \/ Ages
  PROVE  WatchInv'
<1>1. UNCHANGED <<bookings, constraint, changes, events, evals>>
  BY DEF CheckSchemaAssertion, CheckReconciliation, Ages, Records
<1>2. checks' \in [Checks -> [status : {"none", "pass", "fail"}, old : BOOLEAN]]
  <2>. DEFINE run == [status : {"none", "pass", "fail"}, old : BOOLEAN]
  <2>1. checks \in [Checks -> run]
    BY DEF WatchInv, WatchTypes
  <2>2. ASSUME NEW c \in Checks, NEW ok, Records(c, ok)
        PROVE  checks' \in [Checks -> run]
    <3>1. [status |-> IF ok THEN "pass" ELSE "fail", old |-> FALSE] \in run
      OBVIOUS
    <3>. HIDE DEF run
    <3>. QED  BY <2>1, <2>2, <3>1 DEF Records
  <2>3. CASE Ages
    <3>1. [checks["schema_assertion"] EXCEPT !.old = TRUE] \in run
      BY <2>1 DEF Checks
    <3>2. checks' = [checks EXCEPT !["schema_assertion"] =
                        [checks["schema_assertion"] EXCEPT !.old = TRUE]]
      BY <2>3 DEF Ages
    <3>. QED  BY <2>1, <3>1, <3>2, Zenon
  <2>. QED  BY <2>2, <2>3 DEF CheckSchemaAssertion, CheckReconciliation, Checks
<1>3. WatchTypes' /\ WholeInv'
  BY <1>1, <1>2 DEF WatchInv, WatchTypes, WholeInv, OverlappingPairs
<1>4. changes = 0 => checks'["reconciliation"].status # "fail"
  BY DEF CheckSchemaAssertion, CheckReconciliation, Ages, Records, WatchInv, WatchTypes, Checks,
         WholeInv, QuietInv
<1>5. QuietInv'
  BY <1>1, <1>4 DEF WatchInv, QuietInv, SawHit
<1>. QED  BY <1>3, <1>5 DEF WatchInv

\* What an evaluation does leaves the table and the checks alone.
LEMMA EvaluationStep ==
  ASSUME WatchInv, UNCHANGED watchVars,
         NEW e \in Evaluators, NEW to \in EvaluationSteps,
         evals' = [evals EXCEPT ![e] = to],
         changes = 0 /\ to.step = "write" /\ Keys[to.at] = "reconciliation" => ~to.active,
         events' \in [EventIds -> KeySet \cup {NoEvent}],
         changes = 0 => \A m \in EventIds : events'[m] # "reconciliation"
  PROVE  WatchInv'
<1>1. WatchTypes' /\ WholeInv'
  BY DEF watchVars, WatchInv, WatchTypes, WholeInv, OverlappingPairs
<1>2. ASSUME changes = 0, NEW d \in Evaluators
      PROVE  ~SawHit(d)'
  BY <1>2 DEF WatchInv, WatchTypes, QuietInv, SawHit
<1>3. QuietInv'
  BY <1>2 DEF watchVars, WatchInv, QuietInv
<1>. QED  BY <1>1, <1>3 DEF WatchInv

LEMMA KeysAreKeys ==
  /\ DOMAIN Keys = 1..Len(Keys) /\ Len(Keys) \in Nat \ {0}
  /\ \A i \in DOMAIN Keys : Keys[i] \in KeySet
  /\ KeySet \subseteq Checks
BY AlertingAssumption DEF KeySet

\* The state an evaluation is in when it is done with a key.
LEMMA AdvancedStep ==
  ASSUME WatchTypes, NEW e \in Evaluators, evals[e].step # "resting"
  PROVE  \E to \in EvaluationSteps :
            /\ Advanced(e) = [evals EXCEPT ![e] = to]
            /\ to.step # "write"
<1>1. evals[e].at \in 1..Len(Keys)
  BY KeysAreKeys DEF WatchTypes, EvaluationSteps
<1>2. CASE evals[e].at < Len(Keys)
  <2>1. [step |-> "look", at |-> evals[e].at + 1] \in EvaluationSteps
    BY <1>1, <1>2, KeysAreKeys DEF EvaluationSteps
  <2>. QED  BY <1>2, <2>1 DEF Advanced
<1>3. CASE ~(evals[e].at < Len(Keys))
  <2>1. Resting \in EvaluationSteps /\ Resting.step # "write"
    BY DEF EvaluationSteps, Resting
  <2>. QED  BY <1>3, <2>1 DEF Advanced
<1>. QED  BY <1>2, <1>3

LEMMA EvaluateSteps ==
  ASSUME WatchInv, NEW e \in Evaluators, Evaluate(e) \/ EvaluationDies(e)
  PROVE  WatchInv'
<1>. USE DEF WatchInv
<1>1. /\ events \in [EventIds -> KeySet \cup {NoEvent}]
      /\ changes = 0 => \A m \in EventIds : events[m] # "reconciliation"
  BY DEF WatchTypes, QuietInv
<1>2. Resting \in EvaluationSteps /\ Resting.step # "write"
  BY DEF EvaluationSteps, Resting
<1>3. CASE StartEvaluation(e)
  <2>1. [step |-> "look", at |-> 1] \in EvaluationSteps
    BY KeysAreKeys DEF EvaluationSteps
  <2>. QED  BY <1>1, <1>3, <2>1, EvaluationStep DEF StartEvaluation
<1>4. CASE Look(e)
  <2>. DEFINE k  == Keys[evals[e].at]
              to == [step |-> "write", at |-> evals[e].at, active |-> Active(k),
                     open |-> IF OpenEvents(k) = {} THEN 0 ELSE CHOOSE m \in OpenEvents(k) : TRUE]
  <2>1. evals[e].at \in DOMAIN Keys /\ k \in Checks
    BY <1>4, KeysAreKeys DEF Look, WatchTypes, EvaluationSteps
  <2>2. to.open \in EventIds \cup {0}
    BY DEF OpenEvents
  <2>3. Active(k) \in BOOLEAN
    BY <2>1 DEF Active, WatchTypes
  <2>4. to \in EvaluationSteps
    BY <2>1, <2>2, <2>3 DEF EvaluationSteps
  <2>5. changes = 0 /\ k = "reconciliation" => ~Active(k)
    BY DEF Active, QuietInv
  <2>6. evals' = [evals EXCEPT ![e] = to] /\ UNCHANGED watchVars /\ UNCHANGED events
    BY <1>4 DEF Look
  <2>. HIDE DEF k
  <2>7. to.step = "write" /\ to.at = evals[e].at /\ to.active = Active(k)
    OBVIOUS
  <2>8. changes = 0 /\ to.step = "write" /\ Keys[to.at] = "reconciliation" => ~to.active
    BY <2>5, <2>7 DEF k
  <2>. HIDE DEF to
  <2>. QED  BY <1>1, <2>4, <2>6, <2>8, EvaluationStep
<1>5. CASE ResolveOrRest(e)
  <2>1. PICK to \in EvaluationSteps : evals' = [evals EXCEPT ![e] = to] /\ to.step # "write"
    BY <1>5, AdvancedStep DEF ResolveOrRest
  <2>2. events' \in [EventIds -> KeySet \cup {NoEvent}]
    BY <1>1, <1>5 DEF ResolveOrRest
  <2>3. changes = 0 => \A m \in EventIds : events'[m] # "reconciliation"
    BY <1>1, <1>5 DEF ResolveOrRest, NoEvent
  <2>. QED  BY <1>5, <2>1, <2>2, <2>3, EvaluationStep DEF ResolveOrRest
<1>6. CASE Fire(e)
  <2>1. evals[e].at \in DOMAIN Keys
    BY <1>6 DEF Fire, WatchTypes, EvaluationSteps
  <2>2. PICK m \in EventIds :
           /\ events' = [events EXCEPT ![m] = Keys[evals[e].at]]
           /\ evals' = [evals EXCEPT ![e] = [step |-> "mail", at |-> evals[e].at]]
    BY <1>6 DEF Fire, FreshEvents
  <2>3. [step |-> "mail", at |-> evals[e].at] \in EvaluationSteps
    BY <2>1 DEF EvaluationSteps
  <2>4. changes = 0 => Keys[evals[e].at] # "reconciliation"
    BY <1>6 DEF Fire, QuietInv, SawHit
  <2>5. events' \in [EventIds -> KeySet \cup {NoEvent}]
    BY <1>1, <2>1, <2>2, KeysAreKeys
  <2>6. changes = 0 => \A n \in EventIds : events'[n] # "reconciliation"
    BY <1>1, <2>2, <2>4
  <2>. QED  BY <1>6, <2>2, <2>3, <2>5, <2>6, EvaluationStep DEF Fire
<1>7. CASE FiredByAnother(e) \/ EvaluationDies(e)
  BY <1>1, <1>2, <1>7, EvaluationStep DEF FiredByAnother, EvaluationDies
<1>8. CASE SendAlert(e)
  <2>1. PICK to \in EvaluationSteps : evals' = [evals EXCEPT ![e] = to] /\ to.step # "write"
    BY <1>8, AdvancedStep DEF SendAlert
  <2>. QED  BY <1>1, <1>8, <2>1, EvaluationStep DEF SendAlert
<1>. QED  BY <1>3, <1>4, <1>5, <1>6, <1>7, <1>8 DEF Evaluate

LEMMA WatchStarts == AlertingInit => WatchInv
<1>. SUFFICES ASSUME AlertingInit PROVE WatchInv
  OBVIOUS
<1>1. Resting \in EvaluationSteps
  BY DEF EvaluationSteps, Resting
<1>2. WatchTypes
  BY <1>1 DEF AlertingInit, WatchTypes, WatchTable, NoRun
<1>3. Apart(bookings)
  BY DEF AlertingInit, Apart, InExclusionDomain, Absent
<1>4. QuietInv
  BY DEF AlertingInit, QuietInv, SawHit, Resting, NoRun, NoEvent, Checks
<1>. QED  BY <1>2, <1>3, <1>4, NoPairIsApart DEF WatchInv, WholeInv

LEMMA WatchStep == WatchInv /\ [AlertingNext]_alertVars => WatchInv'
<1>. SUFFICES ASSUME WatchInv, [AlertingNext]_alertVars PROVE WatchInv'
  OBVIOUS
<1>1. ASSUME NEW r \in Resources, NEW u \in Users, NEW w \in Writes, WriteRow(r, u, w[1], w[2])
      PROVE  WatchInv'
  <2>1. w[1] \in Range /\ w[2] \in {"confirmed", "held"}
    BY AlertingAssumption
  <2>2. WatchTypes' /\ WholeInv'
    BY <1>1, <2>1, WriteRowKeepsWhole DEF WatchInv
  <2>. QED  BY <1>1, <2>2 DEF WriteRow, WatchInv, QuietInv, SawHit
<1>2. ASSUME NEW b \in BookingIds, FreeRow(b)
      PROVE  WatchInv'
  <2>1. WatchTypes' /\ WholeInv'
    BY <1>2, FreeRowKeepsWhole DEF WatchInv
  <2>. QED  BY <1>2, <2>1 DEF FreeRow, WatchInv, QuietInv, SawHit
<1>3. ASSUME NEW c \in {"whole", "confirmed_only", "missing"}, ChangeConstraint(c)
      PROVE  WatchInv'
  BY <1>3, ChangeKeepsWhole
<1>4. CASE CheckSchemaAssertion \/ CheckReconciliation \/ Ages
  BY <1>4, CheckSteps
<1>5. ASSUME NEW e \in Evaluators, Evaluate(e) \/ EvaluationDies(e)
      PROVE  WatchInv'
  BY <1>5, EvaluateSteps
<1>6. CASE UNCHANGED alertVars
  BY <1>6 DEF alertVars, watchVars, WatchInv, WatchTypes, WholeInv, QuietInv, SawHit, OverlappingPairs
<1>. QED  BY <1>1, <1>2, <1>3, <1>4, <1>5, <1>6 DEF AlertingNext

\* There is no alert of the reconciliation without a change of the constraint,
\* however the writers of the table, the checks and overlapping evaluations
\* interleave: "never a race condition" (RECONCILIATION_FAILURE_MESSAGE).
THEOREM HitsAreRemovals == AlertingSpec => []HitMeansRemoved
<1>1. WatchInv => HitMeansRemoved
  BY DEF WatchInv, WatchTypes, QuietInv, HitMeansRemoved, OpenEvents
<1>. QED  BY <1>1, WatchStarts, WatchStep, PTL DEF AlertingSpec
=============================================================================
