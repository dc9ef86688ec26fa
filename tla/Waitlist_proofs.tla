--------------------------- MODULE Waitlist_proofs ---------------------------
(***************************************************************************)
(* Proofs about Waitlist for every value of its constants: any number of   *)
(* users, resources, rows, entries, workers and faults, any window.        *)
(***************************************************************************)
EXTENDS Waitlist, BookingTable_proofs

-----------------------------------------------------------------------------
(* The inductive invariant.                                                 *)

Joined(e) == entries[e] # NotJoined

Attaching(w) == workers[w].pc = "attaching"

\* Workers and offers name entries that exist; the row under an offer is the
\* entry's user's.
WorkerInv ==
    \A w \in Workers :
        /\ workers[w].pc = "holding" => \A e \in workers[w].todo : Joined(e)
        /\ workers[w].pc \in {"attaching", "marking"} => Joined(workers[w].entry)

OwnerInv ==
    \A h \in Offered :
        /\ Joined(offers[h].entry)
        /\ bookings[h].user = entries[offers[h].entry].user

EntryInv == WorkerInv /\ OwnerInv

\* The hold a worker is about to attach an offer to has none yet and is the
\* entry's user's, unless cleanup-on-write deleted it; nobody else attaches to it.
AttachInv ==
    \A w \in Workers : Attaching(w) =>
        LET h == workers[w].hold
        IN  /\ bookings[h].status \in {"held", "cancelled", "deleted"}
            /\ bookings[h] # Deleted => bookings[h].user = entries[workers[w].entry].user
            /\ h \notin Offered
            /\ \A v \in Workers \ {w} : Attaching(v) => workers[v].hold # h

\* What a sweep has listed stays lapsed for as long as it is a hold.
SweepInv ==
    \A w \in Reapers : \A h \in sweeps[w] :
        /\ bookings[h] # Absent
        /\ bookings[h].status = "held" => Lapsed(bookings[h], now)

IInv ==
    /\ WaitlistTypeOK
    /\ EntryInv
    /\ AttachInv
    /\ SweepInv
    /\ OffersMatchHolds
    /\ FulfilledWasGranted
    /\ OneLiveEntry

-----------------------------------------------------------------------------
(* Facts about states.                                                      *)

\* What the types say of a worker.
LEMMA WorkerTypes ==
  ASSUME WaitlistTypeOK, NEW w \in Workers
  PROVE  /\ workers[w].pc = "listing" =>
               workers[w].resource \in Resources /\ workers[w].range \in Range
         /\ workers[w].pc = "holding" => workers[w].todo \in SUBSET EntryIds
         /\ workers[w].pc = "attaching" =>
               /\ workers[w].entry \in EntryIds /\ workers[w].hold \in BookingIds
               /\ workers[w].expires \in 0..(MaxTime + HoldWindow)
         /\ workers[w].pc = "marking" => workers[w].entry \in EntryIds
BY DEF WaitlistTypeOK, Worker, Idle

\* What the types say of an entry and of an offer.
LEMMA EntryTypes ==
  ASSUME WaitlistTypeOK, NEW e \in EntryIds, Joined(e)
  PROVE  /\ entries[e] \in Entry
         /\ entries[e].user \in Users
         /\ entries[e].resource \in Resources
         /\ entries[e].range \in Range
         /\ entries[e].status \in EntryStatus
BY DEF WaitlistTypeOK, Joined, Entry

LEMMA OfferTypes ==
  ASSUME WaitlistTypeOK, NEW h \in Offered
  PROVE  /\ h \in BookingIds
         /\ offers[h] \in Offer
         /\ offers[h].entry \in EntryIds
         /\ offers[h].range \in Range
         /\ offers[h].status \in OfferStatus
BY DEF WaitlistTypeOK, Offered, Offer

\* An offer with a status of an offer is one.
LEMMA ActiveIsOffered ==
  ASSUME WaitlistTypeOK, NEW h \in BookingIds, offers[h].status = "active"
  PROVE  h \in Offered
BY DEF WaitlistTypeOK, Offered, NoOffer

\* An entry with a status of an entry has joined.
LEMMA StatusIsJoined ==
  ASSUME NEW e \in EntryIds, entries[e].status \in EntryStatus
  PROVE  Joined(e)
BY DEF Joined, NotJoined, EntryStatus

LEMMA LiveIsJoined ==
  ASSUME NEW u, NEW r, NEW p, NEW e \in LiveEntries(u, r, p)
  PROVE  e \in EntryIds /\ Joined(e)
BY DEF LiveEntries, Joined, NotJoined

\* The row under an offer is a row.
LEMMA OfferedIsRow ==
  ASSUME WaitlistTypeOK, OffersMatchHolds, NEW h \in Offered
  PROVE  h \in BookingIds /\ bookings[h] \in Row
BY OfferTypes DEF WaitlistTypeOK, OffersMatchHolds

\* Holds that lapsed stay lapsed.
LEMMA LapsedLater ==
  ASSUME NEW x \in Row, NEW t \in Int, NEW u \in Int, t <= u, Lapsed(x, t)
  PROVE  Lapsed(x, u)
BY TableAssumption DEF Lapsed, Row, Held, Settled

-----------------------------------------------------------------------------
(* What the statements do to the tables.                                    *)

\* A successful create_booking.
LEMMA InsertRows ==
  ASSUME WaitlistTypeOK, NEW b, NEW r \in Resources, NEW u \in Users, NEW p \in Range,
         NEW st \in {"confirmed", "held"}, InsertBooking(b, r, u, p, st)
  PROVE  /\ b \in BookingIds
         /\ bookings[b] = Absent
         /\ bookings' \in Table
         /\ bookings'[b] \in Row
         /\ bookings'[b].status = st
         /\ bookings'[b].user = u
         /\ \A c \in BookingIds \ {b} :
               \/ bookings'[c] = bookings[c]
               \/ bookings'[c] = Deleted /\ Lapsed(bookings[c], now) /\ c \notin Offered
<1>1. b \in FreshIds(bookings) /\ now \in Times /\ bookings \in Table
  BY DEF InsertBooking, WaitlistTypeOK, Table
<1>2. bookings' = Inserted(bookings, b, r, u, p, NoSeries, st, now)
  BY DEF InsertBooking, Inserted
<1>3. /\ b \in BookingIds
      /\ bookings[b] = Absent
      /\ bookings' \in Table
      /\ bookings'[b] \in Row
      /\ bookings'[b] = NewRow(r, u, p, NoSeries, st, now)
      /\ \A c \in BookingIds \ {b} :
            IF c \in StaleHolds(bookings, r, p, now)
            THEN bookings'[c] = Deleted ELSE bookings'[c] = bookings[c]
  BY <1>1, <1>2, InsertedTable
<1>4. StaleHolds(bookings, r, p, now) \cap Offered = {}
  BY DEF InsertBooking
<1>. QED  BY <1>3, <1>4 DEF NewRow, StaleHolds

\* UPDATE ... SET status of an entry, and of an offer.
LEMMA EntryMarked ==
  ASSUME WaitlistTypeOK, NEW e \in EntryIds, Joined(e), NEW st \in EntryStatus,
         entries' = [entries EXCEPT ![e].status = st]
  PROVE  /\ entries' \in [EntryIds -> Entry \cup {NotJoined}]
         /\ entries'[e] \in Entry
         /\ entries'[e].status = st
         /\ entries'[e].user = entries[e].user
         /\ entries'[e].resource = entries[e].resource
         /\ entries'[e].range = entries[e].range
         /\ \A d \in EntryIds \ {e} : entries'[d] = entries[d]
<1>1. entries[e] \in Entry
  BY EntryTypes
<1>2. [entries[e] EXCEPT !.status = st] \in Entry
  BY <1>1 DEF Entry
<1>. QED  BY <1>1, <1>2 DEF WaitlistTypeOK, Entry

LEMMA OfferMarked ==
  ASSUME WaitlistTypeOK, NEW h \in Offered, NEW st \in OfferStatus,
         offers' = [offers EXCEPT ![h].status = st]
  PROVE  /\ offers' \in [BookingIds -> Offer \cup {NoOffer}]
         /\ offers'[h] \in Offer
         /\ offers'[h].status = st
         /\ offers'[h].entry = offers[h].entry
         /\ offers'[h].range = offers[h].range
         /\ offers'[h].expires = offers[h].expires
         /\ \A g \in BookingIds \ {h} : offers'[g] = offers[g]
<1>1. offers[h] \in Offer /\ h \in BookingIds
  BY OfferTypes
<1>2. [offers[h] EXCEPT !.status = st] \in Offer
  BY <1>1 DEF Offer
<1>. QED  BY <1>1, <1>2 DEF WaitlistTypeOK, Offer

-----------------------------------------------------------------------------
(* Type correctness.                                                        *)

\* A dispatched task is a task, a lost one a fault.
LEMMA DispatchType ==
  ASSUME WaitlistTypeOK, NEW task \in Task, Dispatch(task)
  PROVE  freed' \subseteq Task /\ faults' \in 0..MaxFaults
BY WaitlistAssumption DEF WaitlistTypeOK, Dispatch

\* The services' writes keep the types.
LEMMA ServiceTypes ==
  ASSUME WaitlistTypeOK,
         \/ \E r \in Resources, u \in Users, p \in BookRanges : Book(r, u, p)
         \/ \E b \in BookingIds, p \in EditRanges : Edit(b, p)
         \/ \E b \in BookingIds : CancelBooking(b)
  PROVE  WaitlistTypeOK'
<1>. USE DEF Table
<1>1. ASSUME NEW r \in Resources, NEW u \in Users, NEW p \in BookRanges, Book(r, u, p)
      PROVE  WaitlistTypeOK'
  <2>1. p \in Range
    BY WaitlistAssumption
  <2>2. bookings' \in Table
    BY <1>1, <2>1, InsertRows DEF Book
  <2>. QED  BY <1>1, <2>2 DEF Book, WaitlistTypeOK
<1>2. ASSUME NEW b \in BookingIds, NEW p \in EditRanges, Edit(b, p)
      PROVE  WaitlistTypeOK'
  <2>1. p \in Range
    BY WaitlistAssumption
  <2>2. bookings' = Moved(bookings, b, p)
    BY <1>2 DEF Edit, Moved
  <2>3. bookings' \in Table
    BY <1>2, <2>1, <2>2, MovedTable DEF Edit, WaitlistTypeOK
  <2>. QED  BY <1>2, <2>3 DEF Edit, WaitlistTypeOK
<1>3. ASSUME NEW b \in BookingIds, CancelBooking(b)
      PROVE  WaitlistTypeOK'
  <2>1. bookings[b] \in Row
    BY <1>3, InTableIsRow DEF CancelBooking, WaitlistTypeOK
  <2>2. [of |-> b, resource |-> bookings[b].resource, range |-> bookings[b].range] \in Task
    BY <2>1 DEF Task, Row, Held, Settled
  <2>3. bookings' \in Table
    BY <1>3, CancelledTable DEF CancelBooking, WaitlistTypeOK
  <2>. QED  BY <1>3, <2>2, <2>3, DispatchType DEF CancelBooking, WaitlistTypeOK
<1>. QED  BY <1>1, <1>2, <1>3

\* So do joining and withdrawing.
LEMMA JoinTypes ==
  ASSUME WaitlistTypeOK,
         \/ \E u \in Users, r \in Resources, p \in JoinRanges : CheckJoin(u, r, p)
         \/ \E q \in checked : Join(q)
         \/ \E e \in EntryIds : CancelEntry(e)
  PROVE  WaitlistTypeOK'
<1>1. ASSUME NEW u \in Users, NEW r \in Resources, NEW p \in JoinRanges, CheckJoin(u, r, p)
      PROVE  WaitlistTypeOK'
  <2>1. [user |-> u, resource |-> r, range |-> p] \in JoinRequest
    BY WaitlistAssumption DEF JoinRequest
  <2>. QED  BY <1>1, <2>1 DEF CheckJoin, WaitlistTypeOK
<1>2. ASSUME NEW q \in checked, Join(q)
      PROVE  WaitlistTypeOK'
  <2>1. [user |-> q.user, resource |-> q.resource, range |-> q.range, status |-> "waiting"]
           \in Entry
    BY DEF WaitlistTypeOK, JoinRequest, Entry, EntryStatus
  <2>2. entries' \in [EntryIds -> Entry \cup {NotJoined}]
    BY <1>2, <2>1 DEF Join, WaitlistTypeOK, NextEntry
  <2>. QED  BY <1>2, <2>2 DEF Join, WaitlistTypeOK
<1>3. ASSUME NEW e \in EntryIds, CancelEntry(e)
      PROVE  WaitlistTypeOK'
  <2>1. Joined(e)
    BY <1>3, StatusIsJoined DEF CancelEntry, EntryStatus
  <2>2. entries' \in [EntryIds -> Entry \cup {NotJoined}]
    BY <1>3, <2>1, EntryMarked DEF CancelEntry, EntryStatus
  <2>. QED  BY <1>3, <2>2 DEF CancelEntry, WaitlistTypeOK
<1>. QED  BY <1>1, <1>2, <1>3

\* What acceptance, decline and reclaim do to hold, offer and entry.
LEMMA AcceptRows ==
  ASSUME WaitlistTypeOK, EntryInv, OffersMatchHolds, NEW h \in BookingIds, Accept(h)
  PROVE  /\ h \in Offered
         /\ offers[h].status = "active"
         /\ offers' = [offers EXCEPT ![h].status = "confirmed"]
         /\ Joined(offers[h].entry) /\ offers[h].entry \in EntryIds
         /\ bookings[h].status = "held"
         /\ bookings' \in Table
         /\ bookings'[h].status = "confirmed"
         /\ bookings'[h].user = bookings[h].user
         /\ bookings'[h] \in Row
         /\ \A c \in BookingIds \ {h} : bookings'[c] = bookings[c]
<1>1. h \in Offered /\ bookings[h].status = "held"
  BY DEF Accept, Offered
<1>2. offers[h].status = "active"
  BY <1>1 DEF OffersMatchHolds
<1>3. offers' = [offers EXCEPT ![h].status = "confirmed"]
  BY <1>2 DEF Accept
<1>4. Joined(offers[h].entry) /\ offers[h].entry \in EntryIds
  BY <1>1, OfferTypes DEF EntryInv, WorkerInv, OwnerInv
<1>5. bookings \in Table
  BY DEF WaitlistTypeOK, Table
<1>6. bookings' = AfterAccept(bookings, h)
  BY DEF Accept
<1>. QED  BY <1>1, <1>2, <1>3, <1>4, <1>5, <1>6, AcceptedTable

LEMMA ReleaseRows ==
  ASSUME WaitlistTypeOK, NEW h \in BookingIds, bookings[h].status = "held",
         bookings' = AfterRelease(bookings, h)
  PROVE  /\ bookings' \in Table
         /\ bookings'[h].status = "cancelled"
         /\ bookings'[h].user = bookings[h].user
         /\ bookings'[h] \in Row
         /\ \A c \in BookingIds \ {h} : bookings'[c] = bookings[c]
<1>1. bookings \in Table
  BY DEF WaitlistTypeOK, Table
<1>. QED  BY <1>1, ReleasedTable

\* A decline leaves the hold cancelled, whether it released it or found it so.
LEMMA DeclineRows ==
  ASSUME WaitlistTypeOK, EntryInv, OffersMatchHolds, NEW h \in BookingIds, Decline(h)
  PROVE  /\ h \in Offered
         /\ Joined(offers[h].entry) /\ offers[h].entry \in EntryIds
         /\ bookings[h].status \in {"held", "cancelled"}
         /\ bookings' \in Table
         /\ bookings'[h].status = "cancelled"
         /\ bookings'[h].user = bookings[h].user
         /\ bookings'[h] \in Row
         /\ \A c \in BookingIds \ {h} : bookings'[c] = bookings[c]
<1>1. h \in Offered
  BY ActiveIsOffered DEF Decline
<1>2. bookings[h].status \in {"held", "cancelled"}
  BY <1>1 DEF Decline, OffersMatchHolds
<1>3. Joined(offers[h].entry) /\ offers[h].entry \in EntryIds
  BY <1>1, OfferTypes DEF EntryInv, WorkerInv, OwnerInv
<1>4. CASE bookings[h].status = "held"
  BY <1>1, <1>2, <1>3, <1>4, ReleaseRows DEF Decline
<1>5. CASE bookings[h].status = "cancelled"
  <2>1. bookings' = bookings
    BY <1>5 DEF Decline
  <2>2. bookings[h] \in Row
    BY <1>5, InTableIsRow DEF WaitlistTypeOK
  <2>. QED  BY <1>1, <1>2, <1>3, <1>5, <2>1, <2>2 DEF WaitlistTypeOK, Table
<1>. QED  BY <1>2, <1>4, <1>5

\* Resolving an offer keeps the types.
LEMMA ResolveTypes ==
  ASSUME WaitlistTypeOK, EntryInv, OffersMatchHolds, NEW h \in BookingIds,
         Accept(h) \/ Decline(h)
  PROVE  WaitlistTypeOK'
<1>1. CASE Accept(h)
  <2>1. entries' = [entries EXCEPT ![offers[h].entry].status = "fulfilled"]
    BY <1>1 DEF Accept
  <2>2. entries' \in [EntryIds -> Entry \cup {NotJoined}]
    BY <1>1, <2>1, AcceptRows, EntryMarked DEF EntryStatus
  <2>3. offers' \in [BookingIds -> Offer \cup {NoOffer}]
    BY <1>1, AcceptRows, OfferMarked DEF OfferStatus
  <2>. QED  BY <1>1, <2>2, <2>3, AcceptRows DEF Accept, WaitlistTypeOK, Table
<1>2. CASE Decline(h)
  <2>1. entries' = [entries EXCEPT ![offers[h].entry].status = "expired"]
    BY <1>2 DEF Decline
  <2>2. entries' \in [EntryIds -> Entry \cup {NotJoined}]
    BY <1>2, <2>1, DeclineRows, EntryMarked DEF EntryStatus
  <2>3. offers' \in [BookingIds -> Offer \cup {NoOffer}]
    BY <1>2, DeclineRows, OfferMarked DEF Decline, OfferStatus
  <2>4. [of |-> h, resource |-> bookings[h].resource, range |-> offers[h].range] \in Task
    <3>1. bookings[h] \in Row
      BY <1>2, DeclineRows, InTableIsRow DEF WaitlistTypeOK
    <3>2. offers[h].range \in Range
      BY <1>2, DeclineRows, OfferTypes
    <3>. QED  BY <3>1, <3>2 DEF Task, Row, Held, Settled
  <2>5. freed' \subseteq Task /\ faults' \in 0..MaxFaults
    BY <1>2, <2>4, DispatchType DEF Decline
  <2>. QED  BY <1>2, <2>2, <2>3, <2>5, DeclineRows DEF Decline, WaitlistTypeOK, Table
<1>. QED  BY <1>1, <1>2

\* So do the statements of the cascade worker that write to no table.
LEMMA WorkerTypesKept ==
  ASSUME WaitlistTypeOK, NEW w \in Workers,
         \/ w \in Slots /\ \E task \in freed : Take(w, task)
         \/ List(w) \/ SkipCandidate(w) \/ Abandon(w) \/ Crash(w)
  PROVE  WaitlistTypeOK'
<1>1. ASSUME NEW task \in freed, Take(w, task)
      PROVE  WaitlistTypeOK'
  <2>1. [pc |-> "listing", resource |-> task.resource, range |-> task.range] \in Worker
    BY DEF WaitlistTypeOK, Task, Worker
  <2>. QED  BY <1>1, <2>1 DEF Take, WaitlistTypeOK
<1>2. CASE List(w)
  <2>1. EligibleEntries(workers[w].resource, workers[w].range) \in SUBSET EntryIds
    BY DEF EligibleEntries
  <2>2. workers'[w] \in Worker
    BY <1>2, <2>1 DEF List, WaitlistTypeOK, Worker
  <2>. QED  BY <1>2, <2>2 DEF List, WaitlistTypeOK
<1>3. CASE SkipCandidate(w)
  <2>1. workers[w].todo \in SUBSET EntryIds
    BY <1>3, WorkerTypes DEF SkipCandidate
  <2>2. workers'[w] \in Worker
    BY <1>3, <2>1 DEF SkipCandidate, WaitlistTypeOK, Worker
  <2>. QED  BY <1>3, <2>2 DEF SkipCandidate, WaitlistTypeOK
<1>4. CASE Abandon(w)
  BY <1>4 DEF Abandon, WaitlistTypeOK, Worker
<1>5. CASE Crash(w)
  BY <1>5, WaitlistAssumption DEF Crash, WaitlistTypeOK, Worker
<1>. QED  BY <1>1, <1>2, <1>3, <1>4, <1>5

\* The worker's hold.
LEMMA PlaceHoldRows ==
  ASSUME WaitlistTypeOK, EntryInv, NEW w \in Workers, PlaceHold(w)
  PROVE  \E e \in EntryIds, h \in BookingIds :
            /\ Joined(e)
            /\ e \in workers[w].todo
            /\ workers' = [workers EXCEPT
                             ![w] = [pc |-> "attaching", entry |-> e, hold |-> h,
                                     expires |-> now + HoldWindow]]
            /\ bookings[h] = Absent
            /\ bookings' \in Table
            /\ bookings'[h] \in Row
            /\ bookings'[h].status = "held"
            /\ bookings'[h].user = entries[e].user
            /\ \A c \in BookingIds \ {h} :
                  \/ bookings'[c] = bookings[c]
                  \/ bookings'[c] = Deleted /\ Lapsed(bookings[c], now) /\ c \notin Offered
<1>1. PICK e \in FirstOf(workers[w].todo), h \in BookingIds :
         /\ InsertBooking(h, entries[e].resource, entries[e].user, entries[e].range, "held")
         /\ workers' = [workers EXCEPT ![w] = [pc |-> "attaching", entry |-> e, hold |-> h,
                                               expires |-> now + HoldWindow]]
  BY DEF PlaceHold
<1>2. e \in workers[w].todo /\ workers[w].todo \in SUBSET EntryIds
  BY WorkerTypes DEF FirstOf, PlaceHold
<1>3. Joined(e)
  BY <1>2 DEF EntryInv, WorkerInv, OwnerInv, PlaceHold
<1>4. entries[e].resource \in Resources /\ entries[e].user \in Users /\ entries[e].range \in Range
  BY <1>2, <1>3, EntryTypes
<1>5. /\ bookings[h] = Absent
      /\ bookings' \in Table
      /\ bookings'[h] \in Row
      /\ bookings'[h].status = "held"
      /\ bookings'[h].user = entries[e].user
      /\ \A c \in BookingIds \ {h} :
            \/ bookings'[c] = bookings[c]
            \/ bookings'[c] = Deleted /\ Lapsed(bookings[c], now) /\ c \notin Offered
  BY <1>1, <1>4, InsertRows
<1>. QED  BY <1>1, <1>2, <1>3, <1>5

\* And those that do write.
LEMMA WriterTypes ==
  ASSUME WaitlistTypeOK, EntryInv, NEW w \in Workers,
         PlaceHold(w) \/ AttachOffer(w) \/ MarkOffered(w)
  PROVE  WaitlistTypeOK'
<1>1. CASE PlaceHold(w)
  <2>1. PICK e \in EntryIds, h \in BookingIds :
           /\ workers' = [workers EXCEPT
                            ![w] = [pc |-> "attaching", entry |-> e, hold |-> h,
                                    expires |-> now + HoldWindow]]
           /\ bookings' \in Table
    BY <1>1, PlaceHoldRows
  <2>2. [pc |-> "attaching", entry |-> e, hold |-> h,
         expires |-> now + HoldWindow] \in Worker
    BY TableAssumption DEF Worker, WaitlistTypeOK, Times, TableAssumption
  <2>. QED  BY <1>1, <2>1, <2>2 DEF PlaceHold, WaitlistTypeOK, Table
<1>2. CASE AttachOffer(w)
  <2>. DEFINE e == workers[w].entry
  <2>1. /\ e \in EntryIds /\ workers[w].hold \in BookingIds
        /\ workers[w].expires \in 0..(MaxTime + HoldWindow)
    BY <1>2, WorkerTypes DEF AttachOffer
  <2>2. entries[e].range \in Range
    BY <1>2, <2>1, EntryTypes DEF AttachOffer, EntryInv, WorkerInv, OwnerInv
  <2>3. [entry |-> e, range |-> entries[e].range, status |-> "active",
         expires |-> workers[w].expires] \in Offer
    BY <2>1, <2>2 DEF Offer, OfferStatus
  <2>4. [pc |-> "marking", entry |-> e] \in Worker
    BY <2>1 DEF Worker
  <2>. QED  BY <1>2, <2>3, <2>4 DEF AttachOffer, WaitlistTypeOK
<1>3. CASE MarkOffered(w)
  <2>1. workers[w].entry \in EntryIds /\ Joined(workers[w].entry)
    BY <1>3, WorkerTypes DEF MarkOffered, EntryInv, WorkerInv, OwnerInv
  <2>2. entries' \in [EntryIds -> Entry \cup {NotJoined}]
    BY <1>3, <2>1, EntryMarked DEF MarkOffered, EntryStatus
  <2>. QED  BY <1>3, <2>2 DEF MarkOffered, WaitlistTypeOK, Worker
<1>. QED  BY <1>1, <1>2, <1>3

\* The sweep's hold, with or without an offer.
LEMMA ReclaimRows ==
  ASSUME WaitlistTypeOK, EntryInv, NEW w \in Reapers, NEW h \in BookingIds, Reclaim(w, h)
  PROVE  /\ bookings' \in Table
         /\ bookings'[h] \in Row
         /\ bookings'[h].status = "cancelled"
         /\ bookings'[h].user = bookings[h].user
         /\ \A c \in BookingIds \ {h} : bookings'[c] = bookings[c]
         /\ offers[h].status = "active" =>
               /\ h \in Offered
               /\ Joined(offers[h].entry) /\ offers[h].entry \in EntryIds
  <1>1. offers[h].status = "active" => h \in Offered
    BY ActiveIsOffered
  <1>. QED  BY <1>1, ReleaseRows, OfferTypes DEF Reclaim, EntryInv, OwnerInv

\* The sweep, too, keeps the types.
LEMMA SweepTypes ==
  ASSUME WaitlistTypeOK, EntryInv, NEW w \in Reapers,
         \/ BeginSweep(w)
         \/ \E h \in BookingIds : Reclaim(w, h) \/ SkipReclaim(w, h)
  PROVE  WaitlistTypeOK'
<1>1. CASE BeginSweep(w)
  BY <1>1 DEF BeginSweep, LapsedHolds, WaitlistTypeOK
<1>2. ASSUME NEW h \in BookingIds, SkipReclaim(w, h)
      PROVE  WaitlistTypeOK'
  BY <1>2 DEF SkipReclaim, WaitlistTypeOK
<1>3. ASSUME NEW h \in BookingIds, Reclaim(w, h)
      PROVE  WaitlistTypeOK'
  <2>0. sweeps' \in [Reapers -> SUBSET BookingIds] /\ bookings' \in Table
    BY <1>3, ReclaimRows DEF Reclaim, WaitlistTypeOK
  <2>1. CASE offers[h].status # "active"
    BY <1>3, <2>0, <2>1 DEF Reclaim, WaitlistTypeOK, Table
  <2>2. CASE offers[h].status = "active"
    <3>1. h \in Offered /\ Joined(offers[h].entry) /\ offers[h].entry \in EntryIds
      BY <1>3, <2>2, ReclaimRows
    <3>2. offers' \in [BookingIds -> Offer \cup {NoOffer}]
      BY <1>3, <2>2, <3>1, OfferMarked DEF Reclaim, OfferStatus
    <3>3. entries' \in [EntryIds -> Entry \cup {NotJoined}]
      <4>1. entries' = [entries EXCEPT ![offers[h].entry].status = "expired"]
        BY <1>3, <2>2 DEF Reclaim
      <4>. QED  BY <3>1, <4>1, EntryMarked DEF EntryStatus
    <3>4. [pc |-> "listing", resource |-> bookings[h].resource, range |-> offers[h].range]
             \in Worker
      <4>1. bookings[h].resource \in Resources
        BY <1>3, InTableIsRow DEF Reclaim, WaitlistTypeOK, Row, Held, Settled
      <4>. QED  BY <3>1, <4>1, OfferTypes DEF Worker
    <3>. QED  BY <1>3, <2>0, <2>2, <3>2, <3>3, <3>4
              DEF Reclaim, WaitlistTypeOK, Table, Workers
  <2>. QED  BY <2>1, <2>2
<1>. QED  BY <1>1, <1>2, <1>3

-----------------------------------------------------------------------------
(* What every step keeps.                                                   *)

\* A row in the table keeps its user, never becomes a hold again, and a hold
\* keeps its expiry.
RowsKept ==
    \A c \in BookingIds :
        \/ bookings[c] = Absent
        \/ /\ bookings'[c] # Absent
           /\ bookings[c] = Deleted => bookings'[c] = Deleted
           /\ bookings'[c] # Deleted => bookings'[c].user = bookings[c].user
           /\ bookings'[c].status = "held" =>
                 /\ bookings[c].status = "held"
                 /\ bookings'[c].expires = bookings[c].expires

\* An entry, once joined, stays, with its user, and so does an offer, with its
\* entry and its hold's row.
EntriesKept ==
    \A e \in EntryIds : Joined(e) =>
        /\ entries'[e] # NotJoined
        /\ entries'[e].user = entries[e].user

OffersKept ==
    \A h \in Offered :
        /\ offers'[h] # NoOffer
        /\ offers'[h].entry = offers[h].entry
        /\ bookings'[h] # Deleted

\* A worker that stays where it was still names entries that exist.
LEMMA WorkerKept ==
  ASSUME WaitlistTypeOK, WorkerInv, EntriesKept,
         \A w \in Workers : \/ workers'[w] = workers[w]
                            \/ workers'[w].pc \notin {"holding", "attaching", "marking"}
  PROVE  WorkerInv'
<1>1. SUFFICES ASSUME NEW w \in Workers, workers'[w] = workers[w]
               PROVE  /\ workers[w].pc = "holding" =>
                            \A e \in workers[w].todo : entries'[e] # NotJoined
                      /\ workers[w].pc \in {"attaching", "marking"} =>
                            entries'[workers[w].entry] # NotJoined
  BY DEF WorkerInv, Joined
<1>2. /\ workers[w].pc = "holding" => workers[w].todo \in SUBSET EntryIds
      /\ workers[w].pc \in {"attaching", "marking"} => workers[w].entry \in EntryIds
  BY WorkerTypes
<1>. QED  BY <1>2 DEF WorkerInv, EntriesKept

\* Offers that were there still belong to the users of their holds.
LEMMA OwnerKept ==
  ASSUME WaitlistTypeOK, OwnerInv, OffersMatchHolds, RowsKept, EntriesKept, OffersKept,
         NEW h \in Offered
  PROVE  /\ entries'[offers'[h].entry] # NotJoined
         /\ bookings'[h].user = entries'[offers'[h].entry].user
<1>1. h \in BookingIds /\ offers[h].entry \in EntryIds /\ offers'[h].entry = offers[h].entry
  BY OfferTypes DEF OffersKept
<1>2. bookings'[h].user = bookings[h].user
  BY <1>1 DEF RowsKept, OffersKept, OffersMatchHolds
<1>. QED  BY <1>1, <1>2 DEF OwnerInv, EntriesKept

\* The hold of a worker that stays where it was is still free of offers.
LEMMA AttachKept ==
  ASSUME WaitlistTypeOK, WorkerInv, AttachInv, EntriesKept, RowsKept,
         Offered' \subseteq Offered,
         \A c \in BookingIds \ Offered :
            bookings[c].status \in {"held", "cancelled", "deleted"}
               => bookings'[c].status \in {"held", "cancelled", "deleted"},
         \A w \in Workers : workers'[w] = workers[w] \/ workers'[w].pc # "attaching"
  PROVE  AttachInv'
<1>1. SUFFICES ASSUME NEW w \in Workers, workers'[w].pc = "attaching"
               PROVE  LET h == workers'[w].hold
                      IN  /\ bookings'[h].status \in {"held", "cancelled", "deleted"}
                          /\ bookings'[h] # Deleted =>
                                bookings'[h].user = entries'[workers'[w].entry].user
                          /\ h \notin Offered'
                          /\ \A v \in Workers \ {w} :
                                workers'[v].pc = "attaching" => workers'[v].hold # h
  BY DEF AttachInv, Attaching
<1>2. workers'[w] = workers[w] /\ Attaching(w)
  BY <1>1 DEF Attaching
<1>3. workers[w].hold \in BookingIds /\ workers[w].entry \in EntryIds
  BY <1>2, WorkerTypes DEF Attaching
<1>4. Joined(workers[w].entry)
  BY <1>2 DEF WorkerInv, Attaching
<1>. DEFINE h == workers[w].hold
<1>5. /\ bookings[h].status \in {"held", "cancelled", "deleted"}
      /\ bookings[h] # Deleted => bookings[h].user = entries[workers[w].entry].user
      /\ h \notin Offered
      /\ \A v \in Workers \ {w} : Attaching(v) => workers[v].hold # h
  BY <1>2 DEF AttachInv
<1>6. bookings'[h].status \in {"held", "cancelled", "deleted"}
  BY <1>3, <1>5
<1>7. ASSUME bookings'[h] # Deleted
      PROVE  bookings'[h].user = entries'[workers[w].entry].user
  <2>1. bookings[h] # Absent
    BY <1>5 DEF Absent
  <2>2. bookings'[h].user = bookings[h].user
    BY <1>3, <1>7, <2>1 DEF RowsKept
  <2>3. bookings[h] # Deleted
    BY <1>3, <1>7, <2>1 DEF RowsKept
  <2>. QED  BY <1>3, <1>4, <1>5, <2>2, <2>3 DEF EntriesKept
<1>8. h \notin Offered'
  BY <1>5
<1>9. ASSUME NEW v \in Workers \ {w}, workers'[v].pc = "attaching"
      PROVE  workers'[v].hold # h
  BY <1>5, <1>9 DEF Attaching
<1>. QED  BY <1>2, <1>6, <1>7, <1>8, <1>9

\* What a sweep has listed has lapsed for good.
LEMMA SweepKept ==
  ASSUME WaitlistTypeOK, WaitlistTypeOK', SweepInv, RowsKept, now <= now',
         \A w \in Reapers : sweeps'[w] \subseteq sweeps[w]
  PROVE  SweepInv'
<1>1. SUFFICES ASSUME NEW w \in Reapers, NEW h \in sweeps[w]
               PROVE  /\ bookings'[h] # Absent
                      /\ bookings'[h].status = "held" => Lapsed(bookings'[h], now')
  BY DEF SweepInv
<1>2. h \in BookingIds
  BY DEF WaitlistTypeOK
<1>3. bookings'[h] # Absent
  BY <1>2 DEF SweepInv, RowsKept
<1>4. ASSUME bookings'[h].status = "held"
      PROVE  Lapsed(bookings'[h], now')
  <2>1. bookings[h].status = "held" /\ bookings'[h].expires = bookings[h].expires
    BY <1>2, <1>4 DEF RowsKept, SweepInv
  <2>2. bookings[h].expires <= now
    BY <2>1 DEF SweepInv, Lapsed
  <2>3. bookings[h].expires \in Int /\ now \in Int /\ now' \in Int
    BY <1>2, <2>1, InTableIsRow, TableAssumption
       DEF WaitlistTypeOK, Times, Row, Held, Settled
  <2>. QED  BY <1>4, <2>1, <2>2, <2>3 DEF Lapsed
<1>. QED  BY <1>3, <1>4

\* Nobody who was told so loses the slot's offer.
LEMMA FulfilledKept ==
  ASSUME WaitlistTypeOK, FulfilledWasGranted, OffersMatchHolds, RowsKept, EntriesKept,
         OffersKept,
         \A h \in Offered : offers[h].status = "confirmed" => offers'[h].status = "confirmed",
         NEW e \in EntryIds, entries[e].status = "fulfilled"
  PROVE  \E h \in Offered' : /\ offers'[h].entry = e
                             /\ offers'[h].status = "confirmed"
                             /\ bookings'[h].user = entries'[e].user
<1>1. PICK h \in Offered : /\ offers[h].entry = e
                           /\ offers[h].status = "confirmed"
                           /\ bookings[h].user = entries[e].user
  BY DEF FulfilledWasGranted
<1>2. h \in BookingIds /\ Joined(e)
  BY <1>1, OfferTypes, StatusIsJoined DEF EntryStatus
<1>3. h \in Offered'
  BY <1>1, <1>2 DEF OffersKept, Offered
<1>4. bookings'[h].user = bookings[h].user
  BY <1>1, <1>2 DEF RowsKept, OffersKept, OffersMatchHolds
<1>. QED  BY <1>1, <1>2, <1>3, <1>4 DEF OffersKept, EntriesKept

-----------------------------------------------------------------------------
(* Steps that leave bookings, offers and entries alone.                     *)

\* Taking a task, listing, skipping, failing, dying, beginning a sweep, checking
\* for a join and the clock.
LEMMA QuietStep ==
  ASSUME IInv, WaitlistTypeOK',
         UNCHANGED <<bookings, offers, entries>>, now <= now',
         \A w \in Workers :
            \/ workers'[w] = workers[w]
            \/ workers'[w].pc \notin {"holding", "attaching", "marking"}
            \/ /\ workers'[w].pc = "holding"
               /\ \A e \in workers'[w].todo : Joined(e),
         \A w \in Reapers : sweeps'[w] \subseteq sweeps[w] \cup LapsedHolds
  PROVE  IInv'
<1>1. RowsKept /\ EntriesKept
  BY DEF RowsKept, EntriesKept, Joined
<1>2. WorkerInv'
  <2>1. SUFFICES ASSUME NEW w \in Workers
                 PROVE  /\ workers'[w].pc = "holding" =>
                              \A e \in workers'[w].todo : Joined(e)
                        /\ workers'[w].pc \in {"attaching", "marking"} =>
                              Joined(workers'[w].entry)
    BY DEF WorkerInv, Joined
  <2>. QED  BY DEF IInv, EntryInv, WorkerInv
<1>3. OwnerInv'
  BY DEF IInv, EntryInv, OwnerInv, Offered, Joined
<1>4. AttachInv'
  BY <1>1, AttachKept DEF IInv, EntryInv, Offered
<1>5. SweepInv'
  <2>1. SUFFICES ASSUME NEW w \in Reapers, NEW h \in sweeps'[w]
                 PROVE  /\ bookings[h] # Absent
                        /\ bookings[h].status = "held" => Lapsed(bookings[h], now')
    BY DEF SweepInv
  <2>2. h \in sweeps[w] \/ h \in LapsedHolds
    OBVIOUS
  <2>3. h \in BookingIds
    BY <2>2 DEF IInv, WaitlistTypeOK, LapsedHolds
  <2>4. bookings[h] # Absent
    BY <2>2 DEF IInv, SweepInv, LapsedHolds, Lapsed, Absent
  <2>5. ASSUME bookings[h].status = "held"
        PROVE  Lapsed(bookings[h], now')
    <3>1. Lapsed(bookings[h], now)
      BY <2>2, <2>5 DEF IInv, SweepInv, LapsedHolds
    <3>2. now \in Int /\ now' \in Int
      BY TableAssumption DEF IInv, WaitlistTypeOK, Times
    <3>3. bookings[h] \in Row
      BY <2>3, <2>5, InTableIsRow DEF IInv, WaitlistTypeOK
    <3>. QED  BY <3>1, <3>2, <3>3, LapsedLater
  <2>. QED  BY <2>4, <2>5
<1>6. OffersMatchHolds' /\ FulfilledWasGranted' /\ OneLiveEntry'
  BY DEF IInv, OffersMatchHolds, FulfilledWasGranted, OneLiveEntry, Offered
<1>. QED  BY <1>2, <1>3, <1>4, <1>5, <1>6 DEF IInv, EntryInv

\* All of them.
LEMMA QuietSteps ==
  ASSUME IInv,
         \/ \E u \in Users, r \in Resources, p \in JoinRanges : CheckJoin(u, r, p)
         \/ \E w \in Slots : \E task \in freed : Take(w, task)
         \/ \E w \in Workers : \/ List(w) \/ SkipCandidate(w) \/ HoldBreaksForeignKey(w)
                               \/ AttachFails(w) \/ MarkFails(w) \/ Crash(w)
         \/ \E w \in Reapers : \/ BeginSweep(w)
                               \/ \E h \in BookingIds : SkipReclaim(w, h)
         \/ Tick
  PROVE  IInv'
<1>. USE DEF IInv
<1>0. now \in Int
  BY DEF WaitlistTypeOK, Times
<1>1. CASE \E u \in Users, r \in Resources, p \in JoinRanges : CheckJoin(u, r, p)
  BY <1>0, <1>1, JoinTypes, QuietStep DEF CheckJoin
<1>2. ASSUME NEW w \in Slots, NEW task \in freed, Take(w, task)
      PROVE  IInv'
  <2>1. WaitlistTypeOK' /\ w \in Workers
    BY <1>2, WorkerTypesKept DEF Workers
  <2>2. \A v \in Workers : workers'[v] = workers[v] \/ workers'[v].pc = "listing"
    BY <1>2 DEF Take, WaitlistTypeOK
  <2>. QED  BY <1>0, <1>2, <2>1, <2>2, QuietStep DEF Take
<1>3. ASSUME NEW w \in Workers, List(w)
      PROVE  IInv'
  <2>1. WaitlistTypeOK'
    BY <1>3, WorkerTypesKept
  <2>. DEFINE E == EligibleEntries(workers[w].resource, workers[w].range)
  <2>2. \A e \in E : Joined(e)
    BY StatusIsJoined DEF EligibleEntries, EntryStatus
  <2>3. /\ \A v \in Workers \ {w} : workers'[v] = workers[v]
        /\ workers'[w].pc = "idle" \/ (workers'[w].pc = "holding" /\ workers'[w].todo = E)
    BY <1>3 DEF List, WaitlistTypeOK, Idle
  <2>. QED  BY <1>0, <1>3, <2>1, <2>2, <2>3, QuietStep DEF List
<1>4. ASSUME NEW w \in Workers, SkipCandidate(w)
      PROVE  IInv'
  <2>1. WaitlistTypeOK'
    BY <1>4, WorkerTypesKept
  <2>2. /\ \A v \in Workers \ {w} : workers'[v] = workers[v]
        /\ \/ workers'[w].pc = "idle"
           \/ workers'[w].pc = "holding" /\ workers'[w].todo \subseteq workers[w].todo
    BY <1>4 DEF SkipCandidate, WaitlistTypeOK, Idle
  <2>3. \A e \in workers[w].todo : Joined(e)
    BY <1>4 DEF SkipCandidate, EntryInv, WorkerInv
  <2>. QED  BY <1>0, <1>4, <2>1, <2>2, <2>3, QuietStep DEF SkipCandidate
<1>5. ASSUME NEW w \in Workers, Abandon(w) \/ Crash(w)
      PROVE  IInv'
  <2>1. WaitlistTypeOK'
    BY <1>5, WorkerTypesKept
  <2>2. \A v \in Workers : workers'[v] = workers[v] \/ workers'[v].pc = "idle"
    BY <1>5 DEF Abandon, Crash, WaitlistTypeOK, Idle
  <2>3. \A v \in Reapers : sweeps'[v] \subseteq sweeps[v]
    BY <1>5 DEF Abandon, Crash, WaitlistTypeOK
  <2>. QED  BY <1>0, <1>5, <2>1, <2>2, <2>3, QuietStep DEF Abandon, Crash
<1>6. ASSUME NEW w \in Reapers, BeginSweep(w)
      PROVE  IInv'
  <2>1. WaitlistTypeOK'
    BY <1>6, SweepTypes
  <2>2. \A v \in Reapers : sweeps'[v] \subseteq sweeps[v] \cup LapsedHolds
    BY <1>6 DEF BeginSweep, WaitlistTypeOK
  <2>. QED  BY <1>0, <1>6, <2>1, <2>2, QuietStep DEF BeginSweep
<1>7. ASSUME NEW w \in Reapers, NEW h \in BookingIds, SkipReclaim(w, h)
      PROVE  IInv'
  <2>1. WaitlistTypeOK'
    BY <1>7, SweepTypes
  <2>2. \A v \in Reapers : sweeps'[v] \subseteq sweeps[v]
    BY <1>7 DEF SkipReclaim, WaitlistTypeOK
  <2>. QED  BY <1>0, <1>7, <2>1, <2>2, QuietStep DEF SkipReclaim
<1>8. CASE Tick
  <2>1. WaitlistTypeOK'
    BY <1>8, TableAssumption DEF Tick, WaitlistTypeOK, Times
  <2>. QED  BY <1>0, <1>8, <2>1, QuietStep DEF Tick
<1>. QED  BY <1>1, <1>2, <1>3, <1>4, <1>5, <1>6, <1>7, <1>8
          DEF HoldBreaksForeignKey, AttachFails, MarkFails

-----------------------------------------------------------------------------
(* Steps of the booking services.                                           *)

\* What such a step does to offered rows, and to rows under a worker's hand.
OfferedRowsKept ==
    /\ \A c \in Offered :
          /\ bookings'[c] # Deleted
          /\ \/ bookings'[c].status = bookings[c].status
             \/ bookings[c].status = "confirmed" /\ bookings'[c].status = "cancelled"
    /\ \A c \in BookingIds \ Offered :
          bookings[c].status \in {"held", "cancelled", "deleted"}
             => bookings'[c].status \in {"held", "cancelled", "deleted"}

\* The facts a step that leaves offers and entries alone keeps.
LEMMA BookingsStep ==
  ASSUME IInv, WaitlistTypeOK', RowsKept, OfferedRowsKept,
         UNCHANGED <<offers, entries, sweeps, now>>
  PROVE  /\ EntriesKept
         /\ OwnerInv' /\ SweepInv' /\ OffersMatchHolds' /\ FulfilledWasGranted'
         /\ OneLiveEntry'
<1>. USE DEF IInv
<1>1. EntriesKept
  BY DEF EntriesKept, Joined
<1>2. Offered' = Offered
  BY DEF Offered
<1>3. OffersKept
  BY DEF OffersKept, Offered, OfferedRowsKept
<1>4. OwnerInv'
  BY <1>1, <1>2, <1>3, OwnerKept DEF OwnerInv, Joined, EntryInv
<1>5. SweepInv'
  <2>1. now \in Int
    BY DEF WaitlistTypeOK, Times
  <2>. QED  BY <2>1, SweepKept
<1>6. OffersMatchHolds'
  <2>1. SUFFICES ASSUME NEW h \in Offered
                 PROVE  /\ bookings'[h] \notin {Absent, Deleted}
                        /\ offers[h].status = "confirmed" =>
                              bookings'[h].status \in {"confirmed", "cancelled"}
                        /\ offers[h].status \in {"declined", "expired"} =>
                              bookings'[h].status = "cancelled"
                        /\ offers[h].status = "active" =>
                              bookings'[h].status \in {"held", "cancelled"}
                        /\ bookings'[h].status = "held" => offers[h].status = "active"
    BY <1>2 DEF OffersMatchHolds
  <2>2. h \in BookingIds
    BY OfferTypes
  <2>. QED  BY <2>2 DEF OffersMatchHolds, OfferedRowsKept, RowsKept
<1>7. FulfilledWasGranted'
  <2>1. \A h \in Offered : offers[h].status = "confirmed" => offers'[h].status = "confirmed"
    OBVIOUS
  <2>. QED  BY <1>1, <1>3, <2>1, FulfilledKept DEF FulfilledWasGranted
<1>8. OneLiveEntry'
  BY DEF OneLiveEntry
<1>. QED  BY <1>1, <1>4, <1>5, <1>6, <1>7, <1>8

\* A successful create_booking, whoever calls it.
LEMMA InsertKeeps ==
  ASSUME WaitlistTypeOK, OffersMatchHolds, NEW b \in BookingIds, bookings[b] = Absent,
         bookings'[b] \in Row,
         bookings'[b].status \in {"held", "confirmed"},
         \A c \in BookingIds \ {b} :
            \/ bookings'[c] = bookings[c]
            \/ bookings'[c] = Deleted /\ Lapsed(bookings[c], now) /\ c \notin Offered
  PROVE  RowsKept /\ OfferedRowsKept
<1>1. b \notin Offered
  BY DEF OffersMatchHolds
<1>2. Offered \subseteq BookingIds
  BY DEF Offered
<1>3. \A c \in BookingIds : Lapsed(bookings[c], now) => bookings[c] # Deleted
  BY DEF Lapsed, Deleted
<1>4. RowsKept
  BY <1>3 DEF RowsKept, Absent, Deleted
<1>5. OfferedRowsKept
  BY <1>1, <1>2 DEF OfferedRowsKept, OffersMatchHolds, Absent, Deleted
<1>. QED  BY <1>4, <1>5

\* create_booking, edit_booking and cancel_booking.
LEMMA ServiceSteps ==
  ASSUME IInv,
         \/ \E r \in Resources, u \in Users, p \in BookRanges : Book(r, u, p)
         \/ \E b \in BookingIds, p \in EditRanges : Edit(b, p)
         \/ \E b \in BookingIds : CancelBooking(b)
  PROVE  IInv'
<1>. USE DEF IInv
<1>1. WaitlistTypeOK'
  BY ServiceTypes
<1>2. UNCHANGED <<offers, entries, workers, sweeps, now>>
  BY DEF Book, Edit, CancelBooking
<1>3. RowsKept /\ OfferedRowsKept
  <2>0. bookings \in Table /\ Offered \subseteq BookingIds
    BY DEF WaitlistTypeOK, Table, Offered
  <2>1. ASSUME NEW r \in Resources, NEW u \in Users, NEW p \in BookRanges, Book(r, u, p)
        PROVE  RowsKept /\ OfferedRowsKept
    <3>1. PICK b \in 1..(MaxBookings - HoldReserve) : InsertBooking(b, r, u, p, "confirmed")
      BY <2>1 DEF Book
    <3>2. p \in Range
      BY WaitlistAssumption
    <3>. QED  BY <3>1, <3>2, InsertRows, InsertKeeps
  <2>2. ASSUME NEW b \in BookingIds, NEW p \in EditRanges, Edit(b, p)
        PROVE  RowsKept /\ OfferedRowsKept
    <3>1. /\ p \in Range
          /\ InTable(bookings[b])
          /\ bookings' = Moved(bookings, b, p)
      BY <2>2, WaitlistAssumption DEF Edit, Moved
    <3>2. /\ bookings'[b] \in Row
          /\ bookings'[b].status = bookings[b].status
          /\ bookings'[b].user = bookings[b].user
          /\ bookings'[b].expires = bookings[b].expires
          /\ \A c \in BookingIds \ {b} : bookings'[c] = bookings[c]
      BY <2>0, <3>1, MovedTable
    <3>. QED  BY <2>0, <3>1, <3>2
              DEF RowsKept, OfferedRowsKept, InTable, Absent, Deleted, OffersMatchHolds
  <2>3. ASSUME NEW b \in BookingIds, CancelBooking(b)
        PROVE  RowsKept /\ OfferedRowsKept
    <3>1. bookings[b].status = "confirmed" /\ bookings' = AfterCancel(bookings, {b})
      BY <2>3 DEF CancelBooking
    <3>2. /\ bookings'[b] \in Row
          /\ bookings'[b].status = "cancelled"
          /\ bookings'[b].user = bookings[b].user
          /\ \A c \in BookingIds \ {b} : bookings'[c] = bookings[c]
      BY <2>0, <3>1, CancelledTable
    <3>3. \A c \in Offered : bookings[c] # Deleted
      BY DEF OffersMatchHolds
    <3>4. bookings'[b] # Absent /\ bookings'[b] # Deleted /\ bookings[b] # Deleted
      BY <3>1, <3>2 DEF Absent, Deleted
    <3>5. RowsKept
      BY <3>2, <3>4 DEF RowsKept
    <3>. QED  BY <2>0, <3>1, <3>2, <3>3, <3>4, <3>5 DEF OfferedRowsKept
  <2>. QED  BY <2>1, <2>2, <2>3
<1>4. /\ EntriesKept
      /\ OwnerInv' /\ SweepInv' /\ OffersMatchHolds' /\ FulfilledWasGranted'
      /\ OneLiveEntry'
  BY <1>1, <1>2, <1>3, BookingsStep
<1>5. WorkerInv'
  BY <1>2, <1>4, WorkerKept DEF EntryInv
<1>6. AttachInv'
  BY <1>2, <1>3, <1>4, AttachKept DEF EntryInv, OfferedRowsKept, Offered
<1>. QED  BY <1>1, <1>4, <1>5, <1>6 DEF EntryInv

\* The worker's hold: nobody else is about to attach an offer to a new row.
LEMMA PlaceHoldStep ==
  ASSUME IInv, NEW w \in Workers, PlaceHold(w)
  PROVE  IInv'
<1>. USE DEF IInv
<1>0. WaitlistTypeOK'
  BY WriterTypes
<1>1. UNCHANGED <<offers, entries, sweeps, now>>
  BY DEF PlaceHold
<1>2. PICK e \in EntryIds, h \in BookingIds :
         /\ Joined(e)
         /\ workers' = [workers EXCEPT
                          ![w] = [pc |-> "attaching", entry |-> e, hold |-> h,
                                  expires |-> now + HoldWindow]]
         /\ bookings[h] = Absent
         /\ bookings'[h] \in Row
         /\ bookings'[h].status = "held"
         /\ bookings'[h].user = entries[e].user
         /\ \A c \in BookingIds \ {h} :
               \/ bookings'[c] = bookings[c]
               \/ bookings'[c] = Deleted /\ Lapsed(bookings[c], now) /\ c \notin Offered
  BY PlaceHoldRows
<1>3. RowsKept /\ OfferedRowsKept
  BY <1>2, InsertKeeps
<1>4. /\ EntriesKept
      /\ OwnerInv' /\ SweepInv' /\ OffersMatchHolds' /\ FulfilledWasGranted'
      /\ OneLiveEntry'
  BY <1>0, <1>1, <1>3, BookingsStep
<1>5. /\ workers'[w] = [pc |-> "attaching", entry |-> e, hold |-> h,
                        expires |-> now + HoldWindow]
      /\ \A v \in Workers \ {w} : workers'[v] = workers[v]
  BY <1>2 DEF WaitlistTypeOK
<1>6. WorkerInv'
  <2>1. SUFFICES ASSUME NEW v \in Workers
                 PROVE  /\ workers'[v].pc = "holding" =>
                              \A d \in workers'[v].todo : Joined(d)
                        /\ workers'[v].pc \in {"attaching", "marking"} =>
                              Joined(workers'[v].entry)
    BY <1>1 DEF WorkerInv, Joined
  <2>. QED  BY <1>2, <1>5 DEF EntryInv, WorkerInv
<1>7. h \notin Offered
  BY <1>2 DEF OffersMatchHolds
<1>8. \A v \in Workers \ {w} : Attaching(v) => workers[v].hold # h
  BY <1>2 DEF AttachInv, Absent
<1>9. AttachInv'
  <2>1. SUFFICES ASSUME NEW v \in Workers, workers'[v].pc = "attaching"
                 PROVE  LET g == workers'[v].hold
                        IN  /\ bookings'[g].status \in {"held", "cancelled", "deleted"}
                            /\ bookings'[g] # Deleted =>
                                  bookings'[g].user = entries[workers'[v].entry].user
                            /\ g \notin Offered
                            /\ \A x \in Workers \ {v} :
                                  workers'[x].pc = "attaching" => workers'[x].hold # g
    BY <1>1 DEF AttachInv, Attaching, Offered
  <2>2. CASE v = w
    BY <1>2, <1>5, <1>7, <1>8, <2>2 DEF Attaching
  <2>3. CASE v # w
    <3>1. Attaching(v) /\ workers'[v] = workers[v] /\ workers[v].hold \in BookingIds
      BY <1>5, <2>1, <2>3, WorkerTypes DEF Attaching
    <3>2. workers[v].hold # h
      BY <1>8, <2>3, <3>1
    <3>3. \/ bookings'[workers[v].hold] = bookings[workers[v].hold]
          \/ bookings'[workers[v].hold] = Deleted
      BY <1>2, <3>1, <3>2
    <3>. QED  BY <1>5, <3>1, <3>2, <3>3 DEF AttachInv, Attaching, Deleted
  <2>. QED  BY <2>2, <2>3
<1>. QED  BY <1>0, <1>4, <1>6, <1>9 DEF EntryInv

-----------------------------------------------------------------------------
(* Steps that write to the entries only.                                    *)

\* What they keep of the rest.
LEMMA EntriesStep ==
  ASSUME IInv, WaitlistTypeOK', EntriesKept,
         UNCHANGED <<bookings, offers, sweeps, now>>,
         \A w \in Workers : \/ workers'[w] = workers[w]
                            \/ workers'[w].pc \notin {"holding", "attaching", "marking"},
         \A e \in EntryIds : entries'[e].status = "fulfilled" => entries[e].status = "fulfilled"
  PROVE  EntryInv' /\ AttachInv' /\ SweepInv' /\ OffersMatchHolds' /\ FulfilledWasGranted'
<1>. USE DEF IInv
<1>1. RowsKept
  BY DEF RowsKept
<1>2. Offered' = Offered
  BY DEF Offered
<1>3. OffersKept
  BY DEF OffersKept, Offered, OffersMatchHolds
<1>4. OwnerInv'
  BY <1>1, <1>2, <1>3, OwnerKept DEF OwnerInv, Joined, EntryInv
<1>5. WorkerInv'
  BY WorkerKept DEF EntryInv
<1>6. AttachInv'
  BY <1>1, <1>2, AttachKept DEF EntryInv
<1>7. SweepInv'
  BY DEF SweepInv
<1>8. OffersMatchHolds'
  BY <1>2 DEF OffersMatchHolds
<1>9. FulfilledWasGranted'
  <2>1. \A h \in Offered : offers[h].status = "confirmed" => offers'[h].status = "confirmed"
    OBVIOUS
  <2>. QED  BY <1>1, <1>3, <2>1, FulfilledKept DEF FulfilledWasGranted
<1>. QED  BY <1>4, <1>5, <1>6, <1>7, <1>8, <1>9 DEF EntryInv

Live(e) == entries[e].status \in {"waiting", "offered"}

\* Only an entry that becomes live can be a second one for its slot.
LEMMA OneLiveKept ==
  ASSUME OneLiveEntry,
         \A e \in EntryIds :
            entries'[e].status \in {"waiting", "offered"} =>
               /\ Live(e)
               /\ entries'[e].user = entries[e].user
               /\ entries'[e].resource = entries[e].resource
               /\ entries'[e].range = entries[e].range
  PROVE  OneLiveEntry'
BY DEF OneLiveEntry, Live

\* An entry becomes live only when nobody else is for its user and slot.
LEMMA OneMoreLive ==
  ASSUME OneLiveEntry, NEW e \in EntryIds,
         LiveEntries(entries'[e].user, entries'[e].resource, entries'[e].range) \ {e} = {},
         \A d \in EntryIds \ {e} : entries'[d] = entries[d]
  PROVE  OneLiveEntry'
BY DEF OneLiveEntry, LiveEntries

\* A join, a withdrawal and a worker's late mark.
LEMMA EntrySteps ==
  ASSUME IInv,
         \/ \E q \in checked : Join(q)
         \/ \E e \in EntryIds : CancelEntry(e)
         \/ \E w \in Workers : MarkOffered(w)
  PROVE  IInv'
<1>. USE DEF IInv
<1>1. ASSUME NEW q \in checked, Join(q)
      PROVE  IInv'
  <2>0. WaitlistTypeOK'
    BY <1>1, JoinTypes
  <2>1. CASE UNCHANGED entries
    BY <1>1, <2>0, <2>1, EntriesStep DEF Join, EntriesKept, OneLiveEntry, Joined
  <2>2. CASE ~UNCHANGED entries
    <3>1. PICK e \in NextEntry :
             entries' = [entries EXCEPT
                           ![e] = [user |-> q.user, resource |-> q.resource,
                                   range |-> q.range, status |-> "waiting"]]
      BY <1>1, <2>2 DEF Join
    <3>2. /\ LiveEntries(q.user, q.resource, q.range) = {}
          /\ e \in EntryIds /\ entries[e] = NotJoined
      BY <1>1, <2>2 DEF Join, NextEntry
    <3>3. /\ entries'[e].user = q.user
          /\ entries'[e].resource = q.resource
          /\ entries'[e].range = q.range
          /\ entries'[e].status = "waiting"
          /\ \A d \in EntryIds \ {e} : entries'[d] = entries[d]
      BY <3>1, <3>2 DEF WaitlistTypeOK
    <3>4. OneLiveEntry'
      BY <3>2, <3>3, OneMoreLive
    <3>5. EntriesKept
      BY <3>2, <3>3 DEF EntriesKept, Joined
    <3>6. EntryInv' /\ AttachInv' /\ SweepInv' /\ OffersMatchHolds' /\ FulfilledWasGranted'
      BY <1>1, <2>0, <3>3, <3>5, EntriesStep DEF Join
    <3>. QED  BY <2>0, <3>4, <3>6
  <2>. QED  BY <2>1, <2>2
<1>2. ASSUME NEW e \in EntryIds, NEW st \in EntryStatus, Joined(e), WaitlistTypeOK',
             entries' = [entries EXCEPT ![e].status = st]
      PROVE  /\ EntriesKept
             /\ entries'[e].status = st
             /\ entries'[e].user = entries[e].user
             /\ entries'[e].resource = entries[e].resource
             /\ entries'[e].range = entries[e].range
             /\ \A d \in EntryIds \ {e} : entries'[d] = entries[d]
  <2>1. /\ entries'[e].status = st
        /\ entries'[e].user = entries[e].user
        /\ entries'[e].resource = entries[e].resource
        /\ entries'[e].range = entries[e].range
        /\ \A d \in EntryIds \ {e} : entries'[d] = entries[d]
    BY <1>2, EntryMarked
  <2>2. entries'[e] # NotJoined
    BY <2>1 DEF NotJoined, EntryStatus
  <2>. QED  BY <2>1, <2>2 DEF EntriesKept, Joined
<1>3. ASSUME NEW e \in EntryIds, CancelEntry(e)
      PROVE  IInv'
  <2>0. WaitlistTypeOK'
    BY <1>3, JoinTypes
  <2>1. Joined(e) /\ "cancelled" \in EntryStatus
    BY <1>3, StatusIsJoined DEF CancelEntry, EntryStatus
  <2>2. /\ EntriesKept
        /\ entries'[e].status = "cancelled"
        /\ \A d \in EntryIds \ {e} : entries'[d] = entries[d]
    BY <1>2, <1>3, <2>0, <2>1 DEF CancelEntry
  <2>3. OneLiveEntry'
    BY <2>2, OneLiveKept DEF Live
  <2>4. EntryInv' /\ AttachInv' /\ SweepInv' /\ OffersMatchHolds' /\ FulfilledWasGranted'
    BY <1>3, <2>0, <2>2, EntriesStep DEF CancelEntry
  <2>. QED  BY <2>0, <2>3, <2>4
<1>4. ASSUME NEW w \in Workers, MarkOffered(w)
      PROVE  IInv'
  <2>. DEFINE e == workers[w].entry
  <2>0. WaitlistTypeOK'
    BY <1>4, WriterTypes
  <2>1. e \in EntryIds /\ Joined(e) /\ "offered" \in EntryStatus
    BY <1>4, WorkerTypes DEF MarkOffered, EntryInv, WorkerInv, EntryStatus
  <2>2. /\ EntriesKept
        /\ entries'[e].status = "offered"
        /\ entries'[e].user = entries[e].user
        /\ entries'[e].resource = entries[e].resource
        /\ entries'[e].range = entries[e].range
        /\ \A d \in EntryIds \ {e} : entries'[d] = entries[d]
    BY <1>2, <1>4, <2>0, <2>1 DEF MarkOffered
  <2>3. OneLiveEntry'
    BY <1>4, <2>1, <2>2, OneMoreLive DEF MarkOffered, OtherLiveEntries
  <2>4. \A v \in Workers : workers'[v] = workers[v] \/ workers'[v].pc = "idle"
    BY <1>4 DEF MarkOffered, WaitlistTypeOK, Idle
  <2>5. EntryInv' /\ AttachInv' /\ SweepInv' /\ OffersMatchHolds' /\ FulfilledWasGranted'
    BY <1>4, <2>0, <2>2, <2>4, EntriesStep DEF MarkOffered
  <2>. QED  BY <2>0, <2>3, <2>5
<1>. QED  BY <1>1, <1>3, <1>4

-----------------------------------------------------------------------------
(* Steps that write to the offers.                                          *)

\* The worker's offer: its hold has none yet.
LEMMA AttachStep ==
  ASSUME IInv, NEW w \in Workers, AttachOffer(w)
  PROVE  IInv'
<1>. USE DEF IInv
<1>. DEFINE e == workers[w].entry
            h == workers[w].hold
<1>0. WaitlistTypeOK'
  BY WriterTypes
<1>1. UNCHANGED <<bookings, entries, sweeps, now>>
  BY DEF AttachOffer
<1>2. /\ Attaching(w) /\ workers[w].pc = "attaching"
      /\ e \in EntryIds /\ h \in BookingIds /\ Joined(e)
  BY WorkerTypes DEF AttachOffer, Attaching, EntryInv, WorkerInv
<1>3. /\ bookings[h].status \in {"held", "cancelled"}
      /\ bookings[h].user = entries[e].user
      /\ h \notin Offered
      /\ \A v \in Workers \ {w} : Attaching(v) => workers[v].hold # h
  <2>1. bookings[h] # Deleted
    BY DEF AttachOffer
  <2>2. bookings[h] \in Row \cup {Absent, Deleted}
    BY <1>2 DEF WaitlistTypeOK
  <2>3. bookings[h].status # "deleted"
    BY <2>1, <2>2 DEF Row, Held, Settled, Absent
  <2>. QED  BY <1>2, <2>1, <2>3 DEF AttachInv
<1>4. /\ offers'[h].entry = e
      /\ offers'[h].status = "active"
      /\ offers'[h] # NoOffer
      /\ \A g \in BookingIds \ {h} : offers'[g] = offers[g]
  <2>1. offers' = [offers EXCEPT ![h] = [entry |-> e, range |-> entries[e].range,
                                         status |-> "active",
                                         expires |-> workers[w].expires]]
    BY DEF AttachOffer
  <2>. QED  BY <1>2, <2>1 DEF WaitlistTypeOK, NoOffer
<1>5. Offered' = Offered \cup {h}
  BY <1>2, <1>4 DEF Offered
<1>6. \A v \in Workers : \/ v # w /\ workers'[v] = workers[v]
                         \/ v = w /\ workers'[v] = [pc |-> "marking", entry |-> e]
  BY DEF AttachOffer, WaitlistTypeOK
<1>7. WorkerInv'
  <2>1. SUFFICES ASSUME NEW v \in Workers
                 PROVE  /\ workers'[v].pc = "holding" =>
                              \A d \in workers'[v].todo : Joined(d)
                        /\ workers'[v].pc \in {"attaching", "marking"} =>
                              Joined(workers'[v].entry)
    BY <1>1 DEF WorkerInv, Joined
  <2>. QED  BY <1>2, <1>6 DEF EntryInv, WorkerInv
<1>8. OwnerInv'
  <2>1. SUFFICES ASSUME NEW g \in Offered \cup {h}
                 PROVE  /\ Joined(offers'[g].entry)
                        /\ bookings[g].user = entries[offers'[g].entry].user
    BY <1>1, <1>5 DEF OwnerInv, Joined
  <2>2. CASE g = h
    BY <1>2, <1>3, <1>4, <2>2
  <2>3. CASE g # h
    <3>1. g \in Offered /\ offers'[g] = offers[g]
      BY <1>4, <2>3 DEF Offered
    <3>. QED  BY <3>1 DEF EntryInv, OwnerInv
  <2>. QED  BY <2>2, <2>3
<1>9. AttachInv'
  <2>1. SUFFICES ASSUME NEW v \in Workers, workers'[v].pc = "attaching"
                 PROVE  LET g == workers'[v].hold
                        IN  /\ bookings[g].status \in {"held", "cancelled", "deleted"}
                            /\ bookings[g] # Deleted =>
                                  bookings[g].user = entries[workers'[v].entry].user
                            /\ g \notin Offered \cup {h}
                            /\ \A x \in Workers \ {v} :
                                  workers'[x].pc = "attaching" => workers'[x].hold # g
    BY <1>1, <1>5 DEF AttachInv, Attaching
  <2>2. v # w /\ workers'[v] = workers[v]
    BY <1>6, <2>1
  <2>. QED  BY <1>3, <1>6, <2>1, <2>2 DEF AttachInv, Attaching
<1>10. SweepInv'
  BY <1>1 DEF SweepInv
<1>11. OffersMatchHolds'
  <2>1. SUFFICES ASSUME NEW g \in Offered \cup {h}
                 PROVE  /\ bookings[g] \notin {Absent, Deleted}
                        /\ offers'[g].status = "confirmed" =>
                              bookings[g].status \in {"confirmed", "cancelled"}
                        /\ offers'[g].status \in {"declined", "expired"} =>
                              bookings[g].status = "cancelled"
                        /\ offers'[g].status = "active" =>
                              bookings[g].status \in {"held", "cancelled"}
                        /\ bookings[g].status = "held" => offers'[g].status = "active"
    BY <1>1, <1>5 DEF OffersMatchHolds
  <2>2. CASE g = h
    BY <1>3, <1>4, <2>2 DEF Absent, Deleted
  <2>3. CASE g # h
    <3>1. g \in Offered /\ offers'[g] = offers[g]
      BY <1>4, <2>3 DEF Offered
    <3>. QED  BY <3>1 DEF OffersMatchHolds
  <2>. QED  BY <2>2, <2>3
<1>12. FulfilledWasGranted'
  <2>1. \A g \in Offered : offers'[g] = offers[g]
    BY <1>3, <1>4 DEF Offered
  <2>. QED  BY <1>1, <1>5, <2>1 DEF FulfilledWasGranted
<1>13. OneLiveEntry'
  BY <1>1 DEF OneLiveEntry
<1>. QED  BY <1>0, <1>7, <1>8, <1>9, <1>10, <1>11, <1>12, <1>13 DEF EntryInv

\* An acceptance, a decline or a reclaim settles one hold h and, if it has an
\* offer that is still active, that offer and its entry.
LEMMA ResolveStep ==
  ASSUME IInv, WaitlistTypeOK', NEW h \in BookingIds,
         bookings[h].status \in {"held", "cancelled"},
         bookings'[h] \in Row,
         bookings'[h].user = bookings[h].user,
         \A c \in BookingIds \ {h} : bookings'[c] = bookings[c],
         UNCHANGED now,
         \A w \in Workers : \/ workers'[w] = workers[w]
                            \/ workers'[w].pc \notin {"holding", "attaching", "marking"},
         \A w \in Reapers : sweeps'[w] \subseteq sweeps[w],
         \/ /\ h \notin Offered
            /\ bookings'[h].status = "cancelled"
            /\ UNCHANGED <<offers, entries>>
         \/ \E st \in {"confirmed", "declined", "expired"} :
               /\ h \in Offered /\ offers[h].status = "active"
               /\ bookings'[h].status = IF st = "confirmed" THEN "confirmed" ELSE "cancelled"
               /\ offers' = [offers EXCEPT ![h].status = st]
               /\ entries' = [entries EXCEPT
                     ![offers[h].entry].status =
                        IF st = "confirmed" THEN "fulfilled" ELSE "expired"]
  PROVE  IInv'
<1>. USE DEF IInv
<1>1. RowsKept
  BY DEF RowsKept, Absent, Deleted, Row, Held, Settled
<1>2. CASE h \notin Offered
  <2>1. bookings'[h].status = "cancelled" /\ UNCHANGED <<offers, entries>>
    BY <1>2
  <2>2. OfferedRowsKept
    <3>1. \A c \in Offered : c # h /\ c \in BookingIds /\ bookings[c] # Deleted
      BY <1>2 DEF Offered, OffersMatchHolds
    <3>. QED  BY <2>1, <3>1 DEF OfferedRowsKept
  <2>3. EntriesKept /\ Offered' = Offered
    BY <2>1 DEF EntriesKept, Joined, Offered
  <2>4. SweepInv'
    BY <1>1, SweepKept DEF WaitlistTypeOK, Times
  <2>5. OwnerInv'
    <3>1. OffersKept
      BY <2>1, <2>2 DEF OffersKept, Offered, OfferedRowsKept
    <3>. QED  BY <1>1, <2>3, <3>1, OwnerKept DEF OwnerInv, Joined, EntryInv
  <2>6. \A g \in Offered : bookings'[g] = bookings[g]
    BY <1>2 DEF Offered
  <2>7. OffersMatchHolds' /\ FulfilledWasGranted' /\ OneLiveEntry'
    BY <2>1, <2>3, <2>6 DEF OffersMatchHolds, FulfilledWasGranted, OneLiveEntry
  <2>8. WorkerInv'
    BY <2>3, WorkerKept DEF EntryInv
  <2>9. AttachInv'
    BY <1>1, <2>2, <2>3, AttachKept DEF EntryInv, OfferedRowsKept
  <2>. QED  BY <2>4, <2>5, <2>7, <2>8, <2>9 DEF EntryInv
<1>3. CASE h \in Offered
  <2>. DEFINE e == offers[h].entry
  <2>1. PICK st \in {"confirmed", "declined", "expired"} :
           /\ offers[h].status = "active"
           /\ bookings'[h].status = IF st = "confirmed" THEN "confirmed" ELSE "cancelled"
           /\ offers' = [offers EXCEPT ![h].status = st]
           /\ entries' = [entries EXCEPT
                 ![e].status = IF st = "confirmed" THEN "fulfilled" ELSE "expired"]
    BY <1>3
  <2>2. e \in EntryIds /\ Joined(e) /\ bookings[h].user = entries[e].user
    BY <1>3, OfferTypes DEF EntryInv, OwnerInv
  <2>3. /\ offers'[h].status = st
        /\ offers'[h].entry = e
        /\ offers'[h] # NoOffer
        /\ \A g \in BookingIds \ {h} : offers'[g] = offers[g]
    <3>1. st \in OfferStatus
      BY DEF OfferStatus
    <3>2. offers' = [offers EXCEPT ![h].status = st]
      BY <2>1
    <3>3. /\ offers'[h].status = st
          /\ offers'[h].entry = e
          /\ \A g \in BookingIds \ {h} : offers'[g] = offers[g]
      BY <1>3, <3>1, <3>2, OfferMarked
    <3>4. offers'[h] # NoOffer
      BY <3>1, <3>3 DEF OfferStatus, NoOffer
    <3>. QED  BY <3>3, <3>4
  <2>4. /\ entries'[e].status = IF st = "confirmed" THEN "fulfilled" ELSE "expired"
        /\ entries'[e].user = entries[e].user
        /\ entries'[e] # NotJoined
        /\ \A d \in EntryIds \ {e} : entries'[d] = entries[d]
    <3>. DEFINE es == IF st = "confirmed" THEN "fulfilled" ELSE "expired"
    <3>1. es \in EntryStatus
      BY DEF EntryStatus
    <3>2. entries' = [entries EXCEPT ![e].status = es]
      BY <2>1
    <3>. HIDE DEF es
    <3>3. /\ entries'[e].status = es
          /\ entries'[e].user = entries[e].user
          /\ \A d \in EntryIds \ {e} : entries'[d] = entries[d]
      BY <2>2, <3>1, <3>2, EntryMarked
    <3>4. entries'[e] # NotJoined
      BY <3>1, <3>3 DEF EntryStatus, NotJoined
    <3>. QED  BY <3>3, <3>4 DEF es
  <2>5. EntriesKept
    BY <2>2, <2>4 DEF EntriesKept, Joined
  <2>6. Offered' = Offered
    BY <1>3, <2>3 DEF Offered
  <2>7. \A g \in Offered : g \in BookingIds /\ bookings[g] # Deleted /\ bookings'[g] # Deleted
    BY DEF Offered, OffersMatchHolds, Deleted, Row, Held, Settled
  <2>8. OffersKept
    BY <2>3, <2>7 DEF OffersKept, Offered
  <2>9. OwnerInv'
    BY <1>1, <2>5, <2>6, <2>8, OwnerKept DEF OwnerInv, Joined, EntryInv
  <2>10. WorkerInv'
    BY <2>5, WorkerKept DEF EntryInv
  <2>11. AttachInv'
    BY <1>1, <1>3, <2>5, <2>6, AttachKept DEF EntryInv
  <2>12. SweepInv'
    BY <1>1, SweepKept DEF WaitlistTypeOK, Times
  <2>13. OffersMatchHolds'
    <3>1. SUFFICES ASSUME NEW g \in Offered
                   PROVE  /\ bookings'[g] \notin {Absent, Deleted}
                          /\ offers'[g].status = "confirmed" =>
                                bookings'[g].status \in {"confirmed", "cancelled"}
                          /\ offers'[g].status \in {"declined", "expired"} =>
                                bookings'[g].status = "cancelled"
                          /\ offers'[g].status = "active" =>
                                bookings'[g].status \in {"held", "cancelled"}
                          /\ bookings'[g].status = "held" => offers'[g].status = "active"
      BY <2>6 DEF OffersMatchHolds
    <3>2. CASE g = h
      <4>1. bookings'[h] \notin {Absent, Deleted}
        BY DEF Absent, Deleted, Row, Held, Settled
      <4>. QED  BY <2>1, <2>3, <3>2, <4>1
    <3>3. CASE g # h
      BY <2>3, <2>7, <3>3 DEF OffersMatchHolds
    <3>. QED  BY <3>2, <3>3
  <2>14. FulfilledWasGranted'
    <3>1. \A g \in Offered : offers[g].status = "confirmed" => offers'[g].status = "confirmed"
      BY <2>1, <2>3, <2>7
    <3>2. SUFFICES ASSUME NEW d \in EntryIds, entries'[d].status = "fulfilled"
                   PROVE  \E g \in Offered' : /\ offers'[g].entry = d
                                              /\ offers'[g].status = "confirmed"
                                              /\ bookings'[g].user = entries'[d].user
      BY DEF FulfilledWasGranted
    <3>3. CASE entries[d].status = "fulfilled"
      BY <1>1, <2>5, <2>8, <3>1, <3>3, FulfilledKept
    <3>4. CASE entries[d].status # "fulfilled"
      <4>1. d = e /\ st = "confirmed"
        BY <2>4, <3>2, <3>4
      <4>. QED  BY <1>3, <2>2, <2>3, <2>4, <2>6, <4>1
    <3>. QED  BY <3>3, <3>4
  <2>15. OneLiveEntry'
    BY <2>4, OneLiveKept DEF Live
  <2>. QED  BY <2>9, <2>10, <2>11, <2>12, <2>13, <2>14, <2>15 DEF EntryInv
<1>. QED  BY <1>2, <1>3

\* All three.
LEMMA ResolveSteps ==
  ASSUME IInv,
         \/ \E h \in BookingIds : Accept(h) \/ Decline(h)
         \/ \E w \in Reapers, h \in BookingIds : Reclaim(w, h)
  PROVE  IInv'
<1>. USE DEF IInv
<1>1. ASSUME NEW h \in BookingIds, Accept(h)
      PROVE  IInv'
  <2>1. WaitlistTypeOK'
    BY <1>1, ResolveTypes
  <2>2. /\ h \in Offered /\ offers[h].status = "active"
        /\ bookings[h].status = "held"
        /\ bookings'[h].status = "confirmed"
        /\ bookings'[h].user = bookings[h].user
        /\ bookings'[h] \in Row
        /\ \A c \in BookingIds \ {h} : bookings'[c] = bookings[c]
    BY <1>1, AcceptRows
  <2>3. offers' = [offers EXCEPT ![h].status = "confirmed"]
    BY <1>1, AcceptRows
  <2>4. /\ entries' = [entries EXCEPT ![offers[h].entry].status = "fulfilled"]
        /\ UNCHANGED <<workers, sweeps, now>>
    BY <1>1 DEF Accept
  <2>5. \E st \in {"confirmed", "declined", "expired"} :
           /\ h \in Offered /\ offers[h].status = "active"
           /\ bookings'[h].status = IF st = "confirmed" THEN "confirmed" ELSE "cancelled"
           /\ offers' = [offers EXCEPT ![h].status = st]
           /\ entries' = [entries EXCEPT
                 ![offers[h].entry].status =
                    IF st = "confirmed" THEN "fulfilled" ELSE "expired"]
    <3>. WITNESS "confirmed" \in {"confirmed", "declined", "expired"}
    <3>. QED  BY <2>2, <2>3, <2>4
  <2>. QED  BY <2>1, <2>2, <2>4, <2>5, ResolveStep
<1>2. ASSUME NEW h \in BookingIds, Decline(h)
      PROVE  IInv'
  <2>1. WaitlistTypeOK'
    BY <1>2, ResolveTypes
  <2>. QED  BY <1>2, <2>1, DeclineRows, ResolveStep DEF Decline
<1>3. ASSUME NEW w \in Reapers, NEW h \in BookingIds, Reclaim(w, h)
      PROVE  IInv'
  <2>1. WaitlistTypeOK'
    BY <1>3, SweepTypes
  <2>2. /\ bookings[h].status = "held"
        /\ bookings'[h] \in Row
        /\ bookings'[h].status = "cancelled"
        /\ bookings'[h].user = bookings[h].user
        /\ \A c \in BookingIds \ {h} : bookings'[c] = bookings[c]
        /\ UNCHANGED now
    BY <1>3, ReclaimRows DEF Reclaim
  <2>3. \A v \in Reapers : sweeps'[v] \subseteq sweeps[v]
    BY <1>3 DEF Reclaim, WaitlistTypeOK
  <2>4. \A v \in Workers : workers'[v] = workers[v] \/ workers'[v].pc = "listing"
    BY <1>3 DEF Reclaim, WaitlistTypeOK
  <2>5. CASE h \in Offered
    <3>1. offers[h].status = "active"
      BY <2>2, <2>5 DEF OffersMatchHolds
    <3>. QED  BY <1>3, <2>1, <2>2, <2>3, <2>4, <2>5, <3>1, ResolveStep DEF Reclaim
  <2>6. CASE h \notin Offered
    <3>1. offers[h].status # "active"
      BY <2>6, ActiveIsOffered
    <3>. QED  BY <1>3, <2>1, <2>2, <2>3, <2>4, <2>6, <3>1, ResolveStep DEF Reclaim
  <2>. QED  BY <2>5, <2>6
<1>. QED  BY <1>1, <1>2, <1>3

-----------------------------------------------------------------------------
(* The invariant.                                                           *)

\* The initial states satisfy it: nothing has happened.
LEMMA InitialInvariant ==
  WaitlistInit => IInv
<1>. SUFFICES ASSUME WaitlistInit
              PROVE  IInv
  OBVIOUS
<1>. USE DEF WaitlistInit
<1>1. WaitlistTypeOK
  <2>1. 0 \in Times /\ 0 \in 0..MaxFaults
    BY TableAssumption, WaitlistAssumption DEF Times
  <2>. QED  BY <2>1 DEF WaitlistTypeOK, Worker
<1>2. Offered = {}
  BY DEF Offered
<1>3. WorkerInv /\ OwnerInv /\ AttachInv
  BY <1>2 DEF WorkerInv, OwnerInv, AttachInv, Attaching, Idle
<1>4. SweepInv
  BY DEF SweepInv
<1>5. OffersMatchHolds
  BY <1>2 DEF OffersMatchHolds
<1>6. \A e \in EntryIds : entries[e].status = "absent"
  BY DEF NotJoined
<1>7. FulfilledWasGranted /\ OneLiveEntry
  BY <1>6 DEF FulfilledWasGranted, OneLiveEntry
<1>. QED  BY <1>1, <1>3, <1>4, <1>5, <1>7 DEF IInv, EntryInv

\* Every step keeps it.
LEMMA InvariantIsKept ==
  IInv /\ [WaitlistNext]_waitlistVars => IInv'
<1>. SUFFICES ASSUME IInv, [WaitlistNext]_waitlistVars
              PROVE  IInv'
  OBVIOUS
<1>1. CASE Requests
  BY <1>1, QuietSteps, ServiceSteps, EntrySteps, ResolveSteps DEF Requests
<1>2. CASE \E w \in Slots : \E task \in freed : Take(w, task)
  BY <1>2, QuietSteps
<1>3. ASSUME NEW w \in Workers, Cascade(w) \/ Crash(w)
      PROVE  IInv'
  BY <1>3, QuietSteps, PlaceHoldStep, EntrySteps, AttachStep DEF Cascade
<1>4. ASSUME NEW w \in Reapers, Sweep(w)
      PROVE  IInv'
  BY <1>4, QuietSteps, ResolveSteps DEF Sweep
<1>5. CASE Tick
  BY <1>5, QuietSteps
<1>6. CASE UNCHANGED waitlistVars
  BY <1>6 DEF waitlistVars, IInv, WaitlistTypeOK, EntryInv, WorkerInv, OwnerInv,
     AttachInv, Attaching, SweepInv, OffersMatchHolds, FulfilledWasGranted,
     OneLiveEntry, Joined, Offered
<1>. QED  BY <1>1, <1>2, <1>3, <1>4, <1>5, <1>6 DEF WaitlistNext

LEMMA InvariantHolds ==
  WaitlistSpec => []IInv
BY InitialInvariant, InvariantIsKept, PTL DEF WaitlistSpec

\* The tables of the waitlist, its workers and its sweeps keep their types.
THEOREM WaitlistTypeCorrect ==
  WaitlistSpec => []WaitlistTypeOK
<1>1. IInv => WaitlistTypeOK
  BY DEF IInv
<1>. QED  BY <1>1, InvariantHolds, PTL

\* An offer and its hold never tell different stories (accept_offer,
\* decline_offer and reap_expired_holds in any order).
THEOREM OffersAndHoldsAgree ==
  WaitlistSpec => []OffersMatchHolds
<1>1. IInv => OffersMatchHolds
  BY DEF IInv
<1>. QED  BY <1>1, InvariantHolds, PTL

\* A fulfilled entry has a confirmed offer whose hold is its user's.
THEOREM FulfilmentIsReal ==
  WaitlistSpec => []FulfilledWasGranted
<1>1. IInv => FulfilledWasGranted
  BY DEF IInv
<1>. QED  BY <1>1, InvariantHolds, PTL

\* A user has at most one live entry for a slot.
THEOREM EntriesAreUnique ==
  WaitlistSpec => []OneLiveEntry
<1>1. IInv => OneLiveEntry
  BY DEF IInv
<1>. QED  BY <1>1, InvariantHolds, PTL

\* One step resolves no offer twice.
LEMMA ResolutionStands ==
  ASSUME IInv, [WaitlistNext]_waitlistVars,
         NEW h \in Offered, offers[h].status # "active"
  PROVE  offers'[h] = offers[h]
<1>. USE DEF IInv
<1>1. h \in BookingIds /\ offers \in [BookingIds -> Offer \cup {NoOffer}]
  BY DEF Offered, WaitlistTypeOK
<1>2. ASSUME NEW g \in BookingIds, Accept(g)
      PROVE  offers'[h] = offers[h]
  <2>1. offers[g].status = "active" /\ offers' = [offers EXCEPT ![g].status = "confirmed"]
    BY <1>2, AcceptRows
  <2>. QED  BY <1>1, <2>1
<1>3. ASSUME NEW g \in BookingIds, Decline(g)
      PROVE  offers'[h] = offers[h]
  BY <1>1, <1>3 DEF Decline
<1>4. ASSUME NEW w \in Reapers, NEW g \in BookingIds, Reclaim(w, g)
      PROVE  offers'[h] = offers[h]
  BY <1>1, <1>4 DEF Reclaim
<1>5. ASSUME NEW w \in Workers, AttachOffer(w)
      PROVE  offers'[h] = offers[h]
  <2>1. Attaching(w) /\ workers[w].hold \notin Offered
    BY <1>5 DEF AttachOffer, AttachInv, Attaching
  <2>. QED  BY <1>1, <1>5, <2>1 DEF AttachOffer
<1>6. ASSUME UNCHANGED offers
      PROVE  offers'[h] = offers[h]
  BY <1>6
<1>7. CASE Requests
  <2>1. \/ \E g \in BookingIds : Accept(g) \/ Decline(g)
        \/ UNCHANGED offers
    BY <1>7 DEF Requests, Book, Edit, CancelBooking, CheckJoin, Join, CancelEntry
  <2>. QED  BY <1>2, <1>3, <1>6, <2>1
<1>8. ASSUME NEW w \in Workers, Cascade(w)
      PROVE  offers'[h] = offers[h]
  <2>1. AttachOffer(w) \/ UNCHANGED offers
    BY <1>8 DEF Cascade, List, PlaceHold, SkipCandidate, HoldBreaksForeignKey, AttachFails,
       MarkOffered, MarkFails, Abandon
  <2>. QED  BY <1>5, <1>6, <2>1
<1>9. ASSUME NEW w \in Reapers, Sweep(w)
      PROVE  offers'[h] = offers[h]
  <2>1. (\E g \in BookingIds : Reclaim(w, g)) \/ UNCHANGED offers
    BY <1>9 DEF Sweep, BeginSweep, SkipReclaim
  <2>. QED  BY <1>4, <1>6, <2>1
<1>10. \/ Requests
       \/ \E w \in Workers : Cascade(w)
       \/ \E w \in Reapers : Sweep(w)
       \/ UNCHANGED offers
  BY DEF WaitlistNext, Take, Crash, Tick, waitlistVars
<1>. QED  BY <1>6, <1>7, <1>8, <1>9, <1>10

\* An offer that was resolved stays resolved the same way.
THEOREM ResolvedOffersStand ==
  WaitlistSpec => ResolvedOnce
<1>1. IInv /\ [WaitlistNext]_waitlistVars =>
        [\A h \in Offered :
           offers[h].status # "active" => offers'[h] = offers[h]]_waitlistVars
  BY ResolutionStands
<1>. QED  BY <1>1, InvariantHolds, PTL DEF WaitlistSpec, ResolvedOnce

-----------------------------------------------------------------------------
(* The waitlist and the booking services.                                   *)

BookingsStepOrStutter == [BookingsOf!Next]_(BookingsOf!bookingVars)

\* The two modules speak of the same table.
LEMMA SameTable ==
  /\ BookingsOf!BookingIds = BookingIds
  /\ BookingsOf!Range = Range
  /\ BookingsOf!Absent = Absent
BY DEF BookingIds, Range, Absent, BookingsOf!BookingIds, BookingsOf!Range, BookingsOf!Absent

LEMMA SameExclusion ==
  ASSUME NEW tbl, NEW others, NEW r, NEW p
  PROVE  BookingsOf!Excludes(tbl, others, r, p) <=> Excludes(tbl, others, r, p)
BY DEF Excludes, InExclusionDomain, Overlaps, BookingsOf!Excludes,
   BookingsOf!InExclusionDomain, BookingsOf!Overlaps

LEMMA SameCleanup ==
  ASSUME NEW tbl, NEW r, NEW p, NEW t
  PROVE  /\ BookingsOf!StaleHolds(tbl, r, p, t) = StaleHolds(tbl, r, p, t)
         /\ BookingsOf!AfterCleanup(tbl, r, p, t) = AfterCleanup(tbl, r, p, t)
<1>1. BookingsOf!StaleHolds(tbl, r, p, t) = StaleHolds(tbl, r, p, t)
  BY DEF StaleHolds, Lapsed, Overlaps, BookingIds, BookingsOf!StaleHolds,
     BookingsOf!Lapsed, BookingsOf!Overlaps, BookingsOf!BookingIds
<1>. QED  BY <1>1, SameTable DEF AfterCleanup, Deleted, BookingsOf!AfterCleanup,
              BookingsOf!Deleted

LEMMA SameInsert ==
  ASSUME NEW tbl, NEW r, NEW u, NEW p, NEW st, NEW t
  PROVE  /\ BookingsOf!FreshIds(tbl) = FreshIds(tbl)
         /\ BookingsOf!NewRow(r, u, p, NoSeries, st, t) = NewRow(r, u, p, NoSeries, st, t)
BY DEF FreshIds, NewRow, NoExpiry, BookingIds, Absent, BookingsOf!FreshIds,
   BookingsOf!NewRow, BookingsOf!NoExpiry, BookingsOf!BookingIds, BookingsOf!Absent

LEMMA SameUpdates ==
  ASSUME NEW tbl, NEW b
  PROVE  /\ BookingsOf!AfterAccept(tbl, b) = AfterAccept(tbl, b)
         /\ BookingsOf!AfterRelease(tbl, b) = AfterRelease(tbl, b)
         /\ BookingsOf!AfterCancel(tbl, {b}) = AfterCancel(tbl, {b})
BY DEF AfterAccept, AfterRelease, AfterCancel, NoExpiry, BookingIds,
   BookingsOf!AfterAccept, BookingsOf!AfterRelease, BookingsOf!AfterCancel,
   BookingsOf!NoExpiry, BookingsOf!BookingIds

\* Offers that are only marked stay offers of the same holds.
LEMMA OfferedKept ==
  ASSUME WaitlistTypeOK, NEW h \in Offered, NEW st \in OfferStatus,
         offers' = [offers EXCEPT ![h].status = st]
  PROVE  Offered' = Offered
<1>1. /\ offers'[h].status = st
      /\ \A g \in BookingIds \ {h} : offers'[g] = offers[g]
  BY OfferMarked
<1>2. offers'[h] # NoOffer /\ h \in BookingIds /\ offers[h] # NoOffer
  BY <1>1 DEF OfferStatus, NoOffer, Offered
<1>. QED  BY <1>1, <1>2 DEF Offered

\* An INSERT of the waitlist's is a create_booking of Bookings.
LEMMA InsertIsCreate ==
  ASSUME NEW b, NEW r, NEW u, NEW p, NEW st, InsertBooking(b, r, u, p, st),
         Offered' = Offered, UNCHANGED now
  PROVE  BookingsOf!CreateBooking(r, u, p, NoSeries, st)
BY SameExclusion, SameCleanup, SameInsert, SameTable DEF InsertBooking, BookingsOf!CreateBooking

\* What a user's request does to booking rows is a step of Bookings.
LEMMA RequestsAreBookings ==
  ASSUME IInv, Requests
  PROVE  BookingsStepOrStutter
<1>. USE DEF IInv, BookingsStepOrStutter
<1>1. ASSUME NEW r \in Resources, NEW u \in Users, NEW p \in BookRanges, Book(r, u, p)
      PROVE  BookingsOf!Next
  <2>1. p \in Range
    BY WaitlistAssumption
  <2>2. PICK b : InsertBooking(b, r, u, p, "confirmed")
    BY <1>1 DEF Book
  <2>3. Offered' = Offered /\ UNCHANGED now /\ p[1] >= now
    BY <1>1 DEF Book, Offered
  <2>4. BookingsOf!Book(r, u, p, NoSeries)
    BY <2>2, <2>3, InsertIsCreate DEF BookingsOf!Book
  <2>. QED  BY <2>1, <2>4, SameTable DEF BookingsOf!Next
<1>2. ASSUME NEW b \in BookingIds, NEW p \in EditRanges, Edit(b, p)
      PROVE  BookingsOf!Next
  <2>1. p \in Range
    BY WaitlistAssumption
  <2>2. bookings[b].user \in Users
    <3>1. bookings[b] \in Row
      BY <1>2, InTableIsRow DEF Edit, InTable, WaitlistTypeOK
    <3>. QED  BY <3>1 DEF Row, Held, Settled
  <2>3. BookingsOf!Edit(bookings[b].user, b, p)
    BY <1>2, SameTable, SameExclusion
       DEF Edit, Offered, InTable, InExclusionDomain, BookingsOf!Edit, BookingsOf!Fits,
           BookingsOf!InTable, BookingsOf!InExclusionDomain
  <2>. QED  BY <2>1, <2>2, <2>3, SameTable DEF BookingsOf!Next
<1>3. ASSUME NEW b \in BookingIds, CancelBooking(b)
      PROVE  BookingsOf!Next
  <2>1. BookingsOf!Cancel(b)
    BY <1>3, SameUpdates DEF CancelBooking, Offered, BookingsOf!Cancel
  <2>. QED  BY <2>1, SameTable DEF BookingsOf!Next
<1>4. ASSUME NEW h \in BookingIds, Accept(h)
      PROVE  BookingsOf!Next
  <2>1. /\ h \in Offered
        /\ offers' = [offers EXCEPT ![h].status = "confirmed"]
        /\ bookings[h].status = "held"
    BY <1>4, AcceptRows
  <2>2. Offered' = Offered
    BY <2>1, OfferedKept DEF OfferStatus
  <2>3. bookings[h].user \in Users
    <3>1. bookings[h] \in Row
      BY <2>1, OfferedIsRow
    <3>. QED  BY <3>1 DEF Row, Held, Settled
  <2>4. BookingsOf!Accept(bookings[h].user, h)
    BY <1>4, <2>1, <2>2, SameUpdates DEF Accept, BookingsOf!Accept
  <2>. QED  BY <2>3, <2>4, SameTable DEF BookingsOf!Next
<1>5. ASSUME NEW h \in BookingIds, Decline(h)
      PROVE  BookingsStepOrStutter
  <2>1. /\ h \in Offered
        /\ offers' = [offers EXCEPT ![h].status = "declined"]
        /\ UNCHANGED now
    BY <1>5, ActiveIsOffered DEF Decline
  <2>2. Offered' = Offered
    BY <2>1, OfferedKept DEF OfferStatus
  <2>3. CASE bookings[h].status = "held"
    <3>1. BookingsOf!Decline(h)
      BY <1>5, <2>1, <2>2, <2>3, SameUpdates DEF Decline, BookingsOf!Decline
    <3>. QED  BY <3>1, SameTable DEF BookingsOf!Next
  <2>4. CASE bookings[h].status # "held"
    BY <1>5, <2>1, <2>2, <2>4 DEF Decline, BookingsOf!bookingVars
  <2>. QED  BY <2>3, <2>4
<1>6. ASSUME UNCHANGED <<bookings, offers, now>>
      PROVE  BookingsStepOrStutter
  BY <1>6 DEF Offered, BookingsOf!bookingVars
<1>7. \/ \E r \in Resources, u \in Users, p \in BookRanges : Book(r, u, p)
      \/ \E b \in BookingIds, p \in EditRanges : Edit(b, p)
      \/ \E b \in BookingIds : CancelBooking(b)
      \/ \E h \in BookingIds : Accept(h) \/ Decline(h)
      \/ UNCHANGED <<bookings, offers, now>>
  BY DEF Requests, CheckJoin, Join, CancelEntry
<1>. QED  BY <1>1, <1>2, <1>3, <1>4, <1>5, <1>6, <1>7

\* So is what the workers, the sweeps and the clock do.
LEMMA TasksAreBookings ==
  ASSUME IInv, WaitlistNext, ~Requests
  PROVE  BookingsStepOrStutter
<1>. USE DEF IInv, BookingsStepOrStutter
<1>1. ASSUME NEW w \in Workers, PlaceHold(w)
      PROVE  BookingsOf!Next
  <2>1. PICK e \in FirstOf(workers[w].todo), h \in BookingIds :
           InsertBooking(h, entries[e].resource, entries[e].user, entries[e].range, "held")
    BY <1>1 DEF PlaceHold
  <2>2. e \in EntryIds /\ Joined(e)
    BY <1>1, WorkerTypes DEF PlaceHold, FirstOf, EntryInv, WorkerInv
  <2>3. /\ entries[e].user \in Users
        /\ entries[e].resource \in Resources
        /\ entries[e].range \in Range
    BY <2>2, EntryTypes
  <2>4. Offered' = Offered /\ UNCHANGED now
    BY <1>1 DEF PlaceHold, Offered
  <2>5. BookingsOf!PlaceHold(entries[e].resource, entries[e].user, entries[e].range)
    BY <2>1, <2>4, InsertIsCreate DEF BookingsOf!PlaceHold
  <2>. QED  BY <2>3, <2>5, SameTable DEF BookingsOf!Next
<1>2. ASSUME NEW w \in Workers, AttachOffer(w)
      PROVE  BookingsOf!Next
  <2>. DEFINE h == workers[w].hold
  <2>1. Attaching(w) /\ h \in BookingIds
    BY <1>2, WorkerTypes DEF AttachOffer, Attaching
  <2>2. /\ bookings[h].status \in {"held", "cancelled", "deleted"}
        /\ bookings[h] # Deleted
        /\ h \notin Offered
    BY <1>2, <2>1 DEF AttachOffer, AttachInv
  <2>3. bookings[h].status \in {"held", "cancelled"}
    BY <2>1, <2>2 DEF WaitlistTypeOK, Row, Held, Settled, Absent
  <2>4. Offered' = Offered \cup {h} /\ UNCHANGED <<bookings, now>>
    <3>1. /\ offers'[h].status = "active"
          /\ \A g \in BookingIds \ {h} : offers'[g] = offers[g]
      BY <1>2, <2>1 DEF AttachOffer, WaitlistTypeOK
    <3>2. offers'[h] # NoOffer
      BY <3>1 DEF NoOffer
    <3>. QED  BY <1>2, <2>1, <3>1, <3>2 DEF Offered, AttachOffer
  <2>5. BookingsOf!AttachOffer(h)
    BY <2>2, <2>3, <2>4 DEF BookingsOf!AttachOffer
  <2>. QED  BY <2>1, <2>5, SameTable DEF BookingsOf!Next
<1>3. ASSUME NEW w \in Reapers, NEW h \in BookingIds, Reclaim(w, h)
      PROVE  BookingsOf!Next
  <2>1. /\ Lapsed(bookings[h], now)
        /\ bookings' = AfterRelease(bookings, h)
        /\ UNCHANGED now
    BY <1>3 DEF Reclaim, SweepInv
  <2>2. Offered' = Offered
    <3>1. CASE offers[h].status = "active"
      <4>1. h \in Offered /\ offers' = [offers EXCEPT ![h].status = "expired"]
        BY <1>3, <3>1, ActiveIsOffered DEF Reclaim
      <4>. QED  BY <4>1, OfferedKept DEF OfferStatus
    <3>2. CASE offers[h].status # "active"
      BY <1>3, <3>2 DEF Reclaim, Offered
    <3>. QED  BY <3>1, <3>2
  <2>3. BookingsOf!Reap(h)
    BY <2>1, <2>2, SameUpdates DEF Lapsed, BookingsOf!Reap, BookingsOf!Lapsed
  <2>. QED  BY <2>3, SameTable DEF BookingsOf!Next
<1>4. ASSUME Tick
      PROVE  BookingsOf!Next
  <2>1. BookingsOf!Tick
    BY <1>4 DEF Tick, Offered, BookingsOf!Tick
  <2>. QED  BY <2>1, SameTable DEF BookingsOf!Next
<1>5. ASSUME UNCHANGED <<bookings, offers, now>>
      PROVE  BookingsStepOrStutter
  BY <1>5 DEF Offered, BookingsOf!bookingVars
<1>6. ASSUME NEW w \in Workers, Cascade(w) \/ Crash(w)
      PROVE  BookingsStepOrStutter
  <2>1. PlaceHold(w) \/ AttachOffer(w) \/ UNCHANGED <<bookings, offers, now>>
    BY <1>6 DEF Cascade, Crash, List, SkipCandidate, HoldBreaksForeignKey, AttachFails,
       MarkOffered, MarkFails, Abandon
  <2>. QED  BY <1>1, <1>2, <1>5, <2>1
<1>7. ASSUME NEW w \in Reapers, Sweep(w)
      PROVE  BookingsStepOrStutter
  <2>1. (\E h \in BookingIds : Reclaim(w, h)) \/ UNCHANGED <<bookings, offers, now>>
    BY <1>7 DEF Sweep, BeginSweep, SkipReclaim
  <2>. QED  BY <1>3, <1>5, <2>1
<1>8. CASE \E w \in Slots : \E task \in freed : Take(w, task)
  BY <1>5, <1>8 DEF Take
<1>. QED  BY <1>4, <1>6, <1>7, <1>8 DEF WaitlistNext

\* The booking rows move as the booking services promise (Bookings), whatever
\* the waitlist around them does.
THEOREM WaitlistImplementsBookings ==
  WaitlistSpec => ImplementsBookings
<1>1. WaitlistInit => BookingsOf!Init
  BY SameTable DEF WaitlistInit, Offered, BookingsOf!Init
<1>2. IInv /\ [WaitlistNext]_waitlistVars => BookingsStepOrStutter
  <2>1. ASSUME UNCHANGED waitlistVars
        PROVE  BookingsStepOrStutter
    BY <2>1 DEF waitlistVars, Offered, BookingsStepOrStutter, BookingsOf!bookingVars
  <2>. QED  BY <2>1, RequestsAreBookings, TasksAreBookings
<1>. QED  BY <1>1, <1>2, InvariantHolds, PTL
          DEF WaitlistSpec, ImplementsBookings, BookingsOf!Spec, BookingsStepOrStutter

-----------------------------------------------------------------------------
(* What is proved of the booking services holds in the waitlist's system.   *)

Services == INSTANCE Bookings_proofs WITH offered <- Offered

\* BookingsOf and Services are the same specification.
LEMMA SameSpecification ==
  ImplementsBookings => Services!Spec
<1>1. BookingsOf!Init => Services!Init
  BY DEF BookingsOf!Init, Services!Init, BookingsOf!BookingIds, Services!BookingIds,
     BookingsOf!Absent, Services!Absent
<1>2. [BookingsOf!Next]_(BookingsOf!bookingVars) => [Services!Next]_(Services!bookingVars)
  BY DEF BookingsOf!Next, Services!Next, BookingsOf!bookingVars, Services!bookingVars,
     BookingsOf!Book, Services!Book, BookingsOf!PlaceHold, Services!PlaceHold,
     BookingsOf!CreateBooking, Services!CreateBooking, BookingsOf!Edit, Services!Edit,
     BookingsOf!Fits, Services!Fits, BookingsOf!Cancel, Services!Cancel,
     BookingsOf!CancelSeries, Services!CancelSeries,
     BookingsOf!FutureOccurrences, Services!FutureOccurrences,
     BookingsOf!Transfer, Services!Transfer, BookingsOf!AttachOffer, Services!AttachOffer,
     BookingsOf!Accept, Services!Accept, BookingsOf!Decline, Services!Decline,
     BookingsOf!Reap, Services!Reap, BookingsOf!Tick, Services!Tick,
     BookingsOf!BookingIds, Services!BookingIds, BookingsOf!Absent, Services!Absent,
     BookingsOf!Deleted, Services!Deleted, BookingsOf!NoExpiry, Services!NoExpiry,
     BookingsOf!Range, Services!Range, BookingsOf!Overlaps, Services!Overlaps,
     BookingsOf!InTable, Services!InTable,
     BookingsOf!InExclusionDomain, Services!InExclusionDomain,
     BookingsOf!Lapsed, Services!Lapsed, BookingsOf!Excludes, Services!Excludes,
     BookingsOf!StaleHolds, Services!StaleHolds,
     BookingsOf!AfterCleanup, Services!AfterCleanup,
     BookingsOf!FreshIds, Services!FreshIds, BookingsOf!NewRow, Services!NewRow,
     BookingsOf!AfterAccept, Services!AfterAccept,
     BookingsOf!AfterRelease, Services!AfterRelease,
     BookingsOf!AfterCancel, Services!AfterCancel
<1>. QED  BY <1>1, <1>2, PTL DEF ImplementsBookings, BookingsOf!Spec, Services!Spec

\* Whatever the waitlist does, two rows of the exclusion domain on one resource
\* never overlap: an acceptance, a cascade and a direct booking cannot meet.
THEOREM WaitlistNeverDoubleBooks ==
  WaitlistSpec => []Services!NoOverlappingBookings
<1>1. Services!Spec => []Services!NoOverlappingBookings
  BY Services!NoDoubleBooking, TableAssumption, PTL DEF Services!TableAssumption
<1>. QED  BY <1>1, WaitlistImplementsBookings, SameSpecification, PTL

\* An offer's hold stays its beneficiary's until it expires or its own offer is
\* declined, whatever cascades, sweeps and other users do.
THEOREM WaitlistKeepsHolds ==
  WaitlistSpec => Services!HoldKeepsTheSlot
<1>1. Services!Spec => Services!HoldKeepsTheSlot
  BY Services!HoldsKeepTheirSlots, TableAssumption, PTL DEF Services!TableAssumption
<1>. QED  BY <1>1, WaitlistImplementsBookings, SameSpecification, PTL

\* The claims are the same through either, and so is their calendar.
LEMMA SameCalendar == Services!ImplementsCalendar => ImplementsCalendar
<1>1. Services!Claims = Claims /\ Services!Claims' = Claims'
  BY DEF Services!Claims, Claims, Services!ClaimOf, ClaimOf, Services!Absent, Absent,
     Services!BookingIds, BookingIds
<1>2. Services!Abs!CalendarInit => Abs!CalendarInit
  BY <1>1 DEF Services!Abs!CalendarInit, Abs!CalendarInit, Services!Abs!Never, Abs!Never,
     Services!Abs!BookingIds, Abs!BookingIds
<1>3. /\ Services!Abs!Never = Abs!Never /\ Services!Abs!Gone = Abs!Gone
      /\ Services!Abs!BookingIds = Abs!BookingIds /\ Services!Abs!Range = Abs!Range
  BY DEF Services!Abs!Never, Abs!Never, Services!Abs!Gone, Abs!Gone,
     Services!Abs!BookingIds, Abs!BookingIds, Services!Abs!Range, Abs!Range
<1>4. Services!Abs!Claim = Abs!Claim
  BY <1>3 DEF Services!Abs!Claim, Abs!Claim
<1>5. Services!Abs!Standing = Abs!Standing
  BY <1>1, <1>3 DEF Services!Abs!Standing, Abs!Standing
<1>6. ASSUME NEW r, NEW p, NEW except
      PROVE  Services!Abs!Available(r, p, except) <=> Abs!Available(r, p, except)
  BY <1>1, <1>5 DEF Services!Abs!Available, Abs!Available, Services!Abs!Overlaps, Abs!Overlaps
<1>7. [Services!Abs!CalendarNext]_(Services!Claims) => [Abs!CalendarNext]_Claims
  <2>1. ASSUME NEW b, NEW D, Services!Abs!Take(b, D)
        PROVE  Abs!Take(b, D)
    BY <1>1, <1>3, <1>4, <1>5, <1>6, <2>1 DEF Services!Abs!Take, Abs!Take
  <2>2. ASSUME NEW b, NEW p, Services!Abs!Move(b, p)
        PROVE  Abs!Move(b, p)
    BY <1>1, <1>5, <1>6, <2>2, Zenon DEF Services!Abs!Move, Abs!Move
  <2>3. ASSUME NEW b, Services!Abs!MakeFirm(b)
        PROVE  Abs!MakeFirm(b)
    BY <1>1, <1>5, <2>3, Zenon DEF Services!Abs!MakeFirm, Abs!MakeFirm
  <2>4. ASSUME NEW b, NEW u, Services!Abs!HandOver(b, u)
        PROVE  Abs!HandOver(b, u)
    BY <1>1, <1>5, <2>4, Zenon DEF Services!Abs!HandOver, Abs!HandOver
  <2>5. ASSUME NEW B, Services!Abs!GiveUp(B)
        PROVE  Abs!GiveUp(B)
    BY <1>1, <1>3, <1>5, <2>5 DEF Services!Abs!GiveUp, Abs!GiveUp
  <2>6. ASSUME NEW u, Services!Abs!Leave(u)
        PROVE  Abs!Leave(u)
    BY <1>1, <1>3, <1>5, <2>6, Zenon DEF Services!Abs!Leave, Abs!Leave
  <2>. QED
    BY <1>1, <1>3, <2>1, <2>2, <2>3, <2>4, <2>5, <2>6, Zenon
       DEF Services!Abs!CalendarNext, Abs!CalendarNext
<1>. QED
  BY <1>2, <1>7, PTL DEF Services!ImplementsCalendar, ImplementsCalendar,
     Services!Abs!CalendarSpec, Abs!CalendarSpec

\* The table under the waitlist implements the calendar: an offer is a claim its
\* beneficiary can make firm, and a cascade grants none over another claim.
THEOREM WaitlistImplementsCalendar == WaitlistSpec => ImplementsCalendar
<1>1. Services!Spec => Services!ImplementsCalendar
  BY Services!TableImplementsCalendar, TableAssumption, PTL DEF Services!TableAssumption
<1>. QED  BY <1>1, WaitlistImplementsBookings, SameSpecification, SameCalendar, PTL

-----------------------------------------------------------------------------
(* One outstanding offer.  Nothing in the code compares offers: that two of *)
(* them do not overlap follows from the holds under them, for as long as an *)
(* active offer has its hold.  It has it until both run out, and they run   *)
(* out together: a hold is edited with its expiry left alone, a worker that *)
(* has lost its hold has an offer to attach that has expired.               *)

\* Hold b is there with its expiry, or its time is over.
Stands(b, expires) ==
    \/ bookings[b].status = "held" /\ bookings[b].expires = expires
    \/ expires <= now

StandingInv ==
    /\ \A h \in Offered : offers[h].status = "active" => Stands(h, offers[h].expires)
    /\ \A w \in Workers : Attaching(w) => Stands(workers[w].hold, workers[w].expires)

\* What a step may do to a row under an active offer or at a worker.
KeepsStanding(b) ==
    \/ bookings[b].status = "held" =>
          bookings'[b].status = "held" /\ bookings'[b].expires = bookings[b].expires
    \/ Lapsed(bookings[b], now)

\* Such a step that hands out no new offer and places no new hold.
StandsStill ==
    /\ \A h \in BookingIds : offers'[h].status = "active" =>
          /\ offers[h].status = "active" /\ offers'[h].expires = offers[h].expires
          /\ KeepsStanding(h)
    /\ \A w \in Workers : Attaching(w)' =>
          workers'[w] = workers[w] /\ KeepsStanding(workers[w].hold)
    /\ now' \in {now, now + 1}

LEMMA StillStands ==
  ASSUME WaitlistTypeOK, NEW b \in BookingIds, NEW x \in 0..(MaxTime + HoldWindow),
         Stands(b, x), KeepsStanding(b), now' \in {now, now + 1}
  PROVE  \/ bookings'[b].status = "held" /\ bookings'[b].expires = x
         \/ x <= now'
<1>1. now \in Nat /\ x \in Int
  BY TableAssumption DEF WaitlistTypeOK, Times, TableAssumption
<1>2. x <= now => x <= now'
  BY <1>1
<1>3. Lapsed(bookings[b], now) => bookings[b].status = "held" /\ bookings[b].expires <= now
  BY DEF Lapsed
<1>. QED  BY <1>2, <1>3 DEF Stands, KeepsStanding

LEMMA StillStanding ==
  ASSUME IInv, StandingInv, StandsStill
  PROVE  StandingInv'
<1>1. WaitlistTypeOK
  BY DEF IInv
<1>2. ASSUME NEW h \in BookingIds, offers'[h].status = "active"
      PROVE  Stands(h, offers[h].expires)'
  <2>1. offers[h].status = "active" /\ h \in Offered /\ offers'[h].expires = offers[h].expires
    BY <1>1, <1>2, ActiveIsOffered DEF StandsStill
  <2>2. Stands(h, offers[h].expires) /\ KeepsStanding(h)
    BY <1>2, <2>1 DEF StandsStill, StandingInv
  <2>3. offers[h].expires \in 0..(MaxTime + HoldWindow)
    BY <1>1, <2>1 DEF WaitlistTypeOK, Offered, Offer
  <2>. QED  BY <1>1, <2>1, <2>2, <2>3, StillStands DEF StandsStill, Stands
<1>3. ASSUME NEW w \in Workers, Attaching(w)'
      PROVE  Stands(workers[w].hold, workers[w].expires)'
  <2>1. workers'[w] = workers[w] /\ Attaching(w)
    BY <1>3 DEF StandsStill, Attaching
  <2>2. Stands(workers[w].hold, workers[w].expires) /\ KeepsStanding(workers[w].hold)
    BY <1>3, <2>1 DEF StandsStill, StandingInv
  <2>3. workers[w].hold \in BookingIds /\ workers[w].expires \in 0..(MaxTime + HoldWindow)
    BY <1>1, <2>1, WorkerTypes DEF Attaching
  <2>. QED  BY <1>1, <2>1, <2>2, <2>3, StillStands DEF StandsStill, Stands
<1>4. \A h \in Offered' : h \in BookingIds
  BY DEF Offered
<1>. QED  BY <1>2, <1>3, <1>4 DEF StandingInv

\* A row that is as it was, or not there.
LEMMA SameKeepsStanding ==
  ASSUME NEW b, \/ bookings'[b] = bookings[b]
                \/ Lapsed(bookings[b], now)
                \/ bookings[b].status # "held"
  PROVE  KeepsStanding(b)
BY DEF KeepsStanding

LEMMA StandingSteps ==
  ASSUME IInv, StandingInv, [WaitlistNext]_waitlistVars
  PROVE  StandingInv'
<1>t. /\ WaitlistTypeOK /\ workers \in [Workers -> Worker]
      /\ now \in Nat /\ Idle.pc # "attaching"
      /\ \A h \in BookingIds : offers[h].status = "active" => h \in Offered
  BY ActiveIsOffered, TableAssumption DEF IInv, WaitlistTypeOK, Times, TableAssumption, Idle
<1>a. \A w \in Workers : Attaching(w) =>
         workers[w].hold \in BookingIds /\ workers[w].hold \notin Offered
  BY WorkerTypes DEF IInv, AttachInv, Attaching
\* Steps that leave the workers at their holds and the offers alone.
<1>1. ASSUME UNCHANGED <<offers, now>>, \A b \in BookingIds : KeepsStanding(b),
             \A w \in Workers : Attaching(w)' => workers'[w] = workers[w]
      PROVE  StandingInv'
  <2>1. \A w \in Workers : Attaching(w)' => workers'[w] = workers[w] /\ KeepsStanding(workers[w].hold)
    BY <1>a, <1>1 DEF Attaching
  <2>. QED  BY <1>1, <2>1, StillStanding DEF StandsStill
<1>2. ASSUME UNCHANGED <<bookings, offers, now>>,
             \A w \in Workers : Attaching(w)' => workers'[w] = workers[w]
      PROVE  StandingInv'
  BY <1>1, <1>2, SameKeepsStanding
\* An insertion deletes lapsed holds and takes a new id.
<1>3. ASSUME NEW b \in BookingIds, bookings[b] = Absent,
             \A c \in BookingIds \ {b} :
                 \/ bookings'[c] = bookings[c]
                 \/ bookings'[c] = Deleted /\ Lapsed(bookings[c], now) /\ c \notin Offered
      PROVE  \A c \in BookingIds : KeepsStanding(c)
  <2>1. Absent.status # "held"
    BY DEF Absent
  <2>. QED  BY <1>3, <2>1, SameKeepsStanding
\* One offer is resolved, and its hold ends.
<1>4. ASSUME UNCHANGED <<workers, now>>, NEW h \in Offered, NEW st \in OfferStatus \ {"active"},
             \A c \in BookingIds \ {h} : bookings'[c] = bookings[c],
             offers' = [offers EXCEPT ![h].status = st]
      PROVE  StandingInv'
  <2>1. /\ \A c \in BookingIds \ {h} : offers'[c] = offers[c]
        /\ offers'[h].status = st
    BY <1>t, <1>4, OfferMarked
  <2>2. \A c \in BookingIds \ {h} : KeepsStanding(c)
    BY <1>4, SameKeepsStanding
  <2>3. \A w \in Workers : Attaching(w)' => workers'[w] = workers[w] /\ KeepsStanding(workers[w].hold)
    BY <1>a, <1>4, <2>2 DEF Attaching
  <2>. QED  BY <1>4, <2>1, <2>2, <2>3, StillStanding DEF StandsStill
<1>5. CASE Requests
  <2>1. ASSUME NEW r \in Resources, NEW u \in Users, NEW p \in BookRanges, Book(r, u, p)
        PROVE  StandingInv'
    <3>1. p \in Range /\ UNCHANGED <<offers, workers, now>>
      BY <2>1, WaitlistAssumption DEF Book
    <3>2. PICK b : InsertBooking(b, r, u, p, "confirmed")
      BY <2>1 DEF Book
    <3>3. /\ b \in BookingIds /\ bookings[b] = Absent
          /\ \A c \in BookingIds \ {b} :
                \/ bookings'[c] = bookings[c]
                \/ bookings'[c] = Deleted /\ Lapsed(bookings[c], now) /\ c \notin Offered
      BY <3>1, <3>2, InsertRows DEF IInv
    <3>. QED  BY <1>1, <1>3, <3>1, <3>3
  <2>2. ASSUME NEW b \in BookingIds, CancelBooking(b)
        PROVE  StandingInv'
    <3>1. /\ bookings[b].status = "confirmed" /\ UNCHANGED <<offers, workers, now>>
          /\ bookings' = AfterCancel(bookings, {b})
      BY <2>2 DEF CancelBooking
    <3>2. \A c \in BookingIds \ {b} : bookings'[c] = bookings[c]
      BY <3>1 DEF AfterCancel
    <3>. QED  BY <1>1, <3>1, <3>2, SameKeepsStanding
  <2>3. ASSUME NEW b \in BookingIds, NEW p \in EditRanges, Edit(b, p)
        PROVE  StandingInv'
    <3>1. /\ InTable(bookings[b]) /\ UNCHANGED <<offers, workers, now>>
          /\ bookings' = [bookings EXCEPT ![b] = [bookings[b] EXCEPT !.range = p]]
      BY <2>3 DEF Edit
    <3>2. bookings[b] \in Row
      BY <1>t, <3>1, InTableIsRow DEF InTable, WaitlistTypeOK
    <3>3. /\ bookings'[b] = [bookings[b] EXCEPT !.range = p]
          /\ \A c \in BookingIds \ {b} : bookings'[c] = bookings[c]
      BY <1>t, <3>1 DEF WaitlistTypeOK
    <3>4. bookings'[b].status = bookings[b].status /\ bookings'[b].expires = bookings[b].expires
      BY <3>2, <3>3 DEF Row, Held, Settled
    <3>5. \A c \in BookingIds : KeepsStanding(c)
      BY <3>3, <3>4, SameKeepsStanding DEF KeepsStanding
    <3>. QED  BY <1>1, <3>1, <3>5
  <2>4. ASSUME NEW h \in BookingIds, Accept(h)
        PROVE  StandingInv'
    <3>1. /\ h \in Offered /\ offers' = [offers EXCEPT ![h].status = "confirmed"]
          /\ \A c \in BookingIds \ {h} : bookings'[c] = bookings[c]
          /\ UNCHANGED <<workers, now>>
      BY <2>4, AcceptRows DEF IInv, Accept
    <3>. QED  BY <1>4, <3>1 DEF OfferStatus
  <2>5. ASSUME NEW h \in BookingIds, Decline(h)
        PROVE  StandingInv'
    <3>1. /\ h \in Offered /\ offers' = [offers EXCEPT ![h].status = "declined"]
          /\ \A c \in BookingIds \ {h} : bookings'[c] = bookings[c]
          /\ UNCHANGED <<workers, now>>
      BY <2>5, DeclineRows DEF IInv, Decline
    <3>. QED  BY <1>4, <3>1 DEF OfferStatus
  <2>6. ASSUME \/ \E u \in Users, r \in Resources, p \in JoinRanges : CheckJoin(u, r, p)
               \/ \E q \in checked : Join(q)
               \/ \E e \in EntryIds : CancelEntry(e)
        PROVE  StandingInv'
    BY <1>2, <2>6 DEF CheckJoin, Join, CancelEntry
  <2>. QED  BY <1>5, <2>1, <2>2, <2>3, <2>4, <2>5, <2>6 DEF Requests
<1>6. ASSUME NEW w \in Workers, Cascade(w)
      PROVE  StandingInv'
  <2>1. ASSUME UNCHANGED <<bookings, offers, now>>, NEW x, x.pc # "attaching",
               workers' = [workers EXCEPT ![w] = x]
        PROVE  StandingInv'
    BY <1>t, <1>2, <2>1 DEF Attaching
  <2>2. CASE PlaceHold(w)
    <3>1. PICK e \in FirstOf(workers[w].todo), h \in BookingIds :
             /\ InsertBooking(h, entries[e].resource, entries[e].user, entries[e].range, "held")
             /\ workers' = [workers EXCEPT ![w] = [pc |-> "attaching", entry |-> e, hold |-> h,
                                                   expires |-> now + HoldWindow]]
      BY <2>2 DEF PlaceHold
    <3>2. e \in EntryIds /\ Joined(e)
      BY <2>2, <3>1, WorkerTypes DEF PlaceHold, FirstOf, IInv, EntryInv, WorkerInv
    <3>3. /\ entries[e].resource \in Resources /\ entries[e].user \in Users
          /\ entries[e].range \in Range
      BY <3>2, EntryTypes DEF IInv
    <3>4. /\ bookings[h] = Absent
          /\ \A c \in BookingIds \ {h} :
                \/ bookings'[c] = bookings[c]
                \/ bookings'[c] = Deleted /\ Lapsed(bookings[c], now) /\ c \notin Offered
      BY <3>1, <3>3, InsertRows DEF IInv
    <3>5. \A c \in BookingIds : KeepsStanding(c)
      BY <1>3, <3>4
    <3>6. UNCHANGED <<offers, now>>
      BY <2>2 DEF PlaceHold
    <3>7. bookings'[h].status = "held" /\ bookings'[h].expires = now + HoldWindow
      <4>1. bookings'[h] = NewRow(entries[e].resource, entries[e].user, entries[e].range,
                                  NoSeries, "held", now)
        <5>1. AfterCleanup(bookings, entries[e].resource, entries[e].range, now)
                 \in [BookingIds -> Row \cup {Absent, Deleted}]
          BY CleanupIsTable DEF IInv, WaitlistTypeOK, Table
        <5>. QED  BY <3>1, <5>1 DEF InsertBooking
      <4>. QED  BY <4>1 DEF NewRow
    <3>8. \A v \in Workers : IF v = w THEN workers'[v].hold = h /\ workers'[v].expires = now + HoldWindow
                                      ELSE workers'[v] = workers[v]
      BY <1>t, <3>1
    <3>9. ASSUME NEW g \in Offered, offers[g].status = "active"
          PROVE  Stands(g, offers[g].expires)'
      <4>1. offers[g].expires \in 0..(MaxTime + HoldWindow) /\ g \in BookingIds
        BY <1>t, <3>9, OfferTypes DEF Offer
      <4>2. Stands(g, offers[g].expires) /\ KeepsStanding(g)
        BY <3>5, <3>9, <4>1 DEF StandingInv
      <4>. QED  BY <1>t, <3>6, <4>1, <4>2, StillStands DEF Stands
    <3>10. ASSUME NEW v \in Workers, Attaching(v)'
           PROVE  Stands(workers[v].hold, workers[v].expires)'
      <4>1. CASE v = w
        BY <3>7, <3>8, <4>1 DEF Stands
      <4>2. CASE v # w
        <5>1. Attaching(v) /\ workers'[v] = workers[v]
          BY <3>8, <3>10, <4>2 DEF Attaching
        <5>2. workers[v].hold \in BookingIds /\ workers[v].expires \in 0..(MaxTime + HoldWindow)
          BY <1>t, <5>1, WorkerTypes DEF Attaching
        <5>3. Stands(workers[v].hold, workers[v].expires) /\ KeepsStanding(workers[v].hold)
          BY <3>5, <5>1, <5>2 DEF StandingInv
        <5>. QED  BY <1>t, <3>6, <5>1, <5>2, <5>3, StillStands DEF Stands
      <4>. QED  BY <4>1, <4>2
    <3>. QED  BY <3>6, <3>9, <3>10 DEF StandingInv, Offered, Stands
  <2>3. CASE AttachOffer(w)
    <3>1. PICK e, h, x : e = workers[w].entry /\ h = workers[w].hold /\ x = workers[w].expires
      OBVIOUS
    <3>2. /\ Attaching(w) /\ UNCHANGED <<bookings, now>>
          /\ offers' = [offers EXCEPT ![h] = [entry |-> e, range |-> entries[e].range,
                                              status |-> "active", expires |-> x]]
          /\ workers' = [workers EXCEPT ![w] = [pc |-> "marking", entry |-> e]]
      BY <2>3, <3>1 DEF AttachOffer, Attaching
    <3>3. h \in BookingIds /\ Stands(h, x)
      BY <1>a, <3>1, <3>2 DEF StandingInv
    <3>4. \A g \in BookingIds : IF g = h THEN offers'[g].expires = x ELSE offers'[g] = offers[g]
      BY <1>t, <3>2, <3>3 DEF WaitlistTypeOK
    <3>5. ASSUME NEW g \in BookingIds, offers'[g].status = "active"
          PROVE  Stands(g, offers'[g].expires)
      <4>1. CASE g = h
        BY <3>3, <3>4, <4>1
      <4>2. CASE g # h
        <5>1. offers'[g] = offers[g] /\ g \in Offered
          BY <1>t, <3>4, <3>5, <4>2
        <5>. QED  BY <3>5, <5>1 DEF StandingInv
      <4>. QED  BY <4>1, <4>2
    <3>6. \A v \in Workers : Attaching(v)' => workers'[v] = workers[v] /\ Attaching(v)
      BY <1>t, <3>2 DEF Attaching
    <3>. QED  BY <3>2, <3>5, <3>6 DEF StandingInv, Offered, Stands
  <2>4. CASE List(w)
    <3>1. UNCHANGED <<bookings, offers, now>>
      BY <2>4 DEF List
    <3>2. PICK x : /\ workers' = [workers EXCEPT ![w] = x]
                   /\ x = Idle \/ \E E : x = [pc |-> "holding", todo |-> E]
      BY <2>4 DEF List
    <3>. QED  BY <1>t, <2>1, <3>1, <3>2
  <2>5. CASE SkipCandidate(w)
    <3>1. UNCHANGED <<bookings, offers, now>>
      BY <2>5 DEF SkipCandidate
    <3>2. PICK x : /\ workers' = [workers EXCEPT ![w] = x]
                   /\ x = Idle \/ \E E : x = [pc |-> "holding", todo |-> E]
      BY <1>t, <2>5 DEF SkipCandidate
    <3>. QED  BY <1>t, <2>1, <3>1, <3>2
  <2>6. CASE HoldBreaksForeignKey(w) \/ AttachFails(w) \/ MarkFails(w) \/ MarkOffered(w)
    <3>1. UNCHANGED <<bookings, offers, now>> /\ workers' = [workers EXCEPT ![w] = Idle]
      BY <2>6 DEF HoldBreaksForeignKey, AttachFails, MarkFails, MarkOffered, Abandon
    <3>. QED  BY <1>t, <2>1, <3>1
  <2>. QED  BY <1>6, <2>2, <2>3, <2>4, <2>5, <2>6 DEF Cascade
<1>7. ASSUME NEW w \in Workers, Crash(w)
      PROVE  StandingInv'
  BY <1>t, <1>2, <1>7 DEF Crash, Attaching
<1>8. ASSUME NEW w \in Slots, NEW task \in freed, Take(w, task)
      PROVE  StandingInv'
  BY <1>t, <1>2, <1>8 DEF Take, Attaching
<1>9. ASSUME NEW w \in Reapers, Sweep(w)
      PROVE  StandingInv'
  <2>1. CASE BeginSweep(w) \/ \E h \in BookingIds : SkipReclaim(w, h)
    BY <1>2, <2>1 DEF BeginSweep, SkipReclaim
  <2>2. ASSUME NEW h \in BookingIds, Reclaim(w, h)
        PROVE  StandingInv'
    <3>1. Lapsed(bookings[h], now)
      BY <2>2 DEF Reclaim, IInv, SweepInv
    <3>2. \A c \in BookingIds \ {h} : bookings'[c] = bookings[c]
      BY <2>2, ReclaimRows DEF IInv
    <3>3. \A c \in BookingIds : KeepsStanding(c)
      BY <3>1, <3>2, SameKeepsStanding
    <3>4. \A c \in BookingIds : offers'[c].status = "active" => offers'[c] = offers[c]
      <4>1. CASE offers[h].status = "active"
        <5>1. h \in Offered /\ offers' = [offers EXCEPT ![h].status = "expired"]
          BY <1>t, <2>2, <4>1 DEF Reclaim
        <5>2. /\ \A c \in BookingIds \ {h} : offers'[c] = offers[c]
              /\ offers'[h].status = "expired"
          BY <1>t, <5>1, OfferMarked DEF OfferStatus
        <5>. QED  BY <5>2
      <4>2. CASE offers[h].status # "active"
        BY <2>2, <4>2 DEF Reclaim
      <4>. QED  BY <4>1, <4>2
    <3>5. \A v \in Workers : Attaching(v)' => workers'[v] = workers[v]
      BY <1>t, <2>2 DEF Reclaim, Attaching
    <3>6. \A v \in Workers : Attaching(v)' => KeepsStanding(workers[v].hold)
      BY <1>a, <3>3, <3>5 DEF Attaching
    <3>7. now' = now
      BY <2>2 DEF Reclaim
    <3>. QED  BY <3>3, <3>4, <3>5, <3>6, <3>7, StillStanding DEF StandsStill
  <2>. QED  BY <1>9, <2>1, <2>2 DEF Sweep
<1>10. CASE Tick
  <2>1. UNCHANGED <<bookings, offers, workers>> /\ now' = now + 1
    BY <1>10 DEF Tick
  <2>2. \A c \in BookingIds : KeepsStanding(c)
    BY <2>1, SameKeepsStanding
  <2>3. \A w \in Workers : Attaching(w)' => workers'[w] = workers[w] /\ KeepsStanding(workers[w].hold)
    BY <1>a, <2>1, <2>2 DEF Attaching
  <2>. QED  BY <2>1, <2>2, <2>3, StillStanding DEF StandsStill
<1>11. CASE UNCHANGED waitlistVars
  BY <1>2, <1>11 DEF waitlistVars
<1>. QED  BY <1>5, <1>6, <1>7, <1>8, <1>9, <1>10, <1>11 DEF WaitlistNext

\* Two offers that can still be accepted, their holds where they were offered,
\* never overlap (PRD FR25), in whatever order workers, acceptances, declines,
\* sweeps, bookings and edits come, with workers that stall for any time and
\* crash anywhere (create_offer_for_freed_range, accept_offer, decline_offer,
\* reap_expired_holds, edit_booking).
THEOREM OneOfferAtATime == WaitlistSpec => []OneOutstandingOffer
<1>1. WaitlistInit => StandingInv
  BY DEF WaitlistInit, StandingInv, Offered, Attaching, Idle
<1>2. IInv /\ StandingInv /\ [WaitlistNext]_waitlistVars => StandingInv'
  BY StandingSteps
<1>3. IInv /\ StandingInv /\ Services!NoOverlappingBookings => OneOutstandingOffer
  <2>. SUFFICES ASSUME IInv, StandingInv, Services!NoOverlappingBookings,
                       NEW g \in Offered, NEW h \in Offered, g # h,
                       Outstanding(g), Outstanding(h),
                       bookings[g].resource = bookings[h].resource
                PROVE  ~Overlaps(offers[g].range, offers[h].range)
    BY DEF OneOutstandingOffer
  <2>1. ASSUME NEW b \in Offered, Outstanding(b)
        PROVE  b \in BookingIds /\ bookings[b].status = "held" /\ bookings[b].range = offers[b].range
    <3>1. /\ b \in BookingIds /\ offers[b].expires \in Int /\ now \in Int
          /\ offers[b].status = "active" /\ offers[b].expires > now
          /\ bookings[b].range = offers[b].range
      BY <2>1, OfferTypes, TableAssumption
         DEF Outstanding, IInv, Offer, WaitlistTypeOK, Times, TableAssumption
    <3>2. ~(offers[b].expires <= now)
      BY <3>1
    <3>. QED  BY <2>1, <3>1, <3>2 DEF StandingInv, Stands
  <2>2. ~Services!Overlaps(bookings[g].range, bookings[h].range)
    BY <2>1 DEF Services!NoOverlappingBookings, Services!BookingIds, BookingIds
  <2>. QED  BY <2>1, <2>2 DEF Services!Overlaps, Overlaps
<1>. QED  BY <1>1, <1>2, <1>3, InvariantHolds, WaitlistNeverDoubleBooks, PTL DEF WaitlistSpec
=============================================================================
