---------------------------- MODULE CalendarPage ----------------------------
(***************************************************************************)
(* The calendar of the frontend (frontend/src/booking/CalendarPage.tsx)    *)
(* over the booking table: the availability it fetches                     *)
(* (booking/useAvailability.ts) and still shows when it is stale, the      *)
(* block that is shown before the server has answered, its panel           *)
(* (booking/BookingPanel.tsx), and the call of a click with its retries    *)
(* under one idempotency key (api/client.ts).  The user looks at another   *)
(* resource and clicks while answers are on their way.                     *)
(*                                                                         *)
(* One page of one user; everybody else writes to the table.  A view is a  *)
(* resource: day, week and month, messages and suggested slots are left    *)
(* out, and so is the waitlist panel, with the holds of its offers.        *)
(***************************************************************************)
EXTENDS BookingTable

CONSTANTS Me,         \* the user of the page
          Slots,      \* bound: the slots of the grid, of a resource
          Contested,  \* bound: who books elsewhere, which resource, which range
          MaxClicks,  \* bound: clicks on Book, Save and Cancel booking
          MaxFetches, \* bound: fetches on their way
          MaxRetries  \* SERVICE_UNAVAILABLE_MAX_RETRIES

ASSUME CalendarPageAssumption ==
    /\ Me \in Users
    /\ Slots \subseteq Resources \X Range
    /\ Contested \subseteq Users \X Resources \X Range
    /\ MaxClicks \in Nat
    /\ MaxFetches \in Nat \ {0}
    /\ MaxRetries \in Nat

VARIABLES view,       \* the resource that is looked at
          generation, \* how often refetch was called
          fetches,    \* availability requests on their way
          shown,      \* the state of useAvailability: a key and its blocks
          selection,  \* what the panel is open for
          pending,    \* pendingBlock, as a set
          created,    \* justCreated
          busy,       \* disables the buttons
          clicks,     \* the calls, click by click
          gone        \* history: bookings whose cancellation the page was told of

pageVars == <<view, generation, fetches, shown, selection, pending, created, busy>>
calendarVars == <<bookings, pageVars, clicks, gone>>

Clicks == 1..MaxClicks
Opaque == 0     \* a block without a booking_id
Blocks == [range : Range, id : BookingIds \cup {Opaque}]

Nothing == [kind |-> "none"]
NoRange == <<0, 0>>     \* of a cancellation
NoCall  == [pc |-> "unused"]
Done    == [pc |-> "over"]

\* sent: on its way or at the server; stray: the page has given it up, and it
\* may still reach the server.  stored: the response recorded under the key of
\* the call; made: history, the bookings that were made for the click.
Calls == [pc : {"sent", "answered", "stray"}, op : {"create", "edit", "cancel"},
          target : Resources \cup BookingIds, range : Range \cup {NoRange}, retries : 0..MaxRetries,
          stored : {"none", "ok", "conflict"},
          answer : {"none", "ok", "conflict", "error", "unavailable", "lost"}, made : SUBSET BookingIds]

CalendarTypeOK ==
    /\ bookings \in [BookingIds -> Settled \cup {Absent}]
    /\ view \in Resources
    /\ generation \in 0..MaxClicks
    /\ fetches \subseteq [view : Resources, generation : 0..generation, live : BOOLEAN,
                          read : BOOLEAN, blocks : SUBSET Blocks]
    /\ \A f \in fetches : f.live => f.view = view /\ f.generation = generation
    /\ shown.view \in Resources /\ shown.generation \in -1..generation /\ shown.blocks \subseteq Blocks
    /\ selection.kind \in {"none", "new", "manage"}
    /\ pending \subseteq Blocks
    /\ created \subseteq Blocks
    /\ busy = (\E k \in Clicks : clicks[k].pc \in {"sent", "answered"})
    /\ clicks \in [Clicks -> Calls \cup {NoCall, Done}]
    /\ gone \subseteq BookingIds

-----------------------------------------------------------------------------
(* useAvailability.                                                         *)

Fetch(v, g) == [view |-> v, generation |-> g, live |-> TRUE, read |-> FALSE, blocks |-> {}]

\* Fault: the effect without its cleanup.
AllStayLive(v, g) == fetches \cup {Fetch(v, g)}

\* The effect runs again: the fetch before is not listened to any more, whatever
\* it brings.
Refetched(v, g) == {[f EXCEPT !.live = FALSE, !.read = FALSE, !.blocks = {}] : f \in fetches} \cup {Fetch(v, g)}

\* Fault: the query is run again under the key it had.
RefetchInPlace ==
    /\ fetches' = Refetched(view, generation)
    /\ UNCHANGED generation

Refetch ==
    /\ generation' = generation + 1
    /\ fetches' = Refetched(view, generation + 1)

Loading == <<shown.view, shown.generation>> # <<view, generation>>

CalendarInit ==
    /\ bookings = [b \in BookingIds |-> Absent]
    /\ view \in Resources
    /\ generation = 0
    /\ fetches = {Fetch(view, 0)}
    /\ shown = [view |-> view, generation |-> -1, blocks |-> {}]
    /\ selection = Nothing
    /\ pending = {}
    /\ created = {}
    /\ busy = FALSE
    /\ clicks = [k \in Clicks |-> NoCall]
    /\ gone = {}

\* ResourceAvailabilityView: only the owner of a confirmed booking sees its id.
Revealed(row) == row.status # "held" /\ row.user = Me

BusyBlocks(r) ==
    {[range |-> bookings[b].range, id |-> IF Revealed(bookings[b]) THEN b ELSE Opaque] :
        b \in {c \in BookingIds : InExclusionDomain(bookings[c]) /\ bookings[c].resource = r}}

ReadAvailability(f) ==
    /\ f.live
    /\ ~f.read
    /\ fetches' = (fetches \ {f}) \cup {[f EXCEPT !.read = TRUE, !.blocks = BusyBlocks(f.view)]}
    /\ UNCHANGED <<bookings, view, generation, shown, selection, pending, created, busy, clicks, gone>>

Arrived(f, blocks) ==
    /\ fetches' = fetches \ {f}
    /\ shown' = [view |-> f.view, generation |-> f.generation, blocks |-> blocks]
    /\ UNCHANGED <<bookings, view, generation, selection, pending, created, busy, clicks, gone>>

\* Fault: a late answer is taken like any other.
LateAnswersCount(f) == (f.live => f.read) /\ Arrived(f, f.blocks)

\* The data, or null after an error.
Arrive(f) ==
    /\ f.live
    /\ f.read
    /\ Arrived(f, f.blocks) \/ Arrived(f, {})

Ignore(f) ==
    /\ ~f.live
    /\ fetches' = fetches \ {f}
    /\ UNCHANGED <<bookings, view, generation, shown, selection, pending, created, busy, clicks, gone>>

-----------------------------------------------------------------------------
(* What the user does.                                                      *)

Displayed == shown.blocks \cup created \cup pending

\* The first block that covers a slot is the one that is clicked.
Manageable == {b \in shown.blocks \cup created :
                  /\ b.id # Opaque
                  /\ b \in shown.blocks \/ \A c \in shown.blocks : ~Overlaps(b.range, c.range)}

Patient == Cardinality(fetches) < MaxFetches

\* The state of the view before is reset; busy is not, and no call is aborted.
Navigate(v) ==
    /\ Patient
    /\ v # view
    /\ view' = v
    /\ fetches' = Refetched(v, generation)
    /\ selection' = Nothing
    /\ pending' = {}
    /\ created' = {}
    /\ UNCHANGED <<bookings, generation, shown, busy, clicks, gone>>

OpenPanel(s) ==
    /\ selection' = s
    /\ UNCHANGED <<bookings, view, generation, fetches, shown, pending, created, busy, clicks, gone>>

ClickSlot(p) ==
    /\ \A b \in Displayed : ~Overlaps(b.range, p)
    /\ OpenPanel([kind |-> "new"])

ClickBlock(b) ==
    /\ b \in Manageable
    /\ OpenPanel([kind |-> "manage", id |-> b.id])

ClosePanel ==
    /\ selection # Nothing
    /\ selection' = Nothing
    /\ UNCHANGED <<bookings, view, generation, fetches, shown, pending, created, busy, clicks, gone>>

\* apiClient.request: the key is made here, once for all attempts.
Call(k, op, target, p) ==
    /\ ~busy
    /\ clicks[k] = NoCall
    /\ \A j \in Clicks : j < k => clicks[j] # NoCall
    /\ busy' = TRUE
    /\ clicks' = [clicks EXCEPT ![k] =
          [pc |-> "sent", op |-> op, target |-> target, range |-> p, retries |-> 0,
           stored |-> "none", answer |-> "none", made |-> {}]]
    /\ UNCHANGED <<bookings, view, generation, fetches, shown, selection, created, gone>>

\* p: what is in the form of the panel, where the user may type any range.
HandleCreate(k, p) ==
    /\ selection.kind = "new"
    /\ Call(k, "create", view, p)
    /\ pending' = {[range |-> p, id |-> Opaque]}

HandleEdit(k, p) ==
    /\ selection.kind = "manage"
    /\ Call(k, "edit", selection.id, p)
    /\ UNCHANGED pending

HandleCancel(k) ==
    /\ selection.kind = "manage"
    /\ Call(k, "cancel", selection.id, NoRange)
    /\ UNCHANGED pending

-----------------------------------------------------------------------------
(* The server (Bookings, Idempotency): a write is made and recorded once    *)
(* for each key, and a recorded response is given again.                    *)

\* The answer, or the one to the commit, may be lost.
Record(k, table, outcome, made) ==
    /\ bookings' = table
    /\ IF clicks[k].pc = "stray" THEN clicks' = [clicks EXCEPT ![k] = Done]
       ELSE \E answer \in {outcome, "unavailable", "lost"} :
               clicks' = [clicks EXCEPT ![k].pc = "answered", ![k].answer = answer,
                                        ![k].stored = outcome, ![k].made = @ \cup made]

Booked(k) ==
    LET c == clicks[k]
    IN  \E b \in FreshIds(bookings) :
           IF Excludes(bookings, BookingIds, c.target, c.range)
           THEN Record(k, [bookings EXCEPT ![b] = NewRow(c.target, Me, c.range, NoSeries, "confirmed", 0)],
                       "ok", {b})
           ELSE Record(k, bookings, "conflict", {})

\* edit_booking writes the row of the id whatever its status is; the constraint
\* is only about the rows of its domain.
Edited(k) ==
    LET c   == clicks[k]
        row == bookings[c.target]
    IN  /\ InTable(row)
        /\ IF InExclusionDomain(row) => Excludes(bookings, BookingIds \ {c.target}, row.resource, c.range)
           THEN Record(k, [bookings EXCEPT ![c.target].range = c.range], "ok", {})
           ELSE Record(k, bookings, "conflict", {})

\* cancel_booking: "cancelling an already-cancelled booking is not an error".
Cancelled(k) ==
    LET b == clicks[k].target
    IN  /\ InTable(bookings[b])
        /\ Record(k, IF bookings[b].status = "confirmed" THEN AfterCancel(bookings, {b}) ELSE bookings,
                  "ok", {})

Serve(k) ==
    /\ clicks[k].pc \in {"sent", "stray"}
    /\ IF clicks[k].stored # "none" THEN Record(k, bookings, clicks[k].stored, {})
       ELSE CASE clicks[k].op = "create" -> Booked(k)
              [] clicks[k].op = "edit"   -> Edited(k)
              [] clicks[k].op = "cancel" -> Cancelled(k)
    /\ UNCHANGED <<pageVars, gone>>

\* Refused, or a 503, before the write (not found, throttled, a form that is
\* not valid); or fetch throws, and the request may still be on its way.
Fail(k) ==
    /\ clicks[k].pc = "sent"
    /\ \E answer \in {"error", "unavailable", "lost"} :
          clicks' = [clicks EXCEPT ![k].pc = "answered", ![k].answer = answer]
    /\ UNCHANGED <<bookings, pageVars, gone>>

-----------------------------------------------------------------------------
(* The answer.                                                              *)

\* Fault: a key for each attempt.
FreshKeyPerAttempt(k) ==
    /\ clicks[k].pc = "answered"
    /\ clicks[k].answer = "unavailable"
    /\ clicks[k].retries < MaxRetries
    /\ clicks' = [clicks EXCEPT ![k].pc = "sent", ![k].answer = "none", ![k].retries = @ + 1,
                                ![k].stored = "none"]
    /\ UNCHANGED <<bookings, pageVars, gone>>

\* service_unavailable: the outcome is unknown; once more with the same key.
Retry(k) ==
    /\ clicks[k].pc = "answered"
    /\ clicks[k].answer = "unavailable"
    /\ clicks[k].retries < MaxRetries
    /\ clicks' = [clicks EXCEPT ![k].pc = "sent", ![k].answer = "none", ![k].retries = @ + 1]
    /\ UNCHANGED <<bookings, pageVars, gone>>

Finish(k) ==
    /\ clicks[k].pc = "answered"
    /\ clicks' = [clicks EXCEPT ![k] = IF clicks[k].answer = "lost" /\ clicks[k].stored = "none"
                                       THEN [@ EXCEPT !.pc = "stray", !.retries = 0] ELSE Done]
    /\ busy' = FALSE
    /\ pending' = IF clicks[k].op = "create" THEN {} ELSE pending
    /\ UNCHANGED <<bookings, view, shown>>

\* Whatever is looked at by now: the new block joins it, the panel closes.
Succeed(k) ==
    /\ Finish(k)
    /\ clicks[k].answer = "ok"
    /\ selection' = Nothing
    /\ IF clicks[k].op = "create"
       THEN /\ created' = created \cup {[range |-> clicks[k].range, id |-> b] : b \in clicks[k].made}
            /\ UNCHANGED <<generation, fetches, gone>>
       ELSE /\ Refetch
            /\ gone' = IF clicks[k].op = "cancel" THEN gone \cup {clicks[k].target} ELSE gone
            /\ UNCHANGED created

ShowConflict(k) ==
    /\ Finish(k)
    /\ clicks[k].answer = "conflict"
    /\ Refetch
    /\ UNCHANGED <<selection, created, gone>>

ShowError(k) ==
    /\ Finish(k)
    /\ \/ clicks[k].answer \in {"error", "lost"}
       \/ clicks[k].answer = "unavailable" /\ clicks[k].retries = MaxRetries
    /\ UNCHANGED <<generation, fetches, selection, created, gone>>

-----------------------------------------------------------------------------
(* Everybody else, and this user elsewhere: in another window, or when an   *)
(* administrator cancels the booking.                                       *)

OtherBooks(u, r, p) ==
    /\ Excludes(bookings, BookingIds, r, p)
    /\ \E b \in FreshIds(bookings) : bookings' = [bookings EXCEPT ![b] = NewRow(r, u, p, NoSeries, "confirmed", 0)]
    /\ UNCHANGED <<pageVars, clicks, gone>>

OtherFrees(b) ==
    /\ InTable(bookings[b])
    /\ bookings[b].status # "cancelled"
    /\ bookings' = AfterRelease(bookings, b)
    /\ UNCHANGED <<pageVars, clicks, gone>>

UserActs ==
    \/ \E v \in Resources : Navigate(v)
    \/ \E s \in Slots : view = s[1] /\ ClickSlot(s[2])
    \/ \E b \in Displayed : ClickBlock(b)
    \/ ClosePanel
    \/ \E k \in Clicks, s \in Slots : view = s[1] /\ (HandleCreate(k, s[2]) \/ HandleEdit(k, s[2]))
    \/ \E k \in Clicks : HandleCancel(k)

\* The fetch the page listens to.
FetchGoesOn == \E f \in fetches : ReadAvailability(f) \/ Arrive(f)

StaleFetch == \E f \in fetches : Ignore(f)

CallGoesOn(k) == Serve(k) \/ Fail(k) \/ Retry(k) \/ Succeed(k) \/ ShowConflict(k) \/ ShowError(k)

CalendarNext ==
    \/ UserActs
    \/ FetchGoesOn
    \/ StaleFetch
    \/ \E k \in Clicks : CallGoesOn(k)
    \/ \E c \in Contested : OtherBooks(c[1], c[2], c[3])
    \/ \E b \in BookingIds : OtherFrees(b)

CalendarPageSpec == CalendarInit /\ [][CalendarNext]_calendarVars

\* A request is answered, or fails, in the end: fetch throws when the
\* connection is gone.
FairCalendarPageSpec == CalendarPageSpec /\ WF_calendarVars(FetchGoesOn)

-----------------------------------------------------------------------------
(* Properties.                                                              *)

\* "Someone booked this a moment ago" is true: when a click on Book ends with
\* slot_unavailable, none of its attempts has made the booking, and no click
\* ever makes two (api/client.ts: one key for all retries).
RefusedIsNotBooked ==
    \A k \in Clicks : clicks[k].pc \notin {"unused", "over"} =>
        /\ Cardinality(clicks[k].made) <= 1
        /\ clicks[k].op = "create" /\ clicks[k].answer = "conflict" => clicks[k].made = {}

\* A booking whose cancellation was confirmed is not among the blocks of the
\* server once the page has stopped loading, whatever was fetched before it and
\* in whatever order it comes in (useAvailability: "freed or moved time
\* reappears/disappears promptly").
CancelledDisappears ==
    ~Loading => \A b \in shown.blocks : b.id \notin gone

\* The calendar of a resource that is looked at loads in the end: no answer to
\* an earlier question takes the place of the one that is waited for.
LoadingEnds ==
    \A v \in Resources : (Loading /\ view = v) ~> (~Loading \/ view # v)
=============================================================================
