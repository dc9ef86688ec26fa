---------------------------- MODULE BookingPages ----------------------------
(***************************************************************************)
(* GET /bookings (bookings/views.py, core/pagination.py): a client reads a *)
(* list page by page while the booking services of BookingRequests write.  *)
(* The server keeps nothing between two pages; the cursor that the client  *)
(* brings back is the sort key of the last row of the page before.  Every  *)
(* page is one query, with the clock of its own moment.  Who may list the  *)
(* bookings of a resource is a matter of Gateway's module of checks.       *)
(***************************************************************************)
EXTENDS BookingRequests

CONSTANTS Rank,      \* the order of the ids, random UUIDs, not that of creation
          Asked,     \* bound: the lists that clients ask for
          PageSizes  \* bound: the limits that they ask for

ASSUME PagesAssumption ==
    /\ Rank \in [BookingIds -> Nat]
    /\ \A a, b \in BookingIds : Rank[a] = Rank[b] => a = b
    /\ Asked \subseteq [of : Users \cup Resources, status : {"confirmed", "cancelled", "any"},
                        time : {"upcoming", "past", "all"}]
    /\ PageSizes \subseteq Nat \ {0}

VARIABLES filter,  \* what the list is asked for
          cursor,  \* the cursor of the next page; none before the first
          pages,   \* whether there are more pages
          shown,   \* on how many pages each row was
          steady   \* history: the rows that were in the list ever since its
                   \* first page, where they were

pageVars  == <<filter, cursor, pages, shown, steady>>
listVars  == <<requestVars, pageVars>>

NoFilter == [time |-> "none"]
NoCursor == <<>>
Keys     == (0..Horizon) \X Nat

PagesTypeOK ==
    /\ filter \in Asked \cup {NoFilter}
    /\ cursor \in Keys \cup {NoCursor}
    /\ pages \in {"unread", "more", "all"}
    /\ shown \in [BookingIds -> Nat]
    /\ steady \subseteq BookingIds

PagesInit ==
    /\ RequestInit
    /\ filter = NoFilter
    /\ cursor = NoCursor
    /\ pages = "unread"
    /\ shown = [b \in BookingIds |-> 0]
    /\ steady = {}

-----------------------------------------------------------------------------
(* The query of a page.                                                     *)

\* Holds are not bookings; the list of a user or, for who administers it, of a
\* resource.
Listed(f, b) ==
    /\ bookings[b].status \in {"confirmed", "cancelled"}
    /\ f.of \in {bookings[b].user, bookings[b].resource}
    /\ f.status \in {"any", bookings[b].status}
    /\ f.time = "upcoming" => bookings[b].range[1] >= now
    /\ f.time = "past" => bookings[b].range[1] < now

Key(b) == <<bookings[b].range[1], Rank[b]>>

\* order_by: the past is listed backwards, but for the ids.
Precedes(f, k, l) ==
    \/ k[1] < l[1] /\ f.time # "past"
    \/ k[1] > l[1] /\ f.time = "past"
    \/ k[1] = l[1] /\ k[2] < l[2]

\* Fault: a cursor that is the start alone.
StartsAfter(f, c, k) ==
    \/ c = NoCursor
    \/ k[1] > c[1] /\ f.time # "past"
    \/ k[1] < c[1] /\ f.time = "past"

\* The rows after the cursor that the client has brought.
AfterCursor(f, c, k) ==
    \/ c = NoCursor
    \/ k[1] > c[1] /\ f.time # "past"
    \/ k[1] < c[1] /\ f.time = "past"
    \/ k[1] = c[1] /\ k[2] > c[2]

Rest(f, c) == {b \in BookingIds : Listed(f, b) /\ AfterCursor(f, c, Key(b))}

LastOf(f, page) == {b \in page : \A c \in page \ {b} : Precedes(f, Key(c), Key(b))}

\* limit + 1 rows are fetched: one too many means that there is another page.
Page(f, c, limit) ==
    \E page \in SUBSET Rest(f, c) :
       /\ \A b \in page, d \in Rest(f, c) \ page : Precedes(f, Key(b), Key(d))
       /\ \/ /\ Cardinality(Rest(f, c)) <= limit
             /\ page = Rest(f, c)
             /\ pages' = "all"
             /\ cursor' = NoCursor
          \/ /\ Cardinality(Rest(f, c)) > limit
             /\ Cardinality(page) = limit
             /\ pages' = "more"
             /\ \E last \in LastOf(f, page) : cursor' = Key(last)
       /\ shown' = [b \in BookingIds |-> IF b \in page THEN shown[b] + 1 ELSE shown[b]]

FirstPage(f, limit) ==
    /\ pages = "unread"
    /\ filter' = f
    /\ Page(f, NoCursor, limit)
    /\ steady' = {b \in BookingIds : Listed(f, b)}
    /\ UNCHANGED requestVars

NextPage(limit) ==
    /\ pages = "more"
    /\ Page(filter, cursor, limit)
    /\ UNCHANGED <<requestVars, filter, steady>>

\* Anybody writes, or time passes, between two pages.  Bound: nothing more
\* happens once a client has the last page of a list.
Write ==
    /\ RequestNext
    /\ pages # "all"
    /\ UNCHANGED <<filter, cursor, pages, shown>>
    /\ steady' = {b \in steady : Listed(filter, b)' /\ Key(b)' = Key(b)}

PagesNext ==
    \/ \E f \in Asked, limit \in PageSizes : FirstPage(f, limit)
    \/ \E limit \in PageSizes : NextPage(limit)
    \/ Write

PagesSpec == PagesInit /\ [][PagesNext]_listVars

-----------------------------------------------------------------------------
(* Properties.                                                              *)

\* The promise of core/pagination.py: however the list is written meanwhile, a
\* booking that was in it all along, where it was, is on exactly one page.
EachRowOnce ==
    \A b \in steady : /\ shown[b] <= 1
                      /\ pages = "all" => shown[b] = 1
=============================================================================
