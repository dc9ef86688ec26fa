------------------------------ MODULE Gateway ------------------------------
(***************************************************************************)
(* What a request passes before it changes anything, and the changes that  *)
(* decide what later requests may do.  A process takes a request through   *)
(* authentication (identity/authentication.py, identity/oidc.py), the      *)
(* throttles of booking creation (RateLimit), the checks of its view       *)
(* (identity/authorization.py, resources/views.py, bookings/views.py) and  *)
(* its write (resources/services.py and the booking services); other       *)
(* requests take their steps in between.                                   *)
(*                                                                         *)
(* Of a resource: its administrators, its opening and closing hour, its    *)
(* status, its first booking and the first entry of its waitlist (Bookings *)
(* and Waitlist have the tables, Offboarding the rest of a deactivation).  *)
(* A booking is asked for one hour; the other rules about its time are not *)
(* modelled.  Platform roles and the members of groups are not changed     *)
(* through the API.                                                        *)
(***************************************************************************)
EXTENDS RateLimit, Sequences

CONSTANTS Users,
          Resources,
          Founded,      \* resources that were there before the API could create one
          Asks,         \* bound: the requests that are made
          SystemAdmins, \* users with the platform role system_admin
          Operators,    \* users with the platform role operations
          Restricted,   \* resources with a restricted_group
          Members,      \* the members of that group, of every resource
          Throttles,    \* the buckets of a user's bookings: the user's, their address's
          SessionTTL,   \* KAIROS_SESSION_TOKEN_TTL_SECONDS
          MaxHour,      \* bound: hours of a day
          Nobody,       \* the user of a row that is not made
          NoArg         \* a request without a further argument

Hours == 0..MaxHour

Roles == {"create", "open", "close", "retire", "grant", "revoke", "cancel", "book",
          "join", "leave", "deactivate"}

ASSUME GatewayAssumption ==
    /\ Asks \subseteq [op : Roles, user : Users, resource : Resources, arg : Users \cup Hours \cup {NoArg}]
    /\ \A ask \in Asks :
          /\ ask.op \in {"grant", "revoke", "deactivate"} => ask.arg \in Users
          /\ ask.op \in {"open", "close", "book"} => ask.arg \in Hours
    /\ Nobody \notin Users
    /\ SystemAdmins \cup Operators \subseteq Users
    /\ Restricted \cup Founded \subseteq Resources
    /\ Members \in [Resources -> SUBSET Users]
    /\ Throttles \in [Users -> Seq(Keys)]
    /\ SessionTTL \in Nat
    /\ MaxHour \in Nat \ {0}

VARIABLES users,     \* app_user.status; "unknown" before the first login
          sessions,  \* when the session token of a user expires
          grants,    \* resource_admin
          resources, \* the rows of resources
          bookings,  \* the first booking of each resource
          waiting,   \* the first waitlist_entry of each resource
          jobs       \* the request of each process

gatewayVars == <<users, sessions, grants, resources, bookings, waiting, jobs, rateVars>>
tables == <<users, sessions, grants, resources, bookings, waiting>>

NoJob == [pc |-> "idle"]
NoResource == [status |-> "absent", opens |-> 0, closes |-> 0]
NewResource == [status |-> "active", opens |-> 0, closes |-> MaxHour]
NoBooking == [user |-> Nobody, status |-> "none"]
NoEntry   == [user |-> Nobody, status |-> "none"]

\* valid, entitled: history; the session was valid when the request arrived,
\* the user had the right to what they ask at some moment since.
Jobs == [pc : {"arrived", "throttling", "checked"}, ask : Asks, throttles : Seq(Keys),
         expires : 0..(MaxTime + SessionTTL), refused : BOOLEAN, valid : BOOLEAN, entitled : BOOLEAN]

GatewayTypeOK ==
    /\ RateTypeOK
    /\ users \in [Users -> {"unknown", "active", "deactivated"}]
    /\ sessions \in [Users -> 0..(MaxTime + SessionTTL)]
    /\ grants \subseteq Resources \X Users
    /\ resources \in [Resources -> {NoResource} \cup [status : {"active", "inactive"},
                                                      opens : Hours, closes : Hours]]
    /\ \A r \in Resources : resources[r] # NoResource => resources[r].opens < resources[r].closes
    /\ bookings \in [Resources -> {NoBooking} \cup [user : Users, status : {"confirmed", "cancelled"}]]
    /\ waiting \in [Resources -> {NoEntry} \cup [user : Users, status : {"waiting", "cancelled"}]]
    /\ jobs \in [Workers -> Jobs \cup {NoJob}]

GatewayInit ==
    /\ RateInit
    /\ users = [u \in Users |-> IF u \in SystemAdmins THEN "active" ELSE "unknown"]
    /\ sessions = [u \in Users |-> 0]
    /\ grants = {}
    /\ resources = [r \in Resources |-> IF r \in Founded THEN NewResource ELSE NoResource]
    /\ bookings = [r \in Resources |-> NoBooking]
    /\ waiting = [r \in Resources |-> NoEntry]
    /\ jobs = [w \in Workers |-> NoJob]

-----------------------------------------------------------------------------
(* AuthorizationService.                                                    *)

\* Fault: a grant for any resource counts.
AdministersAny(u, r) == u \in SystemAdmins \/ \E other \in Resources : <<other, u>> \in grants

CanAdminister(u, r) == u \in SystemAdmins \/ <<r, u>> \in grants

CanView(u, r) ==
    \/ r \notin Restricted
    \/ CanAdminister(u, r)
    \/ u \in Operators
    \/ u \in Members[r]

\* What the PRD gives to whom: FR44 and FR45 (administration), FR46 (restricted
\* resources, their waitlists included), FR47 (cancelling for somebody else).
Rightful(ask) ==
    LET inCharge == SystemAdmins \cup {u \in Users : <<ask.resource, u>> \in grants}
    IN  CASE ask.op \in {"create", "deactivate"} -> ask.user \in SystemAdmins
          [] ask.op = "cancel" -> ask.user \in inCharge \cup {bookings[ask.resource].user}
          [] ask.op = "leave" -> ask.user = waiting[ask.resource].user
          [] ask.op \in {"book", "join"} ->
                \/ ask.resource \notin Restricted
                \/ ask.user \in inCharge \cup Operators \cup Members[ask.resource]
          [] OTHER -> ask.user \in inCharge

\* Every request at work that has the right now has had it since it arrived.
Noted(j) ==
    [w \in Workers |-> IF j[w] = NoJob THEN NoJob
                       ELSE [j[w] EXCEPT !.entitled = @ \/ \E ask \in Asks : ask = j[w].ask /\ Rightful(ask)']]

-----------------------------------------------------------------------------
(* Login and authentication.                                                *)

\* The user is created on the first login.
Provisioned(u) == IF users[u] = "unknown" THEN [users EXCEPT ![u] = "active"] ELSE users

\* A session token is valid for SessionTTL from now.
IssuedUntil == now + SessionTTL

SessionIsValid(expires) == now < expires

\* POST /auth/token with a verified ID token: a user of any status gets a
\* session token.
TokenExchange(u) ==
    /\ users' = Provisioned(u)
    /\ sessions' = [sessions EXCEPT ![u] = IssuedUntil]
    /\ UNCHANGED <<grants, resources, bookings, waiting, jobs, rateVars>>

\* A request brings a token of its user, with its expiry.
Arrive(w, ask) ==
    /\ jobs[w] = NoJob
    /\ sessions[ask.user] > 0
    /\ jobs' = [jobs EXCEPT ![w] = [pc |-> "arrived", ask |-> ask, throttles |-> <<>>,
                                    expires |-> sessions[ask.user], refused |-> FALSE,
                                    valid |-> /\ SessionIsValid(sessions[ask.user])
                                              /\ users[ask.user] = "active",
                                    entitled |-> Rightful(ask)]]
    /\ UNCHANGED <<tables, rateVars>>

End(w) == jobs' = [jobs EXCEPT ![w] = NoJob]

\* OIDCSessionAuthentication; the token is not looked at again.  Only the
\* creation of bookings has throttles.
Authenticate(w) ==
    /\ jobs[w].pc = "arrived"
    /\ IF SessionIsValid(jobs[w].expires) /\ users[jobs[w].ask.user] = "active"
       THEN jobs' = [jobs EXCEPT ![w].pc = "throttling",
                                 ![w].expires = 0,
                                 ![w].throttles = IF jobs[w].ask.op = "book"
                                                  THEN Throttles[jobs[w].ask.user] ELSE <<>>]
       ELSE End(w)
    /\ UNCHANGED <<tables, rateVars>>

-----------------------------------------------------------------------------
(* Throttles: every one is asked, also after one has refused.               *)

Asking(w) == jobs[w].pc = "throttling" /\ jobs[w].throttles # <<>>

StartThrottle(w) ==
    /\ Asking(w)
    /\ ReadClock(w, Head(jobs[w].throttles))
    /\ UNCHANGED <<tables, jobs>>

NextThrottle(w, refused) ==
    jobs' = [jobs EXCEPT ![w].throttles = Tail(@), ![w].refused = @ \/ refused]

\* The answer of Redis may be lost after the script has run.
AskRedis(w) ==
    /\ Asking(w)
    /\ RunScript(w)
    /\ \/ NextThrottle(w, ~Allows(stamps[w].key, stamps[w].at))
       \/ NextThrottle(w, FALSE)
    /\ UNCHANGED tables

RedisFails(w) ==
    /\ Asking(w)
    /\ FailOpen(w)
    /\ NextThrottle(w, FALSE)
    /\ UNCHANGED tables

Throttled(w) ==
    /\ jobs[w].pc = "throttling"
    /\ jobs[w].throttles = <<>>
    /\ jobs[w].refused
    /\ End(w)
    /\ UNCHANGED <<tables, rateVars>>

-----------------------------------------------------------------------------
(* The view, before its write: what it looks up, whom it lets pass.         *)

Exists(r) == resources[r] # NoResource

\* A changed hour is validated with the other hour of the row that was read.
ValidHours(opens, closes) == opens < closes

MayCreateResource(ask) == ask.user \in SystemAdmins

MayUpdateResource(ask) ==
    LET row == resources[ask.resource]
    IN  /\ Exists(ask.resource)
        /\ CanAdminister(ask.user, ask.resource)
        /\ ask.op = "open"  => ValidHours(ask.arg, row.closes)
        /\ ask.op = "close" => ValidHours(row.opens, ask.arg)

MayGrant(ask) ==
    /\ Exists(ask.resource)
    /\ CanAdminister(ask.user, ask.resource)
    /\ users[ask.arg] # "unknown"

MayRevoke(ask) == Exists(ask.resource) /\ CanAdminister(ask.user, ask.resource)

\* An inactive resource and a restricted one are answered as an absent one.
MayUse(u, r) == resources[r].status = "active" /\ CanView(u, r)

InBookableHours(hour, r) == resources[r].opens <= hour /\ hour < resources[r].closes

MayBook(ask) == MayUse(ask.user, ask.resource) /\ InBookableHours(ask.arg, ask.resource)

\* Nobody waits for a slot that is free.
MayJoin(ask) == MayUse(ask.user, ask.resource) /\ bookings[ask.resource].status = "confirmed"

MayCancel(ask) ==
    /\ bookings[ask.resource] # NoBooking
    /\ \/ bookings[ask.resource].user = ask.user
       \/ CanAdminister(ask.user, ask.resource)

\* The owner alone: an administrator is answered 404.
MayLeave(ask) == waiting[ask.resource] # NoEntry /\ waiting[ask.resource].user = ask.user

MayDeactivate(ask) == ask.user \in SystemAdmins

Passes(ask) ==
    CASE ask.op = "create" -> MayCreateResource(ask)
      [] ask.op \in {"open", "close", "retire"} -> MayUpdateResource(ask)
      [] ask.op = "grant"  -> MayGrant(ask)
      [] ask.op = "revoke" -> MayRevoke(ask)
      [] ask.op = "book"   -> MayBook(ask)
      [] ask.op = "cancel" -> MayCancel(ask)
      [] ask.op = "join"   -> MayJoin(ask)
      [] ask.op = "leave"  -> MayLeave(ask)
      [] OTHER             -> MayDeactivate(ask)

Check(w) ==
    /\ jobs[w].pc = "throttling"
    /\ jobs[w].throttles = <<>>
    /\ ~jobs[w].refused
    /\ IF Passes(jobs[w].ask) THEN jobs' = [jobs EXCEPT ![w].pc = "checked"] ELSE End(w)
    /\ UNCHANGED <<tables, rateVars>>

-----------------------------------------------------------------------------
(* The write of a request that was let pass.                                *)

Writes(w, op) == jobs[w].pc = "checked" /\ jobs[w].ask.op = op

\* What the write has changed may give others at work the right they ask for.
Answered(w) == jobs' = Noted([jobs EXCEPT ![w] = NoJob])

CreateResource(w) ==
    LET r == jobs[w].ask.resource
    IN  /\ Writes(w, "create")
        /\ ~Exists(r)
        /\ resources' = [resources EXCEPT ![r] = NewResource]
        /\ UNCHANGED <<users, sessions, grants, bookings, waiting, rateVars>>
        /\ Answered(w)

Changed(ask) ==
    LET row == resources[ask.resource]
    IN  CASE ask.op = "open"  -> [row EXCEPT !.opens = ask.arg]
          [] ask.op = "close" -> [row EXCEPT !.closes = ask.arg]
          [] OTHER            -> [row EXCEPT !.status = "inactive"]

\* Fault: without the CHECK constraint bookable_window_valid.
UpdateUnchecked(w) ==
    LET ask == jobs[w].ask
    IN  /\ jobs[w].pc = "checked"
        /\ ask.op \in {"open", "close", "retire"}
        /\ resources' = [resources EXCEPT ![ask.resource] = Changed(ask)]
        /\ UNCHANGED <<users, sessions, grants, bookings, waiting, rateVars>>
        /\ Answered(w)

\* Only the fields that were sent are written; when another change has come in
\* between, the CHECK constraint bookable_window_valid may refuse it.
UpdateResource(w) ==
    LET ask == jobs[w].ask
        row == Changed(ask)
    IN  /\ jobs[w].pc = "checked"
        /\ ask.op \in {"open", "close", "retire"}
        /\ resources' = IF row.opens < row.closes
                        THEN [resources EXCEPT ![ask.resource] = row] ELSE resources
        /\ UNCHANGED <<users, sessions, grants, bookings, waiting, rateVars>>
        /\ Answered(w)

\* resource_admin_unique_grant refuses a second grant.
GrantResourceAdmin(w) ==
    /\ Writes(w, "grant")
    /\ grants' = grants \cup {<<jobs[w].ask.resource, jobs[w].ask.arg>>}
    /\ UNCHANGED <<users, sessions, resources, bookings, waiting, rateVars>>
    /\ Answered(w)

\* 404 when there is none.
RevokeResourceAdmin(w) ==
    /\ Writes(w, "revoke")
    /\ grants' = grants \ {<<jobs[w].ask.resource, jobs[w].ask.arg>>}
    /\ UNCHANGED <<users, sessions, resources, bookings, waiting, rateVars>>
    /\ Answered(w)

\* The exclusion constraint; the row of the resource is not looked at again.
\* Bound: one booking of each resource.
Book(w) ==
    LET ask == jobs[w].ask
    IN  /\ Writes(w, "book")
        /\ bookings' = IF bookings[ask.resource] = NoBooking
                       THEN [bookings EXCEPT ![ask.resource] = [user |-> ask.user, status |-> "confirmed"]]
                       ELSE bookings
        /\ UNCHANGED <<users, sessions, grants, resources, waiting, rateVars>>
        /\ Answered(w)

Cancel(w) ==
    /\ Writes(w, "cancel")
    /\ bookings' = [bookings EXCEPT ![jobs[w].ask.resource].status = "cancelled"]
    /\ UNCHANGED <<users, sessions, grants, resources, waiting, rateVars>>
    /\ Answered(w)

\* The slot is not looked at again, nor whether the booking is still there.
\* Bound: one entry of each resource.
Join(w) ==
    LET ask == jobs[w].ask
    IN  /\ Writes(w, "join")
        /\ waiting' = IF waiting[ask.resource] = NoEntry
                      THEN [waiting EXCEPT ![ask.resource] = [user |-> ask.user, status |-> "waiting"]]
                      ELSE waiting
        /\ UNCHANGED <<users, sessions, grants, resources, bookings, rateVars>>
        /\ Answered(w)

Leave(w) ==
    /\ Writes(w, "leave")
    /\ waiting' = [waiting EXCEPT ![jobs[w].ask.resource].status = "cancelled"]
    /\ UNCHANGED <<users, sessions, grants, resources, bookings, rateVars>>
    /\ Answered(w)

Withdrawn(u) ==
    [r \in Resources |-> IF waiting[r].user = u THEN [waiting[r] EXCEPT !.status = "cancelled"]
                         ELSE waiting[r]]

\* The guarded flip, and the withdrawal of what the user waits for; grants and
\* the session token stay.
Deactivate(w) ==
    LET u == jobs[w].ask.arg
    IN  /\ Writes(w, "deactivate")
        /\ \/ /\ users[u] = "active"
              /\ users' = [users EXCEPT ![u] = "deactivated"]
              /\ waiting' = Withdrawn(u)
           \/ /\ users[u] # "active"
              /\ UNCHANGED <<users, waiting>>
        /\ UNCHANGED <<sessions, grants, resources, bookings, rateVars>>
        /\ Answered(w)

Tick == RateTick /\ UNCHANGED <<tables, jobs>>

Handle(w) ==
    \/ Authenticate(w)
    \/ StartThrottle(w)
    \/ AskRedis(w)
    \/ RedisFails(w)
    \/ Throttled(w)
    \/ Check(w)
    \/ CreateResource(w)
    \/ UpdateResource(w)
    \/ GrantResourceAdmin(w)
    \/ RevokeResourceAdmin(w)
    \/ Book(w)
    \/ Cancel(w)
    \/ Join(w)
    \/ Leave(w)
    \/ Deactivate(w)

GatewayNext ==
    \/ \E u \in Users : TokenExchange(u)
    \/ \E w \in Workers, ask \in Asks : Arrive(w, ask)
    \/ \E w \in Workers : Handle(w)
    \/ Tick

GatewaySpec == GatewayInit /\ [][GatewayNext]_gatewayVars

-----------------------------------------------------------------------------
(* Properties.                                                              *)

\* Whatever is revoked, deactivated or expired before a request arrives has no
\* effect through it (test plan OFF-02, PRD FR45): a request that is let pass
\* came with a valid session of an active user, who had the right to what it
\* asks, for this very resource, at some moment since.
HandledWithAuthority ==
    \A w \in Workers : jobs[w].pc = "checked" => jobs[w].valid /\ jobs[w].entitled
=============================================================================
