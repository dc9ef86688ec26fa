--------------------------- MODULE Gateway_proofs ---------------------------
(***************************************************************************)
(* Proofs about RateLimit and Gateway for every value of their constants:  *)
(* any number of processes, users, resources and buckets, any capacity,    *)
(* any window, and a clock that runs as long as one likes.                 *)
(***************************************************************************)
EXTENDS Gateway, TLAPS

-----------------------------------------------------------------------------
(* Products.                                                                *)

LEMMA Distributes ==
    ASSUME NEW c \in Nat, NEW a \in Int, NEW b \in Int
    PROVE  c * (a + b) = c * a + c * b
BY SMT

LEMMA ProductIsNat ==
    ASSUME NEW c \in Nat, NEW a \in Nat
    PROVE  c * a \in Nat
BY SMT

LEMMA ProductGrows ==
    ASSUME NEW c \in Nat, NEW a \in Nat, NEW b \in Nat, a <= b
    PROVE  c * a <= c * b
<1>1. c * b = c * a + c * (b - a)
  BY Distributes
<1>2. c * (b - a) \in Nat /\ c * a \in Nat /\ c * b \in Nat
  BY ProductIsNat
<1> QED
  BY <1>1, <1>2

-----------------------------------------------------------------------------
(* RateLimit: types.                                                        *)

LEMMA FullIsNat ==
    ASSUME RateAssumption, NEW k \in Keys
    PROVE  Full(k) \in Nat /\ Window <= Full(k)
<1>1. Capacity[k] \in Nat \ {0} /\ Window \in Nat \ {0}
  BY DEF RateAssumption
<1>2. Window * 1 <= Window * Capacity[k]
  BY <1>1, ProductGrows
<1> QED
  BY <1>1, <1>2, ProductIsNat DEF Full

\* What the script finds in the bucket is no more than its capacity.
LEMMA RefilledType ==
    ASSUME RateAssumption, RateTypeOK, NEW k \in Keys, NEW at \in Times
    PROVE  Refilled(k, at) \in Nat /\ Refilled(k, at) <= Full(k)
<1> DEFINE idle == IF at < buckets[k].last THEN 0 ELSE at - buckets[k].last
           gained == Capacity[k] * idle
<1>1. buckets[k].tokens \in Nat /\ buckets[k].last \in Nat /\ at \in Nat
  BY DEF RateTypeOK, Times
<1>2. idle \in Nat
  BY <1>1
<1>3. gained \in Nat
  <2>1. Capacity[k] \in Nat
    BY DEF RateAssumption
  <2> QED
    BY <2>1, <1>2, ProductIsNat
<1>4. Refilled(k, at) = IF ~Live(k) THEN Full(k) ELSE Least(Full(k), buckets[k].tokens + gained)
  BY DEF Refilled
<1> HIDE DEF gained
<1> QED
  BY <1>1, <1>3, <1>4, FullIsNat DEF Least

LEMMA CostType ==
    ASSUME RateAssumption, RateTypeOK, NEW k \in Keys, NEW at \in Times
    PROVE  /\ Cost(k, at) \in Nat
           /\ Cost(k, at) <= Refilled(k, at)
BY RefilledType DEF Cost, Allows, RateAssumption

LEMMA AfterCheckType ==
    ASSUME RateAssumption, RateTypeOK, NEW k \in Keys, NEW at \in Times
    PROVE  /\ AfterCheck(k, at) \in [tokens : Nat, last : Times, expires : 0..(MaxTime + 2 * Window)]
           /\ AfterCheck(k, at).tokens = Refilled(k, at) - Cost(k, at)
           /\ AfterCheck(k, at).tokens <= Full(k)
           /\ AfterCheck(k, at).last = at
           /\ AfterCheck(k, at).expires = now + 2 * Window
<1>1. Expiry \in 0..(MaxTime + 2 * Window)
  BY DEF Expiry, RateTypeOK, Times, RateAssumption
<1>2. Refilled(k, at) - Cost(k, at) \in Nat /\ Refilled(k, at) - Cost(k, at) <= Full(k)
  BY RefilledType, CostType, FullIsNat
<1> QED
  BY <1>1, <1>2 DEF AfterCheck, Expiry

LEMMA StampType ==
    ASSUME RateTypeOK, NEW w \in Workers, stamps[w] # NoStamp
    PROVE  stamps[w].key \in Keys /\ stamps[w].at \in Times
BY DEF RateTypeOK

WatchType == [base : Times, last : Times, spent : Nat, back : Nat]

LEMMA ContinuedType ==
    ASSUME RateAssumption, RateTypeOK, NEW at \in Times
    PROVE  Continued(Watched, at) \in WatchType /\ Restarted(Watched, at) \in WatchType
<1>1. watch \in WatchType /\ Cost(Watched, at) \in Nat
  BY CostType DEF RateTypeOK, WatchType, RateAssumption
<1>2. (IF at < watch.last THEN watch.last - at ELSE 0) \in Nat
  BY <1>1 DEF WatchType, Times, RateAssumption
<1> QED
  BY <1>1, <1>2 DEF Continued, Restarted, WatchType

LEMMA RateTypeStep ==
    ASSUME RateAssumption, RateTypeOK, [RateNext]_rateVars
    PROVE  RateTypeOK'
<1>1. ASSUME NEW w \in Workers, NEW k \in Keys, ReadClock(w, k)
      PROVE  RateTypeOK'
  BY <1>1 DEF ReadClock, RateTypeOK
<1>2. ASSUME NEW w \in Workers, RunScript(w)
      PROVE  RateTypeOK'
  <2> DEFINE k == stamps[w].key
             at == stamps[w].at
  <2>1. k \in Keys /\ at \in Times
    BY <1>2, StampType DEF RunScript
  <2>2. /\ buckets' = [buckets EXCEPT ![k] = AfterCheck(k, at)]
        /\ Observe(k, at)
        /\ stamps' = [stamps EXCEPT ![w] = NoStamp]
        /\ now' = now
    BY <1>2 DEF RunScript
  <2> HIDE DEF k, at
  <2>3. /\ buckets' \in [Keys -> [tokens : Nat, last : Times, expires : 0..(MaxTime + 2 * Window)]]
        /\ \A j \in Keys : buckets'[j].tokens <= Full(j)
    BY <2>1, <2>2, AfterCheckType DEF RateTypeOK
  <2>4. watch' \in WatchType
    BY <2>1, <2>2, ContinuedType DEF Observe, RateTypeOK, WatchType
  <2> QED
    BY <2>2, <2>3, <2>4 DEF RateTypeOK, WatchType, Full
<1>3. ASSUME NEW w \in Workers, FailOpen(w)
      PROVE  RateTypeOK'
  BY <1>3 DEF FailOpen, RateTypeOK
<1>4. CASE RateTick
  BY <1>4 DEF RateTick, RateTypeOK, Times, RateAssumption
<1>5. CASE UNCHANGED rateVars
  BY <1>5 DEF rateVars, RateTypeOK
<1> QED
  BY <1>1, <1>2, <1>3, <1>4, <1>5 DEF RateNext

LEMMA RateTypeInit ==
    ASSUME RateAssumption, RateInit
    PROVE  RateTypeOK
BY FullIsNat DEF RateInit, RateTypeOK, NoBucket, Times, RateAssumption

\* A bucket holds no more than its capacity, and the clocks, expiries and
\* counts have their types.
THEOREM RateTypeCorrect == RateSpec => []RateTypeOK
<1> USE RateAssumption
<1>1. RateInit => RateTypeOK
  BY RateTypeInit
<1>2. RateTypeOK /\ [RateNext]_rateVars => RateTypeOK'
  BY RateTypeStep
<1> QED
  BY <1>1, <1>2, PTL DEF RateSpec

-----------------------------------------------------------------------------
(* RateLimit: what a bucket grants.                                         *)

Budget(base, last, back) == Full(Watched) + Capacity[Watched] * (last - base + back)

\* No process has read a time that is still to come; what the watched bucket
\* has granted and what it still holds stay within the budget; once it has been
\* checked it is kept for two windows after the time of its last check.
RateInv ==
    /\ RateTypeOK
    /\ \A w \in Workers : stamps[w] # NoStamp => stamps[w].at <= now
    /\ buckets[Watched].last = watch.last
    /\ watch.base <= watch.last + watch.back
    /\ watch.spent + buckets[Watched].tokens <= Budget(watch.base, watch.last, watch.back)
    /\ \/ watch.spent = 0
       \/ buckets[Watched].expires >= watch.last + 2 * Window

LEMMA RateInvInit ==
    ASSUME RateAssumption, RateInit
    PROVE  RateInv
<1>1. RateTypeOK
  BY RateTypeInit
<1>2. Full(Watched) \in Nat
  BY FullIsNat DEF RateAssumption
<1>3. Capacity[Watched] * 0 = 0
  BY DEF RateAssumption
<1>4. Budget(0, 0, 0) = Full(Watched)
  BY <1>2, <1>3 DEF Budget
<1> QED
  BY <1>1, <1>2, <1>4 DEF RateInv, RateInit, NoBucket, RateAssumption

\* The history ends within the budget when it goes on with a check.
LEMMA ContinuedWithinBudget ==
    ASSUME RateAssumption, RateInv, NEW at \in Times, at <= now, now <= at + Delay
    PROVE  LET next == Continued(Watched, at)
           IN  /\ next.base <= next.last + next.back
               /\ next.spent + AfterCheck(Watched, at).tokens
                     <= Budget(next.base, next.last, next.back)
<1> DEFINE c == Capacity[Watched]
           full == Full(Watched)
           cost == Cost(Watched, at)
           found == Refilled(Watched, at)
           held == buckets[Watched].tokens
           idle == IF at < watch.last THEN 0 ELSE at - watch.last
           back == IF at < watch.last THEN watch.last - at ELSE 0
           sofar == watch.last - watch.base + watch.back
<1>1. /\ c \in Nat \ {0} /\ Window \in Nat \ {0} /\ Delay \in 0..Window
      /\ full = c * Window /\ full \in Nat
  BY FullIsNat DEF RateAssumption, Full
<1>2. /\ watch.base \in Nat /\ watch.last \in Nat /\ watch.spent \in Nat /\ watch.back \in Nat
      /\ held \in Nat /\ at \in Nat /\ now \in Nat /\ buckets[Watched].expires \in Nat
      /\ buckets[Watched].last = watch.last
  BY DEF RateInv, RateTypeOK, Times, RateAssumption
<1>3. idle \in Nat /\ back \in Nat /\ sofar \in Nat
  BY <1>2 DEF RateInv
<1>4. watch.spent + held <= full + c * sofar
  BY DEF RateInv, Budget
<1>5. found \in Nat /\ cost \in Nat /\ cost <= found /\ AfterCheck(Watched, at).tokens = found - cost
  BY RefilledType, CostType, AfterCheckType DEF RateInv, RateAssumption
<1>6. /\ Continued(Watched, at).base = watch.base
      /\ Continued(Watched, at).last = at
      /\ Continued(Watched, at).spent = watch.spent + cost
      /\ Continued(Watched, at).back = watch.back + back
  BY DEF Continued
<1>7. at - watch.base + (watch.back + back) = sofar + idle
  BY <1>2
<1>8. c * (sofar + idle) = c * sofar + c * idle
  BY <1>1, <1>3, Distributes
<1>9. c * sofar \in Nat /\ c * idle \in Nat
  BY <1>1, <1>3, ProductIsNat
<1>10. watch.spent + found <= full + (c * sofar + c * idle)
  <2>1. CASE Live(Watched)
    <3>1. found = Least(full, held + c * idle)
      BY <2>1, <1>2 DEF Refilled
    <3>2. found <= held + c * idle
      BY <3>1, <1>1, <1>2, <1>9 DEF Least
    <3> HIDE DEF c, full, found, held, idle, sofar
    <3> QED
      BY <3>2, <1>1, <1>2, <1>4, <1>5, <1>9
  <2>2. CASE ~Live(Watched)
    <3>1. found = full
      BY <2>2 DEF Refilled
    <3>2. CASE watch.spent = 0
      BY <3>1, <3>2, <1>1, <1>9
    <3>3. CASE buckets[Watched].expires >= watch.last + 2 * Window
      <4>1. idle >= Window
        BY <2>2, <3>3, <1>1, <1>2 DEF Live
      <4>2. c * Window <= c * idle
        BY <4>1, <1>1, <1>3, ProductGrows
      <4> HIDE DEF c, full, found, held, idle, sofar
      <4> QED
        BY <4>2, <3>1, <1>1, <1>2, <1>4, <1>9
    <3> QED
      BY <3>2, <3>3 DEF RateInv
  <2> QED
    BY <2>1, <2>2
<1>11. Budget(watch.base, at, watch.back + back) = full + (c * sofar + c * idle)
  BY <1>7, <1>8 DEF Budget
<1>12. watch.base <= at + (watch.back + back)
  BY <1>2, <1>3, <1>7
<1> HIDE DEF c, full, found, held, idle, sofar, cost, back
<1>13. watch.spent + cost + (found - cost) <= full + (c * sofar + c * idle)
  BY <1>2, <1>5, <1>10
<1> QED
  BY <1>5, <1>6, <1>11, <1>12, <1>13

\* A history that begins with a check begins within the budget.
LEMMA RestartedWithinBudget ==
    ASSUME RateAssumption, RateInv, NEW at \in Times
    PROVE  LET next == Restarted(Watched, at)
           IN  /\ next.base <= next.last + next.back
               /\ next.spent + AfterCheck(Watched, at).tokens
                     <= Budget(next.base, next.last, next.back)
<1>1. Refilled(Watched, at) <= Full(Watched) /\ Refilled(Watched, at) \in Nat
  BY RefilledType DEF RateInv, RateAssumption
<1>2. /\ Cost(Watched, at) \in Nat
      /\ AfterCheck(Watched, at).tokens = Refilled(Watched, at) - Cost(Watched, at)
  BY CostType, AfterCheckType DEF RateInv, RateAssumption
<1>3. at - at + 0 = 0 /\ Capacity[Watched] * 0 = 0 /\ at <= at + 0
  BY DEF Times, RateAssumption
<1>4. Budget(at, at, 0) = Full(Watched)
  BY <1>3, FullIsNat DEF Budget, RateAssumption
<1> QED
  BY <1>1, <1>2, <1>3, <1>4, FullIsNat DEF Restarted, RateAssumption

LEMMA RateInvStep ==
    ASSUME RateAssumption, RateInv, [RateNext]_rateVars
    PROVE  RateInv'
<1>1. RateTypeOK'
  BY RateTypeStep DEF RateInv
<1>2. CASE \E w \in Workers : RunScript(w)
  <2> PICK w \in Workers : RunScript(w)
    BY <1>2
  <2> DEFINE k == stamps[w].key
             at == stamps[w].at
  <2>1. k \in Keys /\ at \in Times /\ at <= now /\ now <= at + Delay
    BY StampType DEF RunScript, RateInv
  <2>2. /\ buckets' = [buckets EXCEPT ![k] = AfterCheck(k, at)]
        /\ Observe(k, at)
        /\ stamps' = [stamps EXCEPT ![w] = NoStamp]
        /\ now' = now
    BY DEF RunScript
  <2> HIDE DEF k, at
  <2>3. \A v \in Workers : stamps'[v] # NoStamp => stamps'[v].at <= now'
    BY <2>2 DEF RateInv, RateTypeOK
  <2>4. CASE k = Watched
    <3>1. buckets'[Watched] = AfterCheck(Watched, at)
      BY <2>1, <2>2, <2>4 DEF RateInv, RateTypeOK
    <3>2. watch' \in {Continued(Watched, at), Restarted(Watched, at)}
      BY <2>2, <2>4 DEF Observe
    <3>3. watch'.last = at
      BY <3>2 DEF Continued, Restarted
    <3>4. /\ buckets'[Watched].last = watch'.last
          /\ buckets'[Watched].expires >= watch'.last + 2 * Window
      <4>1. AfterCheck(Watched, at).last = at /\ AfterCheck(Watched, at).expires = now + 2 * Window
        BY <2>1, AfterCheckType DEF RateInv, RateAssumption
      <4> QED
        BY <4>1, <3>1, <3>3, <2>1 DEF RateInv, RateTypeOK, Times, RateAssumption
    <3>5. /\ watch'.base <= watch'.last + watch'.back
          /\ watch'.spent + buckets'[Watched].tokens <= Budget(watch'.base, watch'.last, watch'.back)
      BY <3>1, <3>2, <2>1, ContinuedWithinBudget, RestartedWithinBudget
    <3> QED
      BY <1>1, <2>3, <3>4, <3>5 DEF RateInv, Budget, Full
  <2>5. CASE k # Watched
    <3>1. buckets'[Watched] = buckets[Watched] /\ watch' = watch
      BY <2>1, <2>2, <2>5 DEF Observe, RateInv, RateTypeOK, RateAssumption
    <3> QED
      BY <1>1, <2>3, <3>1 DEF RateInv, Budget, Full
  <2> QED
    BY <2>4, <2>5
<1>3. ASSUME UNCHANGED <<buckets, watch>>,
             \A v \in Workers : stamps'[v] # NoStamp => stamps'[v].at <= now'
      PROVE  RateInv'
  BY <1>1, <1>3 DEF RateInv, Budget, Full
<1>4. CASE \E w \in Workers, k \in Keys : ReadClock(w, k)
  <2>1. \A v \in Workers : stamps'[v] # NoStamp => stamps'[v].at <= now'
    BY <1>4 DEF ReadClock, RateInv, RateTypeOK, Times, RateAssumption
  <2> QED
    BY <2>1, <1>3, <1>4 DEF ReadClock
<1>5. CASE \E w \in Workers : FailOpen(w)
  <2>1. \A v \in Workers : stamps'[v] # NoStamp => stamps'[v].at <= now'
    BY <1>5 DEF FailOpen, RateInv, RateTypeOK
  <2> QED
    BY <2>1, <1>3, <1>5 DEF FailOpen
<1>6. CASE RateTick
  <2>1. \A v \in Workers : stamps'[v] # NoStamp => stamps'[v].at <= now'
    <3>1. now' = now + 1 /\ stamps' = stamps
      BY <1>6 DEF RateTick
    <3> SUFFICES ASSUME NEW v \in Workers, stamps[v] # NoStamp PROVE stamps[v].at <= now + 1
      BY <3>1
    <3>2. stamps[v].at <= now /\ stamps[v].at \in Nat /\ now \in Nat
      BY StampType DEF RateInv, RateTypeOK, Times, RateAssumption
    <3> QED
      BY <3>2
  <2> QED
    BY <2>1, <1>3, <1>6 DEF RateTick
<1>7. CASE UNCHANGED rateVars
  BY <1>3, <1>7 DEF rateVars, RateInv
<1> QED
  BY <1>2, <1>4, <1>5, <1>6, <1>7 DEF RateNext

LEMMA RateInvImplies ==
    ASSUME RateAssumption, RateInv
    PROVE  WithinLimit
<1>1. /\ buckets[Watched].tokens \in Nat /\ watch.spent \in Nat
      /\ watch.spent + buckets[Watched].tokens <= Budget(watch.base, watch.last, watch.back)
  BY DEF RateInv, RateTypeOK, RateAssumption
<1>2. Budget(watch.base, watch.last, watch.back) \in Int
  <2>1. /\ watch.last - watch.base + watch.back \in Nat
        /\ Capacity[Watched] \in Nat
        /\ Full(Watched) \in Nat
    BY FullIsNat DEF RateInv, RateTypeOK, Times, RateAssumption
  <2>2. Capacity[Watched] * (watch.last - watch.base + watch.back) \in Nat
    BY <2>1, ProductIsNat
  <2> QED
    BY <2>1, <2>2 DEF Budget
<1>3. watch.spent <= Budget(watch.base, watch.last, watch.back)
  BY <1>1, <1>2
<1> QED
  BY <1>3 DEF WithinLimit, Budget

\* From any check on, a bucket grants no more than its capacity and what its
\* rate refills, however the processes reach Redis and although idle buckets
\* are forgotten.
THEOREM GrantsStayWithinLimit == RateSpec => []WithinLimit
<1> USE RateAssumption
<1>1. RateInit => RateInv
  BY RateInvInit
<1>2. RateInv /\ [RateNext]_rateVars => RateInv'
  BY RateInvStep
<1>3. RateInv => WithinLimit
  BY RateInvImplies
<1> QED
  BY <1>1, <1>2, <1>3, PTL DEF RateSpec

-----------------------------------------------------------------------------
(* Gateway: what every request at work can rely on.                         *)

\* The rows that the write of a request needs.
RowIsThere(ask) ==
    /\ ask.op \in {"open", "close", "retire"} => Exists(ask.resource)
    /\ ask.op = "cancel" => bookings[ask.resource] # NoBooking
    /\ ask.op = "leave" => waiting[ask.resource] # NoEntry

\* The user of a request is known; a session that still lets it pass was valid
\* when it arrived; a right that it has now is noted.
Sound(j) ==
    j # NoJob =>
        /\ users[j.ask.user] # "unknown"
        /\ (j.pc = "arrived" /\ now < j.expires /\ users[j.ask.user] = "active") => j.valid
        /\ j.pc \in {"throttling", "checked"} => j.valid
        /\ Rightful(j.ask) => j.entitled
        /\ j.pc = "checked" => j.entitled /\ RowIsThere(j.ask)

GatewayInv ==
    /\ GatewayTypeOK
    /\ \A u \in Users : sessions[u] > 0 => users[u] # "unknown"
    /\ \A w \in Workers : Sound(jobs[w])

LEMMA RightfulIsBoolean ==
    ASSUME NEW ask \in Asks
    PROVE  Rightful(ask) \in BOOLEAN
<1> DEFINE inCharge == SystemAdmins \cup {u \in Users : <<ask.resource, u>> \in grants}
           mine == ask.user \in inCharge \cup {bookings[ask.resource].user}
           seen == \/ ask.resource \notin Restricted
                   \/ ask.user \in inCharge \cup Operators \cup Members[ask.resource]
           rooted == ask.user \in SystemAdmins
           owned == ask.user = waiting[ask.resource].user
           charged == ask.user \in inCharge
<1>1. /\ mine \in BOOLEAN /\ seen \in BOOLEAN /\ rooted \in BOOLEAN /\ charged \in BOOLEAN
      /\ owned \in BOOLEAN
  OBVIOUS
<1>2. Rightful(ask) = CASE ask.op \in {"create", "deactivate"} -> rooted
                        [] ask.op = "cancel" -> mine
                        [] ask.op = "leave" -> owned
                        [] ask.op \in {"book", "join"} -> seen
                        [] OTHER -> charged
  BY DEF Rightful
<1> HIDE DEF mine, seen, rooted, charged, owned
<1>3. CASE ask.op \in {"create", "deactivate"}
  BY <1>1, <1>2, <1>3
<1>4. CASE ask.op = "cancel"
  BY <1>1, <1>2, <1>4
<1>5. CASE ask.op \in {"book", "join"}
  BY <1>1, <1>2, <1>5
<1>6. CASE ask.op = "leave"
  BY <1>1, <1>2, <1>6
<1>7. CASE ask.op \notin {"create", "deactivate", "cancel", "book", "join", "leave"}
  BY <1>1, <1>2, <1>7
<1> QED
  BY <1>3, <1>4, <1>5, <1>6, <1>7

LEMMA JobType ==
    ASSUME GatewayTypeOK, NEW w \in Workers, jobs[w].pc # "idle"
    PROVE  jobs[w] \in Jobs /\ jobs[w] # NoJob
<1>1. jobs[w] \in Jobs \cup {NoJob}
  BY DEF GatewayTypeOK
<1>2. NoJob.pc = "idle"
  BY DEF NoJob
<1> QED
  BY <1>1, <1>2

LEMMA AskType ==
    ASSUME GatewayAssumption, NEW ask \in Asks
    PROVE  /\ ask.user \in Users /\ ask.resource \in Resources
           /\ ask.op \in {"grant", "revoke", "deactivate"} => ask.arg \in Users
           /\ ask.op \in {"open", "close", "book"} => ask.arg \in Hours
BY DEF GatewayAssumption

\* Who is let pass has the right.
LEMMA PassingIsRightful ==
    ASSUME GatewayAssumption, GatewayTypeOK, NEW ask \in Asks, Passes(ask)
    PROVE  Rightful(ask) /\ RowIsThere(ask)
<1>1. ask.user \in Users /\ ask.resource \in Resources /\ ask.op \in Roles
  BY DEF GatewayAssumption
<1>2. CASE ask.op \in {"create", "deactivate"}
  BY <1>2 DEF Passes, MayCreateResource, MayDeactivate, Rightful, RowIsThere
<1>3. CASE ask.op \in {"book", "join"}
  BY <1>1, <1>3 DEF Passes, MayBook, MayJoin, MayUse, Rightful, RowIsThere, CanView, CanAdminister
<1>4. CASE ask.op = "cancel"
  BY <1>1, <1>4 DEF Passes, MayCancel, Rightful, RowIsThere, CanAdminister
<1>5. CASE ask.op = "leave"
  BY <1>1, <1>5 DEF Passes, MayLeave, Rightful, RowIsThere
<1>6. CASE ask.op \in {"open", "close", "retire"}
  BY <1>1, <1>6 DEF Passes, MayUpdateResource, Rightful, RowIsThere, CanAdminister
<1>7. CASE ask.op = "grant"
  BY <1>1, <1>7 DEF Passes, MayGrant, Rightful, RowIsThere, CanAdminister
<1>8. CASE ask.op = "revoke"
  BY <1>1, <1>8 DEF Passes, MayRevoke, Rightful, RowIsThere, CanAdminister
<1> QED
  BY <1>1, <1>2, <1>3, <1>4, <1>5, <1>6, <1>7, <1>8 DEF Roles

\* What is sound stays so while the tables and the clock stay.
LEMMA SoundStays ==
    ASSUME UNCHANGED tables, UNCHANGED now, NEW j, Sound(j)
    PROVE  Sound(j)'
BY DEF Sound, tables, Rightful, RowIsThere, Exists

-----------------------------------------------------------------------------
(* Gateway: steps that change one request only.                             *)

LEMMA NoJobIsSound == Sound(NoJob)
BY DEF Sound

LEMMA OneJobStep ==
    ASSUME GatewayInv, RateTypeOK', UNCHANGED tables, UNCHANGED now,
           NEW w \in Workers, NEW j \in Jobs \cup {NoJob}, Sound(j),
           jobs' = [jobs EXCEPT ![w] = j]
    PROVE  GatewayInv'
<1>1. jobs' \in [Workers -> Jobs \cup {NoJob}]
  BY DEF GatewayInv, GatewayTypeOK
<1>2. GatewayTypeOK'
  BY <1>1 DEF GatewayInv, GatewayTypeOK, tables, Jobs, Hours
<1>3. ASSUME NEW v \in Workers
      PROVE  Sound(jobs[v])'
  <2>1. jobs'[v] = IF v = w THEN j ELSE jobs[v]
    BY DEF GatewayInv, GatewayTypeOK
  <2>2. Sound(jobs'[v])
    BY <2>1 DEF GatewayInv
  <2> QED
    BY <2>2 DEF Sound, tables, Rightful, RowIsThere, Exists
<1> QED
  BY <1>2, <1>3 DEF GatewayInv, tables

LEMMA JobFields ==
    ASSUME GatewayTypeOK, NEW w \in Workers, jobs[w].pc # "idle"
    PROVE  /\ jobs[w].pc \in {"arrived", "throttling", "checked"} /\ jobs[w].ask \in Asks
           /\ jobs[w].throttles \in Seq(Keys) /\ jobs[w].expires \in 0..(MaxTime + SessionTTL)
           /\ jobs[w].refused \in BOOLEAN /\ jobs[w].valid \in BOOLEAN /\ jobs[w].entitled \in BOOLEAN
BY JobType DEF Jobs

LEMMA EndStep ==
    ASSUME GatewayInv, RateTypeOK', UNCHANGED tables, UNCHANGED now, NEW w \in Workers, End(w)
    PROVE  GatewayInv'
BY OneJobStep, NoJobIsSound DEF End

LEMMA ArriveStep ==
    ASSUME GatewayAssumption, GatewayInv, RateTypeOK', NEW w \in Workers, NEW ask \in Asks, Arrive(w, ask)
    PROVE  GatewayInv'
<1> DEFINE right == Rightful(ask)
           valid == now < sessions[ask.user] /\ users[ask.user] = "active"
           job == [pc |-> "arrived", ask |-> ask, throttles |-> <<>>,
                   expires |-> sessions[ask.user], refused |-> FALSE,
                   valid |-> valid, entitled |-> right]
<1>1. ask.user \in Users /\ right \in BOOLEAN
  BY AskType, RightfulIsBoolean
<1>2. jobs' = [jobs EXCEPT ![w] = job] /\ sessions[ask.user] > 0 /\ UNCHANGED tables /\ UNCHANGED now
  BY DEF Arrive, SessionIsValid, rateVars
<1>3. valid \in BOOLEAN /\ sessions[ask.user] \in 0..(MaxTime + SessionTTL) /\ <<>> \in Seq(Keys)
  BY <1>1 DEF GatewayInv, GatewayTypeOK
<1>4. users[ask.user] # "unknown"
  BY <1>1, <1>2 DEF GatewayInv
<1>5. /\ job.pc = "arrived" /\ job.ask = ask /\ job.expires = sessions[ask.user]
      /\ job.valid = valid /\ job.entitled = right
  OBVIOUS
<1>6. (now < sessions[ask.user] /\ users[ask.user] = "active") => valid
  OBVIOUS
<1>7. Rightful(ask) => right
  OBVIOUS
<1>8. job \in Jobs
  <2> HIDE DEF right, valid
  <2> QED
    BY <1>1, <1>3 DEF Jobs
<1> HIDE DEF right, valid, job
<1>9. Sound(job)
  BY <1>4, <1>5, <1>6, <1>7 DEF Sound
<1> QED
  BY <1>2, <1>8, <1>9, OneJobStep

LEMMA AuthenticateStep ==
    ASSUME GatewayAssumption, GatewayInv, RateTypeOK', NEW w \in Workers, Authenticate(w)
    PROVE  GatewayInv'
<1> DEFINE old == jobs[w]
           pending == IF old.ask.op = "book" THEN Throttles[old.ask.user] ELSE <<>>
           job == [old EXCEPT !.pc = "throttling", !.expires = 0, !.throttles = pending]
<1>1. old \in Jobs /\ old # NoJob /\ old.pc = "arrived" /\ UNCHANGED tables /\ UNCHANGED now
  BY JobType DEF Authenticate, GatewayInv, rateVars
<1>2. CASE now < old.expires /\ users[old.ask.user] = "active"
  <2>1. jobs' = [jobs EXCEPT ![w] = job]
    BY <1>2 DEF Authenticate, SessionIsValid
  <2>2. pending \in Seq(Keys)
    <3>1. old.ask \in Asks /\ old.ask.user \in Users
      BY <1>1, AskType DEF Jobs
    <3> QED
      BY <3>1 DEF GatewayAssumption
  <2>3. 0 \in 0..(MaxTime + SessionTTL)
    <3>1. MaxTime \in Nat /\ SessionTTL \in Nat
      BY RateAssumption DEF RateAssumption, GatewayAssumption
    <3> QED
      BY <3>1
  <2> HIDE DEF pending
  <2>4. job \in Jobs
    BY <1>1, <2>2, <2>3 DEF Jobs
  <2>5. /\ job.pc = "throttling" /\ job.ask = old.ask
        /\ job.valid = old.valid /\ job.entitled = old.entitled
    BY <1>1 DEF Jobs
  <2>6. Sound(old)
    BY DEF GatewayInv
  <2> HIDE DEF job
  <2>7. Sound(job)
    BY <1>1, <1>2, <2>5, <2>6 DEF Sound
  <2> QED
    BY <1>1, <2>1, <2>4, <2>7, OneJobStep
<1>3. CASE ~(now < old.expires /\ users[old.ask.user] = "active")
  BY <1>1, <1>3, EndStep DEF Authenticate, SessionIsValid
<1> QED
  BY <1>2, <1>3

LEMMA NextThrottleStep ==
    ASSUME GatewayInv, RateTypeOK', UNCHANGED tables, UNCHANGED now,
           NEW w \in Workers, jobs[w].pc = "throttling", jobs[w].throttles # <<>>,
           NEW refused \in BOOLEAN, NextThrottle(w, refused)
    PROVE  GatewayInv'
<1> DEFINE old == jobs[w]
           job == [old EXCEPT !.throttles = Tail(@), !.refused = @ \/ refused]
<1>1. old \in Jobs /\ old # NoJob
  BY JobType DEF GatewayInv
<1>2. Tail(old.throttles) \in Seq(Keys)
  BY <1>1 DEF Jobs
<1>3. job \in Jobs
  BY <1>1, <1>2 DEF Jobs
<1>4. /\ job.pc = "throttling" /\ job.ask = old.ask
      /\ job.valid = old.valid /\ job.entitled = old.entitled
  BY <1>1 DEF Jobs
<1>5. Sound(old)
  BY DEF GatewayInv
<1>6. jobs' = [jobs EXCEPT ![w] = job]
  BY DEF NextThrottle
<1> HIDE DEF job
<1>7. Sound(job)
  BY <1>1, <1>4, <1>5 DEF Sound
<1> QED
  BY <1>3, <1>6, <1>7, OneJobStep

LEMMA CheckStep ==
    ASSUME GatewayAssumption, GatewayInv, RateTypeOK', NEW w \in Workers, Check(w)
    PROVE  GatewayInv'
<1> DEFINE old == jobs[w]
           job == [old EXCEPT !.pc = "checked"]
<1>1. old \in Jobs /\ old # NoJob /\ old.pc = "throttling" /\ UNCHANGED tables /\ UNCHANGED now
  BY JobType DEF Check, GatewayInv, rateVars
<1>2. CASE Passes(old.ask)
  <2>1. jobs' = [jobs EXCEPT ![w] = job]
    BY <1>2 DEF Check
  <2>2. job \in Jobs
    BY <1>1 DEF Jobs
  <2>3. /\ job.pc = "checked" /\ job.ask = old.ask
        /\ job.valid = old.valid /\ job.entitled = old.entitled
    BY <1>1 DEF Jobs
  <2>4. Rightful(old.ask) /\ RowIsThere(old.ask)
    BY <1>1, <1>2, PassingIsRightful DEF GatewayInv, Jobs
  <2>5. Sound(old)
    BY DEF GatewayInv
  <2> HIDE DEF job
  <2>6. Sound(job)
    BY <1>1, <2>3, <2>4, <2>5 DEF Sound
  <2> QED
    BY <1>1, <2>1, <2>2, <2>6, OneJobStep
<1>3. CASE ~Passes(old.ask)
  BY <1>1, <1>3, EndStep DEF Check
<1> QED
  BY <1>2, <1>3

-----------------------------------------------------------------------------
(* Gateway: steps that change the tables, and what they leave as it is.     *)

\* Nobody known becomes unknown, nobody deactivated becomes active; a resource,
\* a first booking and a first entry stay there.
TablesMoveOn ==
    /\ \A u \in Users : users[u] # "unknown" => users'[u] # "unknown"
    /\ \A u \in Users : (users[u] # "unknown" /\ users'[u] = "active") => users[u] = "active"
    /\ \A r \in Resources : resources[r] # NoResource => resources'[r] # NoResource
    /\ \A r \in Resources : bookings[r] # NoBooking => bookings'[r] # NoBooking
    /\ \A r \in Resources : waiting[r] # NoEntry => waiting'[r] # NoEntry

LEMMA RowsStayThere ==
    ASSUME GatewayAssumption, TablesMoveOn, NEW ask \in Asks, RowIsThere(ask)
    PROVE  RowIsThere(ask)'
BY AskType DEF RowIsThere, TablesMoveOn, Exists

\* A request that was noted is still sound.
LEMMA NotedIsSound ==
    ASSUME GatewayAssumption, TablesMoveOn, UNCHANGED now, NEW job \in Jobs, Sound(job), job # NoJob,
           NEW right, right = (job.entitled \/ \E ask \in Asks : ask = job.ask /\ Rightful(ask)')
    PROVE  /\ [job EXCEPT !.entitled = right] \in Jobs
           /\ Sound([job EXCEPT !.entitled = right])'
<1> DEFINE next == [job EXCEPT !.entitled = right]
<1>1. job.ask \in Asks /\ job.ask.user \in Users /\ job.entitled \in BOOLEAN
  BY AskType DEF Jobs
<1>2. right \in BOOLEAN
  BY <1>1
<1>3. next \in Jobs
  BY <1>2 DEF Jobs
<1>4. /\ next.pc = job.pc /\ next.ask = job.ask /\ next.expires = job.expires
      /\ next.valid = job.valid /\ next.entitled = right
  BY DEF Jobs
<1>5. Rightful(job.ask)' => right
  BY <1>1
<1>6. job.entitled => right
  OBVIOUS
<1> HIDE DEF next
<1>7. Sound(next)'
  <2>1. users'[job.ask.user] # "unknown"
    BY <1>1 DEF Sound, TablesMoveOn
  <2>2. (job.pc = "arrived" /\ now < job.expires /\ users'[job.ask.user] = "active") => job.valid
    BY <1>1 DEF Sound, TablesMoveOn
  <2>3. job.pc = "checked" => RowIsThere(job.ask)'
    BY <1>1, RowsStayThere DEF Sound
  <2> QED
    BY <1>4, <1>5, <1>6, <2>1, <2>2, <2>3 DEF Sound, RowIsThere, Exists, Rightful
<1> QED
  BY <1>3, <1>7 DEF next

LEMMA AnsweredStep ==
    ASSUME GatewayAssumption, GatewayInv, TablesMoveOn, UNCHANGED <<now, sessions>>, RateTypeOK',
           users' \in [Users -> {"unknown", "active", "deactivated"}],
           grants' \subseteq Resources \X Users,
           resources' \in [Resources -> {NoResource} \cup [status : {"active", "inactive"},
                                                           opens : Hours, closes : Hours]],
           \A r \in Resources : resources'[r] # NoResource => resources'[r].opens < resources'[r].closes,
           bookings' \in [Resources -> {NoBooking} \cup [user : Users, status : {"confirmed", "cancelled"}]],
           waiting' \in [Resources -> {NoEntry} \cup [user : Users, status : {"waiting", "cancelled"}]],
           NEW w \in Workers, Answered(w)
    PROVE  GatewayInv'
<1> DEFINE rest == [jobs EXCEPT ![w] = NoJob]
           Right(j) == j.entitled \/ \E ask \in Asks : ask = j.ask /\ Rightful(ask)'
<1>1. jobs' = [v \in Workers |-> IF rest[v] = NoJob THEN NoJob
                                 ELSE [rest[v] EXCEPT !.entitled = Right(rest[v])]]
  BY DEF Answered, Noted
<1>2. ASSUME NEW v \in Workers
      PROVE  rest[v] \in Jobs \cup {NoJob} /\ Sound(rest[v])
  BY NoJobIsSound DEF GatewayInv, GatewayTypeOK
<1> HIDE DEF rest, Right
<1>3. ASSUME NEW v \in Workers
      PROVE  jobs'[v] \in Jobs \cup {NoJob} /\ Sound(jobs[v])'
  <2>1. CASE rest[v] = NoJob
    <3>1. jobs'[v] = NoJob
      BY <1>1, <2>1
    <3> QED
      BY <3>1 DEF Sound
  <2>2. CASE rest[v] # NoJob
    <3>1. PICK job \in Jobs : job = rest[v]
      BY <1>2, <2>2
    <3>2. Sound(job) /\ job # NoJob
      BY <1>2, <2>2, <3>1
    <3>3. PICK right : right = (job.entitled \/ \E ask \in Asks : ask = job.ask /\ Rightful(ask)')
      OBVIOUS
    <3>4. jobs'[v] = [job EXCEPT !.entitled = right]
      BY <1>1, <2>2, <3>1, <3>3 DEF Right
    <3>5. [job EXCEPT !.entitled = right] \in Jobs /\ Sound([job EXCEPT !.entitled = right])'
      BY <3>2, <3>3, NotedIsSound
    <3> QED
      BY <3>4, <3>5 DEF Sound, Rightful, RowIsThere, Exists
  <2> QED
    BY <2>1, <2>2
<1>4. jobs' \in [Workers -> Jobs \cup {NoJob}]
  BY <1>1, <1>3
<1>5. GatewayTypeOK'
  BY <1>4 DEF GatewayInv, GatewayTypeOK, Jobs, Hours
<1>6. \A u \in Users : sessions'[u] > 0 => users'[u] # "unknown"
  BY DEF GatewayInv, TablesMoveOn
<1>7. \A v \in Workers : Sound(jobs[v])'
  BY <1>3
<1> QED
  BY <1>5, <1>6, <1>7 DEF GatewayInv

\* The withdrawal of a user's entries leaves entries, and every one there.
LEMMA WithdrawnType ==
    ASSUME GatewayAssumption, NEW u \in Users,
           waiting \in [Resources -> {NoEntry} \cup [user : Users, status : {"waiting", "cancelled"}]]
    PROVE  /\ Withdrawn(u) \in [Resources -> {NoEntry} \cup [user : Users, status : {"waiting", "cancelled"}]]
           /\ \A q \in Resources : waiting[q] # NoEntry => Withdrawn(u)[q] # NoEntry
<1> DEFINE Entries == [user : Users, status : {"waiting", "cancelled"}]
<1>1. ASSUME NEW r \in Resources
      PROVE  /\ Withdrawn(u)[r] \in {NoEntry} \cup Entries
             /\ waiting[r] # NoEntry => Withdrawn(u)[r] # NoEntry
  <2>1. Withdrawn(u)[r] = IF waiting[r].user = u THEN [waiting[r] EXCEPT !.status = "cancelled"]
                          ELSE waiting[r]
    BY DEF Withdrawn
  <2>2. CASE waiting[r] = NoEntry
    <3>1. waiting[r].user # u
      BY <2>2 DEF NoEntry, GatewayAssumption
    <3> QED
      BY <2>1, <2>2, <3>1
  <2>3. CASE waiting[r] # NoEntry /\ waiting[r].user = u
    <3>1. waiting[r] \in Entries
      BY <2>3
    <3>2. Withdrawn(u)[r] \in Entries /\ Withdrawn(u)[r].status = "cancelled"
      BY <2>1, <2>3, <3>1
    <3> QED
      BY <3>2 DEF NoEntry
  <2>4. CASE waiting[r] # NoEntry /\ waiting[r].user # u
    BY <2>1, <2>4
  <2> QED
    BY <2>2, <2>3, <2>4
<1> QED
  BY <1>1 DEF Withdrawn

LEMMA WriteStep ==
    ASSUME GatewayAssumption, GatewayInv, RateTypeOK', NEW w \in Workers,
           \/ CreateResource(w) \/ UpdateResource(w) \/ GrantResourceAdmin(w)
           \/ RevokeResourceAdmin(w) \/ Book(w) \/ Cancel(w) \/ Join(w)
           \/ Leave(w) \/ Deactivate(w)
    PROVE  GatewayInv'
<1> DEFINE ask == jobs[w].ask
           r == ask.resource
<1>1. jobs[w] \in Jobs /\ jobs[w] # NoJob /\ jobs[w].pc = "checked"
  <2>1. jobs[w].pc = "checked"
    BY DEF CreateResource, UpdateResource, GrantResourceAdmin, RevokeResourceAdmin, Book, Cancel,
           Join, Leave, Deactivate, Writes
  <2> QED
    BY <2>1, JobType DEF GatewayInv
<1>2. ask \in Asks /\ ask.user \in Users /\ r \in Resources /\ Sound(jobs[w])
  BY <1>1, AskType DEF GatewayInv, Jobs
<1>3. RowIsThere(ask)
  BY <1>1, <1>2 DEF Sound
<1>4. /\ users \in [Users -> {"unknown", "active", "deactivated"}]
      /\ grants \subseteq Resources \X Users
      /\ resources \in [Resources -> {NoResource} \cup [status : {"active", "inactive"},
                                                        opens : Hours, closes : Hours]]
      /\ \A q \in Resources : resources[q] # NoResource => resources[q].opens < resources[q].closes
      /\ bookings \in [Resources -> {NoBooking} \cup [user : Users, status : {"confirmed", "cancelled"}]]
      /\ waiting \in [Resources -> {NoEntry} \cup [user : Users, status : {"waiting", "cancelled"}]]
  BY DEF GatewayInv, GatewayTypeOK
<1>5. now' = now /\ sessions' = sessions /\ Answered(w)
  BY DEF CreateResource, UpdateResource, GrantResourceAdmin, RevokeResourceAdmin, Book, Cancel,
         Join, Leave, Deactivate, rateVars
<1> HIDE DEF ask, r
<1>6. CASE CreateResource(w)
  <2>1. resources' = [resources EXCEPT ![r] = NewResource] /\ UNCHANGED <<users, grants, bookings, waiting>>
    BY <1>6 DEF CreateResource, ask, r
  <2>2. /\ NewResource \in [status : {"active", "inactive"}, opens : Hours, closes : Hours]
        /\ NewResource.opens < NewResource.closes
    BY DEF NewResource, Hours, GatewayAssumption
  <2>3. NewResource # NoResource
    BY DEF NewResource, NoResource
  <2> QED
    BY <2>1, <2>2, <2>3, <1>2, <1>4, <1>5, AnsweredStep DEF TablesMoveOn
<1>7. CASE UpdateResource(w)
  <2> DEFINE row == Changed(ask)
  <2>1. /\ resources' = IF row.opens < row.closes
                        THEN [resources EXCEPT ![r] = row] ELSE resources
        /\ ask.op \in {"open", "close", "retire"}
        /\ UNCHANGED <<users, grants, bookings, waiting>>
    BY <1>7 DEF UpdateResource, ask, r
  <2>2. resources[r] \in [status : {"active", "inactive"}, opens : Hours, closes : Hours]
    BY <2>1, <1>2, <1>3, <1>4 DEF RowIsThere, Exists, r
  <2>3. row \in [status : {"active", "inactive"}, opens : Hours, closes : Hours]
    <3>1. ask.op \in {"open", "close"} => ask.arg \in Hours
      BY <1>2, AskType
    <3> QED
      BY <2>1, <2>2, <3>1 DEF Changed, r
  <2>4. row # NoResource
    <3>1. NoResource.status = "absent" /\ row.status # "absent"
      BY <2>3 DEF NoResource
    <3> QED
      BY <3>1
  <2> HIDE DEF row
  <2>5. CASE row.opens < row.closes
    <3>1. resources' = [resources EXCEPT ![r] = row]
      BY <2>1, <2>5
    <3> QED
      BY <2>1, <2>3, <2>4, <2>5, <3>1, <1>2, <1>4, <1>5, AnsweredStep DEF TablesMoveOn
  <2>6. CASE ~(row.opens < row.closes)
    <3>1. resources' = resources
      BY <2>1, <2>6
    <3> QED
      BY <2>1, <3>1, <1>4, <1>5, AnsweredStep DEF TablesMoveOn
  <2> QED
    BY <2>5, <2>6
<1>8. CASE GrantResourceAdmin(w)
  <2>1. /\ ask.op = "grant"
        /\ grants' = grants \cup {<<r, ask.arg>>}
        /\ UNCHANGED <<users, resources, bookings, waiting>>
    BY <1>8 DEF GrantResourceAdmin, Writes, ask, r
  <2>2. grants' \subseteq Resources \X Users
    BY <2>1, <1>2, <1>4, AskType
  <2> QED
    BY <2>1, <2>2, <1>4, <1>5, AnsweredStep DEF TablesMoveOn
<1>9. CASE RevokeResourceAdmin(w)
  <2>1. /\ grants' = grants \ {<<r, ask.arg>>}
        /\ UNCHANGED <<users, resources, bookings, waiting>>
    BY <1>9 DEF RevokeResourceAdmin, ask, r
  <2> QED
    BY <2>1, <1>4, <1>5, AnsweredStep DEF TablesMoveOn
<1>10. CASE Book(w)
  <2> DEFINE booking == [user |-> ask.user, status |-> "confirmed"]
  <2>1. /\ bookings' = IF bookings[r] = NoBooking
                       THEN [bookings EXCEPT ![r] = booking] ELSE bookings
        /\ UNCHANGED <<users, grants, resources, waiting>>
    BY <1>10 DEF Book, ask, r
  <2>2. booking \in [user : Users, status : {"confirmed", "cancelled"}] /\ booking # NoBooking
    BY <1>2 DEF NoBooking
  <2> HIDE DEF booking
  <2> QED
    BY <2>1, <2>2, <1>2, <1>4, <1>5, AnsweredStep DEF TablesMoveOn
<1>11. CASE Cancel(w)
  <2> DEFINE booking == [bookings[r] EXCEPT !.status = "cancelled"]
  <2>1. /\ ask.op = "cancel"
        /\ bookings' = [bookings EXCEPT ![r] = booking]
        /\ UNCHANGED <<users, grants, resources, waiting>>
    BY <1>11 DEF Cancel, Writes, ask, r
  <2>2. bookings[r] \in [user : Users, status : {"confirmed", "cancelled"}]
    BY <2>1, <1>2, <1>3, <1>4 DEF RowIsThere, r
  <2>3. booking \in [user : Users, status : {"confirmed", "cancelled"}] /\ booking.status = "cancelled"
    BY <2>2
  <2>4. booking # NoBooking
    BY <2>3 DEF NoBooking
  <2> HIDE DEF booking
  <2> QED
    BY <2>1, <2>3, <2>4, <1>2, <1>4, <1>5, AnsweredStep DEF TablesMoveOn
<1>12. CASE Join(w)
  <2> DEFINE entry == [user |-> ask.user, status |-> "waiting"]
  <2>1. /\ waiting' = IF waiting[r] = NoEntry
                      THEN [waiting EXCEPT ![r] = entry] ELSE waiting
        /\ UNCHANGED <<users, grants, resources, bookings>>
    BY <1>12 DEF Join, ask, r
  <2>2. entry \in [user : Users, status : {"waiting", "cancelled"}] /\ entry # NoEntry
    BY <1>2 DEF NoEntry
  <2> HIDE DEF entry
  <2> QED
    BY <2>1, <2>2, <1>2, <1>4, <1>5, AnsweredStep DEF TablesMoveOn
<1>13. CASE Leave(w)
  <2> DEFINE entry == [waiting[r] EXCEPT !.status = "cancelled"]
  <2>1. /\ ask.op = "leave"
        /\ waiting' = [waiting EXCEPT ![r] = entry]
        /\ UNCHANGED <<users, grants, resources, bookings>>
    BY <1>13 DEF Leave, Writes, ask, r
  <2>2. waiting[r] \in [user : Users, status : {"waiting", "cancelled"}]
    BY <2>1, <1>2, <1>3, <1>4 DEF RowIsThere, r
  <2>3. entry \in [user : Users, status : {"waiting", "cancelled"}] /\ entry.status = "cancelled"
    BY <2>2
  <2>4. entry # NoEntry
    BY <2>3 DEF NoEntry
  <2> HIDE DEF entry
  <2> QED
    BY <2>1, <2>3, <2>4, <1>2, <1>4, <1>5, AnsweredStep DEF TablesMoveOn
<1>14. CASE Deactivate(w)
  <2>1. /\ ask.op = "deactivate"
        /\ \/ /\ users[ask.arg] = "active"
              /\ users' = [users EXCEPT ![ask.arg] = "deactivated"]
              /\ waiting' = Withdrawn(ask.arg)
           \/ UNCHANGED <<users, waiting>>
        /\ UNCHANGED <<grants, resources, bookings>>
    BY <1>14 DEF Deactivate, Writes, ask
  <2>2. ask.arg \in Users
    BY <2>1, <1>2, AskType
  <2>3. users' \in [Users -> {"unknown", "active", "deactivated"}]
    BY <2>1, <2>2, <1>4
  <2>4. /\ Withdrawn(ask.arg) \in [Resources -> {NoEntry} \cup [user : Users, status : {"waiting", "cancelled"}]]
        /\ \A q \in Resources : waiting[q] # NoEntry => Withdrawn(ask.arg)[q] # NoEntry
    BY <2>2, <1>4, WithdrawnType
  <2>5. TablesMoveOn
    BY <2>1, <2>2, <2>4, <1>4 DEF TablesMoveOn
  <2>6. waiting' \in [Resources -> {NoEntry} \cup [user : Users, status : {"waiting", "cancelled"}]]
    BY <2>1, <2>4, <1>4
  <2> QED
    BY <2>1, <2>3, <2>5, <2>6, <1>4, <1>5, AnsweredStep
<1> QED
  BY <1>6, <1>7, <1>8, <1>9, <1>10, <1>11, <1>12, <1>13, <1>14

-----------------------------------------------------------------------------
(* Gateway: logins and the clock.                                           *)

LEMMA TokenExchangeStep ==
    ASSUME GatewayAssumption, GatewayInv, RateTypeOK', NEW u \in Users, TokenExchange(u)
    PROVE  GatewayInv'
<1>1. /\ users' = IF users[u] = "unknown" THEN [users EXCEPT ![u] = "active"] ELSE users
      /\ sessions' = [sessions EXCEPT ![u] = now + SessionTTL]
      /\ UNCHANGED <<grants, resources, bookings, waiting, jobs, now>>
  BY DEF TokenExchange, Provisioned, IssuedUntil, rateVars
<1>2. users' \in [Users -> {"unknown", "active", "deactivated"}]
  BY <1>1 DEF GatewayInv, GatewayTypeOK
<1>3. sessions' \in [Users -> 0..(MaxTime + SessionTTL)]
  <2>1. now + SessionTTL \in 0..(MaxTime + SessionTTL)
    <3>1. now \in 0..MaxTime
      BY DEF GatewayInv, GatewayTypeOK, RateTypeOK, Times
    <3>2. MaxTime \in Nat /\ SessionTTL \in Nat
      BY RateAssumption DEF RateAssumption, GatewayAssumption
    <3> QED
      BY <3>1, <3>2
  <2> QED
    BY <2>1, <1>1 DEF GatewayInv, GatewayTypeOK
<1>4. GatewayTypeOK'
  BY <1>1, <1>2, <1>3 DEF GatewayInv, GatewayTypeOK, Jobs, Hours
<1>5. /\ \A v \in Users : users[v] # "unknown" => users'[v] = users[v]
      /\ users'[u] # "unknown"
  BY <1>1 DEF GatewayInv, GatewayTypeOK
<1>6. \A v \in Users : sessions'[v] > 0 => users'[v] # "unknown"
  BY <1>1, <1>5 DEF GatewayInv, GatewayTypeOK
<1>7. ASSUME NEW w \in Workers
      PROVE  Sound(jobs[w])'
  <2>1. CASE jobs[w] = NoJob
    BY <1>1, <2>1 DEF Sound
  <2>2. CASE jobs[w] # NoJob
    <3>1. PICK j \in Jobs : j = jobs[w]
      BY <2>2 DEF GatewayInv, GatewayTypeOK
    <3>2. Sound(j) /\ j.ask.user \in Users
      BY <3>1, AskType DEF GatewayInv, Jobs
    <3>3. j # NoJob
      BY <3>1, <2>2
    <3>4. users[j.ask.user] # "unknown" /\ users'[j.ask.user] = users[j.ask.user]
      BY <3>2, <3>3, <1>5 DEF Sound
    <3> QED
      BY <1>1, <3>1, <3>2, <3>4 DEF Sound, Rightful, RowIsThere, Exists
  <2> QED
    BY <2>1, <2>2
<1>8. \A w \in Workers : Sound(jobs[w])'
  BY <1>7
<1> QED
  BY <1>4, <1>6, <1>8 DEF GatewayInv

LEMMA TickStep ==
    ASSUME GatewayInv, RateTypeOK', Tick
    PROVE  GatewayInv'
<1>1. now' = now + 1 /\ UNCHANGED <<users, sessions, grants, resources, bookings, waiting, jobs>>
  BY DEF Tick, RateTick, tables
<1>2. GatewayTypeOK'
  BY <1>1 DEF GatewayInv, GatewayTypeOK, Jobs, Hours
<1>3. ASSUME NEW w \in Workers
      PROVE  Sound(jobs[w])'
  <2>1. CASE jobs[w] = NoJob
    BY <1>1, <2>1 DEF Sound
  <2>2. CASE jobs[w] # NoJob
    <3>1. PICK j \in Jobs : j = jobs[w]
      BY <2>2 DEF GatewayInv, GatewayTypeOK
    <3>2. Sound(j)
      BY <3>1 DEF GatewayInv
    <3>3. j.expires \in Int /\ now \in Int
      BY RateAssumption, GatewayAssumption
         DEF Jobs, RateAssumption, GatewayAssumption, GatewayInv, GatewayTypeOK, RateTypeOK, Times
    <3>4. now' < j.expires => now < j.expires
      BY <1>1, <3>3
    <3> QED
      BY <1>1, <3>1, <3>2, <3>4 DEF Sound, Rightful, RowIsThere, Exists
  <2> QED
    BY <2>1, <2>2
<1>4. \A w \in Workers : Sound(jobs[w])'
  BY <1>3
<1> QED
  BY <1>1, <1>2, <1>4 DEF GatewayInv

-----------------------------------------------------------------------------
(* Gateway: its steps, for the buckets and altogether.                      *)

\* A step of a request is one of RateLimit or leaves the buckets alone.
LEMMA RateStep ==
    ASSUME GatewayTypeOK, [GatewayNext]_gatewayVars
    PROVE  [RateNext]_rateVars
<1>1. ASSUME NEW w \in Workers, Handle(w)
      PROVE  [RateNext]_rateVars
  <2>1. CASE StartThrottle(w)
    <3>1. jobs[w].throttles \in Seq(Keys) /\ jobs[w].throttles # <<>>
      BY <2>1, JobFields DEF StartThrottle, Asking
    <3>2. Head(jobs[w].throttles) \in Keys
      BY <3>1
    <3> QED
      BY <2>1, <3>2 DEF StartThrottle, RateNext
  <2>2. CASE AskRedis(w)
    BY <2>2 DEF AskRedis, RateNext
  <2>3. CASE RedisFails(w)
    BY <2>3 DEF RedisFails, RateNext
  <2>4. CASE Authenticate(w) \/ Throttled(w) \/ Check(w)
    BY <2>4 DEF Authenticate, Throttled, Check
  <2>5. CASE \/ CreateResource(w) \/ UpdateResource(w) \/ GrantResourceAdmin(w)
             \/ RevokeResourceAdmin(w) \/ Book(w) \/ Cancel(w) \/ Join(w)
           \/ Leave(w) \/ Deactivate(w)
    BY <2>5 DEF CreateResource, UpdateResource, GrantResourceAdmin, RevokeResourceAdmin,
                Book, Cancel, Join, Leave, Deactivate
  <2> QED
    BY <1>1, <2>1, <2>2, <2>3, <2>4, <2>5 DEF Handle
<1>2. CASE \E u \in Users : TokenExchange(u)
  BY <1>2 DEF TokenExchange
<1>3. CASE \E w \in Workers, ask \in Asks : Arrive(w, ask)
  BY <1>3 DEF Arrive
<1>4. CASE Tick
  BY <1>4 DEF Tick, RateNext
<1>5. CASE UNCHANGED gatewayVars
  BY <1>5 DEF gatewayVars
<1> QED
  BY <1>1, <1>2, <1>3, <1>4, <1>5 DEF GatewayNext

LEMMA GatewayInvInit ==
    ASSUME GatewayAssumption, GatewayInit
    PROVE  GatewayInv
<1>1. RateTypeOK
  BY RateAssumption, RateTypeInit DEF GatewayInit
<1>2. users \in [Users -> {"unknown", "active", "deactivated"}]
  BY DEF GatewayInit
<1>3. sessions \in [Users -> 0..(MaxTime + SessionTTL)] /\ \A u \in Users : sessions[u] = 0
  <2>1. MaxTime \in Nat /\ SessionTTL \in Nat
    BY RateAssumption DEF RateAssumption, GatewayAssumption
  <2> QED
    BY <2>1 DEF GatewayInit
<1>4. /\ NewResource \in [status : {"active", "inactive"}, opens : Hours, closes : Hours]
      /\ NewResource.opens < NewResource.closes
  BY DEF NewResource, Hours, GatewayAssumption
<1>5. /\ resources \in [Resources -> {NoResource} \cup [status : {"active", "inactive"},
                                                        opens : Hours, closes : Hours]]
      /\ \A r \in Resources : resources[r] # NoResource => resources[r].opens < resources[r].closes
  BY <1>4 DEF GatewayInit
<1>6. /\ grants \subseteq Resources \X Users
      /\ bookings \in [Resources -> {NoBooking} \cup [user : Users, status : {"confirmed", "cancelled"}]]
      /\ waiting \in [Resources -> {NoEntry} \cup [user : Users, status : {"waiting", "cancelled"}]]
  BY DEF GatewayInit
<1>7. /\ jobs \in [Workers -> Jobs \cup {NoJob}]
      /\ \A w \in Workers : jobs[w] = NoJob
  BY DEF GatewayInit
<1>8. \A w \in Workers : Sound(jobs[w])
  BY <1>7 DEF Sound
<1> QED
  BY <1>1, <1>2, <1>3, <1>5, <1>6, <1>7, <1>8 DEF GatewayInv, GatewayTypeOK

LEMMA GatewayInvStep ==
    ASSUME GatewayAssumption, GatewayInv, [GatewayNext]_gatewayVars
    PROVE  GatewayInv'
<1>1. RateTypeOK'
  BY RateAssumption, RateStep, RateTypeStep DEF GatewayInv, GatewayTypeOK
<1>2. ASSUME NEW w \in Workers, Handle(w)
      PROVE  GatewayInv'
  <2>1. CASE StartThrottle(w)
    <3>1. UNCHANGED <<tables, jobs, now>>
      BY <2>1 DEF StartThrottle, ReadClock
    <3>2. jobs' = [jobs EXCEPT ![w] = jobs[w]] /\ jobs[w] \in Jobs \cup {NoJob} /\ Sound(jobs[w])
      BY <3>1 DEF GatewayInv, GatewayTypeOK
    <3> QED
      BY <1>1, <3>1, <3>2, OneJobStep
  <2>2. CASE AskRedis(w)
    <3>1. PICK refused \in BOOLEAN : NextThrottle(w, refused)
      BY <2>2 DEF AskRedis, Allows
    <3>2. Asking(w) /\ UNCHANGED tables /\ UNCHANGED now
      BY <2>2 DEF AskRedis, RunScript
    <3> QED
      BY <1>1, <3>1, <3>2, NextThrottleStep DEF Asking
  <2>3. CASE RedisFails(w)
    BY <1>1, <2>3, NextThrottleStep DEF RedisFails, FailOpen, Asking
  <2>4. CASE Authenticate(w)
    BY <1>1, <2>4, AuthenticateStep
  <2>5. CASE Throttled(w)
    BY <1>1, <2>5, EndStep DEF Throttled, rateVars
  <2>6. CASE Check(w)
    BY <1>1, <2>6, CheckStep
  <2>7. CASE \/ CreateResource(w) \/ UpdateResource(w) \/ GrantResourceAdmin(w)
             \/ RevokeResourceAdmin(w) \/ Book(w) \/ Cancel(w) \/ Join(w)
           \/ Leave(w) \/ Deactivate(w)
    BY <1>1, <2>7, WriteStep
  <2> QED
    BY <1>2, <2>1, <2>2, <2>3, <2>4, <2>5, <2>6, <2>7 DEF Handle
<1>3. CASE \E u \in Users : TokenExchange(u)
  BY <1>1, <1>3, TokenExchangeStep
<1>4. CASE \E w \in Workers, ask \in Asks : Arrive(w, ask)
  BY <1>1, <1>4, ArriveStep
<1>5. CASE Tick
  BY <1>1, <1>5, TickStep
<1>6. CASE UNCHANGED gatewayVars
  <2>1. UNCHANGED <<tables, jobs, now>>
    BY <1>6 DEF gatewayVars, rateVars, tables
  <2>2. GatewayTypeOK'
    BY <1>1, <2>1 DEF GatewayInv, GatewayTypeOK, tables, Jobs, Hours
  <2>3. \A w \in Workers : Sound(jobs[w])'
    BY <2>1 DEF GatewayInv, Sound, tables, Rightful, RowIsThere, Exists
  <2> QED
    BY <2>1, <2>2, <2>3 DEF GatewayInv, tables
<1> QED
  BY <1>2, <1>3, <1>4, <1>5, <1>6 DEF GatewayNext

LEMMA GatewayInvImplies ==
    ASSUME GatewayInv
    PROVE  GatewayTypeOK /\ HandledWithAuthority
<1>1. ASSUME NEW w \in Workers, jobs[w].pc = "checked"
      PROVE  jobs[w].valid /\ jobs[w].entitled
  <2>1. jobs[w] # NoJob /\ Sound(jobs[w])
    BY <1>1, JobType DEF GatewayInv
  <2> QED
    BY <1>1, <2>1 DEF Sound
<1> QED
  BY <1>1 DEF GatewayInv, HandledWithAuthority

\* Opening hours that every row of resources keeps in order, whichever two
\* changes race, and the types of everything else.
THEOREM GatewayTypeCorrect == GatewaySpec => []GatewayTypeOK
<1> USE GatewayAssumption
<1>1. GatewayInit => GatewayInv
  BY GatewayInvInit
<1>2. GatewayInv /\ [GatewayNext]_gatewayVars => GatewayInv'
  BY GatewayInvStep
<1>3. GatewayInv => GatewayTypeOK
  BY GatewayInvImplies
<1> QED
  BY <1>1, <1>2, <1>3, PTL DEF GatewaySpec

\* A request that is let pass came with a valid session of an active user who
\* had the right to what it asks at some moment since it arrived.
THEOREM OnlyAuthorityActs == GatewaySpec => []HandledWithAuthority
<1> USE GatewayAssumption
<1>1. GatewayInit => GatewayInv
  BY GatewayInvInit
<1>2. GatewayInv /\ [GatewayNext]_gatewayVars => GatewayInv'
  BY GatewayInvStep
<1>3. GatewayInv => HandledWithAuthority
  BY GatewayInvImplies
<1> QED
  BY <1>1, <1>2, <1>3, PTL DEF GatewaySpec

\* What passes through the gateway uses the buckets as RateLimit says.
THEOREM GatewayImplementsRateLimit == GatewaySpec => RateSpec
<1>1. GatewayInit => RateInit
  BY DEF GatewayInit
<1>2. GatewayTypeOK /\ [GatewayNext]_gatewayVars => [RateNext]_rateVars
  BY RateStep
<1> QED
  BY <1>1, <1>2, GatewayTypeCorrect, PTL DEF GatewaySpec, RateSpec

\* The throttles of the gateway grant no more than their buckets allow.
THEOREM GatewayStaysWithinLimit == GatewaySpec => []WithinLimit
BY GatewayImplementsRateLimit, GrantsStayWithinLimit, PTL

=============================================================================
