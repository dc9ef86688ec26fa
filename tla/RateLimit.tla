----------------------------- MODULE RateLimit -----------------------------
(***************************************************************************)
(* The token buckets of backend/kairos/core/rate_limit.py: the script that *)
(* Redis runs atomically on one bucket, the time that a process reads      *)
(* before it calls it, the expiry of an idle bucket, and the answer when   *)
(* Redis is not there.                                                     *)
(*                                                                         *)
(* capacity / window_seconds is not a whole number; tokens are counted in  *)
(* parts of 1 / Window, so that one tick refills Capacity parts and a      *)
(* request takes Window parts.                                             *)
(***************************************************************************)
EXTENDS Integers

CONSTANTS Workers,  \* processes that serve requests
          Keys,     \* the buckets: one for a principal, one for an address
          Capacity, \* capacity of each bucket
          Window,   \* window_seconds
          Delay,    \* how old the time may be that a script runs with
          MaxTime,  \* bound: ticks of the clock
          Watched   \* the bucket the history is about

\* A process waits one second at most for Redis (socket_timeout), which is
\* shorter than a window.
ASSUME RateAssumption ==
    /\ Capacity \in [Keys -> Nat \ {0}]
    /\ Window \in Nat \ {0}
    /\ Delay \in 0..Window
    /\ MaxTime \in Nat
    /\ Watched \in Keys

VARIABLES now,     \* the clock, the same in every process and in Redis
          buckets, \* the hashes in Redis
          stamps,  \* the check a process is at, with the time it has read
          watch    \* history: what Watched has granted since a check of it, the
                   \* times of that check (base) and of the last one, and by how
                   \* much checks were earlier than the check before (back)

rateVars == <<now, buckets, stamps, watch>>

Times == 0..MaxTime
NoBucket == [tokens |-> 0, last |-> 0, expires |-> 0]
NoStamp == [at |-> -1]

Full(k) == Capacity[k] * Window

RateTypeOK ==
    /\ now \in Times
    /\ buckets \in [Keys -> [tokens : Nat, last : Times, expires : 0..(MaxTime + 2 * Window)]]
    /\ \A k \in Keys : buckets[k].tokens <= Full(k)
    /\ stamps \in [Workers -> {NoStamp} \cup [key : Keys, at : Times]]
    /\ watch \in [base : Times, last : Times, spent : Nat, back : Nat]

RateInit ==
    /\ now = 0
    /\ buckets = [k \in Keys |-> NoBucket]
    /\ stamps = [w \in Workers |-> NoStamp]
    /\ watch = [base |-> 0, last |-> 0, spent |-> 0, back |-> 0]

-----------------------------------------------------------------------------
(* The script.                                                              *)

\* Fault: a bucket is kept for one window only.
KeptForAWindow == now + Window

\* EXPIRE key, 2 * window_seconds.
Expiry == now + 2 * Window

Live(k) == now < buckets[k].expires

Least(a, b) == IF a < b THEN a ELSE b

\* What is in the bucket at time at; an elapsed time below zero counts as zero.
Refilled(k, at) ==
    IF ~Live(k) THEN Full(k)
    ELSE Least(Full(k),
               buckets[k].tokens
                   + Capacity[k] * (IF at < buckets[k].last THEN 0 ELSE at - buckets[k].last))

Allows(k, at) == Refilled(k, at) >= Window

Cost(k, at) == IF Allows(k, at) THEN Window ELSE 0

\* last_refill becomes the time of this check, also when that is earlier.
AfterCheck(k, at) == [tokens |-> Refilled(k, at) - Cost(k, at), last |-> at, expires |-> Expiry]

Continued(k, at) == [base  |-> watch.base,
                     last  |-> at,
                     spent |-> watch.spent + Cost(k, at),
                     back  |-> watch.back + (IF at < watch.last THEN watch.last - at ELSE 0)]

Restarted(k, at) == [base |-> at, last |-> at, spent |-> Cost(k, at), back |-> 0]

\* The history may begin anew with any check.
Observe(k, at) == IF k = Watched THEN watch' \in {Continued(k, at), Restarted(k, at)}
                                 ELSE watch' = watch

-----------------------------------------------------------------------------
(* TokenBucket.check.                                                       *)

\* now = time.time()
ReadClock(w, k) ==
    /\ stamps[w] = NoStamp
    /\ stamps' = [stamps EXCEPT ![w] = [key |-> k, at |-> now]]
    /\ UNCHANGED <<now, buckets, watch>>

RunScript(w) ==
    LET k == stamps[w].key
        at == stamps[w].at
    IN  /\ stamps[w] # NoStamp
        /\ now <= at + Delay
        /\ buckets' = [buckets EXCEPT ![k] = AfterCheck(k, at)]
        /\ Observe(k, at)
        /\ stamps' = [stamps EXCEPT ![w] = NoStamp]
        /\ UNCHANGED now

\* Redis is not there, or not in time: the caller is told that it is allowed.
FailOpen(w) ==
    /\ stamps[w] # NoStamp
    /\ stamps' = [stamps EXCEPT ![w] = NoStamp]
    /\ UNCHANGED <<now, buckets, watch>>

RateTick ==
    /\ now < MaxTime
    /\ now' = now + 1
    /\ UNCHANGED <<buckets, stamps, watch>>

RateNext ==
    \/ \E w \in Workers : \/ \E k \in Keys : ReadClock(w, k)
                          \/ RunScript(w)
                          \/ FailOpen(w)
    \/ RateTick

RateSpec == RateInit /\ [][RateNext]_rateVars

-----------------------------------------------------------------------------
(* Properties.                                                              *)

\* From any check on, a bucket grants no more than its capacity and what its
\* rate refills until the last check (TokenBucket), plus what is refilled a
\* second time when processes reach Redis in another order than they read the
\* clock; forgetting an idle bucket grants nothing more.
WithinLimit ==
    watch.spent <= Full(Watched)
                     + Capacity[Watched] * (watch.last - watch.base + watch.back)
=============================================================================
