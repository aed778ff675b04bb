----------------------------- MODULE RateLimiter -----------------------------
(***************************************************************************)
(* SlidingWindowRateLimiter (abuse.py), the request budget of the API, the *)
(* login and the upload routes.  A request reads the clock, waits for the  *)
(* lock of the limiter and is then counted at the time it read, so that    *)
(* the times of a bucket need not be in order.  Nothing depends on who     *)
(* waits: a request is one step, taken with any recent reading of the      *)
(* clock.  Times are in ticks; the answer to a refused request is in whole *)
(* seconds.                                                                *)
(*                                                                         *)
(* `accepted' is a history variable: the bag of the requests that were let *)
(* through and are recent enough to matter.                                *)
(***************************************************************************)
EXTENDS Integers, Sequences, Bags, FiniteSets, FiniteSetsExt, Functions

CONSTANTS
    Identifiers,   \* the identities of the clients
    Overflow,      \* the bucket shared by the identities that find no room
    Limit, Window, MaxIdentifiers,
    Second,        \* ticks of a second
    Skew,          \* bound: ticks between the clock reading and the lock
    MaxTime        \* bound on the clock

\* What __init__ checks, and a clock that a request reads before it is checked.
LimiterConstants ==
    /\ Overflow \notin Identifiers
    /\ {Limit, Window, MaxIdentifiers, Second} \subseteq Nat \ {0}
    /\ Skew \in 0..Window /\ MaxTime \in Nat

VARIABLES clock, attempts, accepted

vars == <<clock, attempts, accepted>>

Buckets == Identifiers \cup {Overflow}

Init ==
    /\ clock = 0 /\ attempts = << >> /\ accepted = EmptyBag

\* Mutant: the window is a tick short.
LiveShort(times, cutoff) ==
    LET fresh == {i \in DOMAIN times : times[i] > cutoff + 1}
    IN  IF fresh = {} THEN << >> ELSE SubSeq(times, Min(fresh), Len(times))

\* What is left of a bucket when the expired times are popped from its front:
\* everything from the first time that is not expired.
Live(times, cutoff) ==
    LET fresh == {i \in DOMAIN times : times[i] > cutoff}
    IN  IF fresh = {} THEN << >> ELSE SubSeq(times, Min(fresh), Len(times))

\* _discard_expired: empty buckets are forgotten.
DiscardExpired(cutoff) ==
    LET live == [b \in DOMAIN attempts |-> Live(attempts[b], cutoff)]
    IN  Restrict(live, {b \in DOMAIN live : live[b] # << >>})

\* The bucket that counts the request.
Bucket(id, buckets) ==
    LET reserved == IF Overflow \in DOMAIN buckets THEN 0 ELSE 1
    IN  IF id \in DOMAIN buckets \/ Cardinality(DOMAIN buckets) < MaxIdentifiers - reserved
        THEN id ELSE Overflow

\* math.ceil of the seconds until the oldest counted request expires.
RetryAfter(head, now) == Max({1, -((-(head + Window - now)) \div Second)})

Full(times) == Len(times) >= Limit

Recent(log, time) == Restrict(log, {a \in DOMAIN log : a.time > time - Window})

\* The readings of the clock that a request can come with when it has the lock.
Readings == Max({0, clock - Skew})..clock

\* check, under the lock
Check(id, now) ==
    LET kept   == DiscardExpired(now - Window)
        bucket == Bucket(id, kept)
        times  == IF bucket \in DOMAIN kept THEN kept[bucket] ELSE << >>
    IN
    /\ IF Full(times)
       THEN attempts' = kept /\ UNCHANGED accepted
       ELSE /\ attempts' = [b \in DOMAIN kept \cup {bucket} |->
                               IF b = bucket THEN Append(times, now) ELSE kept[b]]
            /\ accepted' = accepted (+) SetToBag({[id |-> id, bucket |-> bucket, time |-> now]})
    /\ UNCHANGED clock

Tick ==
    /\ clock < MaxTime
    /\ clock' = clock + 1
    /\ accepted' = Recent(accepted, clock + 1)
    /\ UNCHANGED attempts

Next == Tick \/ \E id \in Identifiers, now \in Readings : Check(id, now)

Spec == Init /\ [][Next]_vars

-----------------------------------------------------------------------------

\* Buckets hold at most Limit times each, none of them in the future.
TypeOK ==
    /\ clock \in 0..MaxTime
    /\ DOMAIN attempts \subseteq Buckets
    /\ \A b \in DOMAIN attempts :
          Len(attempts[b]) \in 1..Limit /\ Range(attempts[b]) \subseteq 0..clock

\* maximum_identifiers bounds the memory of the limiter, the overflow bucket
\* included, through every expiry and return of that bucket.
BucketsBounded == Cardinality(DOMAIN attempts) <= MaxIdentifiers

\* No bucket lets more than Limit requests through within a window, shortened
\* by the time a request may wait for the lock, and no client more than twice
\* that, although it may change between the overflow bucket and its own.
BudgetHeld ==
    \A t \in 0..clock :
        LET inWindow == {a \in DOMAIN accepted : a.time <= t /\ a.time > t - (Window - Skew)}
            Count(A) == MapThenSumSet(LAMBDA a : accepted[a], A)
        IN  /\ \A b \in Buckets : Count({a \in inWindow : a.bucket = b}) <= Limit
            /\ \A id \in Identifiers : Count({a \in inWindow : a.id = id}) <= 2 * Limit

\* A client that is refused and waits as long as Retry-After says is let
\* through, unless the bucket has let another request through since.
RetryAfterSuffices ==
    \A b \in DOMAIN attempts, now \in 0..clock :
        LET times == Live(attempts[b], now - Window) IN
        Full(times)
           => Len(Live(times, now + Second * RetryAfter(times[1], now) - Window)) < Limit

\* The limiter bounds its memory and its clients, and keeps what it promises them.
Consistent == TypeOK /\ BucketsBounded /\ BudgetHeld /\ RetryAfterSuffices
=============================================================================
