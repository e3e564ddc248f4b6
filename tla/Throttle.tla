------------------------------ MODULE Throttle ------------------------------
(***************************************************************************)
(* How the posting workers share one QuickBooks company: the gate that     *)
(* caps the jobs of a tenant (packages/queue/src/fairness.ts), the token   *)
(* bucket and the concurrency slots of a realm                             *)
(* (packages/qbo/src/rate-limiter.ts), and the request that goes through   *)
(* them (packages/qbo/src/client.ts).                                      *)
(*                                                                         *)
(* Each Lua script is one step.  Time is counted in the time it takes to   *)
(* refill one token; every worker reads a clock of its own, ahead of real  *)
(* time by at most MaxSkew.                                                *)
(***************************************************************************)
EXTENDS Integers, FiniteSets

CONSTANTS
  Workers,      \* slots of the posting workers, over all pods
  Capacity,     \* requestsPerMinute: tokens of a full bucket
  BucketTtl,    \* EXPIRE of the bucket
  GateLimit,    \* jobs of the tenant in flight
  SlotLimit,    \* maxConcurrent requests of the realm
  GateLease,    \* lease of a job, three request timeouts
  SlotLease,    \* lease of a request, two request timeouts
  Timeout,      \* request timeout, also the deadline of acquire()
  RetryAfters,  \* values of Retry-After
  MaxSkew,      \* bound: how far a clock is ahead
  MaxTime,      \* bound: the end of time
  MaxCrashes    \* bound: crashes and lost releases

Kinds == {"gate", "slot"}
Limit(k) == IF k = "gate" THEN GateLimit ELSE SlotLimit
LeaseTime(k) == IF k = "gate" THEN GateLease ELSE SlotLease

ASSUME ThrottleConstants ==
  /\ {Capacity, GateLimit, SlotLimit, GateLease, SlotLease} \subseteq Nat \ {0}
  /\ {Timeout, MaxSkew, MaxTime, MaxCrashes} \subseteq Nat
  /\ RetryAfters \subseteq Nat
  /\ BucketTtl \in Nat /\ BucketTtl >= Capacity  \* 120 s against the 60 s of a refill

VARIABLES
  now,      \* real time
  skew,     \* worker: how far its clock is ahead
  leases,   \* Redis: the two sorted sets, members with the end of their lease
  keyTtl,   \* Redis: time left to the key of a sorted set
  bucket,   \* Redis: tokens, the time they were counted at, time left to the key
  pc,       \* worker: the next statement
  held,     \* worker: the end of the lease it was given, of either kind
  limit,    \* worker: deadline of acquire(), then of the fetch
  crashes,  \* crashes and lost releases so far
  credit    \* history: a bucket refilled at every tick, while all clocks agree

redisVars == <<leases, keyTtl, bucket>>
vars == <<now, skew, redisVars, pc, held, limit, crashes, credit>>

-----------------------------------------------------------------------------
(* Types and initial state *)

InSlot == {"token", "fetch", "body"}       \* holds a slot; "token" is ensureToken
InGate == InSlot \cup {"rate", "slot"}     \* holds its place in the gate
Labels == InGate \cup {"idle"}

Lease == [owner : Workers, end : Nat]

TypeOK ==
  /\ now \in Nat
  /\ skew \in [Workers -> 0 .. MaxSkew]
  /\ leases \in [Kinds -> SUBSET Lease]
  /\ keyTtl \in [Kinds -> Nat]
  /\ bucket \in [tokens : 0 .. Capacity, ts : Nat, ttl : 0 .. BucketTtl]
  /\ pc \in [Workers -> Labels]
  /\ held \in [Workers -> [Kinds -> Nat]]
  /\ limit \in [Workers -> Nat]
  /\ crashes \in Nat
  /\ credit \in Int /\ credit <= Capacity

Init ==
  /\ now = 0
  /\ skew \in [Workers -> 0 .. MaxSkew]
  /\ leases = [k \in Kinds |-> {}]
  /\ keyTtl = [k \in Kinds |-> 0]
  /\ bucket = [tokens |-> Capacity, ts |-> 0, ttl |-> 0]
  /\ pc = [w \in Workers |-> "idle"]
  /\ held = [w \in Workers |-> [k \in Kinds |-> 0]]
  /\ limit = [w \in Workers |-> 0]
  /\ crashes = 0
  /\ credit = Capacity

-----------------------------------------------------------------------------
(* The scripts *)

Clock(w) == now + skew[w]
Agreed == \A v, w \in Workers : skew[v] = skew[w]
Goto(w, l) == pc' = [pc EXCEPT ![w] = l]
Deadline(w, t) == limit' = [limit EXCEPT ![w] = t]
Mine(k, w) == [owner |-> w, end |-> held[w][k]]

\* The worker is done with its job; it gave back, or lost, what it held.
Stop(w) ==
  /\ Goto(w, "idle") /\ Deadline(w, 0)
  /\ held' = [held EXCEPT ![w] = [k \in Kinds |-> 0]]
Least(a, b) == IF a < b THEN a ELSE b
Most(a, b) == IF a > b THEN a ELSE b

\* ZREMRANGEBYSCORE -inf now.
Pruned(k, w) == {l \in leases[k] : l.end > Clock(w)}

\* Mutant: off by one.
EnterOneMore(k, w) ==
  LET end == Clock(w) + LeaseTime(k) IN
    /\ Cardinality(Pruned(k, w)) <= Limit(k)
    /\ leases' = [leases EXCEPT ![k] = Pruned(k, w) \cup {[owner |-> w, end |-> end]}]
    /\ keyTtl' = [keyTtl EXCEPT ![k] = 2 * LeaseTime(k)]
    /\ held' = [held EXCEPT ![w][k] = end]

\* The acquire script: a lease if, after pruning, there is room for one.
Enter(k, w) ==
  LET end == Clock(w) + LeaseTime(k) IN
    /\ Cardinality(Pruned(k, w)) < Limit(k)
    /\ leases' = [leases EXCEPT ![k] = Pruned(k, w) \cup {[owner |-> w, end |-> end]}]
    /\ keyTtl' = [keyTtl EXCEPT ![k] = 2 * LeaseTime(k)]
    /\ held' = [held EXCEPT ![w][k] = end]

Denied(k, w) ==
  /\ Cardinality(Pruned(k, w)) >= Limit(k)
  /\ leases' = [leases EXCEPT ![k] = Pruned(k, w)]
  /\ UNCHANGED <<keyTtl, held>>

\* Mutant: no cap.
RefilledUncapped(t) ==
  IF bucket.ttl = 0 THEN Capacity ELSE bucket.tokens + Most(0, t - bucket.ts)

\* The lazy refill; a bucket without a key, or past its TTL, is full.
Refilled(t) ==
  IF bucket.ttl = 0 THEN Capacity
  ELSE Least(Capacity, bucket.tokens + Most(0, t - bucket.ts))

-----------------------------------------------------------------------------
(* A job and its requests *)

\* The job gets a place in the gate and begins its first request.
Admit(w) ==
  /\ pc[w] = "idle"
  /\ Enter("gate", w)
  /\ Goto(w, "rate")
  /\ Deadline(w, Clock(w) + Timeout)
  /\ UNCHANGED <<now, skew, bucket, crashes, credit>>

\* The job is delayed; it asks again later.
Defer(w) ==
  /\ pc[w] = "idle"
  /\ Denied("gate", w)
  /\ UNCHANGED <<now, skew, bucket, pc, limit, crashes, credit>>

\* Mutant: a grant leaves the time of the last refill as it was.
TakeTokenUndated(w) ==
  LET t == Clock(w) IN
    /\ pc[w] = "rate" /\ Refilled(t) >= 1
    /\ bucket' = [bucket EXCEPT !.tokens = Refilled(t) - 1, !.ttl = BucketTtl]
    /\ credit' = IF Agreed THEN credit - 1 ELSE credit
    /\ Goto(w, "slot")
    /\ UNCHANGED <<now, skew, leases, keyTtl, held, limit, crashes>>

\* The bucket grants a token.  Both outcomes write the caller's clock.
TakeToken(w) ==
  LET t == Clock(w) IN
    /\ pc[w] = "rate" /\ Refilled(t) >= 1
    /\ bucket' = [tokens |-> Refilled(t) - 1, ts |-> t, ttl |-> BucketTtl]
    /\ credit' = IF Agreed THEN credit - 1 ELSE credit
    /\ Goto(w, "slot")
    /\ UNCHANGED <<now, skew, leases, keyTtl, held, limit, crashes>>

\* No token: one refill is one tick away; past the deadline the job gives up and
\* its gate is released.
NoToken(w) ==
  LET t == Clock(w) IN
    /\ pc[w] = "rate" /\ Refilled(t) < 1
    /\ bucket' = [tokens |-> Refilled(t), ts |-> t, ttl |-> BucketTtl]
    /\ IF t + 1 > limit[w]
         THEN Stop(w) /\ leases' = [leases EXCEPT !["gate"] = @ \ {Mine("gate", w)}]
         ELSE UNCHANGED <<leases, pc, held, limit>>
    /\ UNCHANGED <<now, skew, keyTtl, crashes, credit>>

TakeSlot(w) ==
  /\ pc[w] = "slot"
  /\ Enter("slot", w)
  /\ Goto(w, "token") /\ Deadline(w, 0)
  /\ UNCHANGED <<now, skew, bucket, crashes, credit>>

NoSlot(w) ==
  /\ pc[w] = "slot"
  /\ Cardinality(Pruned("slot", w)) >= SlotLimit
  /\ IF Clock(w) > limit[w]
       THEN /\ Stop(w)
            /\ leases' = [leases EXCEPT !["slot"] = Pruned("slot", w), !["gate"] = @ \ {Mine("gate", w)}]
       ELSE /\ leases' = [leases EXCEPT !["slot"] = Pruned("slot", w)]
            /\ UNCHANGED <<pc, held, limit>>
  /\ UNCHANGED <<now, skew, keyTtl, bucket, crashes, credit>>

\* ensureToken is over, however long it waited for its lock; the fetch starts.
Fetch(w) ==
  /\ pc[w] = "token"
  /\ Goto(w, "fetch")
  /\ Deadline(w, now + Timeout)
  /\ UNCHANGED <<now, skew, redisVars, held, crashes, credit>>

\* The headers are in: the timer is cleared and the body read without one.
Headers(w) ==
  /\ pc[w] = "fetch"
  /\ Goto(w, "body") /\ Deadline(w, 0)
  /\ UNCHANGED <<now, skew, redisVars, held, crashes, credit>>

\* The finally of request() gives the slot back, and the job goes on.
NextRequest(w) ==
  /\ pc[w] \in {"fetch", "body"}
  /\ Goto(w, "rate") /\ Deadline(w, Clock(w) + Timeout)
  /\ leases' = [leases EXCEPT !["slot"] = @ \ {Mine("slot", w)}]
  /\ held' = [held EXCEPT ![w]["slot"] = 0]
  /\ UNCHANGED <<now, skew, keyTtl, bucket, crashes, credit>>

\* The job ends with its last answer, a timeout, a fault or a failed ensureToken,
\* and gives back both.
Finish(w) == Stop(w) /\ leases' = [k \in Kinds |-> leases[k] \ {Mine(k, w)}]

EndJob(w) ==
  /\ pc[w] \in InSlot /\ Finish(w)
  /\ UNCHANGED <<now, skew, keyTtl, bucket, crashes, credit>>

\* penalise: the bucket is emptied and dated in the future.
Penalise(w, r) == bucket' = [tokens |-> 0, ts |-> Clock(w) + r, ttl |-> BucketTtl]

\* The body is a fault that is classified as throttling: the whole fleet is slowed down,
\* and the error ends the job.
Throttled(w) ==
  /\ pc[w] = "body" /\ Finish(w)
  /\ \E r \in RetryAfters : Penalise(w, r)
  /\ credit' = 0
  /\ UNCHANGED <<now, skew, keyTtl, crashes>>

-----------------------------------------------------------------------------
(* Time and failures *)

\* The worker dies, or its releases do not reach Redis: the leases stay.
Vanish(w) ==
  /\ pc[w] # "idle" /\ crashes < MaxCrashes
  /\ crashes' = crashes + 1
  /\ Stop(w)
  /\ UNCHANGED <<now, skew, redisVars, credit>>

\* PEXPIRE of a sorted set.
KeyExpires(k) ==
  /\ leases[k] # {} /\ keyTtl[k] = 0
  /\ leases' = [leases EXCEPT ![k] = {}]
  /\ UNCHANGED <<now, skew, keyTtl, bucket, pc, held, limit, crashes, credit>>

\* A fetch does not outlast its timeout; nothing else of a request is bounded.
Tick ==
  /\ now < MaxTime
  /\ \A w \in Workers : pc[w] = "fetch" => now < limit[w]
  /\ now' = now + 1
  /\ keyTtl' = [k \in Kinds |-> Most(0, keyTtl[k] - 1)]
  /\ bucket' = [bucket EXCEPT !.ttl = Most(0, @ - 1)]
  /\ credit' = Least(Capacity, credit + 1)
  /\ UNCHANGED <<skew, leases, pc, held, limit, crashes>>

Next ==
  \/ \E w \in Workers :
       \/ Admit(w) \/ Defer(w) \/ TakeToken(w) \/ NoToken(w) \/ TakeSlot(w) \/ NoSlot(w)
       \/ Fetch(w) \/ Headers(w) \/ NextRequest(w) \/ EndJob(w) \/ Throttled(w) \/ Vanish(w)
  \/ \E k \in Kinds : KeyExpires(k)
  \/ Tick

Spec == Init /\ [][Next]_vars

-----------------------------------------------------------------------------
(* Properties *)

\* Who is at work under a lease of kind k that no clock says is over.
Working(k) ==
  {w \in Workers : /\ pc[w] \in IF k = "gate" THEN InGate ELSE InSlot
                   /\ held[w][k] > now + MaxSkew}

\* Neither the gate nor the realm is over-subscribed by workers within their
\* lease, whatever crashes, however the pods' clocks differ by up to MaxSkew, and
\* although every worker prunes what its own clock says is over.
WithinLimits == \A k \in Kinds : Cardinality(Working(k)) <= Limit(k)

\* With clocks that agree the lazy bucket, which expires and is then taken for
\* full, grants nothing that a bucket refilled at every tick would not grant.
RateBounded == Agreed => credit >= 0
=============================================================================
