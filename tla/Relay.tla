------------------------------- MODULE Relay -------------------------------
(***************************************************************************)
(* The transactional outbox (packages/db/src/outbox.ts) and the relay that *)
(* drains it into BullMQ (services/relay/src/relay.ts).                    *)
(*                                                                         *)
(* A drain is one database transaction: a batch of rows is locked, each    *)
(* row is published, and what was published is marked before the commit.   *)
(* The queue takes no part in that transaction: when it is rolled back,    *)
(* the jobs already added stay.  Several replicas drain side by side.      *)
(***************************************************************************)
EXTENDS Naturals, FiniteSets

CONSTANTS
  LastRow,      \* outbox rows are numbered 1 .. LastRow by created_at
  Relays,       \* relay replicas
  Routed,       \* rows whose event type has a route; the others are dropped when met
  Ids,          \* BullMQ job ids
  idOf,         \* the deterministic job id of a routed row
  BatchSize,    \* rows per drain (200 in the code)
  MaxAttempts,  \* failed attempts after which a row is parked (10 in the code)
  MaxOutages,   \* bound: times Redis refuses commands for a while
  MaxAborts     \* bound: drains rolled back

Rows == 1 .. LastRow

ASSUME RelayConstants ==
  /\ {LastRow, MaxOutages, MaxAborts} \subseteq Nat
  /\ BatchSize \in Nat \ {0} /\ MaxAttempts \in Nat \ {0}
  /\ Routed \subseteq Rows
  /\ idOf \in [Routed -> Ids]

VARIABLES
  outbox,    \* rows not yet committed, pending, published, pruned
  attempts,  \* failed attempts of a row, counted up to MaxAttempts
  held,      \* relay: the rows its open transaction has locked
  done,      \* relay: rows of the batch published or skipped so far
  bad,       \* relay: rows of the batch whose publication failed
  aborts,    \* drains rolled back so far
  redis,     \* whether Redis accepts commands
  outages,   \* outages so far
  kept,      \* BullMQ: the job ids it knows, finished jobs still kept included
  sent,      \* rows for which an add returned (history)
  created    \* rows for which a job was created (history)

relayVars == <<held, done, bad, aborts>>
queueVars == <<redis, outages, kept, sent, created>>
vars == <<outbox, attempts, relayVars, queueVars>>

-----------------------------------------------------------------------------

TypeOK ==
  /\ outbox \in [Rows -> {"none", "pending", "published", "pruned"}]
  /\ attempts \in [Rows -> 0 .. MaxAttempts]
  /\ held \in [Relays -> SUBSET Rows]
  /\ done \in [Relays -> SUBSET Rows]
  /\ bad \in [Relays -> SUBSET Rows]
  /\ aborts \in 0 .. MaxAborts
  /\ redis \in {"up", "down"} /\ outages \in 0 .. MaxOutages
  /\ kept \subseteq Ids /\ sent \subseteq Routed /\ created \subseteq Routed

Init ==
  /\ outbox = [r \in Rows |-> "none"]
  /\ attempts = [r \in Rows |-> 0]
  /\ held = [x \in Relays |-> {}]
  /\ done = [x \in Relays |-> {}]
  /\ bad = [x \in Relays |-> {}]
  /\ aborts = 0
  /\ redis = "up" /\ outages = 0
  /\ kept = {} /\ sent = {} /\ created = {}

-----------------------------------------------------------------------------
(* Writers of the outbox *)

\* A business transaction commits its event.  created_at is when it began, so rows do
\* not become visible in the order of their numbers.
Enqueue(r) ==
  /\ outbox[r] = "none"
  /\ outbox' = [outbox EXCEPT ![r] = "pending"]
  /\ UNCHANGED <<attempts, relayVars, queueVars>>

-----------------------------------------------------------------------------
(* The relay *)

Pending == {r \in Rows : outbox[r] = "pending"}
Locked == UNION {held[x] : x \in Relays}

\* Mutant: the rows are read without FOR UPDATE SKIP LOCKED.
ClaimableUnlocked == Pending

\* WHERE published_at IS NULL ... FOR UPDATE SKIP LOCKED
Claimable == Pending \ Locked

\* ORDER BY created_at LIMIT BatchSize
Batch == {r \in Claimable : Cardinality({s \in Claimable : s < r}) < BatchSize}

\* drainOnce opens its transaction; an empty batch is no drain.
Claim(x) ==
  /\ held[x] = {} /\ Batch # {}
  /\ held' = [held EXCEPT ![x] = Batch]
  /\ UNCHANGED <<outbox, attempts, done, bad, aborts, queueVars>>

Unprocessed(x) == held[x] \ (done[x] \cup bad[x])

\* The row drainOnce's loop is at: the batch is processed in its order.
Current(x, r) == r \in Unprocessed(x) /\ \A s \in Unprocessed(x) : r <= s

Parked(r) == attempts[r] >= MaxAttempts

\* QueueRegistry.add: an id BullMQ knows is ignored.
Add(r) ==
  /\ kept' = kept \cup {idOf[r]}
  /\ created' = IF idOf[r] \in kept THEN created ELSE created \cup {r}

\* Mutant: an event without a route is sent all the same.
SkipSent(x, r) ==
  /\ Current(x, r) /\ r \notin Routed
  /\ sent' = sent \cup {r}
  /\ done' = [done EXCEPT ![x] = @ \cup {r}]
  /\ UNCHANGED <<outbox, attempts, held, bad, aborts, redis, outages, kept, created>>

\* No route: audit-only and unknown events are dropped.
Skip(x, r) ==
  /\ Current(x, r) /\ r \notin Routed
  /\ done' = [done EXCEPT ![x] = @ \cup {r}]
  /\ UNCHANGED <<outbox, attempts, held, bad, aborts, queueVars>>

\* Too many failed attempts: the row is left unpublished, without another try.
ParkRow(x, r) ==
  /\ Current(x, r) /\ r \in Routed /\ Parked(r)
  /\ bad' = [bad EXCEPT ![x] = @ \cup {r}]
  /\ UNCHANGED <<outbox, attempts, held, done, aborts, queueVars>>

\* The route adds the job.
Publish(x, r) ==
  /\ Current(x, r) /\ r \in Routed /\ ~Parked(r)
  /\ redis = "up"
  /\ Add(r)
  /\ sent' = sent \cup {r}
  /\ done' = [done EXCEPT ![x] = @ \cup {r}]
  /\ UNCHANGED <<outbox, attempts, held, bad, aborts, redis, outages>>

\* The route throws: Redis refuses the command.
PublishFails(x, r) ==
  /\ Current(x, r) /\ r \in Routed /\ ~Parked(r)
  /\ redis = "down"
  /\ bad' = [bad EXCEPT ![x] = @ \cup {r}]
  /\ UNCHANGED <<outbox, attempts, held, done, aborts, queueVars>>

EndDrain(x) ==
  /\ held' = [held EXCEPT ![x] = {}]
  /\ done' = [done EXCEPT ![x] = {}]
  /\ bad' = [bad EXCEPT ![x] = {}]

\* Mutant: the whole batch is marked.
CommitMarksBatch(x) ==
  /\ held[x] # {} /\ Unprocessed(x) = {}
  /\ outbox' = [r \in Rows |-> IF r \in held[x] THEN "published" ELSE outbox[r]]
  /\ UNCHANGED attempts
  /\ EndDrain(x)
  /\ UNCHANGED <<aborts, queueVars>>

\* Mutant: the first failure ends the drain without a mark on the rows published before.
CommitAllOrNothing(x) ==
  /\ held[x] # {} /\ Unprocessed(x) = {}
  /\ outbox' = [r \in Rows |-> IF r \in done[x] /\ bad[x] = {} THEN "published" ELSE outbox[r]]
  /\ attempts' = [r \in Rows |-> IF r \in bad[x] /\ ~Parked(r) THEN attempts[r] + 1 ELSE attempts[r]]
  /\ EndDrain(x)
  /\ UNCHANGED <<aborts, queueVars>>

\* markFailed of every failed row, markPublished of the others, COMMIT.
Commit(x) ==
  /\ held[x] # {} /\ Unprocessed(x) = {}
  /\ outbox' = [r \in Rows |-> IF r \in done[x] THEN "published" ELSE outbox[r]]
  /\ attempts' = [r \in Rows |-> IF r \in bad[x] /\ ~Parked(r) THEN attempts[r] + 1 ELSE attempts[r]]
  /\ EndDrain(x)
  /\ UNCHANGED <<aborts, queueVars>>

\* The replica dies or a statement fails: the transaction is rolled back, its locks are
\* gone, and what was added to the queue stays there.
Abort(x) ==
  /\ held[x] # {} /\ aborts < MaxAborts
  /\ aborts' = aborts + 1
  /\ EndDrain(x)
  /\ UNCHANGED <<outbox, attempts, queueVars>>

\* The hourly prune deletes published rows past retention.
Prune(r) ==
  /\ outbox[r] = "published"
  /\ outbox' = [outbox EXCEPT ![r] = "pruned"]
  /\ UNCHANGED <<attempts, relayVars, queueVars>>

-----------------------------------------------------------------------------
(* Redis and BullMQ *)

\* Redis refuses commands (out of memory, read-only after a failover) ...
RedisFails ==
  /\ redis = "up" /\ outages < MaxOutages
  /\ redis' = "down" /\ outages' = outages + 1
  /\ UNCHANGED <<outbox, attempts, relayVars, kept, sent, created>>

\* ... and recovers.
RedisRecovers ==
  /\ redis = "down"
  /\ redis' = "up"
  /\ UNCHANGED <<outbox, attempts, relayVars, outages, kept, sent, created>>

\* A finished job is removed (removeOnComplete, removeOnFail).
Remove(k) ==
  /\ k \in kept
  /\ kept' = kept \ {k}
  /\ UNCHANGED <<outbox, attempts, relayVars, redis, outages, sent, created>>

-----------------------------------------------------------------------------

Drain(x) ==
  \/ Claim(x) \/ Commit(x)
  \/ \E r \in Rows : Skip(x, r) \/ ParkRow(x, r) \/ Publish(x, r) \/ PublishFails(x, r)

Next ==
  \/ \E x \in Relays : Drain(x) \/ Abort(x)
  \/ \E r \in Rows : Enqueue(r) \/ Prune(r)
  \/ \E k \in Ids : Remove(k)
  \/ RedisFails \/ RedisRecovers

Spec == Init /\ [][Next]_vars

\* The loop of runRelay goes on for ever and restarts after a rollback, and Redis
\* recovers.  Nothing is assumed of writers, of the prune, or of finished jobs.
Fairness == (\A x \in Relays : WF_vars(Drain(x))) /\ WF_vars(RedisRecovers)

FairSpec == Spec /\ Fairness

-----------------------------------------------------------------------------
(* Properties *)

\* At-least-once, never at-most-once: a routed row counts as published, or is deleted, only
\* after an add for it has returned, whatever rolls back in between.
PublishedWasSent ==
  \A r \in Routed : outbox[r] \in {"published", "pruned"} => r \in sent

\* Replicas drain disjoint slices, and only of rows that are still pending: no row is
\* published by two open transactions.
DisjointSlices ==
  /\ \A x, y \in Relays : x # y => held[x] \cap held[y] = {}
  /\ \A x \in Relays : held[x] \subseteq Pending

\* As long as fewer rows are parked than fit in a batch, every committed row that is not
\* parked itself is eventually published: parked rows, crashes in mid-batch and outages
\* delay the others and never block them.
DeliveredUnlessParked ==
  \A r \in Rows :
    outbox[r] = "pending" ~>
      \/ outbox[r] \in {"published", "pruned"}
      \/ Parked(r)
      \/ Cardinality({s \in Pending : Parked(s)}) >= BatchSize
=============================================================================
