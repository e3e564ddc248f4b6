---------------------------- MODULE RelayProofs ----------------------------
(***************************************************************************)
(* Theorems about Relay, for any number of rows and replicas, any batch    *)
(* size, and any number of outages, rollbacks and failed attempts.         *)
(*                                                                         *)
(* PublishedWasSent is not inductive: whether a commit may mark a row      *)
(* depends on what the drain has done, and whether two commits can mark    *)
(* the same row depends on the locks.  RelayInv adds both.                 *)
(***************************************************************************)
EXTENDS Relay, TLAPS

\* What a drain counts as handled is part of what it has locked.
DrainsOwnRows ==
  \A x \in Relays : done[x] \subseteq held[x] /\ bad[x] \subseteq held[x]

\* A routed row that a drain counts as handled was sent.
HandledWasSent == \A x \in Relays : \A r \in Routed : r \in done[x] => r \in sent

RelayInv == DisjointSlices /\ DrainsOwnRows /\ HandledWasSent /\ PublishedWasSent

-----------------------------------------------------------------------------

LEMMA RowsOfConstants == Routed \subseteq Rows /\ MaxAttempts \in Nat
BY RelayConstants

\* A batch is made of pending rows that no open transaction has locked.
LEMMA BatchIsFree ==
  ASSUME NEW x \in Relays
  PROVE  Batch \subseteq Pending /\ Batch \cap held[x] = {} /\ Pending \subseteq Rows
BY DEF Batch, Claimable, Pending, Locked

LEMMA InitEstablishes == Init => TypeOK /\ RelayInv
BY RelayConstants
   DEF Init, TypeOK, RelayInv, DisjointSlices, DrainsOwnRows, HandledWasSent,
       PublishedWasSent, Rows

-----------------------------------------------------------------------------
(* Types *)

LEMMA TypeStep == TypeOK /\ [Next]_vars => TypeOK'
<1> SUFFICES ASSUME TypeOK, [Next]_vars PROVE TypeOK'
  OBVIOUS
<1> USE RelayConstants
<1>1. ASSUME NEW r \in Rows, Enqueue(r) PROVE TypeOK'
  BY <1>1 DEF Enqueue, TypeOK, relayVars, queueVars
<1>2. ASSUME NEW x \in Relays, Claim(x) PROVE TypeOK'
  BY <1>2, BatchIsFree DEF Claim, TypeOK, queueVars
<1>3. ASSUME NEW x \in Relays, NEW r \in Rows, Skip(x, r) PROVE TypeOK'
  BY <1>3 DEF Skip, TypeOK, queueVars
<1>4. ASSUME NEW x \in Relays, NEW r \in Rows, ParkRow(x, r) PROVE TypeOK'
  BY <1>4 DEF ParkRow, TypeOK, queueVars
<1>5. ASSUME NEW x \in Relays, NEW r \in Rows, Publish(x, r) PROVE TypeOK'
  BY <1>5 DEF Publish, Add, TypeOK
<1>6. ASSUME NEW x \in Relays, NEW r \in Rows, PublishFails(x, r) PROVE TypeOK'
  BY <1>6 DEF PublishFails, TypeOK, queueVars
<1>7. ASSUME NEW x \in Relays, Commit(x) PROVE TypeOK'
  BY <1>7 DEF Commit, EndDrain, Parked, TypeOK, queueVars
<1>8. ASSUME NEW x \in Relays, Abort(x) PROVE TypeOK'
  BY <1>8 DEF Abort, EndDrain, TypeOK, queueVars
<1>9. ASSUME NEW r \in Rows, Prune(r) PROVE TypeOK'
  BY <1>9 DEF Prune, TypeOK, relayVars, queueVars
<1>10. ASSUME NEW k \in Ids, Remove(k) PROVE TypeOK'
  BY <1>10 DEF Remove, TypeOK, relayVars
<1>11. CASE RedisFails
  BY <1>11 DEF RedisFails, TypeOK, relayVars
<1>12. CASE RedisRecovers
  BY <1>12 DEF RedisRecovers, TypeOK, relayVars
<1>13. CASE UNCHANGED vars
  BY <1>13 DEF vars, TypeOK, relayVars, queueVars
<1> QED
  BY <1>1, <1>2, <1>3, <1>4, <1>5, <1>6, <1>7, <1>8, <1>9, <1>10, <1>11, <1>12, <1>13
     DEF Next, Drain

-----------------------------------------------------------------------------
(* The invariant *)

\* Opening a drain locks rows that are free, and handles none of them.
LEMMA ClaimKeeps ==
  ASSUME TypeOK, RelayInv, NEW x \in Relays, Claim(x)
  PROVE  RelayInv'
<1>1. Batch \subseteq Pending /\ \A y \in Relays : Batch \cap held[y] = {}
  BY BatchIsFree
<1>2. /\ held' = [held EXCEPT ![x] = Batch]
      /\ UNCHANGED <<outbox, done, bad, sent>>
      /\ held[x] = {}
  BY DEF Claim, queueVars
<1>3. DisjointSlices'
  BY <1>1, <1>2 DEF RelayInv, DisjointSlices, Pending, TypeOK
<1>4. DrainsOwnRows'
  BY <1>2 DEF RelayInv, DrainsOwnRows, TypeOK
<1>5. HandledWasSent' /\ PublishedWasSent'
  BY <1>2 DEF RelayInv, HandledWasSent, PublishedWasSent
<1> QED
  BY <1>3, <1>4, <1>5 DEF RelayInv

\* The steps inside a drain handle a row of it; only an add handles a routed one.
LEMMA HandlingKeeps ==
  ASSUME TypeOK, RelayInv, NEW x \in Relays, NEW r \in Rows,
         Skip(x, r) \/ ParkRow(x, r) \/ Publish(x, r) \/ PublishFails(x, r)
  PROVE  RelayInv'
<1>1. /\ r \in held[x]
      /\ UNCHANGED <<outbox, held>>
      /\ \/ done' = [done EXCEPT ![x] = @ \cup {r}] /\ bad' = bad
         \/ bad' = [bad EXCEPT ![x] = @ \cup {r}] /\ done' = done
      /\ sent \subseteq sent'
  BY DEF Skip, ParkRow, Publish, PublishFails, Current, Unprocessed, queueVars
<1>2. done' = [done EXCEPT ![x] = @ \cup {r}] /\ r \in Routed /\ done' # done => r \in sent'
  BY DEF Skip, ParkRow, Publish, PublishFails
<1>3. DisjointSlices'
  BY <1>1 DEF RelayInv, DisjointSlices, Pending
<1>4. DrainsOwnRows'
  BY <1>1 DEF RelayInv, DrainsOwnRows, TypeOK
<1>5. HandledWasSent'
  BY <1>1, <1>2 DEF RelayInv, HandledWasSent, TypeOK
<1>6. PublishedWasSent'
  BY <1>1 DEF RelayInv, PublishedWasSent
<1> QED
  BY <1>3, <1>4, <1>5, <1>6 DEF RelayInv

\* A commit marks rows of its own slice, which the other drains do not hold.
LEMMA CommitKeeps ==
  ASSUME TypeOK, RelayInv, NEW x \in Relays, Commit(x)
  PROVE  RelayInv'
<1>1. /\ outbox' = [r \in Rows |-> IF r \in done[x] THEN "published" ELSE outbox[r]]
      /\ EndDrain(x)
      /\ sent' = sent
  BY DEF Commit, queueVars
<1>2. \A y \in Relays : /\ held'[y] = IF y = x THEN {} ELSE held[y]
                        /\ done'[y] = IF y = x THEN {} ELSE done[y]
                        /\ bad'[y] = IF y = x THEN {} ELSE bad[y]
  BY <1>1 DEF EndDrain, TypeOK
<1>3. \A y \in Relays : y # x => held[y] \cap done[x] = {}
  BY DEF RelayInv, DisjointSlices, DrainsOwnRows
<1>4. DisjointSlices'
  BY <1>1, <1>2, <1>3 DEF RelayInv, DisjointSlices, Pending, TypeOK
<1>5. DrainsOwnRows'
  BY <1>2 DEF RelayInv, DrainsOwnRows
<1>6. HandledWasSent'
  BY <1>1, <1>2 DEF RelayInv, HandledWasSent
<1>7. PublishedWasSent'
  BY <1>1, RowsOfConstants DEF RelayInv, PublishedWasSent, HandledWasSent
<1> QED
  BY <1>4, <1>5, <1>6, <1>7 DEF RelayInv

LEMMA AbortKeeps ==
  ASSUME TypeOK, RelayInv, NEW x \in Relays, Abort(x)
  PROVE  RelayInv'
<1>1. EndDrain(x) /\ UNCHANGED <<outbox, sent>>
  BY DEF Abort, queueVars
<1>2. \A y \in Relays : /\ held'[y] = IF y = x THEN {} ELSE held[y]
                        /\ done'[y] = IF y = x THEN {} ELSE done[y]
                        /\ bad'[y] = IF y = x THEN {} ELSE bad[y]
  BY <1>1 DEF EndDrain, TypeOK
<1>3. DisjointSlices'
  BY <1>1, <1>2 DEF RelayInv, DisjointSlices, Pending
<1>4. DrainsOwnRows'
  BY <1>2 DEF RelayInv, DrainsOwnRows
<1>5. HandledWasSent' /\ PublishedWasSent'
  BY <1>1, <1>2 DEF RelayInv, HandledWasSent, PublishedWasSent
<1> QED
  BY <1>3, <1>4, <1>5 DEF RelayInv

\* Writers and the prune touch rows no drain has locked, and mark none.
LEMMA RowStepKeeps ==
  ASSUME TypeOK, RelayInv, NEW r \in Rows, Enqueue(r) \/ Prune(r)
  PROVE  RelayInv'
<1>1. /\ UNCHANGED <<held, done, bad, sent>>
      /\ outbox[r] # "pending"
      /\ \/ outbox' = [outbox EXCEPT ![r] = "pending"]
         \/ outbox[r] = "published" /\ outbox' = [outbox EXCEPT ![r] = "pruned"]
  BY DEF Enqueue, Prune, relayVars, queueVars
<1>2. DisjointSlices'
  BY <1>1 DEF RelayInv, DisjointSlices, Pending, TypeOK
<1>3. DrainsOwnRows' /\ HandledWasSent'
  BY <1>1 DEF RelayInv, DrainsOwnRows, HandledWasSent
<1>4. PublishedWasSent'
  BY <1>1, RowsOfConstants DEF RelayInv, PublishedWasSent, TypeOK
<1> QED
  BY <1>2, <1>3, <1>4 DEF RelayInv

\* Redis and the removal of finished jobs change nothing the invariant is about.
LEMMA QueueStepKeeps ==
  ASSUME RelayInv, UNCHANGED <<outbox, held, done, bad, sent>>
  PROVE  RelayInv'
BY DEF RelayInv, DisjointSlices, DrainsOwnRows, HandledWasSent, PublishedWasSent, Pending

LEMMA InvStep == TypeOK /\ RelayInv /\ [Next]_vars => RelayInv'
<1> SUFFICES ASSUME TypeOK, RelayInv, [Next]_vars PROVE RelayInv'
  OBVIOUS
<1>1. ASSUME NEW x \in Relays, Claim(x) PROVE RelayInv'
  BY <1>1, ClaimKeeps
<1>2. ASSUME NEW x \in Relays, NEW r \in Rows,
             Skip(x, r) \/ ParkRow(x, r) \/ Publish(x, r) \/ PublishFails(x, r)
      PROVE RelayInv'
  BY <1>2, HandlingKeeps
<1>3. ASSUME NEW x \in Relays, Commit(x) PROVE RelayInv'
  BY <1>3, CommitKeeps
<1>4. ASSUME NEW x \in Relays, Abort(x) PROVE RelayInv'
  BY <1>4, AbortKeeps
<1>5. ASSUME NEW r \in Rows, Enqueue(r) \/ Prune(r) PROVE RelayInv'
  BY <1>5, RowStepKeeps
<1>6. CASE (\E k \in Ids : Remove(k)) \/ RedisFails \/ RedisRecovers \/ UNCHANGED vars
  <2>1. UNCHANGED <<outbox, held, done, bad, sent>>
    BY <1>6 DEF Remove, RedisFails, RedisRecovers, vars, relayVars, queueVars
  <2> QED
    BY <2>1, QueueStepKeeps
<1> QED
  BY <1>1, <1>2, <1>3, <1>4, <1>5, <1>6 DEF Next, Drain

-----------------------------------------------------------------------------
(* Results *)

\* Every reachable state of Relay is well typed.
THEOREM TypeCorrect == Spec => []TypeOK
<1>1. Init => TypeOK
  BY InitEstablishes
<1> QED
  BY <1>1, TypeStep, PTL DEF Spec

\* TypeOK and the inductive invariant hold in every reachable state.
THEOREM Invariant == Spec => [](TypeOK /\ RelayInv)
<1>1. TypeOK /\ RelayInv /\ [Next]_vars => (TypeOK /\ RelayInv)'
  BY TypeStep, InvStep
<1> QED
  BY <1>1, InitEstablishes, PTL DEF Spec

\* No row counts as published, or is pruned, unless an add for it has returned.
THEOREM NeverAtMostOnce == Spec => []PublishedWasSent
<1>1. RelayInv => PublishedWasSent
  BY DEF RelayInv
<1> QED
  BY <1>1, Invariant, PTL

\* Open drains hold disjoint slices of the pending rows.
THEOREM SlicesAreDisjoint == Spec => []DisjointSlices
<1>1. RelayInv => DisjointSlices
  BY DEF RelayInv
<1> QED
  BY <1>1, Invariant, PTL
=============================================================================
