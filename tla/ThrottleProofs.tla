--------------------------- MODULE ThrottleProofs ---------------------------
(***************************************************************************)
(* Theorems about Throttle, for any number of workers, limits, leases and  *)
(* clocks.                                                                 *)
(*                                                                         *)
(* That a worker within its lease is counted needs more than the script:   *)
(* a caller whose clock is ahead must not prune it, and the key must not   *)
(* expire under it.  LeaseInv says where the lease of a worker is and how  *)
(* long the key outlives its members.  RateInv relates the lazy bucket to  *)
(* the eager one: it never shows more tokens, and when its key expires the *)
(* eager one is full.                                                      *)
(***************************************************************************)
EXTENDS Throttle, FiniteSetTheorems, TLAPS

\* Who is inside the gate, or in a slot.
Inside(k) == IF k = "gate" THEN InGate ELSE InSlot

\* A worker inside, and within its lease, is a member of the sorted set.
WorkersAreListed ==
  \A k \in Kinds, w \in Workers :
    pc[w] \in Inside(k) /\ held[w][k] > now + MaxSkew => Mine(k, w) \in leases[k]

\* The sorted set never holds more than the limit.
SetsAreBounded ==
  \A k \in Kinds : IsFiniteSet(leases[k]) /\ Cardinality(leases[k]) <= Limit(k)

\* When the key expires every member's lease is over.
KeysOutlive ==
  \A k \in Kinds : /\ keyTtl[k] <= 2 * LeaseTime(k)
                   /\ \A l \in leases[k] : l.end <= now + MaxSkew + keyTtl[k]

LeaseInv == WorkersAreListed /\ SetsAreBounded /\ KeysOutlive

\* The lazy bucket shows no more than the eager one, which has refilled since the last call.
RateInv ==
  Agreed => /\ credit >= Least(Capacity, BucketTtl - bucket.ttl)
            /\ \A w \in Workers : Refilled(Clock(w)) <= credit

-----------------------------------------------------------------------------

\* What the numbers of a state are.
LEMMA Numbers ==
  ASSUME TypeOK, NEW w \in Workers, NEW k \in Kinds
  PROVE  /\ Clock(w) \in Nat /\ now <= Clock(w) /\ Clock(w) <= now + MaxSkew
         /\ LeaseTime(k) \in Nat \ {0} /\ Limit(k) \in Nat \ {0}
         /\ held[w][k] \in Nat /\ Mine(k, w) \in Lease
BY ThrottleConstants DEF TypeOK, Clock, LeaseTime, Limit, Kinds, Mine, Lease

LEMMA RefilledTypes ==
  ASSUME TypeOK, NEW t \in Nat
  PROVE  Refilled(t) \in 0 .. Capacity
BY ThrottleConstants DEF TypeOK, Refilled, Least, Most

\* The scripts keep the types.
LEMMA EnterTypes ==
  ASSUME TypeOK, NEW w \in Workers, NEW k \in Kinds, Enter(k, w)
  PROVE  /\ leases' \in [Kinds -> SUBSET Lease] /\ keyTtl' \in [Kinds -> Nat]
         /\ held' \in [Workers -> [Kinds -> Nat]]
<1>1. Clock(w) + LeaseTime(k) \in Nat /\ 2 * LeaseTime(k) \in Nat
  BY Numbers
<1>2. Pruned(k, w) \cup {[owner |-> w, end |-> Clock(w) + LeaseTime(k)]} \subseteq Lease
  BY <1>1 DEF Pruned, Lease, TypeOK
<1> QED
  BY <1>1, <1>2 DEF Enter, TypeOK

LEMMA StopTypes ==
  ASSUME TypeOK, NEW w \in Workers, Stop(w)
  PROVE  /\ pc' \in [Workers -> Labels] /\ limit' \in [Workers -> Nat]
         /\ held' \in [Workers -> [Kinds -> Nat]]
BY DEF Stop, Goto, Deadline, TypeOK, Labels

\* The initial state is well typed and meets both invariants.
LEMMA InitEstablishes == Init => TypeOK /\ LeaseInv /\ RateInv
<1> SUFFICES ASSUME Init PROVE TypeOK /\ LeaseInv /\ RateInv
  OBVIOUS
<1>1. TypeOK
  BY ThrottleConstants DEF Init, TypeOK, Labels, Lease
<1>2. WorkersAreListed
  BY DEF Init, WorkersAreListed, Inside, InGate, InSlot, Kinds
<1>3. SetsAreBounded
  BY FS_EmptySet, ThrottleConstants DEF Init, SetsAreBounded, Limit, Kinds
<1>4. KeysOutlive
  BY ThrottleConstants DEF Init, KeysOutlive, LeaseTime, Kinds
<1>5. RateInv
  BY ThrottleConstants DEF Init, RateInv, Refilled, Least
<1> QED
  BY <1>1, <1>2, <1>3, <1>4, <1>5 DEF LeaseInv

\* Every action keeps the types.
LEMMA TypeStep == TypeOK /\ [Next]_vars => TypeOK'
<1> SUFFICES ASSUME TypeOK, [Next]_vars PROVE TypeOK'
  OBVIOUS
<1> USE ThrottleConstants DEF redisVars
<1>1. ASSUME NEW w \in Workers, Admit(w) PROVE TypeOK'
  <2>1. Clock(w) + Timeout \in Nat
    BY Numbers DEF Kinds
  <2>2. "gate" \in Kinds
    BY DEF Kinds
  <2> QED
    BY <1>1, <2>1, <2>2, EnterTypes DEF Admit, Goto, Deadline, TypeOK, Labels, InGate
<1>2. ASSUME NEW w \in Workers, Defer(w) PROVE TypeOK'
  BY <1>2 DEF Defer, Denied, Pruned, TypeOK
<1>3. ASSUME NEW w \in Workers, TakeToken(w) PROVE TypeOK'
  <2>1. Clock(w) \in Nat /\ Refilled(Clock(w)) \in 0 .. Capacity
    BY Numbers, RefilledTypes DEF Kinds
  <2>2. bucket' \in [tokens : 0 .. Capacity, ts : Nat, ttl : 0 .. BucketTtl]
    BY <1>3, <2>1 DEF TakeToken
  <2>3. credit' \in {credit, credit - 1}
    BY <1>3 DEF TakeToken
  <2>4. credit' \in Int /\ credit' <= Capacity
    BY <2>3 DEF TypeOK
  <2> QED
    BY <1>3, <2>2, <2>4 DEF TakeToken, Goto, TypeOK, Labels, InGate
<1>4. ASSUME NEW w \in Workers, NoToken(w) PROVE TypeOK'
  <2>1. Clock(w) \in Nat /\ Refilled(Clock(w)) \in 0 .. Capacity
    BY Numbers, RefilledTypes DEF Kinds
  <2>2. bucket' \in [tokens : 0 .. Capacity, ts : Nat, ttl : 0 .. BucketTtl]
    BY <1>4, <2>1 DEF NoToken
  <2>3. /\ pc' \in [Workers -> Labels] /\ limit' \in [Workers -> Nat]
        /\ held' \in [Workers -> [Kinds -> Nat]] /\ leases' \in [Kinds -> SUBSET Lease]
    <3>1. CASE Stop(w) /\ leases' = [leases EXCEPT !["gate"] = @ \ {Mine("gate", w)}]
      BY <3>1, StopTypes DEF TypeOK
    <3>2. CASE UNCHANGED <<leases, pc, held, limit>>
      BY <3>2 DEF TypeOK
    <3> QED
      BY <1>4, <3>1, <3>2 DEF NoToken
  <2> QED
    BY <1>4, <2>2, <2>3 DEF NoToken, TypeOK
<1>5. ASSUME NEW w \in Workers, TakeSlot(w) PROVE TypeOK'
  <2>1. "slot" \in Kinds
    BY DEF Kinds
  <2> QED
    BY <1>5, <2>1, EnterTypes DEF TakeSlot, Goto, Deadline, TypeOK, Labels, InGate, InSlot
<1>6. ASSUME NEW w \in Workers, NoSlot(w) PROVE TypeOK'
  <2>1. /\ pc' \in [Workers -> Labels] /\ limit' \in [Workers -> Nat]
        /\ held' \in [Workers -> [Kinds -> Nat]]
    BY <1>6, StopTypes DEF NoSlot, TypeOK
  <2>2. leases' \in [Kinds -> SUBSET Lease]
    BY <1>6 DEF NoSlot, Pruned, TypeOK
  <2> QED
    BY <1>6, <2>1, <2>2 DEF NoSlot, TypeOK
<1>7. ASSUME NEW w \in Workers, Fetch(w) PROVE TypeOK'
  BY <1>7 DEF Fetch, Goto, Deadline, TypeOK, Labels, InGate, InSlot
<1>8. ASSUME NEW w \in Workers, Headers(w) PROVE TypeOK'
  BY <1>8 DEF Headers, Goto, Deadline, TypeOK, Labels, InGate, InSlot
<1>9. ASSUME NEW w \in Workers, NextRequest(w) PROVE TypeOK'
  <2>1. Clock(w) + Timeout \in Nat
    BY Numbers DEF Kinds
  <2>2. held' \in [Workers -> [Kinds -> Nat]]
    BY <1>9 DEF NextRequest, TypeOK
  <2> QED
    BY <1>9, <2>1, <2>2 DEF NextRequest, Goto, Deadline, TypeOK, Labels, InGate
<1>10. ASSUME NEW w \in Workers, EndJob(w) PROVE TypeOK'
  BY <1>10, StopTypes DEF EndJob, Finish, TypeOK
<1>11. ASSUME NEW w \in Workers, Throttled(w) PROVE TypeOK'
  <2>1. bucket' \in [tokens : 0 .. Capacity, ts : Nat, ttl : 0 .. BucketTtl]
    BY <1>11, Numbers DEF Throttled, Penalise, Kinds
  <2> QED
    BY <1>11, <2>1, StopTypes DEF Throttled, Finish, TypeOK
<1>12. ASSUME NEW w \in Workers, Vanish(w) PROVE TypeOK'
  BY <1>12, StopTypes DEF Vanish, TypeOK
<1>13. ASSUME NEW k \in Kinds, KeyExpires(k) PROVE TypeOK'
  BY <1>13 DEF KeyExpires, TypeOK
<1>14. ASSUME Tick PROVE TypeOK'
  <2>1. /\ keyTtl' \in [Kinds -> Nat] /\ credit' \in Int /\ credit' <= Capacity
        /\ bucket' \in [tokens : 0 .. Capacity, ts : Nat, ttl : 0 .. BucketTtl]
    BY <1>14 DEF Tick, TypeOK, Most, Least
  <2> QED
    BY <1>14, <2>1 DEF Tick, TypeOK
<1>15. CASE UNCHANGED vars
  BY <1>15 DEF vars, TypeOK
<1> QED
  BY <1>1, <1>2, <1>3, <1>4, <1>5, <1>6, <1>7, <1>8, <1>9, <1>10, <1>11, <1>12,
     <1>13, <1>14, <1>15 DEF Next

-----------------------------------------------------------------------------

\* The acquire script keeps the bound, forgets no other lease that may still be on, and
\* sets the key to outlive what it holds.
LEMMA EnterKeeps ==
  ASSUME TypeOK, LeaseInv, NEW w \in Workers, NEW k \in Kinds, Enter(k, w), now' = now
  PROVE  /\ SetsAreBounded' /\ KeysOutlive'
         /\ Mine(k, w)' \in leases'[k]
         /\ \A l \in leases[k] : l.end > now + MaxSkew => l \in leases'[k]
         /\ \A j \in Kinds \ {k} : leases'[j] = leases[j] /\ held'[w][j] = held[w][j]
         /\ \A v \in Workers \ {w} : held'[v] = held[v]
<1> DEFINE end == Clock(w) + LeaseTime(k)
           new == [owner |-> w, end |-> end]
<1>1. /\ leases' = [leases EXCEPT ![k] = Pruned(k, w) \cup {new}]
      /\ keyTtl' = [keyTtl EXCEPT ![k] = 2 * LeaseTime(k)]
      /\ held' = [held EXCEPT ![w][k] = end]
      /\ Cardinality(Pruned(k, w)) < Limit(k)
  BY DEF Enter
<1>2. /\ Clock(w) \in Nat /\ Clock(w) <= now + MaxSkew /\ now \in Nat /\ MaxSkew \in Nat
      /\ LeaseTime(k) \in Nat /\ Limit(k) \in Nat /\ end \in Nat
  BY Numbers, ThrottleConstants DEF TypeOK
<1>3. /\ leases \in [Kinds -> SUBSET Lease] /\ keyTtl \in [Kinds -> Nat]
      /\ held \in [Workers -> [Kinds -> Nat]]
  BY DEF TypeOK
<1>4. SetsAreBounded'
  <2>1. IsFiniteSet(Pruned(k, w)) /\ Cardinality(Pruned(k, w)) \in Nat
    BY FS_Subset, FS_CardinalityType DEF LeaseInv, SetsAreBounded, Pruned
  <2>2. /\ IsFiniteSet(Pruned(k, w) \cup {new})
        /\ Cardinality(Pruned(k, w) \cup {new}) <= Cardinality(Pruned(k, w)) + 1
        /\ Cardinality(Pruned(k, w) \cup {new}) \in Nat
    <3> HIDE DEF new
    <3>1. /\ IsFiniteSet(Pruned(k, w) \cup {new})
          /\ \/ Cardinality(Pruned(k, w) \cup {new}) = Cardinality(Pruned(k, w))
             \/ Cardinality(Pruned(k, w) \cup {new}) = Cardinality(Pruned(k, w)) + 1
      BY <2>1, FS_AddElement
    <3> QED
      BY <2>1, <3>1
  <2>3. IsFiniteSet(leases'[k]) /\ Cardinality(leases'[k]) <= Limit(k)
    BY <1>1, <1>2, <1>3, <2>1, <2>2
  <2>4. \A j \in Kinds \ {k} : leases'[j] = leases[j]
    BY <1>1, <1>3
  <2> QED
    BY <2>3, <2>4 DEF LeaseInv, SetsAreBounded
<1>5. KeysOutlive'
  <2>1. keyTtl'[k] = 2 * LeaseTime(k) /\ keyTtl[k] <= 2 * LeaseTime(k) /\ keyTtl[k] \in Nat
    BY <1>1, <1>3 DEF LeaseInv, KeysOutlive
  <2>2. ASSUME NEW l \in leases'[k] PROVE l.end <= now + MaxSkew + keyTtl'[k]
    <3>1. CASE l = new
      BY <1>2, <2>1, <3>1
    <3>2. CASE l \in leases[k]
      <4>1. l.end \in Nat /\ l.end <= now + MaxSkew + keyTtl[k]
        BY <1>3, <3>2 DEF LeaseInv, KeysOutlive, Lease
      <4> QED
        BY <1>2, <2>1, <4>1
    <3> QED
      BY <1>1, <1>3, <3>1, <3>2 DEF Pruned
  <2>3. \A j \in Kinds \ {k} : leases'[j] = leases[j] /\ keyTtl'[j] = keyTtl[j]
    BY <1>1, <1>3
  <2> SUFFICES ASSUME NEW j \in Kinds
               PROVE  /\ keyTtl'[j] <= 2 * LeaseTime(j)
                      /\ \A l \in leases'[j] : l.end <= now + MaxSkew + keyTtl'[j]
    BY DEF KeysOutlive
  <2>4. CASE j = k
    BY <1>2, <2>1, <2>2, <2>4
  <2>5. CASE j # k
    BY <2>3, <2>5 DEF LeaseInv, KeysOutlive
  <2> QED
    BY <2>4, <2>5
<1>6. Mine(k, w)' \in leases'[k]
  BY <1>1, <1>3 DEF Mine
<1>7. \A l \in leases[k] : l.end > now + MaxSkew => l \in leases'[k]
  <2> SUFFICES ASSUME NEW l \in leases[k], l.end > now + MaxSkew PROVE l \in leases'[k]
    OBVIOUS
  <2>1. l.end > Clock(w)
    BY <1>2, <1>3 DEF Lease
  <2> QED
    BY <1>1, <1>3, <2>1 DEF Pruned
<1>8. /\ \A j \in Kinds \ {k} : leases'[j] = leases[j] /\ held'[w][j] = held[w][j]
      /\ \A v \in Workers \ {w} : held'[v] = held[v]
  BY <1>1, <1>3
<1> QED
  BY <1>4, <1>5, <1>6, <1>7, <1>8

\* Removing members disturbs neither bound.
LEMMA RemovalKeeps ==
  ASSUME LeaseInv, \A k \in Kinds : leases'[k] \subseteq leases[k], UNCHANGED <<now, keyTtl>>
  PROVE  SetsAreBounded' /\ KeysOutlive'
<1>1. SetsAreBounded'
  <2> SUFFICES ASSUME NEW k \in Kinds
               PROVE  IsFiniteSet(leases'[k]) /\ Cardinality(leases'[k]) <= Limit(k)
    BY DEF SetsAreBounded
  <2>1. /\ IsFiniteSet(leases[k]) /\ Cardinality(leases[k]) <= Limit(k)
        /\ Limit(k) \in Nat
    BY ThrottleConstants DEF LeaseInv, SetsAreBounded, Limit
  <2>2. IsFiniteSet(leases'[k]) /\ Cardinality(leases'[k]) <= Cardinality(leases[k])
    BY <2>1, FS_Subset
  <2>3. Cardinality(leases'[k]) \in Nat /\ Cardinality(leases[k]) \in Nat
    BY <2>1, <2>2, FS_CardinalityType
  <2> QED
    BY <2>1, <2>2, <2>3
<1>2. KeysOutlive'
  BY DEF LeaseInv, KeysOutlive
<1> QED
  BY <1>1, <1>2

\* A worker that is inside stays listed if its lease is not the one removed.
LEMMA StaysListed ==
  ASSUME LeaseInv, NEW w \in Workers, now' = now,
         \A v \in Workers \ {w} : pc'[v] = pc[v] /\ held'[v] = held[v],
         \A k \in Kinds : pc'[w] \in Inside(k) => pc[w] \in Inside(k) /\ held'[w][k] = held[w][k],
         \A k \in Kinds : \A l \in leases[k] :
           l.end > now + MaxSkew /\ (l.owner = w => pc'[w] \in Inside(k)) => l \in leases'[k]
  PROVE  WorkersAreListed'
<1> SUFFICES ASSUME NEW k \in Kinds, NEW v \in Workers,
                    pc'[v] \in Inside(k), held'[v][k] > now + MaxSkew
             PROVE  Mine(k, v)' \in leases'[k]
  BY DEF WorkersAreListed, Inside
<1>1. pc[v] \in Inside(k) /\ held'[v][k] = held[v][k]
  OBVIOUS
<1>2. Mine(k, v) \in leases[k]
  BY <1>1 DEF LeaseInv, WorkersAreListed
<1>3. Mine(k, v).end = held[v][k] /\ Mine(k, v).owner = v /\ Mine(k, v)' = Mine(k, v)
  BY <1>1 DEF Mine
<1> QED
  BY <1>1, <1>2, <1>3

\* Every action keeps the invariant of the leases.
LEMMA LeaseStep == TypeOK /\ LeaseInv /\ [Next]_vars => LeaseInv'
<1> SUFFICES ASSUME TypeOK, LeaseInv, [Next]_vars PROVE LeaseInv'
  OBVIOUS
<1> USE DEF redisVars
<1>0. "gate" \in Kinds /\ "slot" \in Kinds /\ \A k \in Kinds : k \in {"gate", "slot"}
  BY DEF Kinds
<1>1. ASSUME NEW w \in Workers, NEW k \in Kinds, Enter(k, w), now' = now,
             \A v \in Workers \ {w} : pc'[v] = pc[v],
             \A j \in Kinds \ {k} : pc'[w] \in Inside(j) => pc[w] \in Inside(j)
      PROVE  LeaseInv'
  <2> SUFFICES ASSUME NEW j \in Kinds, NEW v \in Workers,
                      pc'[v] \in Inside(j), held'[v][j] > now + MaxSkew
               PROVE  Mine(j, v)' \in leases'[j]
    BY <1>1, EnterKeeps DEF LeaseInv, WorkersAreListed, Inside
  <2>1. CASE v = w /\ j = k
    BY <1>1, <2>1, EnterKeeps
  <2>2. CASE v # w \/ j # k
    <3>1. pc[v] \in Inside(j) /\ held'[v][j] = held[v][j]
      BY <1>1, <2>2, EnterKeeps
    <3>2. Mine(j, v) \in leases[j] /\ Mine(j, v)' = Mine(j, v) /\ Mine(j, v).end = held[v][j]
      BY <3>1 DEF LeaseInv, WorkersAreListed, Mine
    <3> QED
      BY <1>1, <3>1, <3>2, EnterKeeps
  <2> QED
    BY <2>1, <2>2
<1>2. ASSUME NEW w \in Workers, Admit(w) PROVE LeaseInv'
  <2>1. /\ Enter("gate", w) /\ now' = now /\ pc'[w] = "rate"
        /\ \A v \in Workers \ {w} : pc'[v] = pc[v]
    BY <1>2 DEF Admit, Goto, TypeOK
  <2>2. \A j \in Kinds \ {"gate"} : pc'[w] \notin Inside(j)
    BY <2>1 DEF Inside, InSlot, Kinds
  <2> QED
    BY <1>0, <1>1, <2>1, <2>2
<1>3. ASSUME NEW w \in Workers, TakeSlot(w) PROVE LeaseInv'
  <2>1. /\ Enter("slot", w) /\ now' = now /\ pc[w] = "slot"
        /\ \A v \in Workers \ {w} : pc'[v] = pc[v]
    BY <1>3 DEF TakeSlot, Goto, TypeOK
  <2>2. \A j \in Kinds \ {"slot"} : pc[w] \in Inside(j)
    BY <2>1 DEF Inside, InGate, Kinds
  <2> QED
    BY <1>0, <1>1, <2>1, <2>2
<1>4. ASSUME NEW w \in Workers, NEW k \in Kinds
      PROVE  \A l \in leases[k] : l.end > now + MaxSkew => l \in Pruned(k, w)
  <2>1. \A l \in leases[k] : l.end \in Nat
    BY DEF TypeOK, Lease
  <2> QED
    BY <2>1, Numbers, ThrottleConstants DEF Pruned, TypeOK
<1>5. ASSUME NEW w \in Workers, Stop(w), UNCHANGED <<now, keyTtl>>,
             \A k \in Kinds : leases'[k] \subseteq leases[k],
             \A k \in Kinds : \A l \in leases[k] :
               l.end > now + MaxSkew /\ l.owner # w => l \in leases'[k]
      PROVE  LeaseInv'
  <2>1. /\ \A v \in Workers \ {w} : pc'[v] = pc[v] /\ held'[v] = held[v]
        /\ \A k \in Kinds : pc'[w] \notin Inside(k)
    BY <1>5 DEF Stop, Goto, TypeOK, Inside, InGate, InSlot
  <2>2. WorkersAreListed'
    BY <1>5, <2>1, StaysListed
  <2> QED
    BY <1>5, <2>2, RemovalKeeps DEF LeaseInv
<1>6. ASSUME NEW w \in Workers, UNCHANGED <<now, keyTtl, leases>>,
             \A v \in Workers \ {w} : pc'[v] = pc[v],
             \A k \in Kinds : pc'[w] \in Inside(k) => pc[w] \in Inside(k),
             UNCHANGED held
      PROVE  LeaseInv'
  <2>1. WorkersAreListed'
    BY <1>6, StaysListed
  <2> QED
    BY <1>6, <2>1, RemovalKeeps DEF LeaseInv
<1>7. ASSUME NEW w \in Workers, NEW k \in Kinds, UNCHANGED <<now, keyTtl, pc, held>>,
             leases' = [leases EXCEPT ![k] = Pruned(k, w)]
      PROVE  LeaseInv'
  <2>1. \A j \in Kinds : leases'[j] \subseteq leases[j]
    BY <1>7 DEF Pruned, TypeOK
  <2>2. \A j \in Kinds : \A l \in leases[j] : l.end > now + MaxSkew => l \in leases'[j]
    BY <1>4, <1>7 DEF TypeOK
  <2>3. WorkersAreListed'
    BY <1>7, <2>2, StaysListed
  <2> QED
    BY <1>7, <2>1, <2>3, RemovalKeeps DEF LeaseInv
<1>8. ASSUME NEW w \in Workers, Defer(w) PROVE LeaseInv'
  BY <1>0, <1>7, <1>8 DEF Defer, Denied
<1>9. ASSUME NEW w \in Workers, TakeToken(w) PROVE LeaseInv'
  BY <1>6, <1>9 DEF TakeToken, Goto, TypeOK, Inside, InGate, InSlot
<1>10. ASSUME NEW w \in Workers, NoToken(w) PROVE LeaseInv'
  <2>1. CASE UNCHANGED <<leases, pc, held, limit>>
    BY <1>6, <1>10, <2>1 DEF NoToken
  <2>2. CASE Stop(w) /\ leases' = [leases EXCEPT !["gate"] = @ \ {Mine("gate", w)}]
    <3>1. \A k \in Kinds : leases'[k] \subseteq leases[k]
      BY <2>2 DEF TypeOK
    <3>2. \A k \in Kinds : \A l \in leases[k] : l.owner # w => l \in leases'[k]
      BY <2>2 DEF TypeOK, Mine
    <3> QED
      BY <1>5, <1>10, <2>2, <3>1, <3>2 DEF NoToken
  <2> QED
    BY <1>10, <2>1, <2>2 DEF NoToken
<1>11. ASSUME NEW w \in Workers, NoSlot(w) PROVE LeaseInv'
  <2>1. CASE leases' = [leases EXCEPT !["slot"] = Pruned("slot", w)] /\ UNCHANGED <<pc, held, limit>>
    BY <1>0, <1>7, <1>11, <2>1 DEF NoSlot
  <2>2. CASE /\ Stop(w)
             /\ leases' = [leases EXCEPT !["slot"] = Pruned("slot", w),
                                         !["gate"] = @ \ {Mine("gate", w)}]
    <3>1. \A k \in Kinds : leases'[k] \subseteq leases[k]
      BY <2>2 DEF TypeOK, Pruned
    <3>2. \A k \in Kinds : \A l \in leases[k] :
            l.end > now + MaxSkew /\ l.owner # w => l \in leases'[k]
      BY <1>0, <1>4, <2>2 DEF TypeOK, Mine
    <3> QED
      BY <1>5, <1>11, <2>2, <3>1, <3>2 DEF NoSlot
  <2> QED
    BY <1>11, <2>1, <2>2 DEF NoSlot
<1>12. ASSUME NEW w \in Workers, Fetch(w) PROVE LeaseInv'
  BY <1>6, <1>12 DEF Fetch, Goto, TypeOK, Inside, InGate, InSlot
<1>13. ASSUME NEW w \in Workers, Headers(w) PROVE LeaseInv'
  BY <1>6, <1>13 DEF Headers, Goto, TypeOK, Inside, InGate, InSlot
<1>14. ASSUME NEW w \in Workers, NextRequest(w) PROVE LeaseInv'
  <2>1. /\ UNCHANGED <<now, keyTtl>> /\ pc[w] \in InSlot /\ pc'[w] = "rate"
        /\ \A v \in Workers \ {w} : pc'[v] = pc[v] /\ held'[v] = held[v]
        /\ held'[w]["gate"] = held[w]["gate"]
        /\ leases' = [leases EXCEPT !["slot"] = @ \ {Mine("slot", w)}]
    BY <1>14 DEF NextRequest, Goto, TypeOK, InSlot, Kinds
  <2>2. \A k \in Kinds : leases'[k] \subseteq leases[k]
    BY <2>1 DEF TypeOK
  <2>3. \A k \in Kinds : pc'[w] \in Inside(k) =>
          k = "gate" /\ pc[w] \in Inside(k) /\ held'[w][k] = held[w][k]
    BY <2>1 DEF Inside, InGate, InSlot, Kinds
  <2>4. \A k \in Kinds : \A l \in leases[k] :
          (l.owner = w => pc'[w] \in Inside(k)) => l \in leases'[k]
    BY <2>1, <2>3 DEF TypeOK, Mine
  <2>5. WorkersAreListed'
    BY <2>1, <2>3, <2>4, StaysListed
  <2> QED
    BY <2>1, <2>2, <2>5, RemovalKeeps DEF LeaseInv
<1>15. ASSUME NEW w \in Workers, Finish(w), UNCHANGED <<now, keyTtl>> PROVE LeaseInv'
  <2>1. /\ \A k \in Kinds : leases'[k] \subseteq leases[k]
        /\ \A k \in Kinds : \A l \in leases[k] : l.owner # w => l \in leases'[k]
    BY <1>15 DEF Finish, Mine
  <2> QED
    BY <1>5, <1>15, <2>1 DEF Finish
<1>16. ASSUME NEW w \in Workers, EndJob(w) PROVE LeaseInv'
  BY <1>15, <1>16 DEF EndJob
<1>17. ASSUME NEW w \in Workers, Throttled(w) PROVE LeaseInv'
  BY <1>15, <1>17 DEF Throttled, Penalise
<1>18. ASSUME NEW w \in Workers, Vanish(w) PROVE LeaseInv'
  BY <1>5, <1>18 DEF Vanish
<1>19. ASSUME NEW k \in Kinds, KeyExpires(k) PROVE LeaseInv'
  <2>1. /\ leases' = [leases EXCEPT ![k] = {}] /\ keyTtl[k] = 0
        /\ UNCHANGED <<now, keyTtl, pc, held>>
    BY <1>19 DEF KeyExpires
  <2>2. \A j \in Kinds : leases'[j] \subseteq leases[j]
    BY <2>1 DEF TypeOK
  <2>3. \A l \in leases[k] : ~(l.end > now + MaxSkew)
    <3> SUFFICES ASSUME NEW l \in leases[k] PROVE ~(l.end > now + MaxSkew)
      OBVIOUS
    <3>1. l.end \in Nat /\ l.end <= now + MaxSkew + keyTtl[k] /\ now \in Nat /\ MaxSkew \in Nat
      BY ThrottleConstants DEF TypeOK, Lease, LeaseInv, KeysOutlive
    <3> QED
      BY <2>1, <3>1
  <2>4. \A j \in Kinds : \A l \in leases[j] : l.end > now + MaxSkew => l \in leases'[j]
    BY <2>1, <2>3 DEF TypeOK
  <2>5. WorkersAreListed'
    BY <2>1, <2>4 DEF LeaseInv, WorkersAreListed, Mine
  <2> QED
    BY <2>1, <2>2, <2>5, RemovalKeeps DEF LeaseInv
<1>20. ASSUME Tick PROVE LeaseInv'
  <2>1. /\ now' = now + 1 /\ UNCHANGED <<leases, pc, held>>
        /\ \A k \in Kinds : keyTtl'[k] = Most(0, keyTtl[k] - 1)
    BY <1>20 DEF Tick
  <2>2. now \in Nat /\ MaxSkew \in Nat /\ keyTtl \in [Kinds -> Nat]
    BY ThrottleConstants DEF TypeOK
  <2>3. WorkersAreListed'
    <3>1. \A k \in Kinds, w \in Workers : held[w][k] \in Nat
      BY DEF TypeOK
    <3> QED
      BY <2>1, <2>2, <3>1 DEF LeaseInv, WorkersAreListed, Mine, Inside
  <2>4. KeysOutlive'
    <3> SUFFICES ASSUME NEW k \in Kinds
                 PROVE  /\ keyTtl'[k] <= 2 * LeaseTime(k)
                        /\ \A l \in leases[k] : l.end <= now + 1 + MaxSkew + keyTtl'[k]
      BY <2>1 DEF KeysOutlive
    <3>1. LeaseTime(k) \in Nat /\ keyTtl[k] \in Nat /\ keyTtl[k] <= 2 * LeaseTime(k)
      BY <2>2, ThrottleConstants DEF LeaseTime, LeaseInv, KeysOutlive
    <3>2. keyTtl'[k] = Most(0, keyTtl[k] - 1)
      BY <2>1
    <3>3. \A l \in leases[k] : l.end \in Nat /\ l.end <= now + MaxSkew + keyTtl[k]
      BY DEF TypeOK, Lease, LeaseInv, KeysOutlive
    <3> QED
      BY <2>2, <3>1, <3>2, <3>3 DEF Most
  <2>5. SetsAreBounded'
    BY <2>1 DEF LeaseInv, SetsAreBounded
  <2> QED
    BY <2>3, <2>4, <2>5 DEF LeaseInv
<1>21. CASE UNCHANGED vars
  BY <1>21 DEF vars, LeaseInv, WorkersAreListed, SetsAreBounded, KeysOutlive, Mine, Inside
<1> QED
  BY <1>2, <1>3, <1>8, <1>9, <1>10, <1>11, <1>12, <1>13, <1>14, <1>16, <1>17, <1>18,
     <1>19, <1>20, <1>21 DEF Next

-----------------------------------------------------------------------------

\* A step that leaves the bucket, its history and time alone keeps RateInv.
LEMMA RateUntouched ==
  ASSUME RateInv, UNCHANGED <<now, skew, bucket, credit>>
  PROVE  RateInv'
BY DEF RateInv, Agreed, Clock, Refilled

\* A call that counts the bucket at its own clock leaves a bucket that refills from there.
LEMMA CallKeeps ==
  ASSUME TypeOK, NEW w \in Workers, NEW n \in 0 .. Capacity, NEW t \in Nat,
         UNCHANGED <<now, skew>>, Clock(w) <= t,
         bucket' = [tokens |-> n, ts |-> t, ttl |-> BucketTtl],
         credit' \in Int, Agreed => credit' >= n
  PROVE  RateInv'
<1> SUFFICES ASSUME Agreed
             PROVE  /\ credit' >= Least(Capacity, BucketTtl - BucketTtl)
                    /\ \A v \in Workers : Refilled(Clock(v))' <= credit'
  BY DEF RateInv, Agreed
<1>1. BucketTtl \in Nat \ {0} /\ Capacity \in Nat \ {0} /\ n \in Nat /\ n <= Capacity
  BY ThrottleConstants
<1>2. credit' >= Least(Capacity, BucketTtl - BucketTtl)
  BY <1>1 DEF Least
<1>3. ASSUME NEW v \in Workers PROVE Refilled(Clock(v))' <= credit'
  <2>1. Clock(v)' = Clock(w) /\ Clock(w) \in Nat
    BY Numbers DEF Clock, Agreed, Kinds
  <2>2. Most(0, Clock(v)' - t) = 0
    BY <2>1 DEF Most
  <2>3. Refilled(Clock(v))' = n
    BY <1>1, <2>1, <2>2 DEF Refilled, Least
  <2> QED
    BY <2>3
<1> QED
  BY <1>2, <1>3

\* Every action keeps the relation between the two buckets.
LEMMA RateStep == TypeOK /\ RateInv /\ [Next]_vars => RateInv'
<1> SUFFICES ASSUME TypeOK, RateInv, [Next]_vars PROVE RateInv'
  OBVIOUS
<1>1. ASSUME NEW w \in Workers PROVE Clock(w) \in Nat /\ Refilled(Clock(w)) \in 0 .. Capacity
  BY Numbers, RefilledTypes DEF Kinds
<1>2. credit \in Int /\ Capacity \in Nat \ {0}
  BY ThrottleConstants DEF TypeOK
<1>3. ASSUME NEW w \in Workers, TakeToken(w) PROVE RateInv'
  <2> DEFINE n == Refilled(Clock(w)) - 1
  <2>1. /\ bucket' = [tokens |-> n, ts |-> Clock(w), ttl |-> BucketTtl]
        /\ credit' = IF Agreed THEN credit - 1 ELSE credit
        /\ UNCHANGED <<now, skew>> /\ Refilled(Clock(w)) >= 1
    BY <1>3 DEF TakeToken
  <2>2. n \in 0 .. Capacity /\ credit' \in Int
    BY <1>1, <1>2, <2>1
  <2>3. Agreed => credit' >= n
    BY <1>1, <1>2, <2>1 DEF RateInv
  <2> HIDE DEF n
  <2> QED
    BY <1>1, <2>1, <2>2, <2>3, CallKeeps
<1>4. ASSUME NEW w \in Workers, NoToken(w) PROVE RateInv'
  <2>1. /\ bucket' = [tokens |-> Refilled(Clock(w)), ts |-> Clock(w), ttl |-> BucketTtl]
        /\ UNCHANGED <<now, skew, credit>>
    BY <1>4 DEF NoToken
  <2>2. Agreed => credit' >= Refilled(Clock(w))
    BY <1>1, <1>2, <2>1 DEF RateInv
  <2> QED
    BY <1>1, <1>2, <2>1, <2>2, CallKeeps
<1>5. ASSUME NEW w \in Workers, Throttled(w) PROVE RateInv'
  <2>1. PICK r \in RetryAfters :
          bucket' = [tokens |-> 0, ts |-> Clock(w) + r, ttl |-> BucketTtl]
    BY <1>5 DEF Throttled, Penalise
  <2>2. Clock(w) + r \in Nat /\ Clock(w) <= Clock(w) + r
    BY <1>1, ThrottleConstants
  <2>3. credit' = 0 /\ UNCHANGED <<now, skew>> /\ 0 \in 0 .. Capacity
    BY <1>2, <1>5 DEF Throttled, Penalise
  <2> QED
    BY <2>1, <2>2, <2>3, CallKeeps
<1>6. ASSUME Tick PROVE RateInv'
  <2>1. /\ now' = now + 1 /\ skew' = skew
        /\ bucket' = [bucket EXCEPT !.ttl = Most(0, @ - 1)]
        /\ credit' = Least(Capacity, credit + 1)
    BY <1>6 DEF Tick
  <2>2. /\ bucket'.tokens = bucket.tokens /\ bucket'.ts = bucket.ts
        /\ bucket'.ttl = Most(0, bucket.ttl - 1)
        /\ bucket.tokens \in 0 .. Capacity /\ bucket.ts \in Nat /\ bucket.ttl \in 0 .. BucketTtl
        /\ BucketTtl \in Nat /\ BucketTtl >= Capacity
    BY <2>1, ThrottleConstants DEF TypeOK
  <2> SUFFICES ASSUME Agreed
               PROVE  /\ credit' >= Least(Capacity, BucketTtl - bucket'.ttl)
                      /\ \A w \in Workers : Refilled(Clock(w))' <= credit'
    BY <2>1 DEF RateInv, Agreed
  <2>3. credit >= Least(Capacity, BucketTtl - bucket.ttl)
    BY DEF RateInv
  <2>4. credit' >= Least(Capacity, BucketTtl - bucket'.ttl)
    BY <1>2, <2>1, <2>2, <2>3 DEF Least, Most
  <2>5. ASSUME NEW w \in Workers PROVE Refilled(Clock(w))' <= credit'
    <3>1. Clock(w) \in Nat /\ Clock(w)' = Clock(w) + 1
      BY <1>1, <2>1, ThrottleConstants DEF Clock, TypeOK
    <3>2. CASE bucket'.ttl = 0
      <4>1. Refilled(Clock(w))' = Capacity
        BY <3>2 DEF Refilled
      <4> QED
        BY <1>2, <2>1, <2>2, <2>4, <3>2, <4>1 DEF Least
    <3>3. CASE bucket'.ttl # 0
      <4>1. bucket.ttl # 0
        BY <2>2, <3>3 DEF Most
      <4>2. Least(Capacity, bucket.tokens + Most(0, Clock(w) - bucket.ts)) <= credit
        BY <4>1 DEF RateInv, Refilled
      <4>3. Refilled(Clock(w))' =
              Least(Capacity, bucket.tokens + Most(0, Clock(w) + 1 - bucket.ts))
        BY <2>2, <3>1, <3>3 DEF Refilled
      <4> QED
        BY <1>2, <2>1, <2>2, <3>1, <4>2, <4>3 DEF Least, Most
    <3> QED
      BY <3>2, <3>3
  <2> QED
    BY <2>4, <2>5
<1>7. CASE UNCHANGED <<now, skew, bucket, credit>>
  BY <1>7, RateUntouched
<1> QED
  BY <1>3, <1>4, <1>5, <1>6, <1>7
     DEF Next, vars, redisVars, Admit, Defer, TakeSlot, NoSlot, Fetch, Headers, NextRequest,
         EndJob, Vanish, KeyExpires

-----------------------------------------------------------------------------

\* Those at work under a lease that is on are distinct members of the sorted set.
LEMMA WorkingIsListed == TypeOK /\ LeaseInv => WithinLimits
<1> SUFFICES ASSUME TypeOK, LeaseInv, NEW k \in Kinds
             PROVE  Cardinality(Working(k)) <= Limit(k)
  BY DEF WithinLimits
<1> DEFINE f == [w \in Working(k) |-> Mine(k, w)]
<1>1. \A w \in Working(k) : w \in Workers /\ Mine(k, w) \in leases[k]
  BY DEF Working, LeaseInv, WorkersAreListed, Inside
<1>2. \A v, w \in Working(k) : Mine(k, v) = Mine(k, w) => v = w
  BY DEF Mine
<1>3. f \in Injection(Working(k), leases[k])
  BY <1>1, <1>2 DEF Injection, IsInjective
<1>4. IsFiniteSet(leases[k]) /\ Cardinality(leases[k]) <= Limit(k)
  BY DEF LeaseInv, SetsAreBounded
<1>5. IsFiniteSet(Working(k)) /\ Cardinality(Working(k)) <= Cardinality(leases[k])
  <2> HIDE DEF f
  <2> QED
    BY <1>3, <1>4, FS_Injection
<1>6. /\ Cardinality(Working(k)) \in Nat /\ Cardinality(leases[k]) \in Nat /\ Limit(k) \in Nat
  BY <1>4, <1>5, FS_CardinalityType, ThrottleConstants DEF Limit
<1> QED
  BY <1>4, <1>5, <1>6

\* A bucket that has not outlived its key is not in debt.
LEMMA RateFollows == TypeOK /\ RateInv => RateBounded
<1> SUFFICES ASSUME TypeOK, RateInv, Agreed PROVE credit >= 0
  BY DEF RateBounded
<1>1. credit >= Least(Capacity, BucketTtl - bucket.ttl)
  BY DEF RateInv
<1>2. bucket.ttl \in 0 .. BucketTtl /\ credit \in Int
  BY DEF TypeOK
<1> QED
  BY <1>1, <1>2, ThrottleConstants DEF Least

\* The three invariants hold in every reachable state.
THEOREM ThrottleInvariants == Spec => [](TypeOK /\ LeaseInv /\ RateInv)
<1>1. Init => TypeOK /\ LeaseInv /\ RateInv
  BY InitEstablishes
<1>2. TypeOK /\ LeaseInv /\ RateInv /\ [Next]_vars => (TypeOK /\ LeaseInv /\ RateInv)'
  BY TypeStep, LeaseStep, RateStep
<1> QED
  BY <1>1, <1>2, PTL DEF Spec

\* Every state of the gate, the slots and the bucket is well formed: the bucket never
\* holds more than its capacity.
THEOREM ThrottleTypeCorrect == Spec => []TypeOK
BY ThrottleInvariants, PTL

\* Workers within their lease never exceed the gate's limit nor the realm's.
THEOREM LimitsHold == Spec => []WithinLimits
BY ThrottleInvariants, WorkingIsListed, PTL

\* While clocks agree the bucket never grants more than its rate.
THEOREM RateIsBounded == Spec => []RateBounded
BY ThrottleInvariants, RateFollows, PTL
=============================================================================
