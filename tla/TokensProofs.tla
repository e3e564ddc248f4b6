---------------------------- MODULE TokensProofs ----------------------------
(***************************************************************************)
(* Theorems about Tokens, for any number of workers and users and any      *)
(* number of tokens.                                                       *)
(*                                                                         *)
(* The advisory lock alone does not keep the connection alive: what it     *)
(* gives is that the token a worker presents is still the row's, and that  *)
(* only one new token at a time is on its way to the row.  TokensInv says  *)
(* so, for as long as no mishap has happened.                              *)
(***************************************************************************)
EXTENDS Tokens, TLAPS

\* The lock is held only by a worker inside withRefreshLock ...
LockMeansWork == \A w \in Workers : lock = w => pc[w] \in Locking

\* ... and unless a session broke, only its holder is.
WorkMeansLock == ~mishap => \A w \in Workers : pc[w] \in Locking => lock = w

\* At most one new token is on its way to the row.
NoOverlap ==
  ~mishap =>
    /\ ~(Refreshing /\ Connecting)
    /\ \A a, b \in Browsers : page[a] = "store" /\ page[b] = "store" => a = b

\* What a worker is about to exchange is still what the row holds.
ExchangesStored ==
  ~mishap => \A w \in Workers : pc[w] = "exchange" => conn[w] = stored /\ status # "none"

\* A token on its way to the row is one Intuit accepts.
SuccessorsLive ==
  ~mishap =>
    /\ \A w \in Workers : pc[w] = "store" => got[w] \in alive
    /\ \A b \in Browsers : page[b] = "store" => grant[b] \in alive

\* With none on its way, the row's own is.
StoredIsLast ==
  ~mishap /\ status # "none" /\ (\A w \in Workers : pc[w] # "store") /\ ~Connecting
    => stored \in alive

\* Whatever was, is being or may still be exchanged has expired.
RefreshesExpired ==
  /\ rotated \cup late \subseteq expired
  /\ \A w \in Workers : pc[w] = "exchange" => conn[w] \in expired

\* A refresh under way in a revoked connection began before the revocation.
CutKnows ==
  status = "revoked" => \A w \in Workers : pc[w] \in {"exchange", "store"} => w \in cut

TokensInv ==
  /\ LockMeansWork /\ WorkMeansLock /\ NoOverlap
  /\ ExchangesStored /\ SuccessorsLive /\ StoredIsLast
  /\ RefreshesExpired /\ CutKnows /\ HealthyNeverRejected

-----------------------------------------------------------------------------

\* The initial state is well typed and meets the strengthened invariant.
LEMMA InitEstablishes == Init => TypeOK /\ TokensInv
<1>1. Init => TypeOK
  <2> SUFFICES ASSUME Init PROVE TypeOK
    OBVIOUS
  <2>1. issued \in 0 .. MaxTokens /\ stored \in 0 .. issued
    BY TokenConstants DEF Init
  <2>2. /\ pc \in [Workers -> {"idle", "ready", "wait"} \cup Locking]
        /\ conn \in [Workers -> 0 .. issued] /\ got \in [Workers -> 0 .. issued]
    BY DEF Init
  <2>3. /\ page \in [Browsers -> {"idle", "consent", "exchange", "store"}]
        /\ grant \in [Browsers -> 0 .. issued]
    BY DEF Init
  <2> QED
    BY <2>1, <2>2, <2>3 DEF Init, TypeOK
<1>2. Init => TokensInv
  BY TokenConstants
     DEF Init, Locking, Refreshing, Connecting, TokensInv, LockMeansWork, WorkMeansLock,
         NoOverlap, ExchangesStored, SuccessorsLive, StoredIsLast, RefreshesExpired,
         CutKnows, HealthyNeverRejected
<1> QED
  BY <1>1, <1>2

\* Every action keeps the types.
LEMMA TypeStep == TypeOK /\ [Next]_vars => TypeOK'
<1> SUFFICES ASSUME TypeOK, [Next]_vars PROVE TypeOK'
  OBVIOUS
<1> USE TokenConstants
    DEF TypeOK, Locking, Token, rowVars, workerVars, browserVars, intuitVars, history
<1>1. ASSUME NEW w \in Workers, Find(w) PROVE TypeOK'
  BY <1>1 DEF Find
<1>2. ASSUME NEW w \in Workers, Use(w) PROVE TypeOK'
  BY <1>2 DEF Use
<1>3. ASSUME NEW w \in Workers, Wait(w) PROVE TypeOK'
  BY <1>3 DEF Wait
<1>4. ASSUME NEW w \in Workers, Acquire(w) PROVE TypeOK'
  BY <1>4 DEF Acquire
<1>5. ASSUME NEW w \in Workers, LockTimesOut(w) PROVE TypeOK'
  BY <1>5 DEF LockTimesOut
<1>6. ASSUME NEW w \in Workers, ReloadInactive(w) PROVE TypeOK'
  BY <1>6 DEF ReloadInactive, Leave
<1>7. ASSUME NEW w \in Workers, ReloadFresh(w) PROVE TypeOK'
  BY <1>7 DEF ReloadFresh, Leave
<1>8. ASSUME NEW w \in Workers, ReloadExpired(w) PROVE TypeOK'
  BY <1>8 DEF ReloadExpired
<1>9. ASSUME NEW w \in Workers, Exchange(w) PROVE TypeOK'
  <2>1. issued' \in 0 .. MaxTokens /\ issued' = issued + 1 /\ issued \in Nat
    BY <1>9 DEF Exchange, TypeOK
  <2>2. /\ stored' \in 0 .. issued' /\ status' = status /\ lock' = lock
        /\ conn' \in [Workers -> 0 .. issued'] /\ got' \in [Workers -> 0 .. issued']
        /\ grant' \in [Browsers -> 0 .. issued']
    BY <1>9, <2>1 DEF Exchange, TypeOK, rowVars, browserVars
  <2>3. /\ alive' \subseteq 1 .. issued' /\ expired' \subseteq 1 .. issued'
        /\ late' \subseteq 1 .. issued' /\ rotated' \subseteq 1 .. issued'
    <3>1. conn[w] \in 1 .. issued' /\ issued + 1 \in 1 .. issued'
      BY <1>9, <2>1 DEF Exchange, TypeOK
    <3>2. 1 .. issued \subseteq 1 .. issued'
      BY <2>1
    <3> QED
      BY <1>9, <3>1, <3>2 DEF Exchange, TypeOK
  <2> QED
    BY <1>9, <2>1, <2>2, <2>3 DEF Exchange, TypeOK, Locking, rowVars, browserVars
<1>10. ASSUME NEW w \in Workers, ExchangeFails(w) PROVE TypeOK'
  <2>1. late' \subseteq 1 .. issued
    BY <1>10 DEF ExchangeFails, TypeOK
  <2>2. conn' \in [Workers -> 0 .. issued] /\ got' \in [Workers -> 0 .. issued]
    BY <1>10 DEF ExchangeFails, Leave, TypeOK
  <2> QED
    BY <1>10, <2>1, <2>2 DEF ExchangeFails, Leave, TypeOK, Locking, rowVars, browserVars
<1>11. ASSUME NEW w \in Workers, ExchangeRejected(w) PROVE TypeOK'
  BY <1>11 DEF ExchangeRejected, Leave
<1>12. ASSUME NEW w \in Workers, Store(w) PROVE TypeOK'
  BY <1>12 DEF Store, Leave
<1>13. ASSUME NEW w \in Workers, StoreFails(w) PROVE TypeOK'
  BY <1>13 DEF StoreFails, Leave
<1>14. ASSUME NEW w \in Workers, Crash(w) PROVE TypeOK'
  BY <1>14 DEF Crash, Leave
<1>15. ASSUME NEW w \in Workers, SessionBreaks(w) PROVE TypeOK'
  BY <1>15 DEF SessionBreaks
<1>16. ASSUME NEW b \in Browsers, Connect(b) PROVE TypeOK'
  BY <1>16 DEF Connect
<1>17. ASSUME NEW b \in Browsers, StateExpires(b) PROVE TypeOK'
  BY <1>17 DEF StateExpires
<1>18. ASSUME NEW b \in Browsers, Callback(b) PROVE TypeOK'
  BY <1>18 DEF Callback
<1>19. ASSUME NEW b \in Browsers, ExchangeCode(b) PROVE TypeOK'
  BY <1>19 DEF ExchangeCode, NewGrant
<1>20. ASSUME NEW b \in Browsers, CodeFails(b) PROVE TypeOK'
  BY <1>20 DEF CodeFails
<1>21. ASSUME NEW b \in Browsers, CodeLost(b) PROVE TypeOK'
  BY <1>21 DEF CodeLost, NewGrant
<1>22. ASSUME NEW b \in Browsers, StoreGrant(b) PROVE TypeOK'
  BY <1>22 DEF StoreGrant
<1>23. ASSUME NEW b \in Browsers, StoreGrantFails(b) PROVE TypeOK'
  BY <1>23 DEF StoreGrantFails
<1>24. ASSUME Disconnect PROVE TypeOK'
  BY <1>24 DEF Disconnect
<1>25. ASSUME Expire PROVE TypeOK'
  BY <1>25 DEF Expire
<1>26. ASSUME GrantEnds PROVE TypeOK'
  BY <1>26 DEF GrantEnds
<1>27. ASSUME NEW n \in Token, LateExchange(n) PROVE TypeOK'
  BY <1>27 DEF LateExchange
<1>28. CASE UNCHANGED vars
  BY <1>28 DEF vars
<1> QED
  BY <1>1, <1>2, <1>3, <1>4, <1>5, <1>6, <1>7, <1>8, <1>9, <1>10, <1>11, <1>12,
     <1>13, <1>14, <1>15, <1>16, <1>17, <1>18, <1>19, <1>20, <1>21, <1>22, <1>23, <1>24,
     <1>25, <1>26, <1>27, <1>28 DEF Next, Holds

\* Every action keeps the strengthened invariant.
LEMMA InvStep == TypeOK /\ TokensInv /\ [Next]_vars => TokensInv'
<1> SUFFICES ASSUME TypeOK, TokensInv, [Next]_vars PROVE TokensInv'
  OBVIOUS
<1> USE TokenConstants
    DEF TypeOK, Locking, Refreshing, Connecting, TokensInv, LockMeansWork, WorkMeansLock,
        NoOverlap, ExchangesStored, SuccessorsLive, StoredIsLast, RefreshesExpired,
        CutKnows, HealthyNeverRejected, rowVars, workerVars, browserVars, intuitVars, history
<1>1. ASSUME NEW w \in Workers, Find(w) PROVE TokensInv'
  BY <1>1 DEF Find
<1>2. ASSUME NEW w \in Workers, Use(w) PROVE TokensInv'
  BY <1>2 DEF Use
<1>3. ASSUME NEW w \in Workers, Wait(w) PROVE TokensInv'
  BY <1>3 DEF Wait
<1>4. ASSUME NEW w \in Workers, Acquire(w) PROVE TokensInv'
  BY <1>4 DEF Acquire
<1>5. ASSUME NEW w \in Workers, LockTimesOut(w) PROVE TokensInv'
  BY <1>5 DEF LockTimesOut
<1>6. ASSUME NEW w \in Workers, ReloadInactive(w) PROVE TokensInv'
  BY <1>6 DEF ReloadInactive, Leave
<1>7. ASSUME NEW w \in Workers, ReloadFresh(w) PROVE TokensInv'
  BY <1>7 DEF ReloadFresh, Leave
<1>8. ASSUME NEW w \in Workers, ReloadExpired(w) PROVE TokensInv'
  BY <1>8 DEF ReloadExpired
<1>9. ASSUME NEW w \in Workers, Exchange(w) PROVE TokensInv'
  <2>1. LockMeansWork'
    BY <1>9 DEF Exchange
  <2>2. WorkMeansLock'
    BY <1>9 DEF Exchange
  <2>3. NoOverlap'
    BY <1>9 DEF Exchange
  <2>4. ExchangesStored'
    BY <1>9 DEF Exchange
  <2>5. SuccessorsLive'
    BY <1>9 DEF Exchange
  <2>6. StoredIsLast'
    BY <1>9 DEF Exchange
  <2>7. RefreshesExpired'
    <3>1. conn[w] \in expired /\ rotated \cup late \subseteq expired
      BY <1>9 DEF Exchange
    <3>2. rotated' = rotated \cup {conn[w]} /\ late' = late /\ expired' = expired
      BY <1>9 DEF Exchange
    <3>3. rotated' \cup late' \subseteq expired'
      BY <3>1, <3>2
    <3>4. ASSUME NEW v \in Workers, pc'[v] = "exchange" PROVE conn'[v] \in expired'
      BY <1>9, <3>2, <3>4 DEF Exchange
    <3> QED
      BY <3>3, <3>4 DEF RefreshesExpired
  <2>8. CutKnows'
    BY <1>9 DEF Exchange
  <2>9. HealthyNeverRejected'
    BY <1>9 DEF Exchange
  <2> QED
    BY <2>1, <2>2, <2>3, <2>4, <2>5, <2>6, <2>7, <2>8, <2>9
<1>10. ASSUME NEW w \in Workers, ExchangeFails(w) PROVE TokensInv'
  <2>1. LockMeansWork'
    BY <1>10 DEF ExchangeFails, Leave
  <2>2. WorkMeansLock'
    BY <1>10 DEF ExchangeFails, Leave
  <2>3. NoOverlap'
    BY <1>10 DEF ExchangeFails, Leave
  <2>4. ExchangesStored'
    BY <1>10 DEF ExchangeFails, Leave
  <2>5. SuccessorsLive'
    BY <1>10 DEF ExchangeFails, Leave
  <2>6. StoredIsLast'
    BY <1>10 DEF ExchangeFails, Leave
  <2>7. RefreshesExpired'
    <3>1. conn[w] \in expired /\ rotated \cup late \subseteq expired
      BY <1>10 DEF ExchangeFails
    <3>2. rotated' = rotated /\ late' \subseteq late \cup {conn[w]} /\ expired' = expired
      BY <1>10 DEF ExchangeFails
    <3>3. rotated' \cup late' \subseteq expired'
      BY <3>1, <3>2
    <3>4. ASSUME NEW v \in Workers, pc'[v] = "exchange" PROVE conn'[v] \in expired'
      BY <1>10, <3>2, <3>4 DEF ExchangeFails, Leave
    <3> QED
      BY <3>3, <3>4 DEF RefreshesExpired
  <2>8. CutKnows'
    BY <1>10 DEF ExchangeFails, Leave
  <2>9. HealthyNeverRejected'
    BY <1>10 DEF ExchangeFails, Leave
  <2> QED
    BY <2>1, <2>2, <2>3, <2>4, <2>5, <2>6, <2>7, <2>8, <2>9
<1>11. ASSUME NEW w \in Workers, ExchangeRejected(w) PROVE TokensInv'
  BY <1>11 DEF ExchangeRejected, Leave
<1>12. ASSUME NEW w \in Workers, Store(w) PROVE TokensInv'
  BY <1>12 DEF Store, Leave
<1>13. ASSUME NEW w \in Workers, StoreFails(w) PROVE TokensInv'
  BY <1>13 DEF StoreFails, Leave
<1>14. ASSUME NEW w \in Workers, Crash(w) PROVE TokensInv'
  BY <1>14 DEF Crash, Leave
<1>15. ASSUME NEW w \in Workers, SessionBreaks(w) PROVE TokensInv'
  BY <1>15 DEF SessionBreaks
<1>16. ASSUME NEW b \in Browsers, Connect(b) PROVE TokensInv'
  BY <1>16 DEF Connect
<1>17. ASSUME NEW b \in Browsers, StateExpires(b) PROVE TokensInv'
  BY <1>17 DEF StateExpires
<1>18. ASSUME NEW b \in Browsers, Callback(b) PROVE TokensInv'
  BY <1>18 DEF Callback
<1>19. ASSUME NEW b \in Browsers, ExchangeCode(b) PROVE TokensInv'
  BY <1>19 DEF ExchangeCode, NewGrant
<1>20. ASSUME NEW b \in Browsers, CodeFails(b) PROVE TokensInv'
  BY <1>20 DEF CodeFails
<1>21. ASSUME NEW b \in Browsers, CodeLost(b) PROVE TokensInv'
  BY <1>21 DEF CodeLost, NewGrant
<1>22. ASSUME NEW b \in Browsers, StoreGrant(b) PROVE TokensInv'
  BY <1>22 DEF StoreGrant
<1>23. ASSUME NEW b \in Browsers, StoreGrantFails(b) PROVE TokensInv'
  BY <1>23 DEF StoreGrantFails
<1>24. ASSUME Disconnect PROVE TokensInv'
  BY <1>24 DEF Disconnect
<1>25. ASSUME Expire PROVE TokensInv'
  BY <1>25 DEF Expire
<1>26. ASSUME GrantEnds PROVE TokensInv'
  BY <1>26 DEF GrantEnds
<1>27. ASSUME NEW n \in Token, LateExchange(n) PROVE TokensInv'
  BY <1>27 DEF LateExchange
<1>28. CASE UNCHANGED vars
  BY <1>28 DEF vars
<1> QED
  BY <1>1, <1>2, <1>3, <1>4, <1>5, <1>6, <1>7, <1>8, <1>9, <1>10, <1>11, <1>12,
     <1>13, <1>14, <1>15, <1>16, <1>17, <1>18, <1>19, <1>20, <1>21, <1>22, <1>23, <1>24,
     <1>25, <1>26, <1>27, <1>28 DEF Next, Holds

-----------------------------------------------------------------------------

\* Every variable keeps its type (Tokens.TypeOK).
THEOREM TypeCorrect == Spec => []TypeOK
<1>1. Init => TypeOK
  BY InitEstablishes
<1> QED
  BY <1>1, TypeStep, PTL DEF Spec

\* The strengthened invariant of the refresh protocol.
THEOREM Invariant == Spec => [](TypeOK /\ TokensInv)
<1> QED
  BY InitEstablishes, TypeStep, InvStep, PTL DEF Spec

\* Whatever number of workers and users act on a connection, it survives every refresh
\* that meets no mishap.
THEOREM ConnectionSurvives == Spec => []StoredTokenLives
<1>1. TokensInv => StoredTokenLives
  BY DEF TokensInv, StoredTokenLives, SuccessorsLive, StoredIsLast, Connecting
<1> QED
  BY <1>1, Invariant, PTL

\* A healthy connection is never answered invalid_grant.
THEOREM NobodyIsRejected == Spec => []HealthyNeverRejected
<1>1. TokensInv => HealthyNeverRejected
  BY DEF TokensInv
<1> QED
  BY <1>1, Invariant, PTL

\* Only expired tokens are exchanged: those who waited reuse what the winner stored.
THEOREM WaitersReuse == Spec => []HerdRefreshesOnce
<1>1. TokensInv => HerdRefreshesOnce
  BY DEF TokensInv, RefreshesExpired, HerdRefreshesOnce
<1> QED
  BY <1>1, Invariant, PTL

\* Only users, and refreshes already past the check of the row, reconnect a connection.
THEOREM StaysDisconnected == Spec => DisconnectedStays
<1>1. TypeOK /\ TokensInv /\ [Next]_vars =>
        [status = "revoked" /\ status' = "active" =>
           \/ \E b \in Browsers : page[b] = "store" /\ page'[b] = "idle"
           \/ \E w \in cut : pc[w] = "store" /\ pc'[w] = "ready"]_vars
  <2> SUFFICES ASSUME TypeOK, TokensInv, [Next]_vars,
                      status = "revoked", status' = "active"
               PROVE  \/ \E b \in Browsers : page[b] = "store" /\ page'[b] = "idle"
                      \/ \E w \in cut : pc[w] = "store" /\ pc'[w] = "ready"
    OBVIOUS
  <2>1. (\E w \in Workers : Store(w)) \/ (\E b \in Browsers : StoreGrant(b))
    BY DEF Next, Holds, vars, rowVars, Find, Use, Wait, Acquire, LockTimesOut,
           ReloadInactive, ReloadFresh, ReloadExpired, Exchange, ExchangeFails,
           ExchangeRejected, StoreFails, Crash, SessionBreaks, Connect, StateExpires,
           Callback, ExchangeCode, CodeFails, CodeLost, StoreGrantFails, Disconnect,
           Expire, GrantEnds, LateExchange
  <2>2. ASSUME NEW w \in Workers, Store(w)
        PROVE  w \in cut /\ pc[w] = "store" /\ pc'[w] = "ready"
    BY <2>2 DEF Store, Leave, TokensInv, CutKnows, TypeOK
  <2>3. ASSUME NEW b \in Browsers, StoreGrant(b)
        PROVE  page[b] = "store" /\ page'[b] = "idle"
    BY <2>3 DEF StoreGrant, TypeOK
  <2> QED
    BY <2>1, <2>2, <2>3
<1> QED
  BY <1>1, Invariant, PTL DEF DisconnectedStays, Spec
=============================================================================
