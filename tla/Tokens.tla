------------------------------ MODULE Tokens ------------------------------
(***************************************************************************)
(* The tokens of one QuickBooks connection: workers that refresh them      *)
(* under an advisory lock (packages/qbo/src/client.ts, packages/qbo/src/   *)
(* oauth.ts, packages/db/src/connection-repository.ts) beside the routes   *)
(* that connect and disconnect without it (services/api/src/routes/        *)
(* oauth.ts).                                                              *)
(*                                                                         *)
(* A token is a number and stands for the pair of access and refresh token *)
(* that one exchange returned.  Intuit rotates: an exchange makes the      *)
(* refresh token it was given worthless, so the only copy of the next one  *)
(* is in the memory of whoever asked, until it is stored.                  *)
(***************************************************************************)
EXTENDS Naturals

CONSTANTS
  Workers,   \* calls of QboClient.request that need a token
  Browsers,  \* users going through the connect flow
  NoOne,     \* nobody holds the advisory lock
  MaxTokens  \* bound: token pairs Intuit issues

ASSUME TokenConstants ==
  /\ MaxTokens \in Nat
  /\ NoOne \notin Workers

Token == 1 .. MaxTokens

VARIABLES
  status,   \* qbo_connections.status, "none" before the row exists
  stored,   \* the token of the row, 0 before it exists
  lock,     \* the worker whose session holds pg_advisory_lock
  pc,       \* worker: the statement it is at
  conn,     \* worker: the token of its copy of the connection
  got,      \* worker: the token its exchange returned
  page,     \* browser: where it is in the connect flow
  grant,    \* browser: the token its code was exchanged for
  issued,   \* Intuit: tokens issued so far
  alive,    \* Intuit: refresh tokens it accepts
  late,     \* refresh tokens of exchanges given up that may still arrive
  expired,  \* tokens whose access token is expired, or nearly
  rotated,  \* refresh tokens that were exchanged (history)
  rejected, \* whether Intuit ever answered invalid_grant to a refresh (history)
  cut,      \* workers that were past the check of the row when it was revoked (history)
  mishap    \* whether a token was lost, a session broke, a grant ended at Intuit, or a new
            \* grant overtook a refresh (history)

rowVars == <<status, stored>>
workerVars == <<lock, pc, conn, got>>
browserVars == <<page, grant>>
intuitVars == <<issued, alive, late, expired>>
history == <<rotated, rejected, cut, mishap>>
vars == <<rowVars, workerVars, browserVars, intuitVars, history>>

-----------------------------------------------------------------------------

Locking == {"reload", "exchange", "store"}

TypeOK ==
  /\ status \in {"none", "active", "revoked"}
  /\ issued \in 0 .. MaxTokens
  /\ stored \in 0 .. issued
  /\ lock \in Workers \cup {NoOne}
  /\ pc \in [Workers -> {"idle", "ready", "wait"} \cup Locking]
  /\ conn \in [Workers -> 0 .. issued] /\ got \in [Workers -> 0 .. issued]
  /\ page \in [Browsers -> {"idle", "consent", "exchange", "store"}]
  /\ grant \in [Browsers -> 0 .. issued]
  /\ alive \subseteq 1 .. issued /\ expired \subseteq 1 .. issued
  /\ late \subseteq 1 .. issued /\ rotated \subseteq 1 .. issued
  /\ rejected \in BOOLEAN
  /\ cut \subseteq Workers
  /\ mishap \in BOOLEAN

Init ==
  /\ status = "none" /\ stored = 0
  /\ lock = NoOne
  /\ pc = [w \in Workers |-> "idle"]
  /\ conn = [w \in Workers |-> 0] /\ got = [w \in Workers |-> 0]
  /\ page = [b \in Browsers |-> "idle"] /\ grant = [b \in Browsers |-> 0]
  /\ issued = 0 /\ alive = {} /\ late = {} /\ expired = {}
  /\ rotated = {} /\ rejected = FALSE /\ cut = {} /\ mishap = FALSE

\* Two of these at once are an overlap: two grants on their way to the row together.
Refreshing == \E w \in Workers : pc[w] \in {"exchange", "store"}
Connecting == \E b \in Browsers : page[b] = "store"

-----------------------------------------------------------------------------
(* Workers: client.ts ensureToken and what surrounds it *)

\* findActive
Find(w) ==
  /\ pc[w] = "idle" /\ status = "active"
  /\ pc' = [pc EXCEPT ![w] = "ready"]
  /\ conn' = [conn EXCEPT ![w] = stored]
  /\ UNCHANGED <<rowVars, lock, got, browserVars, intuitVars, history>>

\* The last request of this copy of the connection is made, with a token not yet expired.
Use(w) ==
  /\ pc[w] = "ready" /\ conn[w] \notin expired
  /\ pc' = [pc EXCEPT ![w] = "idle"] /\ conn' = [conn EXCEPT ![w] = 0]
  /\ UNCHANGED <<rowVars, lock, got, browserVars, intuitVars, history>>

\* The copy's access token has expired: SELECT pg_advisory_lock.
Wait(w) ==
  /\ pc[w] = "ready" /\ conn[w] \in expired
  /\ pc' = [pc EXCEPT ![w] = "wait"]
  /\ UNCHANGED <<rowVars, lock, conn, got, browserVars, intuitVars, history>>

\* Mutant: the lock is not taken.
AcquireNothing(w) ==
  /\ pc[w] = "wait"
  /\ lock' = w
  /\ pc' = [pc EXCEPT ![w] = "reload"]
  /\ UNCHANGED <<rowVars, conn, got, browserVars, intuitVars, history>>

Acquire(w) ==
  /\ pc[w] = "wait" /\ lock = NoOne
  /\ lock' = w
  /\ pc' = [pc EXCEPT ![w] = "reload"]
  /\ UNCHANGED <<rowVars, conn, got, browserVars, intuitVars, history>>

\* statement_timeout (15 s) ends the wait; an exchange may take 30 s.
LockTimesOut(w) ==
  /\ pc[w] = "wait" /\ lock # NoOne
  /\ pc' = [pc EXCEPT ![w] = "idle"] /\ conn' = [conn EXCEPT ![w] = 0]
  /\ UNCHANGED <<rowVars, lock, got, browserVars, intuitVars, history>>

\* Mutant: the lock is only given back by a refresh that succeeded.
LeaveHoldingOnError(w, to, n) ==
  /\ pc' = [pc EXCEPT ![w] = to]
  /\ conn' = [conn EXCEPT ![w] = n]
  /\ got' = [got EXCEPT ![w] = 0]
  /\ lock' = IF lock = w /\ to # "idle" THEN NoOne ELSE lock
  /\ cut' = cut \ {w}

\* withRefreshLock's finally: the session gives the lock back, and the worker goes on with
\* the live connection n, or with the error.
Leave(w, to, n) ==
  /\ pc' = [pc EXCEPT ![w] = to]
  /\ conn' = [conn EXCEPT ![w] = n]
  /\ got' = [got EXCEPT ![w] = 0]
  /\ lock' = IF lock = w THEN NoOne ELSE lock
  /\ cut' = cut \ {w}

\* reload throws: the connection is no longer active.
ReloadInactive(w) ==
  /\ pc[w] = "reload" /\ status # "active"
  /\ Leave(w, "idle", 0)
  /\ UNCHANGED <<rowVars, browserVars, intuitVars, rotated, rejected, mishap>>

\* Another worker has refreshed already.
ReloadFresh(w) ==
  /\ pc[w] = "reload" /\ status = "active" /\ stored \notin expired
  /\ Leave(w, "ready", stored)
  /\ UNCHANGED <<rowVars, browserVars, intuitVars, rotated, rejected, mishap>>

\* Mutant: no second look at the expiry inside the lock.
ReloadExpiredUnchecked(w) ==
  /\ pc[w] = "reload" /\ status = "active"
  /\ pc' = [pc EXCEPT ![w] = "exchange"]
  /\ conn' = [conn EXCEPT ![w] = stored]
  /\ mishap' = (mishap \/ Connecting)
  /\ UNCHANGED <<rowVars, lock, got, browserVars, intuitVars, rotated, rejected, cut>>

\* Mutant: no second look at the status inside the lock.
ReloadExpiredRevoked(w) ==
  /\ pc[w] = "reload" /\ stored \in expired
  /\ pc' = [pc EXCEPT ![w] = "exchange"]
  /\ conn' = [conn EXCEPT ![w] = stored]
  /\ mishap' = (mishap \/ Connecting)
  /\ UNCHANGED <<rowVars, lock, got, browserVars, intuitVars, rotated, rejected, cut>>

\* Still expired: this worker refreshes.
ReloadExpired(w) ==
  /\ pc[w] = "reload" /\ status = "active" /\ stored \in expired
  /\ pc' = [pc EXCEPT ![w] = "exchange"]
  /\ conn' = [conn EXCEPT ![w] = stored]
  /\ mishap' = (mishap \/ Connecting)
  /\ UNCHANGED <<rowVars, lock, got, browserVars, intuitVars, rotated, rejected, cut>>

\* refreshTokens: Intuit rotates and answers.
Exchange(w) ==
  /\ pc[w] = "exchange" /\ conn[w] \in alive /\ issued < MaxTokens
  /\ issued' = issued + 1
  /\ alive' = (alive \ {conn[w]}) \cup {issued + 1}
  /\ got' = [got EXCEPT ![w] = issued + 1]
  /\ rotated' = rotated \cup {conn[w]}
  /\ pc' = [pc EXCEPT ![w] = "store"]
  /\ UNCHANGED <<rowVars, lock, conn, browserVars, late, expired, rejected, cut, mishap>>

\* A timeout, a 5xx or an answer that is no JSON: retryable, nothing is stored.  Whether
\* and when Intuit carries the exchange out is another matter.
ExchangeFails(w) ==
  /\ pc[w] = "exchange"
  /\ late' = late \cup ({conn[w]} \cap alive)
  /\ Leave(w, "idle", 0)
  /\ UNCHANGED <<rowVars, browserVars, issued, alive, expired, rotated, rejected, mishap>>

\* Mutant: the failure is recorded on the connection, whoever caused it.
ExchangeRejectedRecorded(w) ==
  /\ pc[w] = "exchange" /\ conn[w] \notin alive
  /\ rejected' = TRUE
  /\ status' = "reauth_required"
  /\ Leave(w, "idle", 0)
  /\ UNCHANGED <<stored, browserVars, intuitVars, rotated, mishap>>

\* invalid_grant: an AuthError.  The row is left as it is: nothing calls recordFailure.
ExchangeRejected(w) ==
  /\ pc[w] = "exchange" /\ conn[w] \notin alive
  /\ rejected' = TRUE
  /\ Leave(w, "idle", 0)
  /\ UNCHANGED <<rowVars, browserVars, intuitVars, rotated, mishap>>

\* Mutant: ON CONFLICT DO NOTHING.
StoreNothing(w) ==
  /\ pc[w] = "store" /\ lock = w
  /\ Leave(w, "ready", got[w])
  /\ UNCHANGED <<rowVars, browserVars, intuitVars, rotated, rejected, mishap>>

\* upsert, in the session that holds the lock; whatever the status is, it becomes active.
Store(w) ==
  /\ pc[w] = "store" /\ lock = w
  /\ status' = "active" /\ stored' = got[w]
  /\ Leave(w, "ready", got[w])
  /\ UNCHANGED <<browserVars, intuitVars, rotated, rejected, mishap>>

\* The upsert fails, always so when the session is gone: the new token is lost.
StoreFails(w) ==
  /\ pc[w] = "store"
  /\ Leave(w, "idle", 0)
  /\ mishap' = TRUE
  /\ UNCHANGED <<rowVars, browserVars, intuitVars, rotated, rejected>>

\* The process dies; PostgreSQL frees the lock of its session.
Crash(w) ==
  /\ pc[w] # "idle"
  /\ Leave(w, "idle", 0)
  /\ mishap' = (mishap \/ pc[w] = "store")
  /\ UNCHANGED <<rowVars, browserVars, intuitVars, rotated, rejected>>

\* The session breaks while the worker talks to Intuit: the lock is free and the worker
\* does not know.
SessionBreaks(w) ==
  /\ pc[w] \in {"exchange", "store"} /\ lock = w
  /\ lock' = NoOne
  /\ mishap' = TRUE
  /\ UNCHANGED <<rowVars, pc, conn, got, browserVars, intuitVars, rotated, rejected, cut>>

-----------------------------------------------------------------------------
(* Routes: services/api/src/routes/oauth.ts *)

\* POST /connect stores a state in Redis and sends the user to Intuit.
Connect(b) ==
  /\ page[b] = "idle"
  /\ page' = [page EXCEPT ![b] = "consent"]
  /\ UNCHANGED <<rowVars, workerVars, grant, intuitVars, history>>

\* The state expires after ten minutes.
StateExpires(b) ==
  /\ page[b] = "consent"
  /\ page' = [page EXCEPT ![b] = "idle"]
  /\ UNCHANGED <<rowVars, workerVars, grant, intuitVars, history>>

\* GET /callback: GETDEL takes the state, so a callback runs once for it.
Callback(b) ==
  /\ page[b] = "consent"
  /\ page' = [page EXCEPT ![b] = "exchange"]
  /\ UNCHANGED <<rowVars, workerVars, grant, intuitVars, history>>

\* Intuit issues a new grant; the repository does not say whether it ends the earlier one.
NewGrant ==
  /\ issued < MaxTokens
  /\ issued' = issued + 1
  /\ alive' \in {alive \cup {issued + 1}, {issued + 1}}

\* exchangeAuthorizationCode
ExchangeCode(b) ==
  /\ page[b] = "exchange"
  /\ NewGrant
  /\ grant' = [grant EXCEPT ![b] = issued + 1]
  /\ page' = [page EXCEPT ![b] = "store"]
  /\ mishap' = (mishap \/ Refreshing \/ Connecting)
  /\ UNCHANGED <<rowVars, workerVars, late, expired, rotated, rejected, cut>>

\* The code is refused, or the exchange fails and Intuit never carries it out.
CodeFails(b) ==
  /\ page[b] = "exchange"
  /\ page' = [page EXCEPT ![b] = "idle"]
  /\ UNCHANGED <<rowVars, workerVars, grant, intuitVars, history>>

\* The answer, or the process that waited for it, is lost.
CodeLost(b) ==
  /\ page[b] = "exchange"
  /\ NewGrant
  /\ page' = [page EXCEPT ![b] = "idle"]
  /\ mishap' = TRUE
  /\ UNCHANGED <<rowVars, workerVars, grant, late, expired, rotated, rejected, cut>>

\* The upsert of the callback, without the lock.
StoreGrant(b) ==
  /\ page[b] = "store"
  /\ status' = "active" /\ stored' = grant[b]
  /\ page' = [page EXCEPT ![b] = "idle"] /\ grant' = [grant EXCEPT ![b] = 0]
  /\ UNCHANGED <<workerVars, intuitVars, history>>

\* The process dies or the upsert fails.
StoreGrantFails(b) ==
  /\ page[b] = "store"
  /\ page' = [page EXCEPT ![b] = "idle"] /\ grant' = [grant EXCEPT ![b] = 0]
  /\ mishap' = TRUE
  /\ UNCHANGED <<rowVars, workerVars, intuitVars, rotated, rejected, cut>>

\* POST /disconnect: the row alone changes, without the lock; revokeToken is not called.
Disconnect ==
  /\ status = "active"
  /\ status' = "revoked"
  /\ cut' = {w \in Workers : pc[w] \in {"exchange", "store"}}
  /\ UNCHANGED <<stored, workerVars, browserVars, intuitVars, rotated, rejected, mishap>>

-----------------------------------------------------------------------------
(* Intuit and time *)

\* The hour of the row's access token is over, the five minutes of skew included.
Expire ==
  /\ stored # 0 /\ stored \notin expired
  /\ expired' = expired \cup {stored}
  /\ UNCHANGED <<rowVars, workerVars, browserVars, issued, alive, late, history>>

\* Intuit carries out an exchange its caller has given up.
LateExchange(n) ==
  /\ n \in late \cap alive /\ issued < MaxTokens
  /\ issued' = issued + 1
  /\ alive' = (alive \ {n}) \cup {issued + 1}
  /\ late' = late \ {n}
  /\ rotated' = rotated \cup {n}
  /\ mishap' = TRUE
  /\ UNCHANGED <<rowVars, workerVars, browserVars, expired, rejected, cut>>

\* The grant ends at Intuit: a hundred days without use, or the user withdrew it there.
GrantEnds ==
  /\ alive # {}
  /\ alive' = {}
  /\ mishap' = TRUE
  /\ UNCHANGED <<rowVars, workerVars, browserVars, issued, late, expired, rotated, rejected, cut>>

-----------------------------------------------------------------------------

\* What the holder of the lock does next.
Holds(w) ==
  \/ ReloadInactive(w) \/ ReloadFresh(w) \/ ReloadExpired(w)
  \/ Exchange(w) \/ ExchangeFails(w) \/ ExchangeRejected(w)
  \/ Store(w) \/ StoreFails(w)

Next ==
  \/ \E w \in Workers :
       \/ Find(w) \/ Use(w) \/ Wait(w) \/ Acquire(w) \/ LockTimesOut(w)
       \/ Holds(w) \/ Crash(w) \/ SessionBreaks(w)
  \/ \E b \in Browsers :
       \/ Connect(b) \/ StateExpires(b) \/ Callback(b)
       \/ ExchangeCode(b) \/ CodeFails(b) \/ CodeLost(b)
       \/ StoreGrant(b) \/ StoreGrantFails(b)
  \/ Disconnect \/ Expire \/ GrantEnds
  \/ \E n \in Token : LateExchange(n)

Spec == Init /\ [][Next]_vars

\* A live worker inside the lock runs on: its calls of Intuit and its statements end by
\* their timeouts.  Nothing is assumed of people, of Intuit or of who gets the lock.
FairSpec == Spec /\ \A w \in Workers : WF_vars(Holds(w))

-----------------------------------------------------------------------------
(* Properties *)

\* The connection survives every refresh (connection-repository.ts:4-17): unless a token
\* died on its way to the row, the session of a refresh broke, a new grant overtook a
\* refresh, or the grant ended at Intuit, the row's refresh token is one Intuit accepts,
\* or its successor is about to be stored.
StoredTokenLives ==
  status # "none" /\ ~mishap =>
    \/ stored \in alive
    \/ \E w \in Workers : pc[w] = "store" /\ got[w] \in alive
    \/ \E b \in Browsers : page[b] = "store" /\ grant[b] \in alive

\* No caller of a healthy connection ever presents a dead refresh token, however many find
\* the access token expired at once.
HealthyNeverRejected == rejected => mishap

\* No thundering herd (client.ts:90-92): a refresh token is exchanged only once its own
\* access token has expired, so those who waited reuse what the winner stored.
HerdRefreshesOnce == rotated \subseteq expired

\* A connection a user has disconnected is connected again only by a user, or by a refresh
\* that had looked at the row before.
DisconnectedStays ==
  [][status = "revoked" /\ status' = "active" =>
       \/ \E b \in Browsers : page[b] = "store" /\ page'[b] = "idle"
       \/ \E w \in cut : pc[w] = "store" /\ pc'[w] = "ready"]_vars

\* A lock that was taken is given back, however the refresh ends.
LockIsFreed == \A w \in Workers : lock = w ~> lock # w
=============================================================================
