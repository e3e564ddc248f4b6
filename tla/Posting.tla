------------------------------ MODULE Posting ------------------------------
(***************************************************************************)
(* Posting approved invoices to QuickBooks Online: postInvoice of          *)
(* services/worker-posting/src/post-invoice.ts, run by BullMQ workers      *)
(* (main.ts) against the invoice table and the tenant's QuickBooks company.*)
(*                                                                         *)
(* postInvoice is not one transaction.  Every statement commits on its own *)
(* and every QuickBooks call may be answered, refused, lost, or delivered  *)
(* after the caller gave up, so a worker is a program counter whose steps  *)
(* interleave with other workers, with redeliveries of the same job, with  *)
(* people, and with the ledger.  A worker that lost its BullMQ lock keeps  *)
(* running until it finishes; its result is then ignored by the queue.     *)
(***************************************************************************)
EXTENDS Naturals, FiniteSets, InvoiceStatus

CONSTANTS
  Invoices,        \* invoices of one tenant, all bound for one realm
  Workers,         \* slots of the posting workers, over all pods
  DocNumbers,      \* values of a bill's DocNumber
  docNumber,       \* the DocNumber each invoice maps to, None if it has no number
  HandDocs,        \* DocNumbers under which people enter bills directly in QuickBooks
  None,            \* no invoice, no worker, no number
  MaxAttempts,     \* job attempts before BullMQ fails the job (5 in the code)
  MaxStalls,       \* stalls a job survives (maxStalledCount, 2 in the code)
  MaxDeliveries,   \* bound: deliveries of one approval by the relay
  MaxApprovals,    \* bound: times one invoice is approved
  MaxHandEntered   \* bound: bills people enter by hand

Approvals == 1 .. MaxApprovals
Jobs == Invoices \X Approvals      \* job id post-<invoice>-<version>: one per approval
NoBill == 0                        \* qbo_entity_id IS NULL

ASSUME PostingConstants ==
  /\ None \notin Invoices \cup Workers \cup DocNumbers
  /\ docNumber \in [Invoices -> DocNumbers \cup {None}]
  /\ HandDocs \subseteq DocNumbers
  /\ {MaxAttempts, MaxStalls, MaxDeliveries, MaxApprovals, MaxHandEntered} \subseteq Nat
  /\ MaxApprovals >= 1

VARIABLES
  row,        \* invoices table: status, version, qbo_entity_id
  outbox,     \* how many invoice.posted and invoice.posting_failed events each invoice has
  approvals,  \* how often each invoice has been approved
  job,        \* BullMQ: state, lock holder, attempts, stalls, deliveries of every job
  pc,         \* worker: the next statement
  at,         \* worker: the invoice of its job
  seen,       \* worker: the version it last read
  found,      \* worker: the bill QuickBooks named
  bills,      \* QuickBooks: the bills, their DocNumber, the invoice of their PrivateNote
  nextId,     \* QuickBooks: the next entity id
  memo,       \* QuickBooks: the bill remembered for an invoice's requestid
  late,       \* invoices with an abandoned POST still on its way to QuickBooks
  forgot      \* invoices whose requestid QuickBooks no longer remembers (history)

dbVars     == <<row, outbox, approvals>>
localVars  == <<at, seen, found>>
ledgerVars == <<bills, nextId, memo>>
vars == <<dbVars, job, pc, localVars, ledgerVars, late, forgot>>

\* The posting jobs in BullMQ.
INSTANCE JobQueue

-----------------------------------------------------------------------------
(* Types and initial state *)

Labels == { "idle", "read", "recover", "claim", "reread", "build", "await",
            "record", "dup", "link", "park", "ack" }

Bill == [id : Nat \ {NoBill}, owner : Invoices \cup {None}, doc : DocNumbers \cup {None}]

DbTypes ==
  /\ row \in [Invoices -> [status : InvoiceStatuses, version : Nat, bill : Nat]]
  /\ outbox \in [Invoices -> [posted : Nat, failed : Nat]]
  /\ approvals \in [Invoices -> 0 .. MaxApprovals]

JobTypes == job \in [Jobs -> JobRecord]

WorkerTypes ==
  /\ pc \in [Workers -> Labels]
  /\ at \in [Workers -> Invoices \cup {None}]
  /\ \A w \in Workers : pc[w] # "idle" => at[w] \in Invoices
  /\ seen \in [Workers -> Nat]
  /\ found \in [Workers -> Nat]

LedgerTypes ==
  /\ bills \subseteq Bill
  /\ nextId \in Nat \ {NoBill}
  /\ memo \in [Invoices -> Nat]

HistoryTypes == late \subseteq Invoices /\ forgot \subseteq Invoices

\* Every variable has its type, and a busy worker is at an invoice.
TypeOK == DbTypes /\ JobTypes /\ WorkerTypes /\ LedgerTypes /\ HistoryTypes

\* Every invoice has been extracted and waits for a reviewer.
Init ==
  /\ row = [i \in Invoices |-> [status |-> "needs_review", version |-> 1, bill |-> NoBill]]
  /\ outbox = [i \in Invoices |-> [posted |-> 0, failed |-> 0]]
  /\ approvals = [i \in Invoices |-> 0]
  /\ job = [k \in Jobs |-> NewJob("absent", 0)]
  /\ pc = [w \in Workers |-> "idle"]
  /\ at = [w \in Workers |-> None]
  /\ seen = [w \in Workers |-> 0]
  /\ found = [w \in Workers |-> NoBill]
  /\ bills = {}
  /\ nextId = 1
  /\ memo = [i \in Invoices |-> NoBill]
  /\ late = {}
  /\ forgot = {}

-----------------------------------------------------------------------------
(* The repository and the ledger as the worker uses them *)

\* Mutant: a compare-and-swap made "idempotent" accepts a row that is already there.
CasIdempotent(i, from, to, version) ==
  /\ CanTransition(from, to)
  /\ row[i].status \in {from, to}

\* The WHERE clause of transitionStatus, behind assertTransition.
Cas(i, from, to, version) ==
  /\ CanTransition(from, to)
  /\ row[i].status = from
  /\ row[i].version = version

\* The SET clause of transitionStatus: version + 1, and the bill for recordPosted.
Moved(i, to, bill) ==
  [row EXCEPT ![i] = [status |-> to, version |-> @.version + 1, bill |-> bill]]

\* Mutant: the number does not reach the WHERE clause.
MatchesAny(i) == {b \in bills : docNumber[i] # None}

\* The rows of "select ... from Bill where DocNumber = ..."; no number, no query.
Matches(i) == {b \in bills : b.doc = docNumber[i] /\ b.doc # None}

\* QuickBooks commits a POST /bill: a remembered requestid answers with its bill,
\* otherwise a new bill is entered and the requestid remembered.
CommitBill(i) ==
  IF memo[i] # NoBill
    THEN UNCHANGED ledgerVars
    ELSE /\ bills' = bills \cup {[id |-> nextId, owner |-> i, doc |-> docNumber[i]]}
         /\ nextId' = nextId + 1
         /\ memo' = [memo EXCEPT ![i] = nextId]

Goto(w, l) == pc' = [pc EXCEPT ![w] = l]

\* Mutant: a finished slot is not reset.
LeaveBusy(w) ==
  /\ at' = [at EXCEPT ![w] = None]
  /\ UNCHANGED <<pc, seen, found>>

\* The worker slot is free again.
Leave(w) ==
  /\ pc' = [pc EXCEPT ![w] = "idle"]
  /\ at' = [at EXCEPT ![w] = None]
  /\ seen' = [seen EXCEPT ![w] = 0]
  /\ found' = [found EXCEPT ![w] = NoBill]

-----------------------------------------------------------------------------
(* The posting worker *)

\* A free slot takes a waiting job and its lock.
Take(w, k) ==
  /\ pc[w] = "idle"
  /\ JobTaken(w, k)
  /\ at' = [at EXCEPT ![w] = k[1]]
  /\ Goto(w, "read")
  /\ UNCHANGED <<dbVars, seen, found, ledgerVars, late, forgot>>

\* Mutant: without guard 4 a row in posting is posted again blindly.
ReadSkipsRecovery(w) ==
  LET r == row[at[w]] IN
  /\ pc[w] = "read"
  /\ seen' = [seen EXCEPT ![w] = r.version]
  /\ Goto(w, IF r.bill # NoBill THEN "ack"
             ELSE IF r.status = "posting" THEN "reread" ELSE "claim")
  /\ UNCHANGED <<dbVars, job, at, found, ledgerVars, late, forgot>>

\* requireById, guard 2 (a stored bill), and the choice between guards 4 and 1.
Read(w) ==
  LET r == row[at[w]] IN
  /\ pc[w] = "read"
  /\ seen' = [seen EXCEPT ![w] = r.version]
  /\ Goto(w, IF r.bill # NoBill THEN "ack"
             ELSE IF r.status = "posting" THEN "recover" ELSE "claim")
  /\ UNCHANGED <<dbVars, job, at, found, ledgerVars, late, forgot>>

\* Guard 4: exactly one bill carries this DocNumber, so it is taken to be ours.
RecoverFinds(w) ==
  /\ pc[w] = "recover"
  /\ \E b \in bills : Matches(at[w]) = {b} /\ found' = [found EXCEPT ![w] = b.id]
  /\ Goto(w, "link")
  /\ UNCHANGED <<dbVars, job, at, seen, ledgerVars, late, forgot>>

\* Guard 4: no bill, or several, or no number to ask for: post again.
RecoverFindsNone(w) ==
  /\ pc[w] = "recover"
  /\ \A b \in bills : Matches(at[w]) # {b}
  /\ Goto(w, "reread")
  /\ UNCHANGED <<dbVars, job, localVars, ledgerVars, late, forgot>>

\* The connection is gone, or the query fails for good: the error leaves postInvoice
\* from outside its try block, nothing is parked, and the handler returns.
RecoverGivesUp(w) ==
  /\ pc[w] = "recover"
  /\ Goto(w, "ack")
  /\ UNCHANGED <<dbVars, job, localVars, ledgerVars, late, forgot>>

\* Mutant: the claim is checked but not written.
ClaimUnwritten(w) ==
  /\ pc[w] = "claim"
  /\ Goto(w, IF Cas(at[w], "approved", "posting", seen[w]) THEN "reread" ELSE "ack")
  /\ UNCHANGED <<dbVars, job, localVars, ledgerVars, late, forgot>>

\* Guard 1.  A lost race is a ConflictError: the handler returns.
Claim(w) ==
  LET i == at[w]  won == Cas(i, "approved", "posting", seen[w]) IN
  /\ pc[w] = "claim"
  /\ row' = IF won THEN Moved(i, "posting", row[i].bill) ELSE row
  /\ Goto(w, IF won THEN "reread" ELSE "ack")
  /\ UNCHANGED <<outbox, approvals, job, localVars, ledgerVars, late, forgot>>

\* requireById again, whatever the row has become, and findActive.
Reread(w) ==
  /\ pc[w] = "reread"
  /\ seen' = [seen EXCEPT ![w] = row[at[w]].version]
  /\ Goto(w, "build")
  /\ UNCHANGED <<dbVars, job, at, found, ledgerVars, late, forgot>>

\* findActive throws, the tenant having disconnected QuickBooks; this too is outside
\* the try block.
RereadGivesUp(w) ==
  /\ pc[w] = "reread"
  /\ Goto(w, "ack")
  /\ UNCHANGED <<dbVars, job, localVars, ledgerVars, late, forgot>>

\* buildBill succeeds and POST /bill leaves.
Build(w) ==
  /\ pc[w] = "build"
  /\ Goto(w, "await")
  /\ UNCHANGED <<dbVars, job, localVars, ledgerVars, late, forgot>>

\* buildBill throws, for a mapping error or a passing failure of a lookup alike.
BuildFails(w) ==
  /\ pc[w] = "build"
  /\ Goto(w, "park")
  /\ UNCHANGED <<dbVars, job, localVars, ledgerVars, late, forgot>>

\* The bill is committed and the answer names it.
PostAccepted(w) ==
  /\ pc[w] = "await"
  /\ CommitBill(at[w])
  /\ found' = [found EXCEPT ![w] = memo'[at[w]]]
  /\ Goto(w, "record")
  /\ UNCHANGED <<dbVars, job, at, seen, late, forgot>>

\* The bill is committed and the answer names no bill: a ValidationError.
PostAcceptedUnnamed(w) ==
  /\ pc[w] = "await"
  /\ CommitBill(at[w])
  /\ Goto(w, "park")
  /\ UNCHANGED <<dbVars, job, localVars, late, forgot>>

\* Fault 6240: another bill has this DocNumber.
PostDuplicate(w) ==
  /\ pc[w] = "await"
  /\ memo[at[w]] = NoBill /\ Matches(at[w]) # {}
  /\ Goto(w, "dup")
  /\ UNCHANGED <<dbVars, job, localVars, ledgerVars, late, forgot>>

\* Any other fault that is not retryable: validation, authorisation, stale object.
PostRefused(w) ==
  /\ pc[w] = "await"
  /\ Goto(w, "park")
  /\ UNCHANGED <<dbVars, job, localVars, ledgerVars, late, forgot>>

\* Timeout, throttling, 5xx, lost connection: the POST may still be on its way.
PostUnknown(w) ==
  /\ pc[w] = "await"
  /\ late' \in {late, late \cup {at[w]}}
  /\ JobRetries(w) /\ Leave(w)
  /\ UNCHANGED <<dbVars, ledgerVars, forgot>>

\* recordPosted and the invoice.posted event in one transaction.  If the row moved
\* on, the ConflictError leads to parkInvoice, whose compare-and-swap fails too.
Record(w) ==
  LET i == at[w]  won == Cas(i, "posting", "posted", seen[w]) IN
  /\ pc[w] = "record"
  /\ row' = IF won THEN Moved(i, "posted", found[w]) ELSE row
  /\ outbox' = IF won THEN [outbox EXCEPT ![i].posted = @ + 1] ELSE outbox
  /\ Goto(w, "ack")
  /\ UNCHANGED <<approvals, job, localVars, ledgerVars, late, forgot>>

\* After fault 6240 the bill with this DocNumber is looked up, and linked if unique.
DupFinds(w) ==
  /\ pc[w] = "dup"
  /\ \E b \in bills : Matches(at[w]) = {b} /\ found' = [found EXCEPT ![w] = b.id]
  /\ Goto(w, "link")
  /\ UNCHANGED <<dbVars, job, at, seen, ledgerVars, late, forgot>>

DupFindsNone(w) ==
  /\ pc[w] = "dup"
  /\ \A b \in bills : Matches(at[w]) # {b}
  /\ Goto(w, "park")
  /\ UNCHANGED <<dbVars, job, localVars, ledgerVars, late, forgot>>

\* The lookup fails for good: its error escapes the catch block and nothing is parked.
DupGivesUp(w) ==
  /\ pc[w] = "dup"
  /\ Goto(w, "ack")
  /\ UNCHANGED <<dbVars, job, localVars, ledgerVars, late, forgot>>

\* recordPosted for a bill found by DocNumber.  No event is written.
Link(w) ==
  LET i == at[w]  won == Cas(i, "posting", "posted", seen[w]) IN
  /\ pc[w] = "link"
  /\ row' = IF won THEN Moved(i, "posted", found[w]) ELSE row
  /\ Goto(w, "ack")
  /\ UNCHANGED <<outbox, approvals, job, localVars, ledgerVars, late, forgot>>

\* Mutant: the event is written outside the transaction of the compare-and-swap.
ParkEventFirst(w) ==
  LET i == at[w] IN
  /\ pc[w] = "park"
  /\ row' = IF Cas(i, "posting", "failed", seen[w]) THEN Moved(i, "failed", row[i].bill) ELSE row
  /\ outbox' = [outbox EXCEPT ![i].failed = @ + 1]
  /\ Goto(w, "ack")
  /\ UNCHANGED <<approvals, job, localVars, ledgerVars, late, forgot>>

\* parkInvoice: posting -> failed and the invoice.posting_failed event.
Park(w) ==
  LET i == at[w]  won == Cas(i, "posting", "failed", seen[w]) IN
  /\ pc[w] = "park"
  /\ row' = IF won THEN Moved(i, "failed", row[i].bill) ELSE row
  /\ outbox' = IF won THEN [outbox EXCEPT ![i].failed = @ + 1] ELSE outbox
  /\ Goto(w, "ack")
  /\ UNCHANGED <<approvals, job, localVars, ledgerVars, late, forgot>>

\* The handler returned.
Ack(w) ==
  /\ pc[w] = "ack"
  /\ JobCompletes(w) /\ Leave(w)
  /\ UNCHANGED <<dbVars, ledgerVars, late, forgot>>

\* A database statement, or a QuickBooks query, fails in a way toAppError calls
\* retryable (at "ack": the COMMIT took effect and its answer was lost).
Fails(w) ==
  /\ pc[w] \in Labels \ {"idle", "build", "await"}
  /\ JobRetries(w) /\ Leave(w)
  /\ UNCHANGED <<dbVars, ledgerVars, late, forgot>>

\* The worker process dies.  Its job stays active until the stall check.
Crash(w) ==
  /\ pc[w] # "idle"
  /\ JobOrphaned(w) /\ Leave(w)
  /\ late' \in IF pc[w] = "await" THEN {late, late \cup {at[w]}} ELSE {late}
  /\ UNCHANGED <<dbVars, ledgerVars, forgot>>

-----------------------------------------------------------------------------
(* The queue, QuickBooks and people *)

\* Mutant: a job that stalled too often is left active.
StallBounded(k) ==
  /\ job[k].stalls < MaxStalls /\ JobStalls(k)
  /\ UNCHANGED <<dbVars, pc, localVars, ledgerVars, late, forgot>>

\* The lock of an active job expired.
Stall(k) ==
  /\ JobStalls(k)
  /\ UNCHANGED <<dbVars, pc, localVars, ledgerVars, late, forgot>>

\* At-least-once delivery: the relay adds the job again after BullMQ dropped it.
Redeliver(k) ==
  /\ job[k].deliveries < MaxDeliveries
  /\ JobAddedAgain(k)
  /\ UNCHANGED <<dbVars, pc, localVars, ledgerVars, late, forgot>>

\* An abandoned POST reaches QuickBooks and is committed, or is refused.
LateArrives(i) ==
  /\ i \in late
  /\ late' = late \ {i}
  /\ CommitBill(i) \/ UNCHANGED ledgerVars
  /\ UNCHANGED <<dbVars, job, pc, localVars, forgot>>

\* The requestid's retention ends; it outlasts a job attempt and a POST in flight.
Forget(i) ==
  /\ memo[i] # NoBill
  /\ i \notin late /\ \A w \in Workers : at[w] # i
  /\ memo' = [memo EXCEPT ![i] = NoBill]
  /\ forgot' = forgot \cup {i}
  /\ UNCHANGED <<dbVars, job, pc, localVars, bills, nextId, late>>

\* Someone enters a bill directly in QuickBooks.
EnterByHand(d) ==
  /\ Cardinality({b \in bills : b.owner = None}) < MaxHandEntered
  /\ bills' = bills \cup {[id |-> nextId, owner |-> None, doc |-> d]}
  /\ nextId' = nextId + 1
  /\ UNCHANGED <<dbVars, job, pc, localVars, memo, late, forgot>>

\* POST /v1/invoices/:id/reject; posted and posting are refused.
Reject(i) ==
  /\ row[i].status \notin {"rejected", "posted", "posting"}
  /\ CanTransition(row[i].status, "rejected")
  /\ row' = Moved(i, "rejected", row[i].bill)
  /\ UNCHANGED <<outbox, approvals, job, pc, localVars, ledgerVars, late, forgot>>

\* A redelivered extraction job finds the invoice parked and extracts it again:
\* failed -> extracting -> needs_review, of which posting sees only the end.
Reextract(i) ==
  /\ row[i].status = "failed"
  /\ row' = Moved(i, "needs_review", row[i].bill)
  /\ UNCHANGED <<outbox, approvals, job, pc, localVars, ledgerVars, late, forgot>>

\* POST /v1/invoices/:id/approve, and the relay's delivery of the posting job.
Approve(i) ==
  /\ row[i].status \in {"needs_review", "pending_approval"}
  /\ approvals[i] < MaxApprovals
  /\ row' = Moved(i, "approved", row[i].bill)
  /\ approvals' = [approvals EXCEPT ![i] = @ + 1]
  /\ job' = [job EXCEPT ![<<i, approvals[i] + 1>>] = NewJob("waiting", 1)]
  /\ UNCHANGED <<outbox, pc, localVars, ledgerVars, late, forgot>>

-----------------------------------------------------------------------------

Progress(w) ==
  \/ Read(w) \/ RecoverFinds(w) \/ RecoverFindsNone(w) \/ RecoverGivesUp(w)
  \/ Claim(w) \/ Reread(w) \/ RereadGivesUp(w) \/ Build(w) \/ BuildFails(w)
  \/ PostAccepted(w) \/ PostAcceptedUnnamed(w) \/ PostDuplicate(w) \/ PostRefused(w)
  \/ PostUnknown(w) \/ Record(w) \/ DupFinds(w) \/ DupFindsNone(w) \/ DupGivesUp(w)
  \/ Link(w) \/ Park(w) \/ Ack(w) \/ Fails(w)

Next ==
  \/ \E w \in Workers : Progress(w) \/ Crash(w) \/ \E k \in Jobs : Take(w, k)
  \/ \E k \in Jobs : Stall(k) \/ Redeliver(k)
  \/ \E i \in Invoices : LateArrives(i) \/ Forget(i) \/ Reject(i) \/ Reextract(i) \/ Approve(i)
  \/ \E d \in HandDocs : EnterByHand(d)

Spec == Init /\ [][Next]_vars

\* A live worker gets on with its statements, the queue hands waiting jobs to free
\* slots, and the stall check (every 30 s) visits active jobs nobody holds.  Nothing
\* is assumed of QuickBooks, of people, or of any particular outcome of a step.
Fairness ==
  /\ \A w \in Workers : WF_vars(Progress(w))
  /\ \A k \in Jobs : /\ WF_vars(\E w \in Workers : Take(w, k))
                     /\ WF_vars(job[k].holder = None /\ Stall(k))

FairSpec == Spec /\ Fairness
-----------------------------------------------------------------------------
(* Properties *)

Owned(i) == {b \in bills : b.owner = i}

\* No other bill carries the DocNumber of this invoice so far: the case in which DocNumber
\* can serve as the recovery oracle.
Unambiguous(i) == docNumber[i] # None /\ \A b \in Matches(i) : b.owner = i

\* An invoice that was never parked and approved again, and that the oracle can answer for.
Safe(i) == Unambiguous(i) /\ approvals[i] <= 1

\* One invoice never becomes two bills while QuickBooks still remembers its requestid
\* (guard 3), whatever crashes, stalls, retries, redeliveries and concurrent workers do;
\* and when it has forgotten, the recovery query (guard 4) still prevents it for an
\* invoice with an unambiguous DocNumber that was approved once.
OneBillPerInvoice ==
  \A i \in Invoices : i \notin forgot \/ Safe(i) => Cardinality(Owned(i)) <= 1

\* A posted invoice names a bill that was created from it.  Only one that the recovery
\* query or the fault-6240 path linked may name someone else's, if that bill carries its
\* very DocNumber, and no invoice.posted is ever written of it.  No answer without a
\* Bill.Id is recorded.
PostedLinksOwnBill ==
  \A i \in Invoices : row[i].status = "posted" =>
     \E b \in bills :
        /\ b.id = row[i].bill
        /\ b.owner = i \/ (outbox[i].posted = 0 /\ b.doc = docNumber[i] /\ b.doc # None)

\* Until guard 1 has moved the row to posting, nothing of the first approval is in the
\* ledger or on its way there: an invoice a reviewer can still reject was never posted.
NoBillBeforeClaim ==
  \A i \in Invoices :
     approvals[i] = 0 \/ (approvals[i] = 1 /\ row[i].status = "approved") =>
        /\ Owned(i) = {} /\ i \notin late
        /\ \A w \in Workers : at[w] = i => pc[w] \in {"read", "claim", "ack"}

\* The outbox tells the outcome: every approval that ended parked announced it exactly
\* once, no other did, posted is announced at most once, and only of a posted row.
EventsMatchOutcome ==
  \A i \in Invoices :
     /\ outbox[i].posted <= 1
     /\ outbox[i].posted > 0 => row[i].status = "posted"
     /\ outbox[i].failed <= approvals[i]
     /\ row[i].status \in {"failed", "needs_review", "pending_approval"} =>
          outbox[i].failed = approvals[i]
     /\ row[i].status \in {"approved", "posting", "posted"} => outbox[i].failed + 1 = approvals[i]

\* A posted row is never written again by the posting path: not by a second worker with
\* the same version, not by a late parkInvoice, not by a redelivered job.
PostedIsFinal ==
  [][\A i \in Invoices : row[i].status = "posted" => row'[i] = row[i]]_vars

\* Every delivered posting job is eventually completed or failed: stalls, lost locks and
\* throwing handlers cannot keep a job circulating or active for ever.
JobsSettle ==
  \A k \in Jobs : job[k].state = "waiting" ~> job[k].state \in {"done", "failed"}

\* Posting implements PostOnce for unambiguous invoices that are approved once.
Promise == INSTANCE PostOnce WITH
  ledger <- [i \in Invoices |-> {b.id : b \in Owned(i)}],
  linked <- [i \in Invoices |-> row[i].bill]

PostOnceSpec == Promise!Spec

-----------------------------------------------------------------------------
(* The inductive invariant behind these properties *)

\* A job exists only for an approval that was given.
JobsOfApprovals == \A k \in Jobs : k[2] > approvals[k[1]] => job[k] = NewJob("absent", 0)

\* Nothing happens to an invoice before its first approval.
UntouchedBeforeApproval ==
  \A i \in Invoices : approvals[i] = 0 =>
     Owned(i) = {} /\ i \notin late /\ \A w \in Workers : at[w] # i

\* Entity ids identify bills, and bills carry the number of whoever entered them.
LedgerConsistent ==
  /\ \A b \in bills : b.id < nextId
  /\ \A b, c \in bills : b.id = c.id => b = c
  /\ \A b \in bills : IF b.owner = None THEN b.doc \in HandDocs ELSE b.doc = docNumber[b.owner]

\* What QuickBooks remembers for a requestid is a bill of that invoice, and until it
\* forgets, there is no other.
MemoConsistent ==
  \A i \in Invoices :
     /\ memo[i] # NoBill => \E b \in Owned(i) : b.id = memo[i]
     /\ i \notin forgot => \A b \in Owned(i) : b.id = memo[i]

\* Once QuickBooks has forgotten the requestid of a bill, nothing of a safe invoice is
\* past the recovery query or on its way.
NoBlindPost ==
  \A i \in Invoices : Safe(i) /\ memo[i] = NoBill /\ Owned(i) # {} =>
     /\ i \notin late
     /\ \A w \in Workers : at[w] = i => pc[w] \notin {"reread", "build", "await"}

\* Two bills of a safe invoice are one.
OneSafeBill == \A i \in Invoices : Safe(i) => \A b, c \in Owned(i) : b = c

\* What a worker is about to record is in the ledger: an own bill, or one that carries the
\* invoice's number.
FoundIsReal ==
  \A w \in Workers :
     /\ pc[w] = "record" => \E b \in Owned(at[w]) : b.id = found[w]
     /\ pc[w] = "link" => \E b \in Matches(at[w]) : b.id = found[w]

\* Only posted rows name a bill or were announced to have one.
RowsNameBills ==
  /\ PostedLinksOwnBill
  /\ \A i \in Invoices : row[i].status # "posted" => row[i].bill = NoBill /\ outbox[i].posted = 0

PostingInv ==
  /\ JobsOfApprovals /\ UntouchedBeforeApproval /\ NoBillBeforeClaim
  /\ LedgerConsistent /\ MemoConsistent /\ NoBlindPost /\ OneSafeBill
  /\ FoundIsReal /\ RowsNameBills
=============================================================================
