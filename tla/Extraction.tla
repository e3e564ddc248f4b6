----------------------------- MODULE Extraction -----------------------------
(***************************************************************************)
(* The extraction worker (services/worker-extraction/src/main.ts): an      *)
(* ingested invoice is claimed, its document read by one or two models,    *)
(* and the result saved together with the business-level duplicate check   *)
(* and the routing decision.                                               *)
(*                                                                         *)
(* The claim commits before the models are called, the save is one         *)
(* transaction, and an error that is not retryable parks the invoice with  *)
(* a plain UPDATE that looks at the status but not at the version.         *)
(***************************************************************************)
EXTENDS Naturals, FiniteSets, InvoiceStatus

CONSTANTS
  Invoices,       \* invoices of one tenant
  Workers,        \* slots of the extraction workers
  Keys,           \* business keys: vendor, number, amount and currency as extracted
  Dated,          \* invoices whose invoice.received event carries the row's created_at
  None,
  MaxAttempts,    \* job attempts before BullMQ fails the job (5 in the code)
  MaxStalls,      \* stalls a job survives (maxStalledCount, 1 by default)
  MaxDeliveries   \* bound: deliveries of the extraction job of an invoice

ASSUME ExtractionConstants ==
  /\ None \notin Invoices \cup Workers \cup Keys
  /\ Dated \subseteq Invoices
  /\ {MaxAttempts, MaxStalls, MaxDeliveries} \subseteq Nat

VARIABLES
  row,      \* invoices table: status, version, saved business key, findings
  dedup,    \* invoice_dedup_keys: the invoice that claimed a business key
  notices,  \* outbox: invoice.needs_review events of an invoice
  job,      \* BullMQ: the job extract-<invoice>
  pc,       \* worker: the next statement
  at,       \* worker: the invoice of its job
  seen,     \* worker: status and version of the row as it last saw it
  verdict   \* worker: whether models and consensus found the invoice clean

Jobs == Invoices
INSTANCE JobQueue

dbVars == <<row, dedup, notices>>
localVars == <<at, seen, verdict>>
vars == <<dbVars, job, pc, localVars>>

-----------------------------------------------------------------------------
(* Types and initial state *)

\* Labels under which a worker has claimed its invoice.
Claimed == {"extract", "stop", "save"}
Labels == Claimed \cup {"idle", "read", "claim", "park", "ack"}

\* The two findings the worker itself adds; those of the consensus are left out.
Findings == {"DUPLICATE_INVOICE", "AI_BUDGET_EXHAUSTED"}

NotSeen == [status |-> "received", version |-> 0]

TypeOK ==
  /\ row \in [Invoices -> [status : InvoiceStatuses, version : Nat,
                           key : Keys \cup {None}, findings : SUBSET Findings]]
  /\ dedup \in [Keys -> Invoices \cup {None}]
  /\ notices \in [Invoices -> Nat]
  /\ job \in [Jobs -> JobRecord]
  /\ pc \in [Workers -> Labels]
  /\ at \in [Workers -> Invoices \cup {None}]
  /\ \A w \in Workers : pc[w] # "idle" => at[w] \in Invoices
  /\ seen \in [Workers -> [status : InvoiceStatuses, version : Nat]]
  /\ verdict \in [Workers -> {"none", "clean", "review"}]

\* Every invoice has been ingested; no job was relayed yet.
Init ==
  /\ row = [i \in Invoices |->
              [status |-> "received", version |-> 1, key |-> None, findings |-> {}]]
  /\ dedup = [k \in Keys |-> None]
  /\ notices = [i \in Invoices |-> 0]
  /\ job = [i \in Jobs |-> NewJob("absent", 0)]
  /\ pc = [w \in Workers |-> "idle"]
  /\ at = [w \in Workers |-> None]
  /\ seen = [w \in Workers |-> NotSeen]
  /\ verdict = [w \in Workers |-> "none"]

-----------------------------------------------------------------------------
(* The repository *)

\* Mutant: the transition table is not consulted.
CasAnyStatus(i, from, to, version) ==
  /\ i \in Dated
  /\ row[i].status = from
  /\ row[i].version = version

\* transitionStatus.  Its WHERE clause also compares created_at, which an event without
\* it leaves to the relay's clock.
Cas(i, from, to, version) ==
  /\ CanTransition(from, to)
  /\ i \in Dated
  /\ row[i].status = from
  /\ row[i].version = version

\* Mutant: the SET clause forgets version = version + 1.
MovedKeepsVersion(i, to) == [row EXCEPT ![i].status = to]

\* The SET clause of transitionStatus and of the raw UPDATE.
Moved(i, to) == [row EXCEPT ![i].status = to, ![i].version = @ + 1]

Goto(w, l) == pc' = [pc EXCEPT ![w] = l]

\* Mutant: a finished slot is not reset.
LeaveBusy(w) ==
  /\ at' = [at EXCEPT ![w] = None]
  /\ UNCHANGED <<pc, seen, verdict>>

\* The worker slot is free again.
Leave(w) ==
  /\ pc' = [pc EXCEPT ![w] = "idle"]
  /\ at' = [at EXCEPT ![w] = None]
  /\ seen' = [seen EXCEPT ![w] = NotSeen]
  /\ verdict' = [verdict EXCEPT ![w] = "none"]

\* Mutant: the upsert makes the latest claimant the owner of the key.
OwnerLatest(k, i) == i

\* claimBusinessKey: the first claim stays, and is what every later one is told.
Owner(k, i) == IF dedup[k] = None THEN i ELSE dedup[k]

-----------------------------------------------------------------------------
(* The extraction worker *)

Take(w, i) ==
  /\ pc[w] = "idle"
  /\ JobTaken(w, i)
  /\ at' = [at EXCEPT ![w] = i]
  /\ Goto(w, "read")
  /\ UNCHANGED <<dbVars, seen, verdict>>

\* requireById; a row that is past extraction is skipped.
Read(w) ==
  LET r == row[at[w]] IN
  /\ pc[w] = "read"
  /\ seen' = [seen EXCEPT ![w] = [status |-> r.status, version |-> r.version]]
  /\ Goto(w, IF r.status \in {"received", "failed"} THEN "claim" ELSE "ack")
  /\ UNCHANGED <<dbVars, job, at, verdict>>

\* The claim is a statement of its own.  A lost race is a ConflictError, which is not
\* retryable and goes to the parking UPDATE like any other.
Claim(w) ==
  LET i == at[w]
      won == Cas(i, seen[w].status, "extracting", seen[w].version) IN
  /\ pc[w] = "claim"
  /\ row' = IF won THEN Moved(i, "extracting") ELSE row
  /\ seen' = IF won
               THEN [seen EXCEPT ![w] = [status |-> "extracting", version |-> row'[i].version]]
               ELSE seen
  /\ Goto(w, IF won THEN "extract" ELSE "park")
  /\ UNCHANGED <<dedup, notices, job, at, verdict>>

\* The budget is exhausted: no model is called.
BudgetStops(w) ==
  /\ pc[w] = "extract"
  /\ Goto(w, "stop")
  /\ UNCHANGED <<dbVars, job, localVars>>

\* ... and the invoice is routed to a human, under this finding in place of any earlier
\* ones.  No event is written.
Stop(w) ==
  LET i == at[w]  won == Cas(i, "extracting", "needs_review", seen[w].version) IN
  /\ pc[w] = "stop"
  /\ row' = IF won THEN [Moved(i, "needs_review") EXCEPT ![i].findings = {"AI_BUDGET_EXHAUSTED"}]
                    ELSE row
  /\ Goto(w, IF won THEN "ack" ELSE "park")
  /\ UNCHANGED <<dedup, notices, job, localVars>>

\* The document is read and the models answer; consensus finds the result clean, or has
\* a blocking finding or too little confidence.
Extract(w) ==
  /\ pc[w] = "extract"
  /\ \E v \in {"clean", "review"} : verdict' = [verdict EXCEPT ![w] = v]
  /\ Goto(w, "save")
  /\ UNCHANGED <<dbVars, job, at, seen>>

\* The document is missing, the model refuses, or an amount does not parse.
ExtractRefused(w) ==
  /\ pc[w] = "extract"
  /\ Goto(w, "park")
  /\ UNCHANGED <<dbVars, job, localVars>>

\* saveExtraction: fields and lines of the row are replaced; of these the model keeps the
\* business key.
Extracted(rows, i, k) == [rows EXCEPT ![i].key = k]

FindingsOf(twin) == IF twin THEN {"DUPLICATE_INVOICE"} ELSE {}

\* Mutant: the business key is claimed before the transaction that may roll back.
SaveKeyFirst(w) ==
  LET i == at[w] IN
  /\ pc[w] = "save"
  /\ \E k \in Keys :
       LET twin == Owner(k, i) # i
           target == IF twin \/ verdict[w] = "review" THEN "needs_review" ELSE "pending_approval"
           won == Cas(i, "extracting", target, seen[w].version) IN
       /\ row' = IF won THEN [Moved(i, target) EXCEPT ![i].key = k,
                                                      ![i].findings = FindingsOf(twin)]
                         ELSE row
       /\ dedup' = [dedup EXCEPT ![k] = Owner(k, i)]
       /\ notices' = IF won /\ target = "needs_review" THEN [notices EXCEPT ![i] = @ + 1]
                                                       ELSE notices
       /\ Goto(w, IF won THEN "ack" ELSE "park")
  /\ UNCHANGED <<job, localVars>>

\* One transaction: saveExtraction, claimBusinessKey, the transition and the event.  When
\* the transition is refused, by the table or by the row, all of it is rolled back.
Save(w) ==
  LET i == at[w] IN
  /\ pc[w] = "save"
  /\ \E k \in Keys :
       LET twin == Owner(k, i) # i
           target == IF twin \/ verdict[w] = "review" THEN "needs_review" ELSE "pending_approval"
           won == Cas(i, "extracting", target, seen[w].version) IN
       /\ row' = IF won THEN [Extracted(Moved(i, target), i, k) EXCEPT
                                ![i].findings = FindingsOf(twin)]
                         ELSE row
       /\ dedup' = IF won THEN [dedup EXCEPT ![k] = Owner(k, i)] ELSE dedup
       /\ notices' = IF won /\ target = "needs_review" THEN [notices EXCEPT ![i] = @ + 1]
                                                       ELSE notices
       /\ Goto(w, IF won THEN "ack" ELSE "park")
  /\ UNCHANGED <<job, localVars>>

\* Mutant: the parking UPDATE names the invoice only.
ParkAnyStatus(w) ==
  LET i == at[w] IN
  /\ pc[w] = "park"
  /\ row' \in {row, Moved(i, "failed")}
  /\ Goto(w, "ack")
  /\ UNCHANGED <<dedup, notices, job, localVars>>

\* UPDATE ... SET status = 'failed' WHERE ... AND status = 'extracting'.  An error of the
\* UPDATE itself is logged and swallowed.
Park(w) ==
  LET i == at[w] IN
  /\ pc[w] = "park"
  /\ row' \in IF row[i].status = "extracting" /\ i \in Dated
                THEN {row, Moved(i, "failed")} ELSE {row}
  /\ Goto(w, "ack")
  /\ UNCHANGED <<dedup, notices, job, localVars>>

\* The handler returned.
Ack(w) ==
  /\ pc[w] = "ack"
  /\ JobCompletes(w) /\ Leave(w)
  /\ UNCHANGED dbVars

\* A retryable error: database, Redis, object store or model.  Nothing is undone, so a
\* claimed row stays in extracting.  (At "ack": the answer to a COMMIT was lost.)
Fails(w) ==
  /\ pc[w] \in Labels \ {"idle", "park"}
  /\ JobRetries(w) /\ Leave(w)
  /\ UNCHANGED dbVars

Crash(w) ==
  /\ pc[w] # "idle"
  /\ JobOrphaned(w) /\ Leave(w)
  /\ UNCHANGED dbVars

-----------------------------------------------------------------------------
(* The queue and people *)

\* The relay delivers invoice.received.
Deliver(i) ==
  /\ job[i].state = "absent"
  /\ job' = [job EXCEPT ![i] = NewJob("waiting", 1)]
  /\ UNCHANGED <<dbVars, pc, localVars>>

Redeliver(i) ==
  /\ job[i].deliveries < MaxDeliveries
  /\ JobAddedAgain(i)
  /\ UNCHANGED <<dbVars, pc, localVars>>

Stall(i) ==
  /\ JobStalls(i)
  /\ UNCHANGED <<dbVars, pc, localVars>>

\* The approval route; an invoice whose extraction was never saved has no total.
Approve(i) ==
  /\ row[i].status \in {"needs_review", "pending_approval"}
  /\ row[i].key # None
  /\ row' = Moved(i, "approved")
  /\ UNCHANGED <<dedup, notices, job, pc, localVars>>

Reject(i) ==
  /\ row[i].status \notin {"rejected", "posted", "posting"}
  /\ CanTransition(row[i].status, "rejected")
  /\ row' = Moved(i, "rejected")
  /\ UNCHANGED <<dedup, notices, job, pc, localVars>>

\* The posting worker claims the invoice, and then posts or parks it.
PostingMoves(i) ==
  /\ \/ row[i].status = "approved" /\ row' = Moved(i, "posting")
     \/ row[i].status = "posting" /\ \E s \in {"posted", "failed"} : row' = Moved(i, s)
  /\ UNCHANGED <<dedup, notices, job, pc, localVars>>

-----------------------------------------------------------------------------

Progress(w) ==
  \/ Read(w) \/ Claim(w) \/ BudgetStops(w) \/ Stop(w) \/ Extract(w) \/ ExtractRefused(w)
  \/ Save(w) \/ Park(w) \/ Ack(w) \/ Fails(w)

Next ==
  \/ \E w \in Workers : Progress(w) \/ Crash(w) \/ \E i \in Jobs : Take(w, i)
  \/ \E i \in Invoices : \/ Deliver(i) \/ Redeliver(i) \/ Stall(i)
                         \/ Approve(i) \/ Reject(i) \/ PostingMoves(i)

Spec == Init /\ [][Next]_vars

-----------------------------------------------------------------------------
(* Properties *)

\* The worker's claim is the one the row is in.
HoldsClaim(w) ==
  /\ row[at[w]].status = "extracting"
  /\ row[at[w]].version = seen[w].version

\* At most one worker at a time extracts on the row's current claim: whatever redeliveries,
\* stalls and foreign parkings do, two results cannot both be saved for one claim.
OneExtractor ==
  \A v, w \in Workers :
     /\ pc[v] \in Claimed /\ pc[w] \in Claimed
     /\ at[v] = at[w] /\ HoldsClaim(v) /\ HoldsClaim(w)
     => v = w

\* Of two saved invoices with the same vendor, number and amount at least one carries a
\* blocking finding, so they are never both approved without an override reason: not when
\* they are saved concurrently, nor when one is rejected, saved again, or loses its
\* DUPLICATE_INVOICE finding to a budget stop.
NoUnflaggedTwins ==
  \A i, j \in Invoices :
     i # j /\ row[i].key = row[j].key /\ row[i].key # None
       => row[i].findings # {} \/ row[j].findings # {}

\* A business key is owned by an invoice whose extraction was saved: an extraction that
\* was rolled back does not make a later, genuine invoice look like a duplicate.
NoPhantomOwner == \A k \in Keys : dedup[k] # None => row[dedup[k]].key # None

\* Every status change of every writer, the raw parking UPDATE included, is one of the
\* transition table.
LifecycleRespected ==
  [][\A i \in Invoices :
       row'[i].status # row[i].status => CanTransition(row[i].status, row'[i].status)]_vars

\* Once an invoice is out of the extraction worker's hands, no step of a worker, however
\* late, changes it: a reviewer's decision or a posted row is never overwritten.
DecidedStays ==
  [][\A i \in Invoices :
       row[i].status \notin {"received", "extracting", "failed"} /\ pc' # pc
         => row'[i] = row[i]]_vars

-----------------------------------------------------------------------------
(* What the repository says and the code does not keep *)

\* main.ts:4-6: an invoice goes "either to the approval queue or to human review": a worker
\* whose models found the invoice clean does not park it as failed.
CleanIsRouted ==
  [][\A w \in Workers :
       pc[w] = "save" /\ verdict[w] = "clean" /\ HoldsClaim(w) => pc'[w] # "park"]_vars
=============================================================================
