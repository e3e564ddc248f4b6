-------------------------- MODULE ExtractionProofs --------------------------
(***************************************************************************)
(* Theorems about Extraction, for any number of invoices, workers and      *)
(* business keys, and any bounds on attempts, stalls and deliveries.       *)
(*                                                                         *)
(* Two facts carry the results: every change of a row raises its version,  *)
(* so the versions of two claims differ, and an owned business key never   *)
(* changes hands, so an invoice saved without a finding stays its owner.   *)
(***************************************************************************)
EXTENDS Extraction, TLAPS

\* Workers about to claim have seen a claimable row.
SawClaimable ==
  \A w \in Workers : pc[w] = "claim" => seen[w].status \in {"received", "failed"}

\* A worker's claim is never ahead of its row.
ClaimsBehind ==
  \A w \in Workers : pc[w] \in Claimed => seen[w].version <= row[at[w]].version

\* No two workers hold the same claim, current or not.
ClaimsDiffer ==
  \A v, w \in Workers :
     /\ pc[v] \in Claimed /\ pc[w] \in Claimed
     /\ at[v] = at[w] /\ seen[v].version = seen[w].version
     => v = w

\* An invoice saved without a finding owns its business key.
CleanOwnsKey ==
  \A i \in Invoices, k \in Keys : row[i].key = k /\ row[i].findings = {} => dedup[k] = i

ExtractionInv ==
  SawClaimable /\ ClaimsBehind /\ ClaimsDiffer /\ CleanOwnsKey /\ NoPhantomOwner

-----------------------------------------------------------------------------
(* Type correctness *)

RowType == [status : InvoiceStatuses, version : Nat,
            key : Keys \cup {None}, findings : SUBSET Findings]

LEMMA StatusTypes ==
  {"received", "extracting", "needs_review", "pending_approval", "approved", "posting",
   "posted", "failed", "rejected"} \subseteq InvoiceStatuses
BY DEF InvoiceStatuses

\* A transition of a row keeps the type of the invoices table.
LEMMA MovedType ==
  ASSUME row \in [Invoices -> RowType], NEW i \in Invoices, NEW to \in InvoiceStatuses
  PROVE  Moved(i, to) \in [Invoices -> RowType]
<1>1. [row[i] EXCEPT !.status = to, !.version = @ + 1] \in RowType
  BY row[i].version + 1 \in Nat DEF RowType
<1>2. Moved(i, to) = [row EXCEPT ![i] = [row[i] EXCEPT !.status = to, !.version = @ + 1]]
  BY DEF Moved
<1> QED
  BY <1>1, <1>2

\* So does a change of its findings ...
LEMMA FindingsType ==
  ASSUME NEW m \in [Invoices -> RowType], NEW i \in Invoices, NEW fs \in SUBSET Findings
  PROVE  [m EXCEPT ![i].findings = fs] \in [Invoices -> RowType]
<1>1. [m[i] EXCEPT !.findings = fs] \in RowType
  BY DEF RowType
<1>2. [m EXCEPT ![i].findings = fs] = [m EXCEPT ![i] = [m[i] EXCEPT !.findings = fs]]
  OBVIOUS
<1> QED
  BY <1>1, <1>2

\* ... and of its key and findings.
LEMMA SavedType ==
  ASSUME NEW m \in [Invoices -> RowType], NEW i \in Invoices,
         NEW k \in Keys, NEW fs \in SUBSET Findings
  PROVE  [m EXCEPT ![i].key = k, ![i].findings = fs] \in [Invoices -> RowType]
<1>1. [m[i] EXCEPT !.key = k, !.findings = fs] \in RowType
  BY DEF RowType
<1>2. [m EXCEPT ![i].key = k, ![i].findings = fs]
        = [m EXCEPT ![i] = [m[i] EXCEPT !.key = k, !.findings = fs]]
  OBVIOUS
<1> QED
  BY <1>1, <1>2

LEMMA WorkerFindings == {"AI_BUDGET_EXHAUSTED"} \in SUBSET Findings
                        /\ \A twin \in BOOLEAN : FindingsOf(twin) \in SUBSET Findings
BY DEF Findings, FindingsOf

LEMMA JobTakenType ==
  ASSUME job \in [Jobs -> JobRecord], NEW w \in Workers, NEW k \in Jobs, JobTaken(w, k)
  PROVE  job' \in [Jobs -> JobRecord]
<1>1. [job[k] EXCEPT !.state = "active", !.holder = w] \in JobRecord
  BY DEF JobRecord
<1> QED
  BY <1>1 DEF JobTaken

\* However a handler ends, the queue's jobs keep their type.
LEMMA JobEndType ==
  ASSUME job \in [Jobs -> JobRecord], NEW w \in Workers,
         JobCompletes(w) \/ JobRetries(w) \/ JobOrphaned(w)
  PROVE  job' \in [Jobs -> JobRecord]
<1> USE DEF JobRecord
<1>1. CASE JobCompletes(w)
  BY <1>1 DEF JobCompletes
<1>2. CASE JobRetries(w)
  <2>1. ASSUME NEW k \in Jobs PROVE job'[k] \in JobRecord
    <3>1. RetryState(job[k].attempts + 1) \in {"waiting", "failed"} /\ job[k].attempts + 1 \in Nat
      BY DEF RetryState
    <3> QED
      BY <1>2, <3>1 DEF JobRetries
  <2> QED
    BY <1>2, <2>1 DEF JobRetries
<1>3. CASE JobOrphaned(w)
  BY <1>3 DEF JobOrphaned
<1> QED
  BY <1>1, <1>2, <1>3

\* What TypeOK says of the workers.
WorkerTypes ==
  /\ pc \in [Workers -> Labels]
  /\ at \in [Workers -> Invoices \cup {None}]
  /\ \A w \in Workers : pc[w] # "idle" => at[w] \in Invoices
  /\ seen \in [Workers -> [status : InvoiceStatuses, version : Nat]]
  /\ verdict \in [Workers -> {"none", "clean", "review"}]

\* A worker that leaves its job is free and well typed.
LEMMA LeaveType ==
  ASSUME WorkerTypes, NEW w \in Workers, Leave(w)
  PROVE  WorkerTypes'
BY StatusTypes DEF WorkerTypes, Leave, Labels, NotSeen

LEMMA TypeInit == Init => TypeOK
BY ExtractionConstants, StatusTypes
   DEF Init, TypeOK, NewJob, JobRecord, Jobs, Labels, NotSeen

\* A save leaves the tables well typed.
LEMMA SaveType ==
  ASSUME TypeOK, NEW w \in Workers, Save(w)
  PROVE  TypeOK'
<1> USE DEF Goto, Labels, Claimed, localVars
<1>1. PICK k \in Keys :
        LET i == at[w]
            twin == Owner(k, i) # i
            target == IF twin \/ verdict[w] = "review" THEN "needs_review" ELSE "pending_approval"
            won == Cas(i, "extracting", target, seen[w].version) IN
        /\ row' = IF won THEN [Moved(i, target) EXCEPT ![i].key = k,
                                                       ![i].findings = FindingsOf(twin)]
                          ELSE row
        /\ dedup' = IF won THEN [dedup EXCEPT ![k] = Owner(k, i)] ELSE dedup
        /\ notices' = IF won /\ target = "needs_review" THEN [notices EXCEPT ![i] = @ + 1]
                                                        ELSE notices
        /\ Goto(w, IF won THEN "ack" ELSE "park")
  BY DEF Save, Extracted
<1>2. at[w] \in Invoices /\ UNCHANGED <<job, at, seen, verdict>>
  BY DEF Save, Extracted, TypeOK
<1>3. row \in [Invoices -> RowType]
  BY DEF TypeOK, RowType
<1>4. Moved(at[w], "needs_review") \in [Invoices -> RowType]
      /\ Moved(at[w], "pending_approval") \in [Invoices -> RowType]
  BY <1>2, <1>3, MovedType, StatusTypes
<1>5. row' \in [Invoices -> RowType]
  <2>1. \A t \in {"needs_review", "pending_approval"}, twin \in BOOLEAN :
          [Moved(at[w], t) EXCEPT ![at[w]].key = k, ![at[w]].findings = FindingsOf(twin)]
            \in [Invoices -> RowType]
    BY <1>2, <1>4, SavedType, WorkerFindings
  <2> QED
    BY <1>1, <1>3, <2>1
<1>6. dedup' \in [Keys -> Invoices \cup {None}]
  BY <1>1, <1>2 DEF TypeOK, Owner
<1>7. notices' \in [Invoices -> Nat]
  <2>1. notices[at[w]] + 1 \in Nat
    BY <1>2 DEF TypeOK
  <2> QED
    BY <1>1, <1>2, <2>1 DEF TypeOK
<1>8. pc' \in [Workers -> Labels] /\ \A v \in Workers : pc'[v] # "idle" => at'[v] \in Invoices
  BY <1>1, <1>2 DEF TypeOK
<1> QED
  BY <1>2, <1>5, <1>6, <1>7, <1>8 DEF TypeOK, RowType

\* Every step keeps every variable's type.
LEMMA TypeNext ==
  ASSUME TypeOK, [Next]_vars
  PROVE  TypeOK'
<1> USE DEF TypeOK, WorkerTypes, vars, dbVars, localVars, Goto, Labels, Claimed
<1> DEFINE Rows == [Invoices -> RowType]
<1>0. row \in Rows
  BY DEF RowType
<1>a. ASSUME row' \in Rows, UNCHANGED <<dedup, notices>>, job' \in [Jobs -> JobRecord],
             WorkerTypes'
      PROVE  TypeOK'
  BY <1>a DEF RowType
<1>1. ASSUME NEW w \in Workers, NEW i \in Jobs, Take(w, i) PROVE TypeOK'
  BY <1>1, JobTakenType DEF Take, Jobs
<1>2. ASSUME NEW w \in Workers, Read(w) PROVE TypeOK'
  BY <1>2 DEF Read
<1>3. ASSUME NEW w \in Workers, Claim(w) PROVE TypeOK'
  <2>1. at[w] \in Invoices /\ row' \in Rows
    BY <1>0, <1>3, MovedType, StatusTypes DEF Claim
  <2>2. seen' \in [Workers -> [status : InvoiceStatuses, version : Nat]]
    <3>1. row'[at[w]].version \in Nat /\ "extracting" \in InvoiceStatuses
      BY <2>1, StatusTypes DEF RowType
    <3> QED
      BY <1>3, <3>1 DEF Claim
  <2> QED
    BY <1>3, <1>a, <2>1, <2>2 DEF Claim
<1>4. ASSUME NEW w \in Workers, BudgetStops(w) PROVE TypeOK'
  BY <1>4 DEF BudgetStops
<1>5. ASSUME NEW w \in Workers, Stop(w) PROVE TypeOK'
  <2>1. at[w] \in Invoices /\ Moved(at[w], "needs_review") \in Rows
    BY <1>0, <1>5, MovedType, StatusTypes DEF Stop
  <2>2. row' \in Rows
    BY <1>0, <1>5, <2>1, FindingsType, WorkerFindings DEF Stop
  <2> QED
    BY <1>5, <1>a, <2>2 DEF Stop
<1>6. ASSUME NEW w \in Workers, Extract(w) PROVE TypeOK'
  BY <1>6 DEF Extract
<1>7. ASSUME NEW w \in Workers, ExtractRefused(w) PROVE TypeOK'
  BY <1>7 DEF ExtractRefused
<1>8. ASSUME NEW w \in Workers, Save(w) PROVE TypeOK'
  BY <1>8, SaveType
<1>9. ASSUME NEW w \in Workers, Park(w) PROVE TypeOK'
  <2>1. at[w] \in Invoices /\ Moved(at[w], "failed") \in Rows
    BY <1>0, <1>9, MovedType, StatusTypes DEF Park
  <2>2. row' \in Rows
    BY <1>0, <1>9, <2>1 DEF Park
  <2> QED
    BY <1>9, <1>a, <2>2 DEF Park
<1>10. ASSUME NEW w \in Workers, Ack(w) PROVE TypeOK'
  BY <1>10, JobEndType, LeaveType DEF Ack
<1>11. ASSUME NEW w \in Workers, Fails(w) PROVE TypeOK'
  BY <1>11, JobEndType, LeaveType DEF Fails
<1>12. ASSUME NEW w \in Workers, Crash(w) PROVE TypeOK'
  BY <1>12, JobEndType, LeaveType DEF Crash
<1>13. ASSUME NEW i \in Invoices, Deliver(i) \/ Redeliver(i) PROVE TypeOK'
  <2>1. NewJob("waiting", 1) \in JobRecord /\ NewJob("waiting", job[i].deliveries + 1) \in JobRecord
    BY <1>13 DEF NewJob, JobRecord, Jobs
  <2> QED
    BY <1>13, <2>1 DEF Deliver, Redeliver, JobAddedAgain
<1>14. ASSUME NEW i \in Invoices, Stall(i) PROVE TypeOK'
  BY <1>14 DEF Stall, JobStalls, JobRecord, Jobs
<1>15. ASSUME NEW i \in Invoices, Approve(i) \/ Reject(i) \/ PostingMoves(i) PROVE TypeOK'
  <2>1. \E s \in {"approved", "rejected", "posting", "posted", "failed"} : row' = Moved(i, s)
    BY <1>15 DEF Approve, Reject, PostingMoves
  <2>2. row' \in Rows
    BY <1>0, <2>1, MovedType, StatusTypes
  <2> QED
    BY <1>15, <1>a, <2>2 DEF Approve, Reject, PostingMoves
<1>16. CASE UNCHANGED vars
  BY <1>16
<1> QED
  BY <1>1, <1>2, <1>3, <1>4, <1>5, <1>6, <1>7, <1>8, <1>9, <1>10, <1>11, <1>12, <1>13, <1>14,
     <1>15, <1>16 DEF Next, Progress

\* Specification Extraction keeps its types.
THEOREM TypeCorrect == Spec => []TypeOK
<1>1. Init => TypeOK
  BY TypeInit
<1>2. TypeOK /\ [Next]_vars => TypeOK'
  BY TypeNext
<1> QED
  BY <1>1, <1>2, PTL DEF Spec
-----------------------------------------------------------------------------
(* What a step can do, seen by one invoice, one worker, the tables.  The invariant is *)
(* proved from these effects, action by action only here.                            *)

\* A row changes along the table and gets a new version; a worker changes only rows
\* that were not handed on.
RowEffect(i) ==
  \/ row'[i] = row[i]
  \/ /\ CanTransition(row[i].status, row'[i].status)
     /\ row'[i].version = row[i].version + 1
     /\ pc' = pc \/ row[i].status \in {"received", "extracting", "failed"}

Idles(w) == pc'[w] = pc[w] /\ at'[w] = at[w] /\ seen'[w] = seen[w]

\* The ways into the labels that matter: to claim, and to hold a claim.
WorkerEffect(w) ==
  \/ Idles(w)
  \/ pc'[w] \notin Claimed \cup {"claim"}
  \/ /\ pc'[w] = "claim" /\ seen'[w].status \in {"received", "failed"}
  \/ /\ pc[w] \in Claimed /\ pc'[w] \in Claimed
     /\ at'[w] = at[w] /\ seen'[w] = seen[w]
  \/ /\ pc[w] = "claim" /\ pc'[w] \in Claimed
     /\ at'[w] = at[w] /\ seen'[w].version = row[at[w]].version + 1
     /\ row'[at[w]].version = row[at[w]].version + 1

OneActor == \A v, w \in Workers : v = w \/ Idles(v) \/ Idles(w)

\* Keys are claimed only by a save, together with the row that saves them.
KeyEffect ==
  \/ /\ dedup' = dedup
     /\ \A i \in Invoices : /\ row'[i].key = row[i].key
                            /\ row'[i].findings = {} => row[i].findings = {}
  \/ \E i \in Invoices, k \in Keys :
       /\ dedup' = [dedup EXCEPT ![k] = Owner(k, i)]
       /\ row'[i].key = k
       /\ row'[i].findings = {} => Owner(k, i) = i
       /\ \A j \in Invoices \ {i} : row'[j] = row[j]

Effects ==
  /\ \A i \in Invoices : RowEffect(i)
  /\ \A w \in Workers : WorkerEffect(w)
  /\ OneActor /\ KeyEffect

\* Frames: the effects of leaving a part of the state alone.
LEMMA QuietTables ==
  ASSUME UNCHANGED <<row, dedup>>
  PROVE  KeyEffect /\ \A i \in Invoices : RowEffect(i)
BY DEF KeyEffect, RowEffect

LEMMA QuietWorkers ==
  ASSUME UNCHANGED <<pc, at, seen>>
  PROVE  OneActor /\ \A w \in Workers : WorkerEffect(w)
BY DEF OneActor, WorkerEffect, Idles

\* A worker's statement changes no other worker.
LEMMA Alone ==
  ASSUME NEW w \in Workers, \A v \in Workers \ {w} : Idles(v), WorkerEffect(w)
  PROVE  OneActor /\ \A v \in Workers : WorkerEffect(v)
BY DEF OneActor, WorkerEffect

LEMMA LeaveAlone ==
  ASSUME TypeOK, NEW w \in Workers, Leave(w)
  PROVE  OneActor /\ \A v \in Workers : WorkerEffect(v)
<1>1. \A v \in Workers \ {w} : Idles(v)
  BY DEF Leave, Idles, TypeOK
<1>2. WorkerEffect(w)
  BY DEF Leave, WorkerEffect, Claimed, TypeOK
<1> QED
  BY <1>1, <1>2, Alone

LEMMA GotoAlone ==
  ASSUME TypeOK, NEW w \in Workers, NEW l \in Labels, Goto(w, l), UNCHANGED at,
         \A v \in Workers \ {w} : seen'[v] = seen[v]
  PROVE  pc'[w] = l /\ \A v \in Workers \ {w} : Idles(v)
BY DEF Goto, Idles, TypeOK

\* What Moved writes.
LEMMA MovedRow ==
  ASSUME TypeOK, NEW i \in Invoices, NEW to
  PROVE  /\ \A j \in Invoices \ {i} : Moved(i, to)[j] = row[j]
         /\ Moved(i, to)[i].status = to
         /\ Moved(i, to)[i].version = row[i].version + 1
         /\ Moved(i, to)[i].key = row[i].key
         /\ Moved(i, to)[i].findings = row[i].findings
BY DEF Moved, TypeOK

\* A move along the table, alone, has the effects of its row.
LEMMA MoveEffects ==
  ASSUME TypeOK, NEW i \in Invoices, NEW to, row' = Moved(i, to), UNCHANGED dedup,
         CanTransition(row[i].status, to),
         pc' = pc \/ row[i].status \in {"received", "extracting", "failed"}
  PROVE  KeyEffect /\ \A j \in Invoices : RowEffect(j)
<1>1. KeyEffect
  BY MovedRow DEF KeyEffect
<1>2. RowEffect(i)
  BY MovedRow DEF RowEffect
<1>3. \A j \in Invoices \ {i} : RowEffect(j)
  BY MovedRow DEF RowEffect
<1> QED
  BY <1>1, <1>2, <1>3
\* The entries of the adjacency list that the worker uses.
LEMMA WorkerTransitions ==
  /\ CanTransition("received", "extracting") /\ CanTransition("failed", "extracting")
  /\ CanTransition("extracting", "needs_review") /\ CanTransition("extracting", "failed")
  /\ CanTransition("needs_review", "approved") /\ CanTransition("pending_approval", "approved")
  /\ CanTransition("approved", "posting")
  /\ CanTransition("posting", "posted") /\ CanTransition("posting", "failed")
BY DEF CanTransition, Transitions

LEMMA ClaimEffects ==
  ASSUME TypeOK, SawClaimable, NEW w \in Workers, Claim(w)
  PROVE  Effects
<1> DEFINE won == Cas(at[w], seen[w].status, "extracting", seen[w].version)
<1>1. /\ pc[w] = "claim" /\ at[w] \in Invoices
      /\ seen[w].status \in {"received", "failed"}
      /\ UNCHANGED <<dedup, at>>
  BY DEF Claim, TypeOK, SawClaimable
<1>2. CASE won
  <2>1. /\ row' = Moved(at[w], "extracting") /\ Goto(w, "extract")
        /\ seen' = [seen EXCEPT ![w] = [status |-> "extracting",
                                        version |-> row'[at[w]].version]]
        /\ row[at[w]].status = seen[w].status
    BY <1>2 DEF Claim, Cas
  <2>2. pc'[w] = "extract" /\ \A v \in Workers \ {w} : Idles(v)
    BY <1>1, <2>1, GotoAlone DEF Labels, Claimed
  <2>3. WorkerEffect(w)
    BY <1>1, <2>1, <2>2, MovedRow DEF WorkerEffect, Claimed, TypeOK
  <2>4. KeyEffect /\ \A j \in Invoices : RowEffect(j)
    BY <1>1, <2>1, MoveEffects, WorkerTransitions
  <2> QED
    BY <2>2, <2>3, <2>4, Alone DEF Effects
<1>3. CASE ~won
  <2>1. UNCHANGED <<row, seen>> /\ Goto(w, "park")
    BY <1>3 DEF Claim
  <2>2. pc'[w] = "park" /\ \A v \in Workers \ {w} : Idles(v)
    BY <1>1, <2>1, GotoAlone DEF Labels
  <2>3. WorkerEffect(w)
    BY <2>2 DEF WorkerEffect, Claimed
  <2> QED
    BY <1>1, <2>1, <2>2, <2>3, Alone, QuietTables DEF Effects
<1> QED
  BY <1>2, <1>3

LEMMA StopEffects ==
  ASSUME TypeOK, NEW w \in Workers, Stop(w)
  PROVE  Effects
<1> DEFINE won == Cas(at[w], "extracting", "needs_review", seen[w].version)
           m == Moved(at[w], "needs_review")
<1>1. /\ at[w] \in Invoices /\ UNCHANGED <<dedup, at, seen>>
      /\ Goto(w, IF won THEN "ack" ELSE "park")
      /\ row' = IF won THEN [m EXCEPT ![at[w]].findings = {"AI_BUDGET_EXHAUSTED"}] ELSE row
  BY DEF Stop, TypeOK, localVars
<1>2. pc'[w] \in {"ack", "park"} /\ \A v \in Workers \ {w} : Idles(v)
  BY <1>1, GotoAlone DEF Labels
<1>3. WorkerEffect(w)
  BY <1>2 DEF WorkerEffect, Claimed
<1>4. KeyEffect /\ \A j \in Invoices : RowEffect(j)
  <2>1. CASE won
    <3>1. row[at[w]].status = "extracting"
      BY <2>1 DEF Cas
    <3>2. m \in [Invoices -> RowType]
      BY <1>1, MovedType, StatusTypes DEF TypeOK, RowType
    <3>3. /\ \A j \in Invoices \ {at[w]} : row'[j] = row[j]
          /\ row'[at[w]].status = "needs_review"
          /\ row'[at[w]].version = row[at[w]].version + 1
          /\ row'[at[w]].key = row[at[w]].key
          /\ row'[at[w]].findings # {}
      BY <1>1, <2>1, <3>2, MovedRow DEF RowType
    <3> QED
      BY <1>1, <3>1, <3>3, WorkerTransitions DEF KeyEffect, RowEffect
  <2>2. CASE ~won
    BY <1>1, <2>2, QuietTables
  <2> QED
    BY <2>1, <2>2
<1> QED
  BY <1>2, <1>3, <1>4, Alone DEF Effects

LEMMA SaveEffects ==
  ASSUME TypeOK, NEW w \in Workers, Save(w)
  PROVE  Effects
<1>1. PICK k \in Keys :
        LET i == at[w]
            twin == Owner(k, i) # i
            target == IF twin \/ verdict[w] = "review" THEN "needs_review" ELSE "pending_approval"
            won == Cas(i, "extracting", target, seen[w].version) IN
        /\ row' = IF won THEN [Moved(i, target) EXCEPT ![i].key = k,
                                                       ![i].findings = FindingsOf(twin)]
                          ELSE row
        /\ dedup' = IF won THEN [dedup EXCEPT ![k] = Owner(k, i)] ELSE dedup
        /\ Goto(w, IF won THEN "ack" ELSE "park")
  BY DEF Save, Extracted
<1> DEFINE i == at[w]
           twin == Owner(k, i) # i
           target == IF twin \/ verdict[w] = "review" THEN "needs_review" ELSE "pending_approval"
           won == Cas(i, "extracting", target, seen[w].version)
           m == Moved(i, target)
<1>2. i \in Invoices /\ UNCHANGED <<at, seen>>
  BY DEF Save, Extracted, TypeOK, localVars
<1>3. pc'[w] \in {"ack", "park"} /\ \A v \in Workers \ {w} : Idles(v)
  BY <1>1, <1>2, GotoAlone DEF Labels
<1>4. WorkerEffect(w)
  BY <1>3 DEF WorkerEffect, Claimed
<1>5. KeyEffect /\ \A j \in Invoices : RowEffect(j)
  <2>1. CASE won
    <3>1. row[i].status = "extracting" /\ CanTransition("extracting", target)
      BY <2>1 DEF Cas
    <3>2. target \in InvoiceStatuses
      BY StatusTypes
    <3>3. m \in [Invoices -> RowType]
      BY <1>2, <3>2, MovedType DEF TypeOK, RowType
    <3>4. row' = [m EXCEPT ![i].key = k, ![i].findings = FindingsOf(twin)]
          /\ dedup' = [dedup EXCEPT ![k] = Owner(k, i)]
      BY <1>1, <2>1
    <3>5. /\ \A j \in Invoices \ {i} : row'[j] = row[j]
          /\ row'[i].status = target
          /\ row'[i].version = row[i].version + 1
          /\ row'[i].key = k
          /\ row'[i].findings = FindingsOf(twin)
      BY <1>2, <3>3, <3>4, MovedRow DEF RowType
    <3>6. row'[i].findings = {} => Owner(k, i) = i
      BY <3>5 DEF FindingsOf
    <3>7. KeyEffect
      BY <1>2, <3>4, <3>5, <3>6 DEF KeyEffect
    <3>8. \A j \in Invoices : RowEffect(j)
      BY <3>1, <3>5 DEF RowEffect
    <3> QED
      BY <3>7, <3>8
  <2>2. CASE ~won
    BY <1>1, <2>2, QuietTables
  <2> QED
    BY <2>1, <2>2
<1> QED
  BY <1>3, <1>4, <1>5, Alone DEF Effects

\* Every step has these effects.
LEMMA StepEffects ==
  ASSUME TypeOK, SawClaimable, [Next]_vars
  PROVE  Effects
<1>1. ASSUME NEW w \in Workers, NEW i \in Jobs, Take(w, i) PROVE Effects
  <2>1. pc' = [pc EXCEPT ![w] = "read"] /\ at' = [at EXCEPT ![w] = i]
        /\ UNCHANGED <<row, dedup, seen>>
    BY <1>1 DEF Take, Goto, dbVars
  <2>2. (\A v \in Workers \ {w} : Idles(v)) /\ WorkerEffect(w)
    BY <2>1 DEF Idles, WorkerEffect, Claimed, TypeOK
  <2> QED
    BY <2>1, <2>2, Alone, QuietTables DEF Effects
<1>2. ASSUME NEW w \in Workers, Read(w) PROVE Effects
  <2>1. PICK l \in {"claim", "ack"} :
          Goto(w, l) /\ (l = "claim" => row[at[w]].status \in {"received", "failed"})
    BY <1>2 DEF Read
  <2>2. /\ seen' = [seen EXCEPT ![w] = [status |-> row[at[w]].status,
                                       version |-> row[at[w]].version]]
        /\ UNCHANGED <<row, dedup, at>>
    BY <1>2 DEF Read, dbVars
  <2>3. pc'[w] = l /\ \A v \in Workers \ {w} : Idles(v)
    BY <2>1, <2>2, GotoAlone DEF Labels, TypeOK
  <2>4. WorkerEffect(w)
    BY <2>1, <2>2, <2>3 DEF WorkerEffect, Claimed, TypeOK
  <2> QED
    BY <2>2, <2>3, <2>4, Alone, QuietTables DEF Effects
<1>3. ASSUME NEW w \in Workers, Claim(w) PROVE Effects
  BY <1>3, ClaimEffects
<1>4. ASSUME NEW w \in Workers, BudgetStops(w) \/ Extract(w) \/ ExtractRefused(w) PROVE Effects
  <2>1. PICK l \in {"stop", "save", "park"} : Goto(w, l)
    BY <1>4 DEF BudgetStops, Extract, ExtractRefused
  <2>2. pc[w] = "extract" /\ UNCHANGED <<row, dedup, at, seen>>
    BY <1>4 DEF BudgetStops, Extract, ExtractRefused, dbVars, localVars
  <2>3. pc'[w] = l /\ \A v \in Workers \ {w} : Idles(v)
    BY <2>1, <2>2, GotoAlone DEF Labels, Claimed
  <2>4. WorkerEffect(w)
    BY <2>2, <2>3 DEF WorkerEffect, Claimed
  <2> QED
    BY <2>2, <2>3, <2>4, Alone, QuietTables DEF Effects
<1>5. ASSUME NEW w \in Workers, Stop(w) PROVE Effects
  BY <1>5, StopEffects
<1>6. ASSUME NEW w \in Workers, Save(w) PROVE Effects
  BY <1>6, SaveEffects
<1>7. ASSUME NEW w \in Workers, Park(w) PROVE Effects
  <2>1. at[w] \in Invoices /\ Goto(w, "ack") /\ UNCHANGED <<dedup, at, seen>>
    BY <1>7 DEF Park, TypeOK, localVars
  <2>2. row' = row \/ (row[at[w]].status = "extracting" /\ row' = Moved(at[w], "failed"))
    BY <1>7 DEF Park
  <2>3. pc'[w] = "ack" /\ \A v \in Workers \ {w} : Idles(v)
    BY <2>1, GotoAlone DEF Labels
  <2>4. WorkerEffect(w)
    BY <2>3 DEF WorkerEffect, Claimed
  <2>5. KeyEffect /\ \A j \in Invoices : RowEffect(j)
    <3>1. CASE row' = row
      BY <2>1, <3>1, QuietTables
    <3>2. CASE row[at[w]].status = "extracting" /\ row' = Moved(at[w], "failed")
      BY <2>1, <3>2, MoveEffects, WorkerTransitions
    <3> QED
      BY <2>2, <3>1, <3>2
  <2> QED
    BY <2>3, <2>4, <2>5, Alone DEF Effects
<1>8. ASSUME NEW w \in Workers, Ack(w) \/ Fails(w) \/ Crash(w) PROVE Effects
  BY <1>8, LeaveAlone, QuietTables DEF Ack, Fails, Crash, dbVars, Effects
<1>9. ASSUME NEW i \in Invoices, Deliver(i) \/ Redeliver(i) \/ Stall(i) PROVE Effects
  BY <1>9, QuietTables, QuietWorkers DEF Deliver, Redeliver, Stall, dbVars, localVars, Effects
<1>10. ASSUME NEW i \in Invoices, Approve(i) \/ Reject(i) \/ PostingMoves(i) PROVE Effects
  <2>1. UNCHANGED <<dedup, pc, at, seen>>
    BY <1>10 DEF Approve, Reject, PostingMoves, localVars
  <2>2. \E s \in InvoiceStatuses : row' = Moved(i, s) /\ CanTransition(row[i].status, s)
    BY <1>10, WorkerTransitions, StatusTypes DEF Approve, Reject, PostingMoves
  <2>3. KeyEffect /\ \A j \in Invoices : RowEffect(j)
    BY <2>1, <2>2, MoveEffects
  <2> QED
    BY <2>1, <2>3, QuietWorkers DEF Effects
<1>11. CASE UNCHANGED vars
  BY <1>11, QuietTables, QuietWorkers DEF vars, dbVars, localVars, Effects
<1> QED
  BY <1>1, <1>2, <1>3, <1>4, <1>5, <1>6, <1>7, <1>8, <1>9, <1>10, <1>11 DEF Next, Progress
-----------------------------------------------------------------------------
(* The invariant *)

LEMMA InvInit == Init => ExtractionInv
BY ExtractionConstants
   DEF Init, ExtractionInv, SawClaimable, ClaimsBehind, ClaimsDiffer, CleanOwnsKey,
       NoPhantomOwner, Claimed

\* Versions only grow.
LEMMA VersionsGrow ==
  ASSUME TypeOK, Effects, NEW i \in Invoices
  PROVE  row[i].version \in Nat /\ row[i].version <= row'[i].version
<1>1. row[i].version \in Nat /\ RowEffect(i)
  BY DEF TypeOK, Effects
<1> QED
  BY <1>1 DEF RowEffect

\* A worker that holds a claim after a step held it before, or has just claimed.
LEMMA ClaimSources ==
  ASSUME TypeOK, Effects, NEW w \in Workers, pc'[w] \in Claimed
  PROVE  /\ at'[w] = at[w] /\ at[w] \in Invoices
         /\ \/ pc[w] \in Claimed /\ seen'[w] = seen[w]
            \/ /\ ~Idles(w)
               /\ seen'[w].version = row[at[w]].version + 1
               /\ row'[at[w]].version = row[at[w]].version + 1
<1>1. WorkerEffect(w)
  BY DEF Effects
<1> QED
  BY <1>1 DEF WorkerEffect, Idles, Claimed, TypeOK

LEMMA ClaimsStep ==
  ASSUME TypeOK, ExtractionInv, Effects
  PROVE  SawClaimable' /\ ClaimsBehind' /\ ClaimsDiffer'
<1>1. SawClaimable'
  <2>1. \A w \in Workers : WorkerEffect(w)
    BY DEF Effects
  <2> QED
    BY <2>1 DEF WorkerEffect, Idles, Claimed, ExtractionInv, SawClaimable
<1>2. ASSUME NEW w \in Workers, pc'[w] \in Claimed
      PROVE  seen'[w].version <= row'[at'[w]].version
  <2>1. row[at[w]].version \in Nat /\ row[at[w]].version <= row'[at[w]].version
        /\ row'[at[w]].version \in Nat
    <3>1. at[w] \in Invoices
      BY <1>2, ClaimSources
    <3>2. RowEffect(at[w])
      BY <3>1 DEF Effects
    <3> QED
      BY <3>1, <3>2, VersionsGrow DEF RowEffect
  <2>2. CASE pc[w] \in Claimed /\ seen'[w] = seen[w]
    <3>1. seen[w].version \in Nat /\ seen[w].version <= row[at[w]].version
      BY <2>2 DEF TypeOK, ExtractionInv, ClaimsBehind
    <3> QED
      BY <1>2, <2>1, <2>2, <3>1, ClaimSources
  <2>3. CASE ~(pc[w] \in Claimed /\ seen'[w] = seen[w])
    BY <1>2, <2>1, <2>3, ClaimSources
  <2> QED
    BY <2>2, <2>3
<1>3. ASSUME NEW v \in Workers, NEW w \in Workers, Idles(v),
             pc'[v] \in Claimed, pc'[w] \in Claimed,
             at'[v] = at'[w], seen'[v].version = seen'[w].version
      PROVE  v = w
  <2>1. pc[v] \in Claimed /\ at[v] = at[w] /\ seen'[v] = seen[v]
    BY <1>3, ClaimSources DEF Idles
  <2>2. seen[v].version \in Nat /\ seen[v].version <= row[at[w]].version
        /\ row[at[w]].version \in Nat
    <3>1. at[w] \in Invoices
      BY <1>3, ClaimSources
    <3> QED
      BY <2>1, <3>1 DEF TypeOK, ExtractionInv, ClaimsBehind
  <2>3. seen'[w].version # row[at[w]].version + 1
    BY <1>3, <2>1, <2>2
  <2>4. pc[w] \in Claimed /\ seen'[w] = seen[w]
    BY <1>3, <2>3, ClaimSources
  <2> QED
    BY <1>3, <2>1, <2>4 DEF ExtractionInv, ClaimsDiffer
<1>4. ClaimsDiffer'
  BY <1>3 DEF ClaimsDiffer, Effects, OneActor
<1> QED
  BY <1>1, <1>2, <1>4 DEF ClaimsBehind

\* An owned key stays with its owner, so does a row's key.
LEMMA KeysStep ==
  ASSUME TypeOK, ExtractionInv, Effects
  PROVE  CleanOwnsKey' /\ NoPhantomOwner'
<1>1. CASE /\ dedup' = dedup
           /\ \A i \in Invoices : /\ row'[i].key = row[i].key
                                  /\ row'[i].findings = {} => row[i].findings = {}
  <2>1. CleanOwnsKey'
    BY <1>1 DEF ExtractionInv, CleanOwnsKey
  <2>2. NoPhantomOwner'
    BY <1>1 DEF ExtractionInv, NoPhantomOwner, TypeOK
  <2> QED
    BY <2>1, <2>2
<1>2. ASSUME NEW i \in Invoices, NEW k \in Keys,
             dedup' = [dedup EXCEPT ![k] = Owner(k, i)],
             row'[i].key = k,
             row'[i].findings = {} => Owner(k, i) = i,
             \A j \in Invoices \ {i} : row'[j] = row[j]
      PROVE  CleanOwnsKey' /\ NoPhantomOwner'
  <2>1. \A l \in Keys : dedup[l] # None => dedup'[l] = dedup[l]
    BY <1>2 DEF Owner, TypeOK
  <2>2. ASSUME NEW j \in Invoices, NEW l \in Keys, row'[j].key = l, row'[j].findings = {}
        PROVE  dedup'[l] = j
    <3>1. CASE j = i
      BY <1>2, <2>2, <3>1 DEF TypeOK
    <3>2. CASE j # i
      BY <1>2, <2>1, <2>2, <3>2, ExtractionConstants DEF ExtractionInv, CleanOwnsKey
    <3> QED
      BY <3>1, <3>2
  <2>3. ASSUME NEW l \in Keys, dedup'[l] # None
        PROVE  row'[dedup'[l]].key # None
    <3>1. dedup'[l] = dedup[l] \/ dedup'[l] = i
      BY <1>2 DEF Owner, TypeOK
    <3>2. CASE dedup'[l] = i
      BY <1>2, <3>2, ExtractionConstants
    <3>3. CASE dedup'[l] = dedup[l] /\ dedup'[l] # i
      BY <1>2, <2>3, <3>3 DEF ExtractionInv, NoPhantomOwner, TypeOK
    <3> QED
      BY <3>1, <3>2, <3>3
  <2> QED
    BY <2>2, <2>3 DEF CleanOwnsKey, NoPhantomOwner
<1>3. KeyEffect
  BY DEF Effects
<1> QED
  BY <1>1, <1>2, <1>3 DEF KeyEffect

LEMMA InvNext == TypeOK /\ ExtractionInv /\ [Next]_vars => ExtractionInv'
<1>1. TypeOK /\ ExtractionInv /\ [Next]_vars => Effects
  BY StepEffects DEF ExtractionInv
<1> QED
  BY <1>1, ClaimsStep, KeysStep DEF ExtractionInv

\* TypeOK and the inductive invariant hold in every reachable state.
THEOREM Invariant == Spec => [](TypeOK /\ ExtractionInv)
<1>1. TypeOK /\ ExtractionInv /\ [Next]_vars => (TypeOK /\ ExtractionInv)'
  BY TypeNext, InvNext
<1> QED
  BY <1>1, TypeInit, InvInit, PTL DEF Spec

-----------------------------------------------------------------------------
(* Results *)

\* One extraction at a time holds the current claim of a row.
THEOREM ClaimIsExclusive == Spec => []OneExtractor
<1>1. ExtractionInv => OneExtractor
  BY DEF ExtractionInv, ClaimsDiffer, OneExtractor, HoldsClaim
<1> QED
  BY <1>1, Invariant, PTL

\* Twins are never both free of a blocking finding.
THEOREM TwinsAreFlagged == Spec => []NoUnflaggedTwins
<1>1. ASSUME TypeOK, ExtractionInv PROVE NoUnflaggedTwins
  <2>1. \A i \in Invoices : row[i].key # None => row[i].key \in Keys
    BY <1>1 DEF TypeOK
  <2> QED
    BY <1>1, <2>1 DEF ExtractionInv, CleanOwnsKey, NoUnflaggedTwins
<1> QED
  BY <1>1, Invariant, PTL

\* An extraction that was rolled back owns no business key.
THEOREM OwnersAreSaved == Spec => []NoPhantomOwner
<1>1. ExtractionInv => NoPhantomOwner
  BY DEF ExtractionInv
<1> QED
  BY <1>1, Invariant, PTL

\* Every change of a status, by whomever, is one of the transition table.
THEOREM TableIsRespected == Spec => LifecycleRespected
<1>1. TypeOK /\ ExtractionInv /\ [Next]_vars
        => [\A i \in Invoices :
              row'[i].status # row[i].status => CanTransition(row[i].status, row'[i].status)]_vars
  <2>1. TypeOK /\ ExtractionInv /\ [Next]_vars => Effects
    BY StepEffects DEF ExtractionInv
  <2> QED
    BY <2>1 DEF Effects, RowEffect
<1> QED
  BY <1>1, Invariant, PTL DEF Spec, LifecycleRespected

\* No worker changes an invoice that is out of the extraction worker's hands.
THEOREM HandedOnStays == Spec => DecidedStays
<1>1. TypeOK /\ ExtractionInv /\ [Next]_vars
        => [\A i \in Invoices :
              row[i].status \notin {"received", "extracting", "failed"} /\ pc' # pc
                => row'[i] = row[i]]_vars
  <2>1. TypeOK /\ ExtractionInv /\ [Next]_vars => Effects
    BY StepEffects DEF ExtractionInv
  <2> QED
    BY <2>1 DEF Effects, RowEffect
<1> QED
  BY <1>1, Invariant, PTL DEF Spec, DecidedStays
=============================================================================
