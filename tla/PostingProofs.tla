--------------------------- MODULE PostingProofs ---------------------------
(***************************************************************************)
(* Theorems about Posting, for every value of its constants.               *)
(***************************************************************************)
EXTENDS Posting, FiniteSetTheorems, TLAPS

-----------------------------------------------------------------------------
(* Type correctness *)

LEMMA StatusTypes ==
  {"needs_review", "pending_approval", "approved", "posting", "posted", "failed", "rejected"}
    \subseteq InvoiceStatuses
BY DEF InvoiceStatuses

\* A transition of a row keeps the type of the invoices table.
LEMMA MovedType ==
  ASSUME DbTypes, NEW i \in Invoices, NEW to \in InvoiceStatuses, NEW bill \in Nat
  PROVE  Moved(i, to, bill) \in [Invoices -> [status : InvoiceStatuses, version : Nat, bill : Nat]]
BY DEF DbTypes, Moved

\* However a handler ends, the queue's jobs keep their type.
LEMMA JobEndType ==
  ASSUME JobTypes, NEW w \in Workers, JobCompletes(w) \/ JobRetries(w) \/ JobOrphaned(w)
  PROVE  JobTypes'
<1> USE DEF JobTypes, JobRecord
<1>1. CASE JobCompletes(w)
  BY <1>1 DEF JobCompletes
<1>2. CASE JobRetries(w)
  <2>1. \A n \in Nat : RetryState(n) \in {"waiting", "failed"}
    BY DEF RetryState
  <2>2. \A k \in Jobs : job'[k] \in JobRecord
    <3>1. TAKE k \in Jobs
    <3>2. RetryState(job[k].attempts + 1) \in {"waiting", "failed"} /\ job[k].attempts + 1 \in Nat
      BY <2>1
    <3> QED
      BY <1>2, <3>2 DEF JobRetries
  <2> QED
    BY <1>2, <2>2 DEF JobRetries
<1>3. CASE JobOrphaned(w)
  BY <1>3 DEF JobOrphaned
<1> QED
  BY <1>1, <1>2, <1>3

\* A worker that leaves its job is free and well-typed.
LEMMA LeaveType ==
  ASSUME WorkerTypes, NEW w \in Workers, Leave(w)
  PROVE  WorkerTypes'
BY DEF WorkerTypes, Leave, Labels, NoBill

\* What QuickBooks commits is a bill, and the answer names a bill.
LEMMA CommitType ==
  ASSUME LedgerTypes, NEW i \in Invoices, CommitBill(i)
  PROVE  LedgerTypes' /\ memo'[i] \in Nat \ {NoBill}
<1> USE DEF LedgerTypes
<1>1. CASE memo[i] # NoBill
  BY <1>1 DEF CommitBill, ledgerVars
<1>2. CASE memo[i] = NoBill
  <2>1. docNumber[i] \in DocNumbers \cup {None}
    BY PostingConstants
  <2>2. [id |-> nextId, owner |-> i, doc |-> docNumber[i]] \in Bill
    BY <2>1 DEF Bill
  <2>3. nextId + 1 \in Nat \ {NoBill}
    BY DEF NoBill
  <2> QED
    BY <1>2, <2>2, <2>3 DEF CommitBill
<1> QED
  BY <1>1, <1>2

LEMMA TypeInit == Init => TypeOK
BY PostingConstants, StatusTypes
   DEF Init, TypeOK, DbTypes, JobTypes, WorkerTypes, LedgerTypes, HistoryTypes,
       NewJob, JobRecord, Jobs, Approvals, Labels, NoBill, Bill


\* Every step keeps every variable's type.
LEMMA TypeNext ==
  ASSUME TypeOK, [Next]_vars
  PROVE  TypeOK'
<1> USE DEF TypeOK, DbTypes, JobTypes, WorkerTypes, LedgerTypes, HistoryTypes,
            vars, dbVars, localVars, ledgerVars, Goto, Labels
<1>1. ASSUME NEW w \in Workers, Read(w) PROVE TypeOK'
  BY <1>1 DEF Read
<1>2. ASSUME NEW w \in Workers, RecoverFinds(w) PROVE TypeOK'
  BY <1>2 DEF RecoverFinds, Bill
<1>3. ASSUME NEW w \in Workers, RecoverFindsNone(w) PROVE TypeOK'
  BY <1>3 DEF RecoverFindsNone
<1>4. ASSUME NEW w \in Workers, RecoverGivesUp(w) PROVE TypeOK'
  BY <1>4 DEF RecoverGivesUp
<1>5. ASSUME NEW w \in Workers, Claim(w) PROVE TypeOK'
  BY <1>5, StatusTypes, MovedType, row[at[w]].bill \in Nat DEF Claim
<1>6. ASSUME NEW w \in Workers, Reread(w) PROVE TypeOK'
  BY <1>6 DEF Reread
<1>7. ASSUME NEW w \in Workers, RereadGivesUp(w) PROVE TypeOK'
  BY <1>7 DEF RereadGivesUp
<1>8. ASSUME NEW w \in Workers, Build(w) PROVE TypeOK'
  BY <1>8 DEF Build
<1>9. ASSUME NEW w \in Workers, BuildFails(w) PROVE TypeOK'
  BY <1>9 DEF BuildFails
<1>10. ASSUME NEW w \in Workers, PostAccepted(w) PROVE TypeOK'
  BY <1>10, CommitType DEF PostAccepted
<1>11. ASSUME NEW w \in Workers, PostAcceptedUnnamed(w) PROVE TypeOK'
  BY <1>11, CommitType DEF PostAcceptedUnnamed
<1>12. ASSUME NEW w \in Workers, PostDuplicate(w) PROVE TypeOK'
  BY <1>12 DEF PostDuplicate
<1>13. ASSUME NEW w \in Workers, PostRefused(w) PROVE TypeOK'
  BY <1>13 DEF PostRefused
<1>14. ASSUME NEW w \in Workers, PostUnknown(w) PROVE TypeOK'
  BY <1>14, JobEndType, LeaveType DEF PostUnknown
<1>15. ASSUME NEW w \in Workers, Record(w) PROVE TypeOK'
  <2>1. row' \in [Invoices -> [status : InvoiceStatuses, version : Nat, bill : Nat]]
    BY <1>15, StatusTypes, MovedType DEF Record
  <2>2. outbox' \in [Invoices -> [posted : Nat, failed : Nat]]
    <3>1. outbox[at[w]].posted + 1 \in Nat
      BY <1>15 DEF Record
    <3> QED
      BY <1>15, <3>1 DEF Record
  <2> QED
    BY <1>15, <2>1, <2>2 DEF Record
<1>16. ASSUME NEW w \in Workers, DupFinds(w) PROVE TypeOK'
  BY <1>16 DEF DupFinds, Bill
<1>17. ASSUME NEW w \in Workers, DupFindsNone(w) PROVE TypeOK'
  BY <1>17 DEF DupFindsNone
<1>18. ASSUME NEW w \in Workers, DupGivesUp(w) PROVE TypeOK'
  BY <1>18 DEF DupGivesUp
<1>19. ASSUME NEW w \in Workers, Link(w) PROVE TypeOK'
  BY <1>19, StatusTypes, MovedType DEF Link
<1>20. ASSUME NEW w \in Workers, Park(w) PROVE TypeOK'
  <2>1. row' \in [Invoices -> [status : InvoiceStatuses, version : Nat, bill : Nat]]
    BY <1>20, StatusTypes, MovedType, row[at[w]].bill \in Nat DEF Park
  <2>2. outbox' \in [Invoices -> [posted : Nat, failed : Nat]]
    <3>1. outbox[at[w]].failed + 1 \in Nat
      BY <1>20 DEF Park
    <3> QED
      BY <1>20, <3>1 DEF Park
  <2> QED
    BY <1>20, <2>1, <2>2 DEF Park
<1>21. ASSUME NEW w \in Workers, Ack(w) PROVE TypeOK'
  BY <1>21, JobEndType, LeaveType DEF Ack
<1>22. ASSUME NEW w \in Workers, Fails(w) PROVE TypeOK'
  BY <1>22, JobEndType, LeaveType DEF Fails
<1>23. ASSUME NEW w \in Workers, Crash(w) PROVE TypeOK'
  BY <1>23, JobEndType, LeaveType DEF Crash
<1>24. ASSUME NEW w \in Workers, NEW k \in Jobs, Take(w, k) PROVE TypeOK'
  <2>1. k[1] \in Invoices
    BY DEF Jobs
  <2>2. JobTypes'
    <3>1. [job[k] EXCEPT !.state = "active", !.holder = w] \in JobRecord
      BY DEF JobRecord
    <3> QED
      BY <1>24, <3>1 DEF Take, JobTaken
  <2>3. WorkerTypes'
    BY <1>24, <2>1 DEF Take, JobTaken
  <2> QED
    BY <1>24, <2>2, <2>3 DEF Take, JobTaken
<1>25. ASSUME NEW k \in Jobs, Stall(k) PROVE TypeOK'
  BY <1>25 DEF Stall, JobStalls, JobRecord
<1>26. ASSUME NEW k \in Jobs, Redeliver(k) PROVE TypeOK'
  BY <1>26 DEF Redeliver, JobAddedAgain, NewJob, JobRecord
<1>27. ASSUME NEW i \in Invoices, LateArrives(i) PROVE TypeOK'
  BY <1>27, CommitType DEF LateArrives
<1>28. ASSUME NEW i \in Invoices, Forget(i) PROVE TypeOK'
  BY <1>28 DEF Forget, NoBill
<1>29. ASSUME NEW d \in HandDocs, EnterByHand(d) PROVE TypeOK'
  BY <1>29, PostingConstants DEF EnterByHand, Bill, NoBill
<1>30. ASSUME NEW i \in Invoices, Reject(i) PROVE TypeOK'
  BY <1>30, StatusTypes, MovedType, row[i].bill \in Nat DEF Reject
<1>31. ASSUME NEW i \in Invoices, Reextract(i) PROVE TypeOK'
  BY <1>31, StatusTypes, MovedType, row[i].bill \in Nat DEF Reextract
<1>32. ASSUME NEW i \in Invoices, Approve(i) PROVE TypeOK'
  <2>1. row' \in [Invoices -> [status : InvoiceStatuses, version : Nat, bill : Nat]]
    BY <1>32, StatusTypes, MovedType, row[i].bill \in Nat DEF Approve
  <2>2. approvals' \in [Invoices -> 0 .. MaxApprovals]
    BY <1>32, PostingConstants DEF Approve
  <2>3. JobTypes'
    BY <1>32 DEF Approve, NewJob, JobRecord
  <2> QED
    BY <1>32, <2>1, <2>2, <2>3 DEF Approve
<1>33. CASE UNCHANGED vars
  BY <1>33
<1> QED
  BY <1>1, <1>2, <1>3, <1>4, <1>5, <1>6, <1>7, <1>8, <1>9, <1>10, <1>11, <1>12, <1>13, <1>14,
     <1>15, <1>16, <1>17, <1>18, <1>19, <1>20, <1>21, <1>22, <1>23, <1>24, <1>25, <1>26,
     <1>27, <1>28, <1>29, <1>30, <1>31, <1>32, <1>33 DEF Next, Progress

\* Specification Posting keeps its types.
THEOREM TypeCorrect == Spec => []TypeOK
<1>1. Init => TypeOK
  BY TypeInit
<1>2. TypeOK /\ [Next]_vars => TypeOK'
  BY TypeNext
<1> QED
  BY <1>1, <1>2, PTL DEF Spec

-----------------------------------------------------------------------------
(* What a step can do, seen by one invoice, one worker, one job, the ledger.  The *)
(* invariant is proved from these effects, action by action only here.            *)

RowMoves(i, from, to) ==
  row[i].status \in from /\ row'[i].status = to /\ row'[i].bill = row[i].bill

RowEffect(i) ==
  \/ /\ outbox'[i] = outbox[i] /\ approvals'[i] = approvals[i]
     /\ \/ row'[i] = row[i]
        \/ RowMoves(i, {"approved"}, "posting")
        \/ RowMoves(i, {"failed"}, "needs_review")
        \/ RowMoves(i, InvoiceStatuses \ {"posting", "posted"}, "rejected")
  \/ /\ RowMoves(i, {"needs_review", "pending_approval"}, "approved")
     /\ approvals'[i] = approvals[i] + 1 /\ outbox'[i] = outbox[i]
  \/ /\ RowMoves(i, {"posting"}, "failed")
     /\ approvals'[i] = approvals[i] /\ outbox'[i] = [outbox[i] EXCEPT !.failed = @ + 1]
  \/ /\ row[i].status = "posting" /\ row'[i].status = "posted"
     /\ approvals'[i] = approvals[i]
     /\ \E w \in Workers :
          /\ at[w] = i /\ row'[i].bill = found[w]
          /\ \/ pc[w] = "record" /\ outbox'[i] = [outbox[i] EXCEPT !.posted = @ + 1]
             \/ pc[w] = "link" /\ outbox'[i] = outbox[i]

\* The database and QuickBooks are never written in one step, nor are two rows.
StoreEffect ==
  \/ UNCHANGED row
  \/ UNCHANGED ledgerVars /\ \E i \in Invoices : \A j \in Invoices \ {i} : row'[j] = row[j]

JobEffect(k) ==
  job[k] = NewJob("absent", 0) /\ job'[k] # job[k] => k[2] = approvals'[k[1]]

\* The ways into the statements that matter to the ledger.
WorkerEffect(w) ==
  \/ pc'[w] = pc[w] /\ at'[w] = at[w] /\ found'[w] = found[w]
  \/ pc'[w] = "idle" /\ at'[w] = None
  \/ /\ pc[w] = "idle" /\ pc'[w] = "read"
     /\ \E k \in Jobs : job[k].state = "waiting" /\ at'[w] = k[1]
  \/ /\ pc[w] # "idle" /\ at'[w] = at[w]
     /\ \/ pc'[w] \in {"ack", "claim"} /\ pc[w] \in {"read", "claim"}
        \/ pc'[w] \in {"ack", "park", "dup"} /\ pc[w] \notin {"idle", "read", "claim", "ack"}
        \/ pc'[w] = "recover" /\ pc[w] = "read" /\ row[at[w]].status = "posting"
        \/ pc'[w] = "reread" /\ pc[w] = "claim"
             /\ row[at[w]].status = "approved" /\ row'[at[w]].status = "posting"
        \/ pc'[w] = "reread" /\ pc[w] = "recover" /\ \A b \in bills : Matches(at[w]) # {b}
        \/ pc'[w] = "build" /\ pc[w] = "reread"
        \/ pc'[w] = "await" /\ pc[w] = "build"
        \/ pc'[w] = "record" /\ pc[w] = "await" /\ CommitBill(at[w]) /\ found'[w] = memo'[at[w]]
        \/ pc'[w] = "link" /\ pc[w] \in {"recover", "dup"}
             /\ \E b \in Matches(at[w]) : b.id = found'[w]

\* A POST of the invoice may be committed now.
InFlight(i) == i \in late \/ \E w \in Workers : at[w] = i /\ pc[w] = "await"

LedgerEffect ==
  \/ UNCHANGED ledgerVars /\ forgot' = forgot
  \/ \E i \in Invoices : InFlight(i) /\ CommitBill(i) /\ forgot' = forgot
  \/ \E i \in Invoices : Forget(i)
  \/ \E d \in HandDocs : EnterByHand(d)

LateEffect == \A i \in late' : InFlight(i)

Effects ==
  /\ \A i \in Invoices : RowEffect(i)
  /\ \A k \in Jobs : JobEffect(k)
  /\ \A w \in Workers : WorkerEffect(w)
  /\ StoreEffect /\ LedgerEffect /\ LateEffect

\* Frames: the effects of leaving a part of the state alone.
LEMMA QuietRow ==
  ASSUME UNCHANGED dbVars
  PROVE  StoreEffect /\ \A i \in Invoices : RowEffect(i)
BY DEF dbVars, RowEffect, StoreEffect

LEMMA QuietLedger == ASSUME UNCHANGED <<ledgerVars, forgot>> PROVE LedgerEffect
BY DEF LedgerEffect

LEMMA QuietLate == ASSUME UNCHANGED late PROVE LateEffect
BY DEF LateEffect, InFlight

LEMMA QuietWorkers == ASSUME UNCHANGED <<pc, localVars>> PROVE \A v \in Workers : WorkerEffect(v)
BY DEF WorkerEffect, localVars

LEMMA QuietJobs == ASSUME UNCHANGED job PROVE \A k \in Jobs : JobEffect(k)
BY DEF JobEffect

\* A handler's end brings no job into being.
LEMMA JobEndEffect ==
  ASSUME TypeOK, NEW w \in Workers, JobCompletes(w) \/ JobRetries(w) \/ JobOrphaned(w)
  PROVE  \A k \in Jobs : JobEffect(k)
<1>1. \A k \in Jobs : job[k] = NewJob("absent", 0) => job[k].holder # w
  BY PostingConstants DEF NewJob
<1> QED
  BY <1>1 DEF JobEffect, JobCompletes, JobRetries, JobOrphaned

\* Only the worker that leaves changes.
LEMMA LeaveEffect ==
  ASSUME TypeOK, NEW w \in Workers, Leave(w)
  PROVE  \A v \in Workers : WorkerEffect(v)
BY DEF TypeOK, WorkerTypes, Leave, WorkerEffect

\* A worker's statement changes no other worker.
LEMMA GotoEffect ==
  ASSUME TypeOK, NEW w \in Workers, NEW l \in Labels, Goto(w, l), at' = at,
         \A v \in Workers \ {w} : found'[v] = found[v],
         WorkerEffect(w)
  PROVE  \A v \in Workers : WorkerEffect(v)
BY DEF TypeOK, WorkerTypes, Goto, WorkerEffect

\* Every step has these effects.
LEMMA StepEffects ==
  ASSUME TypeOK, [Next]_vars
  PROVE  Effects
<1> USE DEF Effects
<1>1. ASSUME NEW w \in Workers, Read(w) PROVE Effects
  <2>1. WorkerEffect(w)
    BY <1>1 DEF Read, WorkerEffect, Goto, TypeOK, WorkerTypes, localVars, NoBill
  <2>2. \A v \in Workers : WorkerEffect(v)
    BY <1>1, <2>1, GotoEffect DEF Read, Labels, localVars, TypeOK, WorkerTypes
  <2> QED
    BY <1>1, <2>2, QuietJobs, QuietLate, QuietRow, QuietLedger DEF Read
<1>2. ASSUME NEW w \in Workers, RecoverFinds(w) PROVE Effects
  <2>1. WorkerEffect(w)
    BY <1>2 DEF RecoverFinds, WorkerEffect, Goto, TypeOK, WorkerTypes, localVars, Matches
  <2>2. \A v \in Workers : WorkerEffect(v)
    BY <1>2, <2>1, GotoEffect DEF RecoverFinds, Labels, localVars, TypeOK, WorkerTypes
  <2> QED
    BY <1>2, <2>2, QuietJobs, QuietLate, QuietRow, QuietLedger DEF RecoverFinds
<1>3. ASSUME NEW w \in Workers, RecoverFindsNone(w) PROVE Effects
  <2>1. WorkerEffect(w)
    BY <1>3 DEF RecoverFindsNone, WorkerEffect, Goto, TypeOK, WorkerTypes, localVars
  <2>2. \A v \in Workers : WorkerEffect(v)
    BY <1>3, <2>1, GotoEffect DEF RecoverFindsNone, Labels, localVars, TypeOK, WorkerTypes
  <2> QED
    BY <1>3, <2>2, QuietJobs, QuietLate, QuietRow, QuietLedger DEF RecoverFindsNone
<1>4. ASSUME NEW w \in Workers, RecoverGivesUp(w) PROVE Effects
  <2>1. WorkerEffect(w)
    BY <1>4 DEF RecoverGivesUp, WorkerEffect, Goto, TypeOK, WorkerTypes, localVars
  <2>2. \A v \in Workers : WorkerEffect(v)
    BY <1>4, <2>1, GotoEffect DEF RecoverGivesUp, Labels, localVars, TypeOK, WorkerTypes
  <2> QED
    BY <1>4, <2>2, QuietJobs, QuietLate, QuietRow, QuietLedger DEF RecoverGivesUp
<1>5. ASSUME NEW w \in Workers, Claim(w) PROVE Effects
  <2>1. WorkerEffect(w)
    BY <1>5 DEF Claim, WorkerEffect, Goto, TypeOK, WorkerTypes, localVars, Cas, Moved, DbTypes
  <2>2. \A v \in Workers : WorkerEffect(v)
    BY <1>5, <2>1, GotoEffect DEF Claim, Labels, localVars, TypeOK, WorkerTypes
  <2>3. StoreEffect /\ \A i \in Invoices : RowEffect(i)
    BY <1>5 DEF Claim, RowEffect, StoreEffect, RowMoves, Cas, Moved, TypeOK, DbTypes, WorkerTypes
  <2> QED
    BY <1>5, <2>2, <2>3, QuietJobs, QuietLate, QuietLedger DEF Claim
<1>6. ASSUME NEW w \in Workers, Reread(w) PROVE Effects
  <2>1. WorkerEffect(w)
    BY <1>6 DEF Reread, WorkerEffect, Goto, TypeOK, WorkerTypes, localVars
  <2>2. \A v \in Workers : WorkerEffect(v)
    BY <1>6, <2>1, GotoEffect DEF Reread, Labels, localVars, TypeOK, WorkerTypes
  <2> QED
    BY <1>6, <2>2, QuietJobs, QuietLate, QuietRow, QuietLedger DEF Reread
<1>7. ASSUME NEW w \in Workers, RereadGivesUp(w) PROVE Effects
  <2>1. WorkerEffect(w)
    BY <1>7 DEF RereadGivesUp, WorkerEffect, Goto, TypeOK, WorkerTypes, localVars
  <2>2. \A v \in Workers : WorkerEffect(v)
    BY <1>7, <2>1, GotoEffect DEF RereadGivesUp, Labels, localVars, TypeOK, WorkerTypes
  <2> QED
    BY <1>7, <2>2, QuietJobs, QuietLate, QuietRow, QuietLedger DEF RereadGivesUp
<1>8. ASSUME NEW w \in Workers, Build(w) PROVE Effects
  <2>1. WorkerEffect(w)
    BY <1>8 DEF Build, WorkerEffect, Goto, TypeOK, WorkerTypes, localVars
  <2>2. \A v \in Workers : WorkerEffect(v)
    BY <1>8, <2>1, GotoEffect DEF Build, Labels, localVars, TypeOK, WorkerTypes
  <2> QED
    BY <1>8, <2>2, QuietJobs, QuietLate, QuietRow, QuietLedger DEF Build
<1>9. ASSUME NEW w \in Workers, BuildFails(w) PROVE Effects
  <2>1. WorkerEffect(w)
    BY <1>9 DEF BuildFails, WorkerEffect, Goto, TypeOK, WorkerTypes, localVars
  <2>2. \A v \in Workers : WorkerEffect(v)
    BY <1>9, <2>1, GotoEffect DEF BuildFails, Labels, localVars, TypeOK, WorkerTypes
  <2> QED
    BY <1>9, <2>2, QuietJobs, QuietLate, QuietRow, QuietLedger DEF BuildFails
<1>10. ASSUME NEW w \in Workers, PostAccepted(w) PROVE Effects
  <2>1. WorkerEffect(w)
    BY <1>10 DEF PostAccepted, WorkerEffect, Goto, TypeOK, WorkerTypes, localVars
  <2>2. \A v \in Workers : WorkerEffect(v)
    BY <1>10, <2>1, GotoEffect DEF PostAccepted, Labels, localVars, TypeOK, WorkerTypes
  <2>3. LedgerEffect
    BY <1>10 DEF PostAccepted, LedgerEffect, InFlight, TypeOK, WorkerTypes
  <2> QED
    BY <1>10, <2>2, <2>3, QuietJobs, QuietLate, QuietRow DEF PostAccepted
<1>11. ASSUME NEW w \in Workers, PostAcceptedUnnamed(w) PROVE Effects
  <2>1. WorkerEffect(w)
    BY <1>11 DEF PostAcceptedUnnamed, WorkerEffect, Goto, TypeOK, WorkerTypes, localVars
  <2>2. \A v \in Workers : WorkerEffect(v)
    BY <1>11, <2>1, GotoEffect DEF PostAcceptedUnnamed, Labels, localVars, TypeOK, WorkerTypes
  <2>3. LedgerEffect
    BY <1>11 DEF PostAcceptedUnnamed, LedgerEffect, InFlight, TypeOK, WorkerTypes
  <2> QED
    BY <1>11, <2>2, <2>3, QuietJobs, QuietLate, QuietRow DEF PostAcceptedUnnamed
<1>12. ASSUME NEW w \in Workers, PostDuplicate(w) PROVE Effects
  <2>1. WorkerEffect(w)
    BY <1>12 DEF PostDuplicate, WorkerEffect, Goto, TypeOK, WorkerTypes, localVars
  <2>2. \A v \in Workers : WorkerEffect(v)
    BY <1>12, <2>1, GotoEffect DEF PostDuplicate, Labels, localVars, TypeOK, WorkerTypes
  <2> QED
    BY <1>12, <2>2, QuietJobs, QuietLate, QuietRow, QuietLedger DEF PostDuplicate
<1>13. ASSUME NEW w \in Workers, PostRefused(w) PROVE Effects
  <2>1. WorkerEffect(w)
    BY <1>13 DEF PostRefused, WorkerEffect, Goto, TypeOK, WorkerTypes, localVars
  <2>2. \A v \in Workers : WorkerEffect(v)
    BY <1>13, <2>1, GotoEffect DEF PostRefused, Labels, localVars, TypeOK, WorkerTypes
  <2> QED
    BY <1>13, <2>2, QuietJobs, QuietLate, QuietRow, QuietLedger DEF PostRefused
<1>14. ASSUME NEW w \in Workers, PostUnknown(w) PROVE Effects
  <2>1. LateEffect
    BY <1>14 DEF PostUnknown, LateEffect, InFlight, TypeOK, WorkerTypes
  <2> QED
    BY <1>14, <2>1, LeaveEffect, JobEndEffect, QuietRow, QuietLedger DEF PostUnknown
<1>15. ASSUME NEW w \in Workers, Record(w) PROVE Effects
  <2>1. WorkerEffect(w)
    BY <1>15 DEF Record, WorkerEffect, Goto, TypeOK, WorkerTypes, localVars
  <2>2. \A v \in Workers : WorkerEffect(v)
    BY <1>15, <2>1, GotoEffect DEF Record, Labels, localVars, TypeOK, WorkerTypes
  <2>3. StoreEffect /\ \A i \in Invoices : RowEffect(i)
    BY <1>15 DEF Record, RowEffect, StoreEffect, RowMoves, Cas, Moved, TypeOK, DbTypes, WorkerTypes
  <2> QED
    BY <1>15, <2>2, <2>3, QuietJobs, QuietLate, QuietLedger DEF Record
<1>16. ASSUME NEW w \in Workers, DupFinds(w) PROVE Effects
  <2>1. WorkerEffect(w)
    BY <1>16 DEF DupFinds, WorkerEffect, Goto, TypeOK, WorkerTypes, localVars, Matches
  <2>2. \A v \in Workers : WorkerEffect(v)
    BY <1>16, <2>1, GotoEffect DEF DupFinds, Labels, localVars, TypeOK, WorkerTypes
  <2> QED
    BY <1>16, <2>2, QuietJobs, QuietLate, QuietRow, QuietLedger DEF DupFinds
<1>17. ASSUME NEW w \in Workers, DupFindsNone(w) PROVE Effects
  <2>1. WorkerEffect(w)
    BY <1>17 DEF DupFindsNone, WorkerEffect, Goto, TypeOK, WorkerTypes, localVars
  <2>2. \A v \in Workers : WorkerEffect(v)
    BY <1>17, <2>1, GotoEffect DEF DupFindsNone, Labels, localVars, TypeOK, WorkerTypes
  <2> QED
    BY <1>17, <2>2, QuietJobs, QuietLate, QuietRow, QuietLedger DEF DupFindsNone
<1>18. ASSUME NEW w \in Workers, DupGivesUp(w) PROVE Effects
  <2>1. WorkerEffect(w)
    BY <1>18 DEF DupGivesUp, WorkerEffect, Goto, TypeOK, WorkerTypes, localVars
  <2>2. \A v \in Workers : WorkerEffect(v)
    BY <1>18, <2>1, GotoEffect DEF DupGivesUp, Labels, localVars, TypeOK, WorkerTypes
  <2> QED
    BY <1>18, <2>2, QuietJobs, QuietLate, QuietRow, QuietLedger DEF DupGivesUp
<1>19. ASSUME NEW w \in Workers, Link(w) PROVE Effects
  <2>1. WorkerEffect(w)
    BY <1>19 DEF Link, WorkerEffect, Goto, TypeOK, WorkerTypes, localVars
  <2>2. \A v \in Workers : WorkerEffect(v)
    BY <1>19, <2>1, GotoEffect DEF Link, Labels, localVars, TypeOK, WorkerTypes
  <2>3. StoreEffect /\ \A i \in Invoices : RowEffect(i)
    BY <1>19 DEF Link, RowEffect, StoreEffect, RowMoves, Cas, Moved, TypeOK, DbTypes, WorkerTypes
  <2> QED
    BY <1>19, <2>2, <2>3, QuietJobs, QuietLate, QuietLedger DEF Link
<1>20. ASSUME NEW w \in Workers, Park(w) PROVE Effects
  <2>1. WorkerEffect(w)
    BY <1>20 DEF Park, WorkerEffect, Goto, TypeOK, WorkerTypes, localVars
  <2>2. \A v \in Workers : WorkerEffect(v)
    BY <1>20, <2>1, GotoEffect DEF Park, Labels, localVars, TypeOK, WorkerTypes
  <2>3. StoreEffect /\ \A i \in Invoices : RowEffect(i)
    BY <1>20 DEF Park, RowEffect, StoreEffect, RowMoves, Cas, Moved, TypeOK, DbTypes, WorkerTypes
  <2> QED
    BY <1>20, <2>2, <2>3, QuietJobs, QuietLate, QuietLedger DEF Park
<1>21. ASSUME NEW w \in Workers, Ack(w) PROVE Effects
  <2>1. LateEffect
    BY <1>21 DEF Ack, LateEffect, InFlight, TypeOK, WorkerTypes
  <2> QED
    BY <1>21, <2>1, LeaveEffect, JobEndEffect, QuietRow, QuietLedger DEF Ack
<1>22. ASSUME NEW w \in Workers, Fails(w) PROVE Effects
  <2>1. LateEffect
    BY <1>22 DEF Fails, LateEffect, InFlight, TypeOK, WorkerTypes
  <2> QED
    BY <1>22, <2>1, LeaveEffect, JobEndEffect, QuietRow, QuietLedger DEF Fails
<1>23. ASSUME NEW w \in Workers, Crash(w) PROVE Effects
  <2>1. LateEffect
    BY <1>23 DEF Crash, LateEffect, InFlight, TypeOK, WorkerTypes
  <2> QED
    BY <1>23, <2>1, LeaveEffect, JobEndEffect, QuietRow, QuietLedger DEF Crash
<1>24. ASSUME NEW w \in Workers, NEW k \in Jobs, Take(w, k) PROVE Effects
  <2>1. \A v \in Workers : WorkerEffect(v)
    BY <1>24 DEF Take, JobTaken, Goto, WorkerEffect, TypeOK, WorkerTypes
  <2>2. \A m \in Jobs : JobEffect(m)
    BY <1>24 DEF Take, JobTaken, JobEffect, NewJob, TypeOK, JobTypes
  <2> QED
    BY <1>24, <2>1, <2>2, QuietRow, QuietLedger, QuietLate DEF Take
<1>25. ASSUME NEW k \in Jobs, Stall(k) PROVE Effects
  <2>1. \A m \in Jobs : JobEffect(m)
    BY <1>25 DEF Stall, JobStalls, JobEffect, NewJob, TypeOK, JobTypes
  <2> QED
    BY <1>25, <2>1, QuietRow, QuietLedger, QuietLate, QuietWorkers DEF Stall
<1>26. ASSUME NEW k \in Jobs, Redeliver(k) PROVE Effects
  <2>1. \A m \in Jobs : JobEffect(m)
    BY <1>26 DEF Redeliver, JobAddedAgain, JobEffect, NewJob, TypeOK, JobTypes
  <2> QED
    BY <1>26, <2>1, QuietRow, QuietLedger, QuietLate, QuietWorkers DEF Redeliver
<1>27. ASSUME NEW i \in Invoices, LateArrives(i) PROVE Effects
  <2>1. LedgerEffect /\ LateEffect
    BY <1>27 DEF LateArrives, LedgerEffect, LateEffect, InFlight
  <2> QED
    BY <1>27, <2>1, QuietRow, QuietJobs, QuietWorkers DEF LateArrives
<1>28. ASSUME NEW i \in Invoices, Forget(i) PROVE Effects
  <2>1. LedgerEffect
    BY <1>28 DEF LedgerEffect
  <2> QED
    BY <1>28, <2>1, QuietRow, QuietJobs, QuietWorkers, QuietLate DEF Forget
<1>29. ASSUME NEW d \in HandDocs, EnterByHand(d) PROVE Effects
  <2>1. LedgerEffect
    BY <1>29 DEF LedgerEffect
  <2> QED
    BY <1>29, <2>1, QuietRow, QuietJobs, QuietWorkers, QuietLate DEF EnterByHand
<1>30. ASSUME NEW i \in Invoices, Reject(i) PROVE Effects
  <2>1. StoreEffect /\ \A j \in Invoices : RowEffect(j)
    BY <1>30 DEF Reject, RowEffect, StoreEffect, RowMoves, Moved, TypeOK, DbTypes
  <2> QED
    BY <1>30, <2>1, QuietJobs, QuietWorkers, QuietLedger, QuietLate DEF Reject
<1>31. ASSUME NEW i \in Invoices, Reextract(i) PROVE Effects
  <2>1. StoreEffect /\ \A j \in Invoices : RowEffect(j)
    BY <1>31 DEF Reextract, RowEffect, StoreEffect, RowMoves, Moved, TypeOK, DbTypes
  <2> QED
    BY <1>31, <2>1, QuietJobs, QuietWorkers, QuietLedger, QuietLate DEF Reextract
<1>32. ASSUME NEW i \in Invoices, Approve(i) PROVE Effects
  <2>1. StoreEffect /\ \A j \in Invoices : RowEffect(j)
    BY <1>32 DEF Approve, RowEffect, StoreEffect, RowMoves, Moved, TypeOK, DbTypes
  <2>2. \A m \in Jobs : JobEffect(m)
    <3>1. TAKE m \in Jobs
    <3>2. CASE m = <<i, approvals[i] + 1>>
      BY <1>32, <3>2 DEF Approve, JobEffect, TypeOK, DbTypes
    <3>3. CASE m # <<i, approvals[i] + 1>>
      BY <1>32, <3>3 DEF Approve, JobEffect, TypeOK, JobTypes
    <3> QED
      BY <3>2, <3>3
  <2> QED
    BY <1>32, <2>1, <2>2, QuietWorkers, QuietLedger, QuietLate DEF Approve
<1>33. CASE UNCHANGED vars
  <2>1. UNCHANGED <<dbVars, job, pc, localVars, ledgerVars, late, forgot>>
    BY <1>33 DEF vars
  <2> QED
    BY <2>1, QuietRow, QuietJobs, QuietWorkers, QuietLedger, QuietLate
<1> QED
  BY <1>1, <1>2, <1>3, <1>4, <1>5, <1>6, <1>7, <1>8, <1>9, <1>10, <1>11, <1>12, <1>13, <1>14,
     <1>15, <1>16, <1>17, <1>18, <1>19, <1>20, <1>21, <1>22, <1>23, <1>24, <1>25, <1>26,
     <1>27, <1>28, <1>29, <1>30, <1>31, <1>32, <1>33
     DEF Next, Progress

-----------------------------------------------------------------------------
(* The ledger's part of the invariant *)

\* A bill created from invoice i.
BillOf(i) == [id |-> nextId, owner |-> i, doc |-> docNumber[i]]

\* The four things a step can do to the ledger.
LEMMA LedgerCases ==
  ASSUME LedgerEffect
  PROVE  \/ UNCHANGED <<bills, nextId, memo, forgot>>
         \/ \E i \in Invoices :
               /\ InFlight(i) /\ memo[i] = NoBill /\ forgot' = forgot
               /\ bills' = bills \cup {BillOf(i)} /\ nextId' = nextId + 1
               /\ memo' = [memo EXCEPT ![i] = nextId]
         \/ \E i \in Invoices : Forget(i)
         \/ \E d \in HandDocs : EnterByHand(d)
BY DEF LedgerEffect, CommitBill, ledgerVars, BillOf

LEMMA LedgerConsistentStep ==
  ASSUME TypeOK, LedgerConsistent, LedgerEffect
  PROVE  LedgerConsistent'
<1> USE DEF LedgerConsistent, TypeOK, LedgerTypes, Bill, NoBill
<1>1. CASE UNCHANGED <<bills, nextId, memo, forgot>>
  BY <1>1
<1>2. ASSUME NEW i \in Invoices, bills' = bills \cup {BillOf(i)}, nextId' = nextId + 1
      PROVE  LedgerConsistent'
  BY <1>2, PostingConstants DEF BillOf
<1>3. ASSUME NEW i \in Invoices, Forget(i)
      PROVE  LedgerConsistent'
  BY <1>3 DEF Forget
<1>4. ASSUME NEW d \in HandDocs, EnterByHand(d)
      PROVE  LedgerConsistent'
  BY <1>4, PostingConstants DEF EnterByHand
<1> QED
  BY <1>1, <1>2, <1>3, <1>4, LedgerCases

LEMMA MemoConsistentStep ==
  ASSUME TypeOK, MemoConsistent, LedgerEffect
  PROVE  MemoConsistent'
<1> USE DEF MemoConsistent, TypeOK, LedgerTypes, Bill, NoBill, Owned
<1>1. CASE UNCHANGED <<bills, nextId, memo, forgot>>
  BY <1>1
<1>2. ASSUME NEW i \in Invoices, memo[i] = NoBill, forgot' = forgot,
             bills' = bills \cup {BillOf(i)}, memo' = [memo EXCEPT ![i] = nextId]
      PROVE  MemoConsistent'
  <2>1. TAKE j \in Invoices
  <2>2. CASE j = i
    <3>1. BillOf(i) \in Owned(i)' /\ BillOf(i).id = memo'[i]
      BY <1>2 DEF BillOf
    <3>2. ASSUME i \notin forgot', NEW b \in Owned(i)' PROVE b.id = memo'[i]
      <4>1. Owned(i) = {}
        BY <1>2, <3>2
      <4> QED
        BY <1>2, <3>2, <4>1 DEF BillOf
    <3> QED
      BY <2>2, <3>1, <3>2
  <2>3. CASE j # i
    BY <1>2, <2>3 DEF BillOf
  <2> QED
    BY <2>2, <2>3
<1>3. ASSUME NEW i \in Invoices, Forget(i)
      PROVE  MemoConsistent'
  BY <1>3 DEF Forget
<1>4. ASSUME NEW d \in HandDocs, EnterByHand(d)
      PROVE  MemoConsistent'
  BY <1>4, PostingConstants DEF EnterByHand, Forget
<1> QED
  BY <1>1, <1>2, <1>3, <1>4, LedgerCases

\* For an unambiguous invoice the recovery query finds the invoice's own bills.
LEMMA OracleIsExact ==
  ASSUME TypeOK, LedgerConsistent, NEW i \in Invoices, Unambiguous(i)
  PROVE  Matches(i) = Owned(i)
BY PostingConstants
   DEF TypeOK, LedgerTypes, Bill, LedgerConsistent, Unambiguous, Matches, Owned

\* A step adds bills and takes none away, and only an invoice with a POST on its way and
\* no remembered requestid gets a new one.
LEMMA OwnedGrows ==
  ASSUME TypeOK, LedgerEffect, NEW i \in Invoices
  PROVE  /\ bills \subseteq bills'
         /\ Owned(i)' = Owned(i) \/ (InFlight(i) /\ memo[i] = NoBill /\ memo'[i] # NoBill
                                      /\ Owned(i)' = Owned(i) \cup {BillOf(i)})
<1> USE DEF TypeOK, LedgerTypes, Bill, NoBill, Owned, BillOf
<1>1. CASE UNCHANGED <<bills, nextId, memo, forgot>>
  BY <1>1
<1>2. ASSUME NEW j \in Invoices, InFlight(j), memo[j] = NoBill,
             bills' = bills \cup {BillOf(j)}, memo' = [memo EXCEPT ![j] = nextId]
      PROVE  /\ bills \subseteq bills'
             /\ Owned(i)' = Owned(i) \/ (InFlight(i) /\ memo[i] = NoBill /\ memo'[i] # NoBill
                                      /\ Owned(i)' = Owned(i) \cup {BillOf(i)})
  BY <1>2
<1>3. ASSUME NEW j \in Invoices, Forget(j)
      PROVE  bills' = bills
  BY <1>3 DEF Forget
<1>4. ASSUME NEW d \in HandDocs, EnterByHand(d)
      PROVE  bills \subseteq bills' /\ Owned(i)' = Owned(i)
  BY <1>4, PostingConstants DEF EnterByHand
<1> QED
  BY <1>1, <1>2, <1>3, <1>4, LedgerCases

\* Approvals are only added.
LEMMA ApprovalsGrow ==
  ASSUME TypeOK, NEW i \in Invoices, RowEffect(i)
  PROVE  approvals'[i] \in {approvals[i], approvals[i] + 1} /\ approvals[i] \in Nat
BY PostingConstants DEF TypeOK, DbTypes, RowEffect

-----------------------------------------------------------------------------
(* The workers' part of the invariant *)

LEMMA JobsOfApprovalsStep ==
  ASSUME TypeOK, JobsOfApprovals, Effects
  PROVE  JobsOfApprovals'
<1> SUFFICES ASSUME NEW k \in Jobs, k[2] > approvals'[k[1]]
             PROVE  job'[k] = NewJob("absent", 0)
  BY DEF JobsOfApprovals, NewJob
<1>1. k[1] \in Invoices /\ k[2] \in Nat
  BY DEF Jobs, Approvals
<1>2. approvals[k[1]] <= approvals'[k[1]] /\ approvals[k[1]] \in Nat /\ approvals'[k[1]] \in Nat
  BY <1>1, ApprovalsGrow DEF Effects
<1>3. job[k] = NewJob("absent", 0)
  BY <1>1, <1>2 DEF JobsOfApprovals
<1> QED
  BY <1>1, <1>2, <1>3 DEF Effects, JobEffect

\* A worker comes to an invoice only by taking a job of an approval.
LEMMA TakenIsApproved ==
  ASSUME TypeOK, JobsOfApprovals, NEW w \in Workers, WorkerEffect(w), at'[w] # at[w],
         at'[w] # None
  PROVE  pc'[w] = "read" /\ at'[w] \in Invoices /\ approvals[at'[w]] > 0
<1>1. PICK k \in Jobs : job[k].state = "waiting" /\ at'[w] = k[1]
  BY DEF WorkerEffect
<1>2. k[1] \in Invoices /\ k[2] \in Nat /\ k[2] >= 1 /\ approvals[k[1]] \in Nat
  BY PostingConstants DEF Jobs, Approvals, TypeOK, DbTypes
<1>3. ~ (k[2] > approvals[k[1]])
  BY <1>1 DEF JobsOfApprovals, NewJob
<1> QED
  BY <1>1, <1>2, <1>3 DEF WorkerEffect

LEMMA UntouchedStep ==
  ASSUME TypeOK, JobsOfApprovals, UntouchedBeforeApproval, Effects
  PROVE  UntouchedBeforeApproval'
<1> SUFFICES ASSUME NEW i \in Invoices, approvals'[i] = 0
             PROVE  Owned(i)' = {} /\ i \notin late' /\ \A w \in Workers : at'[w] # i
  BY DEF UntouchedBeforeApproval, Owned
<1>1. approvals[i] = 0
  BY ApprovalsGrow DEF Effects
<1>2. Owned(i) = {} /\ i \notin late /\ \A w \in Workers : at[w] # i
  BY <1>1 DEF UntouchedBeforeApproval
<1>3. ~ InFlight(i)
  BY <1>2 DEF InFlight
<1>4. Owned(i)' = {} /\ i \notin late'
  BY <1>2, <1>3, OwnedGrows DEF Effects, LateEffect
<1>5. ASSUME NEW w \in Workers PROVE at'[w] # i
  BY <1>1, <1>2, TakenIsApproved, PostingConstants DEF Effects, WorkerEffect
<1> QED
  BY <1>4, <1>5

LEMMA NoBillBeforeClaimStep ==
  ASSUME TypeOK, PostingInv, Effects
  PROVE  NoBillBeforeClaim'
<1> SUFFICES ASSUME NEW i \in Invoices,
                    approvals'[i] = 0 \/ (approvals'[i] = 1 /\ row'[i].status = "approved")
             PROVE  /\ Owned(i)' = {} /\ i \notin late'
                    /\ \A w \in Workers : at'[w] = i => pc'[w] \in {"read", "claim", "ack"}
  BY DEF NoBillBeforeClaim, Owned
<1>1. UntouchedBeforeApproval'
  BY UntouchedStep DEF PostingInv
<1>2. CASE approvals'[i] = 0
  BY <1>1, <1>2 DEF UntouchedBeforeApproval, Owned
<1>3. CASE approvals'[i] = 1 /\ row'[i].status = "approved"
  <2>1. approvals[i] = 0 \/ (approvals[i] = 1 /\ row[i].status = "approved")
    <3>1. RowEffect(i) /\ approvals[i] \in Nat
      BY ApprovalsGrow DEF Effects
    <3> QED
      BY <1>3, <3>1 DEF RowEffect, RowMoves
  <2>2. /\ Owned(i) = {} /\ i \notin late
        /\ \A w \in Workers : at[w] = i => pc[w] \in {"read", "claim", "ack"}
    BY <2>1 DEF PostingInv, NoBillBeforeClaim
  <2>3. ~ InFlight(i)
    BY <2>2 DEF InFlight
  <2>4. Owned(i)' = {} /\ i \notin late'
    BY <2>2, <2>3, OwnedGrows DEF Effects, LateEffect
  <2>5. ASSUME NEW w \in Workers, at'[w] = i PROVE pc'[w] \in {"read", "claim", "ack"}
    <3>1. CASE at[w] # i
      <4>1. i # None
        BY PostingConstants
      <4> QED
        BY <2>5, <3>1, <4>1, TakenIsApproved DEF Effects, PostingInv
    <3>2. CASE at[w] = i
      <4>1. row[i].status # "posting" /\ row'[i].status # "posting"
        <5>1. approvals[i] = 1 => row[i].status = "approved"
          BY <2>1
        <5>2. approvals[i] # 0
          BY <3>2 DEF PostingInv, UntouchedBeforeApproval
        <5> QED
          BY <1>3, <2>1, <5>1, <5>2
      <4>2. i # None
        BY PostingConstants
      <4>3. WorkerEffect(w)
        BY DEF Effects
      <4> QED
        BY <2>2, <2>5, <3>2, <4>1, <4>2, <4>3 DEF WorkerEffect
    <3> QED
      BY <3>1, <3>2
  <2> QED
    BY <2>4, <2>5
<1> QED
  BY <1>2, <1>3

\* An invoice that is safe after a step was safe before it.
LEMMA SafeBefore ==
  ASSUME TypeOK, Effects, NEW i \in Invoices, Safe(i)'
  PROVE  Safe(i)
<1>1. approvals[i] <= 1
  BY ApprovalsGrow DEF Effects, Safe
<1>2. bills \subseteq bills'
  BY OwnedGrows DEF Effects
<1> QED
  BY <1>1, <1>2 DEF Safe, Unambiguous, Matches

LEMMA OneSafeBillStep ==
  ASSUME TypeOK, PostingInv, Effects
  PROVE  OneSafeBill'
<1> SUFFICES ASSUME NEW i \in Invoices, Safe(i)', NEW b \in Owned(i)', NEW c \in Owned(i)'
             PROVE  b = c
  BY DEF OneSafeBill
<1>1. Safe(i)
  BY SafeBefore
<1>2. CASE Owned(i)' = Owned(i)
  BY <1>1, <1>2 DEF PostingInv, OneSafeBill
<1>3. CASE InFlight(i) /\ memo[i] = NoBill /\ Owned(i)' = Owned(i) \cup {BillOf(i)}
  <2>1. Owned(i) = {}
    BY <1>1, <1>3 DEF PostingInv, NoBlindPost, InFlight
  <2> QED
    BY <1>3, <2>1
<1> QED
  BY <1>2, <1>3, OwnedGrows DEF Effects

LEMMA NoBlindPostStep ==
  ASSUME TypeOK, PostingInv, Effects
  PROVE  NoBlindPost'
<1> SUFFICES ASSUME NEW i \in Invoices, Safe(i)', memo'[i] = NoBill, Owned(i)' # {}
             PROVE  /\ i \notin late'
                    /\ \A w \in Workers : at'[w] = i => pc'[w] \notin {"reread", "build", "await"}
  BY DEF NoBlindPost
<1>1. Safe(i) /\ i # None
  BY SafeBefore, PostingConstants
<1>2. Owned(i) # {}
  BY OwnedGrows DEF Effects
<1>3. CASE memo[i] = NoBill
  <2>1. /\ i \notin late
        /\ \A w \in Workers : at[w] = i => pc[w] \notin {"reread", "build", "await"}
    BY <1>1, <1>2, <1>3 DEF PostingInv, NoBlindPost
  <2>2. i \notin late'
    BY <2>1 DEF Effects, LateEffect, InFlight
  <2>3. ASSUME NEW w \in Workers, at'[w] = i PROVE pc'[w] \notin {"reread", "build", "await"}
    <3>1. CASE at[w] # i
      BY <1>1, <2>3, <3>1, TakenIsApproved DEF Effects, PostingInv
    <3>2. CASE at[w] = i
      <4>1. PICK b \in bills : Matches(i) = {b}
        <5>1. Matches(i) = Owned(i)
          BY <1>1, OracleIsExact DEF PostingInv, Safe
        <5>2. PICK b \in Owned(i) : Owned(i) = {b}
          BY <1>1, <1>2 DEF PostingInv, OneSafeBill
        <5> QED
          BY <5>1, <5>2 DEF Owned
      <4>2. row[i].status # "approved"
        <5>1. approvals[i] <= 1 /\ approvals[i] \in Nat
          BY <1>1 DEF Safe, TypeOK, DbTypes
        <5> QED
          BY <1>2, <5>1 DEF PostingInv, NoBillBeforeClaim
      <4>3. WorkerEffect(w)
        BY DEF Effects
      <4> QED
        BY <1>1, <2>1, <2>3, <3>2, <4>1, <4>2, <4>3 DEF WorkerEffect
    <3> QED
      BY <3>1, <3>2
  <2> QED
    BY <2>2, <2>3
<1>4. CASE memo[i] # NoBill
  <2>1. Forget(i)
    BY <1>4, LedgerCases DEF Effects, EnterByHand, Forget, NoBill, TypeOK, LedgerTypes
  <2>2. UNCHANGED <<late, pc, at>> /\ i \notin late /\ \A w \in Workers : at[w] # i
    BY <2>1 DEF Forget, localVars
  <2> QED
    BY <2>2
<1> QED
  BY <1>3, <1>4

LEMMA FoundIsRealStep ==
  ASSUME TypeOK, PostingInv, Effects
  PROVE  FoundIsReal'
<1> SUFFICES ASSUME NEW w \in Workers
             PROVE  /\ pc'[w] = "record" => \E b \in Owned(at[w])' : b.id = found'[w]
                    /\ pc'[w] = "link" => \E b \in Matches(at[w])' : b.id = found'[w]
  BY DEF FoundIsReal, Owned, Matches
<1>1. WorkerEffect(w) /\ bills \subseteq bills'
  <2>1. bills \subseteq bills'
    BY LedgerCases DEF Effects, Forget, EnterByHand
  <2> QED
    BY <2>1 DEF Effects
<1>2. ASSUME pc'[w] = pc[w], at'[w] = at[w], found'[w] = found[w]
      PROVE  /\ pc'[w] = "record" => \E b \in Owned(at[w])' : b.id = found'[w]
             /\ pc'[w] = "link" => \E b \in Matches(at[w])' : b.id = found'[w]
  BY <1>1, <1>2 DEF PostingInv, FoundIsReal, Owned, Matches
<1>3. ASSUME pc'[w] = "record", pc[w] = "await", at'[w] = at[w],
             CommitBill(at[w]), found'[w] = memo'[at[w]]
      PROVE  \E b \in Owned(at[w])' : b.id = found'[w]
  <2>1. at[w] \in Invoices
    BY <1>3 DEF TypeOK, WorkerTypes
  <2>2. CASE memo[at[w]] # NoBill
    BY <1>3, <2>1, <2>2 DEF CommitBill, ledgerVars, PostingInv, MemoConsistent, Owned
  <2>3. CASE memo[at[w]] = NoBill
    <3>1. BillOf(at[w]) \in bills' /\ memo'[at[w]] = nextId
      BY <1>3, <2>1, <2>3 DEF CommitBill, BillOf, TypeOK, LedgerTypes
    <3> QED
      BY <1>3, <3>1 DEF BillOf, Owned
  <2> QED
    BY <2>2, <2>3
<1>4. ASSUME pc'[w] = "link", at'[w] = at[w], \E b \in Matches(at[w]) : b.id = found'[w]
      PROVE  \E b \in Matches(at[w])' : b.id = found'[w]
  BY <1>1, <1>4 DEF Matches
<1>5. CASE pc'[w] = "record"
  BY <1>1, <1>2, <1>3, <1>5 DEF WorkerEffect
<1>6. CASE pc'[w] = "link"
  BY <1>1, <1>2, <1>4, <1>6 DEF WorkerEffect
<1> QED
  BY <1>5, <1>6

LEMMA RowsNameBillsStep ==
  ASSUME TypeOK, PostingInv, Effects
  PROVE  RowsNameBills'
<1> DEFINE Named(i) == \E b \in bills :
                         /\ b.id = row[i].bill
                         /\ b.owner = i \/ (outbox[i].posted = 0 /\ b.doc = docNumber[i] /\ b.doc # None)
           Nothing(i) == row[i].bill = NoBill /\ outbox[i].posted = 0
<1> SUFFICES ASSUME NEW i \in Invoices
             PROVE  /\ row'[i].status = "posted" => Named(i)'
                    /\ row'[i].status # "posted" => Nothing(i)'
  BY DEF RowsNameBills, PostedLinksOwnBill
<1>1. bills \subseteq bills'
  BY LedgerCases DEF Effects, Forget, EnterByHand
<1>2. /\ row[i].status = "posted" => Named(i)
      /\ row[i].status # "posted" => Nothing(i)
  BY DEF PostingInv, RowsNameBills, PostedLinksOwnBill
<1>3. outbox[i] \in [posted : Nat, failed : Nat]
  BY DEF TypeOK, DbTypes
<1>4. CASE row'[i] = row[i] /\ outbox'[i] = outbox[i]
  BY <1>1, <1>2, <1>4
<1>5. CASE /\ row'[i].status # "posted" /\ row[i].status # "posted" /\ row'[i].bill = row[i].bill
           /\ outbox'[i].posted = outbox[i].posted
  BY <1>2, <1>5
<1>6. ASSUME row'[i].status = "posted", NEW w \in Workers, at[w] = i, row'[i].bill = found[w],
             pc[w] = "record"
      PROVE  Named(i)'
  BY <1>1, <1>6 DEF PostingInv, FoundIsReal, Owned
<1>7. ASSUME row[i].status # "posted", row'[i].status = "posted", NEW w \in Workers, at[w] = i,
             row'[i].bill = found[w], pc[w] = "link", outbox'[i] = outbox[i]
      PROVE  Named(i)'
  BY <1>1, <1>2, <1>7 DEF PostingInv, FoundIsReal, Matches
<1> HIDE DEF Named, Nothing
<1>8. RowEffect(i)
  BY DEF Effects
<1> QED
  BY <1>3, <1>4, <1>5, <1>6, <1>7, <1>8 DEF RowEffect, RowMoves

-----------------------------------------------------------------------------
(* The invariant and what it shows *)

LEMMA InvInit == Init => PostingInv
<1> SUFFICES ASSUME Init PROVE PostingInv
  OBVIOUS
<1>1. JobsOfApprovals
  <2>1. \A k \in Jobs : k[1] \in Invoices /\ k[2] \in Nat
    BY DEF Jobs, Approvals
  <2> QED
    BY <2>1 DEF Init, JobsOfApprovals
<1>2. bills = {} /\ late = {} /\ \A i \in Invoices : Owned(i) = {}
  BY DEF Init, Owned
<1>3. \A w \in Workers : at[w] = None /\ pc[w] = "idle"
  BY DEF Init
<1>4. \A i \in Invoices : i # None /\ memo[i] = NoBill /\ row[i].status = "needs_review"
                          /\ row[i].bill = NoBill /\ outbox[i].posted = 0
  BY PostingConstants DEF Init
<1> QED
  BY <1>1, <1>2, <1>3, <1>4
     DEF PostingInv, UntouchedBeforeApproval, NoBillBeforeClaim, LedgerConsistent,
         MemoConsistent, NoBlindPost, OneSafeBill, FoundIsReal, RowsNameBills, PostedLinksOwnBill

LEMMA InvNext ==
  ASSUME TypeOK, PostingInv, [Next]_vars
  PROVE  PostingInv'
<1>1. Effects
  BY StepEffects
<1>2. JobsOfApprovals' /\ UntouchedBeforeApproval'
  BY <1>1, JobsOfApprovalsStep, UntouchedStep DEF PostingInv
<1>3. LedgerConsistent' /\ MemoConsistent'
  BY <1>1, LedgerConsistentStep, MemoConsistentStep DEF PostingInv, Effects
<1>4. NoBillBeforeClaim' /\ NoBlindPost' /\ OneSafeBill' /\ FoundIsReal' /\ RowsNameBills'
  BY <1>1, NoBillBeforeClaimStep, NoBlindPostStep, OneSafeBillStep, FoundIsRealStep,
     RowsNameBillsStep
<1> QED
  BY <1>2, <1>3, <1>4 DEF PostingInv

\* The inductive invariant holds of every behaviour.
THEOREM Invariant == Spec => [](TypeOK /\ PostingInv)
<1>1. Init => TypeOK /\ PostingInv
  BY TypeInit, InvInit
<1>2. TypeOK /\ PostingInv /\ [Next]_vars => (TypeOK /\ PostingInv)'
  BY TypeNext, InvNext
<1> QED
  BY <1>1, <1>2, PTL DEF Spec

\* An invoice becomes at most one bill, under every interleaving of workers, crashes,
\* stalls, redeliveries and late POSTs, while its requestid is remembered; and beyond
\* that if its DocNumber is unambiguous and it was approved once.
THEOREM NoDuplicates == Spec => []OneBillPerInvoice
<1>1. TypeOK /\ PostingInv => OneBillPerInvoice
  <2> SUFFICES ASSUME TypeOK, PostingInv, NEW i \in Invoices, i \notin forgot \/ Safe(i)
               PROVE  Cardinality(Owned(i)) <= 1
    BY DEF OneBillPerInvoice
  <2>1. \A b, c \in Owned(i) : b = c
    BY DEF PostingInv, MemoConsistent, LedgerConsistent, OneSafeBill, Owned
  <2>2. CASE Owned(i) = {}
    BY <2>2, FS_EmptySet
  <2>3. CASE Owned(i) # {}
    <3>1. PICK b \in Owned(i) : Owned(i) = {b}
      BY <2>1, <2>3
    <3> QED
      <4>1. Cardinality({b}) = 1
        BY FS_Singleton
      <4> QED
        BY <3>1, <4>1
  <2> QED
    BY <2>2, <2>3
<1> QED
  BY <1>1, Invariant, PTL

\* A posted invoice names a bill created from it, or was linked without an announcement to
\* one that carries its DocNumber.
THEOREM LinksAreOwn == Spec => []PostedLinksOwnBill
<1>1. PostingInv => PostedLinksOwnBill
  BY DEF PostingInv, RowsNameBills
<1> QED
  BY <1>1, Invariant, PTL

\* Nothing of an invoice reaches QuickBooks before guard 1 claimed its first approval.
THEOREM ClaimComesFirst == Spec => []NoBillBeforeClaim
<1>1. PostingInv => NoBillBeforeClaim
  BY DEF PostingInv
<1> QED
  BY <1>1, Invariant, PTL

\* A posted row is final.
THEOREM PostedStays == Spec => PostedIsFinal
<1>1. ASSUME TypeOK, [Next]_vars, NEW i \in Invoices, row[i].status = "posted"
      PROVE  row'[i] = row[i]
  <2>1. RowEffect(i)
    BY <1>1, StepEffects DEF Effects
  <2> QED
    BY <1>1, <2>1 DEF RowEffect, RowMoves
<1>2. TypeOK /\ [Next]_vars =>
        [\A i \in Invoices : row[i].status = "posted" => row'[i] = row[i]]_vars
  BY <1>1
<1> QED
  BY <1>2, TypeCorrect, PTL DEF Spec, PostedIsFinal

-----------------------------------------------------------------------------
(* Events *)

LEMMA EventsStep ==
  ASSUME TypeOK, EventsMatchOutcome, [Next]_vars
  PROVE  EventsMatchOutcome'
<1> SUFFICES ASSUME NEW i \in Invoices
             PROVE  /\ outbox'[i].posted <= 1
                    /\ outbox'[i].posted > 0 => row'[i].status = "posted"
                    /\ outbox'[i].failed <= approvals'[i]
                    /\ row'[i].status \in {"failed", "needs_review", "pending_approval"} =>
                         outbox'[i].failed = approvals'[i]
                    /\ row'[i].status \in {"approved", "posting", "posted"} =>
                         outbox'[i].failed + 1 = approvals'[i]
  BY DEF EventsMatchOutcome
<1>1. RowEffect(i)
  BY StepEffects DEF Effects
<1>2. /\ outbox[i] \in [posted : Nat, failed : Nat] /\ approvals[i] \in Nat
      /\ row[i].status \in InvoiceStatuses
  BY PostingConstants DEF TypeOK, DbTypes
<1>3. /\ outbox[i].posted <= 1
      /\ outbox[i].posted > 0 => row[i].status = "posted"
      /\ outbox[i].failed <= approvals[i]
      /\ row[i].status \in {"failed", "needs_review", "pending_approval"} => outbox[i].failed = approvals[i]
      /\ row[i].status \in {"approved", "posting", "posted"} =>
           outbox[i].failed + 1 = approvals[i]
  BY DEF EventsMatchOutcome
<1>4. CASE outbox'[i] = outbox[i] /\ approvals'[i] = approvals[i]
           /\ \/ row'[i] = row[i]
              \/ RowMoves(i, {"approved"}, "posting")
              \/ RowMoves(i, {"failed"}, "needs_review")
              \/ RowMoves(i, InvoiceStatuses \ {"posting", "posted"}, "rejected")
  BY <1>2, <1>3, <1>4 DEF RowMoves
<1>5. CASE RowMoves(i, {"needs_review", "pending_approval"}, "approved")
           /\ approvals'[i] = approvals[i] + 1 /\ outbox'[i] = outbox[i]
  BY <1>2, <1>3, <1>5 DEF RowMoves
<1>6. CASE RowMoves(i, {"posting"}, "failed") /\ approvals'[i] = approvals[i]
           /\ outbox'[i] = [outbox[i] EXCEPT !.failed = @ + 1]
  BY <1>2, <1>3, <1>6 DEF RowMoves
<1>7. CASE /\ row[i].status = "posting" /\ row'[i].status = "posted"
           /\ approvals'[i] = approvals[i]
           /\ \/ outbox'[i] = [outbox[i] EXCEPT !.posted = @ + 1]
              \/ outbox'[i] = outbox[i]
  BY <1>2, <1>3, <1>7
<1> QED
  BY <1>1, <1>4, <1>5, <1>6, <1>7 DEF RowEffect

\* Every approval that ended parked announced it exactly once; posted is announced at
\* most once, and only of a posted row.
THEOREM EventsTell == Spec => []EventsMatchOutcome
<1>1. Init => EventsMatchOutcome
  BY DEF Init, EventsMatchOutcome
<1>2. TypeOK /\ EventsMatchOutcome /\ [Next]_vars => EventsMatchOutcome'
  BY EventsStep
<1> QED
  BY <1>1, <1>2, TypeCorrect, PTL DEF Spec

-----------------------------------------------------------------------------
(* Refinement *)

\* Under the mapping, a step of Posting is a step of PostOnce or changes nothing.
LEMMA PromiseStep ==
  ASSUME TypeOK, PostingInv, TypeOK', PostingInv', [Next]_vars, \A i \in Invoices : Safe(i)
  PROVE  [Promise!Next]_<<[i \in Invoices |-> {b.id : b \in Owned(i)}],
                          [i \in Invoices |-> row[i].bill]>>
<1> DEFINE L == [i \in Invoices |-> {b.id : b \in Owned(i)}]
           R == [i \in Invoices |-> row[i].bill]
<1>1. Effects
  BY StepEffects
<1>2. \A i \in Invoices : Safe(i)
  OBVIOUS
<1>3. ASSUME NEW i \in Invoices, R'[i] # R[i]
      PROVE  R[i] = NoBill /\ R'[i] \in L'[i] /\ R'[i] \in L[i]
  <2>1. row[i].status # "posted" /\ row'[i].status = "posted"
    BY <1>1, <1>3 DEF Effects, RowEffect, RowMoves
  <2>2. PICK w \in Workers : at[w] = i /\ pc[w] \in {"record", "link"} /\ row'[i].bill = found[w]
    <3>1. RowEffect(i)
      BY <1>1 DEF Effects
    <3> QED
      BY <2>1, <3>1 DEF RowEffect, RowMoves
  <2>3. Matches(i) = Owned(i)
    BY <1>2, OracleIsExact DEF PostingInv, Safe
  <2>4. PICK b \in Owned(i) : b.id = row'[i].bill
    BY <2>2, <2>3 DEF PostingInv, FoundIsReal
  <2>5. b \in Owned(i)'
    BY OwnedGrows, <1>1 DEF Effects
  <2> QED
    BY <2>1, <2>4, <2>5 DEF PostingInv, RowsNameBills
<1>4. ASSUME NEW i \in Invoices, L'[i] # L[i]
      PROVE  L[i] = {} /\ L'[i] = {nextId} /\ BillOf(i) \in bills'
  <2>1. InFlight(i) /\ memo[i] = NoBill /\ Owned(i)' = Owned(i) \cup {BillOf(i)}
    BY <1>1, <1>4, OwnedGrows DEF Effects
  <2>2. Owned(i) = {}
    BY <1>2, <2>1 DEF PostingInv, NoBlindPost, InFlight
  <2>3. Owned(i)' = {BillOf(i)} /\ BillOf(i).id = nextId
    BY <2>1, <2>2 DEF BillOf
  <2>4. L'[i] = {b.id : b \in {BillOf(i)}}
    BY <2>3
  <2> QED
    BY <2>2, <2>3, <2>4 DEF Owned
<1>5. CASE UNCHANGED row
  <2>1. R' = R
    BY <1>5
  <2>2. CASE L' = L
    BY <2>1, <2>2
  <2>3. CASE L' # L
    <3>1. PICK i \in Invoices : L'[i] # L[i]
      BY <2>3
    <3>2. \A j \in Invoices \ {i} : L'[j] = L[j]
      <4>1. ASSUME NEW j \in Invoices, L'[j] # L[j] PROVE j = i
        <5>1. BillOf(i) \in bills' /\ BillOf(j) \in bills' /\ BillOf(i).id = BillOf(j).id
          BY <1>4, <3>1, <4>1 DEF BillOf
        <5>2. BillOf(i) = BillOf(j)
          BY <5>1 DEF PostingInv, LedgerConsistent
        <5> QED
          BY <5>2 DEF BillOf
      <4> QED
        BY <4>1
    <3>3. L' = [L EXCEPT ![i] = {nextId}] /\ L[i] = {} /\ nextId \in L'[i]
      BY <1>4, <3>1, <3>2
    <3>4. Promise!Create(i)
      BY <2>1, <3>3 DEF Promise!Create
    <3> QED
      BY <3>4 DEF Promise!Next
  <2> QED
    BY <2>2, <2>3
<1>6. CASE UNCHANGED ledgerVars /\ \E i \in Invoices : \A j \in Invoices \ {i} : row'[j] = row[j]
  <2>1. L' = L
    BY <1>6 DEF ledgerVars, Owned
  <2>2. PICK i \in Invoices : \A j \in Invoices \ {i} : R'[j] = R[j]
    BY <1>6
  <2>3. CASE R'[i] = R[i]
    <3>1. R' = R
      BY <2>2, <2>3
    <3> QED
      BY <2>1, <3>1
  <2>4. CASE R'[i] # R[i]
    <3>1. R' = [R EXCEPT ![i] = R'[i]] /\ R[i] = 0 /\ R'[i] \in L[i]
      BY <1>3, <2>2, <2>4 DEF NoBill
    <3>2. Promise!Link(i)
      BY <2>1, <3>1 DEF Promise!Link
    <3> QED
      BY <3>2 DEF Promise!Next
  <2> QED
    BY <2>3, <2>4
<1> QED
  BY <1>1, <1>5, <1>6 DEF Effects, StoreEffect

\* The numbers alone tell the invoices apart, and people use others.
UniqueNumbers ==
  \A i \in Invoices : /\ docNumber[i] \in DocNumbers \ HandDocs
                      /\ \A j \in Invoices \ {i} : docNumber[j] # docNumber[i]

\* If DocNumbers are unique and every invoice is approved at most once, posting implements
\* the promise: at most one bill each, linked for good to its own.
THEOREM KeepsPromise ==
  ASSUME MaxApprovals = 1, UniqueNumbers
  PROVE  Spec => PostOnceSpec
<1>1. ASSUME TypeOK, PostingInv, NEW i \in Invoices PROVE Safe(i)
  <2>1. approvals[i] <= 1
    BY <1>1 DEF TypeOK, DbTypes
  <2>2. docNumber[i] # None
    BY PostingConstants DEF UniqueNumbers
  <2>3. ASSUME NEW b \in Matches(i) PROVE b.owner = i
    <3>1. b \in bills /\ b.doc = docNumber[i] /\ b.owner \in Invoices \cup {None}
      BY <1>1, <2>3 DEF Matches, TypeOK, LedgerTypes, Bill
    <3>2. b.owner # None
      BY <1>1, <3>1 DEF PostingInv, LedgerConsistent, UniqueNumbers
    <3>3. docNumber[b.owner] = docNumber[i] /\ b.owner \in Invoices
      BY <1>1, <3>1, <3>2 DEF PostingInv, LedgerConsistent
    <3> QED
      BY <3>3 DEF UniqueNumbers
  <2> QED
    BY <2>1, <2>2, <2>3 DEF Safe, Unambiguous
<1>2. Init => Promise!Init
  BY DEF Init, Promise!Init, Owned, NoBill
<1>3. /\ TypeOK /\ PostingInv /\ (TypeOK /\ PostingInv)' /\ [Next]_vars
      => [Promise!Next]_<<[i \in Invoices |-> {b.id : b \in Owned(i)}],
                          [i \in Invoices |-> row[i].bill]>>
  <2>1. TypeOK /\ PostingInv => \A i \in Invoices : Safe(i)
    BY <1>1
  <2> QED
    BY <2>1, PromiseStep
<1> QED
  BY <1>2, <1>3, Invariant, PTL DEF Spec, PostOnceSpec, Promise!Spec
=============================================================================
