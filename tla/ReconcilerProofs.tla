-------------------------- MODULE ReconcilerProofs --------------------------
(***************************************************************************)
(* Theorems about Reconciler, for any invoices, companies, pages and       *)
(* numbers of edits.                                                       *)
(*                                                                         *)
(* A suspect of the second look is a posted invoice of the realm that is   *)
(* asked for it, so the bill that is asked for is its own; and what is     *)
(* reported missing stays so, since a posted row keeps its bill and a      *)
(* deleted bill does not come back.  What a run records of an untouched    *)
(* invoice is true because what it has told of each company it is done     *)
(* with, and of the local checks, is true at every step before.            *)
(***************************************************************************)
EXTENDS Reconciler, FiniteSetTheorems, TLAPS

\* The invoices and the bills.
WorldOK ==
  /\ rows \in [Rows -> Row] /\ bills \in [Bills -> Bill \cup {None, Gone}]
  /\ \A r \in Rows : rows[r].status = "posted" => rows[r].bill # None
  /\ \A r \in Rows : rows[r].bill # None => BillOf(r) \in Bills /\ bills[BillOf(r)] # None

\* The run.
RunOK ==
  /\ run \in Run
  /\ run.todo \subseteq run.targets
  /\ run.at \in InRealm => run.realm \in run.targets \ run.todo
  /\ run.seen \subseteq DOMAIN run.remote
  /\ run.suspects \subseteq IF run.at = "recheck" THEN Posted(run.realm) ELSE {}

\* What was reported and recorded, and the changes beside the run.
ReportOK ==
  /\ breaks \subseteq Break /\ reports \subseteq [targets : SUBSET Realms, breaks : SUBSET Break]
  /\ aborted \in BOOLEAN /\ edits \in 0 .. MaxEdits /\ touched \subseteq Rows

\* The type invariant, in three parts.
LEMMA TypeParts == TypeOK <=> WorldOK /\ RunOK /\ ReportOK
BY DEF TypeOK, WorldOK, RunOK, ReportOK

\* The three parts of the next state make its types.
LEMMA TypesKept == ASSUME WorldOK', RunOK', ReportOK' PROVE TypeOK'
BY DEF TypeOK, WorldOK, RunOK, ReportOK

\* What is reported missing has a bill, and that is gone.
MissingHadBill ==
  \A r \in Rows : <<"missing", r>> \in breaks \cup run.found =>
    rows[r].bill # None /\ bills[BillOf(r)] = Gone

ReconcilerInv == TypeOK /\ MissingHadBill

-----------------------------------------------------------------------------

\* A run that is idle is a run.
LEMMA IdleTypes == Idle \in Run /\ DOMAIN Idle.remote = {}
<1>1. << >> \in [{} -> Bill] /\ DOMAIN << >> = {}
  OBVIOUS
<1>2. << >> \in UNION {[I -> Bill] : I \in SUBSET Ids}
  BY <1>1
<1> QED
  BY <1>1, <1>2 DEF Idle, Run, InRealm

\* An idle run fits whatever the rows are.
LEMMA IdleOK == ASSUME run = Idle PROVE RunOK /\ run.found = {}
<1>1. run \in Run /\ run.at = "idle" /\ run.found = {} /\ run.seen = {} /\ run.suspects = {}
      /\ run.todo = {} /\ run.targets = {}
  BY IdleTypes DEF Idle
<1> QED
  BY <1>1 DEF RunOK, InRealm

\* The initial state is well typed, and nothing is reported.
LEMMA InitEstablishes == Init => ReconcilerInv
<1> SUFFICES ASSUME Init PROVE ReconcilerInv
  OBVIOUS
<1>1. rows \in [Rows -> Row] /\ bills \in [Bills -> Bill \cup {None, Gone}]
  BY DEF Init
<1>2. \A r \in Rows : rows[r].status = "posted" <=> rows[r].bill # None
  BY <1>1 DEF Init, Row
<1>3. \A r \in Rows : rows[r].bill # None => BillOf(r) \in Bills /\ bills[BillOf(r)] # None
  <2> SUFFICES ASSUME NEW r \in Rows, rows[r].bill # None
               PROVE  BillOf(r) \in Bills /\ bills[BillOf(r)] # None
    OBVIOUS
  <2>1. BillOf(r) \in Bills /\ rows[r].status = "posted"
    BY <1>2 DEF Init
  <2> QED
    BY <2>1 DEF Init
<1>4. WorldOK
  BY <1>1, <1>2, <1>3 DEF WorldOK
<1>5. RunOK /\ run.found = {}
  BY IdleOK DEF Init
<1>6. ReportOK /\ breaks = {}
  <2>1. breaks = {} /\ reports = {} /\ edits = 0 /\ touched = {} /\ aborted \in BOOLEAN
    BY DEF Init
  <2>2. 0 \in 0 .. MaxEdits
    BY ReconcilerConstants
  <2> QED
    BY <2>1, <2>2 DEF ReportOK
<1> QED
  BY <1>4, <1>5, <1>6, TypeParts DEF ReconcilerInv, MissingHadBill

-----------------------------------------------------------------------------
(* Steps of the run leave the world alone *)

\* The invoices and the bills are as they were.
LEMMA SameWorld ==
  ASSUME WorldOK, UNCHANGED world
  PROVE  WorldOK'
BY DEF WorldOK, world, BillOf

\* With no new report of a missing bill, and the world unchanged, the old ones stand.
LEMMA StillMissing ==
  ASSUME MissingHadBill, UNCHANGED world,
         \A r \in Rows : <<"missing", r>> \in (breaks \cup run.found)' =>
           \/ <<"missing", r>> \in breaks \cup run.found
           \/ rows[r].bill # None /\ bills[BillOf(r)] = Gone
  PROVE  MissingHadBill'
BY DEF MissingHadBill, world, BillOf

\* The run leaves a realm, or ends: its locals are as at the start.
LEMMA LeaveOK ==
  ASSUME RunOK, \/ run' = Leave \/ run' = Idle
  PROVE  RunOK' /\ run'.found = {}
<1>1. CASE run' = Leave
  <2>1. /\ run' \in Run /\ run'.at = "next" /\ run'.suspects = {} /\ run'.found = {}
        /\ run'.seen = {} /\ run'.todo = run.todo /\ run'.targets = run.targets
    BY <1>1, IdleTypes DEF RunOK, Leave, Idle, Run
  <2> QED
    BY <2>1 DEF RunOK, InRealm
<1>2. CASE run' = Idle
  <2>1. /\ run' \in Run /\ run'.at = "idle" /\ run'.found = {} /\ run'.seen = {}
        /\ run'.suspects = {} /\ run'.todo = {} /\ run'.targets = {}
    BY <1>2, IdleTypes DEF Idle
  <2> QED
    BY <2>1 DEF RunOK, InRealm
<1> QED
  BY <1>1, <1>2

\* The run moves on outside of a realm.
LEMMA MoveOn ==
  ASSUME RunOK, NEW l \in {"stalled", "duplicates", "list", "persist"}, run.at # "recheck",
         run' = [run EXCEPT !.at = l]
  PROVE  RunOK' /\ run'.found = run.found
<1>1. /\ run' \in Run /\ run'.at = l /\ run'.suspects = run.suspects /\ run'.found = run.found
      /\ run'.seen = run.seen /\ run'.remote = run.remote
      /\ run'.todo = run.todo /\ run'.targets = run.targets
  BY DEF RunOK, Run
<1> QED
  BY <1>1 DEF RunOK, InRealm

\* The local checks report nothing missing.
LEMMA LocalChecks ==
  ASSUME ReconcilerInv, Begin \/ FindStalled \/ FindDuplicates
  PROVE  ReconcilerInv'
<1> USE DEF ReconcilerInv
<1>0. WorldOK /\ RunOK /\ ReportOK
  BY TypeParts
<1>1. CASE Begin
  <2>1. RunOK' /\ run'.found = run.found
    BY <1>0, <1>1, MoveOn DEF Begin
  <2>2. ReportOK'
    BY <1>0, <1>1 DEF Begin, ReportOK
  <2>3. WorldOK' /\ MissingHadBill'
    BY <1>0, <1>1, <2>1, SameWorld, StillMissing DEF Begin
  <2> QED
    BY <2>1, <2>2, <2>3, TypesKept
<1>2. CASE FindStalled
  <2>1. RunOK' /\ run'.found = run.found
    BY <1>0, <1>2, MoveOn DEF FindStalled
  <2>2. breaks' \subseteq {"stalled"} \X Rows
    BY <1>2 DEF FindStalled
  <2>3. ReportOK'
    BY <1>0, <1>2, <2>2 DEF FindStalled, ReportOK, Break
  <2>4. \A r \in Rows : <<"missing", r>> \notin breaks'
    BY <2>2
  <2>5. WorldOK' /\ MissingHadBill'
    BY <1>0, <1>2, <2>1, <2>4, SameWorld, StillMissing DEF FindStalled
  <2> QED
    BY <2>1, <2>3, <2>5, TypesKept
<1>3. CASE FindDuplicates
  <2>1. RunOK' /\ run'.found = run.found
    BY <1>0, <1>3, MoveOn DEF FindDuplicates
  <2> DEFINE named(b) == {r \in Posted(b[1]) : rows[r].recent /\ BillOf(r) = b}
             new == {<<"duplicate", b>> : b \in {b \in Bills : Cardinality(named(b)) > 1}}
  <2>2. breaks' = breaks \cup new /\ new \subseteq {"duplicate"} \X Bills
    <3>1. breaks' = breaks \cup new
      BY <1>3, Zenon DEF FindDuplicates
    <3> HIDE DEF named
    <3> QED
      BY <3>1
  <2> HIDE DEF new
  <2>3. Bills \subseteq Realms \X Ids
    BY ReconcilerConstants
  <2>4. ReportOK'
    BY <1>0, <1>3, <2>2, <2>3 DEF FindDuplicates, ReportOK, Break
  <2>5. \A r \in Rows : <<"missing", r>> \notin new
    BY <2>2
  <2>6. WorldOK' /\ MissingHadBill'
    BY <1>0, <1>3, <2>1, <2>2, <2>5, SameWorld, StillMissing DEF FindDuplicates
  <2> QED
    BY <2>1, <2>4, <2>6, TypesKept
<1> QED
  BY <1>1, <1>2, <1>3

\* Choosing realms reports nothing.
LEMMA ChoosingRealms ==
  ASSUME ReconcilerInv, ListRealms \/ NextRealm
  PROVE  ReconcilerInv'
<1> USE DEF ReconcilerInv
<1>0. WorldOK /\ RunOK /\ ReportOK
  BY TypeParts
<1>1. CASE ListRealms
  <2>1. PICK targets \in SUBSET Realms :
          run' = [run EXCEPT !.at = "next", !.targets = targets, !.todo = targets]
    BY <1>1 DEF ListRealms
  <2>2. /\ run' \in Run /\ run'.at = "next" /\ run'.suspects = run.suspects /\ run'.found = run.found
        /\ run'.seen = run.seen /\ run'.remote = run.remote /\ run'.todo = run'.targets
    BY <1>0, <2>1 DEF RunOK, Run
  <2>3. RunOK'
    BY <1>0, <1>1, <2>2 DEF RunOK, InRealm, ListRealms
  <2>4. WorldOK' /\ MissingHadBill' /\ ReportOK'
    BY <1>0, <1>1, <2>2, SameWorld, StillMissing DEF ListRealms, ReportOK
  <2> QED
    BY <2>3, <2>4, TypesKept
<1>2. CASE NextRealm
  <2>1. RunOK' /\ run'.found = run.found
    <3>1. CASE run' = [run EXCEPT !.at = "persist"]
      BY <1>0, <1>2, <3>1, MoveOn DEF NextRealm
    <3>2. CASE \E realm \in run.todo :
                 run' = [run EXCEPT !.at = "page", !.todo = @ \ {realm}, !.realm = realm]
      <4>1. PICK realm \in run.todo :
              run' = [run EXCEPT !.at = "page", !.todo = @ \ {realm}, !.realm = realm]
        BY <3>2
      <4>2. /\ run' \in Run /\ run'.at = "page" /\ run'.realm = realm
            /\ run'.todo = run.todo \ {realm} /\ run'.targets = run.targets
            /\ run'.suspects = run.suspects /\ run'.found = run.found
            /\ run'.seen = run.seen /\ run'.remote = run.remote
        BY <1>0, <4>1 DEF RunOK, Run, InRealm
      <4> QED
        BY <1>0, <1>2, <4>2 DEF RunOK, InRealm, NextRealm
    <3> QED
      BY <1>2, <3>1, <3>2 DEF NextRealm
  <2>2. WorldOK' /\ MissingHadBill' /\ ReportOK'
    BY <1>0, <1>2, <2>1, SameWorld, StillMissing DEF NextRealm, ReportOK
  <2> QED
    BY <2>1, <2>2, TypesKept
<1> QED
  BY <1>1, <1>2

-----------------------------------------------------------------------------
(* reconcile_realm *)

\* In a realm, its number is a company's.
LEMMA InARealm ==
  ASSUME RunOK, run.at \in InRealm
  PROVE  /\ run.realm \in Realms /\ run.start \in Nat
         /\ run.remote \in UNION {[I -> Bill] : I \in SUBSET Ids}
         /\ run.found \subseteq Break /\ run.targets \subseteq Realms
BY DEF RunOK, Run

\* A realm that fails is reported, and nothing else of it.
LEMMA Failing ==
  ASSUME ReconcilerInv, PageFails \/ CompareFails \/ RecheckFails
  PROVE  ReconcilerInv'
<1>0. WorldOK /\ RunOK /\ ReportOK /\ MissingHadBill
  BY TypeParts DEF ReconcilerInv
<1>1. /\ run.at \in InRealm /\ breaks' = breaks \cup {<<"failed", run.realm>>} /\ run' = Leave
      /\ aborted' \in BOOLEAN /\ UNCHANGED <<world, reports, edits, touched>>
  BY <1>0 DEF PageFails, CompareFails, RecheckFails, RealmFails, InRealm, ReportOK
<1>2. RunOK' /\ run'.found = {}
  BY <1>0, <1>1, LeaveOK
<1>3. ReportOK'
  BY <1>0, <1>1, InARealm DEF ReportOK, Break
<1>4. WorldOK' /\ MissingHadBill'
  BY <1>0, <1>1, <1>2, SameWorld, StillMissing
<1> QED
  BY <1>2, <1>3, <1>4, TypesKept DEF ReconcilerInv

\* The end of a realm reports what it found, and orphans.
LEMMA Ending ==
  ASSUME ReconcilerInv, run.at \in InRealm, NEW found \in SUBSET Break, NEW seen,
         EndRealm(found, seen), UNCHANGED <<world, aborted, reports, edits, touched>>,
         \A r \in Rows : <<"missing", r>> \in found =>
           \/ <<"missing", r>> \in run.found
           \/ rows[r].bill # None /\ bills[BillOf(r)] = Gone
  PROVE  ReconcilerInv'
<1>0. WorldOK /\ RunOK /\ ReportOK /\ MissingHadBill
  BY TypeParts DEF ReconcilerInv
<1> DEFINE orphans == {<<"orphan", <<run.realm, i>>>> : i \in DOMAIN run.remote \ seen}
<1>1. breaks' = breaks \cup found \cup orphans /\ run' = Leave
  BY DEF EndRealm
<1>2. orphans \subseteq {"orphan"} \X (Realms \X Ids)
  <2>1. DOMAIN run.remote \subseteq Ids /\ run.realm \in Realms
    BY <1>0, InARealm
  <2> QED
    BY <2>1
<1> HIDE DEF orphans
<1>3. RunOK' /\ run'.found = {}
  BY <1>0, <1>1, LeaveOK
<1>4. ReportOK'
  BY <1>0, <1>1, <1>2 DEF ReportOK, Break
<1>5. \A r \in Rows : <<"missing", r>> \notin orphans
  BY <1>2
<1>6. WorldOK' /\ MissingHadBill'
  BY <1>0, <1>1, <1>3, <1>5, SameWorld, StillMissing
<1> QED
  BY <1>3, <1>4, <1>6, TypesKept DEF ReconcilerInv

\* A page of the index.
LEMMA Paging ==
  ASSUME ReconcilerInv, Page
  PROVE  ReconcilerInv'
<1>0. WorldOK /\ RunOK /\ ReportOK /\ MissingHadBill
  BY TypeParts DEF ReconcilerInv
<1>1. PICK page \in SUBSET Ids, l \in {"local", "page"} :
        /\ run' = [run EXCEPT !.remote = [i \in page \cup DOMAIN @ |->
                                  IF i \in page THEN bills[<<run.realm, i>>] ELSE @[i]],
                             !.start = @ + PageSize, !.at = l]
        /\ \A i \in page : <<run.realm, i>> \in Bills /\ There(<<run.realm, i>>)
  <2> DEFINE dated == {i \in Ids : <<run.realm, i>> \in Bills /\ There(<<run.realm, i>>)
                            /\ bills[<<run.realm, i>>].dated}
             position(i) == Cardinality({j \in dated : j <= i})
             page == {i \in dated : position(i) \in run.start .. run.start + PageSize - 1}
             l == IF Cardinality(page) < PageSize THEN "local" ELSE "page"
  <2>1. run' = [run EXCEPT !.remote = [i \in page \cup DOMAIN @ |->
                                  IF i \in page THEN bills[<<run.realm, i>>] ELSE @[i]],
                             !.start = @ + PageSize, !.at = l]
    BY Zenon DEF Page
  <2>2. l \in {"local", "page"}
    BY Zenon
  <2>3. page \in SUBSET Ids /\ \A i \in page : <<run.realm, i>> \in Bills /\ There(<<run.realm, i>>)
    <3> HIDE DEF position
    <3> QED OBVIOUS
  <2> HIDE DEF page, l
  <2> QED
    BY <2>1, <2>2, <2>3
<1> DEFINE remote == [i \in page \cup DOMAIN run.remote |->
                        IF i \in page THEN bills[<<run.realm, i>>] ELSE run.remote[i]]
<1>2. /\ run' = [run EXCEPT !.remote = remote, !.start = @ + PageSize, !.at = l]
      /\ run.at = "page" /\ UNCHANGED <<world, breaks, aborted, reports, edits, touched>>
  BY <1>1 DEF Page
<1>3. remote \in UNION {[I -> Bill] : I \in SUBSET Ids} /\ DOMAIN run.remote \subseteq DOMAIN remote
  <2>1. PICK I \in SUBSET Ids : run.remote \in [I -> Bill]
    BY <1>0, <1>2, InARealm DEF InRealm
  <2>2. \A i \in page : bills[<<run.realm, i>>] \in Bill
    BY <1>0, <1>1 DEF WorldOK, There
  <2>3. remote \in [page \cup I -> Bill] /\ page \cup I \in SUBSET Ids
    BY <2>1, <2>2
  <2> QED
    BY <2>1, <2>3
<1> HIDE DEF remote
<1>4. /\ run' \in Run /\ run'.at = l /\ run'.realm = run.realm /\ run'.todo = run.todo
      /\ run'.targets = run.targets /\ run'.suspects = run.suspects /\ run'.found = run.found
      /\ run'.seen = run.seen /\ run'.remote = remote
  <2>1. run \in Run
    BY <1>0 DEF RunOK
  <2>2. run.start + PageSize \in Nat
    BY <2>1, ReconcilerConstants DEF Run
  <2>3. l \in InRealm
    BY DEF InRealm
  <2> QED
    BY <1>2, <1>3, <2>1, <2>2, <2>3 DEF Run
<1>5. RunOK'
  BY <1>0, <1>2, <1>3, <1>4 DEF RunOK, InRealm
<1>6. WorldOK' /\ MissingHadBill' /\ ReportOK'
  BY <1>0, <1>2, <1>4, SameWorld, StillMissing DEF ReportOK
<1> QED
  BY <1>5, <1>6, TypesKept DEF ReconcilerInv

\* A comparison of totals yields mismatches of the rows it was given.
LEMMA MismatchesOfRows ==
  ASSUME NEW I \in SUBSET Rows, NEW f, DOMAIN f = I
  PROVE  Mismatches(f) \subseteq {"mismatch"} \X Rows
<1> SUFFICES ASSUME NEW m \in Mismatches(f)
             PROVE  m \in {"mismatch"} \X Rows
  OBVIOUS
<1>1. PICK r \in I : m = <<"mismatch", r>>
  BY DEF Mismatches
<1> QED
  BY <1>1

\* The rows of the realm, against the index.
LEMMA Comparing ==
  ASSUME ReconcilerInv, Compare
  PROVE  ReconcilerInv'
<1>0. WorldOK /\ RunOK /\ ReportOK /\ MissingHadBill /\ run.at \in InRealm
  BY TypeParts DEF ReconcilerInv, Compare, InRealm
<1>1. Looked \subseteq Posted(run.realm) /\ Known \subseteq Looked
  BY DEF Looked, Known
<1>2. InIndex \in SUBSET Break /\ \A r \in Rows : <<"missing", r>> \notin InIndex
  <2>1. InIndex \subseteq {"mismatch"} \X Rows
    <3>1. Known \in SUBSET Rows
      BY <1>1 DEF Posted
    <3>2. DOMAIN [r \in Known |-> run.remote[rows[r].bill]] = Known
      OBVIOUS
    <3> QED
      BY <3>1, <3>2, MismatchesOfRows DEF InIndex
  <2> QED
    BY <2>1 DEF Break
<1>3. CASE EndRealm(InIndex, {rows[r].bill : r \in Known})
  <2>1. UNCHANGED <<world, aborted, reports, edits, touched>>
    BY DEF Compare
  <2> HIDE DEF Compare
  <2> QED
    BY <1>0, <1>2, <1>3, <2>1, Ending
<1>4. CASE /\ run' = [run EXCEPT !.at = "recheck", !.found = InIndex, !.suspects = Looked \ Known,
                                !.seen = {rows[r].bill : r \in Known}]
           /\ UNCHANGED breaks
  <2> DEFINE seen == {rows[r].bill : r \in Known}
  <2>1. seen \subseteq DOMAIN run.remote /\ seen \subseteq Ids
    BY <1>0, InARealm DEF Known
  <2>2. Looked \ Known \in SUBSET Rows
    BY <1>1 DEF Posted
  <2> HIDE DEF seen
  <2>3. run' = [run EXCEPT !.at = "recheck", !.found = InIndex, !.suspects = Looked \ Known,
                           !.seen = seen]
    BY <1>4 DEF seen
  <2>4. /\ run' \in Run /\ run'.at = "recheck" /\ run'.realm = run.realm /\ run'.todo = run.todo
        /\ run'.targets = run.targets /\ run'.suspects = Looked \ Known /\ run'.found = InIndex
        /\ run'.seen = seen /\ run'.remote = run.remote
    BY <1>0, <1>2, <2>1, <2>2, <2>3 DEF RunOK, Run, InRealm
  <2>5. UNCHANGED <<world, breaks, aborted, reports, edits, touched>>
    BY <1>4 DEF Compare
  <2>6. Posted(run.realm)' = Posted(run.realm)
    BY <2>4, <2>5 DEF Posted, world
  <2>7. RunOK'
    BY <1>0, <1>1, <2>1, <2>4, <2>6 DEF RunOK, InRealm
  <2>8. WorldOK' /\ MissingHadBill' /\ ReportOK'
    BY <1>0, <1>2, <2>4, <2>5, SameWorld, StillMissing DEF ReportOK
  <2> QED
    BY <2>7, <2>8, TypesKept DEF ReconcilerInv
<1> QED
  BY <1>3, <1>4 DEF Compare

\* The second look asks each suspect for its own bill.
LEMMA LookingAgain ==
  ASSUME ReconcilerInv, Recheck
  PROVE  ReconcilerInv'
<1>0. WorldOK /\ RunOK /\ ReportOK /\ MissingHadBill /\ run.at = "recheck" /\ run.at \in InRealm
  BY TypeParts DEF ReconcilerInv, Recheck, InRealm
<1> DEFINE bill(r) == <<run.realm, rows[r].bill>>
           there == {r \in run.suspects : There(bill(r))}
           mismatches == Mismatches([r \in there |-> bills[bill(r)]])
           lost == {<<"missing", r>> : r \in run.suspects \ there}
           found == run.found \cup mismatches \cup lost
<1>1. EndRealm(found, run.seen) /\ UNCHANGED <<world, aborted, reports, edits, touched>>
  BY Zenon DEF Recheck
<1>2. run.suspects \subseteq Posted(run.realm) /\ run.suspects \subseteq Rows
  BY <1>0 DEF RunOK, Posted
<1>3. mismatches \subseteq {"mismatch"} \X Rows
  <2>1. there \in SUBSET Rows
    BY <1>2
  <2>2. DOMAIN [r \in there |-> bills[bill(r)]] = there
    OBVIOUS
  <2> QED
    BY <2>1, <2>2, MismatchesOfRows
<1>4. lost \subseteq {"missing"} \X Rows
  <2> SUFFICES ASSUME NEW m \in lost
               PROVE  m \in {"missing"} \X Rows
    OBVIOUS
  <2>1. PICK r \in run.suspects \ there : m = <<"missing", r>>
    OBVIOUS
  <2> QED
    BY <1>2, <2>1
<1>5. \A r \in Rows : <<"missing", r>> \in lost => rows[r].bill # None /\ bills[BillOf(r)] = Gone
  <2> SUFFICES ASSUME NEW r \in Rows, <<"missing", r>> \in lost
               PROVE  rows[r].bill # None /\ bills[BillOf(r)] = Gone
    OBVIOUS
  <2>1. r \in Posted(run.realm) /\ ~There(bill(r))
    BY <1>2
  <2>2. bill(r) = BillOf(r) /\ rows[r].bill # None
    BY <1>0, <2>1 DEF BillOf, Posted, WorldOK
  <2> QED
    BY <1>0, <2>1, <2>2 DEF There, WorldOK
<1> HIDE DEF mismatches, lost
<1>6. found \in SUBSET Break
  BY <1>0, <1>3, <1>4, InARealm DEF Break
<1>7. \A r \in Rows : <<"missing", r>> \in found =>
        \/ <<"missing", r>> \in run.found
        \/ rows[r].bill # None /\ bills[BillOf(r)] = Gone
  BY <1>3, <1>5
<1> HIDE DEF found
<1> QED
  BY <1>0, <1>1, <1>6, <1>7, Ending

-----------------------------------------------------------------------------
(* The end of a run, and what happens beside it *)

\* A run ends with a report, or without one.
LEMMA RunEnds ==
  ASSUME ReconcilerInv, Persist \/ Die
  PROVE  ReconcilerInv'
<1>0. WorldOK /\ RunOK /\ ReportOK /\ MissingHadBill
  BY TypeParts DEF ReconcilerInv
<1>1. run' = Idle /\ breaks' \subseteq breaks /\ aborted' \in BOOLEAN /\ UNCHANGED <<world, edits, touched>>
  BY <1>0 DEF Persist, Die, ReportOK
<1>2. RunOK' /\ run'.found = {}
  BY <1>0, <1>1, LeaveOK
<1>3. reports' \subseteq [targets : SUBSET Realms, breaks : SUBSET Break]
  <2>1. CASE Persist
    <3>1. run.targets \in SUBSET Realms
      BY <1>0 DEF RunOK, Run
    <3> QED
      BY <1>0, <2>1, <3>1 DEF Persist, ReportOK
  <2>2. CASE Die
    BY <1>0, <2>2 DEF Die, ReportOK
  <2> QED
    BY <2>1, <2>2
<1>4. ReportOK'
  BY <1>0, <1>1, <1>3 DEF ReportOK
<1>5. WorldOK' /\ MissingHadBill'
  BY <1>0, <1>1, <1>2, SameWorld, StillMissing
<1> QED
  BY <1>2, <1>4, <1>5, TypesKept DEF ReconcilerInv

\* People and workers leave the run and its report alone.
LEMMA SameRun ==
  ASSUME RunOK, ReportOK, UNCHANGED <<run, breaks, aborted, reports>>,
         \A r \in Rows : rows[r].status = "posted" => rows'[r].status = "posted",
         edits' \in 0 .. MaxEdits, touched' \subseteq Rows
  PROVE  RunOK' /\ ReportOK'
<1>1. Posted(run.realm) \subseteq Posted(run.realm)'
  BY DEF Posted
<1> QED
  BY <1>1 DEF RunOK, ReportOK

\* A change counts.
LEMMA Changing ==
  ASSUME ReportOK, NEW of \in SUBSET Rows, Change(of)
  PROVE  edits' \in 0 .. MaxEdits /\ touched' \subseteq Rows
BY ReconcilerConstants DEF ReportOK, Change

\* An edited bill was there before, so a deleted one stays deleted.
LEMMA Editing ==
  ASSUME ReconcilerInv, NEW b \in Bills, EditBill(b)
  PROVE  ReconcilerInv'
<1>0. WorldOK /\ RunOK /\ ReportOK /\ MissingHadBill
  BY TypeParts DEF ReconcilerInv
<1>1. PICK new \in Bill \cup {Gone} : bills' = [bills EXCEPT ![b] = new]
  BY DEF EditBill
<1>2. There(b) /\ rows' = rows /\ UNCHANGED <<run, breaks, aborted, reports>>
  BY DEF EditBill, Change
<1>3. WorldOK'
  BY <1>0, <1>1, <1>2, ReconcilerConstants DEF WorldOK, BillOf, There
<1>4. MissingHadBill'
  BY <1>0, <1>1, <1>2 DEF MissingHadBill, BillOf, There, WorldOK
<1>5. RunOK' /\ ReportOK'
  <2>1. {r \in Rows : BillOf(r) = b} \in SUBSET Rows
    OBVIOUS
  <2> QED
    BY <1>0, <1>2, <2>1, Changing, SameRun DEF EditBill
<1> QED
  BY <1>3, <1>4, <1>5, TypesKept DEF ReconcilerInv

\* A worker's bill has an id of its own.
LEMMA Creating ==
  ASSUME ReconcilerInv, NEW r \in Rows, NEW b \in Bills, CreateBill(r, b)
  PROVE  ReconcilerInv'
<1>0. WorldOK /\ RunOK /\ ReportOK /\ MissingHadBill
  BY TypeParts DEF ReconcilerInv
<1>1. /\ rows[r].status = "posting" /\ rows[r].bill = None /\ b[1] = RealmOf[r] /\ bills[b] = None
      /\ bills' = [bills EXCEPT ![b] = [total |-> Worth(r), dated |-> TRUE]]
      /\ rows' = [rows EXCEPT ![r].bill = b[2]] /\ UNCHANGED <<run, breaks, aborted, reports>>
  BY DEF CreateBill, Change
<1>2. b = <<RealmOf[r], b[2]>> /\ b[2] \in Ids
  BY <1>1, ReconcilerConstants
<1>3. [total |-> Worth(r), dated |-> TRUE] \in Bill
  BY ReconcilerConstants DEF Bill
<1>4. /\ rows' \in [Rows -> Row] /\ rows'[r].bill = b[2] /\ rows'[r].status = "posting"
      /\ \A s \in Rows \ {r} : rows'[s] = rows[s]
  BY <1>0, <1>1, <1>2 DEF WorldOK, Row
<1>5. /\ bills' \in [Bills -> Bill \cup {None, Gone}] /\ bills'[b] # None
      /\ \A c \in Bills \ {b} : bills'[c] = bills[c]
  <2>1. PICK new \in Bill : bills' = [bills EXCEPT ![b] = new]
    BY <1>1, <1>3
  <2>2. new # None
    BY ReconcilerConstants
  <2> QED
    BY <1>0, <2>1, <2>2 DEF WorldOK
<1>6. WorldOK'
  BY <1>0, <1>1, <1>2, <1>4, <1>5 DEF WorldOK, BillOf
<1>7. MissingHadBill'
  <2> SUFFICES ASSUME NEW s \in Rows, <<"missing", s>> \in (breaks \cup run.found)'
               PROVE  (rows[s].bill # None /\ bills[BillOf(s)] = Gone)'
    BY DEF MissingHadBill
  <2>1. rows[s].bill # None /\ bills[BillOf(s)] = Gone
    BY <1>0, <1>1 DEF MissingHadBill
  <2>2. s # r /\ BillOf(s) \in Bills \ {b}
    BY <1>0, <1>1, <2>1, ReconcilerConstants DEF WorldOK
  <2>3. rows'[s] = rows[s] /\ BillOf(s)' = BillOf(s)
    BY <1>4, <2>2 DEF BillOf
  <2> QED
    BY <1>5, <2>1, <2>2, <2>3
<1>8. RunOK' /\ ReportOK'
  BY <1>0, <1>1, <1>4, Changing, SameRun DEF CreateBill
<1> QED
  BY <1>6, <1>7, <1>8, TypesKept DEF ReconcilerInv

\* A recorded bill is the one the row had.
LEMMA Recording ==
  ASSUME ReconcilerInv, NEW r \in Rows, RecordPosted(r)
  PROVE  ReconcilerInv'
<1>0. WorldOK /\ RunOK /\ ReportOK /\ MissingHadBill
  BY TypeParts DEF ReconcilerInv
<1>1. /\ rows[r].bill # None /\ UNCHANGED <<bills, run, breaks, aborted, reports, edits>>
      /\ rows' = [rows EXCEPT ![r].status = "posted", ![r].aged = FALSE] /\ touched' = touched \cup {r}
  BY DEF RecordPosted
<1>2. /\ rows' \in [Rows -> Row] /\ rows'[r].bill = rows[r].bill /\ rows'[r].status = "posted"
      /\ \A s \in Rows \ {r} : rows'[s] = rows[s]
  BY <1>0, <1>1 DEF WorldOK, Row
<1>3. WorldOK' /\ MissingHadBill'
  BY <1>0, <1>1, <1>2 DEF WorldOK, MissingHadBill, BillOf
<1>4. RunOK' /\ ReportOK'
  <2>1. edits' \in 0 .. MaxEdits /\ touched' \subseteq Rows
    BY <1>0, <1>1 DEF ReportOK
  <2> QED
    BY <1>0, <1>1, <1>2, <2>1, SameRun
<1> QED
  BY <1>3, <1>4, TypesKept DEF ReconcilerInv

-----------------------------------------------------------------------------

\* Every step keeps the invariant.
LEMMA StepKeeps == ReconcilerInv /\ [Next]_vars => ReconcilerInv'
<1> SUFFICES ASSUME ReconcilerInv, [Next]_vars PROVE ReconcilerInv'
  OBVIOUS
<1>1. CASE Begin \/ FindStalled \/ FindDuplicates
  BY <1>1, LocalChecks
<1>2. CASE ListRealms \/ NextRealm
  BY <1>2, ChoosingRealms
<1>3. CASE Page
  BY <1>3, Paging
<1>4. CASE Compare
  BY <1>4, Comparing
<1>5. CASE PageFails \/ CompareFails \/ RecheckFails
  BY <1>5, Failing
<1>6. CASE Recheck
  BY <1>6, LookingAgain
<1>7. CASE Persist \/ Die
  BY <1>7, RunEnds
<1>8. CASE \E b \in Bills : EditBill(b) \/ \E r \in Rows : CreateBill(r, b)
  BY <1>8, Editing, Creating
<1>9. CASE \E r \in Rows : RecordPosted(r)
  BY <1>9, Recording
<1>10. CASE UNCHANGED vars
  <2>1. WorldOK /\ RunOK /\ ReportOK /\ MissingHadBill
    BY TypeParts DEF ReconcilerInv
  <2>2. WorldOK' /\ MissingHadBill'
    BY <1>10, <2>1, SameWorld, StillMissing DEF vars
  <2>3. RunOK' /\ ReportOK'
    BY <1>10, <2>1, SameRun DEF vars, world, ReportOK
  <2> QED
    BY <2>2, <2>3, TypesKept DEF ReconcilerInv
<1> QED
  BY <1>1, <1>2, <1>3, <1>4, <1>5, <1>6, <1>7, <1>8, <1>9, <1>10 DEF Next

\* Every reachable state of the reconciler is well typed: what it looks at again are posted
\* invoices of the realm it is in (reconcile_realm).
THEOREM ReconcilerTypeCorrect == Spec => []TypeOK
<1>1. ReconcilerInv => TypeOK
  BY DEF ReconcilerInv
<1> QED
  BY InitEstablishes, StepKeeps, <1>1, PTL DEF Spec

\* Only an invoice whose bill was deleted is ever reported missing, however pages shift and
\* whoever edits or posts during the run (reconcile_realm, iter_bills, fetch_bills_by_id).
THEOREM NothingIsMissed == Spec => []MissingIsGone
<1>1. ReconcilerInv => MissingIsGone
  BY DEF ReconcilerInv, MissingHadBill, MissingIsGone
<1> QED
  BY InitEstablishes, StepKeeps, <1>1, PTL DEF Spec

-----------------------------------------------------------------------------
(* The record of a run *)

\* What a record has to tell of an invoice, one kind of break at a time.
Compared(r) == rows[r].status = "posted" /\ rows[r].recent
Sharers(r) == {s \in Posted(RealmOf[r]) : rows[s].recent /\ BillOf(s) = BillOf(r)}

TellsStalled(B, r) == <<"stalled", r>> \in B <=> rows[r].aged
TellsShared(B, r) ==
  Sharers(r) \cap touched = {} => (<<"duplicate", BillOf(r)>> \in B <=> Cardinality(Sharers(r)) > 1)
TellsBill(B, r) ==
  /\ <<"missing", r>> \in B <=> Compared(r) /\ bills[BillOf(r)] = Gone
  /\ <<"mismatch", r>> \in B <=> Compared(r) /\ There(BillOf(r)) /\ Differs(bills[BillOf(r)].total, r)
  /\ Compared(r) => <<"orphan", BillOf(r)>> \notin B

\* B tells nothing of a company.
Silent(B, realm) ==
  /\ \A r \in Rows : RealmOf[r] = realm => <<"missing", r>> \notin B /\ <<"mismatch", r>> \notin B
  /\ \A i \in Ids : <<"orphan", <<realm, i>>>> \notin B
  /\ <<"failed", realm>> \notin B

\* The companies the run is through with.
Done == run.targets \ (run.todo \cup (IF run.at \in InRealm THEN {run.realm} ELSE {}))

\* A posted invoice is not stalled.
PostedIsFresh == \A r \in Rows : rows[r].status = "posted" => ~rows[r].aged

\* The stages of a run.
Stages ==
  /\ run.at = "stalled" => breaks = {}
  /\ run.at = "duplicates" => breaks \subseteq {"stalled"} \X Rows
  /\ run.at \in {"idle", "stalled", "duplicates", "list"} => run.targets = {}
  /\ run.at = "persist" => run.todo = {}

\* After each local check its breaks are those of the invoices nobody touched.
LocalTold ==
  \A r \in Rows \ touched :
    /\ run.at \notin {"idle", "stalled"} => TellsStalled(breaks, r)
    /\ run.at \notin {"idle", "stalled", "duplicates"} => TellsShared(breaks, r)

\* Of a company done with, unless it failed, the breaks are true; of another there is none.
RealmsTold ==
  run.at # "idle" =>
    /\ \A realm \in Realms \ Done : Silent(breaks, realm)
    /\ \A r \in Rows \ touched :
         RealmOf[r] \in Done /\ <<"failed", RealmOf[r]>> \notin breaks => TellsBill(breaks, r)

\* The index has the bills of untouched invoices as they are.
IndexTrue ==
  /\ run.at \notin InRealm => DOMAIN run.remote = {}
  /\ run.at \in InRealm =>
       \A r \in Rows \ touched :
         RealmOf[r] = run.realm /\ rows[r].bill \in DOMAIN run.remote =>
           There(BillOf(r)) /\ run.remote[rows[r].bill] = bills[BillOf(r)]

\* Before the second look, the index has been compared, and the rest is suspect.
SuspectsTrue ==
  run.at = "recheck" =>
    /\ run.found \subseteq {"mismatch"} \X {r \in Rows : RealmOf[r] = run.realm}
    /\ \A r \in Rows \ touched : RealmOf[r] = run.realm =>
         LET indexed == Compared(r) /\ rows[r].bill \in DOMAIN run.remote IN
           /\ <<"mismatch", r>> \in run.found <=> indexed /\ Differs(bills[BillOf(r)].total, r)
           /\ indexed => rows[r].bill \in run.seen
           /\ r \in run.suspects <=> Compared(r) /\ ~indexed

RunInv == PostedIsFresh /\ Stages /\ LocalTold /\ RealmsTold /\ IndexTrue /\ SuspectsTrue

\* A record tells of each invoice what it has to.
RecordTells ==
  \A p \in reports : \A r \in Rows \ touched :
    /\ RealmOf[r] \in p.targets /\ <<"failed", RealmOf[r]>> \notin p.breaks => TellsBill(p.breaks, r)
    /\ TellsStalled(p.breaks, r) /\ TellsShared(p.breaks, r)

\* The world and the touched invoices unchanged, the same is true of an invoice.
LEMMA SameTelling ==
  ASSUME UNCHANGED <<world, touched>>, NEW B, NEW r \in Rows
  PROVE  /\ BillOf(r)' = BillOf(r) /\ There(BillOf(r))' = There(BillOf(r))
         /\ Compared(r)' = Compared(r) /\ Sharers(r)' = Sharers(r)
         /\ TellsStalled(B, r)' = TellsStalled(B, r)
         /\ TellsShared(B, r)' = TellsShared(B, r)
         /\ TellsBill(B, r)' = TellsBill(B, r)
BY DEF world, BillOf, There, Compared, Sharers, Posted, TellsStalled, TellsShared, TellsBill

\* A record that is kept stays accurate while the run goes on.
LEMMA SameRecord ==
  ASSUME RecordTells, UNCHANGED <<world, reports, touched>>
  PROVE  RecordTells'
<1> SUFFICES ASSUME NEW p \in reports, NEW r \in Rows \ touched
             PROVE  /\ RealmOf[r] \in p.targets /\ <<"failed", RealmOf[r]>> \notin p.breaks =>
                         TellsBill(p.breaks, r)'
                    /\ TellsStalled(p.breaks, r)' /\ TellsShared(p.breaks, r)'
  BY DEF RecordTells, TellsBill, TellsStalled, TellsShared, Compared, Sharers
<1>1. /\ RealmOf[r] \in p.targets /\ <<"failed", RealmOf[r]>> \notin p.breaks => TellsBill(p.breaks, r)
      /\ TellsStalled(p.breaks, r) /\ TellsShared(p.breaks, r)
  BY DEF RecordTells
<1> QED
  BY <1>1, SameTelling

-----------------------------------------------------------------------------
(* What people and workers do beside the run *)

\* An untouched invoice and its bill are as they were, and a posted one stays posted.
Steady ==
  /\ UNCHANGED <<run, breaks, reports>> /\ touched \subseteq touched'
  /\ \A r \in Rows \ touched' : /\ rows'[r] = rows[r]
                                /\ rows[r].bill # None => bills'[BillOf(r)] = bills[BillOf(r)]
  /\ \A s \in Rows : rows[s].status = "posted" =>
       rows'[s].status = "posted" /\ rows'[s].recent = rows[s].recent /\ rows'[s].bill = rows[s].bill
  /\ \A s \in Rows : rows'[s].status = "posted" => ~rows'[s].aged

LEMMA EditIsSteady ==
  ASSUME WorldOK, PostedIsFresh, NEW b \in Bills, EditBill(b)
  PROVE  Steady
<1>1. PICK new : bills' = [bills EXCEPT ![b] = new]
  BY DEF EditBill
<1>2. /\ rows' = rows /\ UNCHANGED <<run, breaks, reports>>
      /\ touched' = touched \cup {r \in Rows : BillOf(r) = b}
  BY DEF EditBill, Change
<1>3. \A r \in Rows \ touched' : BillOf(r) # b
  BY <1>2
<1>4. \A r \in Rows : rows[r].bill # None => BillOf(r) \in Bills
  BY DEF WorldOK
<1>5. \A r \in Rows \ touched' : rows[r].bill # None => bills'[BillOf(r)] = bills[BillOf(r)]
  BY <1>1, <1>3, <1>4 DEF WorldOK
<1> QED
  BY <1>2, <1>5 DEF Steady, PostedIsFresh

LEMMA CreateIsSteady ==
  ASSUME WorldOK, PostedIsFresh, NEW r \in Rows, NEW b \in Bills, CreateBill(r, b)
  PROVE  Steady
<1>1. /\ rows[r].status = "posting" /\ rows[r].bill = None /\ bills[b] = None
      /\ rows' = [rows EXCEPT ![r].bill = b[2]] /\ UNCHANGED <<run, breaks, reports>>
      /\ touched' = touched \cup {r}
  BY DEF CreateBill, Change
<1>2. bills' = [bills EXCEPT ![b] = [total |-> Worth(r), dated |-> TRUE]]
  BY DEF CreateBill
<1>3. rows'[r].status = "posting" /\ \A s \in Rows \ {r} : rows'[s] = rows[s]
  BY <1>1 DEF WorldOK, Row
<1>4. \A s \in Rows : rows[s].bill # None => BillOf(s) \in Bills \ {b}
  BY <1>1 DEF WorldOK
<1>5. \A s \in Rows : rows[s].bill # None => bills'[BillOf(s)] = bills[BillOf(s)]
  BY <1>2, <1>4 DEF WorldOK
<1> QED
  BY <1>1, <1>3, <1>5 DEF Steady, PostedIsFresh

LEMMA RecordIsSteady ==
  ASSUME WorldOK, PostedIsFresh, NEW r \in Rows, RecordPosted(r)
  PROVE  Steady
<1>1. /\ rows' = [rows EXCEPT ![r].status = "posted", ![r].aged = FALSE]
      /\ touched' = touched \cup {r} /\ UNCHANGED <<bills, run, breaks, reports>>
      /\ rows[r].status = "posting"
  BY DEF RecordPosted
<1>2. rows'[r].status = "posted" /\ ~rows'[r].aged /\ \A s \in Rows \ {r} : rows'[s] = rows[s]
  BY <1>1 DEF WorldOK, Row
<1> QED
  BY <1>1, <1>2 DEF Steady, PostedIsFresh

\* What is told of an invoice that is still untouched is still true.
LEMMA StillTrue ==
  ASSUME WorldOK, Steady, NEW r \in Rows \ touched', NEW B
  PROVE  /\ r \in Rows \ touched /\ BillOf(r)' = BillOf(r) /\ Compared(r)' = Compared(r)
         /\ rows[r].bill # None => (There(BillOf(r))' <=> There(BillOf(r)))
         /\ TellsStalled(B, r) => TellsStalled(B, r)'
         /\ TellsShared(B, r) => TellsShared(B, r)'
         /\ TellsBill(B, r) => TellsBill(B, r)'
<1>1. /\ r \in Rows \ touched /\ rows'[r] = rows[r]
      /\ rows[r].bill # None => bills'[BillOf(r)] = bills[BillOf(r)]
  BY DEF Steady
<1>2. BillOf(r)' = BillOf(r) /\ Compared(r)' = Compared(r)
  BY <1>1 DEF BillOf, Compared
<1>3. Compared(r) => rows[r].bill # None
  BY DEF WorldOK, Compared
<1>4. rows[r].bill # None => (There(BillOf(r))' <=> There(BillOf(r)))
  BY <1>1, <1>2 DEF There
<1>5. TellsStalled(B, r) => TellsStalled(B, r)'
  BY <1>1 DEF TellsStalled
<1>6. TellsBill(B, r) => TellsBill(B, r)'
  BY <1>1, <1>2, <1>3, <1>4 DEF TellsBill
<1>7. ASSUME TellsShared(B, r), (Sharers(r) \cap touched = {})'
      PROVE  (<<"duplicate", BillOf(r)>> \in B <=> Cardinality(Sharers(r)) > 1)'
  <2>1. ASSUME NEW s \in Sharers(r)' PROVE s \in Sharers(r) /\ s \notin touched
    <3>1. s \in Rows \ touched'
      BY <1>7, <2>1 DEF Sharers, Posted
    <3>2. rows'[s] = rows[s] /\ s \notin touched
      BY <3>1 DEF Steady
    <3>3. BillOf(s)' = BillOf(s)
      BY <3>2 DEF BillOf
    <3> QED
      BY <1>2, <2>1, <3>1, <3>2, <3>3 DEF Sharers, Posted
  <2>2. ASSUME NEW s \in Sharers(r) PROVE s \in Sharers(r)'
    <3>1. s \in Rows /\ rows[s].status = "posted" /\ RealmOf[s] = RealmOf[r] /\ rows[s].recent
          /\ BillOf(s) = BillOf(r)
      BY DEF Sharers, Posted
    <3>2. rows'[s].status = "posted" /\ rows'[s].recent /\ rows'[s].bill = rows[s].bill
      BY <3>1 DEF Steady
    <3>3. BillOf(s)' = BillOf(s)
      BY <3>2 DEF BillOf
    <3> QED
      BY <1>2, <3>1, <3>2, <3>3 DEF Sharers, Posted
  <2>3. Sharers(r)' = Sharers(r) /\ Sharers(r) \cap touched = {}
    BY <2>1, <2>2
  <2> QED
    BY <1>2, <1>7, <2>3 DEF TellsShared
<1>8. TellsShared(B, r) => TellsShared(B, r)'
  BY <1>7 DEF TellsShared
<1> QED
  BY <1>1, <1>2, <1>4, <1>5, <1>6, <1>8

\* So the run and its record are as true as before.
LEMMA SteadyKeeps ==
  ASSUME WorldOK, RunOK, RunInv, RecordTells, Steady
  PROVE  RunInv' /\ RecordTells'
<1> USE DEF RunInv
<1>1. UNCHANGED <<run, breaks, reports>> /\ touched \subseteq touched'
  BY DEF Steady
<1>2. Done' = Done
  BY <1>1 DEF Done
<1>3. PICK B : B = breaks
  OBVIOUS
<1>4. PostedIsFresh' /\ Stages'
  BY <1>1 DEF Steady, PostedIsFresh, Stages
<1>5. LocalTold'
  <2> SUFFICES ASSUME NEW r \in Rows \ touched'
               PROVE  /\ run.at \notin {"idle", "stalled"} => TellsStalled(B, r)'
                      /\ run.at \notin {"idle", "stalled", "duplicates"} => TellsShared(B, r)'
    BY <1>1, <1>3 DEF LocalTold, TellsStalled, TellsShared
  <2> QED
    BY <1>3, StillTrue DEF LocalTold
<1>6. RealmsTold'
  <2>1. \A realm : Silent(breaks, realm)' <=> Silent(breaks, realm)
    BY <1>1 DEF Silent
  <2>2. \A r \in Rows \ touched' : TellsBill(breaks, r) => TellsBill(breaks, r)'
    <3> SUFFICES ASSUME NEW r \in Rows \ touched' PROVE TellsBill(B, r) => TellsBill(B, r)'
      BY <1>1, <1>3 DEF TellsBill
    <3> QED
      BY StillTrue
  <2>3. \A r \in Rows \ touched' : r \in Rows \ touched
    BY <1>1
  <2> QED
    BY <1>1, <1>2, <2>1, <2>2, <2>3 DEF RealmsTold
<1>7. IndexTrue'
  <2>1. CASE run.at \notin InRealm
    BY <1>1, <2>1 DEF IndexTrue
  <2>2. CASE run.at \in InRealm
    <3> SUFFICES ASSUME NEW r \in Rows \ touched', RealmOf[r] = run.realm,
                        rows'[r].bill \in DOMAIN run.remote
                 PROVE  There(BillOf(r))' /\ run.remote[rows'[r].bill] = bills'[BillOf(r)']
      BY <1>1, <2>2 DEF IndexTrue
    <3>1. r \in Rows \ touched /\ rows'[r] = rows[r] /\ BillOf(r)' = BillOf(r)
      BY StillTrue DEF Steady
    <3>2. There(BillOf(r)) /\ run.remote[rows[r].bill] = bills[BillOf(r)]
      BY <2>2, <3>1 DEF IndexTrue
    <3>3. CASE rows[r].bill # None
      BY <3>1, <3>2, <3>3, StillTrue DEF Steady
    <3>4. rows[r].bill \in Ids
      BY <2>2, <3>1, InARealm
    <3> QED
      BY <3>3, <3>4, ReconcilerConstants
  <2> QED
    BY <2>1, <2>2
<1>8. SuspectsTrue'
  <2> SUFFICES ASSUME run.at = "recheck"
               PROVE  \A r \in Rows \ touched' : RealmOf[r] = run.realm =>
                        LET indexed == Compared(r)' /\ rows'[r].bill \in DOMAIN run.remote IN
                          /\ <<"mismatch", r>> \in run.found <=>
                               indexed /\ Differs(bills'[BillOf(r)'].total, r)
                          /\ indexed => rows'[r].bill \in run.seen
                          /\ r \in run.suspects <=> Compared(r)' /\ ~indexed
    BY <1>1 DEF SuspectsTrue
  <2> SUFFICES ASSUME NEW r \in Rows \ touched', RealmOf[r] = run.realm
               PROVE  LET indexed == Compared(r)' /\ rows'[r].bill \in DOMAIN run.remote IN
                          /\ <<"mismatch", r>> \in run.found <=>
                               indexed /\ Differs(bills'[BillOf(r)'].total, r)
                          /\ indexed => rows'[r].bill \in run.seen
                          /\ r \in run.suspects <=> Compared(r)' /\ ~indexed
    OBVIOUS
  <2>1. /\ r \in Rows \ touched /\ rows'[r] = rows[r] /\ BillOf(r)' = BillOf(r)
        /\ Compared(r)' = Compared(r)
    BY StillTrue DEF Steady
  <2>2. Compared(r) => bills'[BillOf(r)] = bills[BillOf(r)]
    BY <2>1 DEF Steady, Compared, WorldOK
  <2> QED
    BY <2>1, <2>2 DEF SuspectsTrue
<1>9. RecordTells'
  <2> SUFFICES ASSUME NEW p \in reports, NEW r \in Rows \ touched'
               PROVE  /\ RealmOf[r] \in p.targets /\ <<"failed", RealmOf[r]>> \notin p.breaks =>
                           TellsBill(p.breaks, r)'
                      /\ TellsStalled(p.breaks, r)' /\ TellsShared(p.breaks, r)'
    BY <1>1 DEF RecordTells, TellsBill, TellsStalled, TellsShared, Compared, Sharers
  <2>1. r \in Rows \ touched
    BY StillTrue
  <2>2. /\ RealmOf[r] \in p.targets /\ <<"failed", RealmOf[r]>> \notin p.breaks => TellsBill(p.breaks, r)
        /\ TellsStalled(p.breaks, r) /\ TellsShared(p.breaks, r)
    BY <2>1 DEF RecordTells
  <2> QED
    BY <2>2, StillTrue
<1> QED
  BY <1>4, <1>5, <1>6, <1>7, <1>8, <1>9

-----------------------------------------------------------------------------
(* What the run does, with the world and the touched invoices as they are *)

\* What can be reported when a company is done with.
Of(realm) ==
  ({"missing", "mismatch"} \X {r \in Rows : RealmOf[r] = realm})
    \cup ({"orphan"} \X ({realm} \X Ids)) \cup {<<"failed", realm>>}

\* A step that reports nothing and finishes no company.
LEMMA NothingTold ==
  ASSUME RunInv, UNCHANGED <<world, touched, breaks>>, Done' = Done,
         run.at \notin {"idle", "stalled", "duplicates"}
  PROVE  PostedIsFresh' /\ LocalTold' /\ RealmsTold'
<1> USE DEF RunInv
<1>1. PICK B : B = breaks
  OBVIOUS
<1>2. PostedIsFresh'
  BY DEF PostedIsFresh, world
<1>3. LocalTold'
  <2> SUFFICES ASSUME NEW r \in Rows \ touched
               PROVE  TellsStalled(B, r)' /\ TellsShared(B, r)'
    BY <1>1 DEF LocalTold, TellsStalled, TellsShared
  <2> QED
    BY <1>1, SameTelling DEF LocalTold
<1>4. RealmsTold'
  <2>1. \A realm : Silent(breaks, realm)' <=> Silent(breaks, realm)
    BY DEF Silent
  <2>2. \A r \in Rows \ touched : TellsBill(breaks, r) => TellsBill(breaks, r)'
    <3> SUFFICES ASSUME NEW r \in Rows \ touched PROVE TellsBill(B, r) => TellsBill(B, r)'
      BY <1>1 DEF TellsBill
    <3> QED
      BY SameTelling
  <2> QED
    BY <2>1, <2>2 DEF RealmsTold
<1> QED
  BY <1>2, <1>3, <1>4

\* A company is done with: what is reported of it is true of its invoices, or it failed.
LEMMA CompanyTold ==
  ASSUME WorldOK, RunOK, RunInv, UNCHANGED <<world, touched>>, run.at \in InRealm, run' = Leave,
         NEW X \in SUBSET Of(run.realm), breaks' = breaks \cup X,
         \A r \in Rows \ touched :
           RealmOf[r] = run.realm /\ <<"failed", run.realm>> \notin X => TellsBill(X, r)
  PROVE  RunInv'
<1> USE DEF RunInv
<1>1. /\ run'.at = "next" /\ run'.targets = run.targets /\ run'.todo = run.todo
      /\ DOMAIN run'.remote = {}
  BY IdleTypes DEF Leave, Idle
<1>2. /\ run.realm \in Realms /\ run.realm \in run.targets \ run.todo
      /\ run.at \notin {"idle", "stalled", "duplicates"}
  BY InARealm DEF RunOK, InRealm
<1>3. Done' = Done \cup {run.realm} /\ run.realm \notin Done
  BY <1>1, <1>2 DEF Done, InRealm
<1>4. Silent(breaks, run.realm)
  BY <1>2, <1>3 DEF RealmsTold
<1>5. \A m \in X : /\ m[1] \in {"missing", "mismatch", "orphan", "failed"}
                   /\ m[1] \in {"missing", "mismatch"} => RealmOf[m[2]] = run.realm
                   /\ m[1] = "orphan" => m[2][1] = run.realm
                   /\ m[1] = "failed" => m[2] = run.realm
  BY DEF Of
<1>6. PICK B : B = breaks'
  OBVIOUS
<1>7. PostedIsFresh'
  BY DEF PostedIsFresh, world
<1>8. Stages' /\ IndexTrue' /\ SuspectsTrue'
  BY <1>1 DEF Stages, IndexTrue, SuspectsTrue, InRealm
<1>9. LocalTold'
  <2> SUFFICES ASSUME NEW r \in Rows \ touched
               PROVE  TellsStalled(B, r)' /\ TellsShared(B, r)'
    BY <1>6 DEF LocalTold, TellsStalled, TellsShared
  <2>1. TellsStalled(breaks, r) /\ TellsShared(breaks, r)
    BY <1>2 DEF LocalTold
  <2>2. <<"stalled", r>> \in B <=> <<"stalled", r>> \in breaks
    BY <1>5, <1>6
  <2>3. <<"duplicate", BillOf(r)>> \in B <=> <<"duplicate", BillOf(r)>> \in breaks
    BY <1>5, <1>6
  <2>4. TellsStalled(B, r) /\ TellsShared(B, r)
    BY <2>1, <2>2, <2>3 DEF TellsStalled, TellsShared
  <2> QED
    BY <2>4, SameTelling
<1>10. \A realm \in Realms \ Done' : Silent(B, realm)
  <2> SUFFICES ASSUME NEW realm \in Realms, realm \notin Done, realm # run.realm
               PROVE  Silent(B, realm)
    BY <1>3
  <2>1. Silent(breaks, realm)
    BY <1>2 DEF RealmsTold
  <2> QED
    BY <1>5, <1>6, <2>1 DEF Silent
<1>11. ASSUME NEW r \in Rows \ touched, RealmOf[r] \in Done', <<"failed", RealmOf[r]>> \notin B
       PROVE  TellsBill(B, r)
  <2>1. CASE RealmOf[r] = run.realm
    <3>1. TellsBill(X, r)
      BY <1>6, <1>11, <2>1
    <3>2. Compared(r) => BillOf(r) = <<run.realm, rows[r].bill>> /\ rows[r].bill \in Ids
      BY <2>1 DEF Compared, BillOf, WorldOK, Row
    <3>3. Compared(r) => <<"orphan", BillOf(r)>> \notin breaks
      BY <1>4, <3>2 DEF Silent
    <3>4. <<"missing", r>> \notin breaks /\ <<"mismatch", r>> \notin breaks
      BY <1>4, <2>1 DEF Silent
    <3> QED
      BY <1>6, <3>1, <3>3, <3>4 DEF TellsBill
  <2>2. CASE RealmOf[r] # run.realm
    <3>1. TellsBill(breaks, r)
      BY <1>2, <1>3, <1>6, <1>11, <2>2 DEF RealmsTold
    <3>2. <<"missing", r>> \notin X /\ <<"mismatch", r>> \notin X /\ <<"orphan", BillOf(r)>> \notin X
      BY <1>5, <2>2 DEF BillOf
    <3> QED
      BY <1>6, <3>1, <3>2 DEF TellsBill
  <2> QED
    BY <2>1, <2>2
<1>12. RealmsTold'
  <2>1. \A realm \in Realms \ Done' : Silent(breaks, realm)'
    BY <1>6, <1>10 DEF Silent
  <2>2. \A r \in Rows \ touched :
          RealmOf[r] \in Done' /\ <<"failed", RealmOf[r]>> \notin B => TellsBill(B, r)'
    BY <1>11, SameTelling
  <2>3. \A r \in Rows \ touched : TellsBill(B, r)' => TellsBill(breaks, r)'
    BY <1>6 DEF TellsBill
  <2> QED
    BY <1>6, <2>1, <2>2, <2>3 DEF RealmsTold
<1> QED
  BY <1>7, <1>8, <1>9, <1>12

\* The run moves on, and its locals are as they were.
LEMMA Moved ==
  ASSUME RunOK, NEW l, run' = [run EXCEPT !.at = l]
  PROVE  /\ run'.at = l /\ run'.targets = run.targets /\ run'.todo = run.todo
         /\ run'.remote = run.remote
BY DEF RunOK, Run

\* Before the companies are chosen, none is done with.
LEMMA NoneDone ==
  ASSUME RunInv, run.at \in {"idle", "stalled", "duplicates", "list"}
  PROVE  Done = {} /\ DOMAIN run.remote = {}
BY DEF RunInv, Stages, Done, IndexTrue, InRealm

LEMMA BeginTells ==
  ASSUME RunOK, RunInv, Begin
  PROVE  RunInv' /\ RecordTells'
<1> USE DEF RunInv
<1>1. /\ run.at = "idle" /\ breaks' = {} /\ reports' = {} /\ UNCHANGED world
      /\ run' = [run EXCEPT !.at = "stalled"]
  BY DEF Begin
<1>2. /\ run'.at = "stalled" /\ run'.targets = {} /\ DOMAIN run'.remote = {}
  BY <1>1, Moved, NoneDone DEF Stages
<1>3. PostedIsFresh' /\ Stages' /\ LocalTold' /\ IndexTrue' /\ SuspectsTrue'
  BY <1>1, <1>2 DEF PostedIsFresh, Stages, LocalTold, IndexTrue, SuspectsTrue, InRealm, world
<1>4. RealmsTold'
  BY <1>1, <1>2 DEF RealmsTold, Silent, Done, InRealm
<1>5. RecordTells'
  BY <1>1 DEF RecordTells
<1> QED
  BY <1>3, <1>4, <1>5

\* The first local check reports the invoices that are stalled, and no other.
LEMMA StalledTells ==
  ASSUME WorldOK, RunOK, RunInv, FindStalled
  PROVE  RunInv'
<1> USE DEF RunInv
<1> DEFINE late == {r \in Rows : rows[r].status = "posting" /\ rows[r].aged}
<1>1. /\ run.at = "stalled" /\ breaks' = {<<"stalled", r>> : r \in late}
      /\ run' = [run EXCEPT !.at = "duplicates"] /\ UNCHANGED <<world, touched>>
  BY DEF FindStalled
<1>2. /\ run'.at = "duplicates" /\ run'.targets = {} /\ DOMAIN run'.remote = {}
  BY <1>1, Moved, NoneDone DEF Stages
<1>3. breaks' \subseteq {"stalled"} \X Rows
  BY <1>1
<1>4. \A r \in Rows : <<"stalled", r>> \in breaks' <=> rows[r].aged
  <2>1. \A r \in Rows : r \in late <=> rows[r].aged
    BY DEF PostedIsFresh, WorldOK, Row
  <2> HIDE DEF late
  <2> QED
    BY <1>1, <2>1
<1>5. PostedIsFresh' /\ Stages' /\ IndexTrue' /\ SuspectsTrue'
  BY <1>1, <1>2, <1>3 DEF PostedIsFresh, Stages, IndexTrue, SuspectsTrue, InRealm, world
<1>6. LocalTold'
  BY <1>1, <1>2, <1>4 DEF LocalTold, TellsStalled, world
<1>7. RealmsTold'
  BY <1>2, <1>3 DEF RealmsTold, Silent, Done, InRealm
<1> QED
  BY <1>5, <1>6, <1>7

\* The second reports the bills that several invoices name, and no other.
LEMMA DuplicatesTell ==
  ASSUME WorldOK, RunOK, RunInv, FindDuplicates
  PROVE  RunInv'
<1> USE DEF RunInv
<1> DEFINE named(b) == {r \in Posted(b[1]) : rows[r].recent /\ BillOf(r) = b}
           shared == {b \in Bills : Cardinality(named(b)) > 1}
<1>1. /\ run.at = "duplicates" /\ breaks' = breaks \cup {<<"duplicate", b>> : b \in shared}
      /\ run' = [run EXCEPT !.at = "list"] /\ UNCHANGED <<world, touched>>
  BY Zenon DEF FindDuplicates
<1>2. /\ run'.at = "list" /\ run'.targets = {} /\ DOMAIN run'.remote = {}
  BY <1>1, Moved, NoneDone DEF Stages
<1>3. breaks \subseteq {"stalled"} \X Rows
  BY <1>1 DEF Stages
<1>4. \A r \in Rows : BillOf(r) \in shared <=> Cardinality(Sharers(r)) > 1
  <2> SUFFICES ASSUME NEW r \in Rows
               PROVE  BillOf(r) \in shared <=> Cardinality(Sharers(r)) > 1
    OBVIOUS
  <2>1. named(BillOf(r)) = Sharers(r)
    BY DEF Sharers, BillOf
  <2>2. BillOf(r) \in shared <=> BillOf(r) \in Bills /\ Cardinality(Sharers(r)) > 1
    BY <2>1, Zenon
  <2> HIDE DEF shared, named
  <2>3. CASE Sharers(r) = {}
    <3>1. Cardinality(Sharers(r)) = 0
      BY <2>3, FS_EmptySet
    <3> QED
      BY <2>2, <3>1
  <2>4. CASE Sharers(r) # {}
    <3>1. PICK s \in Rows : rows[s].status = "posted" /\ BillOf(s) = BillOf(r)
      BY <2>4 DEF Sharers, Posted
    <3>2. BillOf(r) \in Bills
      BY <3>1 DEF WorldOK
    <3> QED
      BY <2>2, <3>2
  <2> QED
    BY <2>3, <2>4
<1> HIDE DEF shared
<1>5. PICK B : B = breaks'
  OBVIOUS
<1>6. PostedIsFresh' /\ Stages' /\ IndexTrue' /\ SuspectsTrue'
  BY <1>1, <1>2 DEF PostedIsFresh, Stages, IndexTrue, SuspectsTrue, InRealm, world
<1>7. LocalTold'
  <2> SUFFICES ASSUME NEW r \in Rows \ touched
               PROVE  TellsStalled(B, r)' /\ TellsShared(B, r)'
    BY <1>1, <1>5 DEF LocalTold, TellsStalled, TellsShared
  <2>1. TellsStalled(breaks, r)
    BY <1>1 DEF LocalTold
  <2>2. <<"stalled", r>> \in B <=> <<"stalled", r>> \in breaks
    BY <1>1, <1>5
  <2>3. <<"duplicate", BillOf(r)>> \in B <=> BillOf(r) \in shared
    BY <1>1, <1>3, <1>5
  <2>4. TellsStalled(B, r) /\ TellsShared(B, r)
    BY <1>4, <2>1, <2>2, <2>3 DEF TellsStalled, TellsShared
  <2> QED
    BY <1>1, <2>4, SameTelling
<1>8. \A m \in breaks' : m[1] \in {"stalled", "duplicate"}
  BY <1>1, <1>3
<1>9. RealmsTold'
  BY <1>2, <1>8 DEF RealmsTold, Silent, Done, InRealm
<1> QED
  BY <1>6, <1>7, <1>9

\* Choosing the companies, and the next of them, reports nothing and finishes none.
LEMMA ChoosingTells ==
  ASSUME RunOK, RunInv, ListRealms \/ NextRealm
  PROVE  RunInv'
<1> USE DEF RunInv
<1>1. UNCHANGED <<world, touched, breaks>> /\ run.at \in {"list", "next"}
  BY DEF ListRealms, NextRealm
<1>2. /\ Done' = Done /\ DOMAIN run'.remote = {} /\ run'.at \in {"next", "page", "persist"}
      /\ run'.at = "persist" => run'.todo = {}
  <2>1. DOMAIN run.remote = {}
    BY <1>1 DEF IndexTrue, InRealm
  <2>2. CASE ListRealms
    <3>1. PICK targets \in SUBSET Realms :
            run' = [run EXCEPT !.at = "next", !.targets = targets, !.todo = targets]
      BY <2>2 DEF ListRealms
    <3>2. run'.at = "next" /\ run'.todo = run'.targets /\ run'.remote = run.remote
      BY <3>1 DEF RunOK, Run
    <3>3. Done = {}
      BY <2>2, NoneDone DEF ListRealms
    <3> QED
      BY <2>1, <3>2, <3>3 DEF Done, InRealm
  <2>3. CASE NextRealm /\ run' = [run EXCEPT !.at = "persist"]
    <3>1. CASE run.todo = {}
      BY <1>1, <2>1, <2>3, <3>1, Moved DEF Done, InRealm, NextRealm
    <3>2. CASE run.todo # {}
      BY <2>3, <3>2 DEF NextRealm, RunOK, Run
    <3> QED
      BY <3>1, <3>2
  <2>4. CASE NextRealm /\ run' # [run EXCEPT !.at = "persist"]
    <3>1. PICK realm \in run.todo :
            run' = [run EXCEPT !.at = "page", !.todo = @ \ {realm}, !.realm = realm]
      BY <2>4 DEF NextRealm
    <3>2. /\ run'.at = "page" /\ run'.realm = realm /\ run'.todo = run.todo \ {realm}
          /\ run'.targets = run.targets /\ run'.remote = run.remote
      BY <3>1 DEF RunOK, Run
    <3>3. Done = run.targets \ run.todo
      BY <2>4 DEF Done, InRealm, NextRealm
    <3>4. Done' = run.targets \ ((run.todo \ {realm}) \cup {realm})
      BY <3>2 DEF Done, InRealm
    <3>5. Done' = Done
      BY <3>1, <3>3, <3>4
    <3> QED
      BY <2>1, <3>2, <3>5
  <2> QED
    BY <2>2, <2>3, <2>4
<1>3. Stages' /\ IndexTrue' /\ SuspectsTrue'
  BY <1>2 DEF Stages, IndexTrue, SuspectsTrue
<1> QED
  BY <1>1, <1>2, <1>3, NothingTold

\* A page adds bills to the index as they are.
LEMMA PageTells ==
  ASSUME WorldOK, RunOK, RunInv, Page
  PROVE  RunInv'
<1> USE DEF RunInv
<1>1. PICK page \in SUBSET Ids, l \in {"local", "page"} :
        /\ run' = [run EXCEPT !.remote = [i \in page \cup DOMAIN @ |->
                                  IF i \in page THEN bills[<<run.realm, i>>] ELSE @[i]],
                             !.start = @ + PageSize, !.at = l]
        /\ \A i \in page : There(<<run.realm, i>>)
  <2> DEFINE dated == {i \in Ids : <<run.realm, i>> \in Bills /\ There(<<run.realm, i>>)
                            /\ bills[<<run.realm, i>>].dated}
             position(i) == Cardinality({j \in dated : j <= i})
             page == {i \in dated : position(i) \in run.start .. run.start + PageSize - 1}
             l == IF Cardinality(page) < PageSize THEN "local" ELSE "page"
  <2>1. run' = [run EXCEPT !.remote = [i \in page \cup DOMAIN @ |->
                                  IF i \in page THEN bills[<<run.realm, i>>] ELSE @[i]],
                             !.start = @ + PageSize, !.at = l]
    BY Zenon DEF Page
  <2>2. l \in {"local", "page"}
    BY Zenon
  <2>3. page \in SUBSET Ids /\ \A i \in page : There(<<run.realm, i>>)
    <3> HIDE DEF position
    <3> QED OBVIOUS
  <2> HIDE DEF page, l
  <2> QED
    BY <2>1, <2>2, <2>3
<1> DEFINE remote == [i \in page \cup DOMAIN run.remote |->
                        IF i \in page THEN bills[<<run.realm, i>>] ELSE run.remote[i]]
<1>2. /\ run' = [run EXCEPT !.remote = remote, !.start = @ + PageSize, !.at = l]
      /\ run.at = "page" /\ UNCHANGED <<world, breaks, touched>>
  BY <1>1 DEF Page
<1>3. \A i \in DOMAIN remote : \/ i \in page /\ remote[i] = bills[<<run.realm, i>>]
                               \/ i \in DOMAIN run.remote /\ remote[i] = run.remote[i]
  OBVIOUS
<1> HIDE DEF remote
<1>4. /\ run'.at = l /\ run'.realm = run.realm /\ run'.todo = run.todo
      /\ run'.targets = run.targets /\ run'.remote = remote
  BY <1>2 DEF RunOK, Run
<1>5. Done' = Done
  BY <1>2, <1>4 DEF Done, InRealm
<1>6. IndexTrue'
  <2> SUFFICES ASSUME NEW r \in Rows \ touched, RealmOf[r] = run.realm,
                      rows[r].bill \in DOMAIN remote
               PROVE  There(BillOf(r)) /\ remote[rows[r].bill] = bills[BillOf(r)]
    BY <1>2, <1>4, SameTelling DEF IndexTrue, InRealm, world
  <2>1. BillOf(r) = <<run.realm, rows[r].bill>>
    BY DEF BillOf
  <2> QED
    BY <1>1, <1>2, <1>3, <2>1 DEF IndexTrue, InRealm
<1>7. Stages' /\ SuspectsTrue'
  BY <1>1, <1>4 DEF Stages, SuspectsTrue
<1> QED
  BY <1>2, <1>5, <1>6, <1>7, NothingTold

\* A company that fails is reported so, and nothing else of it.
LEMMA FailureTells ==
  ASSUME WorldOK, RunOK, RunInv, PageFails \/ CompareFails \/ RecheckFails
  PROVE  RunInv'
<1>1. /\ run.at \in InRealm /\ breaks' = breaks \cup {<<"failed", run.realm>>} /\ run' = Leave
      /\ UNCHANGED <<world, touched>>
  BY DEF PageFails, CompareFails, RecheckFails, RealmFails, InRealm
<1>2. {<<"failed", run.realm>>} \in SUBSET Of(run.realm)
  BY DEF Of
<1> QED
  BY <1>1, <1>2, CompanyTold

\* A company ends with what was found of its invoices and with its orphans, which is what a
\* record has to tell if every invoice compared and in the index was seen.
LEMMA EndTells ==
  ASSUME WorldOK, RunOK, RunInv, run.at \in InRealm, UNCHANGED <<world, touched>>,
         NEW found \in SUBSET ({"missing", "mismatch"} \X {r \in Rows : RealmOf[r] = run.realm}),
         NEW seen, EndRealm(found, seen),
         \A r \in Rows \ touched : RealmOf[r] = run.realm =>
           /\ <<"missing", r>> \in found <=> Compared(r) /\ bills[BillOf(r)] = Gone
           /\ <<"mismatch", r>> \in found <=>
                Compared(r) /\ There(BillOf(r)) /\ Differs(bills[BillOf(r)].total, r)
           /\ Compared(r) /\ rows[r].bill \in DOMAIN run.remote => rows[r].bill \in seen
  PROVE  RunInv'
<1> DEFINE orphans == {<<"orphan", <<run.realm, i>>>> : i \in DOMAIN run.remote \ seen}
<1>1. breaks' = breaks \cup (found \cup orphans) /\ run' = Leave
  BY DEF EndRealm
<1>2. orphans \subseteq {"orphan"} \X ({run.realm} \X Ids)
  <2>1. DOMAIN run.remote \subseteq Ids
    BY InARealm
  <2> QED
    BY <2>1
<1>3. \A i : <<"orphan", <<run.realm, i>>>> \in orphans => i \in DOMAIN run.remote \ seen
  OBVIOUS
<1> HIDE DEF orphans
<1>4. found \cup orphans \in SUBSET Of(run.realm)
  BY <1>2 DEF Of
<1>5. ASSUME NEW r \in Rows \ touched, RealmOf[r] = run.realm
      PROVE  TellsBill(found \cup orphans, r)
  <2>1. <<"missing", r>> \notin orphans /\ <<"mismatch", r>> \notin orphans
    BY <1>2
  <2>2. <<"orphan", BillOf(r)>> \notin found
    OBVIOUS
  <2>3. BillOf(r) = <<run.realm, rows[r].bill>>
    BY <1>5 DEF BillOf
  <2>4. Compared(r) => <<"orphan", BillOf(r)>> \notin orphans
    BY <1>3, <1>5, <2>3
  <2> QED
    BY <1>5, <2>1, <2>2, <2>4 DEF TellsBill
<1> QED
  BY <1>1, <1>4, <1>5, CompanyTold

\* The mismatches of invoices are those whose bill has another total.
LEMMA MismatchesTell ==
  ASSUME NEW I, NEW f, DOMAIN f = I, NEW r
  PROVE  <<"mismatch", r>> \in Mismatches(f) <=> r \in I /\ Differs(f[r].total, r)
BY DEF Mismatches

\* The rows looked at are the compared ones of the company, and the index tells of the known.
LEMMA IndexTells ==
  ASSUME WorldOK, RunInv, run.at \in InRealm
  PROVE  /\ InIndex \subseteq {"mismatch"} \X {r \in Rows : RealmOf[r] = run.realm}
         /\ \A r \in Rows : r \in Looked <=> Compared(r) /\ RealmOf[r] = run.realm
         /\ \A r \in Rows : r \in Known <=> r \in Looked /\ rows[r].bill \in DOMAIN run.remote
         /\ \A r \in Rows \ touched : RealmOf[r] = run.realm =>
              /\ r \in Known => There(BillOf(r))
              /\ <<"mismatch", r>> \in InIndex <=> r \in Known /\ Differs(bills[BillOf(r)].total, r)
<1>1. \A r \in Rows : r \in Looked <=> Compared(r) /\ RealmOf[r] = run.realm
  BY DEF Looked, Posted, Compared
<1>2. \A r \in Rows : r \in Known <=> r \in Looked /\ rows[r].bill \in DOMAIN run.remote
  BY DEF Known
<1>3. Known \in SUBSET {r \in Rows : RealmOf[r] = run.realm}
  BY DEF Known, Looked, Posted
<1> DEFINE f == [r \in Known |-> run.remote[rows[r].bill]]
<1>4. DOMAIN f = Known /\ \A r \in Known : f[r] = run.remote[rows[r].bill]
  OBVIOUS
<1>5. InIndex = Mismatches(f)
  BY DEF InIndex
<1> HIDE DEF f
<1>6. InIndex \subseteq {"mismatch"} \X {r \in Rows : RealmOf[r] = run.realm}
  BY <1>3, <1>4, <1>5 DEF Mismatches
<1>7. \A r \in Rows : <<"mismatch", r>> \in InIndex <=>
        r \in Known /\ Differs(run.remote[rows[r].bill].total, r)
  <2>1. \A r : <<"mismatch", r>> \in Mismatches(f) <=> r \in DOMAIN f /\ Differs(f[r].total, r)
    BY MismatchesTell
  <2> QED
    BY <1>4, <1>5, <2>1
<1>8. \A r \in Rows \ touched : RealmOf[r] = run.realm /\ r \in Known =>
        There(BillOf(r)) /\ run.remote[rows[r].bill] = bills[BillOf(r)]
  BY <1>2 DEF RunInv, IndexTrue
<1> QED
  BY <1>1, <1>2, <1>6, <1>7, <1>8

\* What the index does not tell of is left for the second look.
LEMMA CompareTells ==
  ASSUME WorldOK, RunOK, RunInv, Compare
  PROVE  RunInv'
<1>1. run.at = "local" /\ run.at \in InRealm /\ UNCHANGED <<world, touched>>
  BY DEF Compare, InRealm
<1> DEFINE seen == {rows[r].bill : r \in Known}
<1>2. \A r \in Known : rows[r].bill \in seen
  OBVIOUS
<1> HIDE DEF seen
<1>3. CASE Looked = Known /\ EndRealm(InIndex, seen)
  <2>1. ASSUME NEW r \in Rows \ touched, RealmOf[r] = run.realm
        PROVE  /\ <<"missing", r>> \in InIndex <=> Compared(r) /\ bills[BillOf(r)] = Gone
               /\ <<"mismatch", r>> \in InIndex <=>
                    Compared(r) /\ There(BillOf(r)) /\ Differs(bills[BillOf(r)].total, r)
               /\ Compared(r) /\ rows[r].bill \in DOMAIN run.remote => rows[r].bill \in seen
    <3>1. /\ <<"missing", r>> \notin InIndex /\ (r \in Known <=> Compared(r))
          /\ r \in Known => There(BillOf(r))
          /\ <<"mismatch", r>> \in InIndex <=> r \in Known /\ Differs(bills[BillOf(r)].total, r)
      BY <1>1, <1>3, <2>1, IndexTells
    <3> QED
      BY <1>2, <3>1 DEF There
  <2>2. InIndex \in SUBSET ({"missing", "mismatch"} \X {r \in Rows : RealmOf[r] = run.realm})
    BY <1>1, IndexTells
  <2> QED
    BY <1>1, <1>3, <2>1, <2>2, EndTells
<1>4. CASE /\ run' = [run EXCEPT !.at = "recheck", !.found = InIndex, !.suspects = Looked \ Known,
                                !.seen = seen]
           /\ UNCHANGED breaks
  <2>1. /\ run'.at = "recheck" /\ run'.realm = run.realm /\ run'.todo = run.todo
        /\ run'.targets = run.targets /\ run'.suspects = Looked \ Known /\ run'.found = InIndex
        /\ run'.seen = seen /\ run'.remote = run.remote
    BY <1>4 DEF RunOK, Run
  <2>2. Done' = Done
    BY <1>1, <2>1 DEF Done, InRealm
  <2>3. IndexTrue'
    BY <1>1, <2>1 DEF RunInv, IndexTrue, InRealm, world, BillOf, There
  <2>4. Stages'
    BY <2>1 DEF Stages
  <2>5. SuspectsTrue'
    <3> SUFFICES ASSUME NEW r \in Rows \ touched, RealmOf[r] = run.realm
                 PROVE  LET indexed == Compared(r) /\ rows[r].bill \in DOMAIN run.remote IN
                          /\ <<"mismatch", r>> \in InIndex <=> indexed /\ Differs(bills[BillOf(r)].total, r)
                          /\ indexed => rows[r].bill \in seen
                          /\ r \in Looked \ Known <=> Compared(r) /\ ~indexed
      BY <1>1, <2>1, IndexTells DEF SuspectsTrue, world, BillOf, Compared
    <3> QED
      BY <1>1, <1>2, IndexTells
  <2> QED
    BY <1>1, <1>4, <2>2, <2>3, <2>4, <2>5, NothingTold DEF RunInv
<1> QED
  BY <1>3, <1>4 DEF Compare, seen

\* The second look tells of the suspects, and the first of the others.
LEMMA RecheckTells ==
  ASSUME WorldOK, RunOK, RunInv, Recheck
  PROVE  RunInv'
<1> DEFINE bill(r) == <<run.realm, rows[r].bill>>
           there == {r \in run.suspects : There(bill(r))}
           f == [r \in there |-> bills[bill(r)]]
           lost == {<<"missing", r>> : r \in run.suspects \ there}
           found == run.found \cup Mismatches(f) \cup lost
           ours == {r \in Rows : RealmOf[r] = run.realm}
<1>1. run.at = "recheck" /\ run.at \in InRealm /\ UNCHANGED <<world, touched>>
  BY DEF Recheck, InRealm
<1>2. EndRealm(found, run.seen)
  BY Zenon DEF Recheck
<1>3. run.suspects \subseteq ours /\ run.found \subseteq {"mismatch"} \X ours
  BY <1>1 DEF RunOK, RunInv, SuspectsTrue, Posted
<1>4. \A r : r \in there <=> r \in run.suspects /\ There(BillOf(r))
  BY <1>3 DEF BillOf
<1>5. DOMAIN f = there /\ \A r \in there : f[r] = bills[BillOf(r)]
  BY <1>3 DEF BillOf
<1>6. \A r : <<"missing", r>> \in lost <=> r \in run.suspects \ there
  OBVIOUS
<1> HIDE DEF f, there, ours
<1>7. lost \subseteq {"missing"} \X ours
  BY <1>3
<1>8. /\ Mismatches(f) \subseteq {"mismatch"} \X ours
      /\ \A r : <<"mismatch", r>> \in Mismatches(f) <=>
           r \in run.suspects /\ There(BillOf(r)) /\ Differs(bills[BillOf(r)].total, r)
  <2>1. \A r : <<"mismatch", r>> \in Mismatches(f) <=> r \in DOMAIN f /\ Differs(f[r].total, r)
    BY MismatchesTell
  <2>2. there \subseteq ours
    BY <1>3, <1>4
  <2>3. Mismatches(f) \subseteq {"mismatch"} \X there
    BY <1>5 DEF Mismatches
  <2> QED
    BY <1>4, <1>5, <2>1, <2>2, <2>3
<1> HIDE DEF lost
<1>9. found \in SUBSET ({"missing", "mismatch"} \X {r \in Rows : RealmOf[r] = run.realm})
  BY <1>3, <1>7, <1>8 DEF ours
<1>10. ASSUME NEW r \in Rows \ touched, RealmOf[r] = run.realm
       PROVE  /\ <<"missing", r>> \in found <=> Compared(r) /\ bills[BillOf(r)] = Gone
              /\ <<"mismatch", r>> \in found <=>
                   Compared(r) /\ There(BillOf(r)) /\ Differs(bills[BillOf(r)].total, r)
              /\ Compared(r) /\ rows[r].bill \in DOMAIN run.remote => rows[r].bill \in run.seen
  <2> DEFINE indexed == Compared(r) /\ rows[r].bill \in DOMAIN run.remote
  <2>1. /\ <<"mismatch", r>> \in run.found <=> indexed /\ Differs(bills[BillOf(r)].total, r)
        /\ indexed => rows[r].bill \in run.seen
        /\ r \in run.suspects <=> Compared(r) /\ ~indexed
    BY <1>1, <1>10 DEF RunInv, SuspectsTrue
  <2>2. indexed => There(BillOf(r))
    BY <1>1, <1>10 DEF RunInv, IndexTrue
  <2>3. Compared(r) => bills[BillOf(r)] # None
    BY DEF Compared, WorldOK
  <2>4. <<"missing", r>> \in found <=> r \in run.suspects /\ ~There(BillOf(r))
    BY <1>3, <1>4, <1>6, <1>8
  <2>5. <<"mismatch", r>> \in found <=>
          \/ <<"mismatch", r>> \in run.found
          \/ r \in run.suspects /\ There(BillOf(r)) /\ Differs(bills[BillOf(r)].total, r)
    BY <1>7, <1>8
  <2>6. There(BillOf(r)) <=> bills[BillOf(r)] \notin {None, Gone}
    BY DEF There
  <2> HIDE DEF indexed
  <2> QED
    BY <2>1, <2>2, <2>3, <2>4, <2>5, <2>6 DEF indexed
<1> HIDE DEF found
<1> QED
  BY <1>1, <1>2, <1>9, <1>10, EndTells

\* What a run records when it ends is what it told of each company it went through.
LEMMA EndIsRecorded ==
  ASSUME RunOK, RunInv, RecordTells, Persist
  PROVE  RunInv' /\ RecordTells'
<1> USE DEF RunInv
<1>1. /\ run.at = "persist" /\ run' = Idle /\ UNCHANGED <<world, breaks, touched>>
      /\ reports' = reports \cup {[targets |-> run.targets, breaks |-> breaks]}
  BY DEF Persist
<1>2. /\ run'.at = "idle" /\ run'.targets = {} /\ DOMAIN run'.remote = {}
  BY <1>1, IdleTypes DEF Idle
<1>3. RunInv'
  BY <1>1, <1>2 DEF PostedIsFresh, Stages, LocalTold, RealmsTold, IndexTrue, SuspectsTrue, InRealm, world
<1>4. Done = run.targets
  BY <1>1 DEF Stages, Done, InRealm
<1>5. PICK B : B = breaks
  OBVIOUS
<1>6. ASSUME NEW r \in Rows \ touched
      PROVE  /\ RealmOf[r] \in run.targets /\ <<"failed", RealmOf[r]>> \notin B => TellsBill(B, r)
             /\ TellsStalled(B, r) /\ TellsShared(B, r)
  BY <1>1, <1>4, <1>5 DEF RealmsTold, LocalTold
<1>7. RecordTells'
  <2> SUFFICES ASSUME NEW p \in reports', NEW r \in Rows \ touched
               PROVE  /\ RealmOf[r] \in p.targets /\ <<"failed", RealmOf[r]>> \notin p.breaks =>
                           TellsBill(p.breaks, r)'
                      /\ TellsStalled(p.breaks, r)' /\ TellsShared(p.breaks, r)'
    BY <1>1 DEF RecordTells, TellsBill, TellsStalled, TellsShared, Compared, Sharers
  <2>1. CASE p \in reports
    <3>1. /\ RealmOf[r] \in p.targets /\ <<"failed", RealmOf[r]>> \notin p.breaks => TellsBill(p.breaks, r)
          /\ TellsStalled(p.breaks, r) /\ TellsShared(p.breaks, r)
      BY <2>1 DEF RecordTells
    <3> QED
      BY <1>1, <3>1, SameTelling
  <2>2. CASE p.targets = run.targets /\ p.breaks = B
    <3>1. /\ RealmOf[r] \in p.targets /\ <<"failed", RealmOf[r]>> \notin p.breaks => TellsBill(p.breaks, r)
          /\ TellsStalled(p.breaks, r) /\ TellsShared(p.breaks, r)
      BY <1>6, <2>2
    <3> QED
      BY <1>1, <3>1, SameTelling
  <2> QED
    BY <1>1, <1>5, <2>1, <2>2
<1> QED
  BY <1>3, <1>7

\* A run that dies tells nothing.
LEMMA DeathTells ==
  ASSUME RunInv, RecordTells, Die
  PROVE  RunInv' /\ RecordTells'
<1>1. run' = Idle /\ UNCHANGED <<world, reports, touched>>
  BY DEF Die
<1>2. /\ run'.at = "idle" /\ run'.targets = {} /\ DOMAIN run'.remote = {}
  BY <1>1, IdleTypes DEF Idle
<1>3. RunInv'
  BY <1>1, <1>2 DEF RunInv, PostedIsFresh, Stages, LocalTold, RealmsTold, IndexTrue, SuspectsTrue,
                    InRealm, world
<1> QED
  BY <1>1, <1>3, SameRecord

-----------------------------------------------------------------------------

\* At the start nothing is told.
LEMMA InitTells == Init => RunInv /\ RecordTells
<1> SUFFICES ASSUME Init PROVE RunInv /\ RecordTells
  OBVIOUS
<1>1. /\ run.at = "idle" /\ run.targets = {} /\ DOMAIN run.remote = {} /\ reports = {}
  BY IdleTypes DEF Init, Idle
<1>2. PostedIsFresh
  BY DEF Init, PostedIsFresh
<1> QED
  BY <1>1, <1>2 DEF RunInv, Stages, LocalTold, RealmsTold, IndexTrue, SuspectsTrue, InRealm,
                    RecordTells

TellInv == ReconcilerInv /\ RunInv /\ RecordTells

LEMMA StepTells == TellInv /\ [Next]_vars => TellInv'
<1> SUFFICES ASSUME TellInv, [Next]_vars PROVE TellInv'
  OBVIOUS
<1>0. WorldOK /\ RunOK /\ RunInv /\ RecordTells
  BY TypeParts DEF TellInv, ReconcilerInv
<1>1. ReconcilerInv'
  BY StepKeeps DEF TellInv
<1> SUFFICES RunInv' /\ RecordTells'
  BY <1>1 DEF TellInv
<1>2. CASE Begin
  BY <1>0, <1>2, BeginTells
<1>3. CASE FindStalled \/ FindDuplicates
  <2>1. RunInv'
    BY <1>0, <1>3, StalledTells, DuplicatesTell
  <2>2. UNCHANGED <<world, reports, touched>>
    BY <1>3 DEF FindStalled, FindDuplicates
  <2> QED
    BY <1>0, <2>1, <2>2, SameRecord
<1>4. CASE ListRealms \/ NextRealm
  <2>1. RunInv'
    BY <1>0, <1>4, ChoosingTells
  <2>2. UNCHANGED <<world, reports, touched>>
    BY <1>4 DEF ListRealms, NextRealm
  <2> QED
    BY <1>0, <2>1, <2>2, SameRecord
<1>5. CASE Page
  <2>1. RunInv'
    BY <1>0, <1>5, PageTells
  <2>2. UNCHANGED <<world, reports, touched>>
    BY <1>5 DEF Page
  <2> QED
    BY <1>0, <2>1, <2>2, SameRecord
<1>6. CASE PageFails \/ CompareFails \/ RecheckFails
  <2>1. RunInv'
    BY <1>0, <1>6, FailureTells
  <2>2. UNCHANGED <<world, reports, touched>>
    BY <1>6 DEF PageFails, CompareFails, RecheckFails
  <2> QED
    BY <1>0, <2>1, <2>2, SameRecord
<1>7. CASE Compare \/ Recheck
  <2>1. RunInv'
    BY <1>0, <1>7, CompareTells, RecheckTells
  <2>2. UNCHANGED <<world, reports, touched>>
    BY <1>7 DEF Compare, Recheck
  <2> QED
    BY <1>0, <2>1, <2>2, SameRecord
<1>8. CASE Persist \/ Die
  BY <1>0, <1>8, EndIsRecorded, DeathTells
<1>9. CASE \/ \E b \in Bills : EditBill(b) \/ \E r \in Rows : CreateBill(r, b)
           \/ \E r \in Rows : RecordPosted(r)
  <2>1. PostedIsFresh
    BY <1>0 DEF RunInv
  <2>2. Steady
    BY <1>0, <1>9, <2>1, EditIsSteady, CreateIsSteady, RecordIsSteady
  <2> QED
    BY <1>0, <2>2, SteadyKeeps
<1>10. CASE UNCHANGED vars
  <2>1. Steady
    BY <1>0, <1>10 DEF Steady, RunInv, PostedIsFresh, vars, world, BillOf
  <2> QED
    BY <1>0, <2>1, SteadyKeeps
<1> QED
  BY <1>2, <1>3, <1>4, <1>5, <1>6, <1>7, <1>8, <1>9, <1>10 DEF Next

-----------------------------------------------------------------------------
(* Amounts of two decimals are rounded to what they are *)

\* Of whole hundredths the rounding leaves the amount.
LEMMA WholeHundredths ==
  ASSUME NEW n \in Nat
  PROVE  Hundredths(n * 10) = n
<1>1. (n * 10) % 10 = 0 /\ (n * 10) \div 10 = n
  OBVIOUS
<1> QED
  BY <1>1 DEF Hundredths

\* An amount that differs by a hundredth or more is not rounded to the same.
LEMMA ApartIsTold ==
  ASSUME NEW t \in Nat, NEW n \in Nat, Apart(t, n * 10, 10)
  PROVE  Hundredths(t) # n
<1>1. /\ t \div 10 \in Nat /\ t % 10 \in 0 .. 9 /\ t = 10 * (t \div 10) + (t % 10)
  OBVIOUS
<1>2. CASE t >= n * 10 + 10
  <2>1. t \div 10 >= n + 1
    BY <1>1, <1>2
  <2> QED
    BY <1>1, <2>1 DEF Hundredths
<1>3. CASE n * 10 >= t + 10
  <2>1. t \div 10 + 1 <= n - 1 \/ (t \div 10 + 1 = n /\ t % 10 = 0)
    BY <1>1, <1>3
  <2> QED
    BY <1>1, <2>1 DEF Hundredths
<1> QED
  BY <1>2, <1>3 DEF Apart

\* So a record that tells what it has to is accurate.
LEMMA TellingIsAccurate ==
  ASSUME WorldOK, RecordTells
  PROVE  RecordIsAccurate
<1>1. ASSUME NEW r \in Rows, There(BillOf(r)), Compared(r), Unit[r] = 10
      PROVE  LET total == bills[BillOf(r)].total IN
               /\ Differs(total, r) => total # Worth(r)
               /\ Apart(total, Worth(r), 10) => Differs(total, r)
  <2>1. bills[BillOf(r)] \in Bill
    BY <1>1 DEF There, WorldOK, Compared
  <2>2. bills[BillOf(r)].total \in Nat
    BY <2>1, ReconcilerConstants DEF Bill
  <2>3. Total[r] \in Nat
    BY <1>1, ReconcilerConstants
  <2>4. Worth(r) = Total[r] * 10
    BY <1>1 DEF Worth
  <2> QED
    BY <2>2, <2>3, <2>4, WholeHundredths, ApartIsTold DEF Differs
<1> SUFFICES ASSUME NEW p \in reports, NEW r \in Rows \ touched
             PROVE  LET realm == RealmOf[r]  bill == bills[BillOf(r)]
                        sharers == {s \in Posted(realm) : rows[s].recent /\ BillOf(s) = BillOf(r)}
                    IN
                    /\ realm \in p.targets /\ <<"failed", realm>> \notin p.breaks =>
                         /\ <<"missing", r>> \in p.breaks <=> Compared(r) /\ bill = Gone
                         /\ <<"mismatch", r>> \in p.breaks => Compared(r) /\ There(BillOf(r))
                         /\ Unit[r] = 10 /\ Compared(r) /\ There(BillOf(r)) =>
                              /\ <<"mismatch", r>> \in p.breaks => bill.total # Worth(r)
                              /\ Apart(bill.total, Worth(r), 10) => <<"mismatch", r>> \in p.breaks
                         /\ Compared(r) => <<"orphan", BillOf(r)>> \notin p.breaks
                    /\ <<"stalled", r>> \in p.breaks <=> rows[r].aged
                    /\ sharers \cap touched = {} =>
                         (<<"duplicate", BillOf(r)>> \in p.breaks <=> Cardinality(sharers) > 1)
  BY Zenon DEF RecordIsAccurate, Compared
<1>2. /\ RealmOf[r] \in p.targets /\ <<"failed", RealmOf[r]>> \notin p.breaks => TellsBill(p.breaks, r)
      /\ TellsStalled(p.breaks, r) /\ TellsShared(p.breaks, r)
  BY DEF RecordTells
<1> QED
  BY <1>1, <1>2 DEF TellsBill, TellsStalled, TellsShared, Sharers

\* What a finished run recorded tells the truth of every invoice nobody touched while it ran:
\* missing, orphaned, stalled and shared bills, and for currencies of two decimals those whose
\* amount is another, unless the company is reported as failed.  It speaks of recorded runs: a
\* statement that fails while a company is compared leaves none (run_reconciliation,
\* reconcile_realm, compare_totals, persist_report).
THEOREM RecordIsTrue == Spec => []RecordIsAccurate
<1>1. Init => TellInv
  BY InitEstablishes, InitTells DEF TellInv
<1>2. TellInv => RecordIsAccurate
  BY TypeParts, TellingIsAccurate DEF TellInv, ReconcilerInv
<1> QED
  BY <1>1, <1>2, StepTells, PTL DEF Spec

=============================================================================
