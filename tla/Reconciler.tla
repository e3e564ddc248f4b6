----------------------------- MODULE Reconciler -----------------------------
(***************************************************************************)
(* The nightly reconciler (python/reconciler): it compares the posted      *)
(* invoices of every connected company with the bills QuickBooks has,      *)
(* while workers go on posting and people go on editing bills.             *)
(*                                                                         *)
(* Every query of the run, to PostgreSQL or to QuickBooks, is a step.      *)
(* QuickBooks gives amounts as decimal numbers, here counted in            *)
(* thousandths, and an invoice keeps them in the minor units of its        *)
(* currency.  Only bills with our marker in the note are in the model.     *)
(***************************************************************************)
EXTENDS Integers, FiniteSets

CONSTANTS
  Rows,      \* invoices
  Realms,    \* companies with a connection, numbered in the order of their tenants
  RealmOf,   \* the company of an invoice
  Ids,       \* ids of bills
  Bills,     \* <<realm, id>>: an id is unique within a realm only
  Totals,    \* amounts of bills
  Total,     \* the amount of an invoice: total_minor
  Unit,      \* a minor unit of its currency: of three decimals, of two, or of none
  None,      \* no bill yet
  Gone,      \* a bill that was deleted
  PageSize,  \* PAGE_SIZE
  MaxEdits   \* bound: changes made beside the run

Bill == [total : Totals, dated : BOOLEAN]   \* dated: TxnDate is in the window

\* The amount of an invoice, as the bill made for it has it.
Worth(r) == Total[r] * Unit[r]

ASSUME ReconcilerConstants ==
  /\ RealmOf \in [Rows -> Realms] /\ Total \in [Rows -> Nat] /\ Unit \in [Rows -> {1, 10, 1000}]
  /\ Totals \subseteq Nat /\ \A r \in Rows : Worth(r) \in Totals
  /\ Realms \cup Ids \subseteq Nat /\ IsFiniteSet(Ids) /\ Bills \subseteq Realms \X Ids
  /\ None # Gone /\ None \notin Ids \cup Realms /\ {None, Gone} \cap Bill = {}
  /\ PageSize \in Nat \ {0} /\ MaxEdits \in Nat

VARIABLES
  rows,      \* PostgreSQL: invoices
  bills,     \* QuickBooks: bills
  run,       \* the run under way
  breaks,    \* report.breaks
  aborted,   \* the transaction of the run is aborted
  reports,   \* PostgreSQL: reconciliation_runs and reconciliation_breaks
  edits,     \* changes made so far
  touched    \* history: invoices that changed, or whose bill did, since the run began

world == <<rows, bills>>
vars == <<world, run, breaks, aborted, reports, edits, touched>>

-----------------------------------------------------------------------------
(* Types and initial state *)

BillOf(r) == <<RealmOf[r], rows[r].bill>>
There(b) == bills[b] \notin {None, Gone}

\* recent: created_at is in the window; aged: not updated for longer than the SLO.
Row == [status : {"posting", "posted"}, bill : Ids \cup {None}, recent : BOOLEAN, aged : BOOLEAN]

Break == ({"missing", "mismatch", "stalled"} \X Rows)
           \cup ({"duplicate", "orphan"} \X (Realms \X Ids)) \cup ({"failed"} \X Realms)

Idle == [at |-> "idle", targets |-> {}, todo |-> {}, realm |-> None, start |-> 1,
         remote |-> << >>, seen |-> {}, suspects |-> {}, found |-> {}]

InRealm == {"page", "local", "recheck"}

Run == [at : InRealm \cup {"idle", "stalled", "duplicates", "list", "next", "persist"},
        targets : SUBSET Realms, todo : SUBSET Realms, realm : Realms \cup {None}, start : Nat,
        remote : UNION {[I -> Bill] : I \in SUBSET Ids}, seen : SUBSET Ids,
        suspects : SUBSET Rows, found : SUBSET Break]

Posted(realm) == {r \in Rows : rows[r].status = "posted" /\ RealmOf[r] = realm}

TypeOK ==
  /\ rows \in [Rows -> Row] /\ bills \in [Bills -> Bill \cup {None, Gone}]
  /\ \A r \in Rows : rows[r].status = "posted" => rows[r].bill # None
  /\ \A r \in Rows : rows[r].bill # None => BillOf(r) \in Bills /\ bills[BillOf(r)] # None
  /\ run \in Run
  /\ run.todo \subseteq run.targets
  /\ run.at \in InRealm => run.realm \in run.targets \ run.todo
  /\ run.seen \subseteq DOMAIN run.remote
  /\ run.suspects \subseteq IF run.at = "recheck" THEN Posted(run.realm) ELSE {}
  /\ breaks \subseteq Break /\ reports \subseteq [targets : SUBSET Realms, breaks : SUBSET Break]
  /\ aborted \in BOOLEAN /\ edits \in 0 .. MaxEdits /\ touched \subseteq Rows

\* Between two runs: what was posted, edited and deleted before.
Init ==
  /\ rows \in [Rows -> Row]
  /\ \A r \in Rows : IF rows[r].status = "posting" THEN rows[r].bill = None /\ rows[r].recent
                                                    ELSE rows[r].bill # None /\ ~rows[r].aged
  /\ \A r \in Rows : rows[r].bill # None => BillOf(r) \in Bills
  /\ bills \in [Bills -> Bill \cup {None, Gone}]
  /\ \A b \in Bills :
       IF \E r \in Rows : rows[r].status = "posted" /\ BillOf(r) = b
         THEN bills[b] # None
         ELSE bills[b] = None \/ (There(b) /\ bills[b].dated)
  /\ run = Idle /\ breaks = {} /\ aborted = FALSE /\ reports = {}
  /\ edits = 0 /\ touched = {}

-----------------------------------------------------------------------------
(* run_reconciliation: the local checks, the realms *)

Begin ==
  /\ run.at = "idle" /\ reports = {} /\ breaks = {}
  /\ run' = [run EXCEPT !.at = "stalled"]
  /\ touched' = {}
  /\ UNCHANGED <<world, breaks, aborted, reports, edits>>

FindStalled ==
  /\ run.at = "stalled"
  /\ breaks' = {<<"stalled", r>> : r \in {r \in Rows : rows[r].status = "posting" /\ rows[r].aged}}
  /\ run' = [run EXCEPT !.at = "duplicates"]
  /\ UNCHANGED <<world, aborted, reports, edits, touched>>

\* One break for every bill that two invoices name.
FindDuplicates ==
  LET named(b) == {r \in Posted(b[1]) : rows[r].recent /\ BillOf(r) = b} IN
    /\ run.at = "duplicates"
    /\ breaks' = breaks \cup {<<"duplicate", b>> : b \in {b \in Bills : Cardinality(named(b)) > 1}}
    /\ run' = [run EXCEPT !.at = "list"]
    /\ UNCHANGED <<world, aborted, reports, edits, touched>>

\* iter_active_realms: connections that are not active are left out, and those whose
\* token cannot be opened, with a log.
ListRealms ==
  /\ run.at = "list"
  /\ \E targets \in SUBSET Realms :
       run' = [run EXCEPT !.at = "next", !.targets = targets, !.todo = targets]
  /\ UNCHANGED <<world, breaks, aborted, reports, edits, touched>>

NextRealm ==
  /\ run.at = "next"
  /\ \/ \E realm \in run.todo :
          /\ \A other \in run.todo : realm <= other
          /\ run' = [run EXCEPT !.at = "page", !.todo = @ \ {realm}, !.realm = realm]
     \/ run.todo = {} /\ run' = [run EXCEPT !.at = "persist"]
  /\ UNCHANGED <<world, breaks, aborted, reports, edits, touched>>

\* The locals of reconcile_realm are gone.
Leave == [Idle EXCEPT !.at = "next", !.targets = run.targets, !.todo = run.todo]

\* The end of reconcile_realm: marked bills of the index that no invoice claimed are orphans.
EndRealm(found, seen) ==
  /\ breaks' = breaks \cup found \cup {<<"orphan", <<run.realm, i>>>> : i \in DOMAIN run.remote \ seen}
  /\ run' = Leave

\* Mutant: a failure ends the loop over the realms.
RealmFailsAll == breaks' = breaks \cup {<<"failed", run.realm>>} /\ run' = [Leave EXCEPT !.todo = {}]

\* What the realm had so far is dropped; the run goes on.
RealmFails == breaks' = breaks \cup {<<"failed", run.realm>>} /\ run' = Leave

-----------------------------------------------------------------------------
(* reconcile_realm *)

\* iter_bills: the next page of the bills dated in the window, by position.
Page ==
  LET dated == {i \in Ids : <<run.realm, i>> \in Bills /\ There(<<run.realm, i>>)
                            /\ bills[<<run.realm, i>>].dated}
      position(i) == Cardinality({j \in dated : j <= i})
      page == {i \in dated : position(i) \in run.start .. run.start + PageSize - 1}
  IN
    /\ run.at = "page"
    /\ run' = [run EXCEPT !.remote = [i \in page \cup DOMAIN @ |->
                                      IF i \in page THEN bills[<<run.realm, i>>] ELSE @[i]],
                         !.start = @ + PageSize,
                         !.at = IF Cardinality(page) < PageSize THEN "local" ELSE "page"]
    /\ UNCHANGED <<world, breaks, aborted, reports, edits, touched>>

\* QboAuthError, QboReadError: a dead token, a fault, no answer after the retries.
PageFails ==
  /\ run.at = "page" /\ RealmFails
  /\ UNCHANGED <<world, aborted, reports, edits, touched>>

\* An amount in hundredths, halves to the even one.
Hundredths(t) ==
  IF t % 10 > 5 \/ (t % 10 = 5 /\ (t \div 10) % 2 = 1) THEN t \div 10 + 1 ELSE t \div 10

\* compare_totals: the amount of the bill in hundredths against that of the invoice in
\* minor units, whatever its currency.
Differs(t, r) == Hundredths(t) # Total[r]

\* The breaks of invoices and the bills found for them.
Mismatches(found) == {<<"mismatch", r>> : r \in {r \in DOMAIN found : Differs(found[r].total, r)}}

\* Mutant: rows of every tenant and realm, by the id of their bill.
LookedEverywhere == {r \in Rows : rows[r].status = "posted" /\ rows[r].recent}

\* iter_posted_invoices, and the rows of it that are this realm's.
Looked == {r \in Posted(run.realm) : rows[r].recent}

Known == {r \in Looked : rows[r].bill \in DOMAIN run.remote}
InIndex == Mismatches([r \in Known |-> run.remote[rows[r].bill]])

\* Mutant: what the index has not is reported without a second look.
CompareAtOnce ==
  /\ run.at = "local" /\ ~aborted
  /\ EndRealm(InIndex \cup {<<"missing", r>> : r \in Looked \ Known}, {rows[r].bill : r \in Known})
  /\ UNCHANGED <<world, aborted, reports, edits, touched>>

Compare ==
  /\ run.at = "local" /\ ~aborted
  /\ \/ Looked = Known /\ EndRealm(InIndex, {rows[r].bill : r \in Known})
     \/ /\ Looked # Known
        /\ run' = [run EXCEPT !.at = "recheck", !.found = InIndex, !.suspects = Looked \ Known,
                             !.seen = {rows[r].bill : r \in Known}]
        /\ UNCHANGED breaks
  /\ UNCHANGED <<world, aborted, reports, edits, touched>>

\* A statement fails; the transaction takes no other until it is rolled back.
CompareFails ==
  /\ run.at = "local" /\ RealmFails
  /\ aborted' = TRUE
  /\ UNCHANGED <<world, reports, edits, touched>>

\* fetch_bills_by_id: the suspects, whatever the date of their bill.
Recheck ==
  LET bill(r) == <<run.realm, rows[r].bill>>
      there == {r \in run.suspects : There(bill(r))}
  IN
    /\ run.at = "recheck"
    /\ EndRealm(run.found \cup Mismatches([r \in there |-> bills[bill(r)]])
                  \cup {<<"missing", r>> : r \in run.suspects \ there}, run.seen)
    /\ UNCHANGED <<world, aborted, reports, edits, touched>>

RecheckFails ==
  /\ run.at = "recheck" /\ RealmFails
  /\ UNCHANGED <<world, aborted, reports, edits, touched>>

-----------------------------------------------------------------------------
(* The end of a run *)

Persist ==
  /\ run.at = "persist" /\ ~aborted
  /\ reports' = reports \cup {[targets |-> run.targets, breaks |-> breaks]}
  /\ run' = Idle
  /\ UNCHANGED <<world, breaks, aborted, edits, touched>>

\* The job is killed, or a statement outside reconcile_realm fails: nothing is recorded.
Die ==
  /\ run.at # "idle"
  /\ run' = Idle /\ breaks' = {} /\ aborted' = FALSE
  /\ UNCHANGED <<world, reports, edits, touched>>

-----------------------------------------------------------------------------
(* Beside the run *)

Change(of) ==
  /\ edits < MaxEdits /\ edits' = edits + 1
  /\ touched' = touched \cup of
  /\ UNCHANGED <<run, breaks, aborted, reports>>

\* Someone changes the amount or the date of a bill, or deletes it.
EditBill(b) ==
  /\ There(b)
  /\ \E new \in Bill \cup {Gone} : new # bills[b] /\ bills' = [bills EXCEPT ![b] = new]
  /\ Change({r \in Rows : BillOf(r) = b}) /\ UNCHANGED rows

\* A worker's bill is committed.
CreateBill(r, b) ==
  /\ rows[r].status = "posting" /\ rows[r].bill = None
  /\ b[1] = RealmOf[r] /\ bills[b] = None
  /\ bills' = [bills EXCEPT ![b] = [total |-> Worth(r), dated |-> TRUE]]
  /\ rows' = [rows EXCEPT ![r].bill = b[2]]
  /\ Change({r})

\* It records it.
RecordPosted(r) ==
  /\ rows[r].status = "posting" /\ rows[r].bill # None
  /\ rows' = [rows EXCEPT ![r].status = "posted", ![r].aged = FALSE]
  /\ touched' = touched \cup {r}
  /\ UNCHANGED <<bills, run, breaks, aborted, reports, edits>>

Next ==
  \/ Begin \/ FindStalled \/ FindDuplicates \/ ListRealms \/ NextRealm
  \/ Page \/ PageFails \/ Compare \/ CompareFails \/ Recheck \/ RecheckFails
  \/ Persist \/ Die
  \/ \E b \in Bills : EditBill(b) \/ \E r \in Rows : CreateBill(r, b)
  \/ \E r \in Rows : RecordPosted(r)

Spec == Init /\ [][Next]_vars

-----------------------------------------------------------------------------
(* Properties *)

\* "Confirmed by direct lookup": a bill edited out of the window, skipped because an
\* earlier page shrank, or belonging to another realm is never reported missing.
MissingIsGone ==
  \A r \in Rows : <<"missing", r>> \in breaks \cup run.found => bills[BillOf(r)] = Gone

\* Two amounts are at least so far apart.
Apart(a, b, by) == a >= b + by \/ b >= a + by

\* A recorded run tells of every invoice of a listed realm that nobody touched while it ran
\* what is true of it, unless that realm failed and is reported so.  A realm that fails at
\* QuickBooks hides nothing of the others, nor of what the database alone can tell; after a
\* statement that failed nothing is recorded at all.  Amounts are told apart for currencies
\* of two decimals only: nothing is called a mismatch that is none, and none of a hundredth
\* or more is missed.
RecordIsAccurate ==
  \A p \in reports : \A r \in Rows \ touched :
    LET realm == RealmOf[r]  bill == bills[BillOf(r)]
        compared == rows[r].status = "posted" /\ rows[r].recent
        sharers == {s \in Posted(realm) : rows[s].recent /\ BillOf(s) = BillOf(r)}
    IN
      /\ realm \in p.targets /\ <<"failed", realm>> \notin p.breaks =>
           /\ <<"missing", r>> \in p.breaks <=> compared /\ bill = Gone
           /\ <<"mismatch", r>> \in p.breaks => compared /\ There(BillOf(r))
           /\ Unit[r] = 10 /\ compared /\ There(BillOf(r)) =>
                /\ <<"mismatch", r>> \in p.breaks => bill.total # Worth(r)
                /\ Apart(bill.total, Worth(r), 10) => <<"mismatch", r>> \in p.breaks
           /\ compared => <<"orphan", BillOf(r)>> \notin p.breaks
      /\ <<"stalled", r>> \in p.breaks <=> rows[r].aged
      /\ sharers \cap touched = {} =>
           (<<"duplicate", BillOf(r)>> \in p.breaks <=> Cardinality(sharers) > 1)
=============================================================================
