------------------------------ MODULE PostOnce ------------------------------
(***************************************************************************)
(* What posting promises: one logical invoice becomes at most one bill in  *)
(* the ledger, and an invoice that is linked is linked for good to its own *)
(* bill.  (The guarantee at the top of                                     *)
(* services/worker-posting/src/post-invoice.ts.)                           *)
(***************************************************************************)
EXTENDS Naturals

CONSTANTS Invoices

VARIABLES
  ledger,  \* the bills each invoice has become
  linked   \* the bill each invoice row names, 0 while it names none

Init ==
  /\ ledger = [i \in Invoices |-> {}]
  /\ linked = [i \in Invoices |-> 0]

\* An invoice that is not in the ledger becomes a bill.
Create(i) ==
  /\ ledger[i] = {}
  /\ \E id \in ledger'[i] : ledger' = [ledger EXCEPT ![i] = {id}]
  /\ UNCHANGED linked

\* An unlinked invoice is linked to its bill.
Link(i) ==
  /\ linked[i] = 0
  /\ \E id \in ledger[i] : linked' = [linked EXCEPT ![i] = id]
  /\ UNCHANGED ledger

Next == \E i \in Invoices : Create(i) \/ Link(i)

Spec == Init /\ [][Next]_<<ledger, linked>>
=============================================================================
