--------------------------- MODULE InvoiceStatus ---------------------------
(***************************************************************************)
(* The invoice lifecycle of packages/core/src/invoice.ts: the statuses and *)
(* the adjacency list that every compare-and-swap of the repository is     *)
(* checked against before its UPDATE is sent.                              *)
(***************************************************************************)

InvoiceStatuses ==
  { "received", "extracting", "extracted", "needs_review", "pending_approval",
    "approved", "posting", "posted", "failed", "rejected", "voided" }

\* The targets the adjacency list names for a status.
Transitions ==
  [ received         |-> {"extracting", "failed"},
    extracting       |-> {"extracted", "needs_review", "failed"},
    extracted        |-> {"pending_approval", "needs_review", "failed"},
    needs_review     |-> {"pending_approval", "approved", "rejected", "extracting"},
    pending_approval |-> {"approved", "rejected", "needs_review"},
    approved         |-> {"posting", "rejected", "needs_review"},
    posting          |-> {"posted", "failed", "approved"},
    posted           |-> {"voided"},
    failed           |-> {"extracting", "needs_review", "approved", "rejected"},
    rejected         |-> {},
    voided           |-> {} ]

CanTransition(from, to) == to \in Transitions[from]
=============================================================================
