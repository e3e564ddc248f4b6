------------------------------ MODULE Reading ------------------------------
(***************************************************************************)
(* One invoice from the reading of its document to the payload that        *)
(* QuickBooks gets: the second opinion and the consensus                   *)
(* (packages/ai/src/consensus.ts), the gate and the saved total            *)
(* (worker-extraction/src/main.ts), the approval                           *)
(* (api/src/routes/invoices.ts), and the bill                              *)
(* (packages/qbo/src/bill-mapper.ts, post-invoice.ts) with the arithmetic  *)
(* of packages/core/src/money.ts.                                          *)
(*                                                                         *)
(* A decimal string is its digits and how many of them follow the point:   *)
(* "1.50" is [digits |-> 150, places |-> 2].  Invoice numbers stand for    *)
(* their normalised form; names, dates and descriptions are left out.      *)
(***************************************************************************)
EXTENDS Integers, SequencesExt, InvoiceStatus

CONSTANTS
  Extractions,  \* what a model may answer
  AutoPost,     \* autopostThreshold
  Trigger,      \* consensusTriggerThreshold
  Limits,       \* approval limits of the approvers, in minor units
  MaxExact,     \* integers up to here survive as a JSON number
  Absent        \* no second opinion, no tax, no confidence, no limit

VARIABLES
  status,     \* of the row
  primary,    \* the stored extraction
  secondary,  \* the second opinion
  total,      \* total_minor of the row
  findings,   \* codes of its blocking findings
  target,     \* worker: the status the gate chose
  reasoned,   \* it was approved with an override reason
  limit,      \* limit of its approver
  payload     \* Amounts of the bill that was sent

readingVars == <<status, primary, secondary, total, findings, target, reasoned, limit, payload>>

-----------------------------------------------------------------------------
(* Money *)

\* One currency per exponent.
Exponent == [JPY |-> 0, USD |-> 2, KWD |-> 3, CLF |-> 4]

\* fromDecimalString refuses more decimals than the currency has, zeros included.
Parses(d, c) == d.places <= Exponent[c]

Minor(d, c) == d.digits * 10 ^ (Exponent[c] - d.places)

\* toQboAmount: a JSON number, with as many decimals as the currency has.
Amount(m, c) == [digits |-> m, places |-> Exponent[c]]
Abs(n) == IF n < 0 THEN -n ELSE n
Exact(d) == Abs(d.digits) <= MaxExact

Total(s) == FoldLeft(LAMBDA a, b : a + b, 0, s)

-----------------------------------------------------------------------------
(* Consensus *)

Critical == {"total", "invoiceNumber", "currency"}

\* Confidences and thresholds are parts of one; the schema of an answer has an amount, which
\* is a decimal string, and a confidence on every line, and config.ts refuses a trigger below
\* the threshold.
ASSUME ReadingConstants ==
  /\ AutoPost \in Nat /\ Trigger \in Nat /\ Trigger >= AutoPost
  /\ Absent \notin Extractions \cup InvoiceStatuses
  /\ \A e \in Extractions :
       /\ e.currency \in DOMAIN Exponent
       /\ \A f \in Critical : e.confidence[f] \in {Absent} \cup Nat
       /\ e.lines \in Seq([amount : [digits : Int, places : Nat], confidence : Nat])

\* Confidences of the critical fields that have one, and of all lines.
Confidences(e) ==
  {e.confidence[f] : f \in {g \in Critical : e.confidence[g] # Absent}}
    \cup {e.lines[n].confidence : n \in DOMAIN e.lines}

\* Mutant: the best confidence counts.
OverallBest(e) == IF Confidences(e) = {} THEN 0 ELSE Max(Confidences(e))

Overall(e) == IF Confidences(e) = {} THEN 0 ELSE Min(Confidences(e))

\* Amounts compare as minor units, and as strings when they do not parse.
Canonical(d, c) ==
  IF Parses(d, c) THEN [digits |-> Minor(d, c), places |-> 0] ELSE d

Agree(a, b) ==
  /\ a.currency = b.currency
  /\ Canonical(a.total, a.currency) = Canonical(b.total, b.currency)
  /\ a.number = b.number

Mismatch == IF secondary # Absent /\ ~Agree(primary, secondary)
              THEN {"CONSENSUS_MISMATCH"} ELSE {}

Combined ==
  IF secondary = Absent THEN Overall(primary)
  ELSE IF Mismatch # {} THEN 0 ELSE Min({Overall(primary), Overall(secondary)})

LowConfidence == IF Mismatch = {} /\ Combined < AutoPost THEN {"LOW_CONFIDENCE"} ELSE {}

-----------------------------------------------------------------------------
(* The bill *)

LineMinors(e) == [n \in DOMAIN e.lines |-> Minor(e.lines[n].amount, e.currency)]
AllParse(e) ==
  /\ Parses(e.total, e.currency)
  /\ \A n \in DOMAIN e.lines : Parses(e.lines[n].amount, e.currency)

TaxParses(e) == e.tax # Absent /\ Parses(e.tax, e.currency)

AddsUp(e) == Total(LineMinors(e)) = Minor(e.total, e.currency)
NetOfTax(e) ==
  /\ TaxParses(e)
  /\ Total(LineMinors(e)) + Minor(e.tax, e.currency) = Minor(e.total, e.currency)

\* Mutant: any tax explains any difference.
MapsAnyTax(e) ==
  /\ e.lines # <<>> /\ AllParse(e)
  /\ AddsUp(e) \/ TaxParses(e)
  /\ Minor(e.total, e.currency) > 0

\* mapToBill accepts the extraction, but for amounts no JSON number holds.
Maps(e) ==
  /\ e.lines # <<>> /\ AllParse(e)
  /\ AddsUp(e) \/ NetOfTax(e)
  /\ Minor(e.total, e.currency) > 0

Payload(e) == [n \in DOMAIN e.lines |-> Amount(LineMinors(e)[n], e.currency)]

\* Mutant: minor units are taken for hundredths.
HundredthsOfMinor(d) == {d.digits}

\* Amount.toFixed(2), in hundredths: of two that are as near it depends on the double.
Hundredths(d) ==
  IF d.places <= 2 THEN {d.digits * 10 ^ (2 - d.places)}
  ELSE LET k == 10 ^ (d.places - 2)  f == d.digits \div k IN
       {h \in {f, f + 1} : 2 * Abs(h * k - d.digits) <= k}

\* Sums the second check may come to.
Rechecked(p, c) ==
  FoldLeft(LAMBDA S, d : {s + Minor([digits |-> h, places |-> 2], c) : s \in S, h \in Hundredths(d)},
           {0}, p)

\* buildBill's second check can pass: an amount with two decimals has to parse, and the
\* sum must be the total unless the mapper found the lines net of tax.
RecheckPasses(e) ==
  /\ Exponent[e.currency] >= 2
  /\ ~AddsUp(e) \/ Minor(e.total, e.currency) \in Rechecked(Payload(e), e.currency)

RecheckFails(e) ==
  Exponent[e.currency] >= 2 =>
    AddsUp(e) /\ Rechecked(Payload(e), e.currency) # {Minor(e.total, e.currency)}

-----------------------------------------------------------------------------
(* The path of the invoice *)

ReadingInit ==
  /\ status = "extracting"
  /\ primary = Absent /\ secondary = Absent
  /\ total = Absent /\ findings = {} /\ target = Absent /\ reasoned = FALSE /\ limit = Absent
  /\ payload = <<>>

ReadPrimary ==
  /\ status = "extracting" /\ primary = Absent
  /\ primary' \in Extractions
  /\ UNCHANGED <<status, secondary, total, findings, target, reasoned, limit, payload>>

NeedsSecondOpinion(e) == Overall(e) < Trigger

\* The second model answers; it may also fail, or the budget not allow it.
ReadSecondary ==
  /\ status = "extracting" /\ primary # Absent /\ secondary = Absent
  /\ NeedsSecondOpinion(primary)
  /\ secondary' \in Extractions
  /\ UNCHANGED <<status, primary, total, findings, target, reasoned, limit, payload>>

\* The total is parsed, the gate chooses a status, and the row is saved if the table has
\* that step; otherwise the transaction is rolled back and the invoice parked.
Save ==
  /\ status = "extracting" /\ primary # Absent
  /\ \/ /\ ~Parses(primary.total, primary.currency)
        /\ status' = "failed" /\ UNCHANGED <<total, findings, target>>
     \/ \E twin \in SUBSET {"DUPLICATE_INVOICE"} :
          LET found == Mismatch \cup LowConfidence \cup twin IN
            /\ Parses(primary.total, primary.currency)
            /\ target' = IF found = {} THEN "pending_approval" ELSE "needs_review"
            /\ IF CanTransition("extracting", target')
                 THEN /\ status' = target' /\ findings' = found
                      /\ total' = Minor(primary.total, primary.currency)
                 ELSE status' = "failed" /\ UNCHANGED <<total, findings>>
  /\ UNCHANGED <<primary, secondary, reasoned, limit, payload>>

\* Within the approver's limit, in minor units of whatever currency, and with a reason if
\* there are blocking findings.
Approve ==
  /\ status \in {"pending_approval", "needs_review"}
  /\ \E l \in Limits \cup {Absent}, r \in BOOLEAN :
       /\ l # Absent => total <= l
       /\ findings # {} => r
       /\ limit' = l /\ reasoned' = r
  /\ status' = "approved"
  /\ UNCHANGED <<primary, secondary, total, findings, target, payload>>

Reject ==
  /\ status \in {"pending_approval", "needs_review", "approved", "failed"}
  /\ status' = "rejected"
  /\ UNCHANGED <<primary, secondary, total, findings, target, reasoned, limit, payload>>

\* buildBill and the POST.
Post ==
  /\ status = "approved"
  /\ Maps(primary) /\ RecheckPasses(primary)
  /\ payload' = Payload(primary)
  /\ status' = "posted"
  /\ UNCHANGED <<primary, secondary, total, findings, target, reasoned, limit>>

\* buildBill refuses, and the invoice is parked.
Park ==
  /\ status = "approved"
  /\ Maps(primary) =>
       \/ RecheckFails(primary)
       \/ \E n \in DOMAIN primary.lines : ~Exact(Payload(primary)[n])
  /\ status' = "failed"
  /\ UNCHANGED <<primary, secondary, total, findings, target, reasoned, limit, payload>>

ReadingNext == ReadPrimary \/ ReadSecondary \/ Save \/ Approve \/ Reject \/ Post \/ Park

ReadingSpec == ReadingInit /\ [][ReadingNext]_readingVars

-----------------------------------------------------------------------------
(* Properties *)

Consulted == {primary, secondary} \ {Absent}

\* What the worker sends to the approval queue, where no reason is asked for, was read
\* without doubt: no model gave a confidence below the threshold or, unless that is zero,
\* none at all, and the models consulted agree on the number and on the amount of money
\* however they spell it.
CleanIsTrustworthy ==
  target = "pending_approval" =>
    /\ \A e \in Consulted : /\ AutoPost > 0 => Confidences(e) # {}
                            /\ \A c \in Confidences(e) : c >= AutoPost
    /\ \A a, b \in Consulted :
         /\ a.number = b.number /\ a.currency = b.currency
         /\ Parses(a.total, a.currency) /\ Parses(b.total, b.currency)
         /\ Minor(a.total, a.currency) = Minor(b.total, b.currency)

\* What QuickBooks is sent is what was approved: amounts that come, to the last minor
\* unit, to the total on the row or to it less the tax, within the approver's limit.
SentAsApproved ==
  status = "posted" =>
    LET sent == Total([n \in DOMAIN payload |-> payload[n].digits]) IN
      /\ total > 0 /\ (limit # Absent => total <= limit)
      /\ \/ sent = total
         \/ TaxParses(primary) /\ sent + Minor(primary.tax, primary.currency) = total
      /\ \A n \in DOMAIN payload : payload[n].places = Exponent[primary.currency]

\* Neither check of the bill refuses a sound invoice: one that was approved and whose
\* amounts parse and add up, to something positive and representable, is never parked, as
\* long as its currency has at least two decimals and its lines need no more than two.
SoundIsNotParked ==
  status = "failed" /\ total # Absent =>
    ~ /\ primary.lines # <<>> /\ AllParse(primary)
      /\ AddsUp(primary) \/ NetOfTax(primary)
      /\ total > 0 /\ \A n \in DOMAIN primary.lines : Exact(Payload(primary)[n])
      /\ Exponent[primary.currency] >= 2
      /\ \A n \in DOMAIN primary.lines :
           LineMinors(primary)[n] % 10 ^ (Exponent[primary.currency] - 2) = 0
=============================================================================
