------------------------------- MODULE Spend -------------------------------
(***************************************************************************)
(* The monthly budget of one tenant for model calls                        *)
(* (packages/budget/src/spend-tracker.ts), as the extraction worker uses   *)
(* it: the status is read before the first call, the cost of a call is     *)
(* recorded after its answer, and the total reaches PostgreSQL with the    *)
(* saved extraction.                                                       *)
(*                                                                         *)
(* Redis has one counter per month; whoever finds none seeds it from the   *)
(* sum of the saved costs.  Every Redis command and every query is a step  *)
(* of its own.                                                             *)
(***************************************************************************)
EXTENDS Integers, FiniteSets

CONSTANTS
  Workers,      \* slots of the extraction workers
  None,         \* no counter
  Budget,       \* ai_monthly_budget_cents, in micros; 0 is unlimited
  MaxCost,      \* highest cost of a model call
  MaxMonth,     \* bound: months
  MaxStarts,    \* bound: extractions started
  MaxFailures,  \* bound: crashes and Redis errors
  MaxLosses     \* bound: losses of the counter of the current month

Months == 1 .. MaxMonth

ASSUME SpendConstants ==
  /\ None \notin Int
  /\ {Budget, MaxStarts, MaxFailures, MaxLosses} \subseteq Nat
  /\ {MaxCost, MaxMonth} \subseteq Nat \ {0}
  /\ IsFiniteSet(Workers)

VARIABLES
  month,    \* the current UTC month
  counter,  \* Redis: the counter of a month, or None
  ledger,   \* PostgreSQL: saved extraction costs, by the month the invoice was created
  pc,       \* worker: the next statement
  local,    \* worker: its locals
  faults,   \* extractions started, failures and losses so far (bounds)
  spent,    \* history: cost of the calls answered in a month
  booked,   \* history: increments made to the counter of a month
  intact    \* history: no loss of the current counter, no cost left unrecorded

vars == <<month, counter, ledger, pc, local, faults, spent, booked, intact>>
history == <<spent, booked, intact>>

-----------------------------------------------------------------------------
(* Types and initial state *)

\* The statements of currentSpend, and of record, which calls it first.
Seeding == {"get", "select", "seed", "reget"}
Labels == Seeding \cup {"idle", "decide", "primary", "incr", "opinion", "save"}

Local == [use : {"status", "primary", "secondary"}, period : Months, born : Months,
          read : Nat, cost : Nat, kept : Nat, second : BOOLEAN]

Fresh == [use |-> "status", period |-> 1, born |-> 1, read |-> 0, cost |-> 0,
          kept |-> 0, second |-> FALSE]

TypeOK ==
  /\ month \in Months
  /\ counter \in [Months -> Nat \cup {None}]
  /\ ledger \in [Months -> Nat]
  /\ pc \in [Workers -> Labels]
  /\ local \in [Workers -> Local]
  /\ faults \in [starts : Nat, failures : Nat, losses : Nat]
  /\ spent \in [Months -> Nat]
  /\ booked \in [Months -> Nat]
  /\ intact \in BOOLEAN

Init ==
  /\ month = 1
  /\ counter = [m \in Months |-> None]
  /\ ledger = [m \in Months |-> 0]
  /\ pc = [w \in Workers |-> "idle"]
  /\ local = [w \in Workers |-> Fresh]
  /\ faults = [starts |-> 0, failures |-> 0, losses |-> 0]
  /\ spent = [m \in Months |-> 0]
  /\ booked = [m \in Months |-> 0]
  /\ intact = TRUE

-----------------------------------------------------------------------------
(* Policy and helpers *)

\* utilisation >= hardStopAt (1.05), utilisation >= warnAt (0.8).
Exhausted(s) == Budget > 0 /\ 100 * s >= 105 * Budget
Warning(s) == Budget > 0 /\ 10 * s >= 8 * Budget

Goto(w, l) == pc' = [pc EXCEPT ![w] = l]
Leave(w) == Goto(w, "idle") /\ local' = [local EXCEPT ![w] = Fresh]
Recording(w) == local[w].use # "status" /\ pc[w] \in Seeding \cup {"incr"}

\* What follows the value of the counter, and what follows a recorded cost.
AfterRead(w) == IF local[w].use = "status" THEN "decide" ELSE "incr"
AfterRecord(w) ==
  IF local[w].use = "primary" /\ local[w].second THEN "opinion" ELSE "save"

-----------------------------------------------------------------------------
(* The extraction worker and the tracker *)

\* status(): the period is computed once; the invoice may be of an earlier month.
Begin(w) ==
  /\ pc[w] = "idle" /\ faults.starts < MaxStarts
  /\ \E m \in 1 .. month :
       local' = [local EXCEPT ![w] = [Fresh EXCEPT !.period = month, !.born = m]]
  /\ faults' = [faults EXCEPT !.starts = @ + 1]
  /\ Goto(w, "get")
  /\ UNCHANGED <<month, counter, ledger, history>>

\* currentSpend: GET.
Get(w) ==
  /\ pc[w] = "get"
  /\ LET c == counter[local[w].period] IN
       IF c = None
         THEN Goto(w, "select") /\ UNCHANGED local
         ELSE Goto(w, AfterRead(w)) /\ local' = [local EXCEPT ![w].read = c]
  /\ UNCHANGED <<month, counter, ledger, faults, history>>

\* Mutant: the sum starts a month too early.
SelectTwoMonths(w) ==
  /\ pc[w] = "select"
  /\ local' = [local EXCEPT ![w].read = ledger[month] + (IF month > 1 THEN ledger[month - 1] ELSE 0)]
  /\ Goto(w, "seed")
  /\ UNCHANGED <<month, counter, ledger, faults, history>>

\* currentSpend: the sum of the month that PostgreSQL's now() falls in.
Select(w) ==
  /\ pc[w] = "select"
  /\ local' = [local EXCEPT ![w].read = ledger[month]]
  /\ Goto(w, "seed")
  /\ UNCHANGED <<month, counter, ledger, faults, history>>

\* Mutant: the counter is seeded with a plain SET.
SeedOverwrites(w) ==
  /\ pc[w] = "seed"
  /\ counter' = [counter EXCEPT ![local[w].period] = local[w].read]
  /\ Goto(w, "reget")
  /\ UNCHANGED <<month, ledger, local, faults, history>>

\* currentSpend: SET ... NX.
Seed(w) ==
  /\ pc[w] = "seed"
  /\ LET p == local[w].period IN
       counter' = IF counter[p] = None THEN [counter EXCEPT ![p] = local[w].read] ELSE counter
  /\ Goto(w, "reget")
  /\ UNCHANGED <<month, ledger, local, faults, history>>

\* Mutant: the second GET is trusted.
RegetOnly(w) ==
  /\ pc[w] = "reget"
  /\ local' = [local EXCEPT ![w].read = counter[local[w].period]]
  /\ Goto(w, AfterRead(w))
  /\ UNCHANGED <<month, counter, ledger, faults, history>>

\* currentSpend: the second GET, which falls back on the seed.
Reget(w) ==
  /\ pc[w] = "reget"
  /\ LET c == counter[local[w].period] IN
       local' = IF c = None THEN local ELSE [local EXCEPT ![w].read = c]
  /\ Goto(w, AfterRead(w))
  /\ UNCHANGED <<month, counter, ledger, faults, history>>

\* Mutant: the hard stop only saves the second opinion.
DecideSoft(w) ==
  /\ pc[w] = "decide"
  /\ Goto(w, "primary")
  /\ local' = [local EXCEPT ![w] = [local[w] EXCEPT !.second = ~Warning(local[w].read), !.read = 0]]
  /\ UNCHANGED <<month, counter, ledger, faults, history>>

\* evaluate and decideFromBudget: review, one model, or two.
Decide(w) ==
  /\ pc[w] = "decide"
  /\ IF Exhausted(local[w].read)
       THEN Leave(w)
       ELSE /\ Goto(w, "primary")
            /\ local' = [local EXCEPT ![w] = [local[w] EXCEPT !.second = ~Warning(local[w].read), !.read = 0]]
  /\ UNCHANGED <<month, counter, ledger, faults, history>>

\* A model answers; record() starts with the period of this moment.
Answer(w, use) ==
  /\ \E c \in 1 .. MaxCost :
       /\ local' = [local EXCEPT ![w] = [local[w] EXCEPT !.use = use, !.period = month,
                                                            !.cost = c, !.kept = @ + c]]
       /\ spent' = [spent EXCEPT ![month] = @ + c]
  /\ Goto(w, "get")
  /\ UNCHANGED <<month, counter, ledger, faults, booked, intact>>

PrimaryAnswers(w) == pc[w] = "primary" /\ Answer(w, "primary")
SecondAnswers(w) == pc[w] = "opinion" /\ Answer(w, "secondary")

\* A failed primary fails the job; a second opinion may fail or not be needed.
NoAnswer(w) ==
  /\ \/ pc[w] = "primary" /\ Leave(w)
     \/ pc[w] = "opinion" /\ Goto(w, "save") /\ UNCHANGED local
  /\ UNCHANGED <<month, counter, ledger, faults, history>>

\* record: INCRBY, on whatever the key holds by now.
Incr(w) ==
  /\ pc[w] = "incr"
  /\ LET p == local[w].period
         base == IF counter[p] = None THEN 0 ELSE counter[p] IN
       /\ counter' = [counter EXCEPT ![p] = base + local[w].cost]
       /\ booked' = [booked EXCEPT ![p] = @ + local[w].cost]
  /\ Goto(w, AfterRecord(w))
  /\ local' = [local EXCEPT ![w] = [local[w] EXCEPT !.read = 0, !.cost = 0]]
  /\ UNCHANGED <<month, ledger, faults, spent, intact>>

\* saveExtraction commits with the cost of both models, or is rolled back.
Save(w) ==
  /\ pc[w] = "save"
  /\ ledger' = [ledger EXCEPT ![local[w].born] = @ + local[w].kept]
  /\ Leave(w)
  /\ UNCHANGED <<month, counter, faults, history>>

SaveFails(w) ==
  /\ pc[w] = "save"
  /\ Leave(w)
  /\ UNCHANGED <<month, counter, ledger, faults, history>>

-----------------------------------------------------------------------------
(* Failures and the calendar *)

Failure(w) ==
  /\ faults.failures < MaxFailures
  /\ faults' = [faults EXCEPT !.failures = @ + 1]
  /\ intact' = (intact /\ ~Recording(w))
  /\ UNCHANGED <<month, counter, ledger, spent, booked>>

\* Only the catch around the second opinion swallows an error of record().
RedisFails(w) ==
  /\ pc[w] \in {"get", "seed", "reget", "incr"}
  /\ IF local[w].use = "secondary" THEN Goto(w, "save") /\ UNCHANGED local ELSE Leave(w)
  /\ Failure(w)

Crash(w) == pc[w] # "idle" /\ Leave(w) /\ Failure(w)

LoseCounter ==
  /\ counter[month] # None /\ faults.losses < MaxLosses
  /\ counter' = [counter EXCEPT ![month] = None]
  /\ faults' = [faults EXCEPT !.losses = @ + 1]
  /\ intact' = FALSE
  /\ UNCHANGED <<month, ledger, pc, local, spent, booked>>

\* The TTL ends a day after the month.
Expire(m) ==
  /\ m < month /\ counter[m] # None
  /\ counter' = [counter EXCEPT ![m] = None]
  /\ UNCHANGED <<month, ledger, pc, local, faults, history>>

NextMonth ==
  /\ month < MaxMonth
  /\ month' = month + 1
  /\ UNCHANGED <<counter, ledger, pc, local, faults, history>>

Next ==
  \/ \E w \in Workers :
       \/ Begin(w) \/ Get(w) \/ Select(w) \/ Seed(w) \/ Reget(w) \/ Decide(w)
       \/ PrimaryAnswers(w) \/ SecondAnswers(w) \/ NoAnswer(w) \/ Incr(w)
       \/ Save(w) \/ SaveFails(w) \/ RedisFails(w) \/ Crash(w)
  \/ LoseCounter \/ NextMonth
  \/ \E m \in Months : Expire(m)

Spec == Init /\ [][Next]_vars

-----------------------------------------------------------------------------
(* Properties *)

\* Workers that seed the counter of a new month while others already increment
\* it neither wipe out an increment nor add one twice: as long as the key is
\* not lost and no cost goes unrecorded, the counter is what was booked.
CounterExact ==
  intact /\ counter[month] # None => counter[month] = booked[month]

\* Whatever is lost, re-seeded or rolled back, the counter of the current month
\* never exceeds what was spent in it: a re-seed counts nothing twice, and
\* nothing of an earlier month is carried over.
NeverOvercharged ==
  counter[month] # None => counter[month] <= spent[month]

\* The overshoot of a burst is what is in flight: when the last one is let through,
\* at a counter of s, every slot may still have both of its calls to make or to
\* record, but the last one has no second call when s is past the warning.
Overshoot(s) == (2 * Cardinality(Workers) - (IF Warning(s) THEN 1 ELSE 0)) * MaxCost
OvershootBounded ==
  intact /\ Budget > 0 =>
    \E s \in 0 .. spent[month] : ~Exhausted(s) /\ spent[month] <= s + Overshoot(s)
=============================================================================
