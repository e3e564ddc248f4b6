---------------------------- MODULE SpendProofs ----------------------------
(***************************************************************************)
(* Theorems about Spend, for any number of workers, costs and months.      *)
(*                                                                         *)
(* A seed that finds no counter must be worth nothing while the counter is *)
(* intact: a saved cost of an invoice of the current month was booked in   *)
(* the current month, so with nothing booked nothing is saved, and the sum *)
(* a seeder read is zero.  SpendInv says so of the ledger, of the costs on *)
(* their way to it, and of the seeds on their way to Redis.                *)
(*                                                                         *)
(* When the counter has been lost, sums no longer add up; what remains is  *)
(* that no cent counts twice.  EachCentCountsOnce gives every cent spent   *)
(* this month a name and says which of them the ledger, the counter, the   *)
(* costs under way and the seeds under way stand for.                      *)
(*                                                                         *)
(* The overshoot is a matter of sums again: FlightInv says that what is    *)
(* booked or at stake, over all workers, stays within the overshoot of a   *)
(* counter that lets a worker through.                                     *)
(***************************************************************************)
EXTENDS Spend, FiniteSetTheorems, TLAPS

\* An invoice is not younger than the period of its costs, nor that than now.
PeriodsPast ==
  \A w \in Workers : local[w].born <= local[w].period /\ local[w].period <= month

\* A cost that is being recorded is a cost.
CostsAreCosts == \A w \in Workers : Recording(w) => local[w].cost > 0

\* Nothing has happened in the months to come.
FutureEmpty ==
  \A m \in Months : m > month => counter[m] = None /\ booked[m] = 0 /\ ledger[m] = 0

\* With nothing booked this month, nothing was saved for its invoices ...
SavedWasBooked == intact /\ booked[month] = 0 => ledger[month] = 0

\* ... nothing is about to be but for costs still to be booked ...
KeptWasBooked ==
  intact /\ booked[month] = 0 =>
    \A w \in Workers : local[w].born = month /\ ~Recording(w) => local[w].kept = 0

\* ... and nobody is about to seed the counter with anything.
SeedIsNothing ==
  intact /\ booked[month] = 0 =>
    \A w \in Workers : pc[w] = "seed" /\ local[w].period = month => local[w].read = 0

\* A missing counter has booked nothing.
MissingIsEmpty == intact /\ counter[month] = None => booked[month] = 0

SpendInv ==
  /\ PeriodsPast /\ CostsAreCosts /\ FutureEmpty
  /\ SavedWasBooked /\ KeptWasBooked /\ SeedIsNothing /\ MissingIsEmpty /\ CounterExact

-----------------------------------------------------------------------------

\* The initial state is well typed and meets the strengthened invariant.
LEMMA InitEstablishes == Init => TypeOK /\ SpendInv
<1> SUFFICES ASSUME Init PROVE TypeOK /\ SpendInv
  OBVIOUS
<1> USE SpendConstants DEF Init, Fresh, Months
<1>1. Fresh \in Local
  BY DEF Local
<1>2. TypeOK
  BY <1>1 DEF TypeOK, Labels, Seeding, Local
<1>3. PeriodsPast /\ CostsAreCosts /\ FutureEmpty
  BY DEF PeriodsPast, CostsAreCosts, FutureEmpty, Recording
<1>4. SavedWasBooked /\ KeptWasBooked /\ SeedIsNothing /\ MissingIsEmpty /\ CounterExact
  BY DEF SavedWasBooked, KeptWasBooked, SeedIsNothing, MissingIsEmpty, CounterExact
<1> QED
  BY <1>2, <1>3, <1>4 DEF SpendInv

\* What the actions do to the locals of a worker leaves them locals.
LEMMA DecidedLocal ==
  ASSUME NEW r \in Local, NEW b \in BOOLEAN
  PROVE  [r EXCEPT !.second = b, !.read = 0] \in Local
BY DEF Local

LEMMA AnsweredLocal ==
  ASSUME NEW r \in Local, NEW u \in {"primary", "secondary"}, NEW p \in Months, NEW c \in Nat
  PROVE  [r EXCEPT !.use = u, !.period = p, !.cost = c, !.kept = @ + c] \in Local
<1>1. ASSUME NEW k \in Nat
      PROVE  [r EXCEPT !.use = u, !.period = p, !.cost = c, !.kept = k] \in Local
  BY DEF Local
<1>2. r.kept + c \in Nat
  BY DEF Local
<1> QED
  BY <1>1, <1>2

LEMMA BegunLocal ==
  ASSUME NEW p \in Months, NEW m \in Months
  PROVE  [Fresh EXCEPT !.period = p, !.born = m] \in Local
<1>1. Fresh \in Local
  BY SpendConstants DEF Fresh, Local, Months
<1> QED
  BY <1>1 DEF Local

\* An extraction that ends, or fails, leaves well-typed locals behind.
LEMMA LeaveTypes ==
  ASSUME TypeOK, NEW w \in Workers, Leave(w)
  PROVE  pc' \in [Workers -> Labels] /\ local' \in [Workers -> Local]
<1>1. Fresh \in Local
  BY SpendConstants DEF Fresh, Local, Months
<1> QED
  BY <1>1 DEF Leave, Goto, TypeOK, Labels

\* So does the answer of a model.
LEMMA AnswerTypes ==
  ASSUME TypeOK, NEW w \in Workers, NEW use \in {"primary", "secondary"}, Answer(w, use)
  PROVE  TypeOK'
<1>1. PICK c \in 1 .. MaxCost :
        /\ local' = [local EXCEPT ![w] = [local[w] EXCEPT !.use = use, !.period = month,
                                                             !.cost = c, !.kept = @ + c]]
        /\ spent' = [spent EXCEPT ![month] = @ + c]
  BY DEF Answer
<1>2. local[w] \in Local /\ month \in Months /\ c \in Nat
  BY SpendConstants DEF TypeOK
<1>3. [local[w] EXCEPT !.use = use, !.period = month, !.cost = c, !.kept = @ + c] \in Local
  BY <1>2, AnsweredLocal DEF Local
<1>4. local' \in [Workers -> Local]
  BY <1>1, <1>3 DEF TypeOK
<1>5. spent' \in [Months -> Nat]
  BY <1>1, <1>2 DEF TypeOK
<1> QED
  BY <1>4, <1>5 DEF Answer, Goto, TypeOK, Labels, Seeding

\* Every action keeps the types.
LEMMA TypeStep == TypeOK /\ [Next]_vars => TypeOK'
<1> SUFFICES ASSUME TypeOK, [Next]_vars PROVE TypeOK'
  OBVIOUS
<1> USE SpendConstants DEF TypeOK, Labels, Seeding, history, Goto
<1>1. ASSUME NEW w \in Workers, Begin(w) PROVE TypeOK'
  <2>1. PICK m \in 1 .. month :
          local' = [local EXCEPT ![w] = [Fresh EXCEPT !.period = month, !.born = m]]
    BY <1>1 DEF Begin
  <2>2. [Fresh EXCEPT !.period = month, !.born = m] \in Local
    <3>1. m \in Months
      BY DEF Months
    <3> QED
      BY <3>1, BegunLocal
  <2>3. local' \in [Workers -> Local]
    BY <2>1, <2>2
  <2>4. faults' \in [starts : Nat, failures : Nat, losses : Nat]
    BY <1>1 DEF Begin
  <2> QED
    BY <1>1, <2>3, <2>4 DEF Begin
<1>2. ASSUME NEW w \in Workers, Get(w) PROVE TypeOK'
  BY <1>2 DEF Get, AfterRead, Local
<1>3. ASSUME NEW w \in Workers, Select(w) PROVE TypeOK'
  BY <1>3 DEF Select, Local
<1>4. ASSUME NEW w \in Workers, Seed(w) PROVE TypeOK'
  BY <1>4 DEF Seed, Local
<1>5. ASSUME NEW w \in Workers, Reget(w) PROVE TypeOK'
  BY <1>5 DEF Reget, AfterRead, Local
<1>6. ASSUME NEW w \in Workers, Decide(w) PROVE TypeOK'
  <2>1. CASE Exhausted(local[w].read)
    BY <1>6, <2>1, LeaveTypes DEF Decide
  <2>2. CASE ~Exhausted(local[w].read)
    <3>1. [local[w] EXCEPT !.second = ~Warning(local[w].read), !.read = 0] \in Local
      <4>1. (~Warning(local[w].read)) \in BOOLEAN
        BY DEF Warning
      <4> QED
        BY <4>1, DecidedLocal, local[w] \in Local
    <3>2. local' \in [Workers -> Local]
      BY <1>6, <2>2, <3>1 DEF Decide
    <3> QED
      BY <1>6, <2>2, <3>2 DEF Decide
  <2> QED
    BY <2>1, <2>2
<1>7. ASSUME NEW w \in Workers, PrimaryAnswers(w) PROVE TypeOK'
  BY <1>7, AnswerTypes DEF PrimaryAnswers
<1>8. ASSUME NEW w \in Workers, SecondAnswers(w) PROVE TypeOK'
  BY <1>8, AnswerTypes DEF SecondAnswers
<1>9. ASSUME NEW w \in Workers, NoAnswer(w) PROVE TypeOK'
  <2>1. pc' \in [Workers -> Labels] /\ local' \in [Workers -> Local]
    BY <1>9, LeaveTypes DEF NoAnswer
  <2> QED
    BY <1>9, <2>1 DEF NoAnswer
<1>10. ASSUME NEW w \in Workers, Incr(w) PROVE TypeOK'
  <2>1. local[w] \in Local
    OBVIOUS
  <2>2. local[w].period \in Months /\ local[w].cost \in Nat
    BY <2>1 DEF Local
  <2>3. counter' \in [Months -> Nat \cup {None}] /\ booked' \in [Months -> Nat]
    BY <1>10, <2>2 DEF Incr
  <2>4. [local[w] EXCEPT !.read = 0, !.cost = 0] \in Local
    BY <2>1 DEF Local
  <2>5. local' \in [Workers -> Local]
    BY <1>10, <2>4 DEF Incr
  <2> QED
    BY <1>10, <2>3, <2>5 DEF Incr, AfterRecord
<1>11. ASSUME NEW w \in Workers, Save(w) PROVE TypeOK'
  <2>1. pc' \in [Workers -> Labels] /\ local' \in [Workers -> Local]
    BY <1>11, LeaveTypes DEF Save
  <2>2. ledger' \in [Months -> Nat]
    BY <1>11 DEF Save, Local
  <2> QED
    BY <1>11, <2>1, <2>2 DEF Save
<1>12. ASSUME NEW w \in Workers, SaveFails(w) PROVE TypeOK'
  BY <1>12, LeaveTypes DEF SaveFails
<1>13. ASSUME NEW w \in Workers, Failure(w) PROVE
         /\ faults' \in [starts : Nat, failures : Nat, losses : Nat] /\ intact' \in BOOLEAN
         /\ UNCHANGED <<month, counter, ledger, spent, booked>>
  BY <1>13 DEF Failure, Recording
<1>14. ASSUME NEW w \in Workers, RedisFails(w) PROVE TypeOK'
  <2>1. pc' \in [Workers -> Labels] /\ local' \in [Workers -> Local]
    BY <1>14, LeaveTypes DEF RedisFails
  <2> QED
    BY <1>13, <1>14, <2>1 DEF RedisFails
<1>15. ASSUME NEW w \in Workers, Crash(w) PROVE TypeOK'
  BY <1>13, <1>15, LeaveTypes DEF Crash
<1>16. ASSUME LoseCounter PROVE TypeOK'
  <2>1. faults' \in [starts : Nat, failures : Nat, losses : Nat]
    BY <1>16 DEF LoseCounter
  <2>2. counter' \in [Months -> Nat \cup {None}]
    BY <1>16 DEF LoseCounter
  <2> QED
    BY <1>16, <2>1, <2>2 DEF LoseCounter
<1>17. ASSUME NextMonth PROVE TypeOK'
  <2>1. month' \in Months
    BY <1>17 DEF NextMonth, Months
  <2> QED
    BY <1>17, <2>1 DEF NextMonth
<1>18. ASSUME NEW m \in Months, Expire(m) PROVE TypeOK'
  BY <1>18 DEF Expire
<1>19. CASE UNCHANGED vars
  BY <1>19 DEF vars
<1> QED
  BY <1>1, <1>2, <1>3, <1>4, <1>5, <1>6, <1>7, <1>8, <1>9, <1>10, <1>11, <1>12,
     <1>14, <1>15, <1>16, <1>17, <1>18, <1>19 DEF Next

\* The months are numbers, and the fields of a worker's locals have their types.
LEMMA Fields ==
  ASSUME TypeOK, NEW w \in Workers
  PROVE  /\ month \in Nat /\ local[w].born \in Nat /\ local[w].period \in Nat
         /\ month \in Months /\ local[w].born \in Months /\ local[w].period \in Months
         /\ local[w].read \in Nat /\ local[w].cost \in Nat /\ local[w].kept \in Nat
<1>1. local[w] \in Local /\ month \in Months
  BY DEF TypeOK
<1> QED
  BY <1>1, SpendConstants DEF Local, Months

\* A step of one worker that leaves the counters and the ledger alone.
LEMMA LocalStep ==
  ASSUME TypeOK, SpendInv, NEW w \in Workers,
         UNCHANGED <<month, counter, ledger, booked>>, intact' => intact,
         \A v \in Workers \ {w} : local'[v] = local[v] /\ pc'[v] = pc[v],
         local'[w].born <= local'[w].period, local'[w].period <= month,
         Recording(w)' => local'[w].cost > 0,
         intact /\ booked[month] = 0 =>
           /\ local'[w].born = month /\ ~Recording(w)' => local'[w].kept = 0
           /\ pc'[w] = "seed" /\ local'[w].period = month => local'[w].read = 0
  PROVE  SpendInv'
<1> USE DEF SpendInv, Recording
<1>1. PeriodsPast'
  BY DEF PeriodsPast
<1>2. CostsAreCosts'
  BY DEF CostsAreCosts
<1>3. KeptWasBooked'
  BY DEF KeptWasBooked
<1>4. SeedIsNothing'
  BY DEF SeedIsNothing
<1> QED
  BY <1>1, <1>2, <1>3, <1>4 DEF FutureEmpty, SavedWasBooked, MissingIsEmpty, CounterExact

\* An extraction that ends or fails.
LEMMA LeaveStep ==
  ASSUME TypeOK, SpendInv, NEW w \in Workers, Leave(w),
         UNCHANGED <<month, counter, ledger, booked>>, intact' => intact
  PROVE  SpendInv'
<1>1. /\ \A v \in Workers \ {w} : local'[v] = local[v] /\ pc'[v] = pc[v]
      /\ local'[w] = Fresh /\ pc'[w] = "idle"
  BY DEF Leave, Goto, TypeOK
<1>2. /\ Fresh.born = 1 /\ Fresh.period = 1 /\ Fresh.kept = 0
      /\ ~Recording(w)' /\ 1 <= month
  BY <1>1, SpendConstants DEF Fresh, Recording, Seeding, TypeOK, Months
<1> QED
  BY <1>1, <1>2, LocalStep

\* The answer of a model.
LEMMA AnswerStep ==
  ASSUME TypeOK, SpendInv, NEW w \in Workers, NEW use \in {"primary", "secondary"}, Answer(w, use)
  PROVE  SpendInv'
<1>1. PICK c \in 1 .. MaxCost :
        local' = [local EXCEPT ![w] = [local[w] EXCEPT !.use = use, !.period = month,
                                                       !.cost = c, !.kept = @ + c]]
  BY DEF Answer
<1>2. /\ \A v \in Workers \ {w} : local'[v] = local[v]
      /\ local'[w].use = use /\ local'[w].period = month /\ local'[w].born = local[w].born
      /\ local'[w].cost = c
  BY <1>1 DEF TypeOK, Local
<1>3. /\ \A v \in Workers \ {w} : pc'[v] = pc[v]
      /\ pc'[w] = "get"
      /\ UNCHANGED <<month, counter, ledger, booked, intact>>
  BY DEF Answer, Goto, TypeOK
<1>4. local[w].born <= month /\ month <= month
  BY Fields DEF SpendInv, PeriodsPast
<1>5. Recording(w)' /\ c > 0
  BY <1>2, <1>3, SpendConstants DEF Recording, Seeding
<1> QED
  BY <1>2, <1>3, <1>4, <1>5, LocalStep

\* Every action keeps the strengthened invariant.
LEMMA InvStep == TypeOK /\ SpendInv /\ [Next]_vars => SpendInv'
<1> SUFFICES ASSUME TypeOK, SpendInv, [Next]_vars PROVE SpendInv'
  OBVIOUS
<1> USE SpendConstants DEF history
<1>1. ASSUME NEW w \in Workers, Begin(w) PROVE SpendInv'
  <2>1. PICK m \in 1 .. month :
          local' = [local EXCEPT ![w] = [Fresh EXCEPT !.period = month, !.born = m]]
    BY <1>1 DEF Begin
  <2>2. /\ \A v \in Workers \ {w} : local'[v] = local[v] /\ pc'[v] = pc[v]
        /\ local'[w].period = month /\ local'[w].born = m /\ local'[w].kept = 0
        /\ local'[w].use = "status" /\ pc'[w] = "get"
    BY <1>1, <2>1 DEF Begin, Goto, TypeOK, Fresh
  <2>3. m <= month /\ month <= month
    BY Fields
  <2>4. ~Recording(w)' /\ UNCHANGED <<month, counter, ledger, booked, intact>>
    BY <1>1, <2>2 DEF Begin, Recording
  <2> QED
    BY <2>2, <2>3, <2>4, LocalStep
<1>2. ASSUME NEW w \in Workers, Get(w) PROVE SpendInv'
  <2>1. /\ \A v \in Workers \ {w} : local'[v] = local[v] /\ pc'[v] = pc[v]
        /\ \A f \in {"use", "period", "born", "cost", "kept"} : local'[w][f] = local[w][f]
        /\ UNCHANGED <<month, counter, ledger, booked, intact>>
    BY <1>2 DEF Get, Goto, TypeOK, Local
  <2>2. pc[w] = "get" /\ pc'[w] \in {"select", "decide", "incr"}
        /\ (pc'[w] = "decide" => local[w].use = "status")
    BY <1>2 DEF Get, Goto, TypeOK, AfterRead
  <2>3. Recording(w)' <=> Recording(w)
    BY <1>2, <2>1, <2>2 DEF Recording, Seeding, Get, Goto, AfterRead, TypeOK
  <2> QED
    BY <2>1, <2>2, <2>3, LocalStep DEF SpendInv, PeriodsPast, CostsAreCosts, KeptWasBooked
<1>3. ASSUME NEW w \in Workers, Select(w) PROVE SpendInv'
  <2>1. /\ \A v \in Workers \ {w} : local'[v] = local[v] /\ pc'[v] = pc[v]
        /\ \A f \in {"use", "period", "born", "cost", "kept"} : local'[w][f] = local[w][f]
        /\ local'[w].read = ledger[month] /\ pc[w] = "select" /\ pc'[w] = "seed"
        /\ UNCHANGED <<month, counter, ledger, booked, intact>>
    BY <1>3 DEF Select, Goto, TypeOK, Local
  <2>2. Recording(w)' <=> Recording(w)
    BY <2>1 DEF Recording, Seeding
  <2> QED
    BY <2>1, <2>2, LocalStep
       DEF SpendInv, PeriodsPast, CostsAreCosts, KeptWasBooked, SavedWasBooked
<1>4. ASSUME NEW w \in Workers, Seed(w) PROVE SpendInv'
  <2> DEFINE p == local[w].period
  <2>1. /\ UNCHANGED <<month, ledger, local, booked, intact>>
        /\ pc[w] = "seed" /\ pc' = [pc EXCEPT ![w] = "reget"]
        /\ counter' = IF counter[p] = None THEN [counter EXCEPT ![p] = local[w].read] ELSE counter
    BY <1>4 DEF Seed, Goto
  <2>2. p \in Months /\ p <= month /\ p \in Nat /\ month \in Nat /\ month \in Months
    BY Fields DEF SpendInv, PeriodsPast
  <2>3. \A v \in Workers : Recording(v)' <=> Recording(v)
    BY <2>1 DEF Recording, Seeding, TypeOK
  <2>4. PeriodsPast' /\ CostsAreCosts' /\ SavedWasBooked' /\ KeptWasBooked'
    BY <2>1, <2>3 DEF SpendInv, PeriodsPast, CostsAreCosts, SavedWasBooked, KeptWasBooked
  <2>5. SeedIsNothing'
    BY <2>1 DEF SpendInv, SeedIsNothing, TypeOK
  <2>6. FutureEmpty'
    BY <2>1, <2>2 DEF SpendInv, FutureEmpty, TypeOK, Months
  <2>7. MissingIsEmpty'
    BY <2>1, <2>2 DEF SpendInv, MissingIsEmpty, TypeOK
  <2>8. CounterExact'
    BY <2>1, <2>2 DEF SpendInv, MissingIsEmpty, SeedIsNothing, CounterExact, TypeOK
  <2> QED
    BY <2>4, <2>5, <2>6, <2>7, <2>8 DEF SpendInv
<1>5. ASSUME NEW w \in Workers, Reget(w) PROVE SpendInv'
  <2>1. /\ \A v \in Workers \ {w} : local'[v] = local[v] /\ pc'[v] = pc[v]
        /\ \A f \in {"use", "period", "born", "cost", "kept"} : local'[w][f] = local[w][f]
        /\ UNCHANGED <<month, counter, ledger, booked, intact>>
    BY <1>5 DEF Reget, Goto, TypeOK, Local
  <2>2. pc[w] = "reget" /\ pc'[w] = AfterRead(w)
    BY <1>5 DEF Reget, Goto, TypeOK
  <2>3. (Recording(w)' <=> Recording(w)) /\ pc'[w] # "seed"
    BY <2>1, <2>2 DEF Recording, Seeding, AfterRead
  <2> QED
    BY <2>1, <2>3, LocalStep DEF SpendInv, PeriodsPast, CostsAreCosts, KeptWasBooked
<1>6. ASSUME NEW w \in Workers, Decide(w) PROVE SpendInv'
  <2>1. CASE Exhausted(local[w].read)
    BY <1>6, <2>1, LeaveStep DEF Decide
  <2>2. CASE ~Exhausted(local[w].read)
    <3>1. /\ \A v \in Workers \ {w} : local'[v] = local[v] /\ pc'[v] = pc[v]
          /\ \A f \in {"use", "period", "born", "cost", "kept"} : local'[w][f] = local[w][f]
          /\ pc[w] = "decide" /\ pc'[w] = "primary"
          /\ UNCHANGED <<month, counter, ledger, booked, intact>>
      <4> DEFINE b == ~Warning(local[w].read)
      <4>1. /\ local' = [local EXCEPT ![w] = [local[w] EXCEPT !.second = b, !.read = 0]]
            /\ pc[w] = "decide" /\ pc' = [pc EXCEPT ![w] = "primary"]
            /\ UNCHANGED <<month, counter, ledger, booked, intact>>
        BY <1>6, <2>2 DEF Decide, Goto
      <4> HIDE DEF b
      <4> QED
        BY <4>1 DEF TypeOK, Local
    <3>2. ~Recording(w) /\ ~Recording(w)'
      BY <3>1 DEF Recording, Seeding
    <3> QED
      BY <3>1, <3>2, LocalStep DEF SpendInv, PeriodsPast, KeptWasBooked
  <2> QED
    BY <2>1, <2>2
<1>7. ASSUME NEW w \in Workers, PrimaryAnswers(w) PROVE SpendInv'
  BY <1>7, AnswerStep DEF PrimaryAnswers
<1>8. ASSUME NEW w \in Workers, SecondAnswers(w) PROVE SpendInv'
  BY <1>8, AnswerStep DEF SecondAnswers
<1>9. ASSUME NEW w \in Workers, pc[w] \notin Seeding \cup {"incr"}, Goto(w, "save"),
             UNCHANGED <<month, counter, ledger, local, booked, intact>>
      PROVE  SpendInv'
  <2>1. /\ \A v \in Workers \ {w} : pc'[v] = pc[v]
        /\ pc'[w] = "save" /\ ~Recording(w) /\ ~Recording(w)'
    BY <1>9 DEF Goto, TypeOK, Recording, Seeding
  <2> QED
    BY <1>9, <2>1, LocalStep DEF SpendInv, PeriodsPast, KeptWasBooked
<1>10. ASSUME NEW w \in Workers, NoAnswer(w) PROVE SpendInv'
  <2>1. CASE pc[w] = "primary" /\ Leave(w)
    BY <1>10, <2>1, LeaveStep DEF NoAnswer
  <2>2. CASE pc[w] = "opinion" /\ Goto(w, "save") /\ UNCHANGED local
    BY <1>9, <1>10, <2>2 DEF NoAnswer, Seeding
  <2> QED
    BY <1>10, <2>1, <2>2 DEF NoAnswer
<1>11. ASSUME NEW w \in Workers, Incr(w) PROVE SpendInv'
  <2> DEFINE p == local[w].period
  <2>1. /\ \A v \in Workers \ {w} : local'[v] = local[v] /\ pc'[v] = pc[v]
        /\ \A f \in {"use", "period", "born", "kept"} : local'[w][f] = local[w][f]
        /\ UNCHANGED <<month, ledger, intact>>
        /\ pc[w] = "incr" /\ pc'[w] \in {"opinion", "save"}
    BY <1>11 DEF Incr, Goto, TypeOK, Local, AfterRecord
  <2>2. /\ counter' = [counter EXCEPT ![p] = (IF counter[p] = None THEN 0 ELSE counter[p]) + local[w].cost]
        /\ booked' = [booked EXCEPT ![p] = @ + local[w].cost]
    BY <1>11 DEF Incr
  <2>3. /\ p \in Months /\ p <= month /\ p \in Nat /\ month \in Nat /\ month \in Months
        /\ local[w].cost \in Nat /\ local[w].born <= p /\ local[w].born \in Nat
    BY Fields DEF SpendInv, PeriodsPast
  <2>4. booked \in [Months -> Nat] /\ counter \in [Months -> Nat \cup {None}]
    BY DEF TypeOK
  <2>5. local[w].use # "status" => local[w].cost > 0
    BY <2>1 DEF SpendInv, CostsAreCosts, Recording
  <2>6. booked'[month] = 0 => booked[month] = 0
    BY <2>2, <2>3, <2>4
  <2>7. PeriodsPast'
    BY <2>1 DEF SpendInv, PeriodsPast
  <2>8. CostsAreCosts'
    BY <2>1 DEF SpendInv, CostsAreCosts, Recording, Seeding
  <2>9. FutureEmpty'
    BY <2>1, <2>2, <2>3, <2>4 DEF SpendInv, FutureEmpty, Months
  <2>10. SavedWasBooked'
    BY <2>1, <2>6 DEF SpendInv, SavedWasBooked
  <2>11. KeptWasBooked'
    BY <2>1, <2>2, <2>3, <2>4, <2>5, <2>6
       DEF SpendInv, KeptWasBooked, Recording, Seeding, PeriodsPast
  <2>12. SeedIsNothing'
    BY <2>1, <2>6 DEF SpendInv, SeedIsNothing
  <2>13. MissingIsEmpty' /\ CounterExact'
    BY <2>1, <2>2, <2>3, <2>4 DEF SpendInv, MissingIsEmpty, CounterExact
  <2> QED
    BY <2>7, <2>8, <2>9, <2>10, <2>11, <2>12, <2>13 DEF SpendInv
<1>12. ASSUME NEW w \in Workers, Save(w) PROVE SpendInv'
  <2>1. /\ UNCHANGED <<month, counter, booked, intact>>
        /\ \A v \in Workers \ {w} : local'[v] = local[v] /\ pc'[v] = pc[v]
        /\ local'[w] = Fresh /\ pc'[w] = "idle" /\ pc[w] = "save"
        /\ ledger' = [ledger EXCEPT ![local[w].born] = @ + local[w].kept]
    BY <1>12 DEF Save, Leave, Goto, TypeOK
  <2>2. /\ Fresh.born = 1 /\ Fresh.period = 1 /\ Fresh.kept = 0 /\ 1 <= month
        /\ ~Recording(w) /\ ~Recording(w)'
    BY <2>1 DEF Fresh, Recording, Seeding, TypeOK, Months
  <2>3. /\ month \in Nat /\ month \in Months /\ local[w].born \in Months
        /\ local[w].born <= month /\ local[w].kept \in Nat /\ ledger \in [Months -> Nat]
    BY Fields DEF SpendInv, PeriodsPast, TypeOK
  <2>4. PeriodsPast' /\ CostsAreCosts' /\ SeedIsNothing' /\ MissingIsEmpty' /\ CounterExact'
    BY <2>1, <2>2 DEF SpendInv, PeriodsPast, CostsAreCosts, SeedIsNothing, MissingIsEmpty,
                      CounterExact, Recording
  <2>5. KeptWasBooked'
    BY <2>1, <2>2 DEF SpendInv, KeptWasBooked, Recording
  <2>6. SavedWasBooked'
    BY <2>1, <2>2, <2>3 DEF SpendInv, SavedWasBooked, KeptWasBooked
  <2>7. FutureEmpty'
    BY <2>1, <2>3 DEF SpendInv, FutureEmpty, Months
  <2> QED
    BY <2>4, <2>5, <2>6, <2>7 DEF SpendInv
<1>13. ASSUME NEW w \in Workers, SaveFails(w) PROVE SpendInv'
  BY <1>13, LeaveStep DEF SaveFails
<1>14. ASSUME NEW w \in Workers, RedisFails(w) PROVE SpendInv'
  <2>1. UNCHANGED <<month, counter, ledger, booked>> /\ (intact' => intact /\ ~Recording(w))
    BY <1>14 DEF RedisFails, Failure
  <2>2. CASE local[w].use = "secondary"
    <3>1. /\ UNCHANGED local /\ \A v \in Workers \ {w} : pc'[v] = pc[v]
          /\ pc'[w] = "save" /\ Recording(w) /\ ~Recording(w)'
      BY <1>14, <2>2 DEF RedisFails, Goto, TypeOK, Recording, Seeding
    <3>2. ~intact'
      BY <2>1, <3>1
    <3> QED
      BY <2>1, <3>1, <3>2
         DEF SpendInv, PeriodsPast, CostsAreCosts, FutureEmpty, SavedWasBooked, KeptWasBooked,
             SeedIsNothing, MissingIsEmpty, CounterExact, Recording
  <2>3. CASE local[w].use # "secondary"
    BY <1>14, <2>1, <2>3, LeaveStep DEF RedisFails
  <2> QED
    BY <2>2, <2>3
<1>15. ASSUME NEW w \in Workers, Crash(w) PROVE SpendInv'
  BY <1>15, LeaveStep DEF Crash, Failure
<1>16. ASSUME LoseCounter PROVE SpendInv'
  <2>1. /\ UNCHANGED <<month, ledger, pc, local, booked>> /\ intact' = FALSE
        /\ \A m \in Months : m > month => counter'[m] = counter[m]
    BY <1>16, SpendConstants DEF LoseCounter, TypeOK, Months
  <2> QED
    BY <2>1 DEF SpendInv, PeriodsPast, CostsAreCosts, FutureEmpty, SavedWasBooked, KeptWasBooked,
                SeedIsNothing, MissingIsEmpty, CounterExact, Recording
<1>17. ASSUME NextMonth PROVE SpendInv'
  <2>1. /\ UNCHANGED <<counter, ledger, pc, local, booked, intact>>
        /\ month' = month + 1 /\ month \in Nat /\ month' \in Months /\ month' > month
    BY <1>17 DEF NextMonth, TypeOK, Months
  <2>2. counter[month'] = None /\ booked[month'] = 0 /\ ledger[month'] = 0
    BY <2>1 DEF SpendInv, FutureEmpty
  <2>3. \A w \in Workers : /\ local[w].born # month' /\ local[w].period # month'
                           /\ local[w].born <= local[w].period /\ local[w].period <= month'
    BY <2>1, Fields DEF SpendInv, PeriodsPast
  <2>4. FutureEmpty'
    BY <2>1 DEF SpendInv, FutureEmpty, Months
  <2>5. CostsAreCosts'
    BY <2>1 DEF SpendInv, CostsAreCosts, Recording
  <2> QED
    BY <2>1, <2>2, <2>3, <2>4, <2>5
       DEF SpendInv, PeriodsPast, SavedWasBooked, KeptWasBooked, SeedIsNothing, MissingIsEmpty,
           CounterExact
<1>18. ASSUME NEW m \in Months, Expire(m) PROVE SpendInv'
  <2>1. /\ UNCHANGED <<month, ledger, pc, local, booked, intact>>
        /\ counter'[month] = counter[month]
        /\ \A n \in Months : n > month => counter'[n] = counter[n]
    BY <1>18 DEF Expire, TypeOK, Months
  <2> QED
    BY <2>1 DEF SpendInv, PeriodsPast, CostsAreCosts, FutureEmpty, SavedWasBooked, KeptWasBooked,
                SeedIsNothing, MissingIsEmpty, CounterExact, Recording
<1>19. CASE UNCHANGED vars
  BY <1>19 DEF vars, SpendInv, PeriodsPast, CostsAreCosts, FutureEmpty, SavedWasBooked,
               KeptWasBooked, SeedIsNothing, MissingIsEmpty, CounterExact, Recording
<1> QED
  BY <1>1, <1>2, <1>3, <1>4, <1>5, <1>6, <1>7, <1>8, <1>10, <1>11, <1>12,
     <1>13, <1>14, <1>15, <1>16, <1>17, <1>18, <1>19 DEF Next

-----------------------------------------------------------------------------

\* The variables keep their types: in particular no worker ever decides on a missing
\* counter, since the second GET of currentSpend falls back on the seed.
THEOREM SpendTypeCorrect == Spec => []TypeOK
<1>1. Init => TypeOK
  BY InitEstablishes
<1>2. TypeOK /\ [Next]_vars => TypeOK'
  BY TypeStep
<1> QED
  BY <1>1, <1>2, PTL DEF Spec

\* Seeding a counter loses and doubles no increment made beside it.
THEOREM CounterIsExact == Spec => []CounterExact
<1>1. Init => TypeOK /\ SpendInv
  BY InitEstablishes
<1>2. TypeOK /\ SpendInv /\ [Next]_vars => (TypeOK /\ SpendInv)'
  BY TypeStep, InvStep
<1>3. SpendInv => CounterExact
  BY DEF SpendInv
<1> QED
  BY <1>1, <1>2, <1>3, PTL DEF Spec

-----------------------------------------------------------------------------
(* The counter of the month against what was spent in it *)

\* The cents spent this month, by name.
Cents == 1 .. spent[month]

\* What a worker has still to add to the counter, and to the ledger, of this month.
Due(w) == IF Recording(w) /\ local[w].period = month THEN local[w].cost ELSE 0
Unsaved(w) == IF local[w].born = month THEN local[w].kept ELSE Due(w)

\* The ledger stands for L, the counter for C; worker w has the cents of Q[w] to
\* save, those of P[w] of them to record, and may hold a seed that stands for R[w].
\* A cent to record is in no counter and in no seed.
Accounts(L, C, Q, P, R) ==
  /\ L \in SUBSET Cents /\ Cardinality(L) = ledger[month]
  /\ C \in SUBSET Cents /\ (counter[month] # None => Cardinality(C) = counter[month])
  /\ {Q, P, R} \subseteq [Workers -> SUBSET Cents]
  /\ \A w \in Workers :
       /\ Cardinality(Q[w]) = Unsaved(w) /\ L \cap Q[w] = {}
       /\ Cardinality(P[w]) = Due(w) /\ P[w] \subseteq Q[w] /\ C \cap P[w] = {}
       /\ pc[w] = "seed" /\ local[w].period = month => Cardinality(R[w]) = local[w].read
       /\ \A v \in Workers : R[v] \cap P[w] = {} /\ (v # w => Q[v] \cap Q[w] = {})

EachCentCountsOnce == \E L, C, Q, P, R : Accounts(L, C, Q, P, R)

\* Only the cost of a call is added to a counter, and only a status is decided on.
UsesApart ==
  \A w \in Workers : /\ pc[w] = "incr" => local[w].use # "status"
                     /\ pc[w] = "decide" => local[w].use = "status"

\* There are n numbers from 1 to n.
LEMMA Numbers ==
  ASSUME NEW n \in Nat
  PROVE  IsFiniteSet(1 .. n) /\ Cardinality(1 .. n) = n
<1>1. IsFiniteSet(1 .. n) /\ Cardinality(1 .. n) = IF 1 > n THEN 0 ELSE n - 1 + 1
  BY FS_Interval
<1> QED
  BY <1>1

\* Cents with different names add up.
LEMMA DisjointUnion ==
  ASSUME NEW S, NEW T, IsFiniteSet(S), IsFiniteSet(T), S \cap T = {}
  PROVE  Cardinality(S \cup T) = Cardinality(S) + Cardinality(T)
<1>1. Cardinality(S \cap T) = 0
  BY FS_EmptySet
<1>2. Cardinality(S) \in Nat /\ Cardinality(T) \in Nat
  BY FS_CardinalityType
<1>3. Cardinality(S \cup T) = Cardinality(S) + Cardinality(T) - Cardinality(S \cap T)
  BY FS_Union
<1> QED
  BY <1>1, <1>2, <1>3

\* Nothing is due to a month that nobody has worked in.
LEMMA EmptyAccounts ==
  ASSUME spent[month] \in Nat, ledger[month] = 0, counter[month] = None,
         \A w \in Workers : Unsaved(w) = 0 /\ Due(w) = 0,
         \A w \in Workers : pc[w] = "seed" => local[w].period # month
  PROVE  EachCentCountsOnce
<1> DEFINE E == [w \in Workers |-> {}]
<1>1. Accounts({}, {}, E, E, E)
  BY FS_EmptySet DEF Accounts
<1> QED
  BY <1>1 DEF EachCentCountsOnce

\* The sets of an account are finite.
LEMMA AccountsFinite ==
  ASSUME TypeOK, NEW L, NEW C, NEW Q, NEW P, NEW R, Accounts(L, C, Q, P, R)
  PROVE  /\ spent[month] \in Nat /\ IsFiniteSet(Cents) /\ Cardinality(Cents) = spent[month]
         /\ \A S \in SUBSET Cents : IsFiniteSet(S)
<1>1. spent[month] \in Nat
  BY DEF TypeOK
<1>2. IsFiniteSet(Cents) /\ Cardinality(Cents) = spent[month]
  BY <1>1, Numbers DEF Cents
<1> QED
  BY <1>1, <1>2, FS_Subset

\* So the counter is at most what was spent.
LEMMA OnceIsEnough == TypeOK /\ EachCentCountsOnce => NeverOvercharged
<1> SUFFICES ASSUME TypeOK, EachCentCountsOnce, counter[month] # None
             PROVE  counter[month] <= spent[month]
  BY DEF NeverOvercharged
<1>1. PICK L, C, Q, P, R : Accounts(L, C, Q, P, R)
  BY DEF EachCentCountsOnce
<1>2. C \in SUBSET Cents /\ Cardinality(C) = counter[month]
  BY <1>1 DEF Accounts
<1> QED
  BY <1>1, <1>2, AccountsFinite, FS_Subset

\* A step of one worker that spends, records and saves nothing may give up what it
\* has to save or to record, and may read the ledger for a seed.
LEMMA CalmStep ==
  ASSUME TypeOK, EachCentCountsOnce, NEW w \in Workers,
         UNCHANGED <<month, counter, ledger, spent>>,
         \A v \in Workers \ {w} : local'[v] = local[v] /\ pc'[v] = pc[v],
         Unsaved(w)' \in {0, Unsaved(w)}, Due(w)' \in {0, Due(w)},
         Unsaved(w)' = Unsaved(w) \/ Due(w)' = 0,
         pc'[w] = "seed" /\ local'[w].period = month => local'[w].read = ledger[month]
  PROVE  EachCentCountsOnce'
<1>1. PICK L, C, Q, P, R : Accounts(L, C, Q, P, R)
  BY DEF EachCentCountsOnce
<1>2. PICK q \in SUBSET Q[w] : Cardinality(q) = Unsaved(w)' /\ (Unsaved(w)' = Unsaved(w) => q = Q[w])
  BY <1>1, FS_EmptySet DEF Accounts
<1>3. PICK p \in SUBSET (P[w] \cap q) : Cardinality(p) = Due(w)'
  BY <1>1, <1>2, FS_EmptySet DEF Accounts
<1>4. \A v \in Workers \ {w} : Due(v)' = Due(v) /\ Unsaved(v)' = Unsaved(v)
  BY DEF Due, Unsaved, Recording
<1> DEFINE QQ == [Q EXCEPT ![w] = q]
           PP == [P EXCEPT ![w] = p]
           RR == [R EXCEPT ![w] = L]
<1>5. Cents' = Cents
  BY DEF Cents
<1>6. {QQ, PP, RR} \subseteq [Workers -> SUBSET Cents]
  BY <1>1, <1>2, <1>3 DEF Accounts
<1>7. ASSUME NEW u \in Workers
      PROVE  /\ Cardinality(QQ[u]) = Unsaved(u)' /\ L \cap QQ[u] = {}
             /\ Cardinality(PP[u]) = Due(u)' /\ PP[u] \subseteq QQ[u] /\ C \cap PP[u] = {}
             /\ pc'[u] = "seed" /\ local'[u].period = month => Cardinality(RR[u]) = local'[u].read
             /\ \A v \in Workers : RR[v] \cap PP[u] = {} /\ (v # u => QQ[v] \cap QQ[u] = {})
  <2>1. /\ QQ[u] \subseteq Q[u] /\ PP[u] \subseteq P[u] /\ PP[u] \subseteq QQ[u]
        /\ \A v \in Workers : QQ[v] \subseteq Q[v] /\ RR[v] \in {R[v], L}
    BY <1>1, <1>2, <1>3 DEF Accounts
  <2>2. Cardinality(QQ[u]) = Unsaved(u)' /\ Cardinality(PP[u]) = Due(u)'
    BY <1>1, <1>2, <1>3, <1>4 DEF Accounts
  <2>3. pc'[u] = "seed" /\ local'[u].period = month => Cardinality(RR[u]) = local'[u].read
    BY <1>1 DEF Accounts
  <2> QED
    BY <1>1, <2>1, <2>2, <2>3 DEF Accounts
<1>8. Accounts(L, C, QQ, PP, RR)'
  <2> HIDE DEF QQ, PP, RR
  <2> QED
    BY <1>1, <1>5, <1>6, <1>7 DEF Accounts
<1> QED
  BY <1>8 DEF EachCentCountsOnce

\* A worker that stops has nothing left to save or to record.
LEMMA LeaveCounts ==
  ASSUME TypeOK, EachCentCountsOnce, NEW w \in Workers, Leave(w),
         UNCHANGED <<month, counter, ledger, spent>>
  PROVE  EachCentCountsOnce'
<1>1. /\ \A v \in Workers \ {w} : local'[v] = local[v] /\ pc'[v] = pc[v]
      /\ local'[w] = Fresh /\ pc'[w] = "idle"
  BY DEF Leave, Goto, TypeOK
<1>2. Unsaved(w)' = 0 /\ Due(w)' = 0
  BY <1>1 DEF Fresh, Recording, Seeding, Unsaved, Due
<1> QED
  BY <1>1, <1>2, CalmStep

\* The cents of an answer are new: no counter and no seed stands for them.
LEMMA AnswerCounts ==
  ASSUME TypeOK, EachCentCountsOnce, NEW w \in Workers,
         NEW use \in {"primary", "secondary"}, Answer(w, use), pc[w] \in {"primary", "opinion"}
  PROVE  EachCentCountsOnce'
<1>1. PICK L, C, Q, P, R : Accounts(L, C, Q, P, R)
  BY DEF EachCentCountsOnce
<1>2. PICK c \in 1 .. MaxCost :
        /\ local' = [local EXCEPT ![w] = [local[w] EXCEPT !.use = use, !.period = month,
                                                             !.cost = c, !.kept = @ + c]]
        /\ spent' = [spent EXCEPT ![month] = @ + c]
  BY DEF Answer
<1>3. /\ \A v \in Workers \ {w} : local'[v] = local[v] /\ pc'[v] = pc[v]
      /\ local'[w].use = use /\ local'[w].period = month /\ local'[w].born = local[w].born
      /\ local'[w].cost = c /\ local'[w].kept = local[w].kept + c /\ pc'[w] = "get"
      /\ UNCHANGED <<month, counter, ledger>>
  <2>1. local'[w] = [local[w] EXCEPT !.use = use, !.period = month, !.cost = c, !.kept = @ + c]
        /\ \A v \in Workers \ {w} : local'[v] = local[v]
    BY <1>2 DEF TypeOK
  <2>2. local[w] \in Local
    BY DEF TypeOK
  <2>3. /\ local'[w].use = use /\ local'[w].period = month /\ local'[w].born = local[w].born
        /\ local'[w].cost = c /\ local'[w].kept = local[w].kept + c
    BY <2>1, <2>2 DEF Local
  <2>4. /\ \A v \in Workers \ {w} : pc'[v] = pc[v]
        /\ pc'[w] = "get" /\ UNCHANGED <<month, counter, ledger>>
    BY DEF Answer, Goto, TypeOK
  <2> QED
    BY <2>1, <2>3, <2>4
<1>4. /\ spent[month] \in Nat /\ c \in Nat /\ month \in Months
      /\ spent'[month'] = spent[month] + c
  BY <1>2, <1>3, SpendConstants DEF TypeOK
<1>5. PICK F : F = spent[month] + 1 .. spent[month] + c
  OBVIOUS
<1>6. IsFiniteSet(F) /\ Cardinality(F) = c
  BY <1>4, <1>5, FS_Interval
<1>7. F \cap Cents = {} /\ Cents \cup F \subseteq Cents' /\ Cents \subseteq Cents'
  BY <1>4, <1>5 DEF Cents
<1>8. Due(w) = 0 /\ Due(w)' = c /\ Unsaved(w)' = Unsaved(w) + c
  <2>1. ~Recording(w) /\ Recording(w)'
    BY <1>3 DEF Recording, Seeding
  <2>2. Due(w) = 0 /\ Due(w)' = c
    BY <1>3, <2>1 DEF Due
  <2>3. CASE local[w].born = month
    BY <1>3, <1>4, <2>2, <2>3 DEF Unsaved
  <2>4. CASE local[w].born # month
    BY <1>3, <1>4, <2>2, <2>4 DEF Unsaved
  <2> QED
    BY <2>2, <2>3, <2>4
<1>9. P[w] = {}
  <2>1. P[w] \in SUBSET Cents /\ Cardinality(P[w]) = 0
    BY <1>1, <1>8 DEF Accounts
  <2>2. IsFiniteSet(P[w])
    BY <1>1, <2>1, AccountsFinite
  <2> QED
    BY <2>1, <2>2, FS_EmptySet
<1>10. Cardinality(Q[w] \cup F) = Unsaved(w) + c
  <2>1. Q[w] \in SUBSET Cents /\ Cardinality(Q[w]) = Unsaved(w)
    BY <1>1 DEF Accounts
  <2>2. IsFiniteSet(Q[w]) /\ Q[w] \cap F = {}
    BY <1>1, <1>7, <2>1, AccountsFinite
  <2> QED
    BY <1>6, <2>1, <2>2, DisjointUnion
<1>11. \A v \in Workers \ {w} : Due(v)' = Due(v) /\ Unsaved(v)' = Unsaved(v)
  BY <1>3 DEF Due, Unsaved, Recording
<1> DEFINE QQ == [Q EXCEPT ![w] = Q[w] \cup F]
           PP == [P EXCEPT ![w] = F]
<1>12. {QQ, PP, R} \subseteq [Workers -> SUBSET Cents']
  BY <1>1, <1>7 DEF Accounts
<1>13. ASSUME NEW u \in Workers
      PROVE  /\ Cardinality(QQ[u]) = Unsaved(u)' /\ L \cap QQ[u] = {}
             /\ Cardinality(PP[u]) = Due(u)' /\ PP[u] \subseteq QQ[u] /\ C \cap PP[u] = {}
             /\ pc'[u] = "seed" /\ local'[u].period = month => Cardinality(R[u]) = local'[u].read
             /\ \A v \in Workers : R[v] \cap PP[u] = {} /\ (v # u => QQ[v] \cap QQ[u] = {})
  <2>1. {Q, P, R} \subseteq [Workers -> SUBSET Cents] /\ L \in SUBSET Cents /\ C \in SUBSET Cents
    BY <1>1 DEF Accounts
  <2>2. CASE u = w
    <3>1. QQ[u] = Q[w] \cup F /\ PP[u] = F /\ \A v \in Workers \ {w} : QQ[v] = Q[v]
      BY <2>1, <2>2
    <3>2. L \cap Q[w] = {} /\ \A v \in Workers \ {w} : Q[v] \cap Q[w] = {}
      BY <1>1 DEF Accounts
    <3>3. \A v \in Workers : R[v] \cap F = {} /\ Q[v] \cap F = {}
      BY <1>7, <2>1
    <3>4. Cardinality(QQ[u]) = Unsaved(u)' /\ Cardinality(PP[u]) = Due(u)' /\ pc'[u] # "seed"
      BY <1>3, <1>6, <1>8, <1>10, <2>2, <3>1
    <3>5. L \cap F = {} /\ C \cap F = {}
      BY <1>7, <2>1
    <3> HIDE DEF QQ, PP
    <3> QED
      BY <2>2, <3>1, <3>2, <3>3, <3>4, <3>5
  <2>3. CASE u # w
    <3>1. QQ[u] = Q[u] /\ PP[u] = P[u] /\ QQ[w] = Q[w] \cup F /\ F \cap Q[u] = {}
          /\ \A v \in Workers \ {w} : QQ[v] = Q[v]
      BY <1>7, <2>1, <2>3
    <3>2. Cardinality(QQ[u]) = Unsaved(u)' /\ Cardinality(PP[u]) = Due(u)'
      BY <1>1, <1>11, <2>3, <3>1 DEF Accounts
    <3> HIDE DEF QQ, PP
    <3> QED
      BY <1>1, <1>3, <2>3, <3>1, <3>2 DEF Accounts
  <2> QED
    BY <2>2, <2>3
<1>14. Accounts(L, C, QQ, PP, R)'
  <2> HIDE DEF QQ, PP
  <2>1. /\ L \in SUBSET Cents' /\ Cardinality(L) = ledger'[month']
        /\ C \in SUBSET Cents' /\ (counter'[month'] # None => Cardinality(C) = counter'[month'])
    BY <1>1, <1>3, <1>7 DEF Accounts
  <2> QED
    BY <1>3, <1>12, <1>13, <2>1 DEF Accounts
<1> QED
  BY <1>14 DEF EachCentCountsOnce

\* A recorded cost moves from the worker to the counter.
LEMMA IncrCounts ==
  ASSUME TypeOK, EachCentCountsOnce, UsesApart, NEW w \in Workers, Incr(w)
  PROVE  EachCentCountsOnce'
<1>1. PICK L, C, Q, P, R : Accounts(L, C, Q, P, R)
  BY DEF EachCentCountsOnce
<1> DEFINE p == local[w].period
<1>2. /\ \A v \in Workers \ {w} : local'[v] = local[v] /\ pc'[v] = pc[v]
      /\ \A f \in {"use", "period", "born", "kept"} : local'[w][f] = local[w][f]
      /\ UNCHANGED <<month, ledger, spent>>
      /\ pc[w] = "incr" /\ pc'[w] \in {"opinion", "save"}
  BY DEF Incr, Goto, TypeOK, Local, AfterRecord
<1>3. counter' = [counter EXCEPT ![p] = (IF counter[p] = None THEN 0 ELSE counter[p]) + local[w].cost]
  BY DEF Incr
<1>4. Due(w)' = 0 /\ Unsaved(w)' \in {0, Unsaved(w)}
  BY <1>2 DEF Due, Unsaved, Recording, Seeding
<1>5. \A v \in Workers \ {w} : Due(v)' = Due(v) /\ Unsaved(v)' = Unsaved(v)
  BY <1>2 DEF Due, Unsaved, Recording
<1>6. Cents' = Cents
  BY <1>2 DEF Cents
<1>7. PICK q \in SUBSET Q[w] : Cardinality(q) = Unsaved(w)'
  BY <1>1, <1>4, FS_EmptySet DEF Accounts
<1>8. PICK D : /\ D \in SUBSET (C \cup P[w])
               /\ counter'[month] # None => Cardinality(D) = counter'[month]
  <2>1. CASE p # month
    BY <1>1, <1>3, <2>1, Fields DEF Accounts, TypeOK
  <2>2. CASE p = month
    <3>1. Cardinality(P[w]) = local[w].cost /\ local[w].cost \in Nat
      BY <1>1, <1>2, <2>2, Fields DEF Accounts, Due, Recording, UsesApart
    <3>2. CASE counter[month] = None
      <4>1. counter'[month] = 0 + local[w].cost
        BY <1>3, <2>2, <3>2, Fields DEF TypeOK
      <4> QED
        BY <3>1, <4>1
    <3>3. CASE counter[month] # None
      <4>1. counter'[month] = counter[month] + local[w].cost /\ counter[month] \in Nat
        BY <1>3, <2>2, <3>3, Fields DEF TypeOK
      <4>2. /\ C \in SUBSET Cents /\ P[w] \in SUBSET Cents /\ C \cap P[w] = {}
            /\ Cardinality(C) = counter[month]
        BY <1>1, <3>3 DEF Accounts
      <4>3. IsFiniteSet(C) /\ IsFiniteSet(P[w])
        BY <1>1, <4>2, AccountsFinite
      <4>4. Cardinality(C \cup P[w]) = counter'[month]
        BY <3>1, <4>1, <4>2, <4>3, DisjointUnion
      <4> QED
        BY <4>4
    <3> QED
      BY <3>2, <3>3
  <2> QED
    BY <2>1, <2>2
<1> DEFINE QQ == [Q EXCEPT ![w] = q]
           PP == [P EXCEPT ![w] = {}]
<1>9. {QQ, PP, R} \subseteq [Workers -> SUBSET Cents] /\ D \in SUBSET Cents
  BY <1>1, <1>7, <1>8 DEF Accounts
<1>10. ASSUME NEW u \in Workers
       PROVE  /\ Cardinality(QQ[u]) = Unsaved(u)' /\ L \cap QQ[u] = {}
              /\ Cardinality(PP[u]) = Due(u)' /\ PP[u] \subseteq QQ[u] /\ D \cap PP[u] = {}
              /\ pc'[u] = "seed" /\ local'[u].period = month => Cardinality(R[u]) = local'[u].read
              /\ \A v \in Workers : R[v] \cap PP[u] = {} /\ (v # u => QQ[v] \cap QQ[u] = {})
  <2>1. /\ QQ[u] \subseteq Q[u] /\ PP[u] \subseteq P[u] /\ PP[u] \subseteq QQ[u]
        /\ \A v \in Workers : QQ[v] \subseteq Q[v]
    BY <1>1, <1>7 DEF Accounts
  <2>2. Cardinality(QQ[u]) = Unsaved(u)' /\ Cardinality(PP[u]) = Due(u)'
    BY <1>1, <1>4, <1>5, <1>7, FS_EmptySet DEF Accounts
  <2>3. pc'[u] = "seed" /\ local'[u].period = month => Cardinality(R[u]) = local'[u].read
    BY <1>1, <1>2 DEF Accounts
  <2>4. D \cap PP[u] = {}
    <3>1. CASE u = w
      BY <1>1, <3>1 DEF Accounts
    <3>2. CASE u # w
      <4>1. C \cap P[u] = {} /\ P[w] \subseteq Q[w] /\ P[u] \subseteq Q[u] /\ Q[w] \cap Q[u] = {}
        BY <1>1, <3>2 DEF Accounts
      <4> QED
        BY <1>8, <2>1, <4>1
    <3> QED
      BY <3>1, <3>2
  <2> HIDE DEF QQ, PP
  <2> QED
    BY <1>1, <2>1, <2>2, <2>3, <2>4 DEF Accounts
<1>11. Accounts(L, D, QQ, PP, R)'
  <2> HIDE DEF QQ, PP
  <2> QED
    BY <1>1, <1>2, <1>6, <1>8, <1>9, <1>10 DEF Accounts
<1> QED
  BY <1>11 DEF EachCentCountsOnce

\* What is saved moves from the worker to the ledger.
LEMMA SaveCounts ==
  ASSUME TypeOK, EachCentCountsOnce, NEW w \in Workers, Save(w)
  PROVE  EachCentCountsOnce'
<1>1. PICK L, C, Q, P, R : Accounts(L, C, Q, P, R)
  BY DEF EachCentCountsOnce
<1>2. /\ \A v \in Workers \ {w} : local'[v] = local[v] /\ pc'[v] = pc[v]
      /\ local'[w] = Fresh /\ pc'[w] = "idle" /\ pc[w] = "save"
      /\ UNCHANGED <<month, counter, spent>>
      /\ ledger' = [ledger EXCEPT ![local[w].born] = @ + local[w].kept]
  BY DEF Save, Leave, Goto, TypeOK, history
<1>3. Unsaved(w)' = 0 /\ Due(w)' = 0 /\ Due(w) = 0
  BY <1>2 DEF Fresh, Recording, Seeding, Unsaved, Due
<1>4. \A v \in Workers \ {w} : Due(v)' = Due(v) /\ Unsaved(v)' = Unsaved(v)
  BY <1>2 DEF Due, Unsaved, Recording
<1>5. Cents' = Cents
  BY <1>2 DEF Cents
<1>6. PICK M \in SUBSET (L \cup Q[w]) : Cardinality(M) = ledger'[month]
  <2>1. CASE local[w].born # month
    <3>1. ledger'[month] = ledger[month]
      BY <1>2, <2>1, Fields DEF TypeOK
    <3> QED
      BY <1>1, <3>1 DEF Accounts
  <2>2. CASE local[w].born = month
    <3>1. /\ L \in SUBSET Cents /\ Q[w] \in SUBSET Cents /\ L \cap Q[w] = {}
          /\ Cardinality(L) = ledger[month] /\ Cardinality(Q[w]) = local[w].kept
      BY <1>1, <2>2 DEF Accounts, Unsaved
    <3>2. IsFiniteSet(L) /\ IsFiniteSet(Q[w])
      BY <1>1, <3>1, AccountsFinite
    <3>3. ledger'[month] = ledger[month] + local[w].kept
          /\ ledger[month] \in Nat /\ local[w].kept \in Nat
      BY <1>2, <2>2, Fields DEF TypeOK
    <3>4. Cardinality(L \cup Q[w]) = ledger'[month]
      BY <3>1, <3>2, <3>3, DisjointUnion
    <3> QED
      BY <3>4
  <2> QED
    BY <2>1, <2>2
<1> DEFINE QQ == [Q EXCEPT ![w] = {}]
           PP == [P EXCEPT ![w] = {}]
<1>7. {QQ, PP, R} \subseteq [Workers -> SUBSET Cents] /\ M \in SUBSET Cents
  BY <1>1, <1>6 DEF Accounts
<1>8. ASSUME NEW u \in Workers
      PROVE  /\ Cardinality(QQ[u]) = Unsaved(u)' /\ M \cap QQ[u] = {}
             /\ Cardinality(PP[u]) = Due(u)' /\ PP[u] \subseteq QQ[u] /\ C \cap PP[u] = {}
             /\ pc'[u] = "seed" /\ local'[u].period = month => Cardinality(R[u]) = local'[u].read
             /\ \A v \in Workers : R[v] \cap PP[u] = {} /\ (v # u => QQ[v] \cap QQ[u] = {})
  <2>1. /\ QQ[u] \subseteq Q[u] /\ PP[u] \subseteq P[u] /\ PP[u] \subseteq QQ[u]
        /\ \A v \in Workers : QQ[v] \subseteq Q[v]
        /\ (u = w => QQ[u] = {})
    BY <1>1 DEF Accounts
  <2>2. Cardinality(QQ[u]) = Unsaved(u)' /\ Cardinality(PP[u]) = Due(u)'
    BY <1>1, <1>3, <1>4, FS_EmptySet DEF Accounts
  <2>3. pc'[u] = "seed" /\ local'[u].period = month => Cardinality(R[u]) = local'[u].read
    BY <1>1, <1>2 DEF Accounts
  <2> HIDE DEF QQ, PP
  <2>4. M \cap QQ[u] = {}
    <3>1. CASE u = w
      BY <2>1, <3>1
    <3>2. CASE u # w
      <4>1. L \cap Q[u] = {} /\ Q[w] \cap Q[u] = {}
        BY <1>1, <3>2 DEF Accounts
      <4> QED
        BY <1>6, <2>1, <4>1
    <3> QED
      BY <3>1, <3>2
  <2> QED
    BY <1>1, <2>1, <2>2, <2>3, <2>4 DEF Accounts
<1>9. Accounts(M, C, QQ, PP, R)'
  <2> HIDE DEF QQ, PP
  <2> QED
    BY <1>1, <1>2, <1>5, <1>6, <1>7, <1>8 DEF Accounts
<1> QED
  BY <1>9 DEF EachCentCountsOnce

\* A seed that finds no counter brings in none of the cents still to be recorded.
LEMMA SeedCounts ==
  ASSUME TypeOK, EachCentCountsOnce, NEW w \in Workers, Seed(w)
  PROVE  EachCentCountsOnce'
<1>1. PICK L, C, Q, P, R : Accounts(L, C, Q, P, R)
  BY DEF EachCentCountsOnce
<1> DEFINE p == local[w].period
<1>2. /\ UNCHANGED <<month, ledger, local, spent>>
      /\ pc[w] = "seed" /\ pc'[w] = "reget" /\ \A v \in Workers \ {w} : pc'[v] = pc[v]
      /\ counter' = IF counter[p] = None THEN [counter EXCEPT ![p] = local[w].read] ELSE counter
  BY DEF Seed, Goto, TypeOK, history
<1>3. \A v \in Workers : Due(v)' = Due(v) /\ Unsaved(v)' = Unsaved(v)
  BY <1>2 DEF Due, Unsaved, Recording, Seeding
<1>4. Cents' = Cents
  BY <1>2 DEF Cents
<1>5. PICK D \in {C, R[w]} : counter'[month] # None => Cardinality(D) = counter'[month]
  <2>1. CASE p = month /\ counter[month] = None
    <3>1. counter'[month] = local[w].read
      BY <1>2, <2>1, Fields DEF TypeOK
    <3>2. Cardinality(R[w]) = local[w].read
      BY <1>1, <1>2, <2>1 DEF Accounts
    <3> QED
      BY <3>1, <3>2
  <2>2. CASE ~(p = month /\ counter[month] = None)
    <3>1. counter'[month] = counter[month]
      BY <1>2, <2>2, Fields DEF TypeOK
    <3> QED
      BY <1>1, <3>1 DEF Accounts
  <2> QED
    BY <2>1, <2>2
<1>6. D \in SUBSET Cents /\ \A u \in Workers : D \cap P[u] = {}
  BY <1>1, <1>5 DEF Accounts
<1>7. \A u \in Workers : pc'[u] = "seed" /\ local'[u].period = month =>
                           Cardinality(R[u]) = local'[u].read
  BY <1>1, <1>2 DEF Accounts
<1>8. Accounts(L, D, Q, P, R)'
  BY <1>1, <1>2, <1>3, <1>4, <1>5, <1>6, <1>7 DEF Accounts
<1> QED
  BY <1>8 DEF EachCentCountsOnce

\* Every action keeps each cent counted once.
LEMMA OnceStep ==
  ASSUME TypeOK, SpendInv, EachCentCountsOnce, UsesApart, [Next]_vars
  PROVE  EachCentCountsOnce'
<1> USE DEF history
<1>1. ASSUME NEW w \in Workers, Begin(w) PROVE EachCentCountsOnce'
  <2>1. PICK m \in 1 .. month :
          local' = [local EXCEPT ![w] = [Fresh EXCEPT !.period = month, !.born = m]]
    BY <1>1 DEF Begin
  <2>2. /\ \A v \in Workers \ {w} : local'[v] = local[v] /\ pc'[v] = pc[v]
        /\ local'[w].kept = 0 /\ local'[w].use = "status" /\ pc'[w] = "get"
        /\ UNCHANGED <<month, counter, ledger, spent>>
    BY <1>1, <2>1 DEF Begin, Goto, TypeOK, Fresh
  <2>3. Unsaved(w)' = 0 /\ Due(w)' = 0
    BY <2>2 DEF Unsaved, Due, Recording
  <2> QED
    BY <2>2, <2>3, CalmStep
<1>2. ASSUME NEW w \in Workers, pc[w] \in {"get", "select", "reget"},
             \A v \in Workers \ {w} : local'[v] = local[v] /\ pc'[v] = pc[v],
             \A f \in {"use", "period", "born", "cost", "kept"} : local'[w][f] = local[w][f],
             UNCHANGED <<month, counter, ledger, spent>>,
             Recording(w)' <=> Recording(w),
             pc'[w] = "seed" => local'[w].read = ledger[month]
      PROVE  EachCentCountsOnce'
  <2>1. Unsaved(w)' = Unsaved(w) /\ Due(w)' = Due(w)
    BY <1>2 DEF Unsaved, Due
  <2> QED
    BY <1>2, <2>1, CalmStep
<1>3. ASSUME NEW w \in Workers, Get(w) PROVE EachCentCountsOnce'
  <2>1. /\ \A v \in Workers \ {w} : local'[v] = local[v] /\ pc'[v] = pc[v]
        /\ \A f \in {"use", "period", "born", "cost", "kept"} : local'[w][f] = local[w][f]
        /\ UNCHANGED <<month, counter, ledger, spent>>
    BY <1>3 DEF Get, Goto, TypeOK, Local
  <2>2. pc[w] = "get" /\ pc'[w] \in {"select", AfterRead(w)}
    BY <1>3 DEF Get, Goto, TypeOK
  <2>3. (Recording(w)' <=> Recording(w)) /\ pc'[w] # "seed"
    BY <2>1, <2>2 DEF Recording, Seeding, AfterRead
  <2> QED
    BY <1>2, <2>1, <2>2, <2>3
<1>4. ASSUME NEW w \in Workers, Select(w) PROVE EachCentCountsOnce'
  <2>1. /\ \A v \in Workers \ {w} : local'[v] = local[v] /\ pc'[v] = pc[v]
        /\ \A f \in {"use", "period", "born", "cost", "kept"} : local'[w][f] = local[w][f]
        /\ local'[w].read = ledger[month] /\ pc[w] = "select" /\ pc'[w] = "seed"
        /\ UNCHANGED <<month, counter, ledger, spent>>
    BY <1>4 DEF Select, Goto, TypeOK, Local
  <2>2. Recording(w)' <=> Recording(w)
    BY <2>1 DEF Recording, Seeding
  <2> QED
    BY <1>2, <2>1, <2>2
<1>5. ASSUME NEW w \in Workers, Reget(w) PROVE EachCentCountsOnce'
  <2>1. /\ \A v \in Workers \ {w} : local'[v] = local[v] /\ pc'[v] = pc[v]
        /\ \A f \in {"use", "period", "born", "cost", "kept"} : local'[w][f] = local[w][f]
        /\ UNCHANGED <<month, counter, ledger, spent>>
    BY <1>5 DEF Reget, Goto, TypeOK, Local
  <2>2. pc[w] = "reget" /\ pc'[w] = AfterRead(w)
    BY <1>5 DEF Reget, Goto, TypeOK
  <2>3. (Recording(w)' <=> Recording(w)) /\ pc'[w] # "seed"
    BY <2>1, <2>2 DEF Recording, Seeding, AfterRead
  <2> QED
    BY <1>2, <2>1, <2>2, <2>3
<1>6. ASSUME NEW w \in Workers, Decide(w) PROVE EachCentCountsOnce'
  <2>1. CASE Exhausted(local[w].read)
    BY <1>6, <2>1, LeaveCounts DEF Decide
  <2>2. CASE ~Exhausted(local[w].read)
    <3> DEFINE b == ~Warning(local[w].read)
    <3>1. /\ local' = [local EXCEPT ![w] = [local[w] EXCEPT !.second = b, !.read = 0]]
          /\ pc[w] = "decide" /\ pc' = [pc EXCEPT ![w] = "primary"]
          /\ UNCHANGED <<month, counter, ledger, spent>>
      BY <1>6, <2>2 DEF Decide, Goto
    <3> HIDE DEF b
    <3>2. /\ \A v \in Workers \ {w} : local'[v] = local[v] /\ pc'[v] = pc[v]
          /\ \A f \in {"use", "period", "born", "cost", "kept"} : local'[w][f] = local[w][f]
          /\ pc'[w] = "primary"
      BY <3>1 DEF TypeOK, Local
    <3>3. Due(w) = 0 /\ Due(w)' = 0 /\ Unsaved(w)' = Unsaved(w)
      BY <3>1, <3>2 DEF Due, Unsaved, Recording, Seeding
    <3> QED
      BY <3>1, <3>2, <3>3, CalmStep
  <2> QED
    BY <2>1, <2>2
<1>7. ASSUME NEW w \in Workers, PrimaryAnswers(w) \/ SecondAnswers(w) PROVE EachCentCountsOnce'
  BY <1>7, AnswerCounts DEF PrimaryAnswers, SecondAnswers
<1>8. ASSUME NEW w \in Workers, Goto(w, "save"), UNCHANGED <<month, counter, ledger, local, spent>>
      PROVE  EachCentCountsOnce'
  <2>1. /\ \A v \in Workers \ {w} : local'[v] = local[v] /\ pc'[v] = pc[v]
        /\ pc'[w] = "save" /\ ~Recording(w)'
    BY <1>8 DEF Goto, TypeOK, Recording, Seeding
  <2>2. Due(w)' = 0 /\ Unsaved(w)' \in {0, Unsaved(w)}
    BY <1>8, <2>1 DEF Due, Unsaved
  <2> QED
    BY <1>8, <2>1, <2>2, CalmStep
<1>9. ASSUME NEW w \in Workers, NoAnswer(w) PROVE EachCentCountsOnce'
  BY <1>8, <1>9, LeaveCounts DEF NoAnswer
<1>10. ASSUME NEW w \in Workers, RedisFails(w) PROVE EachCentCountsOnce'
  BY <1>8, <1>10, LeaveCounts DEF RedisFails, Failure
<1>11. ASSUME NEW w \in Workers, SaveFails(w) \/ Crash(w) PROVE EachCentCountsOnce'
  BY <1>11, LeaveCounts DEF SaveFails, Crash, Failure
<1>12. ASSUME UNCHANGED <<month, ledger, pc, local, spent>>,
              counter'[month] \in {None, counter[month]}
       PROVE  EachCentCountsOnce'
  <2>1. PICK L, C, Q, P, R : Accounts(L, C, Q, P, R)
    BY DEF EachCentCountsOnce
  <2>2. Cents' = Cents /\ \A w \in Workers : Due(w)' = Due(w) /\ Unsaved(w)' = Unsaved(w)
    BY <1>12 DEF Cents, Due, Unsaved, Recording
  <2>3. Accounts(L, C, Q, P, R)'
    BY <1>12, <2>1, <2>2 DEF Accounts
  <2> QED
    BY <2>3 DEF EachCentCountsOnce
<1>13. ASSUME LoseCounter PROVE EachCentCountsOnce'
  BY <1>12, <1>13 DEF LoseCounter, TypeOK
<1>14. ASSUME NEW m \in Months, Expire(m) PROVE EachCentCountsOnce'
  <2>1. counter'[month] = counter[month]
    BY <1>14 DEF Expire, TypeOK, Months
  <2> QED
    BY <1>12, <1>14, <2>1 DEF Expire
<1>15. ASSUME NextMonth PROVE EachCentCountsOnce'
  <2>1. /\ UNCHANGED <<counter, ledger, pc, local, spent>>
        /\ month' = month + 1 /\ month \in Nat /\ month' \in Months
    BY <1>15, SpendConstants DEF NextMonth, TypeOK, Months
  <2>2. counter'[month'] = None /\ ledger'[month'] = 0 /\ spent'[month'] \in Nat
    BY <2>1 DEF SpendInv, FutureEmpty, TypeOK
  <2>3. \A w \in Workers : local'[w].born # month' /\ local'[w].period # month'
    BY <2>1, Fields DEF SpendInv, PeriodsPast
  <2>4. \A w \in Workers : Unsaved(w)' = 0 /\ Due(w)' = 0
    BY <2>3 DEF Unsaved, Due
  <2> DEFINE E == [w \in Workers |-> {}]
  <2>5. Accounts({}, {}, E, E, E)'
    BY <2>2, <2>3, <2>4, FS_EmptySet DEF Accounts
  <2> QED
    BY <2>5 DEF EachCentCountsOnce
<1>16. CASE UNCHANGED vars
  BY <1>12, <1>16 DEF vars
<1> QED
  BY <1>1, <1>3, <1>4, <1>5, <1>6, <1>7, <1>9, <1>10, <1>11, <1>13, <1>14, <1>15, <1>16,
     SeedCounts, IncrCounts, SaveCounts DEF Next

\* Every action keeps the uses of the counter apart.
LEMMA UsesStep == TypeOK /\ UsesApart /\ [Next]_vars => UsesApart'
<1> SUFFICES ASSUME TypeOK, UsesApart, [Next]_vars, NEW v \in Workers
             PROVE  /\ pc'[v] = "incr" => local'[v].use # "status"
                    /\ pc'[v] = "decide" => local'[v].use = "status"
  BY DEF UsesApart
<1> DEFINE Apart == /\ pc'[v] = "incr" => local'[v].use # "status"
                    /\ pc'[v] = "decide" => local'[v].use = "status"
<1> USE DEF history
<1>1. ASSUME NEW w \in Workers, Get(w) \/ Reget(w) PROVE Apart
  <2>1. /\ v # w => local'[v] = local[v] /\ pc'[v] = pc[v]
        /\ local'[w].use = local[w].use /\ pc'[w] \in {"select", AfterRead(w)}
    BY <1>1 DEF Get, Reget, Goto, TypeOK, Local
  <2> QED
    BY <2>1 DEF AfterRead, UsesApart
<1>2. ASSUME NEW w \in Workers,
             \/ Begin(w) \/ Select(w) \/ Seed(w) \/ Decide(w)
             \/ PrimaryAnswers(w) \/ SecondAnswers(w) \/ NoAnswer(w) \/ Incr(w)
             \/ Save(w) \/ SaveFails(w) \/ RedisFails(w) \/ Crash(w)
      PROVE  Apart
  <2>1. /\ v # w => local'[v] = local[v] /\ pc'[v] = pc[v]
        /\ pc'[w] \notin {"incr", "decide"}
    <3>1. /\ pc \in [Workers -> Labels] /\ local \in [Workers -> Local]
      BY DEF TypeOK
    <3>2. CASE Begin(w) \/ Select(w) \/ Seed(w) \/ Decide(w)
      BY <3>1, <3>2 DEF Begin, Select, Seed, Decide, Leave, Goto
    <3>3. CASE PrimaryAnswers(w) \/ SecondAnswers(w) \/ NoAnswer(w)
      BY <3>1, <3>3 DEF PrimaryAnswers, SecondAnswers, Answer, NoAnswer, Leave, Goto
    <3>4. CASE Incr(w)
      BY <3>1, <3>4 DEF Incr, Goto, AfterRecord
    <3>5. CASE Save(w) \/ SaveFails(w) \/ RedisFails(w) \/ Crash(w)
      BY <3>1, <3>5 DEF Save, SaveFails, RedisFails, Crash, Leave, Goto
    <3> QED
      BY <1>2, <3>2, <3>3, <3>4, <3>5
  <2> QED
    BY <2>1 DEF UsesApart
<1>3. ASSUME LoseCounter \/ NextMonth \/ (\E m \in Months : Expire(m)) \/ UNCHANGED vars
      PROVE  Apart
  BY <1>3 DEF LoseCounter, NextMonth, Expire, vars, UsesApart
<1> QED
  BY <1>1, <1>2, <1>3 DEF Next

\* Initially nothing is spent and nothing is counted.
LEMMA InitCounts == Init => EachCentCountsOnce /\ UsesApart
<1> SUFFICES ASSUME Init PROVE EachCentCountsOnce /\ UsesApart
  OBVIOUS
<1>1. 1 \in Months
  BY SpendConstants DEF Months
<1>2. /\ spent[month] \in Nat /\ ledger[month] = 0 /\ counter[month] = None
      /\ \A w \in Workers : pc[w] = "idle" /\ local[w] = Fresh
  BY <1>1 DEF Init
<1>3. \A w \in Workers : Unsaved(w) = 0 /\ Due(w) = 0
  BY <1>2 DEF Unsaved, Due, Recording, Fresh
<1> QED
  BY <1>2, <1>3, EmptyAccounts DEF UsesApart

\* However often Redis loses the counter, whoever seeds it again and whatever is
\* rolled back, the month is never charged for more than was spent in it.
THEOREM MonthIsNeverOvercharged == Spec => []NeverOvercharged
<1> DEFINE Inv == TypeOK /\ SpendInv /\ EachCentCountsOnce /\ UsesApart
<1>1. Init => Inv
  BY InitEstablishes, InitCounts
<1>2. Inv /\ [Next]_vars => Inv'
  <2>1. ASSUME Inv, [Next]_vars
        PROVE  TypeOK' /\ SpendInv' /\ EachCentCountsOnce' /\ UsesApart'
    BY <2>1, TypeStep, InvStep, OnceStep, UsesStep
  <2> QED
    BY <2>1
<1>3. Inv => NeverOvercharged
  BY OnceIsEnough
<1> HIDE DEF Inv
<1> QED
  BY <1>1, <1>2, <1>3, PTL DEF Spec

-----------------------------------------------------------------------------
(* The overshoot *)

\* What the calls a worker is yet to make may cost: two calls for one that has still to
\* read the counter of a past month, none for one that has still to read this month's.
Ahead(w) ==
  IF pc[w] = "primary" THEN (IF local[w].second THEN 2 * MaxCost ELSE MaxCost)
  ELSE IF pc[w] = "opinion" THEN MaxCost
  ELSE IF pc[w] \in {"idle", "save"} THEN 0
  ELSE IF local[w].use = "primary" THEN (IF local[w].second THEN MaxCost ELSE 0)
  ELSE IF local[w].use = "secondary" THEN 0
  ELSE IF local[w].period # month THEN 2 * MaxCost
  ELSE IF pc[w] # "decide" \/ Exhausted(local[w].read) THEN 0
  ELSE IF Warning(local[w].read) THEN MaxCost ELSE 2 * MaxCost

\* What is yet to be recorded, and what is yet to be recorded or spent, by worker.
Stake(w) == Due(w) + Ahead(w)
Dues == [w \in Workers |-> Due(w)]
Stakes == [w \in Workers |-> Stake(w)]

\* The sum of a function from the workers to 0 .. 2 * MaxCost.
Heap(f) == {t \in Workers \X (1 .. 2 * MaxCost) : t[2] <= f[t[1]]}
Total(f) == Cardinality(Heap(f))

\* A call costs at most MaxCost, and the months to come have cost nothing.
CostsBounded == \A w \in Workers : Recording(w) => local[w].cost <= MaxCost
FutureUnspent == \A m \in Months : m > month => spent[m] = 0

\* After its own seed a worker finds a counter.
SeedIsFound ==
  intact => \A w \in Workers : pc[w] = "reget" /\ local[w].period = month => counter[month] # None

\* What is spent is booked or due ...
SpentIsBooked == intact => spent[month] = booked[month] + Total(Dues)

\* ... and what is booked or at stake is within the overshoot of a counter that
\* lets a worker through.
StakesBounded ==
  intact /\ Budget > 0 =>
    \E s \in 0 .. booked[month] :
      ~Exhausted(s) /\ booked[month] + Total(Stakes) <= s + Overshoot(s)

FlightInv ==
  /\ CostsBounded /\ FutureUnspent /\ SeedIsFound /\ UsesApart
  /\ SpentIsBooked /\ StakesBounded

\* A sum is a number, at most 2 * MaxCost for each worker.
LEMMA TotalBound ==
  ASSUME NEW f
  PROVE  /\ IsFiniteSet(Heap(f)) /\ Total(f) \in Nat
         /\ Total(f) <= Cardinality(Workers) * (2 * MaxCost)
<1>1. MaxCost \in Nat /\ IsFiniteSet(Workers)
  BY SpendConstants
<1>2. IsFiniteSet(1 .. 2 * MaxCost) /\ Cardinality(1 .. 2 * MaxCost) = 2 * MaxCost
  BY <1>1, Numbers
<1>3. /\ IsFiniteSet(Workers \X (1 .. 2 * MaxCost))
      /\ Cardinality(Workers \X (1 .. 2 * MaxCost)) = Cardinality(Workers) * (2 * MaxCost)
  BY <1>1, <1>2, FS_Product
<1>4. Heap(f) \in SUBSET (Workers \X (1 .. 2 * MaxCost))
  BY DEF Heap
<1> QED
  BY <1>3, <1>4, FS_Subset, FS_CardinalityType DEF Total

\* A sum of smaller numbers is smaller.
LEMMA TotalMonotone ==
  ASSUME NEW f, NEW g, \A w \in Workers : f[w] \in Nat /\ g[w] \in Nat /\ f[w] <= g[w]
  PROVE  Total(f) <= Total(g)
<1>1. Heap(f) \in SUBSET Heap(g)
  BY SpendConstants DEF Heap
<1> QED
  BY <1>1, TotalBound, FS_Subset DEF Total

\* A sum of zeros is zero.
LEMMA TotalZero ==
  ASSUME NEW f, \A w \in Workers : f[w] = 0
  PROVE  Total(f) = 0
<1>1. Heap(f) = {}
  BY SpendConstants DEF Heap
<1> QED
  BY <1>1, FS_EmptySet DEF Total

\* A sum changes by as much as the one term that changes.
LEMMA TotalStep ==
  ASSUME NEW f, NEW g, NEW w \in Workers,
         f[w] \in 0 .. 2 * MaxCost, g[w] \in 0 .. 2 * MaxCost,
         \A v \in Workers \ {w} : g[v] = f[v]
  PROVE  Total(g) - g[w] = Total(f) - f[w]
<1> DEFINE Rest == {t \in Heap(f) : t[1] # w}
           Own(n) == {w} \X (1 .. n)
<1>1. MaxCost \in Nat
  BY SpendConstants
<1>2. ASSUME NEW h, h[w] \in 0 .. 2 * MaxCost, {t \in Heap(h) : t[1] # w} = Rest
      PROVE  Total(h) = Cardinality(Rest) + h[w]
  <2>1. Heap(h) = Rest \cup Own(h[w])
    <3>1. Heap(h) = {t \in Heap(h) : t[1] # w} \cup {t \in Heap(h) : t[1] = w}
      OBVIOUS
    <3>2. ASSUME NEW t PROVE t \in Heap(h) /\ t[1] = w <=> t \in Own(h[w])
      <4>1. \A i \in 1 .. h[w] : i \in 1 .. 2 * MaxCost /\ i <= h[w]
        BY <1>1, <1>2
      <4>2. \A i \in 1 .. 2 * MaxCost : i <= h[w] => i \in 1 .. h[w]
        BY <1>1, <1>2
      <4>3. t \in Own(h[w]) => t \in Heap(h) /\ t[1] = w
        BY <4>1 DEF Heap
      <4>4. t \in Heap(h) /\ t[1] = w => t \in Own(h[w])
        BY <4>2 DEF Heap
      <4> QED
        BY <4>3, <4>4
    <3> HIDE DEF Rest, Own
    <3>3. \A t : t \in Own(h[w]) => t \in Heap(h)
      BY <3>2
    <3>4. {t \in Heap(h) : t[1] = w} = Own(h[w])
      BY <3>2, <3>3
    <3> QED
      BY <1>2, <3>1, <3>4
  <2>2. Rest \cap Own(h[w]) = {}
    OBVIOUS
  <2>3. IsFiniteSet(Rest)
    BY TotalBound, FS_Subset
  <2>4. IsFiniteSet(Own(h[w])) /\ Cardinality(Own(h[w])) = h[w]
    <3>1. IsFiniteSet({w}) /\ Cardinality({w}) = 1
      BY FS_Singleton
    <3>2. IsFiniteSet(1 .. h[w]) /\ Cardinality(1 .. h[w]) = h[w]
      BY <1>1, <1>2, Numbers
    <3>3. IsFiniteSet(Own(h[w])) /\ Cardinality(Own(h[w])) = Cardinality({w}) * Cardinality(1 .. h[w])
      BY <3>1, <3>2, FS_Product
    <3> QED
      BY <1>1, <1>2, <3>1, <3>2, <3>3
  <2> HIDE DEF Rest, Own
  <2> QED
    BY <2>1, <2>2, <2>3, <2>4, DisjointUnion DEF Total
<1>3. {t \in Heap(g) : t[1] # w} = Rest
  BY DEF Heap
<1>4. Total(f) = Cardinality(Rest) + f[w]
  <2> HIDE DEF Rest
  <2>1. {t \in Heap(f) : t[1] # w} = Rest
    BY DEF Rest
  <2> QED
    BY <1>2, <2>1
<1>5. Total(g) = Cardinality(Rest) + g[w]
  <2> HIDE DEF Rest
  <2> QED
    BY <1>2, <1>3
<1>6. Cardinality(Rest) \in Nat
  BY TotalBound, FS_Subset, FS_CardinalityType
<1> HIDE DEF Rest
<1> QED
  BY <1>1, <1>4, <1>5, <1>6

\* With w at n, the sum is at most what it would be with w at 2 * MaxCost, less the rest.
LEMMA TotalRoom ==
  ASSUME NEW f, NEW w \in Workers, f[w] \in 0 .. 2 * MaxCost, f \in [Workers -> Nat]
  PROVE  Total(f) <= Cardinality(Workers) * (2 * MaxCost) - (2 * MaxCost - f[w])
<1> DEFINE g == [f EXCEPT ![w] = 2 * MaxCost]
<1>1. MaxCost \in Nat
  BY SpendConstants
<1>2. g[w] = 2 * MaxCost /\ \A v \in Workers \ {w} : g[v] = f[v]
  BY <1>1
<1> HIDE DEF g
<1>3. Total(g) - g[w] = Total(f) - f[w]
  BY <1>1, <1>2, TotalStep
<1>4. Total(g) <= Cardinality(Workers) * (2 * MaxCost) /\ Total(g) \in Nat /\ Total(f) \in Nat
  BY TotalBound
<1>5. PICK k : k = Cardinality(Workers) * (2 * MaxCost)
  OBVIOUS
<1>6. k \in Nat
  BY <1>1, <1>5, SpendConstants, FS_CardinalityType
<1> QED
  BY <1>1, <1>2, <1>3, <1>4, <1>5, <1>6

\* What the overshoot is, without the product.
LEMMA OvershootIs ==
  ASSUME NEW s
  PROVE  /\ Overshoot(s) = Cardinality(Workers) * (2 * MaxCost) - (IF Warning(s) THEN MaxCost ELSE 0)
         /\ Cardinality(Workers) * (2 * MaxCost) \in Nat
<1>1. MaxCost \in Nat /\ Cardinality(Workers) \in Nat
  BY SpendConstants, FS_CardinalityType
<1>2. ASSUME NEW n \in Nat, NEW m \in Nat
      PROVE  (2 * n - 1) * m = n * (2 * m) - m /\ (2 * n - 0) * m = n * (2 * m) - 0
             /\ n * (2 * m) \in Nat
  OBVIOUS
<1> QED
  BY <1>1, <1>2 DEF Overshoot

\* A worker has at most two calls at stake.
LEMMA StakesRange ==
  ASSUME TypeOK, CostsBounded, NEW w \in Workers
  PROVE  /\ Due(w) \in 0 .. MaxCost /\ Ahead(w) \in 0 .. 2 * MaxCost
         /\ Stake(w) \in 0 .. 2 * MaxCost
<1>1. MaxCost \in Nat /\ local[w].cost \in Nat
  BY Fields, SpendConstants
<1>2. Ahead(w) \in {0, MaxCost, 2 * MaxCost}
  BY DEF Ahead
<1>3. CASE Recording(w)
  <2>1. Due(w) \in {0, local[w].cost} /\ local[w].cost <= MaxCost
    BY <1>3 DEF Due, CostsBounded
  <2>2. Ahead(w) \in {0, MaxCost}
    BY <1>3, SpendConstants DEF Ahead, Recording, Seeding, TypeOK, Local
  <2> QED
    BY <1>1, <2>1, <2>2 DEF Stake
<1>4. CASE ~Recording(w)
  <2>1. Due(w) = 0
    BY <1>4 DEF Due
  <2> QED
    BY <1>1, <1>2, <2>1 DEF Stake
<1> QED
  BY <1>3, <1>4

\* When one worker moves, the sums change by what its terms change.
LEMMA SumsStep ==
  ASSUME TypeOK, CostsBounded, NEW w \in Workers, UNCHANGED month,
         \A v \in Workers \ {w} : local'[v] = local[v] /\ pc'[v] = pc[v],
         Due(w)' \in 0 .. MaxCost, Stake(w)' \in 0 .. 2 * MaxCost
  PROVE  /\ {Total(Dues), Total(Dues)', Total(Stakes), Total(Stakes)'} \subseteq Nat
         /\ Total(Dues)' - Due(w)' = Total(Dues) - Due(w)
         /\ Total(Stakes)' - Stake(w)' = Total(Stakes) - Stake(w)
         /\ Total(Stakes)' <= Cardinality(Workers) * (2 * MaxCost) - (2 * MaxCost - Stake(w)')
<1>1. MaxCost \in Nat
  BY SpendConstants
<1>2. \A v \in Workers \ {w} : Due(v)' = Due(v) /\ Stake(v)' = Stake(v)
  BY DEF Due, Stake, Ahead, Recording
<1>3. \A v \in Workers : Due(v) \in 0 .. MaxCost /\ Stake(v) \in 0 .. 2 * MaxCost
  BY StakesRange
<1>4. PICK d, dd, k, kk : d = Dues /\ dd = Dues' /\ k = Stakes /\ kk = Stakes'
  OBVIOUS
<1>5. /\ \A v \in Workers : d[v] = Due(v) /\ dd[v] = Due(v)' /\ k[v] = Stake(v) /\ kk[v] = Stake(v)'
      /\ kk \in [Workers -> Nat]
  <2>1. \A v \in Workers : d[v] = Due(v) /\ dd[v] = Due(v)' /\ k[v] = Stake(v) /\ kk[v] = Stake(v)'
    BY <1>4 DEF Dues, Stakes
  <2>2. \A v \in Workers : Stake(v)' \in Nat
    BY <1>1, <1>2, <1>3
  <2>3. kk = [v \in Workers |-> Stake(v)']
    BY <1>4 DEF Stakes
  <2> QED
    BY <2>1, <2>2, <2>3
<1>6. /\ {d[w], dd[w], k[w], kk[w]} \subseteq 0 .. 2 * MaxCost
      /\ \A v \in Workers \ {w} : dd[v] = d[v] /\ kk[v] = k[v]
  BY <1>1, <1>2, <1>3, <1>5
<1>7. Total(dd) - dd[w] = Total(d) - d[w] /\ Total(kk) - kk[w] = Total(k) - k[w]
  BY <1>6, TotalStep
<1>8. Total(kk) <= Cardinality(Workers) * (2 * MaxCost) - (2 * MaxCost - kk[w])
  BY <1>5, <1>6, TotalRoom
<1>9. {Total(d), Total(dd), Total(k), Total(kk)} \subseteq Nat
  BY TotalBound
<1>10. /\ Total(d) = Total(Dues) /\ Total(dd) = Total(Dues)'
       /\ Total(k) = Total(Stakes) /\ Total(kk) = Total(Stakes)'
  BY <1>4 DEF Total, Heap
<1> QED
  BY <1>5, <1>7, <1>8, <1>9, <1>10

\* A step of one worker that books no more than it gives up, or that lets it
\* through at the counter's present value, keeps what is at stake in bounds.
LEMMA FlightStep ==
  ASSUME TypeOK, SpendInv, FlightInv, TypeOK', NEW w \in Workers, UNCHANGED month, intact' => intact,
         \A v \in Workers \ {w} : local'[v] = local[v] /\ pc'[v] = pc[v],
         Due(w)' \in 0 .. MaxCost, Stake(w)' \in 0 .. 2 * MaxCost,
         intact' => /\ spent'[month] + booked[month] + Due(w) = spent[month] + booked'[month] + Due(w)'
                    /\ booked'[month] >= booked[month]
                    /\ \/ booked'[month] + Stake(w)' <= booked[month] + Stake(w)
                       \/ /\ booked'[month] = booked[month] /\ ~Exhausted(booked[month])
                          /\ Stake(w)' <= IF Warning(booked[month]) THEN MaxCost ELSE 2 * MaxCost
  PROVE  SpentIsBooked' /\ StakesBounded'
<1>1. /\ {Total(Dues), Total(Dues)', Total(Stakes), Total(Stakes)'} \subseteq Nat
      /\ Total(Dues)' - Due(w)' = Total(Dues) - Due(w)
      /\ Total(Stakes)' - Stake(w)' = Total(Stakes) - Stake(w)
      /\ Total(Stakes)' <= Cardinality(Workers) * (2 * MaxCost) - (2 * MaxCost - Stake(w)')
  BY SumsStep DEF FlightInv
<1>2. /\ {spent[month], booked[month], spent'[month], booked'[month]} \subseteq Nat
      /\ MaxCost \in Nat
  BY SpendConstants DEF TypeOK
<1>3. {Due(w), Due(w)', Stake(w), Stake(w)'} \subseteq Nat
  BY <1>2, StakesRange DEF FlightInv
<1>4. SpentIsBooked'
  <2> SUFFICES ASSUME intact'
               PROVE  spent'[month] = booked'[month] + Total(Dues)'
    BY DEF SpentIsBooked
  <2>1. spent[month] = booked[month] + Total(Dues)
    BY DEF SpentIsBooked, FlightInv
  <2>2. spent'[month] + booked[month] + Due(w) = spent[month] + booked'[month] + Due(w)'
    OBVIOUS
  <2> QED
    BY <1>1, <1>2, <1>3, <2>1, <2>2
<1>5. ASSUME intact', Budget > 0
      PROVE  \E s \in 0 .. booked'[month] :
               ~Exhausted(s) /\ booked'[month] + Total(Stakes)' <= s + Overshoot(s)
  <2>1. CASE booked'[month] + Stake(w)' <= booked[month] + Stake(w)
    <3>1. PICK s \in 0 .. booked[month] :
            ~Exhausted(s) /\ booked[month] + Total(Stakes) <= s + Overshoot(s)
      BY <1>5 DEF FlightInv, StakesBounded
    <3>2. booked'[month] + Total(Stakes)' <= booked[month] + Total(Stakes)
      BY <1>1, <1>2, <1>3, <2>1
    <3>3. s \in 0 .. booked'[month] /\ Overshoot(s) \in Int
      BY <1>2, <1>5, OvershootIs
    <3> QED
      BY <1>1, <1>2, <3>1, <3>2, <3>3
  <2>2. CASE /\ booked'[month] = booked[month] /\ ~Exhausted(booked[month])
             /\ Stake(w)' <= IF Warning(booked[month]) THEN MaxCost ELSE 2 * MaxCost
    <3>1. PICK k : k = Cardinality(Workers) * (2 * MaxCost)
      OBVIOUS
    <3>2. /\ Overshoot(booked[month]) = k - (IF Warning(booked[month]) THEN MaxCost ELSE 0)
          /\ k \in Nat
      BY <3>1, OvershootIs
    <3>3. Total(Stakes)' <= k - (2 * MaxCost - Stake(w)')
      BY <1>1, <3>1
    <3>4. Total(Stakes)' <= Overshoot(booked[month])
      BY <1>1, <1>2, <1>3, <2>2, <3>2, <3>3
    <3>5. booked[month] \in 0 .. booked'[month]
      BY <1>2, <2>2
    <3>6. booked'[month] + Total(Stakes)' <= booked[month] + Overshoot(booked[month])
      BY <1>1, <1>2, <2>2, <3>2, <3>4
    <3> QED
      BY <2>2, <3>5, <3>6
  <2> QED
    BY <1>5, <2>1, <2>2
<1> QED
  BY <1>4, <1>5 DEF StakesBounded

\* A worker that stops gives up its stake; if it had a cost to record, the counter
\* is no longer intact.
LEMMA LeaveFlight ==
  ASSUME TypeOK, SpendInv, FlightInv, TypeOK', NEW w \in Workers, Leave(w),
         UNCHANGED <<month, spent, booked>>, intact' => intact /\ ~Recording(w)
  PROVE  SpentIsBooked' /\ StakesBounded'
<1>1. /\ \A v \in Workers \ {w} : local'[v] = local[v] /\ pc'[v] = pc[v]
      /\ local'[w] = Fresh /\ pc'[w] = "idle"
  BY DEF Leave, Goto, TypeOK
<1>2. Due(w)' = 0 /\ Ahead(w)' = 0
  BY <1>1 DEF Fresh, Recording, Seeding, Due, Ahead
<1>3. Stake(w)' = 0
  BY <1>2 DEF Stake
<1>4. intact' => Due(w) = 0
  BY DEF Due
<1>5. MaxCost \in Nat /\ Stake(w) \in 0 .. 2 * MaxCost /\ {spent[month], booked[month]} \subseteq Nat
  BY SpendConstants, StakesRange DEF FlightInv, TypeOK
<1> QED
  BY <1>1, <1>2, <1>3, <1>4, <1>5, FlightStep

\* A step towards the value of the counter: whoever gets it has the value booked.
LEMMA SeedingFlight ==
  ASSUME TypeOK, SpendInv, FlightInv, TypeOK', NEW w \in Workers,
         UNCHANGED <<month, spent, booked, intact>>,
         \A v \in Workers \ {w} : local'[v] = local[v] /\ pc'[v] = pc[v],
         \A f \in {"use", "period", "cost", "second"} : local'[w][f] = local[w][f],
         pc[w] \in Seeding, pc'[w] \in Seeding \cup {AfterRead(w)},
         intact /\ pc'[w] = "decide" /\ local[w].period = month => local'[w].read = booked[month]
  PROVE  SpentIsBooked' /\ StakesBounded'
<1>1. MaxCost \in Nat /\ {spent[month], booked[month]} \subseteq Nat
  BY SpendConstants DEF TypeOK
<1>2. /\ Due(w) \in 0 .. MaxCost /\ Ahead(w) \in 0 .. 2 * MaxCost /\ Stake(w) \in 0 .. 2 * MaxCost
  BY StakesRange DEF FlightInv
<1>3. (Recording(w)' <=> Recording(w)) /\ Due(w)' = Due(w)
  BY DEF Recording, Due, AfterRead, Seeding
<1>4. CASE local[w].use # "status" \/ local[w].period # month
  <2>1. Ahead(w)' = Ahead(w)
    BY <1>4 DEF Ahead, AfterRead, Seeding
  <2>2. Stake(w)' = Stake(w)
    BY <1>3, <2>1 DEF Stake
  <2> QED
    BY <1>1, <1>2, <1>3, <2>2, FlightStep
<1>5. CASE local[w].use = "status" /\ local[w].period = month
  <2>1. Due(w) = 0 /\ Due(w)' = 0
    BY <1>3, <1>5 DEF Due, Recording
  <2>2. Ahead(w) = 0
    BY <1>5 DEF Ahead, Seeding
  <2>3. CASE pc'[w] # "decide" \/ Exhausted(local'[w].read)
    <3>1. Ahead(w)' = 0
      BY <1>5, <2>3 DEF Ahead, AfterRead, Seeding
    <3> QED
      BY <1>1, <2>1, <2>2, <3>1, FlightStep DEF Stake
  <2>4. CASE pc'[w] = "decide" /\ ~Exhausted(local'[w].read)
    <3>1. Ahead(w)' = IF Warning(local'[w].read) THEN MaxCost ELSE 2 * MaxCost
      BY <1>5, <2>4 DEF Ahead
    <3>2. Stake(w)' = IF Warning(local'[w].read) THEN MaxCost ELSE 2 * MaxCost
      BY <1>1, <2>1, <3>1 DEF Stake
    <3>3. Stake(w)' \in 0 .. 2 * MaxCost
      BY <1>1, <3>2
    <3>4. intact => local'[w].read = booked[month]
      BY <1>5, <2>4
    <3> QED
      BY <1>1, <2>1, <2>4, <3>2, <3>3, <3>4, FlightStep
  <2> QED
    BY <2>3, <2>4
<1> QED
  BY <1>4, <1>5

\* An answer spends what was ahead and makes it due.
LEMMA AnswerFlight ==
  ASSUME TypeOK, SpendInv, FlightInv, TypeOK', NEW w \in Workers,
         PrimaryAnswers(w) \/ SecondAnswers(w)
  PROVE  SpentIsBooked' /\ StakesBounded'
<1>1. PICK use \in {"primary", "secondary"} :
        /\ Answer(w, use)
        /\ use = "primary" => pc[w] = "primary"
        /\ use = "secondary" => pc[w] = "opinion"
  BY DEF PrimaryAnswers, SecondAnswers
<1>2. PICK c \in 1 .. MaxCost :
        /\ local' = [local EXCEPT ![w] = [local[w] EXCEPT !.use = use, !.period = month,
                                                             !.cost = c, !.kept = @ + c]]
        /\ spent' = [spent EXCEPT ![month] = @ + c]
  BY <1>1 DEF Answer
<1>3. /\ \A v \in Workers \ {w} : local'[v] = local[v] /\ pc'[v] = pc[v]
      /\ pc'[w] = "get" /\ UNCHANGED <<month, booked, intact>>
  BY <1>1, <1>2 DEF Answer, Goto, TypeOK
<1>4. /\ local'[w].use = use /\ local'[w].period = month
      /\ local'[w].cost = c /\ local'[w].second = local[w].second
  <2>1. local'[w] = [local[w] EXCEPT !.use = use, !.period = month, !.cost = c, !.kept = @ + c]
    BY <1>2 DEF TypeOK
  <2>2. local[w] \in Local
    BY DEF TypeOK
  <2> QED
    BY <2>1, <2>2 DEF Local
<1>5. /\ MaxCost \in Nat /\ c \in Nat /\ c <= MaxCost /\ {spent[month], booked[month]} \subseteq Nat
      /\ spent'[month] = spent[month] + c
  BY <1>2, SpendConstants DEF TypeOK
<1>6. Due(w) = 0 /\ Due(w)' = c
  BY <1>1, <1>3, <1>4 DEF Due, Recording, Seeding
<1>7. Ahead(w)' \in {0, MaxCost} /\ Ahead(w) = Ahead(w)' + MaxCost
  <2>1. CASE use = "primary"
    <3>1. Ahead(w) = IF local[w].second THEN 2 * MaxCost ELSE MaxCost
      BY <1>1, <2>1 DEF Ahead
    <3>2. Ahead(w)' = IF local[w].second THEN MaxCost ELSE 0
      BY <1>3, <1>4, <2>1 DEF Ahead
    <3> QED
      BY <1>5, <3>1, <3>2
  <2>2. CASE use = "secondary"
    <3>1. Ahead(w) = MaxCost
      BY <1>1, <2>2 DEF Ahead
    <3>2. Ahead(w)' = 0
      BY <1>3, <1>4, <2>2 DEF Ahead
    <3> QED
      BY <1>5, <3>1, <3>2
  <2> QED
    BY <2>1, <2>2
<1>8. Stake(w)' = c + Ahead(w)' /\ Stake(w) = 0 + Ahead(w)
  BY <1>6 DEF Stake
<1>9. Stake(w)' \in 0 .. 2 * MaxCost /\ Stake(w)' <= Stake(w)
  BY <1>5, <1>7, <1>8
<1>10. Due(w)' \in 0 .. MaxCost
  BY <1>5, <1>6
<1>11. /\ spent'[month] + booked[month] + Due(w) = spent[month] + booked'[month] + Due(w)'
       /\ booked'[month] >= booked[month]
       /\ booked'[month] + Stake(w)' <= booked[month] + Stake(w)
  <2>1. booked'[month] = booked[month]
    BY <1>3
  <2>2. Stake(w) \in Int /\ Stake(w)' \in Int
    BY <1>5, <1>7, <1>8
  <2> QED
    BY <1>5, <1>6, <1>9, <2>1, <2>2
<1> QED
  BY <1>3, <1>9, <1>10, <1>11, FlightStep

\* A recorded cost is booked and no longer at stake.
LEMMA IncrFlight ==
  ASSUME TypeOK, SpendInv, FlightInv, TypeOK', NEW w \in Workers, Incr(w)
  PROVE  SpentIsBooked' /\ StakesBounded'
<1>1. /\ \A v \in Workers \ {w} : local'[v] = local[v] /\ pc'[v] = pc[v]
      /\ \A f \in {"use", "period", "second"} : local'[w][f] = local[w][f]
      /\ UNCHANGED <<month, spent, intact>>
      /\ pc[w] = "incr" /\ pc'[w] = AfterRecord(w)
  BY DEF Incr, Goto, TypeOK, Local
<1>2. booked' = [booked EXCEPT ![local[w].period] = @ + local[w].cost]
  BY DEF Incr
<1>3. /\ MaxCost \in Nat /\ local[w].cost \in Nat /\ {spent[month], booked[month]} \subseteq Nat
      /\ local[w].use \in {"primary", "secondary"}
  <2>1. local[w] \in Local /\ local[w].use # "status"
    BY <1>1 DEF TypeOK, FlightInv, UsesApart
  <2>2. local[w].use \in {"primary", "secondary"}
    BY <2>1 DEF Local
  <2>3. MaxCost \in Nat /\ {spent[month], booked[month]} \subseteq Nat
    BY SpendConstants DEF TypeOK
  <2> QED
    BY <2>2, <2>3, Fields
<1>4. Due(w)' = 0 /\ Due(w) = IF local[w].period = month THEN local[w].cost ELSE 0
  BY <1>1, <1>3 DEF Due, Recording, Seeding, AfterRecord
<1>5. booked'[month] = booked[month] + Due(w)
  <2>1. CASE local[w].period = month
    BY <1>2, <1>4, <2>1, Fields DEF TypeOK
  <2>2. CASE local[w].period # month
    BY <1>2, <1>3, <1>4, <2>2, Fields DEF TypeOK
  <2> QED
    BY <2>1, <2>2
<1>6. Ahead(w)' = Ahead(w)
  BY <1>1, <1>3 DEF Ahead, AfterRecord
<1>7. /\ Due(w) \in 0 .. MaxCost /\ Ahead(w) \in 0 .. 2 * MaxCost /\ Stake(w) \in 0 .. 2 * MaxCost
  BY StakesRange DEF FlightInv
<1>8. Stake(w)' = 0 + Ahead(w) /\ Stake(w) = Due(w) + Ahead(w)
  BY <1>4, <1>6 DEF Stake
<1>9. Stake(w)' \in 0 .. 2 * MaxCost /\ booked'[month] + Stake(w)' <= booked[month] + Stake(w)
  BY <1>3, <1>5, <1>7, <1>8
<1> QED
  BY <1>1, <1>3, <1>4, <1>5, <1>7, <1>9, FlightStep

\* Every action keeps what is at stake in bounds.
LEMMA FlightKept ==
  ASSUME TypeOK, SpendInv, FlightInv, TypeOK', [Next]_vars
  PROVE  SpentIsBooked' /\ StakesBounded'
<1> DEFINE Kept == SpentIsBooked' /\ StakesBounded'
<1> USE DEF history
<1>1. MaxCost \in Nat /\ {spent[month], booked[month]} \subseteq Nat
  BY SpendConstants DEF TypeOK
<1>2. \A w \in Workers : Due(w) \in 0 .. MaxCost /\ Stake(w) \in 0 .. 2 * MaxCost
  BY StakesRange DEF FlightInv
<1>3. ASSUME NEW w \in Workers, Begin(w) PROVE Kept
  <2>1. PICK m \in 1 .. month :
          local' = [local EXCEPT ![w] = [Fresh EXCEPT !.period = month, !.born = m]]
    BY <1>3 DEF Begin
  <2>2. /\ \A v \in Workers \ {w} : local'[v] = local[v] /\ pc'[v] = pc[v]
        /\ local'[w].use = "status" /\ local'[w].period = month /\ pc'[w] = "get" /\ pc[w] = "idle"
        /\ UNCHANGED <<month, spent, booked, intact>>
    BY <1>3, <2>1 DEF Begin, Goto, TypeOK, Fresh
  <2>3. Due(w)' = 0 /\ Ahead(w)' = 0 /\ Due(w) = 0
    BY <2>2 DEF Due, Ahead, Recording, Seeding
  <2> HIDE DEF Kept
  <2>4. Stake(w)' = 0
    BY <2>3 DEF Stake
  <2> QED
    BY <1>1, <1>2, <2>2, <2>3, <2>4, FlightStep DEF Kept
<1>4. ASSUME NEW w \in Workers, Get(w) PROVE Kept
  <2>1. /\ \A v \in Workers \ {w} : local'[v] = local[v] /\ pc'[v] = pc[v]
        /\ \A f \in {"use", "period", "cost", "second"} : local'[w][f] = local[w][f]
        /\ UNCHANGED <<month, spent, booked, intact>>
        /\ pc[w] = "get" /\ pc'[w] \in {"select", AfterRead(w)}
    BY <1>4 DEF Get, Goto, TypeOK, Local
  <2>2. pc'[w] = "decide" => /\ counter[local[w].period] # None
                             /\ local'[w].read = counter[local[w].period]
    BY <1>4 DEF Get, Goto, TypeOK, Local
  <2> QED
    BY <2>1, <2>2, SeedingFlight DEF Seeding, SpendInv, CounterExact
<1>5. ASSUME NEW w \in Workers, Select(w) \/ Seed(w) PROVE Kept
  <2>1. /\ \A v \in Workers \ {w} : local'[v] = local[v] /\ pc'[v] = pc[v]
        /\ \A f \in {"use", "period", "cost", "second"} : local'[w][f] = local[w][f]
        /\ UNCHANGED <<month, spent, booked, intact>>
        /\ pc[w] \in {"select", "seed"} /\ pc'[w] \in {"seed", "reget"}
    BY <1>5 DEF Select, Seed, Goto, TypeOK, Local
  <2> QED
    BY <2>1, SeedingFlight DEF Seeding
<1>6. ASSUME NEW w \in Workers, Reget(w) PROVE Kept
  <2>1. /\ \A v \in Workers \ {w} : local'[v] = local[v] /\ pc'[v] = pc[v]
        /\ \A f \in {"use", "period", "cost", "second"} : local'[w][f] = local[w][f]
        /\ UNCHANGED <<month, spent, booked, intact>>
        /\ pc[w] = "reget" /\ pc'[w] = AfterRead(w)
    BY <1>6 DEF Reget, Goto, TypeOK, Local
  <2>2. counter[local[w].period] # None => local'[w].read = counter[local[w].period]
    BY <1>6 DEF Reget, TypeOK, Local
  <2> QED
    BY <2>1, <2>2, SeedingFlight DEF Seeding, SpendInv, CounterExact, FlightInv, SeedIsFound
<1>7. ASSUME NEW w \in Workers, Decide(w) PROVE Kept
  <2>1. CASE Exhausted(local[w].read)
    BY <1>7, <2>1, LeaveFlight DEF Decide, Recording, Seeding
  <2>2. CASE ~Exhausted(local[w].read)
    <3> DEFINE b == ~Warning(local[w].read)
    <3>1. /\ local' = [local EXCEPT ![w] = [local[w] EXCEPT !.second = b, !.read = 0]]
          /\ pc[w] = "decide" /\ pc' = [pc EXCEPT ![w] = "primary"]
          /\ UNCHANGED <<month, spent, booked, intact>>
      BY <1>7, <2>2 DEF Decide, Goto
    <3> HIDE DEF b
    <3>2. /\ \A v \in Workers \ {w} : local'[v] = local[v] /\ pc'[v] = pc[v]
          /\ local'[w].second = b /\ pc'[w] = "primary"
      BY <3>1 DEF TypeOK, Local
    <3>3. local[w].use = "status"
      BY <3>1 DEF FlightInv, UsesApart
    <3>4. Due(w) = 0 /\ Due(w)' = 0
      BY <3>1, <3>2 DEF Due, Recording, Seeding
    <3>5. Ahead(w)' = IF Warning(local[w].read) THEN MaxCost ELSE 2 * MaxCost
      BY <3>2 DEF Ahead, b
    <3>6. Ahead(w) \in {2 * MaxCost, Ahead(w)'}
      BY <2>2, <3>1, <3>3, <3>5 DEF Ahead
    <3>7. Stake(w)' = 0 + Ahead(w)' /\ Stake(w) = 0 + Ahead(w)
      BY <3>4 DEF Stake
    <3>8. Stake(w)' \in 0 .. 2 * MaxCost /\ Stake(w)' <= Stake(w)
      BY <1>1, <3>5, <3>6, <3>7
    <3> HIDE DEF Kept
    <3> QED
      BY <1>1, <1>2, <3>1, <3>2, <3>4, <3>8, FlightStep DEF Kept
  <2> QED
    BY <2>1, <2>2
<1>8. ASSUME NEW w \in Workers, Goto(w, "save"), UNCHANGED <<month, local, spent, booked>>,
             intact' => intact /\ ~Recording(w)
      PROVE  Kept
  <2>1. /\ \A v \in Workers \ {w} : local'[v] = local[v] /\ pc'[v] = pc[v]
        /\ pc'[w] = "save"
    BY <1>8 DEF Goto, TypeOK
  <2>2. Due(w)' = 0 /\ Ahead(w)' = 0
    BY <2>1 DEF Due, Ahead, Recording, Seeding
  <2>3. intact' => Due(w) = 0
    BY <1>8 DEF Due
  <2>4. Stake(w)' = 0
    BY <2>2 DEF Stake
  <2> HIDE DEF Kept
  <2> QED
    BY <1>1, <1>2, <1>8, <2>1, <2>2, <2>3, <2>4, FlightStep DEF Kept
<1>9. ASSUME NEW w \in Workers, NoAnswer(w) PROVE Kept
  <2>1. ~Recording(w) /\ UNCHANGED <<month, spent, booked, intact>>
    BY <1>9 DEF NoAnswer, Recording, Seeding
  <2> QED
    BY <1>8, <1>9, <2>1, LeaveFlight DEF NoAnswer
<1>10. ASSUME NEW w \in Workers, Save(w) \/ SaveFails(w) PROVE Kept
  <2>1. Leave(w) /\ ~Recording(w) /\ UNCHANGED <<month, spent, booked, intact>>
    BY <1>10 DEF Save, SaveFails, Recording, Seeding
  <2> QED
    BY <2>1, LeaveFlight
<1>11. ASSUME NEW w \in Workers, RedisFails(w) PROVE Kept
  <2>1. UNCHANGED <<month, spent, booked>> /\ (intact' => intact /\ ~Recording(w))
    BY <1>11 DEF RedisFails, Failure
  <2> QED
    BY <1>8, <1>11, <2>1, LeaveFlight DEF RedisFails
<1>12. ASSUME NEW w \in Workers, Crash(w) PROVE Kept
  <2>1. Leave(w) /\ UNCHANGED <<month, spent, booked>> /\ (intact' => intact /\ ~Recording(w))
    BY <1>12 DEF Crash, Failure
  <2> QED
    BY <2>1, LeaveFlight
<1>13. ASSUME LoseCounter PROVE Kept
  BY <1>13 DEF LoseCounter, SpentIsBooked, StakesBounded
<1>14. ASSUME NextMonth PROVE Kept
  <2>1. /\ UNCHANGED <<counter, ledger, pc, local, spent, booked, intact>>
        /\ month' = month + 1 /\ month \in Nat /\ month' \in Months /\ month' > month
    BY <1>14 DEF NextMonth, TypeOK, Months
  <2>2. booked'[month'] = 0 /\ spent'[month'] = 0
    BY <2>1 DEF SpendInv, FutureEmpty, FlightInv, FutureUnspent
  <2>3. \A w \in Workers : Due(w)' = 0
    <3>1. \A w \in Workers : local'[w].period # month'
      BY <2>1, Fields DEF SpendInv, PeriodsPast
    <3> QED
      BY <3>1 DEF Due
  <2>4. PICK d, k : d = Dues' /\ k = Stakes'
    OBVIOUS
  <2>5. Total(d) = 0
    <3>1. \A w \in Workers : d[w] = 0
      BY <2>3, <2>4 DEF Dues
    <3> QED
      BY <3>1, TotalZero
  <2>6. Total(k) \in Nat /\ Total(k) <= Cardinality(Workers) * (2 * MaxCost)
    BY TotalBound
  <2>7. Budget > 0 => ~Exhausted(0) /\ ~Warning(0)
    BY SpendConstants DEF Exhausted, Warning
  <2>8. Budget > 0 => Overshoot(0) = Cardinality(Workers) * (2 * MaxCost) - 0
                      /\ Cardinality(Workers) * (2 * MaxCost) \in Nat
    BY <2>7, OvershootIs
  <2>9. Budget > 0 => Total(k) <= Overshoot(0) /\ Overshoot(0) \in Int
    BY <2>6, <2>8
  <2>10. SpentIsBooked'
    <3>1. Total(Dues)' = 0
      BY <2>4, <2>5 DEF Total, Heap
    <3> QED
      BY <2>2, <3>1 DEF SpentIsBooked
  <2>11. StakesBounded'
    <3>1. Total(Stakes)' = Total(k)
      BY <2>4 DEF Total, Heap
    <3>2. Budget > 0 => /\ 0 \in 0 .. booked'[month']
                        /\ ~Exhausted(0) /\ booked'[month'] + Total(Stakes)' <= 0 + Overshoot(0)
      BY <2>2, <2>6, <2>7, <2>9, <3>1
    <3> QED
      BY <3>2 DEF StakesBounded
  <2> QED
    BY <2>10, <2>11
<1>15. ASSUME NEW m \in Months, Expire(m) PROVE Kept
  BY <1>15 DEF Expire, FlightInv, SpentIsBooked, StakesBounded, Total, Heap, Dues, Stakes, Stake, Due,
               Ahead, Recording
<1>16. CASE UNCHANGED vars
  BY <1>16 DEF vars, FlightInv, SpentIsBooked, StakesBounded, Total, Heap, Dues, Stakes, Stake, Due,
               Ahead, Recording
<1> QED
  BY <1>3, <1>4, <1>5, <1>6, <1>7, <1>9, <1>10, <1>11, <1>12, <1>13, <1>14, <1>15, <1>16,
     AnswerFlight, IncrFlight DEF Next

\* Every action keeps the costs of the calls in flight, and those to come, in bounds.
LEMMA CostsStep ==
  ASSUME TypeOK, CostsBounded, FutureUnspent, [Next]_vars
  PROVE  CostsBounded' /\ FutureUnspent'
<1> USE DEF history
<1>1. MaxCost \in Nat /\ month \in Months /\ month \in Nat
  BY SpendConstants DEF TypeOK, Months
<1>2. ASSUME UNCHANGED <<month, spent>> PROVE FutureUnspent'
  BY <1>2 DEF FutureUnspent
<1>3. ASSUME NEW w \in Workers, PrimaryAnswers(w) \/ SecondAnswers(w)
      PROVE  CostsBounded' /\ FutureUnspent'
  <2>1. PICK use \in {"primary", "secondary"} : Answer(w, use)
    BY <1>3 DEF PrimaryAnswers, SecondAnswers
  <2>2. PICK c \in 1 .. MaxCost :
          /\ local' = [local EXCEPT ![w] = [local[w] EXCEPT !.use = use, !.period = month,
                                                               !.cost = c, !.kept = @ + c]]
          /\ spent' = [spent EXCEPT ![month] = @ + c]
    BY <2>1 DEF Answer
  <2>3. local'[w].cost = c
    <3>1. local'[w] = [local[w] EXCEPT !.use = use, !.period = month, !.cost = c, !.kept = @ + c]
      BY <2>2 DEF TypeOK
    <3>2. local[w] \in Local
      BY DEF TypeOK
    <3> QED
      BY <3>1, <3>2 DEF Local
  <2>4. \A v \in Workers \ {w} : local'[v] = local[v] /\ pc'[v] = pc[v]
    BY <2>1, <2>2 DEF Answer, Goto, TypeOK
  <2>5. CostsBounded'
    BY <1>1, <2>3, <2>4 DEF CostsBounded, Recording
  <2>6. FutureUnspent'
    BY <1>1, <2>1, <2>2 DEF FutureUnspent, Answer, TypeOK
  <2> QED
    BY <2>5, <2>6
<1>4. ASSUME NEW w \in Workers, \A v \in Workers \ {w} : local'[v] = local[v] /\ pc'[v] = pc[v],
             Recording(w)' => Recording(w) /\ local'[w].cost = local[w].cost,
             UNCHANGED <<month, spent>>
      PROVE  CostsBounded' /\ FutureUnspent'
  BY <1>2, <1>4 DEF CostsBounded, Recording
<1>5. ASSUME NEW w \in Workers, Begin(w) PROVE CostsBounded' /\ FutureUnspent'
  <2>1. PICK m \in 1 .. month :
          local' = [local EXCEPT ![w] = [Fresh EXCEPT !.period = month, !.born = m]]
    BY <1>5 DEF Begin
  <2>2. /\ \A v \in Workers \ {w} : local'[v] = local[v] /\ pc'[v] = pc[v]
        /\ local'[w].use = "status" /\ UNCHANGED <<month, spent>>
    BY <1>5, <2>1 DEF Begin, Goto, TypeOK, Fresh
  <2> QED
    BY <1>4, <2>2 DEF Recording
<1>6. ASSUME NEW w \in Workers, Get(w) \/ Select(w) \/ Seed(w) \/ Reget(w)
      PROVE  CostsBounded' /\ FutureUnspent'
  <2>1. /\ \A v \in Workers \ {w} : local'[v] = local[v] /\ pc'[v] = pc[v]
        /\ local'[w].use = local[w].use /\ local'[w].cost = local[w].cost
        /\ pc[w] \in Seeding /\ UNCHANGED <<month, spent>>
    BY <1>6 DEF Get, Select, Seed, Reget, Goto, TypeOK, Local, Seeding
  <2> QED
    BY <1>4, <2>1 DEF Recording
<1>7. ASSUME NEW w \in Workers, Leave(w), UNCHANGED <<month, spent>>
      PROVE  CostsBounded' /\ FutureUnspent'
  <2>1. /\ \A v \in Workers \ {w} : local'[v] = local[v] /\ pc'[v] = pc[v]
        /\ pc'[w] = "idle"
    BY <1>7 DEF Leave, Goto, TypeOK
  <2> QED
    BY <1>4, <1>7, <2>1 DEF Recording, Seeding
<1>8. ASSUME NEW w \in Workers, NEW l \in {"primary", "opinion", "save"}, Goto(w, l),
             \A v \in Workers \ {w} : local'[v] = local[v], UNCHANGED <<month, spent>>
      PROVE  CostsBounded' /\ FutureUnspent'
  <2>1. (\A v \in Workers \ {w} : pc'[v] = pc[v]) /\ pc'[w] = l
    BY <1>8 DEF Goto, TypeOK
  <2> QED
    BY <1>4, <1>8, <2>1 DEF Recording, Seeding
<1>9. ASSUME NEW w \in Workers, Decide(w) \/ Incr(w) PROVE CostsBounded' /\ FutureUnspent'
  <2>1. UNCHANGED <<month, spent>>
    BY <1>9 DEF Decide, Incr
  <2>2. \/ Leave(w)
        \/ /\ \A v \in Workers \ {w} : local'[v] = local[v]
           /\ Goto(w, "primary") \/ Goto(w, AfterRecord(w))
    BY <1>9 DEF Decide, Incr, TypeOK
  <2>3. AfterRecord(w) \in {"opinion", "save"}
    BY DEF AfterRecord
  <2> QED
    BY <1>7, <1>8, <2>1, <2>2, <2>3
<1>10. ASSUME NEW w \in Workers,
              NoAnswer(w) \/ Save(w) \/ SaveFails(w) \/ RedisFails(w) \/ Crash(w)
       PROVE  CostsBounded' /\ FutureUnspent'
  <2>1. UNCHANGED <<month, spent>>
    BY <1>10 DEF NoAnswer, Save, SaveFails, RedisFails, Crash, Failure
  <2>2. Leave(w) \/ (Goto(w, "save") /\ UNCHANGED local)
    <3>1. CASE NoAnswer(w)
      BY <3>1 DEF NoAnswer
    <3>2. CASE Save(w) \/ SaveFails(w)
      BY <3>2 DEF Save, SaveFails
    <3>3. CASE RedisFails(w) \/ Crash(w)
      BY <3>3 DEF RedisFails, Crash
    <3> QED
      BY <1>10, <3>1, <3>2, <3>3
  <2>3. Goto(w, "save") /\ UNCHANGED local => CostsBounded' /\ FutureUnspent'
    BY <1>8, <2>1
  <2> QED
    BY <1>7, <2>1, <2>2, <2>3
<1>11. ASSUME UNCHANGED <<pc, local, spent>>, month' >= month, month' \in Nat
       PROVE  CostsBounded' /\ FutureUnspent'
  BY <1>1, <1>11 DEF CostsBounded, FutureUnspent, Recording, Months
<1>12. ASSUME LoseCounter \/ NextMonth \/ (\E m \in Months : Expire(m)) \/ UNCHANGED vars
       PROVE  CostsBounded' /\ FutureUnspent'
  <2>1. UNCHANGED <<pc, local, spent>> /\ month' \in {month, month + 1}
    BY <1>12 DEF LoseCounter, NextMonth, Expire, vars
  <2> QED
    BY <1>1, <1>11, <2>1
<1> QED
  BY <1>3, <1>5, <1>6, <1>9, <1>10, <1>12 DEF Next

\* Every action leaves an intact counter for whoever has seeded it.
LEMMA FoundStep ==
  ASSUME TypeOK, SpendInv, SeedIsFound, [Next]_vars
  PROVE  SeedIsFound'
<1> SUFFICES ASSUME intact', NEW v \in Workers, pc'[v] = "reget", local'[v].period = month'
             PROVE  counter'[month'] # None
  BY DEF SeedIsFound
<1> USE DEF history
<1>1. counter \in [Months -> Nat \cup {None}] /\ month \in Months /\ local \in [Workers -> Local]
  BY DEF TypeOK
<1>2. ASSUME NEW w \in Workers, Seed(w) PROVE counter'[month'] # None
  <2>1. /\ UNCHANGED <<month, local, intact>> /\ (v # w => pc'[v] = pc[v])
        /\ counter' = IF counter[local[w].period] = None
                        THEN [counter EXCEPT ![local[w].period] = local[w].read] ELSE counter
    BY <1>2 DEF Seed, Goto, TypeOK
  <2>2. counter[month] # None => counter'[month] # None
    BY <1>1, <2>1, Fields, SpendConstants
  <2>3. CASE v = w
    BY <1>1, <2>1, <2>3, Fields, SpendConstants
  <2>4. CASE v # w
    BY <2>1, <2>2, <2>4 DEF SeedIsFound
  <2> QED
    BY <2>3, <2>4
<1>3. ASSUME NEW w \in Workers, v # w \/ pc'[w] # "reget",
             \A u \in Workers \ {w} : local'[u] = local[u] /\ pc'[u] = pc[u],
             intact' => intact, UNCHANGED <<month, counter>>
      PROVE  counter'[month'] # None
  BY <1>3 DEF SeedIsFound
<1>4. ASSUME NEW w \in Workers,
             \/ Begin(w) \/ Get(w) \/ Select(w) \/ Reget(w) \/ Decide(w)
             \/ PrimaryAnswers(w) \/ SecondAnswers(w) \/ NoAnswer(w)
      PROVE  counter'[month'] # None
  <2>1. (\A u \in Workers \ {w} : local'[u] = local[u] /\ pc'[u] = pc[u]) /\ pc'[w] # "reget"
    <3>1. CASE Begin(w) \/ Get(w) \/ Select(w) \/ Reget(w)
      BY <3>1 DEF Begin, Get, Select, Reget, Goto, AfterRead, TypeOK
    <3>2. CASE Decide(w) \/ PrimaryAnswers(w) \/ SecondAnswers(w) \/ NoAnswer(w)
      BY <3>2 DEF Decide, PrimaryAnswers, SecondAnswers, Answer, NoAnswer, Leave, Goto, TypeOK
    <3> QED
      BY <1>4, <3>1, <3>2
  <2>2. UNCHANGED <<month, counter, intact>>
    BY <1>4 DEF Begin, Get, Select, Reget, Decide, PrimaryAnswers, SecondAnswers, Answer, NoAnswer
  <2> QED
    BY <1>3, <2>1, <2>2
<1>5. ASSUME NEW w \in Workers, Save(w) \/ SaveFails(w) \/ RedisFails(w) \/ Crash(w)
      PROVE  counter'[month'] # None
  <2>1. (\A u \in Workers \ {w} : local'[u] = local[u] /\ pc'[u] = pc[u]) /\ pc'[w] # "reget"
    BY <1>5 DEF Save, SaveFails, RedisFails, Crash, Leave, Goto, TypeOK
  <2>2. UNCHANGED <<month, counter>> /\ (intact' => intact)
    BY <1>5 DEF Save, SaveFails, RedisFails, Crash, Failure
  <2> QED
    BY <1>3, <2>1, <2>2
<1>6. ASSUME NEW w \in Workers, Incr(w) PROVE counter'[month'] # None
  <2>1. /\ UNCHANGED <<month, intact>> /\ (v # w => pc'[v] = pc[v] /\ local'[v] = local[v])
        /\ pc'[w] # "reget"
        /\ counter' = [counter EXCEPT ![local[w].period] =
             (IF counter[local[w].period] = None THEN 0 ELSE counter[local[w].period]) + local[w].cost]
    BY <1>6 DEF Incr, Goto, AfterRecord, TypeOK
  <2>2. counter[month] # None
    BY <2>1 DEF SeedIsFound
  <2> QED
    BY <1>1, <2>1, <2>2, Fields, SpendConstants
<1>7. ASSUME NextMonth PROVE counter'[month'] # None
  <2>1. month' > month /\ UNCHANGED local
    BY <1>7 DEF NextMonth, TypeOK, Months
  <2> QED
    BY <2>1, Fields DEF SpendInv, PeriodsPast
<1>8. ASSUME LoseCounter PROVE counter'[month'] # None
  BY <1>8 DEF LoseCounter
<1>9. ASSUME NEW m \in Months, Expire(m) PROVE counter'[month'] # None
  <2>1. UNCHANGED <<month, local, pc, intact>>
    BY <1>9 DEF Expire
  <2>2. counter'[month] = counter[month]
    <3>1. m # month /\ counter' = [counter EXCEPT ![m] = None]
      BY <1>1, <1>9 DEF Expire, Months
    <3> QED
      BY <1>1, <3>1
  <2> QED
    BY <2>1, <2>2 DEF SeedIsFound
<1>10. CASE UNCHANGED vars
  BY <1>10 DEF vars, SeedIsFound
<1> QED
  BY <1>2, <1>4, <1>5, <1>6, <1>7, <1>8, <1>9, <1>10 DEF Next

\* Initially nothing is spent, booked or at stake.
LEMMA InitFlight == Init => FlightInv
<1> SUFFICES ASSUME Init PROVE FlightInv
  OBVIOUS
<1>1. 1 \in Months /\ TypeOK /\ UsesApart
  BY SpendConstants, InitEstablishes, InitCounts DEF Months
<1>2. /\ spent[month] = 0 /\ booked[month] = 0 /\ \A m \in Months : spent[m] = 0
      /\ \A w \in Workers : pc[w] = "idle" /\ local[w] = Fresh
  BY <1>1 DEF Init
<1>3. \A w \in Workers : Due(w) = 0 /\ Ahead(w) = 0 /\ ~Recording(w)
  BY <1>2 DEF Due, Ahead, Recording, Seeding, Fresh
<1>4. CostsBounded /\ FutureUnspent /\ SeedIsFound
  BY <1>2, <1>3 DEF CostsBounded, FutureUnspent, SeedIsFound
<1>5. Total(Dues) = 0 /\ Total(Stakes) = 0
  <2>1. \A w \in Workers : Dues[w] = 0 /\ Stakes[w] = 0
    BY <1>3 DEF Dues, Stakes, Stake
  <2> QED
    BY <2>1, TotalZero
<1>6. SpentIsBooked
  BY <1>2, <1>5 DEF SpentIsBooked
<1>7. StakesBounded
  <2>1. ASSUME Budget > 0 PROVE ~Exhausted(0) /\ ~Warning(0)
    BY <2>1, SpendConstants DEF Exhausted, Warning
  <2>2. ASSUME Budget > 0 PROVE Overshoot(0) \in Nat
    <3>1. /\ Overshoot(0) = Cardinality(Workers) * (2 * MaxCost) - 0
          /\ Cardinality(Workers) * (2 * MaxCost) \in Nat
      BY <2>1, <2>2, OvershootIs
    <3> QED
      BY <3>1
  <2>3. ASSUME Budget > 0 PROVE 0 + 0 <= 0 + Overshoot(0)
    BY <2>2, <2>3
  <2>4. 0 \in 0 .. booked[month]
    BY <1>2
  <2> QED
    BY <1>2, <1>5, <2>1, <2>3, <2>4 DEF StakesBounded
<1> QED
  BY <1>1, <1>4, <1>6, <1>7 DEF FlightInv

\* What is spent is booked or due, and so at most what is booked or at stake.
LEMMA StakesCover == TypeOK /\ FlightInv => OvershootBounded
<1> SUFFICES ASSUME TypeOK, FlightInv, intact, Budget > 0
             PROVE  \E s \in 0 .. spent[month] :
                      ~Exhausted(s) /\ spent[month] <= s + Overshoot(s)
  BY DEF OvershootBounded
<1>1. PICK s \in 0 .. booked[month] :
        ~Exhausted(s) /\ booked[month] + Total(Stakes) <= s + Overshoot(s)
  BY DEF FlightInv, StakesBounded
<1>2. spent[month] = booked[month] + Total(Dues)
  BY DEF FlightInv, SpentIsBooked
<1>3. Total(Dues) <= Total(Stakes)
  <2>1. \A w \in Workers : Due(w) \in Nat /\ Stake(w) \in Nat /\ Due(w) <= Stake(w)
    <3>1. ASSUME NEW w \in Workers PROVE Due(w) \in Nat /\ Ahead(w) \in Nat
      BY StakesRange, SpendConstants DEF FlightInv
    <3> QED
      BY <3>1 DEF Stake
  <2>2. \A w \in Workers : Dues[w] = Due(w) /\ Stakes[w] = Stake(w)
    BY DEF Dues, Stakes
  <2> QED
    BY <2>1, <2>2, TotalMonotone
<1>4. /\ {Total(Dues), Total(Stakes), spent[month], booked[month]} \subseteq Nat
      /\ Overshoot(s) \in Int
  BY TotalBound, OvershootIs, SpendConstants DEF TypeOK
<1>5. s \in 0 .. spent[month] /\ spent[month] <= s + Overshoot(s)
  BY <1>1, <1>2, <1>3, <1>4
<1> QED
  BY <1>1, <1>5

\* However the calls of the workers interleave with their reads of the counter, an
\* intact month is overspent by at most the calls in flight when the last one was let through.
THEOREM OvershootIsInFlight == Spec => []OvershootBounded
<1> DEFINE Inv == TypeOK /\ SpendInv /\ FlightInv
<1>1. Init => Inv
  BY InitEstablishes, InitFlight
<1>2. Inv /\ [Next]_vars => Inv'
  <2>1. ASSUME Inv, [Next]_vars PROVE TypeOK' /\ SpendInv' /\ FlightInv'
    <3>1. TypeOK' /\ SpendInv'
      BY <2>1, TypeStep, InvStep
    <3>2. CostsBounded' /\ FutureUnspent' /\ SeedIsFound' /\ UsesApart'
      BY <2>1, CostsStep, FoundStep, UsesStep DEF FlightInv
    <3>3. SpentIsBooked' /\ StakesBounded'
      BY <2>1, <3>1, FlightKept
    <3> QED
      BY <3>1, <3>2, <3>3 DEF FlightInv
  <2> QED
    BY <2>1
<1>3. Inv => OvershootBounded
  BY StakesCover
<1> HIDE DEF Inv
<1> QED
  BY <1>1, <1>2, <1>3, PTL DEF Spec

=============================================================================
