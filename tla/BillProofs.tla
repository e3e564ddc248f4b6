----------------------------- MODULE BillProofs -----------------------------
(***************************************************************************)
(* Theorems about what a bill is made of: the references of its vendor and *)
(* accounts (References, for any workers, entities, names, similarity and  *)
(* numbers of edits) and its amounts (Reading, for any extractions, lines, *)
(* thresholds and limits).                                                 *)
(*                                                                         *)
(* What a resolver may use is tied to trust, the time since QuickBooks or  *)
(* a person last had the id for the key: it is no more than the age of the *)
(* row, and zero while an answer of QuickBooks waits to be written, since  *)
(* a request is over before the next part of a day is.                     *)
(*                                                                         *)
(* The readings of an invoice do not change once the gate has judged them, *)
(* so what it found stays true of them, and the bill is computed from what *)
(* the total of the row was.  That the second check of a bill comes to one *)
(* sum, that of its lines, is shown along the positions summed so far:     *)
(* there would be a first one at which the two differ.                     *)
(***************************************************************************)
EXTENDS References, Reading, FiniteSetTheorems, WellFoundedInduction, TLAPS

\* What the stores and the history hold.
StoreOK ==
  /\ vendors \in [Ids -> Names \cup {None, Inactive}]
  /\ requests \in [RequestIds -> Ids \cup {None}]
  /\ made \in [Ids -> Names \cup {None}]
  /\ events \subseteq Ids
  /\ cache \in [Keys -> Row \cup {None}]
  /\ time \in 0 .. MaxTime /\ edits \in 0 .. MaxEdits /\ tasks \in 0 .. MaxTasks
  /\ linked \subseteq Keys \X Ids
  /\ trust \in [Keys \X Ids -> 0 .. Ttl]
  /\ replayed \subseteq Keys /\ forgot \subseteq RequestIds /\ edited \subseteq Ids

\* A task that is to write or to use an id has one.
TaskOK(t) == t \in Task /\ (t.at \in {"write", "found", "link", "cache", "alias"} => t.id # None)

TasksOK == task \in [Workers -> Task] /\ \A w \in Workers : TaskOK(task[w])

\* The type invariant, in two parts.
LEMMA TypeParts == TypeOK <=> StoreOK /\ TasksOK
BY DEF TypeOK, StoreOK, TasksOK, TaskOK

\* The two parts of the next state make its types.
LEMMA TypesKept == ASSUME StoreOK', TasksOK' PROVE TypeOK'
BY DEF TypeOK, StoreOK, TasksOK, TaskOK

\* What QuickBooks remembers for a request id was made for it, and while it never forgot
\* that one, nothing else was.
Remembered ==
  /\ \A r \in RequestIds : requests[r] # None =>
       made[requests[r]] # None /\ RequestId(made[requests[r]]) = r
  /\ \A v \in Ids : made[v] # None /\ RequestId(made[v]) \notin forgot =>
       requests[RequestId(made[v])] = v

\* What was made is there, and has its name until somebody changes it.
MadeIsThere ==
  \A v \in Ids : made[v] # None => vendors[v] # None /\ (v \notin edited => vendors[v] = made[v])

\* No display name was given twice, but for changes.
NoTwins ==
  \A v \in Ids : \A u \in Ids \ {v} : made[v] # None /\ made[v] = made[u] => {v, u} \cap edited # {}

MadeOnce == Remembered /\ MadeIsThere /\ NoTwins

\* A request for this name would be answered with what was made, if anything was.
Answered(n) == \A v \in Ids : made[v] = n /\ v \notin edited => Requested(n) # None

\* What QuickBooks or a person has now was had no time ago.
HeldNow == \A b \in Keys \X Ids : Holds(b) => trust[b] = 0

\* A row is no older than its id is trusted.
RowTrusted(k) ==
  cache[k] # None /\ k \notin replayed => trust[<<k, cache[k].id>>] <= cache[k].age

RowsTrusted == \A k \in Keys : RowTrusted(k)

\* What a task is about to write or to use.
TaskTrusted(t) ==
  /\ t.at = "write" => trust[<<Key[t.name], t.id>>] = 0
  /\ t.at = "cache" => Key[t.name] \in replayed \/ trust[<<Key[t.name], t.id>>] = 0
  /\ t.at \in {"cache", "alias"} => MadeFor(t.id, Key[t.name]) \/ {Key[t.name], Key[t.other]} \subseteq replayed
  /\ t.at = "post" => Answered(t.name)
  /\ t.at = "found" /\ t.match # "fuzzy" /\ Key[t.name] \notin replayed =>
       trust[<<Key[t.name], t.id>>] < Ttl

TasksTrusted == \A w \in Workers : TaskTrusted(task[w])

ReferencesInv == TypeOK /\ MadeOnce /\ HeldNow /\ RowsTrusted /\ TasksTrusted

-----------------------------------------------------------------------------
(* What the steps have in common *)

\* A request for this name is under way.
Pending(n) == \E w \in Workers : task[w].at = "post" /\ task[w].name = n

\* What a step other than a tick does to the history: trust is renewed or left alone, what
\* was made and replayed stays, and what a request under way waits for is not forgotten.
Trusting ==
  /\ \A b \in Keys \X Ids : trust'[b] \in {0, trust[b]}
  /\ \A v \in Ids : made[v] # None => made'[v] = made[v]
  /\ replayed \subseteq replayed'
  /\ \A n \in Names : Pending(n) /\ Answered(n) => Answered(n)'

\* The idle task is well typed and waits for nothing.
LEMMA IdleTypes ==
  Idle \in Task /\ Idle.at = "idle" /\ Idle.id = None /\ Idle.match = "none" /\ TaskOK(Idle)
<1>1. (CHOOSE n \in Names : TRUE) \in Names
  BY ReferencesConstants
<1> QED
  BY <1>1 DEF Idle, Task, Labels, TaskOK

\* The key of a name is one of the keys.
LEMMA KeyOf == ASSUME NEW n \in Names PROVE Key[n] \in Keys
BY DEF Keys

\* A task that is trusted stays so while trust is only renewed.
LEMMA TrustedStays ==
  ASSUME TypeOK, TasksTrusted, Trusting, NEW w \in Workers, task'[w] = task[w]
  PROVE  TaskTrusted(task[w])'
<1> PICK t : t = task[w]
  OBVIOUS
<1> PICK b : b = <<Key[t.name], t.id>>
  OBVIOUS
<1>1. t \in Task /\ (t.at \in {"write", "found", "link", "cache", "alias"} => t.id \in Ids)
  BY DEF TypeOK, Task
<1>2. Key[t.name] \in Keys
  BY <1>1, KeyOf DEF Task
<1>3. t.at \in {"write", "found", "cache"} => b \in Keys \X Ids /\ trust'[b] <= trust[b] /\ trust[b] \in Nat
                                              /\ trust'[b] \in Nat
  <2> SUFFICES ASSUME t.at \in {"write", "found", "cache"}
               PROVE  b \in Keys \X Ids /\ trust'[b] <= trust[b] /\ trust[b] \in Nat /\ trust'[b] \in Nat
    OBVIOUS
  <2>1. b \in Keys \X Ids
    BY <1>1, <1>2
  <2>2. trust[b] \in 0 .. Ttl /\ trust'[b] \in {0, trust[b]}
    BY <2>1 DEF TypeOK, Trusting
  <2> QED
    BY <2>1, <2>2, ReferencesConstants
<1>4. Ttl \in Nat
  BY ReferencesConstants
<1>5. TaskTrusted(t)
  BY DEF TasksTrusted
<1>6. t.at = "write" => trust'[b] = 0
  BY <1>3, <1>5 DEF TaskTrusted
<1>7. t.at = "cache" => Key[t.name] \in replayed' \/ trust'[b] = 0
  BY <1>2, <1>3, <1>5 DEF TaskTrusted, Trusting
<1>8. t.at \in {"cache", "alias"} =>
        MadeFor(t.id, Key[t.name])' \/ {Key[t.name], Key[t.other]} \subseteq replayed'
  BY <1>1, <1>5 DEF TaskTrusted, Trusting, MadeFor
<1>9. t.at = "found" /\ t.match # "fuzzy" /\ Key[t.name] \notin replayed' => trust'[b] < Ttl
  BY <1>3, <1>4, <1>5 DEF TaskTrusted, Trusting
<1>10. t.at = "post" => Answered(t.name)'
  <2>1. t.name \in Names
    BY <1>1 DEF Task
  <2>2. t.at = "post" => Pending(t.name)
    BY DEF Pending
  <2> QED
    BY <1>5, <2>1, <2>2 DEF TaskTrusted, Trusting
<1>11. TaskTrusted(t)'
  BY <1>6, <1>7, <1>8, <1>9, <1>10 DEF TaskTrusted
<1> QED
  BY <1>11

\* One task changes, and its new state is trusted.
LEMMA TasksKept ==
  ASSUME TypeOK, TasksTrusted, Trusting, NEW w \in Workers, NEW t, TaskOK(t), Become(w, t),
         TaskTrusted(task[w])'
  PROVE  TasksOK' /\ TasksTrusted'
<1>1. task' = [task EXCEPT ![w] = t] /\ t \in Task /\ task \in [Workers -> Task]
  BY DEF Become, TaskOK, TypeOK
<1>2. task' \in [Workers -> Task] /\ task'[w] = t /\ \A v \in Workers \ {w} : task'[v] = task[v]
  BY <1>1
<1>3. TasksOK'
  BY <1>2 DEF TasksOK, TaskOK, TypeOK
<1>4. \A v \in Workers : TaskTrusted(task[v])'
  BY <1>2, TrustedStays
<1> QED
  BY <1>3, <1>4 DEF TasksTrusted

\* Rows that are kept or dropped, and rows just written, are trusted.
LEMMA RowsKept ==
  ASSUME TypeOK, RowsTrusted, Trusting,
         \A k \in Keys : \/ cache'[k] \in {cache[k], None}
                         \/ cache'[k] \in Row /\ cache'[k].age = 0
                            /\ (k \in replayed' \/ trust'[<<k, cache'[k].id>>] = 0)
  PROVE  RowsTrusted'
<1> SUFFICES ASSUME NEW k \in Keys PROVE RowTrusted(k)'
  BY DEF RowsTrusted
<1>1. CASE cache'[k] = cache[k] /\ cache[k] # None
  <2>1. cache[k] \in Row
    BY <1>1 DEF TypeOK
  <2>2. <<k, cache[k].id>> \in Keys \X Ids /\ cache[k].age \in Nat
    BY <2>1, ReferencesConstants DEF Row
  <2>3. trust'[<<k, cache[k].id>>] \in {0, trust[<<k, cache[k].id>>]}
    BY <2>2 DEF Trusting
  <2> QED
    BY <1>1, <2>2, <2>3 DEF RowsTrusted, RowTrusted, Trusting
<1>2. CASE cache'[k] = None
  BY <1>2 DEF RowTrusted
<1>3. CASE cache'[k] \in Row /\ cache'[k].age = 0
           /\ (k \in replayed' \/ trust'[<<k, cache'[k].id>>] = 0)
  BY <1>3 DEF RowTrusted
<1> QED
  BY <1>1, <1>2, <1>3

\* Nothing but a task, and the number of tasks, changes.
LEMMA OnlyTask ==
  ASSUME ReferencesInv, NEW w \in Workers, NEW t, TaskOK(t), TaskTrusted(t), Become(w, t),
         tasks' \in 0 .. MaxTasks, UNCHANGED <<store, time, edits, history>>
  PROVE  ReferencesInv'
<1> USE DEF ReferencesInv, store, history
<1>1. Trusting
  BY DEF Trusting, Answered, Requested
<1>2. task'[w] = t
  BY DEF Become, TypeOK
<1>3. TaskTrusted(task[w])'
  BY <1>2 DEF TaskTrusted, MadeFor, Answered, Requested
<1>4. TasksOK' /\ TasksTrusted'
  BY <1>1, <1>3, TasksKept
<1>5. RowsTrusted'
  BY <1>1, RowsKept
<1>6. MadeOnce' /\ HeldNow'
  BY DEF MadeOnce, Remembered, MadeIsThere, NoTwins, HeldNow, Holds, Active
<1>7. StoreOK'
  BY TypeParts DEF StoreOK
<1> QED
  BY <1>4, <1>5, <1>6, <1>7, TypesKept

-----------------------------------------------------------------------------
(* The steps *)

\* The initial state: nothing is cached, made or asked for.
LEMMA InitEstablishes == Init => ReferencesInv
<1> SUFFICES ASSUME Init PROVE ReferencesInv
  OBVIOUS
<1>1. Ttl \in Nat \ {0} /\ MaxTime \in Nat /\ MaxEdits \in Nat /\ MaxTasks \in Nat
  BY ReferencesConstants
<1>2. StoreOK
  BY <1>1 DEF Init, StoreOK
<1>3. TasksOK
  BY IdleTypes DEF Init, TasksOK
<1>4. TypeOK
  BY <1>2, <1>3, TypeParts
<1>5. MadeOnce
  BY ReferencesConstants DEF Init, MadeOnce, Remembered, MadeIsThere, NoTwins
<1>6. HeldNow
  <2> SUFFICES ASSUME NEW b \in Keys \X Ids, Holds(b) PROVE trust[b] = 0
    BY DEF HeldNow
  <2>1. vendors[b[2]] # None /\ Key[vendors[b[2]]] = b[1]
    BY ReferencesConstants DEF Init, Holds, Active
  <2> QED
    BY <2>1 DEF Init
<1>7. RowsTrusted
  BY DEF Init, RowsTrusted, RowTrusted
<1>8. TasksTrusted
  BY IdleTypes DEF Init, TasksTrusted, TaskTrusted
<1> QED
  BY <1>4, <1>5, <1>6, <1>7, <1>8 DEF ReferencesInv

\* A step that only puts one trusted task in the place of another.
LEMMA TaskChanges ==
  ASSUME ReferencesInv, NEW w \in Workers, NEW u, TaskOK(u), TaskTrusted(u),
         Start(w, u) \/ (Become(w, u) /\ tasks' = tasks), UNCHANGED <<store, time, edits, history>>
  PROVE  ReferencesInv'
<1>1. tasks \in 0 .. MaxTasks /\ MaxTasks \in Nat
  BY ReferencesConstants DEF ReferencesInv, TypeOK
<1>2. Become(w, u) /\ tasks' \in 0 .. MaxTasks
  BY <1>1 DEF Start
<1> QED
  BY <1>2, OnlyTask

\* A task as it stands is well typed and trusted.
LEMMA TaskNow ==
  ASSUME ReferencesInv, NEW w \in Workers
  PROVE  task[w] \in Task /\ TaskTrusted(task[w]) /\ TaskOK(task[w])
BY DEF ReferencesInv, TypeOK, TasksTrusted, TaskOK

\* Going idle is always possible.
LEMMA IdleKeeps ==
  ASSUME ReferencesInv, NEW w \in Workers, Become(w, Idle), tasks' = tasks,
         UNCHANGED <<store, time, edits, history>>
  PROVE  ReferencesInv'
<1>1. TaskTrusted(Idle)
  BY IdleTypes DEF TaskTrusted
<1> QED
  BY <1>1, IdleTypes, TaskChanges

\* What QuickBooks answers is what it has at that moment.
LEMMA QueryKeeps ==
  ASSUME ReferencesInv, NEW w \in Workers, Query(w) PROVE ReferencesInv'
<1> PICK t : t = task[w]
  OBVIOUS
<1>1. t \in Task /\ TaskTrusted(t) /\ TaskOK(t)
  BY TaskNow
<1>2. tasks' = tasks /\ UNCHANGED <<store, time, edits, history>>
  BY Zenon DEF Query
<1>3. \/ Become(w, [t EXCEPT !.at = "fuzzy"])
      \/ \E v \in Ids : Named(t.name) = {v}
                        /\ Become(w, [t EXCEPT !.at = "write", !.id = v, !.display = t.name])
      \/ Become(w, Idle)
  BY Zenon DEF Query
<1>4. CASE Become(w, [t EXCEPT !.at = "fuzzy"])
  <2>1. TaskOK([t EXCEPT !.at = "fuzzy"]) /\ TaskTrusted([t EXCEPT !.at = "fuzzy"])
    BY <1>1 DEF TaskOK, Task, Labels, TaskTrusted
  <2> QED
    BY <1>2, <1>4, <2>1, TaskChanges
<1>5. ASSUME NEW v \in Ids, Named(t.name) = {v},
             Become(w, [t EXCEPT !.at = "write", !.id = v, !.display = t.name])
      PROVE  ReferencesInv'
  <2> DEFINE u == [t EXCEPT !.at = "write", !.id = v, !.display = t.name]
  <2>1. u \in Task /\ u.at = "write" /\ u.name = t.name /\ u.id = v /\ t.name \in Names
    BY <1>1 DEF Task, Labels
  <2>2. TaskOK(u)
    BY <2>1, ReferencesConstants DEF TaskOK
  <2>3. vendors[v] = t.name
    BY <1>5 DEF Named
  <2>4. <<Key[t.name], v>> \in Keys \X Ids /\ Holds(<<Key[t.name], v>>)
    BY <2>1, <2>3, KeyOf DEF Holds, Active
  <2>5. trust[<<Key[t.name], v>>] = 0
    BY <2>4 DEF ReferencesInv, HeldNow
  <2>6. TaskTrusted(u)
    BY <2>1, <2>5 DEF TaskTrusted
  <2>7. Become(w, u)
    BY <1>5
  <2> HIDE DEF u
  <2> QED
    BY <1>2, <2>2, <2>6, <2>7, TaskChanges
<1> QED
  BY <1>2, <1>3, <1>4, <1>5, IdleKeeps, Zenon

\* A similar name is a fuzzy match, or nothing is found.
LEMMA FuzzyKeeps ==
  ASSUME ReferencesInv, NEW w \in Workers, Fuzzy(w) PROVE ReferencesInv'
<1> PICK t : t = task[w]
  OBVIOUS
<1>1. t \in Task
  BY TaskNow
<1>2. tasks' = tasks /\ UNCHANGED <<store, time, edits, history>>
  BY Zenon DEF Fuzzy
<1>3. \/ \E k \in Keys : cache[k] # None
           /\ Become(w, [t EXCEPT !.at = "found", !.id = cache[k].id, !.match = "fuzzy"])
      \/ Become(w, Idle)
  BY Zenon DEF Fuzzy
<1>4. ASSUME NEW k \in Keys, cache[k] # None,
             Become(w, [t EXCEPT !.at = "found", !.id = cache[k].id, !.match = "fuzzy"])
      PROVE  ReferencesInv'
  <2> DEFINE u == [t EXCEPT !.at = "found", !.id = cache[k].id, !.match = "fuzzy"]
  <2>1. cache[k].id \in Ids
    BY <1>4 DEF ReferencesInv, TypeOK, Row
  <2>2. u \in Task /\ u.at = "found" /\ u.match = "fuzzy" /\ u.id = cache[k].id
    BY <1>1, <2>1 DEF Task, Labels
  <2>3. TaskOK(u) /\ TaskTrusted(u)
    BY <2>1, <2>2, ReferencesConstants DEF TaskOK, TaskTrusted
  <2>4. Become(w, u)
    BY <1>4
  <2> HIDE DEF u
  <2> QED
    BY <1>2, <2>3, <2>4, TaskChanges
<1> QED
  BY <1>2, <1>3, <1>4, IdleKeeps, Zenon

\* A fresh row is found; else QuickBooks will be asked.
LEMMA ResolveKeeps ==
  ASSUME ReferencesInv, NEW w \in Workers, NEW n \in Names, Resolve(w, n) PROVE ReferencesInv'
<1>1. UNCHANGED <<store, time, edits, history>>
  BY DEF Resolve
<1>2. CASE Fresh(Key[n])
  <2> DEFINE u == [Idle EXCEPT !.at = "found", !.name = n, !.id = cache[Key[n]].id, !.match = "cache"]
  <2>1. Key[n] \in Keys /\ cache[Key[n]] \in Row /\ cache[Key[n]].age < Ttl /\ cache[Key[n]] # None
    BY <1>2, KeyOf DEF Fresh, ReferencesInv, TypeOK
  <2>2. cache[Key[n]].id \in Ids /\ cache[Key[n]].age \in Int
    BY <2>1 DEF Row
  <2>3. u \in Task /\ u.at = "found" /\ u.name = n /\ u.id = cache[Key[n]].id
    BY <2>2, IdleTypes DEF Task, Labels
  <2>4. TaskOK(u)
    BY <2>2, <2>3, ReferencesConstants DEF TaskOK
  <2>5. trust[<<Key[n], u.id>>] \in 0 .. Ttl
    BY <2>1, <2>2, <2>3 DEF ReferencesInv, TypeOK
  <2>6. Key[n] \notin replayed => trust[<<Key[n], u.id>>] < Ttl
    BY <2>1, <2>2, <2>3, <2>5, ReferencesConstants DEF ReferencesInv, RowsTrusted, RowTrusted
  <2>7. TaskTrusted(u)
    BY <2>3, <2>6 DEF TaskTrusted
  <2>8. Start(w, u)
    BY <1>2 DEF Resolve
  <2> HIDE DEF u
  <2> QED
    BY <1>1, <2>4, <2>7, <2>8, TaskChanges
<1>3. CASE ~Fresh(Key[n])
  <2> DEFINE u == [Idle EXCEPT !.at = "query", !.name = n]
  <2>1. TaskOK(u) /\ TaskTrusted(u)
    BY IdleTypes DEF TaskOK, Task, Labels, TaskTrusted
  <2>2. Start(w, u)
    BY <1>3 DEF Resolve
  <2> HIDE DEF u
  <2> QED
    BY <1>1, <2>1, <2>2, TaskChanges
<1> QED
  BY <1>2, <1>3

\* An approver picks an active vendor.
LEMMA LinkKeeps ==
  ASSUME ReferencesInv, NEW w \in Workers, NEW n \in Names, NEW v \in Ids, Link(w, n, v)
  PROVE  ReferencesInv'
<1> DEFINE u == [Idle EXCEPT !.at = "link", !.name = n, !.id = v, !.display = vendors[v]]
<1>1. vendors[v] \in Names
  BY DEF Link, Active
<1>2. TaskOK(u) /\ TaskTrusted(u)
  BY <1>1, IdleTypes, ReferencesConstants DEF TaskOK, Task, Labels, TaskTrusted
<1>3. Start(w, u) /\ UNCHANGED <<store, time, edits, history>>
  BY DEF Link
<1> HIDE DEF u
<1> QED
  BY <1>2, <1>3, TaskChanges

\* A name nobody has was not made, or people changed what was made.
LEMMA CreateKeeps ==
  ASSUME ReferencesInv, NEW w \in Workers, NEW n \in Names, NEW o \in Names, Create(w, n, o)
  PROVE  ReferencesInv'
<1> DEFINE u == [Idle EXCEPT !.at = "post", !.name = n, !.other = o]
<1>1. Named(n) = {}
  BY DEF Create
<1>2. n # None
  BY ReferencesConstants
<1>3. Answered(n)
  BY <1>1, <1>2 DEF Answered, Named, ReferencesInv, MadeOnce, MadeIsThere
<1>4. u \in Task /\ u.at = "post" /\ u.name = n /\ u.id = None
  BY IdleTypes DEF Task, Labels
<1>5. TaskOK(u) /\ TaskTrusted(u)
  BY <1>3, <1>4 DEF TaskOK, TaskTrusted
<1>6. Start(w, u) /\ UNCHANGED <<store, time, edits, history>>
  BY DEF Create
<1> HIDE DEF u
<1> QED
  BY <1>5, <1>6, TaskChanges

\* A row just written.
LEMMA UpsertTypes ==
  ASSUME TypeOK, NEW k \in Keys, NEW v \in Ids, NEW n \in Names, Upsert(k, v, n)
  PROVE  /\ cache' \in [Keys -> Row \cup {None}]
         /\ cache'[k] \in Row /\ cache'[k].id = v /\ cache'[k].age = 0
         /\ \A j \in Keys \ {k} : cache'[j] = cache[j]
<1>1. [id |-> v, name |-> n, age |-> 0] \in Row
  BY ReferencesConstants DEF Row
<1> QED
  BY <1>1 DEF Upsert, TypeOK

\* The answer of QuickBooks is written.
LEMMA WriteCacheKeeps ==
  ASSUME ReferencesInv, NEW w \in Workers, WriteCache(w) PROVE ReferencesInv'
<1> DEFINE t == task[w]  u == [t EXCEPT !.at = "found", !.match = "exact"]
<1>1. t \in Task /\ t.at = "write" /\ t.id \in Ids /\ Key[t.name] \in Keys /\ t.display \in Names
  BY KeyOf DEF WriteCache, ReferencesInv, TypeOK, Task
<1>2. u \in Task /\ u.at = "found" /\ u.name = t.name /\ u.id = t.id
  BY <1>1 DEF Task, Labels
<1>3. TaskOK(u)
  BY <1>1, <1>2, ReferencesConstants DEF TaskOK
<1>4. Become(w, u) /\ task'[w] = u
  BY DEF WriteCache, Become, ReferencesInv, TypeOK
<1>5. trust[<<Key[t.name], t.id>>] = 0
  BY <1>1 DEF ReferencesInv, TasksTrusted, TaskTrusted
<1> HIDE DEF u
<1>6. Trusting
  BY DEF Trusting, Answered, Requested, WriteCache, history
<1>7. trust' = trust /\ replayed' = replayed /\ made' = made
  BY DEF WriteCache, history
<1>8. TaskTrusted(task[w])'
  BY <1>2, <1>4, <1>5, <1>7, ReferencesConstants DEF TaskTrusted
<1>9. TasksOK' /\ TasksTrusted'
  BY <1>3, <1>4, <1>6, <1>8, TasksKept DEF ReferencesInv
<1>10. Upsert(Key[t.name], t.id, t.display)
  BY DEF WriteCache
<1>11. cache' \in [Keys -> Row \cup {None}] /\ cache'[Key[t.name]] \in Row /\ cache'[Key[t.name]].id = t.id
       /\ cache'[Key[t.name]].age = 0 /\ \A j \in Keys \ {Key[t.name]} : cache'[j] = cache[j]
  BY <1>1, <1>10, UpsertTypes DEF ReferencesInv
<1>12. RowsTrusted'
  BY <1>5, <1>6, <1>7, <1>11, RowsKept DEF ReferencesInv
<1>13. MadeOnce' /\ HeldNow'
  BY DEF WriteCache, history, ReferencesInv, MadeOnce, Remembered, MadeIsThere, NoTwins, HeldNow,
         Holds, Active
<1>14. StoreOK'
  BY <1>11, TypeParts DEF WriteCache, history, ReferencesInv, StoreOK
<1> QED
  BY <1>9, <1>12, <1>13, <1>14, TypesKept DEF ReferencesInv

\* A person's choice is written, and is trusted from then on.
LEMMA WriteLinkKeeps ==
  ASSUME ReferencesInv, NEW w \in Workers, WriteLink(w) PROVE ReferencesInv'
<1> DEFINE t == task[w]  k == Key[t.name]  b == <<k, t.id>>
<1>1. t \in Task /\ t.at = "link" /\ t.id \in Ids /\ k \in Keys /\ t.display \in Names
  BY KeyOf DEF WriteLink, ReferencesInv, TypeOK, Task
<1>2. b \in Keys \X Ids /\ b[1] = k /\ b[2] = t.id
  BY <1>1
<1>3. Upsert(k, t.id, t.display) /\ Become(w, Idle)
  BY DEF WriteLink
<1>4. /\ linked' = linked \cup {b} /\ trust' = [trust EXCEPT ![b] = 0]
      /\ UNCHANGED <<vendors, requests, made, events, time, edits, tasks, replayed, forgot, edited>>
  BY DEF WriteLink
<1>5. cache' \in [Keys -> Row \cup {None}] /\ cache'[k] \in Row /\ cache'[k].id = t.id
      /\ cache'[k].age = 0 /\ \A j \in Keys \ {k} : cache'[j] = cache[j]
  BY <1>1, <1>3, UpsertTypes DEF ReferencesInv
<1>6. b = <<k, t.id>>
  OBVIOUS
<1> HIDE DEF t, k, b
<1>7. /\ trust' \in [Keys \X Ids -> 0 .. Ttl] /\ trust'[b] = 0
      /\ \A c \in Keys \X Ids : c # b => trust'[c] = trust[c]
  BY <1>2, <1>4, ReferencesConstants DEF ReferencesInv, TypeOK
<1>8. Trusting
  BY <1>4, <1>7 DEF Trusting, Answered, Requested
<1>9. task'[w] = Idle
  BY <1>3 DEF Become, ReferencesInv, TypeOK
<1>10. TaskTrusted(task[w])'
  BY <1>9, IdleTypes DEF TaskTrusted
<1>11. TasksOK' /\ TasksTrusted'
  BY <1>3, <1>8, <1>10, IdleTypes, TasksKept DEF ReferencesInv
<1>12. RowsTrusted'
  BY <1>5, <1>6, <1>7, <1>8, RowsKept DEF ReferencesInv
<1>13. MadeOnce'
  BY <1>4 DEF ReferencesInv, MadeOnce, Remembered, MadeIsThere, NoTwins
<1>14. HeldNow'
  BY <1>2, <1>4, <1>7 DEF ReferencesInv, HeldNow, Holds, Active
<1>15. StoreOK'
  BY <1>2, <1>4, <1>5, <1>7, TypeParts DEF ReferencesInv, StoreOK
<1> QED
  BY <1>11, <1>12, <1>13, <1>14, <1>15, TypesKept DEF ReferencesInv

\* The history is brought up to date: what is held is trusted, whatever it was before.
LEMMA WitnessKeeps ==
  ASSUME StoreOK, Witness(0), replayed \subseteq replayed',
         \A v \in Ids : made[v] # None => made'[v] = made[v],
         \A n \in Names : Pending(n) /\ Answered(n) => Answered(n)'
  PROVE  trust' \in [Keys \X Ids -> 0 .. Ttl] /\ HeldNow' /\ Trusting
<1>1. Ttl \in Nat
  BY ReferencesConstants
<1>2. \A b \in Keys \X Ids : trust[b] \in 0 .. Ttl
  BY DEF StoreOK
<1>3. \A b \in Keys \X Ids : trust'[b] = IF Holds(b)' THEN 0 ELSE trust[b]
  BY <1>1, <1>2 DEF Witness
<1>4. DOMAIN trust' = Keys \X Ids /\ trust' = [b \in Keys \X Ids |-> trust'[b]]
  BY DEF Witness
<1>5. trust' \in [Keys \X Ids -> 0 .. Ttl]
  BY <1>1, <1>2, <1>3, <1>4
<1>6. HeldNow'
  BY <1>3 DEF HeldNow
<1>7. Trusting
  BY <1>3 DEF Trusting
<1> QED
  BY <1>5, <1>6, <1>7

\* Someone edits an entity.
LEMMA EditKeeps ==
  ASSUME ReferencesInv, NEW v \in Ids, NEW n \in Names \cup {Inactive}, Edit(v, n)
  PROVE  ReferencesInv'
<1>1. /\ Witness(0) /\ vendors' = [vendors EXCEPT ![v] = n] /\ events' = events \cup {v}
      /\ edits' = edits + 1 /\ edits < MaxEdits
      /\ edited' = edited \cup {v} /\ UNCHANGED <<requests, made, cache, task, time, tasks>>
      /\ UNCHANGED <<linked, replayed, forgot>>
  BY DEF Edit
<1>2. StoreOK
  BY TypeParts DEF ReferencesInv
<1>3. trust' \in [Keys \X Ids -> 0 .. Ttl] /\ HeldNow' /\ Trusting
  <2>1. \A m \in Names : Pending(m) /\ Answered(m) => Answered(m)'
    BY <1>1 DEF Answered, Requested
  <2> QED
    BY <1>1, <1>2, <2>1, WitnessKeeps
<1>4. StoreOK'
  BY <1>1, <1>2, <1>3, ReferencesConstants DEF StoreOK
<1>5. TasksOK'
  BY <1>1, TypeParts DEF ReferencesInv, TasksOK, TaskOK
<1>6. \A w \in Workers : TaskTrusted(task[w])'
  BY <1>1, <1>3, TrustedStays DEF ReferencesInv
<1>7. TasksTrusted'
  BY <1>6 DEF TasksTrusted
<1>8. RowsTrusted'
  BY <1>1, <1>3, RowsKept DEF ReferencesInv
<1>9. MadeOnce'
  <2>1. n # None
    BY ReferencesConstants
  <2>2. Remembered' /\ NoTwins'
    BY <1>1 DEF ReferencesInv, MadeOnce, Remembered, NoTwins
  <2>3. MadeIsThere'
    BY <1>1, <1>2, <2>1 DEF ReferencesInv, MadeOnce, MadeIsThere, StoreOK
  <2> QED
    BY <2>2, <2>3 DEF MadeOnce
<1> QED
  BY <1>3, <1>4, <1>5, <1>7, <1>8, <1>9, TypesKept DEF ReferencesInv

\* A webhook drops rows, or is lost.
LEMMA WebhookKeeps ==
  ASSUME ReferencesInv, NEW v \in Ids, Webhook(v) \/ LoseWebhook(v) PROVE ReferencesInv'
<1>1. /\ events' = events \ {v} /\ UNCHANGED <<vendors, requests, made, task, time, edits, tasks>>
      /\ UNCHANGED <<linked, trust, replayed, forgot, edited>>
      /\ cache' \in [Keys -> Row \cup {None}] /\ \A k \in Keys : cache'[k] \in {cache[k], None}
  BY DEF Webhook, LoseWebhook, history, ReferencesInv, TypeOK
<1>2. Trusting
  BY <1>1 DEF Trusting, Answered, Requested
<1>3. StoreOK' /\ TasksOK'
  BY <1>1, TypeParts DEF ReferencesInv, StoreOK, TasksOK, TaskOK
<1>4. \A w \in Workers : TaskTrusted(task[w])'
  BY <1>1, <1>2, TrustedStays DEF ReferencesInv
<1>5. TasksTrusted'
  BY <1>4 DEF TasksTrusted
<1>6. RowsTrusted'
  BY <1>1, <1>2, RowsKept DEF ReferencesInv
<1>7. MadeOnce' /\ HeldNow'
  BY <1>1 DEF ReferencesInv, MadeOnce, Remembered, MadeIsThere, NoTwins, HeldNow, Holds, Active
<1> QED
  BY <1>3, <1>5, <1>6, <1>7, TypesKept DEF ReferencesInv

\* A vendor is made, or QuickBooks answers with the one it made for that request id.
LEMMA PostVendorKeeps ==
  ASSUME ReferencesInv, NEW w \in Workers, PostVendor(w) PROVE ReferencesInv'
<1> PICK t : t = task[w]
  OBVIOUS
<1> PICK n : n = t.name
  OBVIOUS
<1> DEFINE k == Key[n]  q == RequestId(n)
<1>1. /\ t \in Task /\ n \in Names /\ k \in Keys /\ Key[t.other] \in Keys /\ q \in RequestIds
      /\ t.at = "post" /\ Witness(0)
      /\ UNCHANGED <<events, cache, time, edits, tasks, linked, forgot, edited>>
  <2>1. /\ t.at = "post" /\ Witness(0)
        /\ UNCHANGED <<events, cache, time, edits, tasks, linked, forgot, edited>>
    BY Zenon DEF PostVendor
  <2> QED
    BY <2>1, TaskNow, KeyOf DEF Task, RequestId, RequestIds
<1>2. StoreOK /\ MadeOnce /\ Answered(n)
  BY <1>1, TypeParts DEF ReferencesInv, TasksTrusted, TaskTrusted
<1>3. ASSUME NEW u, TaskOK(u), Become(w, u), u.at = "cache", u.name = n, u.other = t.other,
             MadeFor(u.id, k)' \/ {k, Key[t.other]} \subseteq replayed',
             k \in replayed' \/ trust'[<<k, u.id>>] = 0,
             Trusting, HeldNow', MadeOnce', StoreOK'
      PROVE  ReferencesInv'
  <2>1. task'[w] = u
    BY <1>3 DEF Become, ReferencesInv, TypeOK
  <2>2. TaskTrusted(u)'
    BY <1>3 DEF TaskTrusted
  <2>3. TasksOK' /\ TasksTrusted'
    BY <1>3, <2>1, <2>2, TasksKept DEF ReferencesInv
  <2>4. RowsTrusted'
    BY <1>1, <1>3, RowsKept DEF ReferencesInv
  <2> QED
    BY <1>3, <2>3, <2>4, TypesKept DEF ReferencesInv
<1>4. ASSUME requests[q] # None,
             Become(w, [t EXCEPT !.at = "cache", !.id = requests[q], !.display = made[requests[q]]]),
             replayed' = replayed \cup {k, Key[t.other]},
             UNCHANGED <<vendors, requests, made>>
      PROVE  ReferencesInv'
  <2> PICK u : u = [t EXCEPT !.at = "cache", !.id = requests[q], !.display = made[requests[q]]]
    OBVIOUS
  <2>1. requests[q] \in Ids /\ made[requests[q]] \in Names
    BY <1>1, <1>2, <1>4 DEF StoreOK, MadeOnce, Remembered
  <2>2. u \in Task /\ u.at = "cache" /\ u.name = n /\ u.id = requests[q] /\ u.other = t.other
    BY <1>1, <2>1 DEF Task, Labels
  <2>3. TaskOK(u)
    BY <2>1, <2>2, ReferencesConstants DEF TaskOK
  <2>4. replayed' \subseteq Keys /\ replayed \subseteq replayed' /\ {k, Key[t.other]} \subseteq replayed'
    BY <1>1, <1>2, <1>4 DEF StoreOK
  <2>5. \A m \in Names : Answered(m) => Answered(m)'
    BY <1>1, <1>4 DEF Answered, Requested
  <2>6. trust' \in [Keys \X Ids -> 0 .. Ttl] /\ HeldNow' /\ Trusting
    BY <1>1, <1>2, <1>4, <2>4, <2>5, WitnessKeeps
  <2>7. StoreOK'
    BY <1>1, <1>2, <1>4, <2>4, <2>6 DEF StoreOK
  <2>8. MadeOnce'
    BY <1>1, <1>2, <1>4 DEF MadeOnce, Remembered, MadeIsThere, NoTwins
  <2>9. Become(w, u) /\ k \in replayed'
    BY <1>4, <2>4
  <2> QED
    BY <1>3, <2>2, <2>3, <2>4, <2>6, <2>7, <2>8, <2>9
<1>5. ASSUME NEW v \in Ids, requests[q] = None, vendors[v] = None, vendors' = [vendors EXCEPT ![v] = n],
             requests' = [requests EXCEPT ![q] = v], made' = [made EXCEPT ![v] = n],
             Become(w, [t EXCEPT !.at = "cache", !.id = v, !.display = n]), UNCHANGED replayed
      PROVE  ReferencesInv'
  <2> PICK u : u = [t EXCEPT !.at = "cache", !.id = v, !.display = n]
    OBVIOUS
  <2>1. n # None /\ v # None /\ made[v] = None
    BY <1>1, <1>2, <1>5, ReferencesConstants DEF MadeOnce, MadeIsThere
  <2>2. u \in Task /\ u.at = "cache" /\ u.name = n /\ u.id = v /\ u.other = t.other
    BY <1>1 DEF Task, Labels
  <2>3. TaskOK(u)
    BY <2>1, <2>2 DEF TaskOK
  <2>4. made' \in [Ids -> Names \cup {None}] /\ made'[v] = n /\ \A x \in Ids \ {v} : made'[x] = made[x]
    BY <1>1, <1>2, <1>5 DEF StoreOK
  <2>5. requests' \in [RequestIds -> Ids \cup {None}] /\ requests'[q] = v
        /\ \A x \in RequestIds \ {q} : requests'[x] = requests[x]
    BY <1>1, <1>2, <1>5 DEF StoreOK
  <2>6. vendors' \in [Ids -> Names \cup {None, Inactive}] /\ vendors'[v] = n
        /\ \A x \in Ids \ {v} : vendors'[x] = vendors[x]
    BY <1>1, <1>2, <1>5 DEF StoreOK
  <2>7. \A m \in Names : RequestId(m) \in RequestIds
    BY KeyOf DEF RequestId, RequestIds
  <2>8. \A m \in Names : Answered(m) => Answered(m)'
    <3> SUFFICES ASSUME NEW m \in Names, Answered(m), NEW x \in Ids, made'[x] = m, x \notin edited
                 PROVE  requests'[RequestId(m)] # None
      BY <1>1 DEF Answered, Requested
    <3>1. CASE x = v
      BY <2>1, <2>4, <2>5, <3>1
    <3>2. CASE x # v
      BY <2>1, <2>4, <2>5, <2>7, <3>2 DEF Answered, Requested
    <3> QED
      BY <3>1, <3>2
  <2>9. \A x \in Ids : made[x] # None => made'[x] = made[x]
    BY <2>1, <2>4
  <2>10. trust' \in [Keys \X Ids -> 0 .. Ttl] /\ HeldNow' /\ Trusting
    BY <1>1, <1>2, <1>5, <2>8, <2>9, WitnessKeeps
  <2>11. Remembered'
    <3>1. \A x \in Ids : made'[x] # None => made'[x] \in Names
      BY <2>4
    <3>2. ASSUME NEW x \in RequestIds, requests'[x] # None
          PROVE  made'[requests'[x]] # None /\ RequestId(made'[requests'[x]]) = x
      BY <1>2, <2>1, <2>4, <2>5, <3>2 DEF MadeOnce, Remembered, StoreOK
    <3>3. ASSUME NEW x \in Ids, made'[x] # None, RequestId(made'[x]) \notin forgot
          PROVE  requests'[RequestId(made'[x])] = x
      BY <1>2, <1>5, <2>1, <2>4, <2>5, <2>7, <3>1, <3>3, ReferencesConstants DEF MadeOnce, Remembered
    <3> QED
      BY <1>1, <3>2, <3>3 DEF Remembered
  <2>12. MadeIsThere'
    BY <1>1, <1>2, <2>1, <2>4, <2>6 DEF MadeOnce, MadeIsThere
  <2>13. \A x \in Ids : made[x] = n => x \in edited
    BY <1>2, <1>5 DEF Answered, Requested
  <2>14. NoTwins'
    BY <1>1, <1>2, <2>1, <2>4, <2>13 DEF MadeOnce, NoTwins
  <2>15. StoreOK'
    BY <1>1, <1>2, <1>5, <2>4, <2>5, <2>6, <2>10 DEF StoreOK
  <2>16. <<k, v>> \in Keys \X Ids /\ <<k, v>>[1] = k /\ <<k, v>>[2] = v
    BY <1>1
  <2>17. trust'[<<k, v>>] = 0
    BY <1>1, <2>6, <2>10, <2>16 DEF HeldNow, Holds, Active
  <2>18. MadeFor(u.id, k)' /\ Become(w, u)
    BY <1>5, <2>1, <2>2, <2>4 DEF MadeFor
  <2> QED
    BY <1>3, <2>2, <2>3, <2>10, <2>11, <2>12, <2>14, <2>15, <2>17, <2>18 DEF MadeOnce
<1>6. CASE requests[q] # None
  <2>1. /\ Become(w, [t EXCEPT !.at = "cache", !.id = requests[q], !.display = made[requests[q]]])
        /\ replayed' = replayed \cup {k, Key[t.other]} /\ UNCHANGED <<vendors, requests, made>>
    BY <1>6, Zenon DEF PostVendor, Requested
  <2> QED
    BY <1>4, <1>6, <2>1
<1>7. CASE requests[q] = None
  <2>1. \E v \in Ids :
          /\ vendors[v] = None /\ vendors' = [vendors EXCEPT ![v] = n]
          /\ requests' = [requests EXCEPT ![q] = v] /\ made' = [made EXCEPT ![v] = n]
          /\ Become(w, [t EXCEPT !.at = "cache", !.id = v, !.display = n]) /\ UNCHANGED replayed
    BY <1>7, Zenon DEF PostVendor, Requested
  <2> QED
    BY <1>5, <1>7, <2>1, Zenon
<1> QED
  BY <1>6, <1>7

\* The vendor is cached under the name it was created with.
LEMMA CacheCreatedKeeps ==
  ASSUME ReferencesInv, NEW w \in Workers, CacheCreated(w) PROVE ReferencesInv'
<1> PICK t : t = task[w]
  OBVIOUS
<1> PICK alias : alias = [t EXCEPT !.at = "alias"]
  OBVIOUS
<1> DEFINE k == Key[t.name]
<1>1. /\ t \in Task /\ t.at = "cache" /\ t.id \in Ids /\ k \in Keys /\ t.display \in Names
      /\ TaskTrusted(t)
  BY KeyOf DEF CacheCreated, ReferencesInv, TypeOK, Task, TasksTrusted
<1>2. Upsert(k, t.id, t.display) /\ (Become(w, Idle) \/ Become(w, alias))
  BY DEF CacheCreated
<1>3. UNCHANGED <<vendors, requests, made, events, time, edits, tasks, history>>
  BY DEF CacheCreated
<1>4. cache' \in [Keys -> Row \cup {None}] /\ cache'[k] \in Row /\ cache'[k].id = t.id
      /\ cache'[k].age = 0 /\ \A j \in Keys \ {k} : cache'[j] = cache[j]
  BY <1>1, <1>2, UpsertTypes DEF ReferencesInv
<1>5. k \in replayed \/ trust[<<k, t.id>>] = 0
  BY <1>1 DEF TaskTrusted
<1>6. alias \in Task /\ alias.at = "alias" /\ alias.id = t.id /\ alias.name = t.name
  BY <1>1 DEF Task, Labels
<1>7. /\ TaskOK(alias) /\ alias.other = t.other
      /\ MadeFor(t.id, k) \/ {k, Key[t.other]} \subseteq replayed
  BY <1>1, <1>6, ReferencesConstants DEF TaskOK, TaskTrusted, Task
<1>8. Trusting
  BY <1>3 DEF Trusting, Answered, Requested, history
<1>9. RowsTrusted'
  BY <1>3, <1>4, <1>5, <1>8, RowsKept DEF ReferencesInv, history
<1>10. ASSUME Become(w, Idle) PROVE TasksOK' /\ TasksTrusted'
  <2>1. task'[w] = Idle
    BY <1>10 DEF Become, ReferencesInv, TypeOK
  <2>2. TaskTrusted(task[w])'
    BY <2>1, IdleTypes DEF TaskTrusted
  <2> QED
    BY <1>8, <1>10, <2>2, IdleTypes, TasksKept DEF ReferencesInv
<1>11. ASSUME Become(w, alias) PROVE TasksOK' /\ TasksTrusted'
  <2>1. task'[w] = alias
    BY <1>11 DEF Become, ReferencesInv, TypeOK
  <2>2. TaskTrusted(alias)'
    BY <1>3, <1>6, <1>7 DEF TaskTrusted, MadeFor, history
  <2> QED
    BY <1>7, <1>8, <1>11, <2>1, <2>2, TasksKept DEF ReferencesInv
<1>12. TasksOK' /\ TasksTrusted'
  BY <1>2, <1>10, <1>11
<1>13. MadeOnce' /\ HeldNow'
  BY <1>3 DEF ReferencesInv, MadeOnce, Remembered, MadeIsThere, NoTwins, HeldNow, Holds, Active, history
<1>14. StoreOK'
  BY <1>3, <1>4, TypeParts DEF ReferencesInv, StoreOK, history
<1> QED
  BY <1>9, <1>12, <1>13, <1>14, TypesKept DEF ReferencesInv

\* ... and under the extracted one, which makes it that name's too.
LEMMA CacheAliasKeeps ==
  ASSUME ReferencesInv, NEW w \in Workers, CacheAlias(w) PROVE ReferencesInv'
<1> PICK t : t = task[w]
  OBVIOUS
<1> PICK k : k = Key[t.other]
  OBVIOUS
<1> PICK b : b = <<k, t.id>>
  OBVIOUS
<1>1. /\ t \in Task /\ t.at = "alias" /\ t.id \in Ids /\ k \in Keys /\ t.display \in Names
      /\ TaskTrusted(t)
  BY KeyOf DEF CacheAlias, ReferencesInv, TypeOK, Task, TasksTrusted
<1>2. b \in Keys \X Ids /\ b[1] = k /\ b[2] = t.id
  BY <1>1
<1>3. Upsert(k, t.id, t.display) /\ Become(w, Idle)
  BY DEF CacheAlias
<1>4. UNCHANGED <<vendors, requests, made, events, time, edits, tasks, replayed, forgot, edited>>
  BY DEF CacheAlias
<1>5. \/ linked' = linked \cup {b} /\ trust' = [trust EXCEPT ![b] = 0]
      \/ k \in replayed /\ linked' = linked /\ trust' = trust
  BY <1>1 DEF CacheAlias, TaskTrusted
<1>6. cache' \in [Keys -> Row \cup {None}] /\ cache'[k] \in Row /\ cache'[k].id = t.id
      /\ cache'[k].age = 0 /\ \A j \in Keys \ {k} : cache'[j] = cache[j]
  BY <1>1, <1>3, UpsertTypes DEF ReferencesInv
<1>7. /\ trust' \in [Keys \X Ids -> 0 .. Ttl] /\ (k \in replayed \/ trust'[b] = 0)
      /\ \A c \in Keys \X Ids : trust'[c] = trust[c] \/ (c = b /\ trust'[c] = 0)
  BY <1>2, <1>5, ReferencesConstants DEF ReferencesInv, TypeOK
<1>8. Trusting
  BY <1>4, <1>7 DEF Trusting, Answered, Requested
<1>9. task'[w] = Idle
  BY <1>3 DEF Become, ReferencesInv, TypeOK
<1>10. TaskTrusted(task[w])'
  BY <1>9, IdleTypes DEF TaskTrusted
<1>11. TasksOK' /\ TasksTrusted'
  BY <1>3, <1>8, <1>10, IdleTypes, TasksKept DEF ReferencesInv
<1>12. RowsTrusted'
  BY <1>4, <1>6, <1>7, <1>8, RowsKept DEF ReferencesInv
<1>13. MadeOnce'
  BY <1>4 DEF ReferencesInv, MadeOnce, Remembered, MadeIsThere, NoTwins
<1>14. HeldNow'
  BY <1>2, <1>4, <1>5, <1>7 DEF ReferencesInv, HeldNow, Holds, Active
<1>15. linked' \subseteq Keys \X Ids
  BY <1>2, <1>5 DEF ReferencesInv, TypeOK
<1>16. StoreOK'
  BY <1>4, <1>6, <1>7, <1>15, TypeParts DEF ReferencesInv, StoreOK
<1> QED
  BY <1>11, <1>12, <1>13, <1>14, <1>16, TypesKept DEF ReferencesInv

\* The retention of a request id ends, of one that nobody waits for.
LEMMA ForgetKeeps ==
  ASSUME ReferencesInv, NEW q \in RequestIds, Forget(q) PROVE ReferencesInv'
<1>1. /\ requests' = [requests EXCEPT ![q] = None] /\ forgot' = forgot \cup {q}
      /\ \A w \in Workers : task[w].at = "post" => RequestId(task[w].name) # q
      /\ UNCHANGED <<vendors, made, events, cache, task, time, edits, tasks>>
      /\ UNCHANGED <<linked, trust, replayed, edited>>
  BY DEF Forget
<1>2. StoreOK /\ MadeOnce
  BY TypeParts DEF ReferencesInv
<1>3. /\ requests' \in [RequestIds -> Ids \cup {None}] /\ requests'[q] = None
      /\ \A r \in RequestIds \ {q} : requests'[r] = requests[r]
  BY <1>1, <1>2 DEF StoreOK
<1>4. \A n \in Names : RequestId(n) \in RequestIds
  BY KeyOf DEF RequestId, RequestIds
<1>5. Trusting
  <2>1. ASSUME NEW n \in Names, Pending(n), Answered(n) PROVE Answered(n)'
    BY <1>1, <1>3, <1>4, <2>1 DEF Pending, Answered, Requested
  <2> QED
    BY <1>1, <2>1 DEF Trusting
<1>6. StoreOK' /\ TasksOK'
  BY <1>1, <1>2, <1>3, TypeParts DEF ReferencesInv, StoreOK, TasksOK, TaskOK
<1>7. \A w \in Workers : TaskTrusted(task[w])'
  BY <1>1, <1>5, TrustedStays DEF ReferencesInv
<1>8. RowsTrusted'
  BY <1>1, <1>5, RowsKept DEF ReferencesInv
<1>9. Remembered'
  <2>1. \A v \in Ids : made[v] # None => RequestId(made[v]) \in RequestIds
    BY <1>2, <1>4 DEF StoreOK
  <2> QED
    BY <1>1, <1>2, <1>3, <2>1 DEF MadeOnce, Remembered
<1>10. MadeIsThere' /\ NoTwins' /\ HeldNow'
  BY <1>1 DEF ReferencesInv, MadeOnce, MadeIsThere, NoTwins, HeldNow, Holds, Active
<1> QED
  BY <1>6, <1>7, <1>8, <1>9, <1>10, TypesKept DEF ReferencesInv, MadeOnce, TasksTrusted

\* A part of a day passes: what is held stays trusted, and a row ages as fast as trust goes.
LEMMA TickKeeps == ASSUME ReferencesInv, Tick PROVE ReferencesInv'
<1>1. /\ time < MaxTime /\ time' = time + 1 /\ \A w \in Workers : task[w].at = "idle"
      /\ cache' = [k \in Keys |-> IF cache[k] = None THEN None
                                  ELSE [cache[k] EXCEPT !.age = IF @ < Ttl THEN @ + 1 ELSE @]]
      /\ UNCHANGED <<vendors, requests, made, events, task, edits, tasks>>
      /\ UNCHANGED <<linked, replayed, forgot, edited>>
      /\ Witness(1)
  BY DEF Tick
<1>2. Ttl \in Nat /\ MaxTime \in Nat
  BY ReferencesConstants
<1>3. StoreOK /\ TasksOK
  BY TypeParts DEF ReferencesInv
<1>4. \A b \in Keys \X Ids : trust[b] \in 0 .. Ttl
  BY <1>3 DEF StoreOK
<1>5. \A b \in Keys \X Ids :
        trust'[b] = IF Holds(b)' THEN 0 ELSE IF trust[b] + 1 > Ttl THEN Ttl ELSE trust[b] + 1
  BY <1>1 DEF Witness
<1>6. trust' = [b \in Keys \X Ids |-> trust'[b]]
  BY <1>1 DEF Witness
<1>7. \A b \in Keys \X Ids : trust'[b] \in 0 .. Ttl
  BY <1>2, <1>4, <1>5
<1>8. trust' \in [Keys \X Ids -> 0 .. Ttl]
  BY <1>6, <1>7
<1>9. \A k \in Keys :
        IF cache[k] = None THEN cache'[k] = None
        ELSE /\ cache[k] \in Row /\ cache'[k] \in Row /\ cache'[k].id = cache[k].id
             /\ cache'[k].age = IF cache[k].age < Ttl THEN cache[k].age + 1 ELSE cache[k].age
  <2> SUFFICES ASSUME NEW k \in Keys, cache[k] # None
               PROVE  /\ cache[k] \in Row /\ cache'[k] \in Row /\ cache'[k].id = cache[k].id
                      /\ cache'[k].age = IF cache[k].age < Ttl THEN cache[k].age + 1 ELSE cache[k].age
    BY <1>1
  <2> DEFINE a == IF cache[k].age < Ttl THEN cache[k].age + 1 ELSE cache[k].age
  <2>1. cache[k] \in Row
    BY <1>3 DEF StoreOK
  <2>2. cache[k].age \in 0 .. Ttl
    BY <2>1 DEF Row
  <2>3. a \in 0 .. Ttl
    BY <1>2, <2>2
  <2>4. cache'[k] = [cache[k] EXCEPT !.age = a]
    BY <1>1
  <2> HIDE DEF a
  <2>5. cache'[k] \in Row /\ cache'[k].id = cache[k].id /\ cache'[k].age = a
    BY <2>1, <2>3, <2>4 DEF Row
  <2> QED
    BY <2>1, <2>5 DEF a
<1>10. cache' \in [Keys -> Row \cup {None}]
  BY <1>1, <1>9
<1>11. StoreOK'
  BY <1>1, <1>2, <1>3, <1>8, <1>10 DEF StoreOK
<1>12. TasksOK'
  BY <1>1, <1>3 DEF TasksOK, TaskOK
<1>13. MadeOnce'
  BY <1>1 DEF ReferencesInv, MadeOnce, Remembered, MadeIsThere, NoTwins
<1>14. HeldNow'
  BY <1>5 DEF HeldNow
<1>15. RowsTrusted'
  <2> SUFFICES ASSUME NEW k \in Keys, cache'[k] # None, k \notin replayed
               PROVE  trust'[<<k, cache'[k].id>>] <= cache'[k].age
    BY <1>1 DEF RowsTrusted, RowTrusted
  <2>1. /\ cache[k] # None /\ cache[k] \in Row /\ cache'[k].id = cache[k].id
        /\ cache'[k].age = IF cache[k].age < Ttl THEN cache[k].age + 1 ELSE cache[k].age
    BY <1>9
  <2>2. <<k, cache[k].id>> \in Keys \X Ids /\ cache[k].age \in 0 .. Ttl
    BY <2>1 DEF Row
  <2>3. trust[<<k, cache[k].id>>] <= cache[k].age
    BY <2>1 DEF ReferencesInv, RowsTrusted, RowTrusted
  <2>4. trust[<<k, cache[k].id>>] \in 0 .. Ttl
    BY <1>4, <2>2
  <2>5. \A b \in Keys \X Ids :
          trust'[b] \in {0, IF trust[b] + 1 > Ttl THEN Ttl ELSE trust[b] + 1}
    BY <1>5
  <2> QED
    BY <1>2, <2>1, <2>2, <2>3, <2>4, <2>5
<1>16. TasksTrusted'
  BY <1>1 DEF TasksTrusted, TaskTrusted
<1> QED
  BY <1>11, <1>12, <1>13, <1>14, <1>15, <1>16, TypesKept DEF ReferencesInv

LEMMA NextKeeps == ASSUME ReferencesInv, [Next]_vars PROVE ReferencesInv'
<1>1. ASSUME UNCHANGED vars PROVE ReferencesInv'
  <2> USE <1>1 DEF vars, store, history, ReferencesInv
  <2>1. TypeOK'
    BY DEF TypeOK
  <2>2. MadeOnce' /\ HeldNow'
    BY DEF MadeOnce, Remembered, MadeIsThere, NoTwins, HeldNow, Holds, Active
  <2>3. RowsTrusted'
    BY DEF RowsTrusted, RowTrusted
  <2>4. TasksTrusted'
    BY DEF TasksTrusted, TaskTrusted, MadeFor, Answered, Requested
  <2> QED
    BY <2>1, <2>2, <2>3, <2>4
<1>2. ASSUME NEW w \in Workers,
             \/ Query(w) \/ Fuzzy(w) \/ Use(w) \/ Abandon(w)
             \/ \E n \in Names : \/ Resolve(w, n) \/ \E v \in Ids : Link(w, n, v)
                                 \/ \E o \in Names : Create(w, n, o)
      PROVE  ReferencesInv'
  <2>1. ASSUME Use(w) \/ Abandon(w) PROVE ReferencesInv'
    BY <2>1, IdleKeeps DEF Use, Abandon
  <2> QED
    BY <1>2, <2>1, QueryKeeps, FuzzyKeeps, ResolveKeeps, LinkKeeps, CreateKeeps
<1>3. ASSUME NEW w \in Workers,
             WriteCache(w) \/ WriteLink(w) \/ PostVendor(w) \/ CacheCreated(w) \/ CacheAlias(w)
      PROVE  ReferencesInv'
  BY <1>3, WriteCacheKeeps, WriteLinkKeeps, PostVendorKeeps, CacheCreatedKeeps, CacheAliasKeeps
<1>4. ASSUME NEW v \in Ids,
             Webhook(v) \/ LoseWebhook(v) \/ \E n \in Names \cup {Inactive} : Edit(v, n)
      PROVE  ReferencesInv'
  BY <1>4, WebhookKeeps, EditKeeps
<1>5. CASE Tick
  BY <1>5, TickKeeps
<1>6. ASSUME NEW q \in RequestIds, Forget(q) PROVE ReferencesInv'
  BY <1>6, ForgetKeeps
<1> QED
  BY <1>1, <1>2, <1>3, <1>4, <1>5, <1>6 DEF Next

\* The inductive invariant.
THEOREM ReferencesInvariant == Spec => []ReferencesInv
<1>1. Init => ReferencesInv
  BY InitEstablishes
<1>2. ReferencesInv /\ [Next]_vars => ReferencesInv'
  BY NextKeeps
<1> QED
  BY <1>1, <1>2, PTL DEF Spec

\* Every variable keeps its type, and a task that writes or uses an id has one.
THEOREM TypeCorrect == Spec => []TypeOK
<1>1. ReferencesInv => TypeOK
  BY DEF ReferencesInv
<1> QED
  BY <1>1, ReferencesInvariant, PTL

\* However many workers resolve while entities are edited and webhooks are lost or late, a
\* reference that is used and is not a fuzzy match was right less than Ttl ago.
THEOREM ReferencesAreFresh == Spec => []FreshEnough
<1>1. ReferencesInv => FreshEnough
  BY DEF ReferencesInv, TasksTrusted, TaskTrusted, FreshEnough
<1> QED
  BY <1>1, ReferencesInvariant, PTL

\* However many approvers create a vendor at once, again, or under spellings of one key,
\* two are made only on either side of a retention of their request id, and under one
\* display name only if one of them was changed since.
THEOREM VendorsAreMadeOnce == Spec => []VendorMadeOnce
<1>1. ReferencesInv => VendorMadeOnce
  BY DEF ReferencesInv, MadeOnce, Remembered, NoTwins, VendorMadeOnce
<1> QED
  BY <1>1, ReferencesInvariant, PTL

-----------------------------------------------------------------------------
(* Reading: the gate *)

\* Two models agree on the number and, to the minor unit, on the money.
SameMoney(a, b) ==
  /\ a.number = b.number /\ a.currency = b.currency
  /\ Parses(a.total, a.currency) /\ Parses(b.total, b.currency)
  /\ Minor(a.total, a.currency) = Minor(b.total, b.currency)

\* No confidence of an extraction is below the threshold, or none is there.
Sure(e) ==
  /\ AutoPost > 0 => Confidences(e) # {}
  /\ \A c \in Confidences(e) : c >= AutoPost

\* What the gate has let through, and what has been read.
GateOK ==
  /\ primary \in Extractions \cup {Absent} /\ secondary \in Extractions \cup {Absent}
  /\ status = "extracting" => target = Absent
  /\ target = "pending_approval" =>
       /\ \A e \in Consulted : Sure(e)
       /\ \A a, b \in Consulted : SameMoney(a, b)

\* A set of natural numbers that is not empty has a least one.
LEMMA LeastNatural ==
  ASSUME NEW S \in SUBSET Nat, S # {}
  PROVE  Min(S) \in S /\ \A y \in S : Min(S) <= y
<1> DEFINE Less == {p \in Nat \X Nat : p[1] < p[2]}
<1>1. IsWellFoundedOn(Less, Nat)
  BY NatLessThanWellFounded DEF OpToRel
<1> HIDE DEF Less
<1>2. PICK x \in S : \A y \in S : ~ (<<y, x>> \in Less)
  BY <1>1, WFMin
<1>3. \A y, z \in Nat : y < z => <<y, z>> \in Less
  BY DEF Less
<1>4. \A y \in S : x <= y
  <2> SUFFICES ASSUME NEW y \in S, y < x PROVE FALSE
    OBVIOUS
  <2> QED
    BY <1>2, <1>3
<1> QED
  BY <1>4 DEF Min

\* A line has an amount and a confidence.
LEMMA LinesOfExtraction ==
  ASSUME NEW e \in Extractions
  PROVE  /\ DOMAIN e.lines = 1 .. Len(e.lines) /\ Len(e.lines) \in Nat
         /\ \A n \in DOMAIN e.lines :
              /\ e.lines[n].confidence \in Nat
              /\ e.lines[n].amount.digits \in Int /\ e.lines[n].amount.places \in Nat
<1> DEFINE Line == [amount : [digits : Int, places : Nat], confidence : Nat]
<1>1. e.lines \in Seq(Line)
  BY ReadingConstants
<1>2. \A l \in Line : l.confidence \in Nat /\ l.amount.digits \in Int /\ l.amount.places \in Nat
  OBVIOUS
<1> HIDE DEF Line
<1>3. DOMAIN e.lines = 1 .. Len(e.lines) /\ Len(e.lines) \in Nat
      /\ \A n \in DOMAIN e.lines : e.lines[n] \in Line
  BY <1>1
<1> QED
  BY <1>2, <1>3

\* Confidences are natural numbers, and so is what they come to.
LEMMA OverallLeast ==
  ASSUME NEW e \in Extractions
  PROVE  /\ Confidences(e) \subseteq Nat /\ Overall(e) \in Nat
         /\ \A c \in Confidences(e) : Overall(e) <= c
<1>1. Confidences(e) \subseteq Nat
  BY ReadingConstants, LinesOfExtraction DEF Confidences
<1>2. CASE Confidences(e) = {}
  BY <1>2 DEF Overall
<1>3. CASE Confidences(e) # {}
  BY <1>1, <1>3, LeastNatural DEF Overall
<1> QED
  BY <1>1, <1>2, <1>3

\* An overall confidence above the threshold is no accident.
LEMMA OverallSure ==
  ASSUME NEW e \in Extractions, Overall(e) >= AutoPost PROVE Sure(e)
<1>1. CASE Confidences(e) = {}
  BY <1>1, ReadingConstants DEF Overall, Sure
<1>2. CASE Confidences(e) # {}
  BY <1>2, OverallLeast, ReadingConstants DEF Sure
<1> QED
  BY <1>1, <1>2

\* Two amounts of which one parses have one canonical form only if both parse, to the same.
LEMMA CanonicalMoney ==
  ASSUME NEW c \in DOMAIN Exponent, NEW d, NEW f, Parses(d, c), Canonical(d, c) = Canonical(f, c)
  PROVE  Parses(f, c) /\ Minor(d, c) = Minor(f, c)
<1>1. Exponent[c] \in Nat
  BY DEF Exponent
<1>2. Canonical(d, c) = [digits |-> Minor(d, c), places |-> 0]
  BY DEF Canonical
<1>3. Parses(f, c)
  <2> SUFFICES ASSUME ~Parses(f, c) PROVE FALSE
    OBVIOUS
  <2>1. f = [digits |-> Minor(d, c), places |-> 0]
    BY <1>2 DEF Canonical
  <2>2. f.places = 0
    BY <2>1
  <2> QED
    BY <1>1, <2>2 DEF Parses
<1>4. [digits |-> Minor(d, c), places |-> 0] = [digits |-> Minor(f, c), places |-> 0]
  BY <1>2, <1>3 DEF Canonical
<1>5. [digits |-> Minor(d, c), places |-> 0].digits = [digits |-> Minor(f, c), places |-> 0].digits
  BY <1>4
<1> QED
  BY <1>3, <1>5

\* Without a blocking finding, nothing was read in doubt.
LEMMA CleanIsSure ==
  ASSUME primary \in Extractions, secondary \in Extractions \cup {Absent},
         Parses(primary.total, primary.currency), Mismatch = {}, LowConfidence = {}
  PROVE  /\ \A e \in Consulted : Sure(e)
         /\ \A a, b \in Consulted : SameMoney(a, b)
<1>1. AutoPost \in Nat /\ Absent \notin Extractions /\ primary.currency \in DOMAIN Exponent
  BY ReadingConstants
<1>2. ~ (Combined < AutoPost)
  BY DEF LowConfidence
<1>3. CASE secondary = Absent
  <2>1. Consulted = {primary}
    BY <1>1, <1>3 DEF Consulted
  <2>2. Overall(primary) >= AutoPost
    BY <1>1, <1>2, <1>3, OverallLeast DEF Combined
  <2> QED
    BY <2>1, <2>2, OverallSure DEF SameMoney
<1>4. CASE secondary # Absent
  <2>1. secondary \in Extractions /\ Consulted = {primary, secondary}
    BY <1>1, <1>4 DEF Consulted
  <2>2. Agree(primary, secondary)
    BY <1>4 DEF Mismatch
  <2>3. Overall(primary) \in Nat /\ Overall(secondary) \in Nat
    BY <2>1, OverallLeast
  <2>4. Min({Overall(primary), Overall(secondary)}) <= Overall(primary)
        /\ Min({Overall(primary), Overall(secondary)}) <= Overall(secondary)
        /\ Min({Overall(primary), Overall(secondary)}) \in Nat
    BY <2>3, LeastNatural
  <2>5. Combined = Min({Overall(primary), Overall(secondary)})
    BY <1>4 DEF Combined
  <2>6. Overall(primary) >= AutoPost /\ Overall(secondary) >= AutoPost
    BY <1>1, <1>2, <2>3, <2>4, <2>5
  <2>7. Sure(primary) /\ Sure(secondary)
    BY <2>1, <2>6, OverallSure
  <2>8. /\ primary.number = secondary.number /\ primary.currency = secondary.currency
        /\ Canonical(primary.total, primary.currency) = Canonical(secondary.total, primary.currency)
    BY <2>2 DEF Agree
  <2>9. Parses(secondary.total, primary.currency)
        /\ Minor(primary.total, primary.currency) = Minor(secondary.total, primary.currency)
    BY <1>1, <2>8, CanonicalMoney
  <2> QED
    BY <2>1, <2>7, <2>8, <2>9 DEF SameMoney
<1> QED
  BY <1>3, <1>4

-----------------------------------------------------------------------------
(* Reading: the path of the invoice *)

\* The row's total is what was read, within the limit of whoever approved it, and what was
\* sent was computed from the same reading.
PathOK ==
  /\ status \in {"pending_approval", "needs_review", "approved", "posted"} =>
       total = Minor(primary.total, primary.currency)
  /\ status \in {"approved", "posted"} /\ limit # Absent => total <= limit
  /\ status = "posted" => payload = Payload(primary) /\ Maps(primary)

ReadingInv == GateOK /\ PathOK

\* What follows the gate leaves it alone.
LEMMA GateKept ==
  ASSUME GateOK, UNCHANGED <<primary, secondary, target>>, status' # "extracting"
  PROVE  GateOK'
BY DEF GateOK, Consulted

\* The gate judges what was read, and the row is saved with its total or not at all.
LEMMA SaveKeeps == ASSUME ReadingInv, Save PROVE ReadingInv'
<1>1. /\ status = "extracting" /\ target = Absent /\ primary \in Extractions
      /\ secondary \in Extractions \cup {Absent} /\ Absent # "pending_approval"
      /\ UNCHANGED <<primary, secondary, reasoned, limit, payload>>
  BY ReadingConstants DEF Save, ReadingInv, GateOK, InvoiceStatuses
<1>2. CASE status' = "failed" /\ UNCHANGED <<total, findings, target>>
  BY <1>1, <1>2 DEF ReadingInv, GateOK, PathOK
<1>3. ASSUME NEW twin \in SUBSET {"DUPLICATE_INVOICE"},
             Parses(primary.total, primary.currency),
             target' = IF Mismatch \cup LowConfidence \cup twin = {}
                         THEN "pending_approval" ELSE "needs_review",
             \/ status' = target' /\ total' = Minor(primary.total, primary.currency)
             \/ status' = "failed" /\ UNCHANGED <<total, findings>>
      PROVE  ReadingInv'
  <2>1. ASSUME target' = "pending_approval"
        PROVE  /\ \A e \in Consulted : Sure(e)
               /\ \A a, b \in Consulted : SameMoney(a, b)
    BY <1>1, <1>3, <2>1, CleanIsSure
  <2>2. Consulted' = Consulted /\ status' \in {"pending_approval", "needs_review", "failed"}
    BY <1>1, <1>3 DEF Consulted
  <2>3. GateOK'
    BY <1>1, <2>1, <2>2 DEF GateOK
  <2>4. PathOK'
    BY <1>1, <1>3, <2>2 DEF PathOK
  <2> QED
    BY <2>3, <2>4 DEF ReadingInv
<1> QED
  BY <1>1, <1>2, <1>3 DEF Save

LEMMA ReadingKeeps == ASSUME ReadingInv, [ReadingNext]_readingVars PROVE ReadingInv'
<1>1. CASE UNCHANGED readingVars
  BY <1>1 DEF readingVars, ReadingInv, GateOK, PathOK, Consulted
<1>2. CASE ReadPrimary \/ ReadSecondary
  <2>1. status = "extracting" /\ target = Absent /\ UNCHANGED <<status, target, total, limit, payload>>
    BY <1>2 DEF ReadPrimary, ReadSecondary, ReadingInv, GateOK
  <2>2. Absent # "pending_approval"
    BY ReadingConstants DEF InvoiceStatuses
  <2> QED
    BY <1>2, <2>1, <2>2 DEF ReadPrimary, ReadSecondary, ReadingInv, GateOK, PathOK
<1>3. CASE Save
  BY <1>3, SaveKeeps
<1>4. CASE Approve
  <2>1. GateOK'
    BY <1>4, GateKept DEF Approve, ReadingInv
  <2>2. PathOK'
    BY <1>4 DEF Approve, ReadingInv, PathOK
  <2> QED
    BY <2>1, <2>2 DEF ReadingInv
<1>5. CASE Reject \/ Park
  <2>1. GateOK'
    BY <1>5, GateKept DEF Reject, Park, ReadingInv
  <2>2. PathOK'
    BY <1>5 DEF Reject, Park, PathOK
  <2> QED
    BY <2>1, <2>2 DEF ReadingInv
<1>6. CASE Post
  <2>1. GateOK'
    BY <1>6, GateKept DEF Post, ReadingInv
  <2>2. PathOK'
    BY <1>6 DEF Post, ReadingInv, PathOK
  <2> QED
    BY <2>1, <2>2 DEF ReadingInv
<1> QED
  BY <1>1, <1>2, <1>3, <1>4, <1>5, <1>6 DEF ReadingNext

\* The inductive invariant.
THEOREM ReadingInvariant == ReadingSpec => []ReadingInv
<1>1. ReadingInit => ReadingInv
  <2> SUFFICES ASSUME ReadingInit PROVE ReadingInv
    OBVIOUS
  <2>1. Absent # "pending_approval"
    BY ReadingConstants DEF InvoiceStatuses
  <2> QED
    BY <2>1 DEF ReadingInit, ReadingInv, GateOK, PathOK
<1>2. ReadingInv /\ [ReadingNext]_readingVars => ReadingInv'
  BY ReadingKeeps
<1> QED
  BY <1>1, <1>2, PTL DEF ReadingSpec

\* Whatever the models answer, and whatever the thresholds are, what goes to the approval
\* queue without a finding was read without doubt.
THEOREM CleanIsUndoubted == ReadingSpec => []CleanIsTrustworthy
<1>1. ReadingInv => CleanIsTrustworthy
  BY DEF ReadingInv, GateOK, CleanIsTrustworthy, Sure, SameMoney
<1> QED
  BY <1>1, ReadingInvariant, PTL

\* Whatever is read, the bill that is sent comes to the total that was approved, or to it
\* less the tax, and that is positive and within the approver's limit.
THEOREM BillIsAsApproved == ReadingSpec => []SentAsApproved
<1>1. ASSUME ReadingInv, status = "posted"
      PROVE  LET sent == Total([n \in DOMAIN payload |-> payload[n].digits]) IN
               /\ total > 0 /\ (limit # Absent => total <= limit)
               /\ \/ sent = total
                  \/ TaxParses(primary) /\ sent + Minor(primary.tax, primary.currency) = total
               /\ \A n \in DOMAIN payload : payload[n].places = Exponent[primary.currency]
  <2> DEFINE e == primary
             sent == Total([n \in DOMAIN payload |-> payload[n].digits])
  <2>1. total = Minor(e.total, e.currency) /\ Maps(e) /\ (limit # Absent => total <= limit)
    BY <1>1 DEF ReadingInv, PathOK
  <2>2. payload = [n \in DOMAIN e.lines |-> Amount(LineMinors(e)[n], e.currency)]
    BY <1>1 DEF ReadingInv, PathOK, Payload
  <2>3. DOMAIN payload = DOMAIN e.lines
        /\ \A n \in DOMAIN e.lines : /\ payload[n].digits = LineMinors(e)[n]
                                     /\ payload[n].places = Exponent[e.currency]
    BY <2>2 DEF Amount
  <2>4. LineMinors(e) = [n \in DOMAIN e.lines |-> LineMinors(e)[n]]
    BY DEF LineMinors
  <2>5. [n \in DOMAIN payload |-> payload[n].digits] = LineMinors(e)
    BY <2>3, <2>4
  <2>6. sent = Total(LineMinors(e))
    BY <2>5
  <2>7. total > 0
    BY <2>1 DEF Maps
  <2>8. \/ sent = total
        \/ TaxParses(e) /\ sent + Minor(e.tax, e.currency) = total
    BY <2>1, <2>6 DEF Maps, AddsUp, NetOfTax
  <2> QED
    BY <2>1, <2>3, <2>7, <2>8
<1>2. ReadingInv => SentAsApproved
  BY <1>1 DEF SentAsApproved
<1> QED
  BY <1>2, ReadingInvariant, PTL

-----------------------------------------------------------------------------
(* Reading: the sums of a bill *)

\* A set of numbers up to k that is not empty has a greatest one.
LEMMA GreatestNumber ==
  ASSUME NEW k \in Nat, NEW S \in SUBSET (1 .. k), S # {}
  PROVE  Max(S) \in S /\ \A y \in S : Max(S) >= y
<1> DEFINE Bounds == {b \in Nat : \A y \in S : y <= b}
<1>1. Bounds \in SUBSET Nat /\ k \in Bounds
  OBVIOUS
<1>2. PICK b : b = Min(Bounds)
  OBVIOUS
<1>3. b \in Bounds /\ \A a \in Bounds : b <= a
  BY <1>1, <1>2, LeastNatural
<1>4. b \in S
  <2> SUFFICES ASSUME b \notin S PROVE FALSE
    OBVIOUS
  <2>1. PICK y \in S : TRUE
    OBVIOUS
  <2>2. y \in 1 .. k /\ y <= b /\ y # b
    BY <1>3, <2>1
  <2>3. b - 1 \in Bounds
    BY <1>3, <2>2
  <2> QED
    BY <1>3, <2>3
<1>5. \A y \in S : b >= y
  BY <1>3
<1> HIDE DEF Bounds
<1> QED
  BY <1>4, <1>5 DEF Max

\* Without its greatest number, a set of numbers is one of smaller numbers.
LEMMA WithoutGreatest ==
  ASSUME NEW k \in Nat, NEW t \in SUBSET (1 .. k + 1), t # {}
  PROVE  Max(t) \in t /\ t \ {Max(t)} \in SUBSET (1 .. k)
<1>1. k + 1 \in Nat
  OBVIOUS
<1>2. Max(t) \in t /\ \A y \in t : Max(t) >= y
  BY <1>1, GreatestNumber
<1>3. ASSUME NEW y \in t, y # Max(t) PROVE y \in 1 .. k
  <2>1. Max(t) \in 1 .. k + 1 /\ y \in 1 .. k + 1 /\ Max(t) >= y
    BY <1>2
  <2> QED
    BY <1>3, <2>1
<1> QED
  BY <1>2, <1>3

\* The sums of s over sets of numbers are f.
Sums(n, s, f) ==
  f = [t \in SUBSET (1 .. n) |-> IF t = {} THEN 0 ELSE f[t \ {Max(t)}] + s[Max(t)]]

\* There are such sums: for no number they would be the first that are missing.
LEMMA SumsExist ==
  ASSUME NEW n \in Nat, NEW s
  PROVE  \E f : Sums(n, s, f)
<1> DEFINE Missing == {k \in Nat : ~ \E f : Sums(k, s, f)}
<1>1. \E f : Sums(0, s, f)
  <2> DEFINE f == [t \in SUBSET (1 .. 0) |-> 0]
  <2>1. \A t \in SUBSET (1 .. 0) : t = {}
    OBVIOUS
  <2>2. Sums(0, s, f)
    BY <2>1 DEF Sums
  <2> QED
    BY <2>2
<1>2. ASSUME NEW k \in Nat, NEW f, Sums(k, s, f)
      PROVE  \E g : Sums(k + 1, s, g)
  <2> DEFINE g == [t \in SUBSET (1 .. k + 1) |-> IF t = {} THEN 0 ELSE f[t \ {Max(t)}] + s[Max(t)]]
  <2>1. \A t \in SUBSET (1 .. k) : f[t] = IF t = {} THEN 0 ELSE f[t \ {Max(t)}] + s[Max(t)]
    BY <1>2, Zenon DEF Sums
  <2>2. \A t \in SUBSET (1 .. k) : t \in SUBSET (1 .. k + 1)
    OBVIOUS
  <2>3. \A t \in SUBSET (1 .. k) : g[t] = f[t]
    BY <2>1, <2>2, Zenon
  <2>4. \A t \in SUBSET (1 .. k + 1) : t # {} => g[t \ {Max(t)}] = f[t \ {Max(t)}]
    BY <2>3, WithoutGreatest, Zenon
  <2>5. \A t \in SUBSET (1 .. k + 1) :
          (IF t = {} THEN 0 ELSE f[t \ {Max(t)}] + s[Max(t)])
            = (IF t = {} THEN 0 ELSE g[t \ {Max(t)}] + s[Max(t)])
    BY <2>4, Zenon
  <2>6. g = [t \in SUBSET (1 .. k + 1) |-> IF t = {} THEN 0 ELSE g[t \ {Max(t)}] + s[Max(t)]]
    <3> HIDE DEF g
    <3>1. g = [t \in SUBSET (1 .. k + 1) |-> IF t = {} THEN 0 ELSE f[t \ {Max(t)}] + s[Max(t)]]
      BY Zenon DEF g
    <3> QED
      BY <2>5, <3>1, Zenon
  <2> QED
    BY <2>6, Zenon DEF Sums
<1>3. Missing = {}
  <2> SUFFICES ASSUME Missing # {} PROVE FALSE
    OBVIOUS
  <2>1. PICK k : k = Min(Missing)
    OBVIOUS
  <2>2. k \in Missing /\ \A j \in Missing : k <= j
    <3>1. Missing \in SUBSET Nat
      OBVIOUS
    <3> HIDE DEF Missing
    <3> QED
      BY <2>1, <3>1, LeastNatural
  <2>3. k # 0
    BY <1>1, <2>2
  <2>4. k - 1 \in Nat /\ k - 1 \notin Missing /\ (k - 1) + 1 = k
    BY <2>2, <2>3
  <2>5. \E f : Sums(k - 1, s, f)
    BY <2>4
  <2>6. \E f : Sums((k - 1) + 1, s, f)
    BY <1>2, <2>4, <2>5
  <2> QED
    BY <2>2, <2>4, <2>6
<1> QED
  BY <1>3

\* A set of numbers from one to n, with its greatest taken away.
LEMMA FirstNumbers ==
  ASSUME NEW k \in Nat
  PROVE  Max(1 .. k + 1) = k + 1 /\ (1 .. k + 1) \ {k + 1} = 1 .. k /\ 1 .. k + 1 # {}
<1>1. 1 .. k + 1 # {} /\ k + 1 \in 1 .. k + 1 /\ k + 1 \in Nat /\ (1 .. k + 1) \ {k + 1} = 1 .. k
  OBVIOUS
<1>2. PICK m : m = Max(1 .. k + 1)
  OBVIOUS
<1>3. m \in 1 .. k + 1 /\ m >= k + 1
  BY <1>1, <1>2, GreatestNumber
<1> QED
  BY <1>1, <1>2, <1>3

\* The total of a sequence is its sum over all positions.
LEMMA TotalIsSum ==
  ASSUME NEW n \in Nat, NEW s, DOMAIN s = 1 .. n
  PROVE  \E f : Sums(n, s, f) /\ Total(s) = f[1 .. n]
<1> DEFINE f == CHOOSE f : Sums(n, s, f)
<1>1. Sums(n, s, f)
  BY SumsExist
<1>2. Total(s) = (CHOOSE g : g = [t \in SUBSET DOMAIN s |->
                               IF t = {} THEN 0 ELSE g[t \ {Max(t)}] + s[Max(t)]])[DOMAIN s]
  BY Zenon DEF Total, FoldLeft, MapThenFoldSet
<1>3. Total(s) = f[1 .. n]
  BY <1>2, Zenon DEF Sums
<1> QED
  BY <1>1, <1>3

\* What sums come to with one amount more, and the sums that the second check may come to,
\* over sets of positions.
Joined(S, d, c) == {x + Minor([digits |-> h, places |-> 2], c) : x \in S, h \in Hundredths(d)}
Checks(n, p, c, g) ==
  g = [t \in SUBSET (1 .. n) |->
         IF t = {} THEN {0} ELSE Joined(g[t \ {Max(t)}], p[Max(t)], c)]

\* An amount rounds to one number of hundredths, and that is the minor units m.
Whole(d, c, m) ==
  \E h : Hundredths(d) = {h} /\ Minor([digits |-> h, places |-> 2], c) = m

\* Amounts of which each is one number of hundredths add up to nothing but their total.
LEMMA SumsAgree ==
  ASSUME NEW n \in Nat, NEW s, DOMAIN s = 1 .. n, NEW p, DOMAIN p = 1 .. n, NEW c,
         \A i \in 1 .. n : Whole(p[i], c, s[i])
  PROVE  Rechecked(p, c) = {Total(s)}
<1>1. PICK f : Sums(n, s, f) /\ Total(s) = f[1 .. n]
  BY TotalIsSum
<1>2. ASSUME NEW x, NEW i \in 1 .. n PROVE Joined({x}, p[i], c) = {x + s[i]}
  <2>1. PICK h : Hundredths(p[i]) = {h} /\ Minor([digits |-> h, places |-> 2], c) = s[i]
    BY DEF Whole
  <2> QED
    BY <2>1 DEF Joined
<1>3. \A t \in SUBSET (1 .. n) : t # {} =>
        /\ Max(t) \in 1 .. n /\ t \ {Max(t)} \in SUBSET (1 .. n)
        /\ f[t] = f[t \ {Max(t)}] + s[Max(t)]
  <2>1. \A t \in SUBSET (1 .. n) : t # {} => Max(t) \in t
    BY GreatestNumber
  <2>2. \A t \in SUBSET (1 .. n) : f[t] = IF t = {} THEN 0 ELSE f[t \ {Max(t)}] + s[Max(t)]
    BY <1>1, Zenon DEF Sums
  <2> QED
    BY <2>1, <2>2
<1>4. f[{}] = 0
  BY <1>1, Zenon DEF Sums
<1>5. \E g : Checks(n, p, c, g)
  <2> DEFINE g == [t \in SUBSET (1 .. n) |-> {f[t]}]
  <2>1. \A t \in SUBSET (1 .. n) :
          g[t] = IF t = {} THEN {0} ELSE Joined(g[t \ {Max(t)}], p[Max(t)], c)
    <3> SUFFICES ASSUME NEW t \in SUBSET (1 .. n)
                 PROVE  g[t] = IF t = {} THEN {0} ELSE Joined(g[t \ {Max(t)}], p[Max(t)], c)
      OBVIOUS
    <3>1. CASE t = {}
      BY <1>4, <3>1, Zenon
    <3>2. CASE t # {}
      <4>1. g[t \ {Max(t)}] = {f[t \ {Max(t)}]}
        BY <1>3, <3>2
      <4>2. Joined({f[t \ {Max(t)}]}, p[Max(t)], c) = {f[t]}
        <5>1. /\ Joined({f[t \ {Max(t)}]}, p[Max(t)], c) = {f[t \ {Max(t)}] + s[Max(t)]}
              /\ f[t] = f[t \ {Max(t)}] + s[Max(t)]
          BY <1>2, <1>3, <3>2
        <5> QED
          BY <5>1
      <4>3. g[t] = {f[t]}
        OBVIOUS
      <4> HIDE DEF g
      <4> QED
        BY <3>2, <4>1, <4>2, <4>3
    <3> QED
      BY <3>1, <3>2
  <2>2. g = [t \in SUBSET (1 .. n) |-> g[t]]
    OBVIOUS
  <2>3. g = [t \in SUBSET (1 .. n) |-> IF t = {} THEN {0} ELSE Joined(g[t \ {Max(t)}], p[Max(t)], c)]
    <3> HIDE DEF g
    <3> QED
      BY <2>1, <2>2, Zenon
  <2> QED
    BY <2>3, Zenon DEF Checks
<1> DEFINE F == CHOOSE g : Checks(n, p, c, g)
<1>6. Checks(n, p, c, F)
  BY <1>5
<1>7. Rechecked(p, c) = F[1 .. n]
  <2>1. Rechecked(p, c) = (CHOOSE g : g = [t \in SUBSET DOMAIN p |->
                             IF t = {} THEN {0} ELSE Joined(g[t \ {Max(t)}], p[Max(t)], c)])[DOMAIN p]
    BY SMT DEF Rechecked, FoldLeft, MapThenFoldSet, Joined
  <2> QED
    BY <2>1, Zenon DEF Checks
<1> HIDE DEF F
<1>8. \A t \in SUBSET (1 .. n) : F[t] = IF t = {} THEN {0} ELSE Joined(F[t \ {Max(t)}], p[Max(t)], c)
  BY <1>6, Zenon DEF Checks
<1> DEFINE Apart == {k \in Nat : k <= n /\ F[1 .. k] # {f[1 .. k]}}
<1>9. Apart = {}
  <2> SUFFICES ASSUME Apart # {} PROVE FALSE
    OBVIOUS
  <2>1. PICK k : k = Min(Apart)
    OBVIOUS
  <2>2. k \in Apart /\ \A j \in Apart : k <= j
    <3>1. Apart \in SUBSET Nat
      OBVIOUS
    <3> HIDE DEF Apart
    <3> QED
      BY <2>1, <3>1, LeastNatural
  <2>3. k # 0
    <3>1. 1 .. 0 = {} /\ {} \in SUBSET (1 .. n)
      OBVIOUS
    <3>2. F[1 .. 0] = {f[1 .. 0]}
      BY <1>4, <1>8, <3>1, Zenon
    <3> QED
      BY <2>2, <3>2
  <2>4. k \in Nat /\ k <= n /\ k - 1 \in Nat /\ k - 1 \notin Apart /\ (k - 1) + 1 = k /\ k \in 1 .. n
    BY <2>2, <2>3
  <2>5. F[1 .. k - 1] = {f[1 .. k - 1]}
    BY <2>4
  <2>6. Max(1 .. k) = k /\ (1 .. k) \ {k} = 1 .. k - 1 /\ 1 .. k # {} /\ 1 .. k \in SUBSET (1 .. n)
    <3>1. 1 .. k \in SUBSET (1 .. n)
      BY <2>4
    <3> QED
      BY <2>4, <3>1, FirstNumbers
  <2>7. F[1 .. k] = Joined(F[1 .. k - 1], p[k], c)
    BY <1>8, <2>6, Zenon
  <2>8. f[1 .. k] = f[1 .. k - 1] + s[k]
    BY <1>3, <2>6, Zenon
  <2>9. F[1 .. k] = {f[1 .. k]}
    BY <1>2, <2>4, <2>5, <2>7, <2>8
  <2> QED
    BY <2>2, <2>9
<1>10. F[1 .. n] = {f[1 .. n]}
  BY <1>9
<1> QED
  BY <1>1, <1>7, <1>10

\* An amount with no more than two decimals in use is one number of hundredths.
LEMMA OneHundredth ==
  ASSUME NEW c \in DOMAIN Exponent, Exponent[c] >= 2, NEW m \in Int,
         m % 10 ^ (Exponent[c] - 2) = 0
  PROVE  Whole(Amount(m, c), c, m)
<1>1. /\ 10 ^ 0 = 1 /\ 10 ^ 1 = 10 /\ 10 ^ 2 = 100
  OBVIOUS
<1>2. Exponent[c] \in {2, 3, 4}
  BY DEF Exponent
<1>3. Amount(m, c).digits = m /\ Amount(m, c).places = Exponent[c]
  BY DEF Amount
<1>4. CASE Exponent[c] = 2
  <2>1. Hundredths(Amount(m, c)) = {m}
    BY <1>1, <1>3, <1>4 DEF Hundredths
  <2>2. Minor([digits |-> m, places |-> 2], c) = m
    BY <1>1, <1>4 DEF Minor
  <2> QED
    BY <2>1, <2>2 DEF Whole
<1>5. ASSUME NEW k \in {10, 100}, 10 ^ (Exponent[c] - 2) = k, Exponent[c] > 2
      PROVE  Whole(Amount(m, c), c, m)
  <2> DEFINE f == m \div k
  <2>1. f \in Int /\ f * k = m /\ m % k = 0
    BY <1>5
  <2>2. 2 * Abs(f * k - m) <= k /\ ~ (2 * Abs((f + 1) * k - m) <= k)
    <3>1. (f + 1) * k - m = k
      BY <2>1
    <3> QED
      BY <2>1, <3>1 DEF Abs
  <2>3. {h \in {f, f + 1} : 2 * Abs(h * k - m) <= k} = {f}
    <3> HIDE DEF f
    <3> QED
      BY <2>2
  <2>4. ~ (Amount(m, c).places <= 2) /\ 10 ^ (Amount(m, c).places - 2) = k
    BY <1>2, <1>3, <1>5
  <2>5. Hundredths(Amount(m, c)) = {f}
    BY <1>3, <2>3, <2>4, Zenon DEF Hundredths
  <2>6. Minor([digits |-> f, places |-> 2], c) = m
    BY <1>5, <2>1 DEF Minor
  <2> QED
    BY <2>5, <2>6 DEF Whole
<1>6. CASE Exponent[c] = 3
  <2>1. 10 ^ (Exponent[c] - 2) = 10 /\ Exponent[c] > 2
    BY <1>1, <1>6
  <2> QED
    BY <1>5, <2>1
<1>7. CASE Exponent[c] = 4
  <2>1. 10 ^ (Exponent[c] - 2) = 100 /\ Exponent[c] > 2
    BY <1>1, <1>7
  <2> QED
    BY <1>5, <2>1
<1> QED
  BY <1>2, <1>4, <1>6, <1>7

\* The second check of sound lines comes to their total and nothing else.
LEMMA SoundIsExact ==
  ASSUME NEW e \in Extractions, AllParse(e), Exponent[e.currency] >= 2,
         \A n \in DOMAIN e.lines : LineMinors(e)[n] % 10 ^ (Exponent[e.currency] - 2) = 0
  PROVE  Rechecked(Payload(e), e.currency) = {Total(LineMinors(e))}
<1>1. e.currency \in DOMAIN Exponent
  BY ReadingConstants
<1>2. PICK n \in Nat : DOMAIN e.lines = 1 .. n
  BY LinesOfExtraction
<1>3. PICK s, p : s = LineMinors(e) /\ p = Payload(e)
  OBVIOUS
<1>4. /\ DOMAIN s = 1 .. n /\ DOMAIN p = 1 .. n
      /\ \A i \in 1 .. n : /\ s[i] = Minor(e.lines[i].amount, e.currency)
                           /\ p[i] = Amount(s[i], e.currency)
  BY <1>2, <1>3 DEF LineMinors, Payload
<1>5. ASSUME NEW i \in 1 .. n
      PROVE  Whole(p[i], e.currency, s[i])
  <2>1. PICK d : d = e.lines[i].amount
    OBVIOUS
  <2>2. d.digits \in Int /\ d.places \in Nat /\ d.places <= Exponent[e.currency]
    BY <1>2, <2>1, LinesOfExtraction DEF AllParse, Parses
  <2>3. PICK k \in Nat : k = Exponent[e.currency] - d.places
    <3>1. Exponent[e.currency] \in Nat
      BY <1>1 DEF Exponent
    <3> QED
      BY <2>2, <3>1
  <2>4. s[i] = d.digits * 10 ^ k
    BY <1>4, <2>1, <2>3 DEF Minor
  <2>5. s[i] \in Int
    <3>1. 10 ^ k \in Int
      BY <2>3
    <3> QED
      BY <2>2, <2>4, <3>1
  <2>6. s[i] % 10 ^ (Exponent[e.currency] - 2) = 0
    BY <1>2, <1>3
  <2> QED
    BY <1>1, <1>4, <2>5, <2>6, OneHundredth
<1>6. Rechecked(p, e.currency) = {Total(s)}
  BY <1>4, <1>5, SumsAgree
<1> QED
  BY <1>3, <1>6

-----------------------------------------------------------------------------
(* Reading: what is parked *)

\* A row has a total once it is saved; one that is parked with a total was refused by a check.
ParkOK ==
  /\ status = "extracting" => total = Absent
  /\ status # "extracting" => primary \in Extractions
  /\ status = "failed" /\ total # Absent =>
       /\ total = Minor(primary.total, primary.currency)
       /\ Maps(primary) =>
            \/ RecheckFails(primary)
            \/ \E n \in DOMAIN primary.lines : ~Exact(Payload(primary)[n])

LEMMA ParkKeeps ==
  ASSUME ReadingInv, ParkOK, [ReadingNext]_readingVars
  PROVE  ParkOK'
<1>1. CASE UNCHANGED readingVars
  BY <1>1 DEF readingVars, ParkOK
<1>2. CASE ReadPrimary \/ ReadSecondary
  BY <1>2 DEF ReadPrimary, ReadSecondary, ParkOK
<1>3. CASE Save
  <2>1. /\ status = "extracting" /\ primary \in Extractions /\ primary' = primary /\ total = Absent
        /\ \/ status' = "failed" /\ total' = total
           \/ status' \in {"pending_approval", "needs_review"}
    BY <1>3 DEF Save, ParkOK, ReadingInv, GateOK
  <2> QED
    BY <2>1 DEF ParkOK
<1>4. CASE Approve \/ Reject \/ Post
  BY <1>4 DEF Approve, Reject, Post, ParkOK
<1>5. CASE Park
  <2>1. total = Minor(primary.total, primary.currency)
    BY <1>5 DEF Park, ReadingInv, PathOK
  <2> QED
    BY <1>5, <2>1 DEF Park, ParkOK
<1> QED
  BY <1>1, <1>2, <1>3, <1>4, <1>5 DEF ReadingNext

\* However the lines round and in whatever currency of two decimals or more, an invoice that
\* adds up and needs no more than two is refused by neither check (mapToBill, buildBill).
THEOREM SoundIsPosted == ReadingSpec => []SoundIsNotParked
<1>1. ReadingInit => ParkOK
  BY DEF ReadingInit, ParkOK
<1>2. ReadingInv /\ ParkOK /\ [ReadingNext]_readingVars => ParkOK'
  BY ParkKeeps
<1>3. ASSUME ParkOK, status = "failed", total # Absent,
             primary.lines # <<>>, AllParse(primary), AddsUp(primary) \/ NetOfTax(primary),
             total > 0, \A n \in DOMAIN primary.lines : Exact(Payload(primary)[n]),
             Exponent[primary.currency] >= 2,
             \A n \in DOMAIN primary.lines :
               LineMinors(primary)[n] % 10 ^ (Exponent[primary.currency] - 2) = 0
      PROVE  FALSE
  <2>1. primary \in Extractions /\ total = Minor(primary.total, primary.currency)
    BY <1>3 DEF ParkOK
  <2>2. Maps(primary)
    BY <1>3, <2>1, Zenon DEF Maps
  <2>3. RecheckFails(primary)
    BY <1>3, <2>2, Zenon DEF ParkOK
  <2>4. Rechecked(Payload(primary), primary.currency) = {Total(LineMinors(primary))}
    BY <1>3, <2>1, SoundIsExact
  <2> QED
    BY <1>3, <2>3, <2>4, Zenon DEF RecheckFails, AddsUp
<1>4. ParkOK => SoundIsNotParked
  BY <1>3, Zenon DEF SoundIsNotParked
<1> QED
  BY <1>1, <1>2, <1>4, ReadingInvariant, PTL DEF ReadingSpec
=============================================================================
