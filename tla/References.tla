----------------------------- MODULE References -----------------------------
(***************************************************************************)
(* The cache of QuickBooks references of one realm and type: the posting   *)
(* workers resolve names through it (packages/qbo/src/                     *)
(* reference-resolver.ts), approvers link and create vendors               *)
(* (api/src/routes/vendors.ts), people edit vendors in QuickBooks, and     *)
(* webhooks drop the rows of what changed (api/src/routes/webhooks.ts).    *)
(*                                                                         *)
(* Every request to QuickBooks and every statement is a step.  Time is     *)
(* counted in parts of the day a row is fresh for, which is long against   *)
(* the steps of a request.  QuickBooks remembers a request id for as long  *)
(* as it likes, but not less than a request takes.                         *)
(***************************************************************************)
EXTENDS Integers, FiniteSets

CONSTANTS
  Workers,   \* jobs and requests under way
  Ids,       \* ids QuickBooks gives out
  Names,     \* names, as spelt
  Key,       \* normaliseLookupKey: the key of a name
  Cut,       \* the request id of a key: of-v- and its first 40 characters
  Similar,   \* pairs of names whose similarity is above 0.55
  None,      \* no row, no entity yet
  Inactive,  \* an entity that was deactivated or merged
  Ttl,       \* staleAfterMs
  MaxEdits,  \* bound: edits made in QuickBooks
  MaxTasks,  \* bound: names resolved, linked and created
  MaxTime    \* bound: the end of time

Keys == {Key[n] : n \in Names}
RequestIds == {Cut[k] : k \in Keys}

ASSUME ReferencesConstants ==
  /\ {None, Inactive} \cap (Ids \cup Names) = {} /\ None # Inactive /\ Names # {}
  /\ Ttl \in Nat \ {0} /\ {MaxEdits, MaxTasks, MaxTime} \subseteq Nat

VARIABLES
  vendors,   \* QuickBooks: the name of an active entity
  requests,  \* QuickBooks: the entity it remembers for a request id
  made,      \* QuickBooks: the name an entity was created under by a request
  events,    \* ids with a webhook on its way
  cache,     \* PostgreSQL: qbo_reference_cache, by lookup key
  task,      \* worker: what it does, its next statement and what it knows
  time,
  edits,     \* edits so far
  tasks,     \* names resolved, linked and created so far
  linked,    \* history: keys a person bound to an entity
  trust,     \* history: time since QuickBooks or a person last had an id for a key
  replayed,  \* history: keys whose creation QuickBooks answered with an earlier one
  forgot,    \* history: request ids QuickBooks forgot
  edited     \* history: entities people changed in QuickBooks

store == <<vendors, requests, made, events, cache>>
history == <<linked, trust, replayed, forgot, edited>>
vars == <<store, task, time, edits, tasks, history>>

-----------------------------------------------------------------------------
(* Types and initial state *)

Labels == {"idle", "query", "write", "fuzzy", "found", "link", "post", "cache", "alias"}
Row == [id : Ids, name : Names, age : 0 .. Ttl]
Task == [at : Labels, name : Names, other : Names, id : Ids \cup {None},
         display : Names, match : {"none", "cache", "exact", "fuzzy"}]
Idle == [at |-> "idle", name |-> CHOOSE n \in Names : TRUE, other |-> CHOOSE n \in Names : TRUE,
         id |-> None, display |-> CHOOSE n \in Names : TRUE, match |-> "none"]

TypeOK ==
  /\ vendors \in [Ids -> Names \cup {None, Inactive}]
  /\ requests \in [RequestIds -> Ids \cup {None}]
  /\ made \in [Ids -> Names \cup {None}]
  /\ events \subseteq Ids
  /\ cache \in [Keys -> Row \cup {None}]
  /\ task \in [Workers -> Task]
  /\ \A w \in Workers : task[w].at \in {"write", "found", "link", "cache", "alias"} => task[w].id # None
  /\ time \in 0 .. MaxTime /\ edits \in 0 .. MaxEdits /\ tasks \in 0 .. MaxTasks
  /\ linked \subseteq Keys \X Ids
  /\ trust \in [Keys \X Ids -> 0 .. Ttl]
  /\ replayed \subseteq Keys /\ forgot \subseteq RequestIds /\ edited \subseteq Ids

\* A company with whatever entities it has; nothing is cached yet.
Init ==
  /\ vendors \in [Ids -> Names \cup {None}]
  /\ requests = [r \in RequestIds |-> None] /\ made = [v \in Ids |-> None]
  /\ events = {}
  /\ cache = [k \in Keys |-> None]
  /\ task = [w \in Workers |-> Idle]
  /\ time = 0 /\ edits = 0 /\ tasks = 0
  /\ linked = {} /\ replayed = {} /\ forgot = {} /\ edited = {}
  /\ trust = [b \in Keys \X Ids |->
                IF vendors[b[2]] # None /\ Key[vendors[b[2]]] = b[1] THEN 0 ELSE Ttl]

-----------------------------------------------------------------------------
(* Helpers *)

Become(w, changes) == task' = [task EXCEPT ![w] = changes]

Start(w, changes) ==
  /\ task[w].at = "idle" /\ tasks < MaxTasks
  /\ tasks' = tasks + 1
  /\ Become(w, changes)

\* INSERT ... ON CONFLICT DO UPDATE, with refreshed_at = now().
Upsert(k, v, n) == cache' = [cache EXCEPT ![k] = [id |-> v, name |-> n, age |-> 0]]

Active(v) == vendors[v] \in Names

\* SELECT ... WHERE DisplayName = '<n>': QuickBooks answers with the active entities of
\* that very spelling.
Named(n) == {v \in Ids : vendors[v] = n}

\* Mutant: a row stays fresh for ever.
FreshForEver(k) == cache[k] # None
Fresh(k) == cache[k] # None /\ cache[k].age < Ttl

\* Mutant: the POST carries no request id.
RequestedNever(n) == None

\* The request id of a name, and the entity QuickBooks remembers to have made for it.
RequestId(n) == Cut[Key[n]]
Requested(n) == requests[RequestId(n)]

\* The entity was created by a request for a name of this key.
MadeFor(v, k) == made[v] # None /\ Key[made[v]] = k

\* QuickBooks has the entity under a name of this key, or a person bound it to the key.
Holds(b) == Active(b[2]) /\ (Key[vendors[b[2]]] = b[1] \/ b \in linked)

\* Bring the history up to date with what QuickBooks and people now say.
Witness(by) ==
  trust' = [b \in Keys \X Ids |->
              IF Holds(b)' THEN 0 ELSE IF trust[b] + by > Ttl THEN Ttl ELSE trust[b] + by]

-----------------------------------------------------------------------------
(* resolve *)

\* The cache is read.
Resolve(w, n) ==
  /\ Start(w, IF Fresh(Key[n])
                THEN [Idle EXCEPT !.at = "found", !.name = n, !.id = cache[Key[n]].id, !.match = "cache"]
                ELSE [Idle EXCEPT !.at = "query", !.name = n])
  /\ UNCHANGED <<store, time, edits, history>>

\* Mutant: the first match is taken without a look at their number.
QueryFirst(w) ==
  LET rows == Named(task[w].name) IN
    /\ task[w].at = "query"
    /\ Become(w, [task[w] EXCEPT !.at = "write", !.display = task[w].name,
                                 !.id = IF rows = {} THEN None ELSE CHOOSE v \in rows : TRUE])
    /\ UNCHANGED <<store, time, edits, tasks, history>>

\* QuickBooks is asked for the name as it is spelt; two matches are refused.
Query(w) ==
  LET n == task[w].name  rows == Named(n) IN
    /\ task[w].at = "query"
    /\ \/ rows = {} /\ Become(w, [task[w] EXCEPT !.at = "fuzzy"])
       \/ \E v \in Ids :
            rows = {v} /\ Become(w, [task[w] EXCEPT !.at = "write", !.id = v, !.display = n])
       \/ Cardinality(rows) > 1 /\ Become(w, Idle)
    /\ UNCHANGED <<store, time, edits, tasks, history>>

WriteCache(w) ==
  /\ task[w].at = "write"
  /\ Upsert(Key[task[w].name], task[w].id, task[w].display)
  /\ Become(w, [task[w] EXCEPT !.at = "found", !.match = "exact"])
  /\ UNCHANGED <<vendors, requests, made, events, time, edits, tasks, history>>

\* fuzzyFromCache: the only row with a similar name, whatever its age; or NotFound.
\* Accounts are resolved without it.
Fuzzy(w) ==
  LET near == {k \in Keys : cache[k] # None /\ <<cache[k].name, task[w].name>> \in Similar} IN
    /\ task[w].at = "fuzzy"
    /\ \/ \E k \in Keys :
            near = {k} /\ Become(w, [task[w] EXCEPT !.at = "found", !.id = cache[k].id, !.match = "fuzzy"])
       \/ Become(w, Idle)
    /\ UNCHANGED <<store, time, edits, tasks, history>>

\* The reference goes into the bill.
Use(w) ==
  /\ task[w].at = "found" /\ Become(w, Idle)
  /\ UNCHANGED <<store, time, edits, tasks, history>>

-----------------------------------------------------------------------------
(* Approvers *)

\* link: the vendor exists and is active.
Link(w, n, v) ==
  /\ Active(v)
  /\ Start(w, [Idle EXCEPT !.at = "link", !.name = n, !.id = v, !.display = vendors[v]])
  /\ UNCHANGED <<store, time, edits, history>>

WriteLink(w) ==
  LET t == task[w] IN
    /\ t.at = "link"
    /\ Upsert(Key[t.name], t.id, t.display)
    /\ linked' = linked \cup {<<Key[t.name], t.id>>}
    /\ Become(w, Idle)
    /\ UNCHANGED <<vendors, requests, made, events, time, edits, tasks, replayed, forgot, edited>>
    /\ trust' = [trust EXCEPT ![<<Key[t.name], t.id>>] = 0]

\* create: nobody has the display name yet.
Create(w, n, other) ==
  /\ Named(n) = {}
  /\ Start(w, [Idle EXCEPT !.at = "post", !.name = n, !.other = other])
  /\ UNCHANGED <<store, time, edits, history>>

\* The POST; a request id QuickBooks remembers gets the answer it got then, whether it was
\* sent for this name, for another spelling or for a longer name that begins the same.
PostVendor(w) ==
  LET n == task[w].name  v == Requested(n) IN
    /\ task[w].at = "post"
    /\ IF v # None
         THEN /\ Become(w, [task[w] EXCEPT !.at = "cache", !.id = v, !.display = made[v]])
              /\ replayed' = replayed \cup {Key[n], Key[task[w].other]}
              /\ UNCHANGED <<vendors, requests, made>>
         ELSE \E new \in Ids :
              /\ vendors[new] = None
              /\ vendors' = [vendors EXCEPT ![new] = n]
              /\ requests' = [requests EXCEPT ![RequestId(n)] = new]
              /\ made' = [made EXCEPT ![new] = n]
              /\ Become(w, [task[w] EXCEPT !.at = "cache", !.id = new, !.display = n])
              /\ UNCHANGED replayed
    /\ UNCHANGED <<events, cache, time, edits, tasks, linked, forgot, edited>>
    /\ Witness(0)

\* Cached under the created name, and then under the extracted one.
CacheCreated(w) ==
  LET t == task[w] IN
    /\ t.at = "cache"
    /\ Upsert(Key[t.name], t.id, t.display)
    /\ Become(w, IF Key[t.other] = Key[t.name] THEN Idle ELSE [t EXCEPT !.at = "alias"])
    /\ UNCHANGED <<vendors, requests, made, events, time, edits, tasks, history>>

\* That name is bound to the vendor, if it is the one that was asked for.
CacheAlias(w) ==
  LET t == task[w] IN
    /\ t.at = "alias"
    /\ Upsert(Key[t.other], t.id, t.display)
    /\ IF MadeFor(t.id, Key[t.name])
         THEN /\ linked' = linked \cup {<<Key[t.other], t.id>>}
              /\ trust' = [trust EXCEPT ![<<Key[t.other], t.id>>] = 0]
         ELSE UNCHANGED <<linked, trust>>
    /\ Become(w, Idle)
    /\ UNCHANGED <<vendors, requests, made, events, time, edits, tasks, replayed, forgot, edited>>

\* A job or request fails or dies where it stands.
Abandon(w) ==
  /\ task[w].at # "idle" /\ Become(w, Idle)
  /\ UNCHANGED <<store, time, edits, tasks, history>>

-----------------------------------------------------------------------------
(* QuickBooks, its webhooks, and time *)

\* Someone adds, renames, deactivates or reactivates an entity; a webhook sets out.
Edit(v, n) ==
  /\ edits < MaxEdits /\ vendors[v] # n
  /\ n = Inactive => Active(v)
  /\ vendors' = [vendors EXCEPT ![v] = n]
  /\ events' = events \cup {v}
  /\ edits' = edits + 1
  /\ edited' = edited \cup {v}
  /\ UNCHANGED <<requests, made, cache, task, time, tasks, linked, replayed, forgot>>
  /\ Witness(0)

\* The retention of a request id ends; it outlasts a request under way.
Forget(r) ==
  /\ requests[r] # None
  /\ \A w \in Workers : task[w].at = "post" => RequestId(task[w].name) # r
  /\ requests' = [requests EXCEPT ![r] = None]
  /\ forgot' = forgot \cup {r}
  /\ UNCHANGED <<vendors, made, events, cache, task, time, edits, tasks, linked, trust, replayed, edited>>

\* handleNotifications: DELETE by id.
Webhook(v) ==
  /\ v \in events
  /\ events' = events \ {v}
  /\ cache' = [k \in Keys |-> IF cache[k] # None /\ cache[k].id = v THEN None ELSE cache[k]]
  /\ UNCHANGED <<vendors, requests, made, task, time, edits, tasks, history>>

\* The webhook is refused, as one that is not signed or when no verifier is configured, or
\* the API acknowledged it and died before it acted on it.
LoseWebhook(v) ==
  /\ v \in events
  /\ events' = events \ {v}
  /\ UNCHANGED <<vendors, requests, made, cache, task, time, edits, tasks, history>>

\* Steps of a request are short against Ttl.
Tick ==
  /\ time < MaxTime /\ \A w \in Workers : task[w].at = "idle"
  /\ time' = time + 1
  /\ cache' = [k \in Keys |-> IF cache[k] = None THEN None
                              ELSE [cache[k] EXCEPT !.age = IF @ < Ttl THEN @ + 1 ELSE @]]
  /\ UNCHANGED <<vendors, requests, made, events, task, edits, tasks, linked, replayed, forgot, edited>>
  /\ Witness(1)

Next ==
  \/ \E w \in Workers :
       \/ Query(w) \/ WriteCache(w) \/ Fuzzy(w) \/ Use(w) \/ WriteLink(w) \/ PostVendor(w)
       \/ CacheCreated(w) \/ CacheAlias(w) \/ Abandon(w)
       \/ \E n \in Names : \/ Resolve(w, n)
                           \/ \E v \in Ids : Link(w, n, v)
                           \/ \E o \in Names : Create(w, n, o)
  \/ \E v \in Ids : Webhook(v) \/ LoseWebhook(v) \/ \E n \in Names \cup {Inactive} : Edit(v, n)
  \/ \E r \in RequestIds : Forget(r)
  \/ Tick

Spec == Init /\ [][Next]_vars

-----------------------------------------------------------------------------
(* Properties *)

\* However webhooks are lost, late or overtaken by a resolver that writes back what it
\* read before the change, a reference that is not a fuzzy match was right less than a
\* day ago: QuickBooks had it under a name of this key, or a person bound it.  Not so once
\* a creation was repeated and QuickBooks answered with the vendor it made long ago.
FreshEnough ==
  \A w \in Workers :
    LET t == task[w] IN
      t.at = "found" /\ t.match # "fuzzy" /\ Key[t.name] \notin replayed =>
        trust[<<Key[t.name], t.id>>] < Ttl

\* Approvers who create a vendor at once, twice, or again after a crash never make two of
\* it: QuickBooks remembers the request, or it has forgotten it and then the look for the
\* display name finds the first.  Two entities for one request id were made on either side
\* of a retention, and under two spellings unless people changed one of them.
VendorMadeOnce ==
  \A v \in Ids : \A u \in Ids \ {v} :
    made[v] # None /\ made[u] # None /\ RequestId(made[v]) = RequestId(made[u]) =>
      /\ RequestId(made[v]) \in forgot
      /\ made[v] = made[u] => {v, u} \cap edited # {}
=============================================================================
