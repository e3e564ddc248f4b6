# OnelineFlow: a TLA+ verification project

OnelineFlow takes supplier invoices, extracts them with language models, routes
them through approval and posts each one to QuickBooks Online as a Bill. Its
central claim is that one logical invoice never becomes two bills (README.md of
the repository, "exactly once"; ARCHITECTURE.md section 4). This directory
models the parts of the program that carry that claim and the machinery around
it, checks them with TLC on small instances, and proves the most important
results with TLAPS for every value of the constants.

Paths below are relative to `src/`.

## 1. The system

| Component | Code | State | Operations | Talks to |
| --- | --- | --- | --- | --- |
| Invoice lifecycle | `packages/core/src/invoice.ts` | status adjacency list | `canTransition`, `assertTransition` | every writer of a status |
| Invoice repository | `packages/db/src/invoice-repository.ts` | `invoices`, `invoice_dedup_keys` rows | `transitionStatus` (compare-and-swap on version and status), `recordPosted`, `saveExtraction`, `claimBusinessKey` | PostgreSQL |
| Ingest API | `services/api/src/routes/ingest.ts` | `documents`, `invoices`, `outbox` | dedup by fingerprint, insert `received`, event `invoice.received` | object store, outbox |
| Extraction worker | `services/worker-extraction/src/main.ts` | worker locals, BullMQ job | claim, budget gate, primary and second model, save, park | repository, spend tracker, providers |
| Consensus, budget | `packages/ai/src/consensus.ts`, `packages/budget/src/spend-tracker.ts` | monthly counter in Redis, seed in PostgreSQL | merge two extractions; record, reconcile, decide | extraction worker |
| Approval API | `services/api/src/routes/invoices.ts` | invoice row, outbox | approve, reject | repository, outbox |
| Outbox and relay | `packages/db/src/outbox.ts`, `services/relay/src/relay.ts` | `outbox` rows, open transactions | claim batch, publish, mark, prune | BullMQ |
| Queue | `packages/queue/src/queues.ts` | BullMQ jobs | add with deterministic id, attempts, stalls | workers |
| Fair gate, rate limiter | `packages/queue/src/fairness.ts`, `packages/qbo/src/rate-limiter.ts` | Redis leases and token buckets | acquire, extend, release, penalise (Lua) | workers, QuickBooks client |
| Posting worker | `services/worker-posting/src/{main,post-invoice}.ts` | worker locals, BullMQ job, invoice row | four guards, POST, record, link, park | repository, QuickBooks |
| QuickBooks client | `packages/qbo/src/{client,faults,oauth}.ts`, `packages/db/src/connection-repository.ts` | tokens, connection status | request, query, refresh under an advisory lock | Intuit |
| Mapping | `packages/qbo/src/{bill-mapper,reference-resolver,credit-note}.ts`, `packages/core/src/money.ts` | reference cache | pure arithmetic, cached lookups | posting worker |
| Vendors, webhooks API | `services/api/src/routes/{vendors,webhooks}.ts` | reference cache | link, create, drop what changed | QuickBooks, PostgreSQL |
| Scheduler | `services/scheduler/src/tasks.ts` | gauges, partitions | sweeps | PostgreSQL, metrics |
| Reconciler | `python/reconciler/` | the report of a run | local checks, page bills, compare, look again, persist | PostgreSQL, QuickBooks |
| Pool, storage, crypto, auth, config, observability | remaining packages | connections, keys | plumbing | - |

How they interact: the API and the workers write only to PostgreSQL; a status
change and its event commit in one transaction; the relay turns committed events
into BullMQ jobs at least once; BullMQ hands a job to one worker at a time *while
its lock lasts*, retries it, and re-delivers it when it stalls; workers
synchronise on the invoice row by compare-and-swap, never by the queue.

What is hard here:

* posting is not a transaction: between the claim, the POST and the record a
  worker may die, freeze past its lock, lose the answer, or be told a lie of
  omission (an answer without an id);
* the ledger is somebody else's: it deduplicates by requestid for a while only,
  people enter bills by hand, and DocNumbers repeat;
* a POST that was given up may still arrive;
* an error that escapes one of the two `try` blocks of `postInvoice` takes a
  different path than one inside;
* the queue, the row and the ledger each remember something different about the
  same attempt;
* three things are kept in Redis and trusted although it may lose them: the
  monthly spend, the leases and the token bucket; the scripts read the clock of
  whichever pod calls;
* an amount passes through four forms on its way from a document to a bill, and
  two checks look at its sum;
* the reference cache and the reconciler compare what was read at one time with
  what is read at another, while people edit QuickBooks.

What makes each component correct, and where it is covered:

| Component | Correct when | Covered by |
| --- | --- | --- |
| Posting worker | one bill per invoice; a posted row names its own bill and never changes; every outcome is announced once | `Posting`, `PostOnce` |
| Extraction worker | one extraction at a time; duplicates flagged; a late worker touches nothing that was handed on; every status change is in the table | `Extraction` |
| Outbox and relay | committed events are delivered at least once; replicas do not publish the same row; one bad row does not hold up the others | `Relay` |
| Tokens and connection | one exchange per expiry; the stored refresh token stays alive; disconnected means disconnected; the lock is always given back | `Tokens` |
| Queue | a job is settled eventually; a stalled job is given to somebody else | `JobQueue`, through its users |
| Spend tracker | no increment lost or doubled, nobody charged for another month, overshoot bounded by what is in flight | `Spend` |
| Fair gate, rate limiter | at most the limit of live leases, whatever the clocks; the lazy bucket grants no more than its rate | `Throttle` |
| Consensus, gate, approval limit, money, bill mapper | only undoubted readings skip the demand for a reason; what is sent is what was approved, to the minor unit | `Reading` |
| Reference resolver, vendors and webhooks routes | a resolved reference was right less than a day ago; a vendor is not created twice while its request id is remembered, nor under one display name | `References` |
| Reconciler | no bill that exists is reported missing; a mismatch is one; one realm's failure hides nothing of another | `Reconciler` |
| Ingest | one invoice per content hash under concurrent submission | not modelled (section 7) |
| Pool | a client goes back to the pool only without a tenant | not modelled (section 7) |

## 2. Modules

| Module | Stands for | Role |
| --- | --- | --- |
| `InvoiceStatus` | `invoice.ts` | statuses and the transition table, shared by the modules below |
| `Posting` | posting worker, its BullMQ job, QuickBooks, the approval routes as they touch it | the core of the project |
| `PostOnce` | the promise at the top of `post-invoice.ts` | abstract specification refined by `Posting` |
| `PostingProofs` | - | theorems about `Posting` |
| `JobQueue` | a BullMQ job as `queues.ts` configures it | attempts, stalls, locks; shared by `Posting` and `Extraction` |
| `Extraction` | extraction worker, its job, the business-key table, and who takes the invoice over | second component |
| `ExtractionProofs` | - | theorems about `Extraction` |
| `Relay` | `outbox.ts`, `relay.ts`, what BullMQ remembers of job ids | third component |
| `RelayProofs` | - | theorems about `Relay` |
| `Tokens` | `ensureToken`, `withRefreshLock`, the OAuth routes, Intuit's rotation | fourth component |
| `TokensProofs` | - | theorems about `Tokens` |
| `Spend` | `spend-tracker.ts` and the extraction worker as it uses it | the budget |
| `SpendProofs` | - | theorems about `Spend` |
| `Throttle` | `fairness.ts`, `rate-limiter.ts`, the request in `client.ts` | leases and tokens |
| `ThrottleProofs` | - | theorems about `Throttle` |
| `Reading` | `consensus.ts`, `money.ts`, `bill-mapper.ts`, and the gate, the approval and `buildBill` between them | the path of an amount |
| `References` | `reference-resolver.ts`, the vendors and webhooks routes | the reference cache |
| `BillProofs` | - | theorems about `References` and `Reading`: what a bill is made of |
| `Reconciler` | `python/reconciler` | the nightly comparison |
| `ReconcilerProofs` | - | theorems about `Reconciler` |
| `MC...` | - | constants for TLC, one for each of the components |

`Posting` and `Extraction` share the lifecycle (`InvoiceStatus`) and the queue
(`JobQueue`) and each models the other's effect on an invoice as an action of its
environment (`Reextract` there, `Approve`, `Reject`, `PostingMoves` here).
`Reading` shares the lifecycle too and computes what the other two leave open: the
verdict of the models, the approval limit and the success of `buildBill`.
The remaining modules are what these three see as a single nondeterministic step:
`Relay` and `Tokens` give "a job is delivered again" and "the connection or the
token is refused", `Spend` the budget stop, `Throttle` the delay of a job and the
timeout of a request, `References` the vendor of a bill. `Reconciler` looks at what
all of them left behind.

### Posting

State and code: `row` is an invoice's `status`, `version` and `qbo_entity_id`;
`outbox` counts the two events posting writes; `job` is BullMQ's record of each
posting job (`post-<invoice>-<version>`, so one per approval); `pc`, `at`,
`seen` and `found` are a worker's position and its local variables (the invoice,
the version it last read, the bill id QuickBooks gave it); `bills`, `nextId` and
`memo` are the QuickBooks company: the bills, and the bill remembered for the
invoice's requestid. `late` holds abandoned POSTs that may still be committed,
`forgot` is a history variable.

Every database statement and every QuickBooks call of `postInvoice` commits on
its own (`withTenant` opens no transaction), so each is an action:

| Label | Code (`post-invoice.ts`) | Actions |
| --- | --- | --- |
| `read` | 84-105 requireById, guard 2 | `Read` |
| `recover` | 105-136 findActive, guard 4 | `RecoverFinds`, `RecoverFindsNone`, `RecoverGivesUp` |
| `claim` | 137-146 guard 1 | `Claim` |
| `reread` | 148-150 | `Reread`, `RereadGivesUp` |
| `build` | 152-163, `buildBill` | `Build`, `BuildFails` |
| `await` | 165-185, 209-255, `faults.ts` | `PostAccepted`, `PostAcceptedUnnamed`, `PostDuplicate`, `PostRefused`, `PostUnknown` |
| `record` | 187-208 one transaction with the event | `Record` |
| `dup` | 218-243 | `DupFinds`, `DupFindsNone`, `DupGivesUp` |
| `link` | 122-132, 230-239 | `Link` |
| `park` | 403-431 one transaction with the event | `Park` |
| `ack` | the processor in `main.ts` returns | `Ack` |

`Fails` is a retryable error at any of them, `Crash` the death of the process,
`Stall` the expiry of a lock (of a dead holder or a slow one: a slow one goes on
running, its result no longer counts), `Redeliver` the relay adding a job again
after BullMQ removed the completed one. A lost compare-and-swap is a
`ConflictError`, which is not retryable: the handler returns and the job
completes. `Forget` ends the retention of a requestid; it is assumed to outlast
a single attempt and a POST in flight. `Approve` stands for the approval and the
relay's delivery, `Reextract` for a redelivered extraction job that takes a
parked invoice back to review.

Abstracted: amounts and the content of the bill (`Build` succeeds or fails; see
`Reading` and `References`), the fair gate and the rate limiter (`Throttle`), the
token refresh (`Tokens`; a request has their outcomes), and the `next_retry_at`
columns. The job is given a valid realm, as
`relay.test.ts` gives it; see section 6 for what the approval route really sends.

### PostOnce

`ledger[i]` is the set of bills an invoice has become, `linked[i]` the bill its
row names. `Create` needs an empty ledger entry, `Link` an unlinked invoice and
a bill of its own. `Posting` implements it under the mapping
`ledger[i] = ids of bills created from i`, `linked[i] = qbo_entity_id`, provided
no DocNumber is another invoice's or a hand-entered bill's and each invoice is
approved once.

### Extraction

State and code: `row` is an invoice's `status`, `version`, saved business key and
the two findings the worker itself writes; `dedup` is `invoice_dedup_keys`;
`notices` counts `invoice.needs_review` events; `job` is the job
`extract-<invoice>`; `pc`, `at`, `seen`, `verdict` are a worker's position and
locals.

| Action | Code (`worker-extraction/src/main.ts`) |
| --- | --- |
| `Take`, `Read` | 127-150: the job is taken, `requireById`, only `received` and `failed` go on |
| `Claim` | 152-159: `transitionStatus` to `extracting`, committed on its own |
| `BudgetStops`, `Stop` | 170-197: the budget is spent, the row goes to review with its findings replaced |
| `Extract`, `ExtractRefused` | 161-280: models and consensus, a nondeterministic verdict or a permanent error |
| `Save` | 282-335: one transaction with `claimBusinessKey`, `saveExtraction`, `transitionStatus` and the event |
| `Park` | 338-353: the raw UPDATE to `failed`, which compares the status and not the version |
| `Ack`, `Fails`, `Crash`, `Stall`, `Deliver`, `Redeliver` | 355-366 and the queue |
| `Approve`, `Reject`, `PostingMoves` | the approval routes and the posting worker, as far as they move the row |

`Dated` is the set of invoices whose `invoice.received` event carries the row's
`created_at`. The compare-and-swap uses it as a partition key and `ingest.ts`
does not send it (section 6); the runs set `Dated` to every invoice, so that
the rest of the worker is exercised. Abstracted: what the models read and the
findings of the consensus (`verdict` says whether there were any; see `Reading`),
the budget (`Spend`), the fair gate (`Throttle`).

### Relay

`outbox` and `attempts` are the table; rows are numbered by `created_at`, the
start of their transaction, so they become visible in any order. `held`, `done`,
`bad` are a replica's open transaction: the rows `FOR UPDATE SKIP LOCKED` gave it,
those handled and those that failed. `kept` is the set of job ids BullMQ
remembers, and `sent` and `created` are histories. `Claim`, `Skip`, `ParkRow`,
`Publish`, `PublishFails` and `Commit` are the steps of `drainOnce`; `Abort` is a
rollback at any point (what was added to the queue stays); `Prune` the hourly
delete; `Remove` the removal of a finished job; `RedisFails` and `RedisRecovers`
an outage. `attempts` stops counting at `MaxAttempts`, beyond which only the
comparison matters. `sampleBacklog` only reads and is left out.

### Tokens

One connection. A token is a number and stands for the pair one exchange
returned. `status` and `stored` are the row; `lock` the advisory lock; `pc`,
`conn` and `got` a worker's position, its copy of the connection and the result of
its exchange; `page` and `grant` a user's callback; `issued`, `alive`, `late`
Intuit: the tokens issued, the refresh tokens it accepts, the exchanges that were
given up and may still arrive.

| Action | Code |
| --- | --- |
| `Find`, `Use`, `Wait` | `findActive`; `isAccessTokenExpired` on the copy (`client.ts:98`) |
| `Acquire`, `LockTimesOut` | `pg_advisory_lock` under `statement_timeout` |
| `ReloadInactive`, `ReloadFresh`, `ReloadExpired` | `reload` and the second look (`client.ts:103-106`) |
| `Exchange`, `ExchangeFails`, `ExchangeRejected` | `refreshTokens`, `tokenRequest` |
| `Store`, `StoreFails` | `upsert` in the session of the lock |
| `Crash`, `SessionBreaks` | the process or the PostgreSQL session ends; both free the lock, the second without telling the worker |
| `Connect`, `StateExpires`, `Callback`, `ExchangeCode`, `CodeFails`, `CodeLost`, `StoreGrant`, `StoreGrantFails` | `routes/oauth.ts`: the state in Redis, `GETDEL`, the exchange, the upsert without the lock |
| `Disconnect` | `routes/oauth.ts:99-115` |

`mishap` records what no lock can repair: a token that died on its way to the
row, a broken session, a new grant that overtook a refresh, a grant ended at
Intuit. Whether a new grant ends the earlier one is not said anywhere in the
repository, so both are possible. The locals are cleared when the function that
holds them returns. Clocks of different pods are taken to agree: a token is expired or it is not.

### Spend

One tenant. `counter` is Redis, one key a month; `ledger` what PostgreSQL sums: the
saved costs, by the month the invoice was *created* in; `pc` and `local` a worker's
position and locals; `spent`, `booked` and `intact` are histories. Costs are in units
of the smallest cost and a Redis command or a query is a step.

| Action | Code |
| --- | --- |
| `Begin`, `Get`, `Select`, `Seed`, `Reget` | `currentSpend` (`spend-tracker.ts:93-117`): the period, GET, the sum, `SET NX`, GET again |
| `Decide` | `evaluate`, `decideFromBudget`: review, one model, or two |
| `PrimaryAnswers`, `SecondAnswers`, `NoAnswer` | a model answers, fails or is not needed; `record` calls `currentSpend` first |
| `Incr` | `INCRBY` on whatever the key holds |
| `Save`, `SaveFails` | the transaction that stores the cost commits, or is rolled back |
| `RedisFails`, `Crash`, `LoseCounter`, `Expire`, `NextMonth` | errors, deaths, eviction, the TTL, the calendar |

### Throttle

`leases` and `keyTtl` are the two sorted sets, `bucket` the hash of the token bucket;
`pc`, `held` and `limit` a worker's position, the leases it was given and its
deadline; `skew` how far its clock is ahead; `credit` a history: the tokens of a
bucket that is refilled at every tick. A Lua script is one step and takes the clock
of its caller.

| Action | Code |
| --- | --- |
| `Admit`, `Defer` | the gate's script (`fairness.ts:20-35`); a refused job is delayed |
| `TakeToken`, `NoToken` | the bucket's script (`rate-limiter.ts:35-61`) and the wait of `acquire` with its deadline |
| `TakeSlot`, `NoSlot` | the semaphore's script (69-84) |
| `Fetch`, `Headers`, `NextRequest`, `EndJob` | `client.ts`: after `ensureToken` the fetch under `withTimeout`, the body without one, the release in `finally` |
| `Throttled` | a throttling fault: `penalise` (191-199, its two commands in one step) |
| `Vanish`, `KeyExpires`, `Tick` | a death or a lost release, `PEXPIRE`, time |

### Reading

One invoice from the answer of the model to the payload of the bill. A decimal
string is its digits and the number of digits behind the point, which is all that
`fromDecimalString`, `toQboAmount` and `toFixed(2)` look at; currencies stand for
their exponents. `primary` and `secondary` are the extractions, `total` and
`findings` columns of the row, `target` the status the gate chose, `payload` the
amounts that were sent.

| Action | Code |
| --- | --- |
| `ReadPrimary`, `ReadSecondary` | the calls (`main.ts:199-262`); `needsSecondOpinion` |
| `Save` | `reachConsensus`, the gate (264-311), `saveExtraction` and `transitionStatus` in one transaction; a step the table lacks parks the invoice |
| `Approve`, `Reject` | `invoices.ts`: status, limit, override reason |
| `Post`, `Park` | `mapToBill` and the second check of `buildBill` (`post-invoice.ts:371-384`) |

`toFixed(2)` of a number exactly between two hundredths depends on its binary form,
so `Hundredths` is the set of both, and `Post` and `Park` may both be possible.
Sums and products are over integers: `MaxExact` is where a JSON number stops being
exact. Only `total`, `currency` and the number are critical here; names and dates
would add fields of the same kind.

### References

One realm and one entity type. `vendors` are the entities in QuickBooks, `requests`
what it remembers of request ids, `made` the name each was created under, `events` the
webhooks under way, `cache` the rows of `qbo_reference_cache` with their age, `task` what
each worker or request does. `Key` is `normaliseLookupKey`, so two spellings share a key;
`Cut` is the request id of a key, which has its first 40 characters, so two keys may share
one. QuickBooks remembers a request id until `Forget`, whenever that is, but not less than
the request takes that carries it. `linked`, `trust`, `replayed`, `forgot` and `edited`
are histories.

| Action | Code |
| --- | --- |
| `Resolve`, `Query`, `WriteCache`, `Fuzzy`, `Use` | `resolve`: cache, exact query, write back, fuzzy match; the bill takes it |
| `Link`, `WriteLink` | `POST /v1/vendors/link` |
| `Create`, `PostVendor`, `CacheCreated`, `CacheAlias` | `POST /v1/vendors`: look, POST with the request id, two cache rows |
| `Webhook`, `LoseWebhook` | `handleNotifications`, after the answer was already sent |
| `Edit`, `Forget`, `Tick`, `Abandon` | people in QuickBooks, its retention of request ids, the day, a failure anywhere |

### Reconciler

`rows` are the invoices (status, bill, whether created in the window, whether past the
SLO), `bills` the bills with our marker, `run` the position and locals of the run,
`breaks` its report so far, `aborted` whether a failed statement has aborted the one
transaction it works in, `reports` what was persisted. Bill ids are unique in a realm
only. `touched` is a history: the invoices that changed while the run went on. Amounts
of bills are in thousandths, those of invoices in minor units, of which `Unit` says how
many thousandths each is worth; `Hundredths` is the rounding of `compare_totals`, which
takes two decimals for every currency.

| Action | Code |
| --- | --- |
| `Begin`, `FindStalled`, `FindDuplicates`, `ListRealms`, `NextRealm` | `run_reconciliation` up to its loop |
| `Page`, `PageFails` | `iter_bills`, by position in the result; faults and timeouts after the retries |
| `Compare`, `CompareFails` | the rows of the realm against the index, `compare_totals` |
| `Recheck`, `RecheckFails` | `fetch_bills_by_id` for what was not in the index |
| `Persist`, `Die` | `persist_report`; the job is killed or a statement outside the loop fails |
| `EditBill`, `CreateBill`, `RecordPosted` | people and posting workers beside the run |

## 3. Runs

| Run | Instance | Question |
| --- | --- | --- |
| `posting_single` | 1 invoice, 2 workers, 2 approvals, 1 attempt each, 1 stall, 1 bill by hand with its number or another | Do the guards exclude a second bill, is a posted row final, whose bill does it name, does the outbox tell what happened? |
| `posting_once` | 1 invoice, 2 workers, 1 approval, 2 deliveries, 1 bill by hand | Does `Posting` implement `PostOnce`, and does every job settle? |
| `extraction_single` | 1 invoice, 2 workers, 2 attempts, 1 stall, 2 deliveries | Does one worker at a time hold the claim, is every move in the table, is a decided invoice left alone? |
| `extraction_twins` | 2 invoices, 1 key, 2 workers, 1 attempt, 1 stall, 1 delivery | Can two invoices with one business key both be saved without a finding? |
| `extraction_clean` | as `extraction_single` | Is a clean invoice routed to approval? (violated) |
| `relay` | 2 replicas, 3 rows (two with one job id, one without a route), batch 2, 2 attempts, 1 outage, 1 rollback | At least once, disjoint slices, and nothing blocks the rows that are not parked |
| `tokens` | 2 workers, 1 user, 3 tokens | The refresh protocol, safety and the release of the lock |
| `spend` | 2 workers, 4 extractions, 2 months, 1 loss, 1 failure | Is the counter exact, is nobody overcharged, how far can a burst overshoot? |
| `throttle` | 2 workers, 1 place, 1 slot, 2 tokens, clocks up to 1 apart, time up to 7, 1 crash | Do the leases keep their limits, and the bucket its rate? |
| `reading` | about 1300 readings in 3 currencies, with and without a second opinion | May what skips the demand for a reason be trusted, is what is sent what was approved, are sound invoices posted? |
| `references` | 2 workers, 2 entities, 3 names under 2 keys and 1 request id, 2 tasks, 2 edits, 1 day | How old may a reference be, and when is a vendor created twice? |
| `reconcile` | 2 realms, 3 invoices in currencies of two and of three decimals, bills with equal ids, pages of 1, 1 edit | Is the report of a run true? |

Bounds. Two workers are what every race here needs: each pair of statements is
protected or not by a compare-and-swap, and a third contender only repeats the
loser. Two approvals are the least that reach "parked, approved again"; one
stall reaches both branches of the stall logic. Retries are left to `posting_once`,
whose two attempts reach every branch of theirs (last attempt or not); the code's 5
and 2 add only longer runs of the same kind. One hand-entered bill
suffices for an oracle with a wrong or a double answer: in `posting_single` it may
carry the number of the invoice, so that the recovery query and fault 6240 meet
somebody else's bill; in `posting_once`, which needs unique numbers, it has another.
The proofs of section 5 have none of these bounds. Deadlock is not checked: with
every job settled and the bounds used up, nothing is left to do.

`extraction_twins` needs two workers and two invoices; one attempt and one stall
keep it small, and retries of a single invoice are what `extraction_single` is
for. In `relay` a batch of two rows out of three leaves one waiting, and two
attempts tell "failed once" from "parked". In `tokens` three tokens are the grant,
its successor and one more, which a second refresh, a reconnection or a late
exchange may take; a second user is not needed to overlap a refresh, and
`TokensProofs` covers any number.

In `spend` a budget of one cost unit puts the hard stop within reach of two workers,
four extractions let both of them race for the seed twice, and two months have one
turn. In `throttle` the leases are of 3 and 2 ticks, the key of a set lives for twice
its lease, and 7 ticks see a lease, the key and the bucket each run out while somebody
works; places and slots are one each because the limit matters only at the worker
that is one too many. In `reading` amounts are spelt with 0 to 3 decimals, lines add
up to the total, to the total less the tax, or to neither, and confidences are 1, 2, 3
or missing against thresholds of 2 and 3. In `references` one edit suffices to put a
change between the read and the write back of a resolver, and a second one gives a name
away and takes it back; two tasks are two creations that meet, or a name that is linked,
created or resolved and then found in the cache. Three tasks with one edit pass as well,
with 6 million states. In `reconcile` pages of one bill make every shift of a position
visible, the two realms share the id 1, and one edit at any moment is what a schedule
needs; edits repeat independently of each other. Two of these instances take about
two minutes, so they are near what TLC can do here.

Fairness (`posting_once`): weak fairness of a worker's own next statement (a live
Node process continues; a timeout bounds every call), of handing a waiting job to
a free slot, and of the 30-second stall check for a job without a live holder.
No outcome of a step is favoured, and people, QuickBooks and late POSTs are not
fair.

Fairness (`relay`): weak fairness of each replica's drain, since `runRelay` loops
for ever and continues after an error (`relay.ts:260-297`), and of Redis coming
back. Rollbacks and outages are finitely many by their bounds; nothing is assumed
of writers or of the prune. Fairness (`tokens`): weak fairness of the worker inside
the lock, whose calls all end by a timeout. Who gets the lock next is not fair.

## 4. Properties

Of `Posting`:

* `OneBillPerInvoice`: an invoice has at most one bill while QuickBooks remembers
  its requestid (guard 3), and also afterwards if no other bill has carried its
  DocNumber so far and it was approved at most once (guard 4). The conditions are
  the point: section 6 tells what happens without them.
* `PostedLinksOwnBill`: a posted invoice names a bill created from it. Only the
  recovery query and fault 6240 may link somebody else's, which then carries the
  very DocNumber of the invoice, and no `invoice.posted` was written.
* `NoBillBeforeClaim`: before guard 1 has moved the row to `posting`, nothing of
  the first approval is in the ledger or on its way there.
* `EventsMatchOutcome`: each parked approval was announced exactly once, nothing
  else was, and `invoice.posted` is written at most once and only of posted rows.
* `PostedIsFinal`: no step changes a posted row.
* `JobsSettle`: every delivered job is completed or failed eventually.
* `PostOnceSpec`: refinement of `PostOnce`.

Of `Extraction`:

* `OneExtractor`: two workers never hold a live claim of one invoice.
* `NoUnflaggedTwins`: of two rows saved with one business key, at least one has a
  finding that blocks approval, whatever the order of the saves.
* `NoPhantomOwner`: a key is owned only by an invoice that was saved with a key,
  so a rolled-back save cannot flag the next honest invoice.
* `LifecycleRespected`: every status change, the raw UPDATE included, is an edge of
  the adjacency list.
* `DecidedStays`: no step of a worker touches an invoice that was handed on.

Of `Relay`:

* `PublishedWasSent`: a routed row is marked or deleted only after an add for it
  returned.
* `DisjointSlices`: no row is in two open transactions, and only pending rows are.
* `DeliveredUnlessParked`: a committed row is published eventually, unless it is
  parked itself or parked rows fill a batch.

Of `Tokens`:

* `StoredTokenLives`: without a mishap the row's refresh token is accepted by
  Intuit, or its successor is about to be stored.
* `HealthyNeverRejected`: without a mishap nobody is answered `invalid_grant`.
* `HerdRefreshesOnce`: only a token that has expired is exchanged.
* `DisconnectedStays`: a revoked row becomes active only through a user, or through a
  refresh that had looked at the row before the revocation.
* `LockIsFreed`: whoever takes the lock gives it back.

Of `Spend`:

* `CounterExact`: as long as the key is not lost and no cost goes unrecorded, the
  counter is the sum of its increments: seeding races wipe out and repeat nothing.
* `NeverOvercharged`: whatever is lost, re-seeded or rolled back, the counter of a
  month never exceeds what was spent in it.
* `OvershootBounded`: a month whose counter is intact is overspent by at most what is
  in flight. There is a counter `s` that still let a call through, and at most two
  calls of every worker were spent past it, or one less if `s` was past the warning,
  since the last worker is then refused the second call. Past the warning `s` is at
  least four fifths of the budget; when one call costs more than what is left, the
  worker that is let through may have been below it, so the warning has to be part of
  the bound. The comments of the code promise less (section 6).

Of `Throttle`:

* `WithinLimits`: workers within their lease by every clock never exceed the gate or
  the slots, although each worker prunes by its own clock and the key may expire.
* `RateBounded`: with clocks that agree, the lazy bucket, its expiry and the penalty
  grant no more than a bucket refilled at every tick.

Of `Reading`:

* `CleanIsTrustworthy`: what the gate sends to approval without a finding was read
  with confidence by every model consulted, and they agree on number and amount. With
  a threshold of zero the gate lets through a reading that has no confidence at all,
  which the property allows for.
* `SentAsApproved`: the amounts sent come to the total that was approved, or to it
  less the tax, to the minor unit and in the decimals of the currency.
* `SoundIsNotParked`: neither check refuses an invoice whose lines add up, in a
  currency of at least two decimals and with amounts that need no more than two.

Of `References`:

* `FreshEnough`: a reference that is not a fuzzy match was right less than a day ago,
  unless QuickBooks answered a repeated creation with an earlier entity.
* `VendorMadeOnce`: two vendors made for one request id were made on either side of a
  retention of it, and under two spellings unless people changed one of them. While
  QuickBooks remembers, the request id stops the second; afterwards the look for the
  display name does, but only for that very spelling. What is left is in section 6.

Of `Reconciler`:

* `MissingIsGone`: an invoice is reported missing only if its bill was deleted.
* `RecordIsAccurate`: a persisted report tells of each invoice that nobody touched
  meanwhile what is true of it, unless its realm failed and is reported so: missing,
  orphaned, stalled and shared bills exactly; for currencies of two decimals a mismatch
  only if the amounts differ, and always if they differ by a hundredth or more. A realm
  that fails at QuickBooks hides nothing of another. The property speaks of persisted
  reports: after a failed statement there is none, and in other currencies equal amounts
  are called mismatches (section 6).

Each property has a mutant in the module that owns the mutated definition
(operators commented "Mutant"): a change a plausible bug would make, under which
the property fails in the same run.

## 5. Proofs

`PostingProofs` proves, for any finite or infinite sets and any bounds that meet
the assumption `PostingConstants`:

| Theorem | Statement |
| --- | --- |
| `TypeCorrect` | `Spec => []TypeOK` |
| `Invariant` | `Spec => [](TypeOK /\ PostingInv)` |
| `NoDuplicates`, `LinksAreOwn`, `ClaimComesFirst`, `EventsTell` | the four invariants of `posting_single` |
| `PostedStays` | `Spec => PostedIsFinal` |
| `KeepsPromise` | `Spec => PostOnceSpec`, when `MaxApprovals = 1` and no DocNumber is another invoice's or a hand-entered bill's (`UniqueNumbers`) |

The argument. None of the properties is inductive. `PostingInv` adds what they
rest on: a job exists only for an approval that was given (`JobsOfApprovals`),
an invoice is untouched before its first approval (`UntouchedBeforeApproval`),
entity ids identify bills (`LedgerConsistent`), what QuickBooks remembers for a
requestid is the only bill of the invoice until it forgets (`MemoConsistent`),
and, for a safe invoice, a bill whose requestid is forgotten implies that no
worker is past the recovery query and no POST is under way (`NoBlindPost`); what
a worker is about to record is in the ledger (`FoundIsReal`) and only posted
rows name a bill or were announced (`RowsNameBills`). `NoBlindPost` is the heart: it says
why guard 4 placed before guard 3 covers the case guard 3 alone does not.

There are some thirty actions and nine conjuncts, so the proof does not multiply them: each
action is first shown to have one of a few *effects* on the row, on the stores of
the worker, on the job, on the ledger (`StepEffects`), and each conjunct is then
proved from the effects.

`ExtractionProofs`:

| Theorem | Statement |
| --- | --- |
| `TypeCorrect`, `Invariant` | `Spec => []TypeOK`, `Spec => [](TypeOK /\ ExtractionInv)` |
| `ClaimIsExclusive`, `TwinsAreFlagged`, `OwnersAreSaved` | the invariants `OneExtractor`, `NoUnflaggedTwins`, `NoPhantomOwner` |
| `TableIsRespected`, `HandedOnStays` | `LifecycleRespected`, `DecidedStays` |

Versions only grow, so what a worker saw is never ahead of the row
(`ClaimsBehind`) and two workers that claimed the same invoice saw different
versions (`ClaimsDiffer`); a saved row without a finding owns its key
(`CleanOwnsKey`), and an owner is unique because `dedup` is a function. A worker
that reaches the claim saw `received` or `failed` (`SawClaimable`), which is what
puts its moves in the table.

`RelayProofs`: `TypeCorrect`, `Invariant`, `NeverAtMostOnce`
(`PublishedWasSent`) and `SlicesAreDisjoint` (`DisjointSlices`). What a drain
handled is part of what it locked (`DrainsOwnRows`) and, where routed, was sent
(`HandledWasSent`); the locks make the commits of two replicas independent.

`TokensProofs`: `TypeCorrect`, `Invariant`, `ConnectionSurvives`
(`StoredTokenLives`), `NobodyIsRejected`, `WaitersReuse` (`HerdRefreshesOnce`) and
`StaysDisconnected` (`DisconnectedStays`), for any number of workers, users and
tokens. The lock alone is not the reason: what it gives is that the token a worker
presents is still the row's (`ExchangesStored`) and that one new token at a time is
on its way (`NoOverlap`); the rest follows from Intuit's rotation
(`SuccessorsLive`, `StoredIsLast`). `CutKnows` carries the action property.

`SpendProofs`: `SpendTypeCorrect` and `CounterIsExact` (`CounterExact`). `SpendInv`
says why a seed that finds no counter is worth nothing while nothing was lost: a saved
cost of an invoice of this month was booked this month (`SavedWasBooked`), a cost about
to be saved too, unless it is still to be booked (`KeptWasBooked`), so a worker that
found no counter read a sum of zero (`SeedIsNothing`, `MissingIsEmpty`). The months of
an invoice, of its costs and of the present are in that order (`PeriodsPast`,
`FutureEmpty`), which carries the argument over the turn of a month.

`MonthIsNeverOvercharged` (`NeverOvercharged`) cannot sum over the workers in flight
and their races with a lost key, so it names every cent spent in the month and says
where each is (`EachCentCountsOnce`): the ledger stands for a set of cents, the counter
for another, and each worker has the cents it must still save, some of which it must
still record. No two workers have a cent in common, nothing to save is in the ledger,
and nothing to record is in the counter or in anybody's seed. A counter that stands for
cents of the month cannot be more than the month. `OvershootIsInFlight`
(`OvershootBounded`) rests on `FlightInv`: what is spent is booked or due
(`SpentIsBooked`), and what is booked, due or still to be spent is within the overshoot
of a counter that lets a worker through (`StakesBounded`). Here the sums over the
workers are needed; `Total` counts them as a set of pairs, so that a step of one worker
changes one summand. The attempt to prove an earlier form of the bound, which left out
the warning, failed at `Decide`, and TLC then found the counterexample with calls dearer
than a quarter of the budget.

`ThrottleProofs`: `ThrottleTypeCorrect`, `ThrottleInvariants`, `LimitsHold`
(`WithinLimits`) and `RateIsBounded` (`RateBounded`), for any number of workers, any
limits, leases and differences of clocks. A worker within its lease is listed
(`WorkersAreListed`: pruning by a clock that is ahead does not touch it), the sorted
sets never hold more than the limit (`SetsAreBounded`), and when the key of a set
expires every lease in it is over (`KeysOutlive`). `RateInv` says that the lazy bucket,
refilled now, shows no more than the eager one, also after its key has expired, because
`BucketTtl` is at least a full refill.

`ReconcilerProofs`: `ReconcilerTypeCorrect` and `NothingIsMissed` (`MissingIsGone`), for
any invoices, companies, pages and number of edits. Nothing is assumed of the index: it
may have lost any bill to a page that shrank. What decides is the second look. A
suspect is a posted invoice of the realm that is asked (a part of `TypeOK`), so the
bill that is asked for is its own; and a bill found gone stays reported truly, since a
row with a bill keeps it and a deleted bill does not come back (`MissingHadBill`, with
`WorldOK`: the bill a row names was made, so no worker makes it anew).

`RecordIsTrue` (`RecordIsAccurate`) needs to know at every step what has been told.
`RunInv` says: after the local checks their breaks are right for untouched invoices
(`LocalTold`); of every company the run is done with the breaks are right, or it is
reported as failed, and of every other there is none (`RealmsTold`); the index has the
bills of untouched invoices as they are (`IndexTrue`); before the second look the
mismatches found are those of the index and the suspects are the rest (`SuspectsTrue`).
`CompanyTold` is the step in common of a company that ends well and one that fails.
People and workers beside the run are `Steady`: they leave what is told of an untouched
invoice as true as it was, which for bills that several invoices share holds because a
posted invoice keeps its bill. Up to there a mismatch is what `compare_totals` finds
(`RecordTells`); what that says of the amounts is arithmetic: in a currency of two
decimals an amount is rounded to itself (`WholeHundredths`), and two that are a hundredth
apart are not rounded to the same (`ApartIsTold`).

`BillProofs`, for `References`: `TypeCorrect`, `ReferencesAreFresh` (`FreshEnough`) and
`VendorsAreMadeOnce` (`VendorMadeOnce`), for any workers, entities, spellings, request ids,
similarity of names and bounds, and whenever request ids are forgotten. The trust of a key and id is the time since QuickBooks
or a person last had them together. A row is at least as old as that (`RowsTrusted`),
what is about to be written was had no time ago (`TasksTrusted`). What was made for a
request id that was never forgotten is what it answers (`Remembered`), what was made and
not changed still has its name (`MadeIsThere`), and so a request on its way for a name
that was made would be answered, for it found no such name when it set out and nothing it
waits for is forgotten (`Answered`): no name is made twice (`NoTwins`).

`BillProofs`, for `Reading`: `CleanIsUndoubted` (`CleanIsTrustworthy`),
`BillIsAsApproved` (`SentAsApproved`) and `SoundIsPosted` (`SoundIsNotParked`), for any
readings, thresholds, limits and numbers of lines. The gate judges what the row keeps
(`GateOK`), the total of the row is that of the reading (`PathOK`), and what was parked
with a total was refused by one of the checks (`ParkOK`). `SoundIsPosted` also needs to
know what two folds come to: `SumsExist` shows that the recursive function of a fold
exists, and `SumsAgree` that the set of sums of the second check has the sum of the lines
as its only member, both by a first position at which they would not
(`LeastNatural`, from the well-foundedness of the natural numbers).

Assumptions. `PostingConstants`, `ExtractionConstants`, `RelayConstants`,
`TokenConstants`, `SpendConstants`, `ThrottleConstants`, `ReadingConstants`,
`ReferencesConstants` and `ReconcilerConstants` say that bounds are natural numbers, that
the null values are not members of the sets they stand beside, that functions have their
domains, and where the code bounds a number of things (workers, ids) that there are
finitely many. `ReconcilerConstants` also says that a minor unit is a thousandth, a
hundredth or a whole, and that the bill made for an invoice has an amount of the model. `ReadingConstants` says of an answer what its schema does, and of the two
thresholds what `config.ts` does.
TLC evaluates them in the runs.

Left to TLC: `JobsSettle`, `DeliveredUnlessParked` and `LockIsFreed`, because
liveness under fairness is beyond TLAPS, and the counterexample of
`extraction_clean`.
Every invariant and every action property of a passing run is a theorem.

## 6. What the code does differently from what it says

Shown by a run (`findings` in `PROJECT.json`):

* `extraction_clean`: the worker sends a clean invoice from `extracting` to
  `pending_approval`, an edge the adjacency list does not have; the save is rolled
  back and the invoice parked. `Reading` has the same step and comes to the same end.

Met while modelling, without a run:

Posting.

* Guard 4 protects only rows already in `posting`. An invoice parked although its bill was
  committed (an answer that names no bill), re-extracted and approved again after the
  requestid expired goes through the claim path and is posted twice, against "it must be
  impossible" of `post-invoice.ts:5-7`. `OneBillPerInvoice` without its conditions has
  this counterexample in the instance of `posting_single`, in 19 states.
* Fault 6240 links whichever single bill carries the DocNumber, without a look at the
  PrivateNote (`post-invoice.ts:229-239`): of two vendors that number alike, the second
  invoice is posted with the first one's bill, and the reconciler reports that
  "a guard failed" (`reconcile.py:132-136`).
* A non-retryable error raised outside the `try` blocks (a disconnected tenant,
  `post-invoice.ts:106`, `:150`) completes the job and leaves the invoice in `posting`,
  against `main.ts:149-150`.
* Two bills with the DocNumber make `findBillByDocNumber` answer null, which reads as
  "not there"; it looks for the untrimmed first characters of the number.
* `invoice.approved` is written without `realmId` (`invoices.ts:257-261`), the
  relay forwards `''` and `asRealmId('')` throws in the worker. `Posting` models
  `postInvoice` for a job that carries its realm.

Extraction, relay, tokens.

* `main.ts:145-146` calls a redelivered job a no-op. A worker that loses the claim
  gets a ConflictError, which is not retryable, and its parking UPDATE fails the
  invoice the winner is extracting.
* `ingest.ts:130-132` calls a committed job "guaranteed to be delivered"; a row whose
  attempts were used up by an outage is never tried again (`relay.ts:201`).
* `invoice.received` is written without `invoiceCreatedAt` (`ingest.ts:133-138`);
  the relay fills in its clock (`relay.ts:78`), which the compare-and-swap of the
  claim never matches. `Extraction` keeps the set `Dated` for it.
* `toAppError` makes unknown errors retryable (`errors.ts:152-159`), the comment
  above it says otherwise (141-147).
* A retryable failure, or a crash, after the claim leaves the row `extracting`; the
  next attempt skips it (`main.ts:147-150`) and nothing brings it back.
* `buildBill`'s transient failures are parked as permanent (`post-invoice.ts:156-163`).
* A refresh that was under way when the user disconnects makes the connection
  active again: `upsert` sets the status unconditionally. `recordFailure` and
  `revokeToken` have no caller, so a dead connection stays `active` and every
  request tries the dead refresh token again. A wait for the advisory lock ends
  after `statement_timeout` (15 s), an exchange may take 30 s.
* Two notifications of one invoice share a job id; while BullMQ keeps the first, the
  second is swallowed although its row counts as published.
* `requeueBlockedInvoices` (`vendors.ts:292-317`) moves rows to `pending_approval`
  outside the table, and matches none, since no code writes the finding it looks for;
  the webhook route and `buildBill` append findings without a version bump.
* `post_attempt_epoch` is never increased, `voided` never written, and a bill found by
  recovery is linked without an `invoice.posted` event.

Budget, gate, rate limiter.

* `spend-tracker.ts:14-15` says a lost counter "costs one re-seed query, not a lost
  budget". The seed misses what was rolled back and counts by the month an invoice was
  created in, so the budget is larger afterwards; that it is never smaller is
  `NeverOvercharged`. `reconcile` has no caller. A resent `INCRBY` would count twice.
* `main.ts:223-225` and `spend-tracker.ts:169-171` say that a burst overshoots by one round
  of calls in flight. The budget is asked once per job, and a job let through may make two
  calls, so the bound that holds (`OvershootBounded`) has two for every worker; in the
  instance of `spend` two workers spend three calls past an empty counter.
* An exhausted budget writes no event, although the invoice goes to review.
* `penalise` (`rate-limiter.ts:191-199`) dates the bucket in the future; the first
  refused acquire dates it back, and the key lives shorter than a long Retry-After. It
  is not called for a plain HTTP 429 (`client.ts:190-203`).
* With clocks that differ, each change of caller refills the difference again, against
  "no drift" (`rate-limiter.ts:44`); `RateBounded` is stated for clocks that agree.
* The body of an answer is read outside the timeout (`client.ts:163`) and the heartbeat
  of the gate has no caller, so a request may outlast its leases.

Amounts.

* Lines net of tax are posted without the tax, since `buildBill` never passes
  `lineTaxRefs` (`bill-mapper.ts:94-96`): the bill is short by the tax.
* The second check parses `toFixed(2)`: it refuses every currency without decimals, and
  amounts of three decimals that do not end in zero.
* A second opinion that failed leaves a reading between the two thresholds routed
  without review (`main.ts:257-261`). A critical field without a confidence is ignored.
* The approval limit is compared in minor units of whatever currency.

References.

* A fuzzy match ignores the age of a row, against the comment at
  `reference-resolver.ts:50`. A link holds for a day or until the next webhook, against
  "the cache makes it once" (`vendors.ts:104-105`).
* `vendors.ts:231` says "Deterministic per name so a double-submit cannot create two". It
  is one id for all names of one key, and for all keys that begin with the same 40
  characters (`vendors.ts:232`): a creation of another company with a name as long is
  answered with the first one's vendor, and the cache rows of the new name point to it. So
  is a creation repeated after the vendor was removed. `FreshEnough` leaves these keys out
  (`replayed`).
* Once the request id is forgotten, only the look for the display name is left
  (`vendors.ts:207-218`). It compares the spelling, so the same vendor under another
  spelling of its key is made a second time; so it is under the same one, if people
  renamed or deactivated the first.

Reconciler.

* A bill committed and not yet recorded when its realm is read is reported an orphan,
  and so is a bill dated in the window whose invoice was created outside it.
* `compare_totals` is called without an exponent (`runner.py:173`, `:199`), so it takes two
  decimals for every currency, against `test_reconcile.py:73-75`: a bill of 0.01 KWD made
  for 10 minor units counts as 1 against 10 and is recorded as a mismatch.
* A failed statement aborts the transaction of the run, since the handler at
  `runner.py:258` does not roll back: the remaining realms fail and nothing is persisted,
  against "one tenant's failure does not fail the run" (`runner.py:8-10`).
* A realm whose token cannot be opened is only logged. A failed second look drops the
  mismatches its realm had so far.
* With `DATABASE_REPLICA_URL` set, the report too is written over the connection to the
  replica (`cli.py:106-107`, `reconcile.py:163`).
* Breaks exit with 0 unless `--fail-on-breaks` is given, against `cli.py:3-7`.

Scheduler.

* `checkStalledPipelines` resets the gauge that `checkExpiringConnections` writes too
  (`tasks.ts:216`, `:260`), so each of its sweeps clears the warnings of the other.

## 7. What is left

Not modelled:

* Ingest (`ingest.ts`): deduplication is one `INSERT ... ON CONFLICT DO NOTHING` on a
  unique index inside one transaction. A model would have to assume of the index the
  very thing a property could say. The state it leaves is where `Extraction` and
  `Relay` begin.
* Scheduler (`tasks.ts`): sweeps that set gauges, log and create partitions; nothing
  else reads them.
* Pool: PostgreSQL's row security carries the property; the code sets one variable
  and resets it.
* Credit notes: no caller outside tests. Review page, storage, cryptography, the
  stateless checks of authentication, configuration, logging, metrics: no state that
  a schedule could disturb.

What a later extension would take up: a composition of `Extraction`, `Reading` and
`Posting` over one row in place of the environment actions; clocks that differ in `RateBounded`, once the
code bounds what they do.
