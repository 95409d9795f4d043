# A verification project for the ticket system

The repository is a ticketing backend: a FastAPI application, an arq worker with
cron jobs and a stream consumer, Redis as the place where tickets are really
sold, Postgres as the record of orders, and Stripe for payments. What makes it
hard is that no single transaction covers a sale. A ticket is taken by a Lua
script, its order is written by another process later, paid through a third
party that calls back, and given back by whichever of several processes notices
first. Each of them can die between two of its steps.

This directory holds TLA+ models of that machinery, TLC runs on small instances,
and TLAPS proofs for every instance. It answers one question in several forms:
*can tickets, seats, quotas or money be lost, duplicated or given to two people
by some order of legal steps and failures?*

## 1. Inventory

| Component | Source | State | Operations | Hard part |
|---|---|---|---|---|
| Inventory and asynchronous ordering | `services/inventory.py`, `services/orders.py`, `worker.py`, `api/v1/orders.py` | stock and quota counters, idempotency claims, order stream with pending list, dead-letter stream | reserve script, consume, reclaim, dead-letter, poll, release script | crash between commit and ack, reclaim racing a slow consumer, at-most-once refund |
| Order state machine and outbox | `crud/order.py`, `services/orders.py`, `models/outbox.py`, `worker.py` | order status, outbox rows with lease and attempts, released markers | compare-and-swap transitions, fast-path release, relay, redrive, purge | three writers race for one PENDING order; the release must happen exactly once although it is attempted by many |
| Seat allocation, run structure | `services/seat_runs.py`, `models/seating.py` | free runs with boundary tags in Redis, `seat_holds` with an EXCLUDE constraint | read-compute-CAS claim, release with merge, rebuild | ABA, stale tags, two stores changed in two steps |
| Seat allocation, placement | `services/seating.py`, `services/seat_runs.py` | strict-miss counter, relaxed flag | `candidates`, `legal_anchors`, `occupy`, `release`, the attempts of `reserve_seats_and_enqueue` | a draw among few anchors without enumeration, a choice on an old snapshot, a policy that refuses too long |
| Payment lifecycle | `api/v1/webhook.py`, `api/v1/orders.py`, `services/abandoned_payments.py`, `services/stripe_client.py` | payment intents at Stripe, `stripe_events`, order status | create intent, webhook, refund, timeouts T1 and T2, cancel and void | duplicated, late and reordered events; payment racing expiry; crash after commit |
| Waiting room | `services/waiting_room.py`, `services/queue_events.py` | lottery set, cached window, breaker key, used passes, streams and their mailboxes | register, status, stream, poke, verify, refund | single use under concurrency, window moved by an admin, lost pokes |
| Event cache | `services/event_cache.py`, `core/singleflight.py` | cached meta, fenced lock, flights | get, fill, invalidate | stampede, dead leader, fill racing invalidation |
| Authentication | `api/v1/auth.py`, `crud/refresh_token.py` | refresh-token families | login, rotate, logout, revoke, purge | reuse detection under concurrent rotation, bulk updates that miss a new row, deadlocks |
| Login protection, rate limit | `services/rate_limit.py` | window counters | peek, hit | check and count are two steps |
| Event administration | `services/event_admin.py`, `db/optimistic.py`, `services/publish_event.py` | event rows with a version | patch, publish | lost update, fields frozen after publishing |
| Audit pipeline | `services/audit.py`, `worker.py` | audit stream and dead-letter stream, monthly partitions and DEFAULT | emit, consume, reclaim, dead-letter, create partitions, purge | crash between commit and ack, poison in a batch, trimming, a partition that can no longer be created |
| PII, key rotation, erasure | `services/pii.py`, `services/erasure.py`, `worker.py` | encrypted rows, key rings of the running tasks | register, rewrap, erase, deploy | rotation racing a write, erasure racing a login |
| Recovery and operations | `services/inventory.py`, `worker.py`, `scripts/` | cursor of the dead-letter alarm, audit rotation | drift detection, reconcile, rebuild, key purge, breaker | reads several stores at different times; Redis may be lost |
| HTTP layer, schemas, configuration, infrastructure | `main.py`, `api/`, `core/`, `schemas/`, `alembic/`, `infra/`, `loadtest/`, `monitoring/`, `nginx/` | none | plumbing | – |

How they interact. `POST /orders` runs the reserve script (or, for seated events,
the read-compute-CAS of `seat_runs.py`), which takes tickets, charges the quota,
writes the claim and appends the intent to the stream in one atomic step. The
consumer (or the reclaim cron) turns the intent into an order row and, for seated
events, a hold. Payment, T1, T2, cancel and webhook then compete to move the order
out of PENDING by compare-and-swap; the transitions that owe tickets put an outbox
row into the same transaction. The tickets go back through the fast path right
after the commit, or through the relay, both guarded by a `released:` marker.

What makes each part correct is in the properties of section 3; `PROJECT.json`
lists the hazards, at the line where each one bites.

## 2. Modules

Control is kept: every Redis script, SQL transaction, MULTI/EXEC block and Stripe
call is one action, and everything a process remembers across an await is a
variable. Data is abstracted: an order, its idempotency key and its intent share a
name; prices, payloads, logs and traces are left out.

| Module | What it is |
|---|---|
| `Requests` | buyers, requests, quantities; `Units`, tickets as a set so that sums are cardinalities |
| `TicketSale` | abstract: a request takes tickets, keeps them (sold) or returns them once; stock and quota follow |
| `OrderPipeline` | the counter-based order pipeline, mapped to `TicketSale` |
| `PaymentDeal` | abstract: an order is open, kept or dropped, its charge kept or returned |
| `Payments` | payment requests, Stripe, webhook, T1, T2, cancel, mapped to `PaymentDeal` |
| `SeatBlock` | one block of consecutive seats, intervals |
| `SeatMap` | abstract: intervals of seats are taken from the free ones and returned once |
| `SeatRuns` | run structure, claim and release scripts, holds, relay, dead letter, rebuild, mapped to `SeatMap` |
| `EventAdmin` | edits of an event and of its zone prices under optimistic locks, publication |
| `EventCache` | the event meta cache in front of it: single flight, lock between processes, expiry, invalidation |
| `AuditTable` | the partitioned audit table, the job that creates partitions and the purge |
| `AuditTrail` | the audit stream in front of it and the passes of its consumer |
| `InventoryRecovery` | the life of an event's counters: sale, loss of Redis, drift cron, operator's script, purge |
| `SeatPlacement` | the placement algorithm as operators |
| `ZoneSale` | `reserve_seats_and_enqueue` with the placement really chosen, and the strict-miss ratchet |
| `AdmissionTokens`, `QueueMonitor` | the single-use pass in front of an order; the cron that opens and closes the breaker |
| `WaitingRoom` | the draw, the rate, the streams and their pokes, composed with the two |
| `ApiRequests` | users, and requests that are served one await at a time |
| `LoginGuard`, `Sessions`, `BuyerInfo` | failed-login counter; refresh tokens; encrypted buyer data and key rotation |
| `Accounts` | login, logout everywhere, registration and erasure, composed of the three |
| `MCOrderPipeline`, `MCSeatRuns`, `MCEventCache`, `MCAuditTrail`, `MCInventoryRecovery`, `MCZoneSale`, `MCWaitingRoom`, `MCAccounts` | constants and bounds for TLC (the other modules are checked directly) |
| `OrderPipelineProofs`, `InventoryRecoveryProofs`, `PaymentsProofs`, `SeatProofs`, `EventCacheProofs`, `AuditTrailProofs`, `WaitingRoomProofs`, `AccountsProofs` | theorems and their proofs |

Definitions marked *Variant* are single defects of the definition that follows
them (a dropped guard, a swapped order); no specification uses them. `PROJECT.json`
pairs every checked property with a variant that breaks it.

### OrderPipeline

`available`, `purchased`, `claim` are the Redis counters, the quota hash and the
idempotency claim. The stream is `fresh` (not delivered) and `pel` (pending), with
`deliveries` and `idle` per entry. `status`, `outbox`, `attempts`, `leased` are
Postgres. `batch`/`acking`, `rpc`/`rkey`/`rtimes`/`rseen`, `fast`, `rows`/`marking`
are what consumers, reclaim passes, the fast path and relays hold in memory; a
crash empties them. `taken` and `returns` only observe.

* `Reserve` is `_RESERVE_AND_ENQUEUE_LUA`. `ReadBatch`, `ConsumePersist`,
  `ConsumeAck` and their failures are `_consume_batch`.
* `ReclaimScan` … `ReclaimAck` are `reclaim_stale_order_intents`; the dead letter
  is four separate steps because `_dead_letter_intent` awaits between the look-up,
  the copy, the refund and the claim.
* `ExpireOrder`, `CancelOrder`, `ConfirmPaid` are the compare-and-swap transitions;
  PAID and CONFIRMED are one step because one transaction takes both.
* `FastRelease`, `OutboxClaim`/`Handle`/`Mark`, `LeaseExpires`, `Redrive`,
  `PurgeOutbox` are the release paths. Marker expiry is an action.

Nothing is switched off. Two circumstances that the code does not survive are recorded
in history variables instead, and the properties name them. `overlapped` are the
requests that were dead-lettered while another process still had the intent in its
hands: the reclaim cron goes by the delivery count alone (`ReclaimClaim`), and a
consumer may be slow with a batch of up to 500. `lapsed` are those whose 24-hour marker
expired while a release was still to come. Both together are `Excused`. An overlap can
sell tickets of a live order (`NoOversell`), break the buyer's limit and the counters at
rest (`LimitHolds`, `SettledCountersMatch`), return tickets twice when the order expires
after the refund (`ReturnedAtMostOnce`) and turn FAILED into READY (`PollIsFinal`); a
lapsed marker can return tickets twice and so spoil the counters. The exception is as
narrow as the damage: the stock is shared, so one excused request excuses it; a quota
only when the request is that buyer's; returns and answers only for the request itself.
`NoIntentLost`, `DebtIsRecorded`, `IntentsSettle` and `DebtsArePaid` have no exception.
In `ImplementsSale` an excused request may, beyond the steps of `TicketSale`, give its own
tickets back again (`StrayReturn`).

### Payments

Stripe is a process with an intent per order, events that it delivers any number
of times in any order until they are answered (and may stop afterwards), and
idempotent create and refund calls. Webhook executions read the order, decide and
commit in separate steps; the insert into `stripe_events` is the lock between two
of them. `age` abstracts the clock to "older than T1" and "older than T2".
Circumstances: *miscapture* (another amount than the total; it leaves the order
PENDING behind both sweeps, an exception that `PendingEnds` names) and *lost*
(the process dies between the commit of a webhook and the refund, the exception
that `ChargesAreAnswered` names).

### SeatRuns

`runs[s]` is the length of the free run that starts at `s`, `ends[e]` the start of
the run that ends at `e`: the two Redis hashes. `CutRuns`/`CutEnds` and
`MergeRuns`/`MergeEnds` are the claim and the release script field by field.
`ReadAndPick` is the snapshot and any placement inside one of its runs
(`legal_anchors` picks one of them), `ClaimSeats`/`ClaimRefused` the script.
`ReadHold`, `DeleteHold`, `ReturnSeats`, `MarkProcessed` are `release_order_seat`
as run by the fast path (a key) or a relay. The stream is reduced to `inflight`
and `doomed`, since OrderPipeline is about it; the counters of the event and of
the buyer move in the same scripts as the zone's `left` and are left to
OrderPipeline too. A release may fail or die at every step, the one between the commit
that deletes the hold and the Redis call included; `torn` remembers the requests to
which that happened. A consumer may commit an order during or after the dead letter of
its intent (`PersistIntent` of a `doomed` request), the dead letter may die between its
steps (`DeadLetterFails`), and an operator may rebuild a zone during the sale (publishing
always does, before the sale). `Meddled` says that such a rebuild has begun, `Overlapped`
that there is an order whose seats a dead letter has given back, `Disturbed` that one of
the two is the case. From then on runs, tags and counter must still be exact, while the
properties about who has which seat make an exception.

### EventAdmin and EventCache

A row (the event, a zone price) is represented by its version. `OpenForm` fixes the
versions in an administrator's form, `ReadForEdit` is `require_version` together
with the rules of `apply_event_update` and `update_zone_prices` (any of which may
refuse), `CommitEdit`/`EditConflicts` the UPDATE with `version_id_col`. Publication
is five steps, because `publish_event` flushes, then changes Redis, and its caller
commits: `rowLock` is the row lock from the flush to the commit.

`cache` holds the versions an entry was computed from, `lock` the token of a task,
`inflight` the registration of each process. `tpc`/`got` are the program of a task
and what it has read (event and prices are two statements), `held` the tasks inside
the try block of the lock, `lost` those of them that outlived it. A finished task is
"done" until its callback (`Forget`) has run. A failed call inside the lock still
goes through the release; a failed or unanswered Redis call can leave an orphan lock
to its time to live. An entry that disappears, a hit, or an event that does not
exist changes nothing and is not an action.

### AuditTable and AuditTrail

The clock counts days, `MonthLength` of them to a month. `parts` are the months with
a partition; since Postgres refuses a partition whose rows are already in DEFAULT,
the rows of a month are in one place and the number of rows per event (`rows`) is
enough. `EnsureCreates` is one iteration of `ensure_audit_log_partitions`, which may
fail and goes on; `ensured` says that a run went through in this month, `missed`
counts the months without one. A run is assumed to end on the day it starts. The
purge keeps the clock of its start (`cutoff`) and the partitions wholly before it
(`listed`), drops them one transaction at a time, and deletes single rows from
DEFAULT last; time, writes and the other job go on meanwhile.

`gone` is the part of the stream that XADD has trimmed, read or not. `pel`, `times`
and `idle` are the pending list; `seen` is what a pass remembers of XPENDING, `todo`,
`wrote`, `doomed` and `buried` are the entries in its hands, and a crash empties them.
`WriteBatch` is the transaction for the whole batch, `WriteEach` the fallback,
`Bury`/`AckBuried` the two calls of `_dead_letter_audit`; `dead` are the entries that were
copied to the dead-letter stream, `shed` those of them that its XADD has trimmed since (any
number of the older ones; how many it keeps is left out). `NothingVanishes` counts an entry
that was copied as reported, whether it has been trimmed since or not. An entry is good, malformed
(`_audit_row` raises) or rejected by Postgres every time. Two passes overlap when arq
starts the cron again before the last one has ended; an entry that grows idle while
a pass still holds it costs a failure. The listing is not cut at 500 entries, and
the cap of a pass is any number of batches from one on.

### InventoryRecovery

Reserve, persist, end, release and tick off are one step each, because a rebuild
cannot tell their parts apart; what OrderPipeline says about their inside is not
repeated. `LoseRedis` takes the counter, the quotas, the stream, claims and markers
together; intents that a consumer had already read (`taken`) may still be persisted.
`reconcile_inventory` is five steps (backlog, sum, SET, quotas read, quotas written),
run by the cron when the counter is missing and by the script at any time.
`ClaimExpires` is the 24-hour claim of `idempotency.py`. `odd` is a history variable
for what the rebuild is not prepared for: *race* (it summed while a release was owed
or tickets moved, or a forgotten intent was persisted) and *leak* (a key was used
again after its claim had expired).

### SeatPlacement and ZoneSale

The floats of `seating.py` are multiples of a fraction of a seat, `1 / Unit`, chosen so
that the weights in the code and the quality of every seat are whole numbers of it
(`UnitAssumption`, `GeometryAssumption`); such a unit exists for every row length and
every pair of rational qualities that the constraints of `seat_blocks` admit. The
run uses 60. `span`, `decay` and `steps` are the linear fall of the quality from the
middle of a row to its ends. `candidates`, `legal_anchors`, `occupy` and `release` keep their
names. What a buyer gets is not the best placement but any of the first `TopK` anchors
(`TopAnchors`), and `AllLegal` is the reference definition they are compared with. `allocate` and
cuts in the middle of a run, which the sale never uses, are left out. `ZoneSale` runs them: `Call` reads the policy once,
`ReadZone` is the snapshot with the chosen anchor, `Claim` the compare-and-set,
`StrictMiss` and `Ratchet` the two commands of `_record_strict_miss`.

### WaitingRoom, AdmissionTokens, QueueMonitor

Time is counted in ticks, `Tps` to a second, because expiry and marker are truncated
to whole seconds. A rank is the number of smaller scores in the draw; `score` is any
order of the users. `AdmittedCount`, `QueueState` and `AdmitDeadline` are the formulas
of `waiting_room.py`. `status()` awaits five times, and each read is a step: the stock, the
breaker, the rank, the window, the count. What it has read stays in `saw`, `halted`, `ahead`
and `quota` while registrations, edits and time go on, and `Answer` decides on that. A poll
is these steps; a stream is a loop of them, with a frame at the end, planning its timeout
and waiting; `box` is its mailbox of one poke, `listening` the
subscription of its process, `owing` a poke that is on its way. `peak` (the largest count
that somebody was let in on), `late` (registered after the first admission, or ahead of
one who was let in on an older rank) and `unaware` (a poke was lost since the last read)
are history. A request holds a pass between
`VerifyAdmission` and the end of `create_endpoint`; `SubmitDies` is an exception that
is no DomainError, after which the pass stays used. The monitor's `recent` and `basis`
are history: what really came since its last run.

### ApiRequests, LoginGuard, Sessions, BuyerInfo, Accounts

`req[p]` is what a serving process is at; a login is peek, verification, hit or clear,
issue. A login that dies between the verification and the hit, so that its guess is not
counted, is not modelled. Postgres runs READ COMMITTED: a bulk UPDATE or DELETE works on
the rows it saw when it started (`snap`), locks them one after another (`LocksRow`, `got`),
waits for locked ones with all it has in its hands, and misses what is inserted meanwhile.
Transactions that wait for each other in a circle (`Deadlocked`) lose one of them
(`DeadlockVictim`): logouts and refreshes with the row of their FOR UPDATE, logout of all
devices, the erasure and the purge with the rows they have reached. The erasure is four
steps, as in `erasure.py` and its caller: `EraseDeletes` (refresh tokens), `EraseShreds`
(buyer data), `EraseMarks` (the user's row, which from here on is locked and makes inserts
that refer to it wait: `Unmarked`), `EraseCommits`. `raced` (a family got a child during its
revocation), `doomed` (tokens a revocation set out to revoke), `spared` (tokens that only a
deadlock victim wanted to revoke), `late` (an erasure met a login, a rotation or a registration,
also one between its own steps: `LateTokens`, `LateInfo`) and `guesses` are history. Key
rotation is from version 1 to 2: each task runs with old or new settings (`ring`), the
cron rewraps in batches, the operator removes the old key when the runbook says that
no row needs it. The limit of batches per run only makes a run shorter, and the next
one goes on; the model's run ends when it finds no row.

## 3. Runs

| Run | Asks | Result |
|---|---|---|
| `pipeline` | one request, a consumer, a reclaim pass, two overlapping relays, three failures, or two requests of one buyer that together exceed the limit: are tickets returned at most once, intents and debts kept, answers final; the limit, the stock, the counters at rest, `TicketSale`; does every intent settle and every debt get paid? | holds, with the exceptions of section 2 |
| `pipeline_overlap` | the dead letter never oversells | violated |
| `payments` | two payment requests, two webhook executions, both sweeps, cancel, two failures, both circumstances: ticket and money, unpaid confirmation, expiry behind Stripe's back, `PaymentDeal`; is every charge answered, does every PENDING order end? | holds |
| `payments_boundary` | T1 never expires somebody who has paid | violated |
| `seats` | two clients against each other, dead letter, slow consumer, fast path and relay in three seats with a failure anywhere, or one client and an operator's rebuild: no shared seat, no conflicting hold, exact runs and counter, recorded debts, `SeatMap` | holds until `Disturbed`, debts but for `torn` |
| `placement` | two clients in a row of seven: is the draw among the best legal placements, and is nobody turned away who could be seated; do runs and sold seats tile the row, do strict claims leave orphans, is a stuck zone noticed? | holds |
| `events` | two administrators edit and publish while two processes read: lost updates, PUBLISHED without stock, two computations at once, a lost lock, unanswered readers, stale entries | holds |
| `audit_trail` | two overlapping passes with poison, two failures and trimming, or one pass against the partition job and the purge over three months: does an entry vanish, does poison spread, where do duplicates come from, who fills DEFAULT, is the retention kept, does everything land and go? | holds |
| `recovery` | Redis is lost while two orders compete for one ticket; cron and script rebuild: are counters exact at rest, does every oversale have one of the known causes, is every difference reported? | holds |
| `waiting_room` | one user on a stream, another polls and buys the last ticket, which comes back; a moved window, lost pokes, a reconnecting subscriber, the breaker: is the rate kept when each read of `status()` has its own time, does a stream sleep on news? | holds |
| `admission_pass` | one pass, two orders at once, requests that die, failing refunds, the breaker: do pass and order go together, does the breaker look at news only, is every waiter told? | holds |
| `accounts` | three requests, two at a time, of every kind, purge, time and a key rotation: guesses under the lockout, revocations under deadlocks, grace, erasure, readable rows, end of the rotation | holds |

The properties, by what they are for (names in parentheses are the parts that an
invariant is made of):

* *Nothing is sold twice*: `CountersAreSound` (`NoOversell`, `LimitHolds`,
  `SettledCountersMatch`: at rest Redis equals what `reconcile_inventory` would
  compute), `ReturnsAreSound` (`ReturnedAtMostOnce`, `DebtIsRecorded`,
  `NoIntentLost`), `SeatsAreSound` (`NoSharedSeat`, `HoldsNeverConflict`,
  `RunsAreMaximal`, `CounterMatchesRuns`), `PaymentsSafe` (`NoTicketAndRefund`,
  `ConfirmedIsPaid`), `DriftHasCause`, `RestIsExact`, and the three refinements
  `ImplementsSale`, `ImplementsDeal`, `ImplementsSeatMap`.
* *Nothing is lost*: `SeatDebtIsRecorded`, `IntentsSettle`, `DebtsArePaid`,
  `ChargesAreAnswered`, `PendingEnds`, `DriftIsSeen`.
* *Nobody is treated wrongly*: `PollIsFinal`, `T2SparesPayers`, `NoLostUpdate`,
  `PaceIsKept`, `PassMatchesOrder`, `WaitersAreTold`, `StreamsAreSound`,
  `BreakerIsFresh`.
* *Seats are used well*: `DrawIsAmongBest` (fewer than TOP_K of all legal placements beat the
  one drawn, and a single ticket cuts a run only when single seats are scarce),
  `StrictLeavesNoOrphan`, `ZoneIsSound`.
* *The trail is complete and no longer than it has to be*: `AuditIsSound`
  (`NothingVanishes`, `PoisonIsContained`), `EventsLand`, `DuplicatesNeedFaults`,
  `RetentionIsKept`, `OldRowsGo`; `DefaultIsAlarm` says what rows in DEFAULT mean.
* *What is shown is what is stored*: `CacheIsSound` (`OnSaleHasStock`,
  `OneFlightPerProcess`, `LockIsKept`), `CacheConverges`, `ReadersAnswered`.
* *Accounts and personal data*: `LockoutBoundsGuesses`, `RevocationIsSound`
  (`SurvivorNeedsRace`, `RevocationLands`), `GraceRunsOnce`, `PiiIsSound` (`RowsOpen`,
  `ErasedUnlessLate`), `RotationEnds`.
* *What the repository says of itself and does not keep*: `DeadLetterNeverOversells`
  and `ExpirySparesPayers`, the two violated ones.

### Findings

Shown by a run of its own:

1. **T1 and the payment boundary** (`worker.py:193`, `payments_boundary`). The
   `payment_provider_id IS NULL` filter is applied at selection only.
2. **Dead letter against a slow consumer** (`worker.py:1117`, `pipeline_overlap`). The
   look-up "is the order persisted?" and the refund are separate calls, and the reclaim
   cron asks only how often the entry was delivered; a consumer that still has the entry in
   memory commits in between, while `worker.py:1106` says that the refund "can never
   oversell". For seats, the same (`Overlapped`).

Named as an exception in a property:

3. **Torn seat release** (`orders.py:134`, `torn` in `SeatDebtIsRecorded`: without it
   TLC finds the failure). After the hold is deleted, a retry takes its absence for
   success (`orders.py:130`) and the outbox row is marked processed, while `orders.py:96`
   says that the row "guarantees the relay eventually releases the seat". The docstring
   of `release_order_seat` (`orders.py:113`) knows of it. Nothing else loses a debt.
4. **Rebuild during a sale** (`seat_runs.py:202`, `Meddled`: without it
   `NoSharedSeat` fails). The backlog is checked once, the overwrite
   comes two round trips later. `reconcile_inventory` has the same shape
   (`inventory.py:323`, *race* in `DriftHasCause`), and it reads Postgres twice, once
   for the stock and once for the quotas.
5. **Lost refund** (`webhook.py:120`, *lost*, named in `ChargesAreAnswered`). Claim and
   status commit together, the refund follows in process memory. And an order whose
   capture was wrong stays PENDING (named in `PendingEnds`).
6. **A key that outlives its claim** (`idempotency.py:8`, *leak*): tickets of the
   second intent stay reserved for nobody until the drift detector reports them.
7. **A child of a revoked family** (`refresh_token.py:74`, `raced`) and **a login or a
   registration during an erasure** (`erasure.py:41`, `late`): a bulk statement does
   not see a row that is committed after it started, and the erasure has deleted the
   buyer data before it locks the user. The survivor can be used until
   it expires. Likewise **a revocation that Postgres ends in a deadlock** (`auth.py:287`,
   `spared`): logout of all devices against the logout of one can lose the former, and
   nothing retries it.
8. **The last second of a pass** (`waiting_room.py:253`). The marker lives for the
   truncated remainder of the pass, so it is gone up to one second before the pass
   expires; `UsedPassIsRefused` therefore speaks of the time before that second.

And by reading `EventCache`: **a draft is cached again** (`publish_event.py:78`).
The key is deleted before the caller commits, so a reader in between stores the
draft for another 60 seconds; `CacheConverges` only promises that it ends.

Two remarks in the audit code say more than the code does. The alert of
`_dead_letter_audit` ("it will never reach Postgres") is wrong for an entry whose
rows were committed before a pass died: such an entry may be both in Postgres and in
the dead-letter stream. And a look-ahead of one month is not "enough to cross a
month" (`worker.py:446`), since the window starts with the current month: with
`Lookahead = 1` rows go to DEFAULT from midnight until the job's first run.

### Bounds

One request is enough to exercise every pair of processes of the pipeline, since
requests meet only in the counters. A consumer and a reclaim pass overlap on an entry,
two relays on an outbox row. `MaxDeliveries` of two makes "first time", "again" and
"exhausted" distinct. `MaxFaults` bounds failures per behaviour; three allow one in each
of consumer, reclaim and relay, or a dead letter that dies half way, and as many exhaust
`MaxAttempts` of a row. A circumstance that excuses a request counts as a failure there
(`Bounded` in `MCOrderPipeline`), so both the excused and the unexcused behaviours are in
the run. A second request, which the limit refuses while the first holds its ticket, joins
where nothing has gone wrong, or after the first was dead-lettered; the second relay works
at the same time only where at most one thing has gone wrong.
One order suffices for payments, where orders share nothing but
the sweeps' batches; two webhook executions are the least that race. Three seats
with requests of one and two make every case of the merge happen (no neighbour,
left, right, both), and two clients are needed for a run that shrinks under a
snapshot. `Bounded` in `MCSeatRuns` keeps three questions apart: two clients and a dead
letter without a failure; one client after a failure; one client and one release at a time
after a rebuild or an overlap. For the cache, two processes with a reader each compete for the lock and
starve each other if nobody looks at the deadline; two tasks in one process are the
least in which a callback meets a later registration; two administrators and two
versions make every conflict happen. For the audit trail, two entries are the least
that share a batch, one of them poisoned in either way; `MaxLen` of one lets the
trim reach unread entries; `MaxDeliveries` of two lets a reclaimed entry be written
again before it is given up; the table needs three months for a partition that the
job failed to create (`Lookahead` of two), and two days to a month so that a month
can straddle the cutoff; there the stream carries one good event, written at any
later time. `DefaultIsAlarm` counts the missed months over the whole behaviour (`missed`), so over
a long time it says less than over the few months of the run. `Bounded` in `MCAuditTrail` keeps the two questions apart: passes against
each other while the calendar stands still, or one pass against the calendar. In the
same way `Bounded` in `MCEventCache` lets a fault, a second administrator, a second
task in a process and a zone edit happen one at a time. The proofs cover all other
values.

In `recovery` one ticket and two orders of one buyer make every double count an
oversale and a broken limit; one loss of Redis is enough for a rebuild to meet
everything else, and a second would find the same. In `placement` a row of seven is
the shortest with room for two large orders and a single seat, and returns leave runs in
every place; requests of one and three make the strict policy refuse; a `TopK` of two (the code has 16) is the least that
makes a draw, and the zone soon has more anchors than that. In `waiting_room`
two users are the least whose ranks change, two ticks make a second so that
the edges of intervals are seen, and the clock stops after the last closing plus the time
to admit both; one is on a stream and one polls, and all five reads of both interleave with
registrations and edits. One ticket and one request let the sale sell out and restock
between a stream's read of the stock and its wait. `Bounded` in `MCWaitingRoom` admits an edit or a failure, not both. `admission_pass`
gives up the second user for two concurrent requests with one pass and for the monitor; one
dead letter and a `Cap` of zero are the least with which the breaker trips, so a
cursor that is lost from Redis and the length of the count are not seen there.
In `accounts` three requests, two at a time, are a
revocation, the rotation it races with and a third that finds out; a family starts with
a used and a fresh token so that reuse can happen at once, and two keys and one row per
batch make every order of rewrap, registration and removal happen. `Bounded` in
`MCAccounts` admits the third request before the rotation of the key only; a registration, an
erasure and the cron are what meets in a rotation.

### Fairness

Weak fairness of the consumer loop, the crons and the relay (arq starts them every
minute and an exception in one entry does not stop the next pass), of running
handlers and of the fast path, of time (entries become idle, leases expire, orders
grow old, cache entries and orphan locks expire, but audit months need not pass), and of Stripe's delivery until it
is answered. A task that polls for ever meets its deadline (strong fairness of
`Fallback`), because the deadline is a fixed instant of the monotonic clock. Nothing is assumed of
buyers, operators or clients: they may stop at any step. Failures are finitely
many: in `pipeline` three, which is fewer than the fast path and three
attempts of the relay; a row whose attempts are exhausted waits for an operator, as
the code's dead pile says. Deadlock is checked in every run but
`accounts`, whose users may stop calling, and `recovery`, whose event ends;
elsewhere `Quiescent` or a loop of the environment is the only way to stop.

In `recovery` the drift cron is strongly fair: it has to see an empty backlog again and
again, not all the time, since it asks every five minutes, and every event has its turn
in the audit of the quotas (`_quota_audit_due`). In the waiting room the clock runs on,
the browser reconnects, the subscriber retries, the monitor runs again and the backlog
drains; a stream that is woken or due is served before the clock moves (`Prompt`),
which is the event loop answering within a tick. In `accounts` a started request is
served on and the rewrap cron runs; nobody has to deploy or to remove a key.

## 4. Proofs

All for arbitrary sets of requests, orders, users, clients, consumers, relays and
handlers, arbitrary quantities, capacities, stocks, limits, rates, lifetimes and
numbers of failures. The inductive invariants were first checked by TLC as invariants
of the runs.

* `OrderPipelineProofs` (no assumption on failures). `PipelineInv` says of each request
  what each process may believe at each step: a reclaim pass past its check knows
  that the row still does not exist, because a doomed entry has no other holder unless the
  request is `overlapped`; tickets of an intent come back only through the dead letter,
  those of an order only after it left PENDING, each once and with its marker in place as
  long as a release may still come, unless the request is in `Excused`. The parts without
  an exception, that an entry leaves the stream behind its order or its answer and that a
  row is marked after a return, are separate conjuncts and do not rest on the others. From
  it `PipelineTypeOK`, `PipelineForgetsNothing`, `PipelineReturnsOnce`, the action property
  `PipelinePollsAreFinal`, and `PipelineImplementsSale` step by step. `SaleIsSafe`: in the
  abstract sale, stock plus tickets out is the total, each buyer's charge is exactly what
  the buyer has out, and within the limit. It is stated of `TicketSale` read through the
  refinement mapping; the sums are cardinalities of `Units`, and the lemmas `UnitsAdd` and
  `UnitsRemove` are their algebra. Its two ledgers (`StockLedger`, `BuyerLedger`) are kept by
  every step of `TicketSale`, each on its own; in the pipeline they hold as long as nothing
  is excused, the stock's for all requests, a buyer's for that buyer's (`LedgerInv`), since
  an excuse is never forgotten (`ExcusesStay`) and a stray return touches one buyer only.
  From it `PipelineNeverOversells`, `PipelineKeepsTheLimit`, `PipelineSettles`. The run
  `pipeline_overlap` shows that the exception cannot be dropped.
* `InventoryRecoveryProofs` (any number of losses and rebuilds). A loss of Redis is no
  step of `TicketSale`, so the refinement does not help and the sums are balanced
  directly. `RecoveryInv` claims nothing after a *race*; before one (`BalanceInv`), the
  stock, the orders held, the intents on their way and the releases owed add up to the
  event, and the same for every quota; an equality until a *leak*, a lower bound after
  it (`Covers`). Which releases are owed is the difficulty: a loss takes the markers
  too, so a release that was made is owed again as far as Redis can tell. `StockInv`
  and the sums a rebuild carries in its hands (`SoldInv`, `RowsInv`) therefore speak of
  some set of the outstanding releases, which is all of them unless a rebuild is
  about to read the quotas, where a release still owed is noticed. From it
  `RecoveryTypesHold`, `RestStaysExact` and `DriftAlwaysHasCause`. The algebra of
  `Units` is repeated here: an instance of the other module would have to give a
  meaning to every variable of the pipeline.
* `PaymentsProofs` (any `Allowed`). `PayInv`: a webhook execution before its commit
  holds its event alone and what it read is still true unless it was PENDING;
  refunds, decided or made, are of charges that cannot be honoured. From it
  `PaymentsNoTicketAndRefund`, `PaymentsConfirmedIsPaid`, `PaymentsSparePayers`,
  `PaymentsImplementDeal`.
* `SeatProofs`, the run structure (rebuilds at any time). Four lemmas about the two
  scripts: a cut and a merge keep the runs maximal with exact tags, and take out or
  add exactly their interval. `GapFacts` says where the gaps between the holds begin and
  end, by the least element of a set of positions instead of a recursion, and
  `RebuildZone` that a rebuild offers exactly the seats without a hold, whatever the runs
  were before. `SeatInv` adds what a client may have picked and how
  markers, rows, holds and entries of one request relate. From it
  `SeatRunsStayMaximal`, `SeatCounterIsExact`, `SeatRunsTypeOK`, all without an
  exception; `SeatRunsImplementMap` maps every step to `SeatMap` until the map is
  `Disturbed`, which stays so (`OverlapStays`, `DisturbanceStays`), and the
  separation property of `SeatMap` then gives `SeatsAreNeverShared` and
  `SeatHoldsNeverConflict` up to that point.
  `SeatDebtIsKept` needs `DebtInv` on top: while an expired order has its hold, its
  outbox row is there and no relay is about to mark it; once the hold is gone, somebody
  is on the way to the release script, or the request is `torn`. The script cannot refuse
  the seats before a disturbance, since `SeatsApart` keeps them off sale
  (`ReturnIsAccepted`). Without the exception TLC finds a
  counterexample.
* `SeatProofs`, the sale of a zone (any number of blocks, any row length and quality, any
  number of parallel calls). `ZoneInv` is four parts: types; `Tiling`, every seat in exactly
  one run or one order and no two runs that touch; `PicksFit`, a placement computed from a
  snapshot fits the run it was computed for, which the compare-and-set makes the run
  still there; `RefusalsCounted`, a refusal never counts for more than the misses that
  are on record, without which the bound on refusals is not inductive. From them
  `ZoneStaysSound`. `DrawStaysAmongBest` is about the algorithm: the two ends of a run
  are all its legal cuts (`CandidatesAreAll`, so `legal_anchors` misses nothing), an anchor
  among the first `TopK` in the code's order has fewer than `TopK` better ones, finitely
  many in all (`AnchorsAreFinite`), and an orphan scores above every seat that has to be cut
  off (`OrphanScore`, `SeatScore`, from `CleanCut`: a single rest is the only cut that costs
  anything), so single seats are used up first (`OrphansAreAhead`). The quality of a window
  is a sum (`SumsExist`).
  The inductions over seats are least elements of sets of natural numbers
  (`LeastElement`, `SetInduction`), not the library's theorems with an operator as a parameter.
  `StrictNeverOrphans` is the action property: a claim under the strict policy cuts the
  very run it was computed for, so its age does not matter.
* `EventCacheProofs` (no assumption on failures). Two invariants over disjoint
  variables. `AdminInv`: a request about to commit has read what its form showed
  (`FormsAgree`); a publication past its flush holds the row and its draft is the one
  it read (`RowIsHeld`); stock precedes the commit (`StockIsSet`). `CacheInv`: a
  computing task is the registered one of its process (`Registered`), which, unlike
  `OneFlightPerProcess`, is inductive; and `LockIsKept`. From them `EventCacheTypeOK`,
  `EditsAreNotLost`, `PublishedIsStocked`, `FlightsAreSingle`, `LockIsFenced`.
* `AuditTrailProofs` (no assumption on failures; any length of a month). `TableInv`:
  what the purge has listed was past the retention when it started, and a month
  without a partition tells how many months the job has missed (`MissingTells`, which
  speaks about future months too and is therefore inductive); from it `DefaultTells`
  and `RetentionHolds`. `VanishInv`: what a pass is about to acknowledge is in
  Postgres or in the dead-letter stream; from it `EventsDoNotVanish`. `PoisonInv`:
  each delivery of a good entry, but the one in somebody's hands, has cost a failure
  (`GoodIsFair`); with the shape of a pass at each step (`ShapeInv`) it gives
  `PoisonStaysAlone`. `DeliveriesInv`: the rows of an event and the passes that may
  still write it are together no more than its deliveries; with `GoodIsFair` it gives
  `DuplicatesAreFaults`.
* `WaitingRoomProofs` (no assumption on failures or edits). `RoomInv` has a part for
  each thing a step can spoil. `PaceInv`: whoever holds a pass and registered in time
  has fewer than `peak` timely users in front; counting the users let in is not
  inductive, their places in the draw are, because late registrations do not count among
  those in front, nor do those that land between the read of the rank and the answer.
  `ReadInv`: whoever is past the read of the rank is in the draw. `PaceCount` turns places into a number. `PassInv`: until the last
  second of a pass one request holds it at most, none once it has bought something, and
  the key outlives that second; this is where the truncation of both times to seconds
  is needed (`ExpiryFacts`, `MarkerFacts`). `SleepInv`: what a sleeping stream is overdue
  and what is left of its timeout fit into one heartbeat. `AwareInv`: what a stream
  without a poke in its mailbox or on its way knows at every step between its read and
  its sleep. `CursorInv`: what lies behind the cursor is what came since the last count.
  From them `RoomTypesHold`, `PaceHolds`, `PassesMatchOrders`, `StreamsStaySound`,
  `BreakerStaysFresh`.
* `AccountsProofs` (no assumption on failures). `GuardInv`: every wrong password is
  counted or about to be, and whoever is past the peek has a place left under the bound;
  from it `LockoutHolds`. `SessionsInv`: no row is locked twice, neither by FOR UPDATE nor by
  a statement that has reached it (`LocksInv`), so what a rotation has read of its row is still so (`RotateInv`); a revocation that holds a row
  is about that row's family, and what its snapshot misses was inserted behind its back
  (`RevokeInv`); a doomed token is revoked, raced, spared, or still in the hands of a revocation
  (`DoomedInv`); when a revocation is the victim of a deadlock, what it wanted is
  wanted by another one or spared (`VictimIsCovered`). `FamiliesInv` and `IdsInv` say that a new row joins nobody else's family
  and that an id is left for it. From them `RevocationsHold`, and from `LocksInv` and
  `RotateInv` the action property `GraceIsNotRepeated`. `VaultInv`: the version on a row
  is the one that wraps its key, and the old key goes only when neither a row nor a task
  needs it; `ErasedInv`: nothing of an erased user is left or under way, unless it is
  late (`LateTokens` and `LateInfo` are what the four steps of the erasure let through). Together they give `PiiStaysSound`.

The modules of the first four components and of the audit trail also have a theorem for
the combined invariant that their run checks: `PipelineReturnsAreSound`,
`PipelineCountersAreSound`, `PaymentsAreSafe`, `SeatsStaySound`, `CacheStaysSound`,
`AuditStaysSound`.

Every invariant, every action property and every refinement that the passing runs check
is stated by a theorem. Only model-checked is what holds
under fairness, for which the prover has no rule: `RotationEnds`, `EventsLand`,
`OldRowsGo`, `ReadersAnswered`, `CacheConverges`, `ChargesAreAnswered`, `PendingEnds`,
`IntentsSettle`, `DebtsArePaid`, `DriftIsSeen`, `WaitersAreTold`.

## 5. Not modelled

HTTP, logging, tracing, schemas, migrations, deployment and load
tests (no state of their own); the price of an order (one look-up and one product); the
cryptography (a Rust library); the creation of users, events and zones; the rate limit
per address (a refusal before anything happens); `detect_seat_structure_drift`, which
only reports what `SeatsAreSound` excludes; the `--force` option of the two operator
scripts; `feasible_quantities`, `allocate` and cuts in the middle of a run, which the sale does not
use; a login request that dies between its verification and the failure counter; several zones and blocks in one seat map.
