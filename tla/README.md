# A TLA+ verification of smartdrop-backend

The service indexes a Soroban airdrop contract, keeps off-chain airdrop
records, serves prices and price alerts, and delivers webhooks. It is a Node.js
process, deployed as several replicas that share one Redis. Within a process
nothing runs in parallel, but every `await` lets another callback in; between
processes everything interleaves at the granularity of a Redis command. That is
where the models put their step boundaries. Paths below are relative to
`src/src/` of the repository.

Conventions. A module is named for its component; `MC<module>` and its `.cfg`
files instantiate it for TLC; the modules named `...Proofs` hold the theorems (6),
`DatabaseProofs`, `AuthProofs`, `PlatformProofs` and `LeaderElectionProofs` those of several components. An operator
named `X_Y` is a mutant of `X`: `X` with the plausible mistake `Y`, defined just
before it and used nowhere. `PROJECT.json` pairs each checked property with the
mutant that breaks it, each definition with the source lines it stands for, and
lists the hazards the properties are aimed at. Definitions keep the names of the
functions they model.

## 1. Inventory

| component | state | operations | how it meets the others | hard parts | what makes it correct |
|---|---|---|---|---|---|
| Circuit breaker (`utils/circuitBreaker.js`) | state, failure timestamps, success count, cooldown start, probes in flight; in memory | `call`, `recordSuccess`, `recordFailure`, `reset`, `getState` | wraps Soroban RPC, Horizon, webhook POSTs and the price sources | concurrent callers settle in a state they were not admitted in | exact probe slots, cooldown respected, decisions at once, recovery |
| Leader election (`services/leaderElection.js`, `jobs/leaderAwareJob.js`) | Redis lease `leader:<job>`; per replica a flag, two timers and the job's own state | acquire, renew, release, check, start, stop | wraps the price refresh, airdrop expiry and webhook retry jobs (`index.js:77`) | real time, lost replies, crashes, shutdown | a leader holds the lease, a running job's replica does, bounded failover |
| Webhook delivery (`services/webhookDispatcher.js` `attempt`, `repositories/deliveryRepository.js`, `jobs/webhookRetryWorker.js`) | delivery record, status indexes, `webhooks:retries`, dead-letter list | create, attempt, schedule, pop, update | called by dispatch and by the retry worker of every replica | claims by several replicas, failure between two commands | one attempt at a time, no resend after success, bounded attempts, termination |
| Webhook dispatch (`webhookDispatcher.js` `dispatch`) | deduplication keys, in-flight semaphore | dispatch, batch, deliver | called by the indexer, the alerts, the expiry job | key claimed before the work is done | each subscriber gets each event once |
| Webhook registry (`repositories/webhookRepository.js`) | webhook record, per-event index, lookup cache | create, update, remove, list | read by dispatch and attempt | un-awaited index writes, cascade delete racing deliveries | index agrees with records |
| Event indexer (`indexer/`) | cursor, raw events, three projections | poll, save, project, advance | every replica polls; no leader | replays, lagging nodes, full batches | nothing skipped, cursor monotone, projections complete |
| Airdrop records (`services/airdrops.js`, `routes/airdrops.js`, `jobs/airdropExpiry.js`) | record, id set, recipients list, address set | create, update, cancel, remove, add recipients, expire | expiry dispatches a webhook | read-modify-write against the expiry script | recipients unique, expiry exactly when due, announced once |
| Price alerts (`services/alerts.js`) | alert records, two indexes, cooldown key | create, remove, backfill, evaluate, fire, re-arm | evaluated by the price refresh | an evaluation that timed out runs on beside the next and beside removals | a one-shot fires once, a removed alert is not found again |
| Price oracle (`services/priceOracle.js`, `jobs/priceRefresh.js`, `services/sources/`) | cached price, last reading, in-flight map | get, fetch, detect anomaly, refresh | breakers, alerts, WebSocket | overlapping flights, rejected readings | callers answered, a lasting move served |
| Price WebSocket (`ws/`) | three maps, count per address, missed pings | connect, subscribe, ping, remove, drain | fed by the price refresh | several ways to lose a socket, several drains | maps agree, a drain leaves nobody |
| Stampede protection (`cache/stampede.js`), cache warming (`startup/cacheWarm.js`) | lock keys, stale copies, a pool of fetches | fetch with lock, refresh, warm | HTTP caches, start-up | lock expiry during a slow fetch, time-outs that do not cancel | nobody releases another's lock, waiters answered, one warms at a time |
| Request guards (`middleware/rateLimit.js`, `services/idempotency.js`) | window counters, stored responses | count, look up, run, store | every API request | check-then-act, two commands | limit kept, one run per key |
| Job queue (`services/jobQueue.js`) | queue and processing lists, active count, retry timers | enqueue, poll, execute, retry, stop | e-mail | crash of the claimant, overlapping polls | no job lost but by a fault, runs bounded |
| Redis client (`services/cache.js`, `utils/semaphore.js`) | permits, waiters, client handle | acquire, release, time out, disconnect | everything | time-out racing a hand-off | permits exact |
| Sessions, tokens, logins (`auth/`) | session records and indexes, refresh families, lockout counters | create, touch, end, rotate, revoke, log in, change password | routes | touch racing logout, token presented twice, login racing a password change | an ended session stays ended, tokens rotate, failures bounded |
| Database layer (`database/`, `db/`, `jobs/retryWrapper.js`, `middleware/optimistic-locking.ts`) | pool, rows and row locks, versions, applied migrations, audit rows | connections, transactions, retries, versioned edits, pages, migrations | dashboards, operators | lost answers, lock order, concurrent runners | no lock cycle, nothing done twice or lost, pages exact, audit truthful |
| Query cache (`middleware/query-cache.ts`) | entries, tag sets, TTLs | store, warm, invalidate | routes | three commands against three | an invalidation reaches what it owes |
| Life cycle (`index.js`), delivery counters (`webhookDispatcher.js`) | what runs, open requests, counters | start, signal, stop, exit | all of the above | overlapping shutdowns, start-up racing a signal | nothing cut short, counters durable |
| API keys, admin sessions, other middleware, validation, metrics, exports | see `PROJECT.json` | | | | not modelled (8) |

`PROJECT.json` lists every component, modelled or not, with the reason.

## 2. Plan

Done, in this order: `CircuitBreaker`, `LeaderElection`, `WebhookDelivery` with
proofs; `EventIndexer`, `Airdrops`, `WebhookDispatch`; then the abstract
`DeliveryPromise` and its refinement; `PriceOracle` and `Stampede` (`MCPrices`);
and the seventeen parts of `MCPlatform`.

Then the proofs: the components above, after them the airdrops, the indexer and
the parts of `MCPlatform`, of which `Database` and `ServerProcess` are compositions of their own,
`WebhookDispatch` and `Pagination`.

What is left:

- Proofs: every invariant and every action property of a passing run is a theorem;
  what is left to TLC is liveness. Theorems give the safety half of it: whoever
  waits, waits for something that is still there.
- Composition: `LeaderElection` driving the expiry tick of `Airdrops`, so that
  "ticks of two workers overlap" is derived from a handoff and not assumed. The
  product of their state spaces is beyond the present instances.

## 3. The modules

### CircuitBreaker
`breaker` is the object; methods are functions from object to object
(`TransitionTo`, `MoveToHalfOpenIfReady`, `RecordSuccess`, `RecordFailure`).
`call()` is two actions, because its caller waits for `fn()` in between:
`EnterCall` (refuse, admit plainly or as a probe) and `Settle` (outcome, slot
freed). `Observe` is any getter, since getters prune and may move to half-open.
Timestamps are kept as ages that saturate past the largest difference a
comparison can see, so no clock bound is needed. `Recover` is the dependency
(external).

### LeaderElection
The lease, and for each replica the election and the job wrapper. A Redis
command has three points: sent, executed, settled; a failure may fall before or
after execution. Time is discrete; `Tick` waits for whatever is overdue, which
makes `renewInterval`, `checkInterval`, `commandTimeout`, the TTL and an
event-loop delay `Lag` real bounds. `LeaseTiming` is the relation among them
that safety needs; the defaults (15 s, 5 s, 2 s, 3 s) satisfy it for any delay
below 1.6 s. `Stop`, `ExecuteRelease`, `FinishStop` and `Exit` are the graceful
shutdown, `Down` a process death.

### WebhookDelivery
One action per await of `attempt()` and `update()`, run by agents: the retry
worker of each replica, and one dispatch task per delivery. `Crash` drops what a
replica held in memory. A command that rejects may have been executed, except
where its caller cannot tell. Timing assumption: a retry comes due only after
the attempt that scheduled it has finished recording itself (shortest delay
15 s; what is left takes at most 11 s, see the module's header). Webhook
records are a nondeterministic lookup. Delivery ids are numbered in the order of
their index entries, and `WebhookOf` says whose each is, because every index write
evicts all but the newest `RecentDeliveries` entries (100 in the code) of that
webhook and status (`queueIndexWrite`). The unfiltered index, the TTLs
and removal of the webhook (see `WebhookDispatch`) are left out.

### EventIndexer
`chain` is the contract's event sequence, emitted in an order the contract's
life cycle allows (external). `FetchEvents` answers from a node up to `MaxLag`
ledgers behind, with at most `PollLimit` events. `SaveRaw` is the pipeline, whose
writes all land (`SaveAll`) or fail one by one without the poll noticing
(`SaveSome`); a pipeline that rejects as a whole is an `Abort`. Each
projection is a read step and a write step; `AdvanceLastLedger` is the Lua
compare-and-set. `overlapped` records whether two polls have ever run at once,
`dropped` the events whose raw write failed in a poll that went on.
Left out: adaptive interval, lag alerts, the lazy migration of recipient lists.

### Airdrops
One airdrop, since airdrops share no key but the id set. Requests run `update`,
`cancel`, `remove` and `addRecipients` in the round trips the code makes; ticks
of the expiry job may overlap (a handoff between leaders, or a slow tick).
`MarkExpired` is the Lua script. `CacheDeclared` says whether
`getCurrentLedger()` can read its cache variables: in this commit it cannot
(see 7), and the passing run assumes the evident repair, so that the rest of
the component can be examined. `IntervalSeconds` is the configured interval. The
recipients list is how often it holds each address: no operation reads its order.

### WebhookDispatch
One process's dispatches of one event type, and on any replica the requests that
create, change and remove webhooks. A dispatch goes through its round trips
(`ClaimEvent`, `ListIndex`, `LoadTargets`, `DrawSequence`, then `NextBatch` until
no target is left); a job is `deliverWithLimit()` for one target
(`ClaimDelivery`, `FindWebhook`, `CreateDelivery`, `Attempt`). `Acquire` and
`Release` are the semaphore: acquiring is part of the step that starts a batch,
releasing part of the step in which a job leaves, because nothing is awaited in
between. `update()` is four steps, since its SREM and SADD are sent without
`await`; `remove()` is three. `attempt()` is one step here and the subject of
`WebhookDelivery`. `owed` is history: who was subscribed when the event was
claimed and has not been changed since.

### DeliveryPromise
What `WebhookDelivery` promises its users, with the queues, round trips and
faults forgotten: a delivery is registered, taken by one sender, accepted,
left or settled. `ImplementsPromise` in `WebhookDelivery` is the refinement: the
status is the recorded one, the senders are the agents busy with the delivery,
taken is "a 2xx was received".

### PriceOracle and Stampede
`PriceOracle`: one flight per process (`Join` to `Land`), the sources' answers
(`SourceOutcomes`), the median, the anomaly check in its two round trips
(`HistoryGet`, `HistorySet`), and rejection to the last cached price. Market and
cooldowns are external. `Stampede`: per process one flight, per key one lock
with a token; a holder may be slower than the lock's TTL (`LockExpires`) or die.
`MCPrices` checks both with `CircuitBreaker`, which stands before every source.

### Alerts and PriceSubscriptions
`Alerts` follows one asset. An evaluation is a loop with a step per command; the
time-out frees the caller but not the evaluation, so two run at once. A price is
on one side or the other of the threshold. `PriceSubscriptions` has one action
per callback, because callbacks run to their end; every shutdown starts a drain.

### CacheWarm, RedisClient, JobQueue
`CacheWarm`: lock, collection, a pool of fetches, both time-outs, release.
`RedisClient`: the semaphore's counter and queue, and the client handle that
`end` and `disconnect` replace. `JobQueue`: polls overlap because the interval
does not wait for them; a rejected command becomes an unhandled rejection and a
shutdown, as in `index.js`.

### Sessions, TokenRefresh, LoginGuard, RequestGuards
A caller, client, attempt or request is one chain of awaits, a step per Redis
command. A failed command of `Sessions` is one that was not executed.
`TokenRefresh` follows one family and the store in memory that takes over when
Redis is away. `LoginGuard` has the synchronous lockout around an asynchronous
password check. `RequestGuards` puts the rate limit before the idempotency key,
as the routes do.

### Transactions, ConnectionPool, Retries, Migrations, Pagination
PostgreSQL is external: exclusive row locks, commits that fail or whose answer
is lost. `Transactions` holds `withTransaction`, `lockRows` and versioned edits;
`ConnectionPool` the shared instance, the calls that await a connection of it
while it is closed and replaced, and the monitor that listens to it;
`Retries` both retry loops and the dead-letter registry; `Migrations` the command
line's gate, locks, knex run and audit, where a batch that is cut short may have
taken effect (`CutShort`); `Pagination` the cursors, as values that
lose precision in JSON, over a table that changes between pages. `Database` is
`Transactions`, `Retries` and `ConnectionPool` beside each other: they share no
variable, so their composition is the conjunction of their specifications.

### QueryCache, Lifecycle, DeliveryMetrics
`QueryCache` counts down the TTL of each key. `Lifecycle` is `startServer` and the
shutdowns, which interleave at their awaits; `lateStart` records that services
were started after a shutdown had passed them. `DeliveryMetrics` follows the
counters of one process after another. `ServerProcess` is `Lifecycle` and
`DeliveryMetrics` beside each other.

## 4. Runs

| run | instance | checks | states |
|---|---|---|---|
| `leader` | 2 replicas, TTL 9, renew 3, check 1, command 1, lag 1, 3 disturbances | lease safety, failover bound; leadership returns | 255 k |
| `delivery` | 2 replicas, 2 deliveries of one webhook, indexes of 1 entry, 2 attempts, 1 crash and 1 Redis error | exclusivity, no resend, bounded attempts, indexes, finality; termination; refinement of `DeliveryPromise` | 175 k |
| `delivery_crash` | 1 replica, 1 crash | **violated**: retries survive a restart | |
| `indexer` | 2 replicas, 3 ledgers of one event, batches of 2, lag 1, 1 fault, all event kinds | nothing skipped, projections and claims; catching up | 589 k |
| `indexer_split` | 3 events per ledger, batches of 2 | **violated**: nothing skipped | |
| `indexer_unsaved` | 1 replica, 1 fault | **violated**: what the cursor has passed is saved | |
| `dispatch` | 2 webhooks, 2 dispatches, 2 events, 1 permit, batches of 2, 1 registry request, 1 fault | permits and no standstill, one exact fan-out per event | 204 k |
| `dispatch_wildcard` | 1 dispatch, no requests or faults | **violated**: wildcard subscribers are served | |
| `airdrops` | 2 requests, 2 ticks, ledgers 0 to 2, 1 fault | recipients and webhook once, expiry only when due; expiry happens | 253 k |
| `airdrops_no_ledger` | the code as it stands | **violated**: expiry happens | |
| `prices` | 2 processes, 2 sources, 2 prices either side of the threshold, 1 market move, 1 fault; 2 nodes, 2 requests, 1 refresher, 1 fault; a breaker with 3 callers, thresholds 2, window and cooldown 2 ticks | lock kept, probe slots, decisions, cooldown; callers answered, a lasting move served, recovery | 101 k |
| `platform` | 17 parts, two or three actors each, one or two faults each (`MCPlatform.cfg`) | 14 invariants, one or two parts each | 1.1 M |

`MCPrices` and `MCPlatform` extend several modules. These parts share no state, so
the variable `part`, chosen initially, says which one moves in a behaviour; the
others keep their initial state. The states explored are the sum of the parts'
state spaces, and every property is checked in all of them.

What each shows:

- `leader`: through lost replies, failed renewals, deaths and shutdowns, a
  replica that says it leads holds the lease, and so does one whose job runs,
  until its graceful stop begins; an absent lease is taken within a renewal
  interval and a command.
- `delivery`: concurrency alone loses nothing; only a crash or a failed command
  can strand a delivery, and neither can make it be sent twice at once or after
  success. The capped status indexes never lie, and a late index write of an older
  delivery does not push out a newer one.
- `indexer`: while a full batch holds whole ledgers, the compare-and-set makes
  concurrent replicas safe for the cursor: it passes only what some poll has
  written. Whether each raw write landed is another matter (`indexer_unsaved`, 7).
  The projections are only checked for polls that have not overlapped (7).
- `dispatch`: jobs that fail, return early or wait leave the permit count exact;
  two callers of one event fan it out once; a webhook that nobody is changing is
  not missed on account of one that is.
- `airdrops`: the script's re-check is what protects an airdrop that was
  extended or cancelled after the tick read it, and SADD in one MULTI is what
  keeps an address from being listed twice.
- `prices`: the token in the lock is what keeps a slow holder from releasing its
  successor's; a dead holder delays waiters and does not strand them; storing an
  anomalous reading is what lets a lasting move through at the next reading. Late
  results of calls a breaker admitted before a trip neither shorten the
  cooldown nor leak a probe slot, and a recovered dependency is always seen.
- `platform`: the exceptions are in the properties. An alert fires twice only
  when evaluations overlap or a command fails; an ended session returns only by a
  touch or creation under way when it ended; a token is exchanged twice only by
  clients that read it before it was marked; a keyed handler runs twice only for
  a request that checked before the first answer was stored; a job is lost only
  by an exit or a failed command; a commit takes effect twice only when its
  answer was lost; a service is cut short only when it was started late; a page
  is inexact only beside a value the cursor cannot hold. Each exception is the
  code's behaviour and is listed in section 7.

Bounds. Three callers are needed for a plain call and two probes to overlap.
Two replicas and two deliveries are enough for every pairwise race, one fault of
each kind for every single cut in a protocol, and three disturbances for a crash
during the recovery from a failed command. Two attempts distinguish first,
intermediate and last. Batches of two over three ledgers give full, partial and
empty batches; the fourth and later events of a life cycle are reached by
emitting any legal event per ledger. An index of one entry makes two deliveries
exceed it. One permit and batches of two make every job wait
for another dispatch's. Two ledgers give "not yet due", "due" and
"due, read stale". In `platform`, two actors give every pairwise race and three
where the third is needed (a third request over a limit of two, a third socket
at a capacity of two, a third operation behind a waiter); limits are one or two
so that they are met; two rows give both lock orders; three rows with one row a
page give first, middle and last pages. Symmetry is reduced in `dispatch` alone, over webhooks, dispatches and events:
`WebhookDispatch` compares them for equality only, and the run checks invariants.
`CHECK_DEADLOCK FALSE` is given where the system may stop: all
deliveries finished, all requests answered and no fault left, a process that has
exited.

## 5. Fairness

- `leader`: time passes, and replicas that run take their due steps; no fairness
  for boots, crashes or failures.
- `delivery`: promises settle (command and request time-outs) and the worker's
  interval keeps firing; no fairness on a particular answer of the receiver.
- `indexer`: `run()` reschedules itself after every poll, whatever its result.
- `airdrops`: cron fires, awaits settle, and, since the ledger cache expires,
  a tick infinitely often able to read the current ledger eventually does
  (strong fairness on that one choice).
- `prices`: commands, requests and fetches time out, cron keeps firing, cooldowns
  end (weak fairness on each step); and a flight waiting for a lock cannot poll
  for ever, since `lockTimeoutMs` is over sooner or later: strong fairness on
  going on to fetch without the lock. For the breaker the clock ticks, callers keep
  coming (periodic jobs) and each admitted call settles (every client has a time-out).
- `platform` checks invariants only.

## 6. Proofs

TLAPS proves the following for every number of callers, replicas, deliveries,
crashes and errors and every configuration that meets the named assumption.

- `CircuitBreakerProofs` (from `BreakerOptions`): `TypeCorrect`, `ProbeSlots`,
  `Decisions`, `Cooldown`. `Inv` joins the type invariant and the two safety
  invariants with the tie between the history clock `sinceTrip` and the breaker's
  own: equal while open, and run out (or reset) in every other state; without it
  `CooldownRespected` does not follow from the guard of `EnterCall`. Lemmas say what each method preserves
  (`TransitionSound`, `PruneSound`, ...), then one lemma per action.
- `LeaderElectionProofs` (from `LeaseTiming`): `TypeCorrect`, `LeaderSafety`,
  `LeaderUnique`, `JobSafety`, `WrapperConsistent`, `FailoverInTime`. `Good(i)`
  bounds, for each place a replica can be in its cycle, the time its lease has
  left against the ages of its timers: a leader's lease outlives the next
  renewal, its command and the wrapper's next check. Safety is that arithmetic.
  The other lock the replicas keep in Redis, that of `Stampede` (from
  `StampedeConfig`), has `LockSafety` and `OneRefreshes` there: its invariant adds
  to `LockKept` that only a worker past `acquireLock` has a token and that tokens
  differ, which is why a compare-and-delete cannot hit another's.
  `CallsHaveFlights` and, of `PriceOracle`, `WaitersAreAnswered` say that a waiting
  call never waits for a flight that is gone: whoever joins one, its process keeps
  it until it is settled, and the step that settles it answers all that joined,
  however the sources, the lock and Redis behave. What is left of
  `CallersAnswered` for TLC is that every flight lands.
- `WebhookDeliveryProofs` (from `DeliveryConfig`): `TypeCorrect`, `Exclusivity`,
  `NoResend`, `IndexAgrees`, `TerminalStays`, `Refinement`,
  `AttemptsAreBounded`. The invariant treats the right to
  send as a token in one of three places (queue, batch, agent) and says what
  the token's place implies: nothing before `create()`; none left once the record
  is terminal; after a 2xx, only with the agent recording it; and that an agent
  about to write has read the current record, which exclusivity guarantees and
  index exactness needs. `IndexAgrees` needs besides that `queueIndexWrite` adds
  the one entry at most and drops only entries that have `RecentDeliveries` newer
  ones of the same webhook (lemma `IndexWrite`): who is older than that stays so,
  since records never vanish, and may go unlisted.

  `PendingAreHeld` is the converse: while no process dies and no command fails, a
  pending delivery has its token somewhere. `HeldInv` adds that an agent which
  hands its delivery back has queued it before it records the attempt. Run
  `delivery_crash` violates the very formula (`RetrySurvives`) without that premise.

  `Refinement` is `Spec => ImplementsPromise`: every initial state maps to one of
  `DeliveryPromise`, every step to a step or a stutter. It needs two facts more
  than the invariant: `SuccessEarned` (an agent about to record success, or a
  record that says so, goes with a 2xx received, and one about to record failure
  with none) and `OwnTask` (a dispatch task only ever works on its own delivery).
  One lemma per kind of step (`CreatePromise`, `NextOfBatchPromise`,
  `AcceptPromise`, `SettlePromise`, `LeavingStep`) says which abstract step it is.

  `AttemptsAreBounded` relates the requests sent to the attempts the record counts
  (`CountInv`): no more, but for one request that an agent has sent and not recorded
  yet and one for each crash or Redis error so far; and while an agent has the right
  to send, the record counts fewer than the maximum.

  Of `WebhookDispatch` (from `DispatchConfig`: finitely many webhooks) it proves
  `FanOutsExact`, `PermitsConserved` and `DispatchesGoOn`. `FanOutInv` says that an event has one live
  dispatch at most, and none before its key is claimed; that the key of a webhook
  and an event is free until the job of that dispatch claims it; and where a webhook
  that is owed its delivery is: still subscribed and in the list the dispatch has
  read, among its targets, in the hands of a job, or served. `SemaphoreInv` counts
  the permits by the jobs that hold one; `AcquireSemaphore` and `ReleaseSemaphore`
  carry it over a batch that gets only some of the permits it wants, and over
  a hand-off to the first in the queue. `DispatchesGoOn` follows: a job in the queue
  means that all permits are out, of which there is at least one, so somebody holds
  one, and a job with a permit always has its next step. `TaskReady` and `Holding`
  say outright what it is to be able to go on, in place of ENABLED.

- `IndexerProofs` (from `IndexerConfig`): `NothingSkipped` and `ProjectionsFollow`,
  with the premise `WholeLedgers` (no answer of the RPC ends inside a ledger),
  which the code does not check: run `indexer_split` shows what happens without
  it. `NothingSkippedOneByOne` and `ProjectionsFollowOneByOne` derive the premise
  from one event per ledger, as in run `indexer`.
  - What is skipped by no poll is saved or in `dropped`, where its raw write failed;
    no theorem says more, since the code does not read those errors (7).
  - `SkipInv`: a poll at work has written, or is about to write, every event between
    the cursor it read and the one it will store. `BatchIs` and `NextCursorIs` say
    why: a batch below the limit holds its whole range, a full one everything up to
    the last ledger it holds. It needs no exclusion: the compare-and-set of
    `ADVANCE_LAST_LEDGER_LUA` makes replicas harmless to the cursor.
  - `Alone`: while polls have not overlapped, what a poll has still to project is
    past the cursor and has no gap up to the next one, and all before the event in
    hand is reflected. A replay after a crash resets an airdrop to created, but only
    when it comes to the airdrop's first event: then nothing of it is passed.
- `AirdropsProofs` (from `AirdropsConfig`): `NothingTwice` and the action property
  `ExpiryIsDue`. What a request is about to push is in the address set, not yet in
  the list, and in no other request's batch: the reply of SADD decides who pushes.
  Announcements are counted with the ticks that have a reply of the script and
  have not dispatched yet. `ExpiryIsDue` needs that `update()` and `cancel()` hold
  a record that was not terminal, and that no tick runs ahead of Horizon.
  `EndedForGood` bounds the lost update of section 7: a record that is terminal
  or removed while nobody stands between the read and the write of `update()` or
  `cancel()` is never changed again, but for its removal.
- `DatabaseProofs` (from the four configurations): `TransactionsAreSafe`,
  `LocksClimb`, `RetriesAreSafe`, `PoolSafe`, `DatabaseIsSafe`,
  `AuditIsTruthful`, `InvalidationsAreComplete` and `PagesAreExact`.
  - Transactions: what one holds it wanted and lies below what it still wants, so
    waits climb through the rows. TLC's two transactions show that no pair
    deadlocks; the theorem excludes circles of any length. `won` is at most one
    because a version that is current, or still to come, has no accepted edit yet.
  - Retries: effects lag behind attempts, and an attempt after an effect is only
    made when that effect is on record as doubtful. The registry is compared with
    the history entry by entry, which a shift at the cap preserves.
  - Pool: each borrowed connection is counted at the pool it came from, timers are
    exactly the waiting calls of the watched pool, and the counters add up over
    both and over what was forgotten when the monitor was detached.
  - Migrations: the last row about a migration is true, or a run still owes a
    later row, whose direction is the migration's state; only the holder of the
    lock owes rows. A batch that takes effect in a call of knex that fails owes
    rows nobody writes, and is an exception `AuditTruthful` names.
  - `DatabaseIsSafe` joins the first three over `DatabaseSpec`.
  - Query cache (from `QueryCacheConfig`): a covered entry is in the tag set and
    expires no later than it; what an invalidation owes is among the keys it found
    until it deletes them, and gone after.
  - Pages (from `PaginationConfig`: a table has finitely many rows): a row returned
    lies behind the cursor, one that was there all along and was not returned lies
    ahead of it. Three groups of lemmas carry that over a page: the first n of a
    finite ordered set are an initial part of it with a last element, or all of it
    (`PageIs`, `FullBatchIs`; that a finite set has a first element comes from the
    well-foundedness of strict inclusion, not from an induction); values that
    `encodeCursor` tells apart compare as before (`CursorKeeps`); so the cursor
    made of the last row parts the rows as that row does (`CursorParts`).
- `AuthProofs`: `LoginsSafe`, `SessionsSafe`, `TokensSafe`.
  - Logins (from `LoginConfig`: finitely many attempts): past the threshold, the
    failures and the attempts let in stay within their bound together.
  - Sessions (from `SessionConfig`): what each call in flight may rely on
    (`CallOk`): a touch holds a record within the session's lifetime; a session
    whose invalidation has passed its DEL is dead (not stored, not being
    created, no touch about to write it) or recorded as slipped; a stored session
    is listed unless its creator still has to list it.
  - Tokens (from `TokenConfig`): until the first fault, calls past the read of a
    token that was not read twice are alone with it and leave it marked; a fresh
    token is in the family, about to join it, or about to be deleted; and the
    family outlives a rotation (`FamilyLasts`), or the revocation would not find
    its members.
- `PlatformProofs`: `GuardsSafe`, `SubscriptionsSafe`, `ShutdownsClean`,
  `CountersSafe`, `ProcessesEndWell`, `WarmUpsSafe`, `JobsAreSettled`,
  `AlertsFireRight`, `Permits`.
  - Guards (from `GuardConfig`): the first request of a window has counted itself
    and is let pass only later; its place is kept in the count and in the limit.
  - Price stream (from `SubscriptionsConfig`): `MapsAgree` is inductive with: who
    is no client has no assets, and whoever is left is in the frozen set of every
    drain that has begun.
  - Life cycle: `Behind(s)` lists what a shutdown has stopped by the place it has
    reached. Counters: the pipelines under way lead from the hash in Redis to the
    deliveries (a function gives the counter after each of them, in place of a
    recursive sum). `ProcessesEndWell` joins the two over `ProcessSpec`.
  - Warming (from `WarmConfig`): each asset is queued, in flight or done.
  - Jobs (from `JobQueueConfig`): an accepted job has exactly one place (queue,
    retry timer or run) until it is settled or mislaid by a fault, and the attempts
    it carries there are its runs.
  - Alerts (from `AlertsConfig`): while evaluations do not overlap and nothing
    fails, a one-shot alert that fired is gone or in the hands of the evaluation
    that fired it; of the alerts removed before it listed the asset, an evaluation
    holds only those a backfill put back.
  - Semaphore (from `RedisConfig`): `PermitsExact` is inductive once no call is
    queued twice: otherwise a time-out could leave a second entry behind.

The assumptions say that numbers are numbers and that sentinels such as `NoJob`
differ from what they stand beside; where something is counted, that the actors
are finitely many, as the calls of a process are. No theorem bounds them.

Only model-checked: the liveness properties (`Recovers`, `LeadershipReturns`,
`EventuallyTerminal`, `CatchesUp`, `ExpiresEventually`, `CallersAnswered`,
`LastingMoveServed`). Fairness (WF and SF are defined by ENABLED) is outside what
TLAPS 1.4.5 proves here.

## 7. Known deviations

Shown by a run, with the text they contradict in `PROJECT.json`:

- `delivery_crash`: `popDueRetries` removes a retry before it is attempted;
  a process that dies then strands the delivery as pending. The repository's
  README promises that retries survive restarts.
- `indexer_split`: a full batch that ends inside a ledger moves the cursor past
  it; the ledger's other events are never fetched.
- `indexer_unsaved`: ioredis resolves `pipeline.exec()` with one result per command,
  errors included, and `indexer/eventStore.js:301` does not read them, so the cursor
  can pass an event whose record was never stored, while a comment in
  `indexer/eventPoller.js:239` takes the events for saved.
- `dispatch_wildcard`: a webhook subscribed to `["*"]` is indexed under
  `webhooks:event:*`, which no dispatch reads.
- `airdrops_no_ledger`: `getCurrentLedger()` reads `cachedLedger`, which is not
  declared, so creation, PATCH and every expiry tick fail.

Seen in the same models, by changing a constant or adding one formula:

- Graceful stop releases the lease before it stops the job
  (`jobs/leaderAwareJob.js:155`): in `LeaderElection`,
  `\A i, j : started[i] /\ started[j] => i = j` fails. `index.js:77` says one
  replica at a time; `README.md:185` allows a brief overlap.
- Two replicas projecting the same batch can overwrite a later status with an
  earlier one: `ProjectionsReflectCursor` without its premise fails.
  `index.js:585` calls several replicas safe.
- `pollLimit` consecutive events unknown to the parser stop the cursor:
  `CatchesUp` without `Stalled` fails.
- `update()` and `cancel()` of an airdrop write back what they read, so an expiry
  committed in between is undone and may be announced again, although
  `services/airdrops.js:139` calls those statuses ones it cannot leave.
- A request that stops between SADD and RPUSH, or races a DELETE, leaves
  `addresses` and `recipients` apart, against the comment at
  `services/airdrops.js:19`.
- `start()` of the expiry job refuses the default interval of 60 s
  (`jobs/airdropExpiry.js:137`, `config.js:134`): with `IntervalSeconds = 60`,
  `ExpiresEventually` fails.
- A crash or a failed command after `dispatch()` claimed
  `webhook:dispatched:<event>` (or a job its `webhook:delivered` key) suppresses
  the event for 90 days (the delivery for one), against `README.md:77`
  ("At-least-once"): `FanOutExact` fails if `Fault` keeps `owed`.
- `update()` of a webhook's events takes it out of an index and back in, so a
  dispatch in between misses it even when it is subscribed before and after; two
  racing updates can leave index and record apart, and an update that writes
  after `remove()` brings the record back.
- A delivery created after `remove()` has read the list of deliveries survives
  the cascade, which `repositories/webhookRepository.js:277` says leaves no
  orphans: in `WebhookDispatch`, `stored = listed` fails.
- A status index keeps the newest 100 entries of a webhook and status
  (`repositories/deliveryRepository.js:106`). A delivery that is evicted keeps its
  status and stays out of the listing by status even after newer ones have left the
  index, until its next change of status: `StatusIndexExact` fails with only
  the newer deliveries of its own status counted. The unfiltered index has the same
  cap, and `remove()` of a webhook (`repositories/webhookRepository.js:280`) finds
  the deliveries to delete in it, so older ones survive the cascade.
- `normalize()` drops `owner_ip`, so the ownership check of
  `DELETE /webhooks/:id` (`routes/webhooks.js:220`) never sees an owner.
- Alerts: two overlapping evaluations fire a one-shot twice; the SET of a
  repeating alert brings a removed record back (outside the indexes); a receiver
  that fails ends the evaluation for the asset's other alerts.
- Sessions: a touch in flight revives a session that was logged out; a password
  change misses a session whose SADD has not run, and forgets one added between
  its SMEMBERS and its MULTI.
- Refresh tokens: two concurrent refreshes both rotate; reuse after the 60 s of
  `auth/tokenRefresh.js:318` finds no record and is not detected; a token added
  to a family about to be deleted survives it.
- Logins: the lazy upgrade can undo a concurrent password change; overlapping
  logins exceed the threshold by the attempts in flight.
- Job queue: a failed RPOPLPUSH or LREM is an unhandled rejection, which shuts the
  process down; nothing reads `jobs:processing`, so a job whose process died stays
  there. `activeJobs` is counted up after the RPOPLPUSH (`services/jobQueue.js:115`),
  so polls that overlap before it run more handlers than the configured
  concurrency: `JobQueue` does it, and no property claims the cap.
- Shutdown: a rejected `quit` begins another shutdown; a signal during
  `hydrateMetrics` lets services start after the shutdown passed them, and the
  exit may then cut a poll in its writes. `disconnect` clears whatever client is
  current. `hydrateMetrics` failing at a webhook's hash leaves the aggregate
  loaded, though its log says the counters are empty.
- Cache warming: `releaseLock` is GET then DEL, so a lock that expires in between
  is deleted under its new owner; the summary after a time-out counts no success.
- Query cache: a shorter-lived entry shortens its tag set's TTL, the DEL of the
  set drops members that joined after SMEMBERS, and a response computed before an
  invalidation may be stored after it; each leaves an entry no tag reaches.
- Transactions and retries: a commit or query whose answer was lost is repeated.
- `closeDb` sets `db = null` after its await (`database/index.js:73`): of two that
  overlap, the second forgets an instance created after the first, whose pool
  nobody closes: `ConnectionsReturned` without `closesMet` fails.
- Migrations: `db/migrationSafety.js:192` says every attempt is recorded
  "including dry runs", but dry runs, blocked runs and failed preflights record
  nothing; when the advisory lock cannot be taken the run goes ahead; the gate
  counts all files, applied ones too. A call of knex that fails after its batch
  took effect (the answer to the commit is lost, or `down` fails after its DELETE)
  leaves one row `<direction>:failed`, which names no migration
  (`db/migrate.js:165`), and a `down` cut short may leave knex's own lock taken.
- Pagination: the cursor goes through JSON, which cuts a timestamp to
  milliseconds, so rows beside a page's end are skipped (descending) or repeated.
- `validateApiKey` (`services/apiKeys.js:200`) reads a raw string with `cache.get`,
  which fails to parse it: of the keys `README.md:631` describes only the admin
  key validates. `createSession` of `services/adminSession.js` uses `ADMINS_KEY`,
  declared nowhere, and throws after writing its record.

## 8. Not modelled

- API keys and admin sessions: their entry points fail at this commit (7), so
  rotation, grace periods and revocation have no behaviour to check.
- HTTP parsing, validation, formatting, logging, metrics, headers, CSRF tokens,
  signatures and encryption: functions of one request, or write-only.
- Pool health logging, replica choice, plan statistics, health checks, analytics,
  data retention, exports, feature flags: reporting and housekeeping that the
  modelled parts do not read.
- Savepoints, a ROLLBACK that fails, several `lockRows` of one transaction,
  `registerUser`, sessions of the format before idle time-outs, the lazy migration
  of recipient lists, adaptive poll intervals and lag alerts.
- The quotes of an ETag (`middleware/optimistic-locking.ts:97`), which `parseInt` of
  an If-Match that repeats them cannot read: an editor is taken to send the bare
  version. NULL as a sort value of a page. `sendTest()` of a webhook.
- The Soroban contract, Horizon, the price sources, Redis, PostgreSQL, knex and
  the receivers appear only as what the code sees of them.
