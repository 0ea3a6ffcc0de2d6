# Formal models of EliteHub Vault

TLA+ modules for the parts of EliteHub Vault where steps of several actors meet:
the real-time (SSE) path of the API, the transactional outbox that feeds it, the
database triggers that decide which events exist, the way of a message from the
EDDN feed to the tables, and the caches and limits in front of the API. Each module is translated
from the code; `PROJECT.json` maps every definition to the lines it models.

```
tlc -config MCSubscriptionManager.cfg MCSubscriptionManager     # one run
tlapm SubscriptionManager_proofs.tla                            # the proofs
```

## 1. The system

```
EDDN (ZeroMQ) -> eddn-listener -> BullMQ (Redis) -> eddn-worker -> PostgreSQL
                                                     one transaction per message,
                                                     triggers write eventOutbox
PostgreSQL.eventOutbox -> EventOutboxRelay -> Redis PUBLISH
   -> RedisSubscriptionManager -> SseBroker -> SSE clients
API requests: ApiKeyResolver, ApiRateLimiter, SSE connection quota, GraphQL
```

| component | state it keeps | operations | talks to |
|---|---|---|---|
| **EDDN listener** (`eddn-listener/src`) | times of the last enqueue, heartbeat timers | receive, `addToQueueOrThrow` with timeout, heartbeat check | BullMQ, an uptime push URL |
| **EDDN worker** (`eddn-worker/src/mq`) | none of its own | one handler per journal event, `upsertSystem`, `processFactionsData`, stations, powerplay | PostgreSQL, in one transaction per job; four jobs at once, three attempts |
| **Triggers** (`packages/db/drizzle/*.sql`) | `systemFactionControlThreats`, faction states, conflicts, `eventOutbox` | run after each statement of the worker | tables only |
| **Event outbox relay** (`eventOutboxRelay.ts`) | `isRunning`, `shouldStop`; row locks in PostgreSQL | start, stop, one batch per transaction | PostgreSQL, Redis PUBLISH |
| **Subscription manager** (`redisSubscriptionManager.ts`) | demand and subscription state per key, a chain of operations per key | `incrementDemand`, `decrementDemand`, `onClose`, `onReady` | Redis subscriber connection, broker |
| **SSE broker** (`sseBroker.ts`) | connections, indexes by key, a bounded frame queue per connection | register, route, flush, clean up, close all | responses, subscription manager |
| **SSE quota** (`sseService.ts`, `connectionLimiter.ts`, `sseLeaseHeartbeat.ts`) | a sorted set of leases per API key in Redis, `activeByApiKey`, `quotaReleased` per request | open, acquire, refresh, release | Redis scripts, broker |
| **API key resolver** (`apiKeyResolver.ts`, `scripts/updateApiKey.ts`) | in-memory and Redis caches, negative entries | resolve, update key | Redis, PostgreSQL |
| **Rate limiter** (`apiRateLimiter.ts`) | a sorted set of requests per key in Redis | consume | Redis script |
| **Start and shutdown** (`api/src/index.ts`) | none | `ready` starts the relay, signals close everything in order | all of the API |
| **GraphQL**, contracts, configuration, telemetry | none that is read back | | |

### What is hard in it, and what makes it correct

* *Subscription manager.* An operation reads the state of its key, awaits Redis
  and writes the state. Meanwhile connections come and go, and the connection to
  Redis closes and returns. Correct: the count equals the connections that hold
  the key, a key believed subscribed is subscribed, a demanded key gets
  subscribed, an undemanded one gets dropped.
* *Quota.* Leases expire by time, scripts run late or twice, and five paths may
  release the quota of a request. Correct: never more leases or live streams than
  the limit, the count never drifts, an expired lease is never revived, a 429 is
  only given at the limit.
* *Outbox relay.* Redis is written before PostgreSQL commits, API processes
  overlap, and rows become visible out of `createdAt` order. Correct: no event is lost,
  a duplicate has a fault behind it, an event is not published before one that
  both began and was committed earlier (more `createdAt` cannot give: a job that
  began first and waited for the system's row is published before the job it
  waited for), every row is eventually retired.
* *Control threat events.* One message is three statements with triggers after
  each. Correct: the threat row is never stale, `entered` and `cleared`
  alternate, no flip is missed, an ordinary message announces no transient state.
* *Broker.* Clean-up during registration, slow clients, write timeouts.
  Correct: a closed connection is in no index and gives its demand back once, and frames
  keep their order within the queue's bound.
* *Events of a system.* A message replaces rows of four tables, and triggers
  tell the difference. Correct: whoever keeps the last event about a subject knows
  what the tables say of it, and no event tells what was known. Both fail where
  publication is reversed, where one transaction tells two words of a subject,
  and where a state leaves one of the two lists it was in; what is known even then
  is part of the property.
* *Stations.* Jobs of two systems can meet in one station, which has two keys
  and moves. Correct: a job stores its station unless another one got between
  its reads and writes, and a carrier that the worker knows as one does not
  outlive its stronghold (one whose name a message in another language has
  replaced does).
* *Key resolver and rate limiter.* A reader that raced an update may cache the
  old record after the update invalidated it; each cache may be filled from another;
  scripts run in another order than they read the clock. Correct: staleness is
  bounded by lifetimes, and grants stay within the limit.
* *Feed to database.* An add may take effect after its timeout or twice, four jobs run
  at once, failed ones come back, and a handler may go on after its job was given
  to another. Correct: no queued message is stuck, and old data comes back only by
  a job that was out of order.

`PROJECT.json` lists each of these hazards at its line with the properties aimed
at it, or why there is none.

## 2. Modules

| module | models | proofs |
|---|---|---|
| `SubscriptionManager` | `RedisSubscriptionManager` with its Redis client | `SubscriptionManager_proofs` |
| `SseLeases` | quota of one API key: request, scripts, heartbeat, restart | `SseLeases_proofs` |
| `OutboxDelivery` | abstract: what an outbox promises | |
| `OutboxRelay` | relay, row locks and worker transactions; implements `OutboxDelivery` | `OutboxRelay_proofs` |
| `ControlThreat` | `processFactionsData` with the control threat triggers | `ControlThreat_proofs` |
| `SystemEvents` | presence, state and conflict triggers; powers of a system | `Worker_proofs` |
| `SseBroker` | `SseBroker`: registration, routing, frame queues, flush loops, cleanup | `SseBroker_proofs` |
| `Stations` | station and carrier upserts of concurrent jobs | `Worker_proofs` |
| `ApiAccess` | key resolver, its caches, `updateApiKey`, rate limiter | `ApiAccess_proofs` |
| `Ingest` | listener, BullMQ queue and worker: timeouts, retries, stalls | `Ingest_proofs` |
| `MC*` | instances for TLC | |

How they meet: `Ingest` delivers messages; `SystemEvents`, `ControlThreat` and
`Stations` are what a message does to the tables; `OutboxRelay` publishes the
events they write; `SubscriptionManager` and `SseBroker` bring them to clients,
whose requests pass `ApiAccess` and `SseLeases`. Each module sees its neighbours
through the calls and tables it shares with them, with all their behaviours:
`SubscriptionManager` has any broker that acquires and releases, `SseBroker` any
manager whose increments resolve or not.

Left in the plan: a composition of `SseBroker` with `SubscriptionManager` (the
demand of the one is the count of the other), and the start and shutdown of the
API process (`index.ts`, `stop()`).

### SubscriptionManager

`demand`, `subState` and `ops` are the three maps of the class. A missing map entry
is its default value (0, `idle`, empty). `ops[k]` holds the operations chained by
`runSerialized` that have not started; `awaiting[k]` is the command the running
one awaits, so `awaiting[k] # "none"` means an operation of `k` is in progress.
`Acquire` and `Release` are the broker's calls, which only chain an operation.
`RunIncrement`, `RunDecrement` and `RunReconcile` run an operation up to its
await; `SubscribeReply`, `SubscribeRejected`, `UnsubscribeReply` and
`UnsubscribeRejected` run the rest of it. `Close` and `Ready` are the handlers.
`connected`, `clientSub` and `serverSub` are the ioredis client and Redis: with
`maxRetriesPerRequest` null a command waits for the next `ready` or is sent again
then, and the client subscribes again by itself to the channels in its own
set (`clientSub`). `holders`, `rejected`, `closes` and `rejects` are history.

### SseLeases

`phase` is the progress of `openRealtimeSseConnection`: each value is an await.
`pending` and `answered` are the scripts of the API in the order the client sent
them, before and after Redis ran them. `Execute` runs the oldest with
`AcquireEffect`, `RefreshEffect` or `ReleaseEffect`, at the time the
*caller* read (`at`); `ConnectionLost` makes the client send again all that is
unanswered. `ReleaseQuota` is the closure `releaseQuota`, reached from
`RegisterFails`, `ResponseClose` and `RefreshReply`. `ResponseClose` gives the
quota back only in phase `open`, because that is where the listeners are
attached. `BrokerCloses` stands for every reason of the broker to end a
response. `Restart` clears the leases as `initializeRealtimeSse` does.

Time is discrete. `Tick` lets timers fire on time, and no script or reply
takes longer than `MaxDelay`. That is an assumption about the environment, as is
`HeartbeatInTime` (`MaxDelay + Interval < Ttl`; the code has 20 s and 60 s): without it
a live stream may lose its lease to another request. It may also lose it after
two faults: Redis answers its refresh with an error, and the connection to Redis is lost
before the API sees that answer and ends the stream. A request whose acquire is
then sent again with an earlier time is granted too. So `LiveStreamsWithinLimit` leaves
out the streams in `erred`, a history variable. The `EXPIRE` on the whole
set is not modelled; it is renewed to the lifetime of a lease by every
grant, so it never removes a lease before its score does.

### OutboxDelivery and OutboxRelay

`OutboxDelivery` has three steps: store, deliver, and retire what was delivered.
`OutboxRelay` maps `row` to `store` and `sent` to `delivered`; every action is
one of these steps or a stutter. Powerplay rows are exempt from the duty to be
delivered, because the relay looks their powers up when it publishes, and a
system without powers has no channel.

`BeginTx` and `CommitTx` are worker transactions: `createdAt` is the time of the
begin (`defaultNow()` is the transaction's start), visibility that of the
commit. `before` is what was committed when a transaction commits, since any of
it may have been read, or waited for. Of these rows only those that also began
earlier (`Causes`) are published first, and that is what `CausalOrder` says. `Fetch` is the `SELECT ... ORDER BY ... LIMIT ... FOR UPDATE SKIP
LOCKED`; `ProcessRow`, `Publish` and `DeleteRow` are the loop of `processRow`;
`Commit`, `Rollback` and `Crash` end the transaction. Nothing a relay deletes is
gone before `Commit`.

### ControlThreat

One system. `Begin` takes a message; `CleanupFactionStates`,
`SyncSystemControllingFaction` and `UpsertFactionStates` are the three statements
of `processFactionsData` that reach the triggers, each with `Refresh`, the whole
of `refresh_system_faction_control_threat`. Transactions on one system do not
interleave, because each starts with `upsertSystem`, whose `ON CONFLICT DO UPDATE`
locks the system's row. So a single open transaction is enough, with `saved` as the
state to roll back to. `Begin` may take any message after any other, which covers
stale and retried ones. Influences are integers: the properties use their order
and their distance from the threshold only. Ties between challengers
are broken nondeterministically; the code breaks them by times and ids.
The time a threat began and the payload's names are left out.

### SystemEvents

One system, one relay, and one subject a subscriber asks about, chosen in `Init`: a
faction's presence, a state of a faction, or a conflict. `BeginMessage` is the
start of a Location or FSDJump transaction, which fixes the `createdAt` of its rows;
it then waits for the system's row (`upsertSystem`). What follows happens while no
other transaction has the row and leaves nothing if it fails, so it is one step:
`FullMessage`, the commit (or `AbortMessage`). Several transactions may be `open`, and
they commit in any order. `ProcessPowerplayData` replaces the powers and their
conflicts, `ProcessFactionsData` factions, presence, states and faction conflicts.
`FactionSeen` is the faction a station upsert stores.

The triggers are pure functions of the rows before and after: `Presence`;
`BecamePending`, `BecameActive` and `Ended` (the three loops of
`emit_faction_state_lifecycle_events`, as the later migration redefines it);
`ConflictEnded` and `ConflictBegun`. `Stamp` puts those about the subject in `outbox`;
`Publish` takes one with the least `createdAt`, in any order among equals, and
`PublishInVain` is a row of a batch that is rolled back. `heard` is the last word
published. Starts are numbers that come again once no row or transaction has
them (`Later`); at most `MaxStart` are told apart.

The two lists of states are filled from the message independently and neither the
code nor the schema keeps a state out of one because it is in the other
(`StateRow`). With a state in both, `Says` has two words. A conflict is a row of an
ordered *pair* whose first faction is `factionId`; the subscribers of the opponent are
told nothing, see 4. Powers have no events of their own here: the powerplay row of the
outbox is in `OutboxRelay`.

`EventsTellTheTables` has two exceptions, each of which lasts until the next event
about the subject. `reversed`: its transaction was stamped before one whose rows
about the subject are still in the outbox, because it began earlier and waited. `blurred`: one transaction told
two words (a conflict that turns from pending to active is told as `ended` and `active`; a
state enters both lists at once), of which either may come last, or a state left one
of two lists, which no trigger tells. The subject then goes on, and `Blur` says what may have
been heard instead.

### Stations

`tx[w]` is the transaction of a job: the message, the progress (`phase`, one value
per statement), what its reads returned (`first`, `second`) and its own writes.
`Begin` is `upsertSystem` with its row lock, `Powerplay` the removal of carriers
when a message has a powerplay state other than stronghold (a job that has nothing to remove goes on
to its station, `AfterPowerplay`). A state the worker has no name for (`Unmapped`) removes
them too, but leaves `powerplayState` of the system as it was. `ReadFirst`, `ReadSecond`,
`Delete` and `Put` are `upsertRegularStation` and `upsertStrongholdCarrier` in
their different order of lookups. READ COMMITTED is external: a
statement sees committed rows and its own (`Visible`), waits for a row or a unique key
another transaction holds (`Waits`, `RivalsElsewhere`), and finds a row that is gone
not at all (`Puts`). `Abort` is every failure.

`raced` marks a job between whose reads and writes another one committed a row it
relies on. Then the code may store nothing, without an error (the update matches no row), and
since it deletes and updates by id it may hit a row that has become another station
meanwhile. `UnracedJobsStore` is about all the others: such a job can store its
station, has stored it when it commits, and every committed row it has touched had a key of
its station or was a carrier that leaves with the stronghold. It has two exceptions. A raced job may
leave `servicesV2` out of step with `services` (it wrote what it derived from services
that another job has replaced since), and such a row stays so until a message lists
services. The other is a row that a
`Location` message left under the name of the carrier: such a message has no
landing pads, so the row lacks the carrier's characteristics,
`findStrongholdCarriersInSystem` does not find it, and the insert of every `Docked`
message runs into its key. An explicitly empty list of services is not enumerated,
only a missing one.

A row has the characteristics of a carrier (`traits`: its kind, from type and
economy, and its pads) apart from its name, as a message has. The worker takes a
station for a carrier by a name from its list of languages together with these, and
stores it under the English one (`IsCarrier`, `NameOf`). A Location message knows no pads, so
it is never taken for a carrier; it writes its own name and keeps the pads of the
row it finds by market id. `CarriersIn` is what the worker looks for, the English name; the property
speaks of `IsCarrier`, any name of the list. What lies between is `strayed`: the last to
write the row was a Location message, in another language or from a system that was
no stronghold (`Strays`). `CarriersInStrongholds` says that all other carriers are in
strongholds.

### ApiAccess

One key. `row` is its row, `since` the time since it changed, `script` the progress of
`updateApiKey`, of which two runs may overlap; `local`, `positive` and `negative` are the three caches with the time
they have left. `req[r].phase` is the await a request is in and `wait` how long
it has been; the record it has read (`rec`) may be old by the time it writes it.
`CacheRecord` and `CacheMissing` may fail without the request failing. `Grant` and
`Limited` are the sliding window script, at the time the caller read (`wait` ago). A
`Grant` is counted whether its reply arrives (200) or not (503). `Restart` forgets
the process's cache and its requests, but what these have sent to Redis may still be executed.
Times are ages: `Tick` makes everything older, and holds until no call waits longer
than `MaxDelay`, which is an assumption about the environment.

`StaleBound` is `4 MaxDelay + PositiveTtl + LocalTtl`: the read from the row and
the write to Redis may each take two delays, then each cache lives its time. So
a key that was made inactive is still served for that long even when Redis was
cleared, if a reader was on its way (`late`; apiKeyResolver.ts:170), and the
restart that `updateApiKey` asks for does not help against that. `GrantsWithinLimit` counts a
window short by `MaxDelay`, because of calls that overtake each other.

### Ingest

Messages of one system, numbered in the order the listener received them. `Receive`
calls `queue.add`, `AddTimesOut` is `QUEUE_ADD_TIMEOUT_MS`, after which the add still
is on its way (`sent`); `ConnectionLost` sends again what has no reply, and BullMQ
makes another job of it. `Take`, `Commit`, `Complete` and `Fail` are a job in a
slot of the worker, `Promote` the end of a backoff. `Fail` may follow the commit: the
reply to a COMMIT can be lost. `Stall` is a worker that dies
between any of them, also between commit and completion, or that lives but fails to renew
the job's lock; then its handler goes on without the job (`lost`) and commits beside whoever
has the job now (`LateCommit`) or fails (`LateFail`). `again` and
`beside` are history. The `catch` of the worker never sees the errors
of its processors (they are returned, not awaited, `index.ts:51`); BullMQ does,
so a failed job is retried all the same, and only its log line is missing.

### SseBroker

`conn[c]` is the `SseConnection` record of a connection with two facts about its
response: `ended` is `writableEnded`, `gone` that it emitted `close`. `phase` is
the progress of `registerConnection`, whose only await is that of its increments:
`Register` is the part before, `Registered` and `RegistrationFails` the parts
after. The connection is indexed in `Register`, so events reach it before its
greeting. `Enqueue`, `FlushTurn` and `Cleanup` are functions from record to
record, because in the code they run to the next await without interruption;
the actions compose them. `Become` installs the new records and takes
those that were cleaned up out of the index.

`awaiting` is the `writeFrame` the flush loop is in: `write` may end either
way, `doomed` is a write to a response the client has left, which Node fails (or
the timeout does), and `skip` is the early return of `writeFrame` for a response
that has ended. `WriteDone` and `WriteFails` run the loop to its next await
or its end. A frame is its kind, its event id and its size: events are larger
than comments, so the two limits of the queue are reached separately.

`Registered` starts the keepalive interval even for a connection that was closed
during registration, as the code does; that interval is never cleared, and does
nothing. `LeaseLost` is `refreshSseLeaseOrClose`. `deaf` records the one case
in which a connection whose client has left is never cleaned up: `close` came
before the listeners were attached, and the lease heartbeat ended the response,
so `writeFrame` reports every frame as written.

## 3. Runs

| run | shows | bounds, and why they suffice |
|---|---|---|
| `subscriptions` | counts, states and Redis agree in all interleavings, and demand is served | two keys (they share only the connection), two holders and two queued operations per key (an increment queued behind a decrement and the reverse), two losses of the connection (one may hit a command already resent), one rejected command |
| `subscription_leak` | violation, see 4 | one key, one loss |
| `quota` | limits, count and no revival | three requests for one place, a lifetime of three heartbeats, one fault (lost connection, error or restart); the clock reaches one tick past a lifetime, so leases expire; with more faults the five properties are theorems |
| `quota_leak` | violation, see 4 | two requests, no fault |
| `outbox` | the refinement, duplicates, locks, order, and that every row is retired | two relays, two transactions with four rows of all kinds, batches of two (so a transaction is split), one fault |
| `control_threat` | the threat row and its events, over every sequence of messages | three factions (controller, challenger, a third to take over), influences 1, 2, 4 with threshold 1, which give gaps below, on and above it, and negative ones; no bound on the length of the sequence |
| `control_threat_streams` | violation, see 4 | two factions |
| `broker` | index, demand, queue and event order in all interleavings of registration, events, writes, closes and shutdown; clients that left are forgotten | two connections that share one channel while one has another as well; queues of two frames or three units with events of two and comments of one, so either limit is hit first in some behaviour; two events per connection (one in flight, one queued) |
| `system_events` | what a subscriber heard last is what the tables say, and no word is told in vain, with the exceptions of `reversed` and `blurred` | two factions (so pairs in both orders), one state in either list, both or none, two conflict types (a conflict may change its type), one power; a message has states, conflicts or powers (`MCMessages`), since no code relates one kind to another, and each comes with factions that come and go; two starts told apart (`MaxStart`), which are enough for one transaction to overtake another; one row published per step, any of them in vain; no bound on the number of messages; for any constants the properties are theorems |
| `stations` | stations and carriers of concurrent jobs | two jobs at once on two systems and two market ids, a port, a carrier's English name and one in another language, one station stored before: enough for a station to be moved, renamed, replaced, raced and to stray; messages as `MCFeed` has them (a carrier's name with its characteristics, without its kind, or in a Location message); three row ids; two lists of services; two jobs in all, and since the one station stored before may be anything that earlier jobs left, out of step too, longer histories of one station start again from `Init`; for any number of jobs the properties are theorems |
| `api_access` | answers are current in bounded time, clears are final but for late readers, grants stay within the limit | two requests (one may hold an old record while the other fills a cache), limits 1 and 2, lifetimes of one and two ticks and delays of one, so all of them expire; two overlapping runs of `updateApiKey`, failures and restarts at any time; the window is two ticks, the property counts one less than the delay, and the theorem holds for any window |
| `ingest` | no queued message is stuck, and only jobs out of order bring old data back | two slots, two messages, three attempts as in the code, one stall, one fault (timeout, loss or restart); failures of handlers, before or after their commit, and handlers that go on after a stall are not bounded by faults |

Each property of a passing run has a mutant in `PROJECT.json`: a plausible
mistake in a named definition (defined just before it, in the module) under which TLC
finds the property violated.

**Bounds in guards.** `MaxHolders`, `MaxOps`, `MaxCloses`, `MaxRejects`,
`MaxClock`, `MaxFaults`, `MaxEvents`, `MaxJobs`, `MaxStart` and `MaxMessages` cut off growth
only, as do the two runs of `Update`; `since` of `ApiAccess` stops counting one past `StaleBound`. They restrict the environment, never
the code, except that `MaxOps` holds back a new call of the broker; `Ready`
may exceed it.

**Deadlock** is checked, except for `SseLeases`, where all requests may be over
when the clock reaches its bound, `SseBroker`, where all connections may
be closed, `Stations`, where all jobs may be done, and `Ingest`, where all
messages may be.

**Fairness.** Stated where liveness is checked. `SubscriptionManager`: chained
promises run (`RunOperation`), Redis answers a connected client (`Answer`), and the
client reconnects for ever (`Ready`), as its retry strategy has no end.
Connections owe nothing. `OutboxRelay`: the loop runs (`Work`), a stopped
loop ends, and a relay that does not run is started again by the next
`ready` or process (`Start`); PostgreSQL and Redis answer in the end.
`SseBroker`: increments resolve (`Registered`), a write ends, by its timeout at
the latest (`WriteSettles`), and intervals fire (`Keepalive`).
`Ingest`: Redis executes and answers adds (`Add`, `Answer`), the worker takes jobs
and every slot goes on (`Take`, `Commit \/ Complete \/ Fail`), handlers without a job end
(`LateCommit \/ LateFail`), delays end (`Promote`).
The feed owes nothing.
Faults are finite by their bound: the code has no defence against a database
that fails every batch.

## 4. Where code and documentation disagree

1. **A channel nobody demands stays subscribed** (`NoLeakedSubscription`). While
   disconnected every state is `idle`. A last decrement then skips the
   UNSUBSCRIBE, and the client subscribes the channel again on reconnect.
   `UnsubscribedOnLastDemand` is the part that holds.
2. **A client that leaves while it is registered keeps its lease**
   (`RejectedOnlyAtLimit`). `close` fires before the listeners
   are attached, nothing releases the quota, and the heartbeat keeps
   the lease alive. Later requests get 429 with nobody connected.
3. **`cleared` without `entered`** (`ClearedAfterEntered`). A flip is judged per
   system, subscribers follow factions. When control moves between two threatened
   factions nothing is emitted; the next `cleared` names a faction that never
   heard `entered`, and the old one never hears `cleared`.

The next four have no run of their own; they are what the exceptions (`blurred`, `reversed`,
`strayed`) and the subjects of passing runs stand for:

4. **A conflict is told to one side.** docs/sse.md:192 says that `factionStateChanged`
   is "Emitted when a subscribed faction's local state or conflict lifecycle
   changes in a system". `upsertFactionConflicts` stores one row per conflict, and
   `emit_faction_conflict_lifecycle_event` (20260404111412_groovy_mantis.sql:198-225)
   publishes it for the row's `factionId` only. Who follows the opponent hears nothing
   (`ConflictOf`).
5. **A state in both lists.** When it leaves one of them nothing is emitted
   (20260404122801_fix_faction_state_trigger.sql:57-84 asks only for states that left both),
   and a subscriber that was told `active` keeps it while the tables say pending.
   When it enters both at once, two rows with one `createdAt` tell `pending` and `active`.
   docs/sse.md:192 promises the transitions (`blurred`).
6. **Publication in reverse.** The relay sorts by `createdAt`
   (eventOutboxRelay.ts:103), the time of BEGIN, but jobs get their system's row after that
   (fsdJump.ts:13-21). Of two jobs that wait, the one that began later may commit first; it is published
   last, so a subscriber ends with what the other job has replaced in the tables since (`reversed`). A conflict that
   turns from pending to active may end with `ended` in any case, since its two rows tie.
7. **A carrier outlives its stronghold.** A Location message in another language finds a carrier
   by its market id and renames it (stationHelpers.ts:231, 290);
   `findStrongholdCarriersInSystem` looks for the English name
   (strongholdCarrierHelpers.ts:48-67) and leaves it in the system (`strayed`).

None of the following is a contradiction, since no document promises otherwise, but a reader
of the models meets them: a raced job loses its station silently,
deletes or overwrites another station by its id, or leaves a row whose `servicesV2` no longer follows `services` (`Stations`); a carrier whose incomplete row a `Location` message stored is never
updated again; a power that leaves a system is told about at no channel of its own, as the
relay looks powers up late (docs/sse.md:125); the late readers of `ApiAccess`.

## 5. Proofs

All theorems hold for every value of the constants under the module's
named assumption (`BoundsAssumption`, `QuotaAssumption`, ...), which says
that bounds are naturals and names are distinct, and what the time model assumes
(`HeartbeatInTime` for `SseLeases`).

`SubscriptionManager_proofs` proves for every set of keys and every bound:
`TypeCorrect`, `KeyInvariant`, `SubscribedIsRealAlways`,
`DemandedIsSubscribedAlways`, `UnsubscribedOnLastDemandAlways` and
`DemandCountsHoldersAlways`. It assumes `BoundsAssumption` only (the bounds are naturals).

`ControlThreat_proofs` proves for every set of factions, set of integer influences
and threshold: `ThreatInvariant`, `TypeCorrect`, `ThreatRowIsCurrentAlways`,
`EventsAlternateAlways`, `AnnouncedIsCurrentAlways` and
`OrdinaryMessageAnnouncesOnceAlways`. It assumes `ThreatAssumption` only.

`SubscribedIsReal` and `DemandedIsSubscribed` are not inductive: they rest on what
an operation finds when its reply arrives, and on the reconcile a reconnect leaves
behind. `KeyInv` adds, for each key:

* awaiting SUBSCRIBE there is demand, and the state is `subscribing`, or `idle` when
  a close or `ready` reset it;
* awaiting UNSUBSCRIBE there is no demand, and the state is `unsubscribing`: the
  chain of the key holds later increments back;
* awaiting nothing, the state is `idle` or `subscribed`;
* on a ready connection, a demanded key that is `idle` with nothing awaited and no
  rejection has a reconcile queued;
* a key in state `subscribed` is demanded;
* before any loss or rejection, a channel that the client or Redis knows belongs to a key
  in state `subscribed` or `unsubscribing`.

That the count of a key is the number of its holders (`CountInv`) needs `NeverBelowZero`:
in every prefix of the key's queue the decrements do not outnumber what the count and the
increments before them give, so the code's clamp at zero never swallows one. What a
queue holds is a cardinality (`Occurrences`), so the lemmas `CountAppend` and `CountTail`
need no induction.

The invariant is stated per key, and each action is shown to preserve it for
the key it touches and for all others (`OtherKeys`). TLC checked `IInv` on the
instance of `subscriptions` before it was proved.
The invariant of `ControlThreat` adds to its properties what a transaction
relies on between its statements and what a rollback restores:

* the row is current not only in the tables but in `saved`, so an abort needs no
  refresh;
* the row's flag is the status of the last event of the transaction, or of
  the last committed one when there is none: that is why the next flip has the
  other status;
* before its first statement a message has changed nothing, and a message
  that keeps the controller and the factions has changed nothing until the
  upsert. So its one refresh that matters starts from the committed row.

The lemma `ChallengerDecides` makes the ties harmless: whichever of the equally
strong challengers the query returns, the gap and the threat are the same.

`SseBroker_proofs` proves for every set of connections, channels, routes and limits:
`BrokerInvariant`, `TypeCorrect`, `IndexIsExactAlways`, `DemandReleasedOnceAlways`,
`QueueHasLoopAlways`, `QueueIsServedAlways` and `EventsInOrderAlways`. It assumes
`BrokerAssumption` only. Each method has a lemma
on connection records (`CleanupSound`, `FlushTurnSound`, `EnqueueSound`, ...) that
it keeps `Sound` and never reopens a connection (`Later`), and the actions
compose them through `BecomeSound`. The invariant adds two facts the properties
need: a closed connection has an empty queue, so its loop can stop without
looking; and a connection that has not registered is untouched, so nothing acts
on it before it is indexed. `EventsInOrder` is inductive on top of that: the ids queued for
an open connection are exactly those between the last written and the next to be
numbered, and increase, so the event at the head is the next (`HeadIsNext`).
`QueueIsServed` compares `queuedBytes` with a sum over the queue, which would be
induction over data. It is stated as the number of elements of a set instead, the bytes
of the queued frames (`QueuedBytes`): a frame appended adds a disjoint set of its size
(`BytesOfAppend`), and taking the first shifts the places of the others (`BytesOfTail`).
That the counter never goes below zero, and so `TypeOK`, follows.

`OutboxRelay_proofs`: `RelayInvariant`, `TypeCorrect`, `RelayImplementsPromise`,
`DuplicatesOnlyFromFaultsAlways` and `CausalOrderAlways`. `Held` says that a row is
in the hands of one running relay (in its `todo` list, being published, or deleted by its
open transaction) and that only such rows are locked; `FactionsPublished` that a faction
event a relay has deleted is published already. Hence every step is a step of
`OutboxDelivery` or leaves `store` and `delivered` alone, a crash in the middle of a
batch included (`PromiseStep`). For duplicates, each publication is *paid* for:
by the one relay that may yet commit, or by a fault. For the order, a cause is a row that
was committed before its effect is visible and has a smaller `createdAt` (`CausesExist`,
`CausesKept`). While no two relays overlap, whoever holds an effect has its
causes before it in the same batch or settled before (`CausesFirst`).

`SseLeases_proofs`: `TypeCorrect`, `LeasesWithinQuotaAlways`, `QueueInvariant`,
`ActiveCountsHoldersAlways`, `NoRevivalAlways`, `LeasesLast` and
`LiveStreamsWithinLimitAlways`. The limit in Redis needs only the scripts. The count and
the revival rest on `QueueInv`, about the scripts under way and their replies
taken as one queue (so that sending again what is unanswered only moves the
border between answered and unanswered): one acquire per waiting request, none for any
other, hence no late acquire can bring back the lease of an admitted one.
That live streams keep their leases is an argument about time (`LeasesLast`), under
`HeartbeatInTime`:

* `TimeInv`: scripts are in the order of their times and none is older than `MaxDelay`;
  a stream that holds quota had its heartbeat within the interval; a release
  is only sent for quota that was given back;
* `GrantedInv`: a lease that was granted is untouched when its reply arrives;
* `LastingInv`: the lease of a stream lasts beyond its next heartbeat, or at least until a
  refresh of it that has not run yet. Since scripts run in the order of their times,
  no script of another connection that runs before that refresh can prune the lease; and
  each refresh under way, which may run again after a lost connection, is the last one
  or is followed by another one in time, so even an old time it writes lasts long enough.

`Worker_proofs` holds the theorems of two modules about the tables the worker writes.
Of `SystemEvents`, under `EventsAssumption` only (the messages of the feed are possible ones):
`TypeCorrect`, `EventsTellTheTablesAlways` and `EveryWordIsNewsAlways`, for any factions,
states, types of conflict and messages. The properties are not inductive, since what is
heard now was decided by commits that were not published yet. The invariant (`LastAllowed`)
is of the words that will come last, of the rows with the greatest `createdAt` or, once there are none,
of `heard`. `NewWord` takes the words of a step apart by the triggers they come from, and a lemma
for each kind of subject shows how they fit what the tables say before and after (`WordsFit`).
A commit in turn puts its words after all others, one that is not in turn is
`reversed` (`CommitLast`); the relay takes the last words away only when they are the only
ones left (`PublishLast`).

Of `Stations`, under `StationsAssumption` only (names are distinct, ids are
naturals): `StationsTypeCorrect` (with the unique keys of the committed rows),
`CarriersInStrongholdsAlways` and `UnracedJobsStoreAlways`, for any number of jobs,
systems, markets, lists of services, messages and transactions. None of the three is inductive,
since what a commit brings was decided by statements before it. `StationsInv` says it of
one job over the committed rows (`Job`) and of two jobs (`Apart`):

* keys are unique among the rows each job *sees*, and no two jobs have written one
  row, one key or rows of one system, so a commit cannot break them (`KeysCommitted`);
* a job stores rows of its own system only (`InSystem`), so what it has found by name
  is still all there is (`NamesFound`), and in a system that it holds to be no stronghold
  it sees no carrier that has not strayed (`SeesNoCarriers`), whatever others commit;
* what it has found by market id, and the rows themselves, stay so only while it is
  not raced (`MarketFound`, `RowsFound`);
* a job that is about to commit has its station among its own writes (`Written`), or
  was raced, or had none to store.

A second invariant, `SparesInv`, stands on the first: whatever a job has found has a
key of its station (`Finds`), and while it is not raced so has every committed row among
its writes (`Spares`), since the row it deletes or updates is still the one it found
(`RowsFound`) and the id of an insert is new.

A statement changes one job and no committed row: each has a lemma about records, without a primed
variable (`BeginJob`, `PowerplayJob`, ..., `SkipJob`), which `OneJob` turns into a step.
A commit changes the rows under the others (`CommitJob`). TLC checked the invariant on the instance
of `stations` first.

`ApiAccess_proofs`: `TypeCorrect`, `AnswersSoonCurrentAlways`,
`OnlyLateReadersBringBackAlways` and `GrantsWithinLimitAlways`. `AgeInv` gives every copy of a record
that is not the row's an age at most: what a request holds by its phase and wait, what a
cache holds by the time it has left. The sum of the chain is `StaleBound`. That
only active records are written (`WritesActive`) is part of the types. `CleanInv`
says that after a clear without late readers no request on its way to write Redis
holds anything but the row. The requests granted are counted as the elements of a set, one for each
(`AllOf`), so that theorems about finite sets replace a fold. `WindowKept` says that the sorted set
still holds every grant younger than the window; a script that
read the clock later and ran earlier has pruned nothing else, and all the property counts is younger, as its
window is short by `MaxDelay`.

`Ingest_proofs`: `TypeCorrect` and `OlderOverwritesOnlyIfReorderedAlways`. A job
is *fresh* if it never failed, stalled or was added again. A handler without its job is of a
message that is known, so nothing fresh waits behind it (`LateKnown`). Adds are sent in the
order of the feed (`SentOrder`, `LineOrder`), so fresh jobs wait in that order behind what was applied or is
running (`WaitingOrder`), and a fresh job that runs beside no newer one is newer than what the database has
(`ActiveOrder`).

Only model-checked:

* liveness: `DemandIsServed`, `EventuallyRetired`, `GoneIsForgotten`, `EveryMessageEnds`;
* the properties that do not hold, see 4.

## 6. Not modelled

* The start and shutdown of the API process as a whole, and `stop()` of the subscription
  manager; `OutboxRelay` has start and stop in any order, `SseBroker` has
  `closeAllConnections` against registrations.
* The event registry and the parsing of subscription parameters: pure functions from
  text to keys.
* GraphQL: reads only. Its plugins keep no state.
* The queue and heartbeat monitors of the listener: only logs and alerts depend on them.
* A key without a row, a wrong secret, the bound of the resolver's in-memory cache; limits for IP addresses and SSE connects,
  which are the same script under other keys.
* Attributes of systems and stations that nothing depends on, validation and
  mapping of values, metrics, telemetry, configuration, `debugSse`.
* A row of the outbox that cannot be published for ever: failed batches are bounded by faults.
* Overlapping relays in `SystemEvents`: what a second one does to order and duplicates is in `OutboxRelay`.
* More than two runs of `updateApiKey` at once.
* Two API processes are modelled for the relay only: leases are documented as
  sound for a single instance.
