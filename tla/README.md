# Verification of resilient-nestjs-architecture

TLA+ models, TLC runs and TLAPS proofs about the failure handling of the task
service: the queued write path and its RabbitMQ subscriber, the idempotency
interceptor, the fallback cache, the circuit breaker, and the cache and
repository adapters. `PROJECT.json` is the index: which lines each definition stands for,
which properties each run checks, and which mutation of the code breaks each
property.

    tlc -workers 2 -config queue_promise.cfg MCTaskQueue.tla
    for m in *Proofs.tla; do tlapm $m; done

## The system

One API process serves HTTP, one worker process consumes RabbitMQ, both use the
same database (Postgres by default) and the same Redis
(`docker-compose.yml`, both containers restart by themselves). Every repository
and every cache or publish call runs under a circuit breaker (opossum) that
gives up after a second.

| Component | State it keeps | Operations | Talks to |
|---|---|---|---|
| Idempotency interceptor | two Redis keys per idempotency key: the claim (5 s) and the response (120 s) | intercept a POST, PUT or DELETE: look up, claim, wait, store, release | Redis, the handler |
| Task controller | none | direct write; on a transient failure, enqueue and answer 202; read a message state | task service, publisher, message state |
| Task service, task cache | Redis keys `tasks:<id>` and `tasks:all` (120 s) | six operations; copy after a read, drop after a write, fall back on a failed read | repository, Redis |
| Message publisher | message state in Redis, message in the delayed exchange | set state, publish with retry headers | Redis, RabbitMQ |
| Message state | Redis keys `tasks:queued:<id>` (120 s) | set, update if present, get | Redis |
| RabbitMQ subscriber | channel, subscriptions, consumer tags, `reconnecting`, `shuttingDown` | subscribe, unsubscribe, reconnect; per delivery: handle, then acknowledge, republish or reject | RabbitMQ, the processor |
| Message processor | none | main queue: check state, mark, write, settle; dead-letter queue: mark failed | task service, message state |
| Circuit breaker | closed, open, half-open; rolling counts | fire | whatever it wraps |
| Cache adapters | Redis connection, or a map of 100 entries | get, set (write modes, TTL), del | |
| Repository adapters | connection, or a map | find, create, update, delete | database |
| Connection services | the promise of a connection | get, shut down | database |
| Telemetry, configuration, DTOs, bootstrap | nothing the program reads back | | |

What is hard about it: the program never holds a transaction across two
systems. Each step is a call that may fail, or be reported as failed and take
effect later; between two calls other requests, redeliveries, a second process,
a crash or an expiry can come. `PROJECT.json` lists such places as `hazards`,
each with the properties that watch it, or the reason why none does.

What makes each component correct:

- **Queued write path**: a queued write is not run again once it succeeded; what
  the client reads (`pending`, `in_progress`, `completed`, `failed`) is true of
  the write; an accepted message is settled in the end.
- **Idempotency**: one handler at a time per key; a client that has its answer is
  not handled again when it retries while the response is stored; everyone is
  answered; no claim outlives its request.
- **Fallback cache**: answers from it are current when nothing overlaps, and
  never staler than a bound when it does; staleness heals.
- **Subscriber**: never two consumers of a queue on a channel, and exactly one
  once the channel stays open.
- **Breaker**: one probe at a time when half open; an open breaker recovers; what
  clients are told about retrying is enough.
- **Cache adapters**: both keep one contract, and an entry lives as long as it
  was asked to.
- **Repository adapters**: an update writes only what it was given and never
  revives a deleted task; an answer was true at some time of the call.
- **Connection services**: one connection; a failed attempt is not kept.

## Modules

| Module | What it models |
|---|---|
| `TaskQueue` | controller fallback, publisher, message state, broker, consumer callback, processor; failures of all of them |
| `QueuedWrite` | what that path promises a client, after `docs/diagrams/message-queue-async.plantuml`; `TaskQueue` implements it |
| `TaskQueueProofs` | theorems about `TaskQueue` |
| `QueuedWriteProofs` | that `TaskQueue` implements `QueuedWrite` |
| `Idempotency` | the interceptor, for the requests that carry one key |
| `TaskCache` | task service, task cache, Redis, database |
| `Subscriber` | the worker's start-up and its reconnect loop, turn by turn |
| `CacheAdapters` | the Redis and the in-memory cache |
| `CacheContract` | what callers of `CacheService` rely on; `CacheAdapters` implements it |
| `Repository` | the Postgres, Mongo and in-memory task repository under concurrent calls |
| `TaskStore` | what `TaskService` takes the task table for; `Repository` implements it |
| `CircuitBreaker` | the breaker, its timers, and what it tells callers about retrying |
| `CircuitBreakerProofs` | theorems about `CircuitBreaker` |
| `IdempotencyProofs`, `TaskCacheProofs`, `SubscriberProofs`, `CacheAdaptersProofs`, `RepositoryProofs` | theorems about the module of that name |
| `MC...` | instances of these for TLC |

`TaskQueue`, `Idempotency` and `TaskCache` compose the program's parts and take a
breaker, a cache call and a repository call for what can come out of one. The
four modules below them look inside: `Subscriber` inside the step `Resubscribe`
of `TaskQueue`, `CircuitBreaker` inside "fails, or is given up on",
`CacheAdapters` and `Repository` inside a call.

### TaskQueue

`req[m]` is where the controller is with a request, `status[m]` the Redis entry
with its state, `ready` and `dead` the copies in the broker, `pc[s]` and `job[s]`
a running callback and the delivery it holds. `effects[m]` counts how often the
database applied the write, `lates[m]` how many of these the caller was told had
failed: a breaker timeout does not stop the database.

One action is what runs between two awaits, so every interleaving of callbacks,
API and broker that the event loop can produce is a behaviour. The actions
follow the code's order: `DirectWrite`, `SetState`, `Publish` in the API;
`Deliver`, `GetState`, `MarkInProgress`, `RunWrite`, then `Settle` or
`ResetPending` and `RetryOrReject`, then `Ack` or `Reject` in the worker; `Bury`
for dead letters. `Answered` separates writing an ack or a reject to the socket
from the broker acting on it.

The environment is a set `Faults`, so a run says exactly under which failures it
holds:

- `db`, `late`, `store`, `broker`: a call refused, or timed out and done anyway;
- `backpressure`: `channel.publish` answers false although it sends;
- `expiry`: a message state goes away, at any time;
- `crash`: the worker dies at any await; what it had written to the socket
  arrives, everything it held is redelivered;
- `close`: the channel closes, what was on the way is lost, callbacks run on and
  meet a closed channel; the exception that ack, publish or reject then throws
  is not caught and ends the process.

Abstracted: delays (a published copy may arrive at any later time);
the payload; a repository call is one step (when the second statement of the
Postgres `updateOne` fails or finds the task deleted, the write was applied and
the caller is told otherwise: it counts among the `lates`). Not modelled: `amqp-connection-manager`
sending a buffered publish twice, and the broker losing durable messages.

### Idempotency

`pc[r]` is the await of request `r`, `wire[i]` what process `i` has sent to Redis
and Redis not executed, `reply[r]` the answer of Redis that has not resumed its
request yet, `claim` and `stored` the time the two keys have left, `owner` (a
history variable) who set the claim last. A call the breaker gives up on stays on the wire: this is where late claims and
late releases come from. `Throw` has the code's error paths, among them that
`persistResponse` releases in its `finally` and `catchError` releases again.

Redis executes the commands of a connection in order (`Serve`), but requests do not
go on in that order (`Resume`). Answers that one read of the socket brings resolve
their promises in one turn of the event loop, and the number of awaits behind each
call decides who sends its next command first: one await behind the store in
`persistResponse`, two behind a lookup in `getCachedResponse` and `intercept`. The
model lets requests go on in any order, which contains that one.

Time: a tick is a second. `Timeout` is the breaker's, `Poll` the half second of
the wait loop rounded up, `ClaimTTL` is `PROCESSING_TTL_S`. `ResponseTTL` stands for
`RESPONSE_TTL_S`, cut from 120 to 6: what matters is that it is longer than the
claim, and that a request can come after it. `HandlerMax` bounds the handler:
1 for a direct write, 3 when it falls back (message state and publish each up
to a second more). An API crash is not modelled: the claim then expires.

### TaskCache

The database is one task and the list, known by the number of the write that
last changed them (`last`); `age[k][v]` is how long `v` has been out of date. An
operation is `Begin`, `AtDatabase`, `Return` (or `ReadFails`, `WriteFails`,
`FallbackFails`); `Refresh` says what each operation sends to the cache.
`orphans` are writes whose caller timed out and which the database may still
apply. The API and the worker have a connection to Redis each.

`setImmediate` is not a step of its own: what it puts off to the end of the
event loop's turn could only be overtaken by callbacks of the same turn, and
those could equally have run before the operation returned. `Sent` has the
breaker's three answers to the commands of one callback: all pass, none, or the
first only, when it is the half-open probe.

### Subscriber

`at[a]` is the await at which the start-up (`boot`) or a run of
`scheduleReconnect` stands, `channel`, `subscriptions` and `reconnecting` are the
fields of the service, `latest` and `open` say what `connection.channel` is,
`consumers[q]` counts the consumers on it. A step is a turn of the event loop.
An answer that has been read marks its await as `resumed`; a close that is read
together with it comes before the code behind the await, as amqplib handles both
frames of one read before any promise continues. The several awaits of the
topology's declaration (`assertExchange`, `assertQueue`, `bindQueue`) are one:
each can only fail or go on. The faults are a close, an error that is followed
by a close, a close in the same read as an answer, and the end of the process.
An exception in the start-up ends the process, since Nest aborts a bootstrap that
fails, and Docker starts it again.

### CacheAdapters

`entries` holds the entry of each key with the time it has left; `order` is the
order in which the Map iterates over its keys, which only eviction looks at, and
stays empty for Redis. Redis drops an entry when its time is over; the Map finds out when
it is read. `asked` (history) is what the last accepted set of a key asked for,
against which `get` is measured; `since` (history) is what was read or inserted
since a key was. One call is one step: the Map's methods have no await, Redis
executes one command at a time.

### Repository

`rows` is the table; a task is, for each field, the client that wrote it last, so
a value tells whose it is. A statement of a database is one step;
`PostgresUpdate` and `PostgresSelect` are the two of one `updateOne`,
`MemoryRead` and `MemoryStore` the two sides of the await in the in-memory one.
`Return` has the loss of the connection after a statement took effect, `Fail`
that before. `effects`, `absent` and `raced` are history: the order of the
writes, what each call saw absent, and where a store from a stale read went.

### CircuitBreaker

`state`, `pendingClose` and `resetIn` are opossum's as the service configures
them; `running` and `timeLeft` the operations under way. `up` says whether the
dependency answers in time; `doomed` are calls that it was down in. A failure of
a closed breaker may or may not open it: the rolling window is left out.
`retryIn` follows one client that was told to come back, and `refusedBy` whether
the open period it was told about still lasts.

## Runs

Runs that pass:

| Run | Shows | Bounds and why they suffice |
|---|---|---|
| `queue_settles` | with a failing or late database every accepted message is settled; `in_progress` never outlives an attempt | 2 messages, 2 callbacks, 2 retries: both messages go through retry, last retry and dead letter at the same time |
| `queue_promise` | the path implements `QueuedWrite` under database, publish and worker failures and expiry; an acknowledged write is not run again; a `pending` message is held by someone; late writes repeat at most once per retry level, once directly and once per crash | 2 messages, 1 retry, 1 crash: a redelivered copy meets a retried one |
| `queue_all` | under all failures, closed channels and failing cache calls included, `completed` is only said of an applied write | 1 message, 1 retry, 2 crashes or closes |
| `idem_single` | one API process, lookups that may fail or be given up: one handler at a time, no claim left behind | 3 requests: holder, waiter and a late third; a handler of one tick, the longest for which it holds |
| `idem_faulty` | every Redis command may fail or come late: all requests are answered, a retry of a client that has the response is not handled while that is stored | 2 requests in 2 processes, a handler of 3 ticks, a response kept for 6: one request waits, one comes before and one after the expiry |
| `cache_sequential` | without overlap a fallback answer is current (all operations but `deleteAll`) | 3 writes, TTL 3 |
| `subscriber` | no queue is ever consumed twice on a channel; when nobody is at work both queues are consumed and the channel is listened to; once a channel stays open both get their consumers back | 5 channels, 2 loops at a time: closes in the start-up, in a loop, in the loop after it |
| `cache_adapters` | both adapters implement `CacheContract`; reads, conditions and eviction are right | 3 keys for 2 places, lives of 1 and 2 ms and for ever: an entry is evicted, expires, and is overwritten |
| `repository` | each adapter implements `TaskStore`; answers were true | 3 calls, 2 ids, 2 fields: an update meets another and a deletion |
| `breaker` | one probe, retry advice that suffices, every call returns, recovery | 3 calls, timeouts of 2 and 5 ticks with 2 ticks a second, so that the rounding matters |
| `cache_bound` | in general it is at most TTL + timeout + connection wait out of date, and the bound is reached; after the last write the cache becomes current for good | a request of the API and a delivery of the worker at a time, 2 writes, TTL 2: one copy overtakes an invalidation, another is lost |

One run shows a disagreement between the code and what the repository says of it
(quoted in `PROJECT.json` under `findings`): in `queue_misreported` the `completed`
update fails, and on each retry left the state cannot be read either (a retry that
can read it finds `in_progress` and is acknowledged); the message is dead-lettered
and the client reads `failed` for a write that was done.

Limits of what passes, each with its reason in the code:

- `OneHandler` is checked with a handler of one breaker-bounded call and a Redis
  that carries out what it is told to set or delete. With the longer fallback path
  the claim can expire first (the project's README has this as a TODO). It says
  that handlers do not overlap, not that one succeeds: a duplicate that has looked up
  before the response is stored may claim after the claim was released, and nothing
  is read again once a claim is granted (`idempotency.interceptor.ts` 53-59). Its
  handler then runs the write again while the response is stored, where
  `safe-retries.plantuml` has a granted claim mean a new request. One process
  suffices, when the answers to the lookup and to the store are read together; with
  two, their connections are not ordered with each other anyway. To see it, check
  `\A r \in Reqs : pc[r] = "handle" => stored = 0` as an invariant in `idem_single`.
- `RetryIsReplayed` ends two breaker timeouts before the response expires: the
  client may have its answer a release after the response was stored, and a retry
  whose lookup found nothing is handled when its claim is answered. With one
  timeout TLC refutes it.
- A waiter polls for the response for a fixed five seconds and never looks at the
  claim: it is always answered (`EveryoneAnswered`), but its 408 may come when the
  request it waited for has long failed.
- `BoundedStaleness` and `StalenessHeals` say what is left of fire-and-forget
  invalidation: overlapping calls, late writes and a breaker that drops the DELs do
  leave stale copies, which the two bound in age and time but do not rule out.
- `PendingIsCarried` and `BoundedDuplication` need the channel to stay open: a
  callback answers on the channel it was delivered on, and when that one is
  closed the process ends, after the redelivered copy may already have been
  taken for a duplicate.
- `EventuallySettled` needs a worker that lives: one that dies after it has marked a
  message `in_progress` leaves it so, since the redelivery is taken for a
  duplicate (`task-message-processor.service.ts` 24).
- `AtMostOnce` needs cache calls that succeed: when the `completed` update fails and
  the `getState` of the retry fails as well, the state is reset to `pending` and
  the write runs again (lines 42-47); theorem `DuplicationBounded` says how often. To see both,
  run `queue_settles` with `crash` among the `Faults` and one restart, and
  `queue_promise` with `store` and two retries. A dead letter whose `failed` update
  does not reach the cache is acknowledged and keeps its status.
- `OneHandler` needs calls that succeed: when storing the response fails, the claim
  is released twice (`idempotency.interceptor.ts` 114 and 81), the second time
  perhaps that of another request; `idem_single` with `Unreliable = {"set"}` shows
  it.
- `FallbackIsCurrent` is for all operations but `deleteAll`, which leaves the cache
  alone (`task.service.ts` 64-66), where `fallback-cache-flow.plantuml` has every write
  drop it: with the database down deleted tasks can be read back for two minutes. To see
  it, give `cache_sequential` all operations.
- `NoCloseOverlooked` and `EventuallySubscribed` except a close that is read
  together with the answer to a loop's last `consume`: `reconnecting` is still
  set, so the listener does nothing, and the loop then ends
  (`message-subscriber.service.ts` 52, 68). The variable `missed` is that case.
- `RefinesTaskStore` and `OneRemover` except the in-memory `updateOne` storing over a
  task that has changed since it was read (`in-memory/repository.ts` 36-45): it
  undoes the other write, a deletion included.
- `ConditionIsOnLiveEntries` excepts expired entries of the in-memory cache that
  nobody has read since: `ifNotExists` is refused, `ifExists` accepted. A full map
  evicts a live entry even when expired ones take up room, and overwriting a key
  does not make it recent. The in-memory cache and repository are those of one
  process: with them API and worker would not share states or tasks.
- `RetryAfterSuffices` is about the open period that refused the client. A failed
  probe begins another one.
- `RefinesQueuedWrite` needs `publish` to answer true: on false the message is
  both republished and dead-lettered.

`MaxRetries` is 3 in the code; the runs use 1 or 2 because retry levels differ
only in being the last or not, and the theorems hold for any number. Slots and
clients bound what runs at once; messages and keys do not interact except
through the shared callbacks, so two are enough to see interference. Callbacks
are interchangeable (`SlotSymmetry`); no run with a liveness property uses
symmetry. `CHECK_DEADLOCK FALSE` is set where the system may come to rest: the
`queue_` runs (every message is settled, no restart is left), `subscriber` (both
queues are consumed, no channel is left to lose) and `repository` (every call has
been answered). In the other models time passes.

Fairness: a callback that stands at an await goes on (the breaker ends every
call), the broker delivers to a registered consumer, `scheduleReconnect` retries
for ever and Docker restarts the worker; Redis executes what was sent; timers
fire; a broker or dependency that is up answers. No fairness is assumed of
clients, faults, expiry, or of a dependency or channel coming back.

## Proofs

Every safety property and every refinement that a passing run checks is proved for all values of
the constants; each theorem names the run's definition, so the run shows it on a small instance.
The assumptions on constants are the `ASSUME`s of the modules and nothing else: times and bounds are
numbers, the timeout of the breaker is below its reset timeout, names of model constants are distinct,
the clients of `TaskCache` are finitely many. Where a property needs more, it is a
hypothesis of the theorem, and the list of limits above says what goes wrong without it.

| Module | Theorem | Property | Hypothesis |
|---|---|---|---|
| `TaskQueueProofs` | `Typing` | `TypeOK` | none |
| | `OneCarrierEach`, `OnceOnly` | `OnceInv`, `AtMostOnce` | `Quiet`: neither `store` nor `close` among `Faults` |
| | `CompletedIsApplied` | `CompletedMeansApplied` | none |
| | `NeverDropped` | `PendingIsCarried` | `Quiet` |
| | `InProgressRuns` | `InProgressIsRunning` | `Quiet`, no `crash` |
| | `DuplicationBounded` | `BoundedDuplication` | no `close` |
| `QueuedWriteProofs` | `ImplementsQueuedWrite` | `RefinesQueuedWrite` | `Calm`: `Quiet`, no `backpressure` |
| `IdempotencyProofs` | `IdempotencyTyping` | `TypeOK` | none |
| | `ReplayedInTime` | `RetryIsReplayed` | none |
| | `OneInController` | `OneHandler` | `Dependable`: only `get` and `claim` unreliable; `InTime`: `HandlerMax + 3 * Timeout < ClaimTTL` |
| | `ClaimReleased` | `ClaimIsLive` | only `get` unreliable, `InTime` |
| `TaskCacheProofs` | `CacheTyping` | `TypeOK` | none |
| | `CopiesAreBounded` | `BoundedStaleness` | none |
| | `SequentialIsCurrent` | `FallbackIsCurrent` | `Sequential`: one client, no fault but `db`, no `deleteAll` |
| `SubscriberProofs` | `SubscriberTyping`, `NeverTwoConsumers`, `EveryCloseIsHeard` | `TypeOK`, `OneConsumer`, `NoCloseOverlooked` | none |
| `CircuitBreakerProofs` | `BreakerTyping`, `SingleProbe`, `AdviceSuffices` | `TypeOK`, `OneProbe`, `RetryAfterSuffices` | none |
| `CacheAdaptersProofs` | `AdaptersTyping`, `AsksAreKept`, `ConditionsAreLive`, `EvictionIsFair` | `TypeOK`, `ReadsWhatWasAsked`, `ConditionIsOnLiveEntries`, `EvictsLeastRecent` | none |
| | `ImplementsCacheContract` | `RefinesCacheContract` | none |
| `RepositoryProofs` | `RepositoryTyping`, `MissingIsTrue`, `RemovedOnce`, `UpdateAnswersItself` | `TypeOK`, `MissingWasAbsent`, `OneRemover`, `AnswersOwnWrite` | none |
| | `ImplementsTaskStore` | `RefinesTaskStore` | none |

"None" means every subset of the module's faults, among them those that no run combines.

How they go. Each module has an inductive invariant, a conjunction of named parts, a lemma per
action that it is kept, and the theorems drawn from it.

- **Queued writes.** `AtMostOnce` is not inductive: nothing in it says that a write which succeeded is
  not about to run again. `OnceInv` adds why. `OneCarrier`: the copies in the main queue and the callbacks
  that have not answered the broker are at most one per message, so a crash cannot multiply it;
  `NotYetSent`: before the publish nobody carries the message and no write was acknowledged;
  `MayStillRun`: as long as the state is `pending`, or a callback is between its check and its write,
  no write was acknowledged. Crash and redelivery need `OneCarrier`, `GetState` needs `MayStillRun`.
  `DupInv` counts: each attempt that was applied has a retry level, the direct write or a death to
  answer for it (`Attempts`). `AppliedInv` ties what a callback is about to record to what the
  database acknowledged; it needs no hypothesis, because a callback records `completed` only with its
  own write behind it.
- **Refinement of `QueuedWrite`.** `QInv` adds `Phases`, which relates the request in the controller, the
  state and the one bearer of a message; `Seen` is the step the client sees. `Calm` excludes what the limits
  above name: a publish that answers false makes a second bearer, and a failed state update lets the client
  read of a done write that it failed.
- **Idempotency.** `HInv`: a request between the SET NX that Redis did for it and its DEL (`Holds`) owns
  the claim, and the claim has as much left as it had when set, less what the request can have taken
  since (`Age`; `HoldersOwn`). `Wired` says why no other DEL can come in between: what is on the wire was
  sent by a request that still stands at that await, or by one whose lookup or claim was given up on. From
  `InTime` the claim then outlasts every holder: a timeout for the answer to the claim, the handler, and one each
  for store and release. The inequality is strict for a reason: with `HandlerMax = 2` in
  `idem_single` TLC finds two requests in the handler, since the claim expires while the release is
  on the wire, which then removes the claim of the next. `OwnersHold` adds that nobody else owns a claim. `RInv` carries
  `RetryIsReplayed`: what a response has left to live, and the time since the request moved on or
  its client had it, make up the TTL (`StoredFor`); `Late` follows a request sent after that.
- **Fallback cache.** `CInv` follows the age of a copy: at most a timeout when it was read
  (`ReadIsRecent`), plus the wait on the connection (`SentIsRecent`), plus the used part of the TTL
  (`CachedIsRecent`). `SeqInv` says for a single client that what the cache holds is current or will be
  dropped by a command already on the wire. Sums of cardinalities of writes under way and given up on
  bound the write numbers (`Room`), which is what the finiteness of the clients is for.
- **Subscriber.** `SInv`: one loop at a time works (`OneLoop`), its consumers are those of the
  subscriptions it has redone on this channel (`LoopInv`), the start-up and the loop divide the rest
  (`BootInv`, `UpInv`).
- **Breaker.** `OutlivesCalls`: while the breaker is open, every call under way is given up on before the
  reset timer runs out; that is what `timeout < resetTimeout` buys, and what makes `ProbeOnly` (a
  half-open breaker has nobody under way but its probe) survive the step to half open. `Advised`: a
  client told of an open period waits at least as long as that has left; it begins with `RoundedUp`,
  that rounding up to seconds loses nothing.
- **Cache adapters.** `AskedInv`: an entry that is there is exactly what was asked for, one that is gone
  has had its time or was evicted. `ListInv`: the Map lists each of its keys once, each after all those it is
  more recent than. Lemmas say what removing, appending and dropping the first do to such a list.
- **Repositories.** `Underway` says what a call between two statements knows. `BornInv`
  and `RemovedIsGone` give each removed id its one remover (ids are never reused); `UpdatedIsOwn`: between the UPDATE
  and the SELECT of a call a field is its own or that of a write that took effect after it.

Only model-checked: liveness (`EventuallySettled`, `EventuallySubscribed`, `EveryoneAnswered`,
`StalenessHeals`, `EveryCallReturns`, `Recovers`), because liveness under fairness and ENABLED are out of
the prover's reach. The disagreement of `queue_misreported` is a counterexample and has no theorem.

## Plan

Theorems that could still be added: the safety part of the properties that only TLC checks, such as the
deadlines behind `EveryoneAnswered`, that no request waits past its five seconds and a breaker's timeout.

Models that could still be added: the backoff arithmetic of a retry against the
120 s of the message state, and `Subscriber` composed with the callbacks of
`TaskQueue`.

## Not modelled

The hooks `onModuleDestroy` and `onApplicationShutdown` (unsubscribe, closing of connections):
neither `main.ts` nor `worker.ts` enables Nest's shutdown hooks, so they do not run. The connection
services are then one promise each that one factory awaits once, at start-up. Telemetry,
configuration, bootstrap, DTO validation and response headers other than the advice to retry keep no
state the rest depends on. No order is promised between a direct write and an older queued one of
the same task, and none is modelled: the later to reach the database wins. opossum's rolling window
is left to chance, which covers every setting of it. opossum, ioredis, amqplib, TypeORM and RabbitMQ
are modelled as the source uses them (marked external in the map). The k6 and chaos scripts are
drivers of the running system; their deployment is what the instances of the models follow.
