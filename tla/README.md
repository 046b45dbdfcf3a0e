# TLA+ models of grpc_graphql_gateway

This directory holds TLA+ models of the gateway's and the federation router's concurrent
parts, the TLC configurations that check them on small instances, and proofs for TLAPS.
Paths below are relative to the repository (`src/src/...` is the Rust crate's `src/`).
`PROJECT.json` maps every definition to the lines it models and lists runs, mutants,
findings, hazards and theorems.

## 1. Inventory

The crate is a library (a GraphQL gateway in front of gRPC and REST services, and a
federation router in front of GraphQL subgraphs) with a router binary. Requests are tokio
tasks on a multi-threaded runtime; shared state sits behind `parking_lot` or tokio locks and
atomics; a request future can be dropped at any `await` (client gone, sibling failed).

| Component (source) | State | Operations | Hard behaviour | What makes it correct |
|---|---|---|---|---|
| Circuit breaker (`circuit_breaker.rs`) | state under a RwLock, four atomics beside it | `allow_request`, `record_success`, `record_failure`, `state`, `reset` | acts on a state it has read and released; outcomes of an earlier era; dropped probes | trips only at the threshold, probes within budget, neither Open nor HalfOpen is for ever |
| Request collapsing (`request_collapsing.rs`) | map key -> entry with watch sender, start, waiter count | `try_collapse`, `broadcast`, `recv`, eviction | check-then-insert, replaced entries, dropped leaders, late joiners | followers get the leader's result; waiters bounded; no one waits for ever |
| Response cache (`cache.rs`) | map, insertion order, type and entity index: four RwLocks (or Redis) | `get`, `put`, `put_all_entities`, `invalidate_*`, eviction, `clear` | operations span the locks; a put races with an invalidation | what is stored is indexed; a mutation leaves nothing stale |
| Gateway HTTP path (`runtime.rs`, `handle_http`) | per request | APQ, live detection, cache, middlewares, execution, invalidation or put | order of the steps; reads before a mutation put after it | as for the cache |
| Live query socket (`runtime.rs`, `handle_live_socket`) | subscriptions of the connection, channel of 100 to the forward task | connection_init, subscribe, complete, close; invalidation events | three tasks, lag, registration after execution, ids used twice | the client ends up with the latest data, in order; the connection is released |
| Live query store (`live_query.rs`) | queries, trigger and connection indexes, senders, each under its lock; a broadcast channel | `register`, `unregister`, `unregister_connection`, `invalidate`, `send_update` | four locks one after the other, from tasks of many connections; limits checked and applied under different locks | a registered query is reachable through every index; a slow client stalls nobody |
| Federation router (`router/mod.rs`) | sharded cache, APQ store, breakers, collapsing registry, counters | `execute_scatter_gather`, `execute_fail_fast`, `clear_cache` | fan-out, partial results, sibling futures dropped, broadcast before cache insert | partial results are not cached; answers belong to their query; breakers see every call that ended |
| DDoS limiter (`router/mod.rs`) | per-IP limiters | `check`, `cleanup_stale_limiters` | insert race (rechecked), cleanup of a limiter in use | in any second an address gets one burst and the cells its quota gives back, not two bursts |
| Router binary (`bin/router.rs`) | the configuration behind an RwLock, a watcher task; per connection a map id -> handler, a channel of 100 | HTTP and WebSocket handlers, reload | readers that hold the lock through an execution, edits during a reload; relays, handlers and queries on one channel | the last valid file is served; protocol and release of each connection |
| Shutdown (`shutdown.rs`) | flag, state watch, active count | `shutdown`, guards, `shutdown_signal` | second caller, late subscriber, timeout | a signal stops the server |
| Subscription socket (`subscription.rs`) | registry id -> cancel channel | init with timeout, subscribe, complete | id reuse against a resolver that ends, init timeout, leaked senders | every subscription can be cancelled, every connection ends |
| Subscription federation (`subscription_federation.rs`) | permits, counters, upstream tasks | `handle_subscription`, upstream task | abort between increment and decrement; detached tasks | connections within the limit, counters return to zero |
| Persisted queries (`persisted_queries.rs`) | map and insertion order | `get`, `put`, `process_apq_request` | expiry leaves the order behind; put spans two locks | a hash resolves to its own query; eviction finds what is stored; size bound |
| High-performance primitives (`high_performance.rs`) | sharded cache, a RwLock per shard; pools, batcher | `get`, `insert`, eviction, `clear` | rounding in eviction, clear shard by shard | size bound; a mutation leaves nothing it cleared |
| Query cost analyzer (`query_cost_analyzer.rs`) | budgets by user, load factor, past costs | `check_user_budget`, clean-up | window boundaries, eviction of a budget in use | spending bounded per interval |
| Query whitelist (`query_whitelist.rs`) | hashes, ids, ids by hash, each under its lock | `register_query`, `remove_query`, `validate_query` | locks in turn against locks nested; several ids for one query | a text is allowed exactly while an id stands for it |
| Incremental delivery (`defer.rs`) | channel of parts between a task and the HTTP stream | `execute`, the multipart stream | fragments that share fields, total timeout, client gone | every field is sent once, and one last part |
| GBP encoding (`gbp.rs`) | numbering of containers on both sides | `encode`, `decode` | both sides must number alike; references by hash | what is decoded is what was encoded |
| REST connector (`rest_connector.rs`) | cache under a RwLock | `execute` with retries, `clear_cache` | lost and late answers, retried writes, a GET in flight during a clear | a cleared cache forgets |
| DataLoader, middleware | batches, checks | `load`, `call` | - | not modelled |
| Everything else (analytics, builder, schema, compression, mTLS, QUIC, OpenAPI, WASM, metrics, WAF, binaries, generated code) | none or write-only | - | - | not modelled; reasons in `PROJECT.json` |

How they meet: the router asks its cache, then the collapsing registry, then fans out to the
subgraphs with one breaker each, broadcasts to followers and inserts in the cache. The
gateway's `handle_http` asks the response cache, executes, and puts or invalidates; `handle_fast`
asks the sharded cache before that, and `handle_http` fills and clears both. The live
socket calls `handle_http` (bypassing the cache for live queries) and is driven by the
broadcast channel of the live query store, to which the application's mutations publish. The
router binary holds its configuration (router, limiters, firewall) behind one lock that every
request reads and the file watcher writes; its subscription socket starts handlers of the
federation engine, and its live socket registers in one live query store for all connections.

## 2. Plan

Most important behaviour first: what every request goes through, then long-lived connections,
then the rest.

1. `CircuitBreaker`, its abstract life cycle and proofs. Done.
2. `RequestCollapsing`. Done; with proofs.
3. `ResponseCache` under `handle_http`, both backends, and `FastPath`, the sharded cache beside it. Done, with
   proofs. To add: the size bound (false, as a violation run).
4. `LiveSocket`. Done, with proofs.
5. `PersistedQueries`, and `RouterPipeline` on top of it: `execute_scatter_gather` and
   `execute_fail_fast`, their shared store, cache and registry. Done, with proofs. To add: the
   request's path through `CircuitBreaker` and `RequestCollapsing` as they are, in place of what they
   promise, and the batch entry point.
6. `SubscriptionStream`, the promise of the protocol, and the two sockets that keep it:
   `SubscriptionSocket` (the gateway's) and `RouterSubscriptions` on top of
   `SubscriptionFederation` (the router's). Done, with proofs of the safety properties and of both refinements.
7. `LiveQueries`, `RouterReload` with the rate limiters, `Shutdown`, `QueryCosts`. Done, with proofs.
8. `QueryWhitelist`, `DeferredDelivery`, `RestConnector`, with proofs; `GbpCodec`. Done. To add: the batches of
   `DataLoader`, the volatility statistics of `smart_ttl.rs`, the merge of subgraph results.

The services of 6, 7 and 8 that share nothing are composed by `Services` and checked by one run whose behaviours each follow one
of them; the run of one task on the breaker became a condition in the refinement of `breaker`.
Violation runs still planned: "recovery_timeout is kept" (`circuit_breaker.rs:87`): TLC exhibits a
task that loaded an old `opened_at`, is overtaken by a full half-open episode that reopens the
circuit, and then moves it to half-open at once; and the wait "up to timeout" of `shutdown.rs:151`,
which axum's own unbounded drain does not observe.

## 3. Modules

**CircuitBreaker** models `circuit_breaker.rs`. `state` is the RwLock'ed enum and
`failure_count`, `half_open_requests`, `half_open_successes`, `opened` are the atomics. The code
reads the state, releases the lock and acts on what it read, so each lock section and each atomic
access is one action, and `pc[t]` says where task `t` stands:

- `AllowBegin`/`StateBegin`, `LoadOpenedAt`, `CheckElapsed`, `LockHalfOpen` are
  `maybe_transition_to_half_open`; `Dispatch` and `Admit` the rest of `allow_request`;
- `Answer` and `Drop` are the router's call (`router/mod.rs` 636, 822), which returns or whose
  future is dropped (`break` at 863, or a client that disconnects);
- `SuccessRead`, `ClearFailures`, `CountSuccess`, `Close` are `record_success`; `FailureRead`,
  `CountFailure`, `Open` are `record_failure`; `Reset` is `reset`.

`opened_at` is kept as an age that stops at `RecoveryTimeout`, since the code only asks whether
that much time has passed; `half_open_requests` stops at its limit for the same reason. The u32
counters do not wrap in the model: wrapping needs 2^32 requests in one half-open episode.
History variables: `failures` (counted since the circuit was last closed), `stale` (tasks that had decided to open
it before it was closed), `probes`, `dropped`.

**BreakerLifecycle** is the abstract specification: the documented three states with atomic
operations. It follows the code in one point where the module comment is loose: closing takes
`half_open_max_requests` successes, not "next request succeeds". **MCCircuitBreaker** holds the
refinement mapping; a task between its decision and the write lock counts as having acted.

**RequestCollapsing** models `request_collapsing.rs` as the router uses it. An entry and a watch
channel belong to the request that leads, so both are named by it. `Lookup` is the registry's read
lock, `Join` the entry's mutex, `BecomeLeader` the write lock with eviction, `Broadcast`,
`Receive` the channel. A watch channel closes when both senders are gone: the broadcaster's and
the clone inside the entry (`SenderAlive`). Eviction uses `try_lock`, so an entry whose mutex
someone may hold can be skipped (`busy`). `Drop` is the request future dropped at an await.
The channel itself is tokio's; `send` leaves the value unset when nobody is subscribed.

**ResponseCache** models the memory backend of `cache.rs` under `handle_http`: `Get`, `Fetch`, then
one action per lock of `evict_if_needed` and `put_with_ttl`, then `StoreEntities`; for a mutation
`Mutate`, and per type and entity `Visit`, `RemoveEntries`, `RetainOrder`. `Expire` lets any entry
pass its ttl (and stale window) at any time, which covers every ttl policy. Responses are reduced
to what decides invalidation: the types and entities they show (`Shows`, from `__typename` and
`id`), those they depend on (`DependsOn`), and the mutations whose effect they contain.
The two indexes are one function over tags, taken one tag kind at a time as in the code; the map's
write lock is held throughout `remove_entries_internal`, so it is one action.
`backend` chooses between memory and Redis. In Redis a put is one atomic pipeline (`RedisPut`) and an
invalidation two commands per tag (`RedisMembers`, `RedisDelete`); each may fail, and the code
goes on as if it had not. There is no `max_size` and no stale window there, as SETEX drops an entry at
its ttl; the index sets never expire. A put between SMEMBERS and DEL loses its place in the index
(`lapses`). The server's own eviction is an entry that expires.

**FastPath** models `handle_fast` and `ShardedCache`, and what `handle_http` does to it. `shard` is all the
shards' maps as one function of the key's hash, and `ShardOf` its low bits; each shard has a lock, so
`clear` is one action per shard. `FastGet` is the lookup, `Standard` a request through the other
endpoints, `FastExecute` the execution (or a refusal, a response-cache hit or an error, after which nothing
is inserted), `FastInsert` the insertion with `evict_from_shard`. `FastDrop` and `DropMutation` are futures dropped at an
await: a mutation that executed but was dropped, or whose `on_response` failed, invalidates nothing
(`abandoned`). `MaxInPlay` bounds the run; `MaxCount` is where access counts are no longer told apart.
**MCResponseCache** runs either cache, one per behaviour, as they share no state.

**LiveSocket** models `handle_live_socket`: the main loop (`ConnectionInit`, `Subscribe`,
`Complete`, `Execute`, `Send`, `Register`, `Close`), the invalidation task (`Receive`, `Lagged`,
`Reexecute`, `Push`) and the forward task (`Forward`). Data are the numbers of committed writes;
`Commit` and `Publish` are the application's mutation, whose event follows the commit
(as in `examples/live_query/main.rs`). Two writers may publish in the opposite order of their
commits. `taken` is the receiver's position in the broadcast channel: more than `Buffer` behind
means `RecvError::Lagged`. Bounded channels block their senders; a dropped receiver fails them.
`Close` aborts the two other tasks. Left out: ping/pong, GBP framing, the text search for triggers
(a subscription's triggers are taken to name what its query reads), unparsable messages.

**PersistedQueries** models `persisted_queries.rs`: `stored` is the map, `insertion_order` the
vector that eviction follows, each under a lock of its own. `Begin` is the head of
`process_apq_request`, `Get` the lookup with its expiry, `Put` the validation and the length that
`evict_if_needed` reads, `Evict` the drain of the order, `Remove` the removal from the map, `Insert` and
`Push` the two last sections of `put`. A hash is named by the query that has it, so SHA-256 is
taken to be injective; what is stored under it is kept separately, so that the validation matters.
`Expire` lets any entry pass the ttl. `clear` and `clone` serve no request and are left out.

**RouterPipeline** extends it with `router/mod.rs` 516-891; a step of the router is a step of the
store with the router's variables unchanged, or one of its own: `Reject`, `Check` (introspection,
WAF, cost), `CacheCheck`, `Collapse`, `Reply` (one per subgraph), `Gather`, `Broadcast`, `Store`;
`Receive` and `ReceiveError` for followers; `Drop` at each await. `fail_fast[r]` says which of the
two functions a request was given to: both share the cache and the registry, so a fail-fast
request may follow a scatter-gather one and the reverse. A result is the query and variables it
was executed for and the subgraphs whose reply it contains. Two components enter by what they do here:
the registry lets a request lead, or follow any request that leads or has led its key, and keeps a
result sent while someone followed (`RequestCollapsing` has the locks, eviction and the waiting
without end); a breaker that refuses is a call that failed (`CircuitBreaker` has the states). `Forget` covers
ttl, eviction and `clear_cache` of the sharded cache. The 64-bit hash in the cache key is taken to be
injective. The store is assumed to be configured; without it the text is executed whatever the hash.

**SubscriptionStream** is the abstract specification of an operation id as a client of
graphql-transport-ws sees it: results only between `subscribe` and the one `complete` or `error`.
What happens to an id that is used again before its end is outside the promise.

**SubscriptionSocket** models one connection of the gateway's endpoint (`subscription.rs`): the main
loop (`loop` says where in `wait_for_init`, `process_messages` and `handle_subscribe` it is), a
resolver task per subscription, and the write task, around the registry and the outbound channel.
A cancel channel is open, signalled, or has lost its sender. `subPhase` and `subItems` are what
the client has seen, the variables of `SubscriptionStream`.

**SubscriptionFederation** models `subscription_federation.rs`: for each subscription a handler
(`Start`: counters, plan, permits, spawned tasks; then the `select!` loop, `Complete`) and an
upstream task per subgraph (`Connect`, `Handshake`, `Hear`). `Abort` is `JoinHandle::abort` at
whatever await the handler is; permits go back with the future, counters and upstream tasks stay.
An upstream task that waits for room in `merged` counts as not having heard yet, and closing its
WebSocket is part of its return.

**RouterSubscriptions** extends it with `handle_subscription_socket`: main loop, relays, queries, the forward task
and the client. A relay takes a message from `json` when there is room in `out`; `untold` records the streams
whose relay was aborted with messages left.

**LiveQueries** models the store of `live_query.rs` with the router's live sockets: each of its
four maps has one action per lock section of `register`, `unregister` and `send_update`, and
`removal` says which `unregister` a main loop or task is in. The router's only trigger is `*.*`, so an index of one set
suffices. The subscription to the events is merged with the end of the initial send; the throttle may or
may not let an event through. `pending` counts the events a task has not received.

**RouterReload** models the lock around `InnerState`, the config watcher, and `DdosProtection` for
one address. tokio's RwLock is fair, so a reader that comes after the waiting writer waits as well. A
limiter is its cells and its age; governor is not part of the repository and is modelled by the quota the code asks
it for, `per_second(rps).allow_burst(burst)`: up to `Burst` cells, one back every 1/rps seconds. That time is the tick of the clock (`Tick`),
of which `beat` counts those of the current second, by which limiters are stamped (`current_secs`). A new limiter is stamped when
it is inserted. `window` is a history variable: a time of at most a second that may be opened at any tick, so that what is said of it is said of every such time, and
`granted` the requests admitted in it. `strays` counts those on a limiter that was replaced, or could be within the second (`Fading`).

**Shutdown** models `run_with_graceful_shutdown`: the signal task and the server's task, both of
which call `shutdown()`. axum is modelled by what it does: it stops to accept when `shutdown_signal`
completes and returns when the last connection is closed. `guarded` tells whether handlers
hold a `RequestGuard` (the gateway's do not).

**QueryCosts** models `query_cost_analyzer.rs`: the cost of a query under the load factor (in
halves), the capped ring of past costs, and the per-user window, its eviction and its clean-up. `charged`
is the history: what a user was charged before each moment.

**QueryWhitelist** models the three maps of `query_whitelist.rs` and the threads that change them. A query
stands for its normalised text and its hash. `RegisterQuery`, `RegisterId` and `RegisterReverse` are the three
locks `register_query` takes in turn; `RemoveQueryId`, `Unlink` and `Unhash` the three `remove_query`
holds one inside the other, so the first two of them block registrations (`IdsLocked`, `ReverseLocked`). `unclean`
is the history of the two situations in which the maps do not follow: an id that is given another query,
and a registration and removal of one query that overlap.

**DeferredDelivery** models `DeferredExecution::execute` and the stream of `handle_graphql_defer`. A fragment is
the set of root fields it names, for `extract_and_remove_fields` looks at the root object only; of those with
`if: false` only the number matters, to the limit and the channel (`disabled`). `Respond`
is the execution, `SendInitialPart`, `SendPatch`, `TimeOut` and `SendFinal` the task, `Receive` and
`CloseStream` the stream, which `ClientLeaves` drops.

**GbpCodec** models encoder and decoder as recursive operators over tokens: `Encode` with its
references (`Known`, `Refer`), lists by column and by run, chunks with an encoder of their own; `Decode` with its
pool. `Shallow` and `DedupKey` say which values have one hash: those the hasher is fed alike; otherwise the hash is taken to be
injective. Bytes, varints and the pools of strings and shapes are left out; numbers stay within i64.
**MCGbpCodec** gives the values: lists of rows and numbers beside values that repeat a part of them.

**RestConnector** models `RestConnector::execute`: `Lookup` is the request that is built, intercepted and, for a GET, looked
for in the cache; `Send`, `Reject`, `GiveUp` and `RetryOrFail` are `execute_with_retry`, `TakeAnswer` the transformer,
`RestInsert` the cache. The service (`Answer`, `Perform`) may perform a request after the connector gave it up,
and its answer may be lost. The backoff is a wait of any length.

**Services** composes the gateway socket, live queries, reload, shutdown, costs, whitelist, deferred delivery and REST connector: `part`
says which of them a behaviour is about, its steps leave the variables of the others as they were, and `TypeOK` joins their types.
It holds no recursive operator, so that theorems can be proved about it.
**MCServices** adds the GBP encoder and what only the run needs. `FirstActs`, `FirstStarts`, `FirstResolves` and `FirstWatches`
fix which of several alike connections, GETs and ids comes first, a symmetry reduction that liveness checking allows.
Only the service that runs has steps, so fairness of their disjunction (`ServiceTasks`) is fairness of each.

## 4. Runs

| Run | Constants | Checks |
|---|---|---|
| `breaker` | 2 tasks, threshold 2, timeout 2, budget 2 | `NoEarlyTrip`, `ProbeBudget`, `ImplementsLifecycle` (refines `BreakerLifecycle` until operations overlap), `OpenIsTried`, `HalfOpenDecides` |
| `breaker_stuck` | 2 tasks, all limits 1 | violation of `HalfOpenAlwaysDecides` |
| `collapsing` | 4 requests (3 on one key), one waiter, one entry, window 1 | `TypeOK`, `OnlyRacersLeadTwice`, `TimelyFollowersServed` |
| `follower_stranded` | same | violation of `FollowersServed` |
| `response_cache` | 3 queries on 2 keys, 1 mutation, size 2, either backend; fast path: 6 keys, 2 shards of 2, 2 tasks, 1 mutation | `CachedIsIndexed`, `StaleOnlyFromRaces`, `ShardsBounded`, `ClearedIsForgotten` |
| `mutation_stale` | same, nothing selects `__typename` | violation of `MutationsInvalidate` |
| `live_socket` | 2 ids, 2 topics, 2 writes, 4 messages, buffer 1, channel 1 | `OneLateUpdate`, `NeverGoesBack`, `UpdatesArrive`, `HangupReleases` |
| `router_pipeline` | 2 requests, 6 ways of asking, 2 subgraphs, `cache_size` 1 | `AnswersOwnQuery`, `CachedIsComplete`, `FailFastIsComplete`, `OrderCoversStore`, `FollowersShareTheOutcome` |
| `router_sockets` | 2 subscriptions, 2 subgraphs, 2 permits, 2 ids, 3 messages, channels of 1 | `GaugesNeverUnderstate`, `UpstreamsWithinPermits`, `EndsAreTold`, `KeepsPromise` (refines `SubscriptionStream`), `HangupReleases` |
| `services` | per service, see below | `TypeOK`, `HashFollowsIds`, `DeferredIsWhole`, `RoundTrips`, `ClearedReadsShowWrites`, `OwnEntryKept`, `RegisteredIsReachable`, `BurstKept`, `SpendingBounded`, `SocketKeepsPromise`, `CancelEnds`, `SlowClientBlocksNoTask`, `ReloadsConverge`, `ServerStops` |
| `apq_overflow` | 4 requests one after the other, 3 queries, `cache_size` 1 | violation of `SizeKept` |
| `gbp_lossy` | the values of `MCGbpCodec` | violation of `AllRoundTrip` |

What the passing runs show:

- *Breaker.* However operations interleave, a task is about to trip the closed circuit only after
  `failure_threshold` failures since it was closed, or because it had decided before that
  (`NoEarlyTrip`); an episode admits at most `half_open_max_requests` (`ProbeBudget`). Open is left
  while requests keep coming, and HalfOpen is decided unless a request was dropped during its call.
  As long as no two operations overlap the whole is a refinement of the life cycle. Beyond that it is not: the stale
  timeout check above, and a `close()` decided in an earlier episode that closes a circuit reopened
  since, are behaviours of the code.
- *Collapsing.* An entry never counts more waiters than `max_waiters`, although any number of requests may have
  found it; a follower that subscribed while its leader was executing is given the result, even when the entry was replaced or evicted meanwhile; a second
  leader displaces a joinable entry only if it raced with its registration.
- *Response cache.* A stored response whose put is through the indexes can be found by every type
  and entity it shows; when an invalidation is through, a response that lacks the mutation's effect was put by
  a query that had read the backend before the mutation and not finished its put. That race is real (`StaleOnlyFromRaces`
  needs its exception), and so is unbounded growth by entity entries and concurrent puts. With Redis the same holds but for puts
  that came between the two commands of an invalidation, and commands that failed.
- *Fast path.* A shard stays within `max_entries_per_shard`, or four if that is smaller: a quarter of three entries
  is none, so a limit of two is overrun until there are four (`ShardsBounded`). Once a mutation has cleared every shard, what the
  cache holds shows the mutation or was inserted after it (`ClearedIsForgotten`); a query that had read before it
  may still insert after it, shard by shard or later, and is served for a minute.
- *Live socket.* Data shown under an id used once never go back; a completed subscription gets at
  most one more update; the last write is shown unless its event was skipped by lag or matched in
  the registration window, or the id was reused; a connection whose client has left is released
  although its tasks may be waiting for room in the channel.
- *Router.* Whatever a request is answered from, a stored query, the cache, a leader or its own
  fan-out, the answer is to the query and variables it named; a result that lacks a subgraph is given to
  the requests that shared the fan-out and never cached; a fail-fast request gets one only as the
  follower of a scatter-gather request, which the code allows; a follower that subscribed during the
  fan-out returns what its leader returned, errors included. The store's eviction loses track of no stored query,
  although map and order are never locked together.

- *Router sockets.* However handlers are aborted, the gauges never understate what runs and the tasks of
  handlers that were not aborted stay within the permits taken; each id, used anew only after its end,
  sees results and then one end; the end is told unless the relay was aborted with it in its channel
  (the code aborts the relay as soon as the handler returns, so this happens); a connection
  the client has left is released. Upstream tasks of an aborted handler are released only when their subgraph speaks or closes.
- *Services.* Gateway socket: the promise of the protocol; a running subscription keeps its registry
  entry unless its id was completed by the client before; cancelled resolvers end. Live queries: a stored query can be
  found through every index unless its id has another use; a client that does not read stalls no
  task. Reload: after the edits, the last valid file is in place; in any time of at most a second, wherever it begins, an address is admitted
  its burst, one request for each 1/rps seconds that passed, and no more, except on limiters cleaned up in use. Shutdown: a signal stops a serving server
  unless a connection is never closed. Costs: no interval of a window's length is charged more than two budgets. Whitelist: a text is allowed exactly while an id stands for it
  or is being registered or removed (`HashFollowsIds`, with the exceptions it names). Deferred delivery: in a stream that
  ended in time every field came once, and only the last part said so. GBP: what tells its containers apart by their
  shallow hash and has no empty list comes back as it was. REST connector: once the cache is cleared, a response in it
  shows every write that had returned before, unless it was on its way back at that moment, whatever was retried,
  lost or late (`ClearedReadsShowWrites`).

The violation runs are the findings of `PROJECT.json`: a dropped probe wedges HalfOpen; a late
follower of a leader without followers hangs; the documented mutation example invalidates nothing;
a persisted query that expires makes the store outgrow `cache_size`; a GBP value with an empty list or two
containers of one shallow hash is decoded as another.

Behaviours of the code that the models exhibit and no property states, as nothing promises otherwise:
a gateway connection whose init times out is never released (the handler awaits the write task while it owns a
sender); resolvers on silent streams keep the write task of a client that has left, and so
`cancel_all`, waiting; a client that completes an id and uses it again can lose the new entry to the
former resolver; live-query ids are global, so two connections that use the same id share one entry and one
sender; a task that lags, or whose send fails, ends and leaves its query registered, and so does one that registers
after its connection was unregistered; concurrent registrations exceed the limits; an expired query makes the
persisted store grow (a finding); a live update between a query's execution and its registration is lost (`UpdatesArrive`
excepts it); a signal before the handlers are installed kills the process and one before
the server subscribes is lost; the subscription engine is built at start and not by a reload.

Whitelist: registering an id again for another query leaves the former text allowed until some removal of it; a registration that overlaps
a removal of the same query can leave its id without its text. Deferred delivery: fragments carry no path, so the
fields of a nested `@defer` stay in the initial part and its patch is empty, although `defer.rs:33` and
`docs/src/core/defer.md` show them in the patch; `fragment_timeout_ms` is never used; when every fragment is
disabled the only part says it is the last but the stream sends no closing boundary. GBP: a u64 beyond i64
is written as a float. Fast path: middlewares, whitelist and persisted queries are consulted only when a request is executed, not on a hit;
`handle_fast` builds the request anew without its `extensions`, so a persisted query sent by hash alone is not found there; responses
with errors are put in both caches like any other. REST connector: the cache, called LRU, evicts in the order of
insertion, and has no ttl; retries apply to every method, so a write whose answer is lost may be performed up to
`max_retries + 1` times; a call that failed may have been performed.

**Bounds.** Two tasks suffice for the breaker's pairwise races, and threshold 2 and budget 2 tell
"the first" from "the last" failure or probe; the proofs cover every larger instance. Four
requests give a leader, a follower, a racing second leader and a late joiner; one waiter and one
entry put both limits in reach. Three queries and a mutation give two concurrent puts of a key, one of another key, an eviction and an
invalidation in every order at capacity 2. Two writes with a buffer of one give lag, and two ids
with one shared topic give lists of two clones; four client messages reach reuse, completion and
the subscription limit. `MaxWrites` and `MaxMessages` bound the run only.
Two router requests give every pair: leader and follower, two puts of one hash, a put that evicts
the other's query, a cached result and its reader; two subgraphs tell partial from complete and a
fan-out cut short from a finished one. That the safety properties need no third request is what the
proofs show. Nothing in `RouterPipeline` and `PersistedQueries` is unbounded: each request asks once.
Two subscriptions on a socket with permits for two subgraphs, the first also asking for both, give a refusal for want of permits, an unroutable
field, an overwritten id, and an aborted handler whose tasks outlive it; channels of one make everyone wait.
`MaxEvents` bounds results, `QueryIds` the queries.
`services`, socket: 2 ids, 3 subscriptions, so that an id is used again while another is in use,
3 messages, 2 stream items, a channel of 1. Live queries: 2 connections and 2 tasks of which 3 act
(`MaxActors`), 2 ids, one query per connection, channels and event buffer of 1, so that every channel is full and a task lags.
Reload: 2 edits (one during the reload of the other), 2 requests, burst 1, two cells per second and two seconds, which is the cleanup's age: a request is
admitted on a cell that came back, both fall into one window, and a limiter is cleaned up while a request holds it. Shutdown: 2 connections, 2
signals. Costs: 2 users and room for one, a window of one tick in four, costs up to the budget.
Whitelist: 2 ids, 2 queries, 2 threads, so that both ids may share a query and a registration meets a removal. Deferred delivery: 2
root fields and up to 3 fragments of which 2 are allowed, so that fragments overlap, are disabled or refused. GBP: 5 columns of at least 2 rows, runs of
2, chunks of 2 above 3 in place of 8, 15, 25000 and 50000. REST: 2 GETs, 1 write, 2 keys, room for one, one retry, one clear.
Fast path: 5 keys in one shard, with a limit of 2 so that the bound of four is reached and would be passed; `MaxInPlay` keeps entries, busy
tasks and mutations together within 5.
`Max...` constants bound the runs only.
`CHECK_DEADLOCK FALSE` is set where requests end: in collapsing, the cache, the sockets, the services and
the router all work may be done; the breaker always has a next step.

## 5. Fairness

- Breaker: `WF(Tick)`, time passes; `WF(Work(t))` for each task, since tokio polls a ready future and the client
  call carries a timeout (`rest_connector.rs`); `WF(AllowBegin(t))` is an assumption about the environment,
  requests keep coming. `Drop`, `Reset` and `StateBegin` are not fair.
- Collapsing: `WF(Work(r))`, a request that has started is polled. No fairness of arrival, drop or
  time; in particular liveness does not rest on eviction.
- Live socket: weak fairness of each of the three tasks and of `Publish` (a handler that has committed goes
  on). The client's messages, its leaving and new writes are not fair. `Forward` assumes that a
  connected client reads.
- Router: `WF(Work(r))`, a request that has started is polled and its subgraph calls end (they carry
  a timeout). The store's steps, arrivals, `ReceiveError`, `Drop` and `Forget` are not fair:
  `FollowersShareTheOutcome` speaks of requests that are past the store.
- Router sockets: `WF(Tasks)`, some ready task goes on, which is enough as every task comes to an end or a wait.
  Connecting to a subgraph has a timeout; what a subgraph says (`Hear`) and the client's messages are not fair.
- Services: weak fairness of the steps that wait for nobody outside, per service (`SocketTasks`,
  `LiveWork`, `ReloadTasks`, `ShutdownTasks`). Streams, clients' messages, reading of a live client (`ForwardMessage`),
  edits, new requests, signals and the closing of connections are not fair. `Finish` is: executions end,
  and a client to whom a query's answer is sent under the lock reads or leaves.
- The caches (response cache, fast path, REST connector), the query costs, the whitelist, deferred delivery and GBP are checked for
  safety only.

## 6. Proofs

Eight modules hold the theorems; each extends the modules it is about, and `PROJECT.json` lists the
theorems. A theorem holds for every value of the constants the named assumptions of these modules
allow; TLC evaluates the assumptions in the runs. Where a safety property is not inductive, the
invariant that is gets a name (`...Inv`), with one lemma or step for each action, and was model-checked
before it was proved.

**Assumptions.** Limits and capacities are natural numbers, positive where the code clamps them or
tokio's channels demand it; the load factor is at least one (two halves). The rest keeps marks apart from data: `"none"`, `None`, `NoId`, `NoQuery` and `Failed` are the code's
absence of a value, so they are not ids, results or queries (`SubscriptionAssumption`, `SocketAssumption`, `LiveAssumption`,
`WhitelistAssumption`, `StoreAssumption`, `RouterAssumption`). `ApartAssumption` of the response cache: a request is a query or a
mutation (`handle_http` decides once); an entity's slot has another prefix than the hash of a request;
and no stored entry is taken for an absent one. None limits what the code may do.

**CircuitBreakerProofs**: `TypeCorrect`, `NeverTripsEarly`, `ProbesAreBounded`, `ClosedIsNotProbed` and
`BreakerImplementsLifecycle`, for every set of tasks and every configuration (`ConfigAssumption`).
`NoEarlyTrip` and `ProbeBudget` are not inductive: nothing in them ties the counters the code tests
to the history they speak of. The invariant adds `CountBound` (below the threshold
`failure_count` never exceeds the failures counted since the last close, as successes only lower
it) and `EpisodeBound` (while half-open, `half_open_requests` covers every admitted probe, as
only the transitions that start or end an episode reset it).
The refinement of `BreakerLifecycle` is shown action by action for as long as operations have not overlapped. Then at most one
task is inside the breaker (`Alone`), the age of `opened_at` it has read is at most the circuit's, and one about to change the
state finds it as it read it; so its write is an abstract step or has already been counted as one by the mapping.
`HalfOpenIsInHand` is the safety half of `HalfOpenDecides`: a half-open circuit that has given out its whole budget has a task on its way
to an outcome or to the change of state, unless a request was dropped. `Accounted` says that the probes given out are successes recorded or
such tasks (`Probers`, whose number needs `FiniteSetTheorems`), `LastSuccessCloses` that once the successes suffice a task is about to close.

**RouterPipelineProofs**, the persisted queries (`StoreAssumption`): `EvictionFindsAll`
(`ApqSpec => []OrderCoversStore`) and `ResolvesAsMeant` (a request that is resolved executes the query
it named). `ApqInv` adds `Validated` (past the check in `put` the text has the hash it
came with), `OwnQueries` (so the map holds each query under its own hash) and
`NoDuplicates` (the order lists no hash twice, so that `retain` removes the one that `push` puts
last). The lemmas `RetainPush` and `Drain` carry the order through.
The router on top of it, for any requests, subgraphs, queries and variables: `ImplementsStore` (`Spec => ApqSpec`), with which
`EvictionFindsAll` becomes `RouterEvictionFindsAll`; `OwnQueryAnswered`, `OnlyCompleteCached`, `FailFastComplete`.
A request that is past the store keeps its query (`ResolvedIsFinal`), so a follower's
key stays its leader's (`Placed`); a fan-out that goes on to broadcast has every reply, or failed
fast with an error among them (`Settled`), so an outcome without an error is complete; the cache holds results under their own
keys (`CachedIsRight`). `RouterInv` joins these and is inductive together with `ApqInv`.
`FollowersAreInHand`, for any two requests: once a follower waits for a leader that is fetching, it has its leader's outcome, or its leader
will send it or has sent it, unless one of them was dropped, and this from then on. `Led` adds what makes it last: the outcome of a leader that is through is final.

**RequestCollapsingProofs**, for any requests, keys and limits: `TypeCorrect` (which includes the bound on
waiters, also stated as `WaitersAreBounded`), `ResultsReachFollowers` and `OnlyRacers`. The set of requests need not be finite: an entry's waiters are counted
with the set of requests that joined it (`Counted`), which is finite because it grows by one. `Led` says that the entries in use
belong to requests that lead or led; `TurnedDown` that a request about to lead a key whose entry is
joinable has looked before it was there.
From the same invariant come the two safety halves of `TimelyFollowersServed`: a follower that subscribed while its leader was executing always has something
to wait for (`TimelyFollowersAreLed`), and no step makes it fail (`TimelyFollowersDoNotFail`), unless the leader was dropped.

**GatewayCachesProofs**, the response cache, for any queries, mutations, keys, tags and size and either backend:
`PutsAreIndexed` (`CachedIsIndexed`) and `OnlyRacesStayStale` (`StaleOnlyFromRaces`). Both properties speak of operations that are through;
an operation works tag by tag. `LinkedSoFar` ties an entry's place in the index to how far its put has come.
`StaleIsPending` says that a mutation that has not removed an older response has it still before it: every tag that both show is
in `todo`, or the key itself is in the list about to be removed. With Redis there is a moment between SMEMBERS and DEL when the mutation has left the
tag and not yet removed the key; `MembersHeld` says its list then holds every member of the set that no concurrent put has added (`lapses`).
`UnreadRace`: a query that has not read the backend has raced with no mutation.
The fast path, for any tasks, keys, mutations and limits (`FastAssumption`: finitely many keys, at least one shard):
`FastTypeCorrect`, `ShardsStayBounded` and `ClearForgets`. `EvictsSome` shows that a shard of four or more entries loses at
least one when it is full, so that the insertion does not pass the limit. `ClearedIsForgotten` speaks of mutations that are through; the
invariant says the same of the shards a mutation has cleared so far (`ForgottenSoFar`), and that it was performed before.

**RouterSubscriptionsProofs**, for any number of streams, subgraphs, ids and events and any capacities: `ConnectionIsTyped`,
`GaugesHold` (`GaugesNeverUnderstate`), `PermitsCoverUpstreams` (`UpstreamsWithinPermits`), `EndsReachTheClient` (`EndsAreTold`) and
`PromiseIsKept`: the connection refines `SubscriptionStream` (`KeepsPromise`).
`Counted` ties permits and gauges to sets: the gauges are at least the handlers that serve and the upstream tasks that are connected, and permits are
exactly what the handlers alive hold. The two properties alone are not inductive: an abort frees permits without touching a gauge, so the step needs to know
which handler held how many. For the promise: as long as an id is not used again before its end, at most one handler, query or
refusal can still send for it (`OneSource`), an end is the last of its messages, and what it waits for is spread over two channels
that keep their order (`JsonOrdered`). `EndsOnTheWay` says where the end of a handler that has returned is until the client has it, and why only
the abort of its relay can lose it.

**ClientSocketsProofs**, the gateway's socket: `SocketIsTyped`, `EntriesAreKept` (`OwnEntryKept`) and `SocketPromiseIsKept`, the refinement of
`SubscriptionStream` (`SocketKeepsPromise`). `OneSender` is the counterpart of `OneSource`. `OwnEntryKept` speaks of every resolver from its registration to the removal of its entry. `Entries`
says of two running resolvers with one id that the earlier one was cancelled, or outlived a cancellation; the loop registers
an id only while it is free, which needs `registry[id] = 0` from the check to the insertion, as only the loop inserts.
The live query store: `LiveIsTyped` and `RegisteredQueriesAreReachable` (`RegisteredIsReachable`). `OwnerIsReachable` follows the four
maps along the registration, lock by lock, of a task whose id no other task has used. It is inductive only with `StoreFollowsTasks`: the store, and a removal under way, know only ids that
some task has, so that the first task of an id finds nothing of it.
`AbandonedIsNeverReleased` shows what the code does after `connection_init_timeout`: before the connection is initialized nobody has sent anything (`NothingYet`), so the
write task waits for the end of a channel whose sender `handle_socket` still owns while it awaits the write task; neither ends, even when the client leaves. No doc promises otherwise.
`RelayOutlivesItsSenders`, the safety half of `SlowClientBlocksNoTask`: a relay ends only when its forward task has ended or nobody is left to
send to it, and then nobody comes (`NoSenderComes`): a sender could come only from the store, where it would have been counted.

**LiveSocketProofs**, one live connection, for any ids, topics, writes and capacities: `LiveSocketIsTyped`, `AtMostOneLate` (`OneLateUpdate`),
`ShownDataGrow` (`NeverGoesBack`), `NothingIsForgotten` and `QuietShowsLatest`. The invalidation task works on one list of clones that holds an id at most once; a completed id left the map
before, so no later list holds it, and once its update is sent nothing is left of it (`LateOK`). That data do not go back rests on an order across three tasks:
the initial result of an id that is used once is in the channel before the map knows the id, hence before any update of it
(`Fresh`); what is shown, queued and about to be pushed is in order and none of it newer than the data (`InOrder`). Data are indexes into the
sequence of writes, so the lemmas about `Latest` (`LastReadFacts`) rest on least numbers, for which the well-foundedness theorem of the library is cited.
`NothingIsForgotten` is the safety half of `UpdatesArrive`: a write whose event the receiver has passed is shown by each live subscription that reads it, or something that will
show it is in the clones the invalidation task still has, in its push, or in the channel (`Covered`); while an id is between its execution and its registration, `WindowOK` says what was
matched without it. The exceptions are those of `UpdatesArrive` (`missed`, `reused`). So when nothing is left to do, every other subscription shows the latest data (`QuietShowsLatest`).

**ServicesProofs**:

- `RouterReload`: `ReloadTypeCorrect` and `BurstIsKept`, for any number of requests, any burst, rate and cleanup age. The invariant keeps a
  budget (`BurstBudget`): what was granted in the window and what the address can still spend exceed the burst by no more than the
  cells that came back since the window opened and the `strays`. A limiter that cleanup may take counts with a full burst there, since the next one starts with it; this costs
  nothing because such a limiter has granted nothing but strays in the window (`GrantsStay`), which compares its age with how much of the window lies in
  the current second. A limiter that is created after a second look under the write lock therefore gives nothing away. For times much longer than a second the
  statement would not hold: an address that has a larger burst than `max_age` seconds give back gets it anew once its limiter was cleaned up.
  `EditsAreRemembered`, the safety half of `ReloadsConverge`: while something else than a valid file is served, an event is in the channel or the watcher is between it and the
  swap; an edit after the load has left its event (`LateEditTold`). `ServingNeverGoesBack`: what is served, loaded and in the file is in this order (`VersionsInOrder`).
- `Shutdown`: `ShutdownIsTyped` and `OneTaskShutsDown`, for any connections and signals. The server's own call of `shutdown()` comes after its receiver had the message, hence after the
  signal task initiated the shutdown; so that task alone drains, and the phase others read is its own. `SignalIsNotLost`, the safety half of `ServerStops`: from the signal on the server is
  stopping or the message is in its receiver or will be put there (`ToldToStop`), as a server that serves has subscribed (`Subscribed`).
- `QueryWhitelist`: `WhitelistTypeCorrect` and `HashFollows`, for any threads, ids and queries. At most one
  removal is under way (`OneRemoval`) and its lock keeps registrations out of what it holds (`Apart`); a query's set of ids
  follows the ids except for the one a thread is about to link or unlink (`LinksFollow`); a query about to lose its hash has no ids left (`Emptied`).
- `RestConnector`: `RestIsTyped` and `ClearedForgets`, for any calls, keys, retries and sizes. The order lists what is cached, each key once (`InOrderOnce`), so that the eviction from
  its front makes room. A write that returned, or whose answer is in, was performed (`Performed`: a status that is no success never
  returns Ok), and a GET whose answer is not early has seen the writes told at the last clear (`Seen`).
- `QueryCosts`: `CostIsTyped` and `SpendingIsBounded`, for any users, budget, window and number of entries. `SpendingBounded` compares what was charged up to two moments;
  nothing in it says which window a charge fell in. `WindowOf` names a start for each user such that what was charged since is what the entry holds, if there is one,
  and what was charged in the window's length before is at most one budget; an entry is dropped, by cleanup or for want of room, only when a later start can only come after its window.
- `DeferredDelivery`: `DeferIsTyped` and `DeferredComesWhole`, for any fragments, fields and limits. `Once` counts parts and patches to come together: each field of the
  response is in one of them and one only, which holds of the split because every patch leaves out what an earlier fragment took (a least index), and is kept by every send. `OnItsWay` adds what the parts sent
  so far say of what follows; `WholeAtTheEnd` reads the property off when the stream ends.
- `Services`: in the composition the run checks every service keeps its types (`ServicesAreTyped`, `TypeOK`), from the type theorems of the eight services; that the composition runs them apart
  is how it is built, and only a lemma.

**Only model-checked.** Liveness, which needs `ENABLED` and fairness: `OpenIsTried`, `HalfOpenDecides`, `TimelyFollowersServed`, `UpdatesArrive`,
`HangupReleases` of both sockets, `FollowersShareTheOutcome`, `CancelEnds`, `SlowClientBlocksNoTask`, `ReloadsConverge`, `ServerStops`. For seven of them the
theorems above prove the safety half, that what is promised is always in somebody's hands; TLC shows that those hands act. `RoundTrips`:
encoder and decoder are recursive operators, and there is no induction over their data. The order of
evictions in the response cache (`order`) is not part of what its proofs say.

## 7. Not modelled

Data conversion (schema, compression, OpenAPI), transport (mTLS, QUIC), write-only state
(metrics, analytics, tracing), start-up wiring and generated code. `ResponseCache::clear` and
`prune_expired` of the live query store have no caller that serves requests. `DataLoader` batches through async-graphql, and
the middleware's rate limiter is governor's. Smart TTL only chooses ttls, and every cache model lets entries expire at any time. The
object pools, the batcher and the JSON parser of `high_performance.rs` touch no state that requests share but the pools
themselves. What the plan still holds is in section 2.
