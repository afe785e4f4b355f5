# Verification of ginject

TLA+ models of ginject, a Go framework of modules with dependency injection
that serves HTTP and WebSocket, and of the services it ships: a message
broker, a cache, a document store, a rate limiter and an HTTP client.  TLC checks the models on small
instances; TLAPS proves the safety of the broker, the WebSocket connections, the cache, the
throttler, the HTTP client and the HTTP pipeline for every instance.  References of
the form `file.go:123` are to the source under `src/`.

## 1. The system

| Part | State it keeps | Operations | Talks to |
|---|---|---|---|
| Memory broker (`memorybroker/`) | four maps of subscriptions, `closed`, a WaitGroup | Subscribe, Unsubscribe, Publish, PublishAsync, Close | handlers, called outside the lock; may call back |
| Topic patterns (`pattern/pattern.go`) | none | kind of a pattern, Match | broker, WebSocket manager |
| WebSocket connections (`core/ws_connmgr.go`, `read_loop.go`, `write_loop.go`, `ws.go`) | connections, their subscriptions, a bounded send channel each | Register, Unregister, Subscribe, Unsubscribe, the read, write and ping loops, the scan for dead connections | broker (its handlers push into the channels) |
| Storage engine (`modules/storage/`) | append-only segment files, the index of documents in memory, transactions | Open with replay, insert, update, delete, Commit, Rollback, compact | file system |
| Memory cache (`memorycache/`) | sharded map with expiry times | Set, SetNX, Delete, Get, TTL, Keys, Stop, eviction, sweeper | throttler, cache module |
| Throttler (`guards/throttler/`) | one counter or bucket per key, kept in a cache | CanActivate under three strategies | a cache backend with TTL |
| Event emitter (`event/`) | list of listeners per event | On, Once, Off, Emit | listeners, called outside the lock |
| Application and modules (`core/app.go`, `module*.go`, `common/`) | module tree, providers, controllers, layers and the routes and events they are bound to | Create: the walk over the modules, dependency injection, binding of controllers and layers, lifecycle hooks; Stop | router, pipeline, providers' constructors |
| Request binding (`ctx/binding*.go`, `ctx/fn.go`, `ctx/http_file.go`) | none | Bind of JSON bodies, WebSocket payloads, forms, queries, headers, parameters and files | handlers and pipes; a structure's `IsValid` and `Store` |
| HTTP pipeline (`core/http.go`, `aggregation/`) | a pool of contexts | middlewares, guards, interceptors, handler, exception filters | router, event emitter |
| Routing (`routing/`, `internal/ds/trie.go`) | trie of routes | Add, Use, For, Group, Match | pipeline |
| HTTP client (`modules/httpclient/`) | settings shared by all requests; per request its body, context, open response and hooks | Send with retries, Download, the setters | network |

What is hard in it:

* **Concurrency.**  The broker, the cache and the WebSocket manager guard
  their maps with locks but do much outside them: handlers are called on a
  snapshot, `closed` is tested before the lock and again under it, `Close` waits for
  goroutines that may themselves call the broker, and the scan for dead connections works
  through a list made under a lock that it has released.
* **Failure.**  The storage engine promises durability through crashes and failed writes.
* **Time.**  Cache entries, throttler windows and silent connections depend on
  clocks read at one moment and used at a later one.
* **Order.**  The HTTP pipeline promises an order of its stages and an answer
  whatever stage panics.  The start of an application walks a graph of modules along
  every path and must do everything once; which provider is ready when another needs it
  depends on the order of declaration.
* **Data.**  Binding follows a client's data and a Go type at the same time, and the
  two need not agree.

For each part, what makes it correct is listed with its model in section 2;
`PROJECT.json` lists the hazards one by one, at the line where each bites.

## 2. The models

One module per component; an `MC` module gives it small constants.
Definitions named `X_Something` directly before a definition `X` are mutants:
wrong variants that show the properties can fail; nothing uses them in the
specifications.  Some properties of a run are conjunctions of named parts, each with its
own comment: `TornDownOnce`, `MatchSound`, `MatchComplete`, `AnswersRight`.

### Broker: `Pattern`, `Broker`, `MemoryBroker`, `MemoryBrokerProofs`

`Pattern` has topics as sequences of segments, a pattern's kind and `Match`.
`Broker` is the abstract promise: a set of live subscriptions; a publish takes,
in one step between call and return, the live subscriptions whose pattern
matches and calls each once; a closed broker takes nothing new.
`MemoryBroker` is the code: every critical section of `rwMu` is one step, and everything
outside it (the early test of `closed`, each handler call, `wg.Wait`) a step
of its own.  The four maps are sets of pairs (key, subscription).  A handler
that calls the broker again is covered by the broker's actions, since they may
happen at any moment; a handler that calls `Close` is `CallClosingHandler`.
The README of the broker forbids that to handlers of `PublishAsync`, which
would wait for themselves.  `registered`, `removed`, `gone` and `shut` are history: what
the callers have been told.

A topic that ends in "." has an empty last segment.  The prefix
lookup delivers it to `a.*` while `Pattern.Match` says no
(`memory_broker.go:165`); the refinement is claimed for topics with no empty last segment
(`NoTrailingDot`), everything else about the broker for all topics.

### WebSocket connections: `WSConnmgr`, `WSConnmgrProofs`

Per connection: the control state of its read loop (`reader`, with the topics
of the request still to handle in `todo`), of its write loop and its ping loop, the length of its send
channel, the number of times `done` was closed, the socket with its write lock and write deadline, and the age since
`LastSeen`.  `WSConnmgr.Subscribe` is two steps (broker, then list under
`mu`), as in the code.  So is the scan: the list of dead connections is made under the read
lock, and each is closed and removed under the lock.  What middlewares, guards and event handlers
decide is a free choice.  The broker is modelled by the number of its subscriptions of a
connection and topic, and by its snapshot on publish; its `Close` is two steps, the commit
after which it refuses every call, and the clear.  A connection that ends between the two gets
`ErrClosed`, which `ws_connmgr.go:86` ignores, and its subscriptions stay until the clear; `NoOrphans`
makes no claim there.

**Writes.**  `JSON.Send` and `Close` of `websocket.Conn` hold its write lock, and a peer that does not read
can keep a write waiting.  Then `Close` waits too: in `handleRequest` (`ws.go:119`), and in the scan
(`ws_connmgr.go:175`), which holds `mu` meanwhile, so that whatever needs `mu` stands still.  What
ends such a write is the deadline that `pingLoop` sets (`ws.go:159`), and takes away again after a ping that
went through (`ws.go:169`).  Once the read loop has returned, `pingLoop` returns, and a write that blocks
then blocks for as long as the peer likes (`HeldUp`).  `LoopsExit` says that this is the only
way: if no write is held up for ever, every connection that is closed or found dead ends with its three
loops.  The first message, which `handleRequest` sends before `Register` (`ws.go:128`), is not modelled.

**Time.**  The timeout is 60 s and the scan runs every 15 s (`ws_connmgr.go:166`), so a
silent connection is found at an age of up to 75 s: `DeadFoundByNextScan`
states that bound.  `.ginject/websocket-system.md:545` says "within 60 seconds".  Time stands still in the model
while a scan is due or under way: the bound counts from the end of a scan, and says nothing of how long one
that waits for a write lock takes.
A connection whose `LastSeen` is renewed between the scan and its removal is
removed all the same.

### Storage engine: `StorageEngine`, `StorageEngineProofs`

The segment files are sequences of records (insert, update, delete, begin,
commit, rollback, and a torn record); `size` is the engine's own idea of how
much it has written.  Actions: Open, which replays the log (`Replayed`), single writes, transactions record by
record, `compact` file by file, and the faults the code meets: a crash at any step,
a torn last record, a write that fails, and a write that fails after some
bytes.  `docs` is what callers have been told is stored.

Four situations take the log out of the state in which the engine's promise holds;
`damaged` is set when one occurs, and no claim is made after it.  They are
disagreements between code and documentation:

1. after a crash leaves a torn record, `Open` appends behind it
   (`engine.go:82`), and the next replay stops at the torn record
   (storage README:713);
2. a crash between renames or removals of a compaction into several segments
   (`engine.go:345`; README:651 promises atomicity);
3. a crash during removals leaves a gap in the numbers, after which
   `compact` takes positions for numbers and an old segment stays
   (`engine.go:359`);
4. `compact` skips the records of transactions (`engine.go:281`), so committed
   documents vanish.  This one is the run `storage_compact_tx`, where
   `CompactionKeepsDocs` (storage README:383) is violated in a few steps.

A short write also leaves the engine's offset behind the file's (`engine.go:189`, README:665).  What the
same process appends to that segment next is not found where the index says, and a replay stops before it: this counts
as the first of the four.

### Cache: `Cache`, `MemoryCache`, `MemoryCacheProofs`

`Cache` is the abstract promise: entries with expiry; each call takes effect in one
step between its call and its return; entries that have expired may disappear at any
time, live ones never.  `MemoryCache` is the code: the clock is read
before the shard's lock is taken, eviction looks at `cleanupBatch` entries in any
order, `Keys` holds one shard's lock at a time, and the sweeper visits one
shard a tick.  `Keys` is not a snapshot of the cache (`memory_cache.go:186`,
although `modules/cache/README.md:362` calls it one): what holds, and is
checked, is `KeysComplete`.

### Throttler: `Throttler`, `ThrottlerProofs`

One key under the three strategies, over a backend that forgets an entry
once its TTL has passed.  Each goroutine reads the clock, then calls `Get`, then
`Set`; other requests of the key and any amount of time may come in between, and either call may fail, which the code takes
for no entry (`throttler.go:93`) or ignores (`throttler.go:100`).  History: `granted` counts the
requests let through, by time; `missed` counts, per request, what was let through on its entry and is not in the value it got;
`unseen`, per entry, what was let through and is not in its value; `retryAt` is what a denied caller was told.

The guard's README:133 says of `Limit`: "Maximum number of requests allowed within each TTL window", without a
condition.  The code exceeds it: `Get` and `Set` are two calls without a lock, so concurrent requests of one key
read the same count, or spend the same tokens, and all pass; a failing backend lets every request pass;
and a fixed-window request that is delayed past the end of its window finds the count expired and starts it again at one
(`throttler.go:99`).  `LimitPerWindow` and `TokenRate` say by how much: by the requests in `unseen`, the lost
ones, and by nothing else.  So requests that come one after the other with a working backend are limited as documented,
whatever the boundaries of windows and the expiry of entries do.

`RetryHonoured`: who was denied and comes again after `Retry-After` is let through, if no other request of the key
was decided since it first came.  The token bucket rounds the time down (`throttler.go:178`), to a moment at which there is no
token yet, and a caller that comes at that moment is denied again: there the claim is for one second later.
Of the sliding window nothing is claimed: as documented (README:101) it would discount the last
window, and at its reset it would still deny.  The code reads the previous window under a key it
never writes (`throttler.go:118`): it behaves as a fixed window, and up to twice the
limit passes around a boundary, against README:103.

### HTTP pipeline: `Pipeline`, `PipelineProofs`

`App.Create` is one step per init function: each pushes its layers into the routes'
handler lists the way `Router.push` does (`PushFor` of `RouterItem`; a route without layers of
the kind is left alone).  Then goroutines serve requests.  A
request takes a context of the pool, is matched with a route by path and version
(how a path is matched is the router's matter), and its handler list is worked
through one layer a step.  What user code does in a layer is a free choice: a
middleware may call next, not call it, panic, or panic after next; a guard
allows, denies or panics; an interceptor calls Pipe or not; the handler returns nothing, a
value, or a value with a status that may be no status; an exception filter
answers or panics.  After the handler the interceptors' aggregations are folded from the
last to the first.  `ran`, `caught` and `answers` are history.  The handshake of a WebSocket upgrade
is in the model because it shares the pool, and releases the context at a different place.

A middleware's panic is answered inside its wrapper
(`core/fn.go:572`) and never reaches a bound filter, although `README.md:282` says filters
catch panics from any layer; `PanicsAnswered` claims a filter only for what comes after the
middlewares.  There the code and `README.md:282` agree, and `.ginject/request-pipeline.md:420-424` (also
:167-169, and `.ginject/INDEX.md:125`: "Guard panics not caught") says the opposite: that panics of guards, interceptors and
filters are not recovered.  The code recovers them in one place for all layers (`core/http.go:68`).
When the middleware had called next before, the chain goes on and may answer a second
time: `OneAnswer` excludes exactly this case.  A panic before a route
is known (a custom extractor of versions) ends the request without an answer
(`core/http.go:68`).

### Routing: `RouterItem`, `Router`

`RouterItem` is what `Router.push` does to the handlers of one route; the pipeline uses it too.
In `Router` a node of the trie is the sequence of segments that leads to it, with its `Raw`;
`Use`, `For` and `Add` register routes in any order, and the properties quantify over all paths, with
`Covers` as the reference definition of "this route matches this path".  `Find` never goes
back from a child it chose, so "the route that matches is found" is not claimed in
general: `/a/b/c` and `/a/{x}/d` make `/a/b/d` unmatched.  What holds is
`StaticRoutesFound`, and `WildcardFallback` where all routes have the operation (a deeper wildcard of
another method hides an outer one).  The path `/` has no segment, so the loop of `Find` is not entered and
no wildcard is looked for: the route `*` does not catch it.  Routes that differ only in the names of their parameters
share a node, and only the last one's methods are found (`trie.go:64`).  A request with a segment
`$` matches a parameter without giving it a value (`trie.go:120`), so `ParamsRight`
speaks of other paths.  `RouterAssumption` excludes routes that themselves have a segment `$`: its node would
be the one of the parameters.

A handler for `GET /` is kept under the pattern `""`, which is also what `Find` returns for
no match (`router.go:181`): with such a handler every unmatched `GET` is
answered by it, before wildcards, instead of 404 (`core/app_test.go:135`).  The run `router_root`
shows it; the passing run has no root route.


### Request binding: `Binding`

A Go type is a record of its kind, a JSON value a record of its JSON kind; a behaviour is
one call of `Bind`.  The translated functions are `BindStruct`, `bindArray` and
`bindMap` for JSON and WebSocket payloads, `BindStrArr` with the `StrParse`
functions for strings, and `File.Bind`, whose loops over uploads call the hooks of user
code.  The reference is `Decode`, a decoder that follows the type alone.
`DecodesFitting` compares the two for every value that `Fits` the type, so it says
nothing of what Go leaves open: a conversion of a float to an integer it does not fit is
`Unspecified`.  `Carried` names the four families of types the code does not carry.  A field of a named scalar type
(`type Role string`) panics, in JSON and in forms: the code switches on the kind and sets a value of the
builtin type (`ctx/fn.go:84`).  Elements of a slice or a map that are pointers fall through to `return nil`
(`ctx/fn.go:463`, `:940`), of which `Set` panics, and pointers to pointers are not followed.  The
scalars in a slice of slices of `any` are dropped, and a slice of slices of maps of
slices has no dimensions.  The model has the panics as results; `DecodesFitting` says that there are no others, and
nothing wrong bound, for the remaining types.  Named slice and map types are not modelled.  `LevelsLocate` excludes slices of slices and maps of maps,
whose paths leave out inner keys.  When two fields of a structure name one key, only the
later one's files are looked at by `IsValid` (`ctx/http_file.go:46`): `FilesChecked` makes no claim about the files of the
earlier field, so this case is disclosed here and not caught by it.

### HTTP client: `HTTPClient`, `HTTPClientProofs`

`Send` is split where it lets others in: `willRetry` reads the retry count under the
lock when the body is built, the settings are copied under the lock later, and the transport
is looked up at each attempt.  Setters may run between any two of these.  The
server answers, fails or hangs; the timers may expire at any moment.
A reader that can be read once is buffered when `willRetry` sees a count; `BodyWhole` states
the one way a short body can be sent, a `SetRetry` between the two reads.
Hooks run one a step.  `HooksOnce` says which: the after hooks in order up to the first that fails
(`request.go:420`), whose error `Send` returns without running the error hooks.
`Download` is `Send` with a stream and the writing of the file, which may fail; the removal of a half-written file
(`download.go:75`, its error ignored) is taken to succeed.

### Application and modules: `Modules`

The walk of `NewModule` is a stack of calls, and each record of the stack is at one of the
phases of the function: the static imports, the functions that make dynamic ones, the
prefixes, the hoisting and the construction of providers, the controllers with their
layers.  Every panic of the code is a result.  Which application is started is
chosen in `Init` from `Apps`.  A provider value is raw or built, which is what shows a wrong
order.  `ConstructionOrder` says exactly which dependencies a constructor gets raw, from the order of the
declarations alone: one of its own module that is asked for before it.  `RoutesServed` and `EventsServed` say that each HTTP
and each WebSocket handler is there once, however many paths lead to its controller, and that a start is refused for
a conflict only where there is one.

### Where code and documentation differ without a run of their own

Besides the two runs that expect a violation, and what the sections above mention (the throttler's limit and
sliding window, the 60 seconds of a silent connection, the recovery of panics, the storage engine's crashes):

* Providers in a chain: with A needing B and B needing C, declared as C, B, A, B is built with the raw C, since
  hoisting moves B, asked for last, ahead of C (`core/module.go:274`; `core/module_test.go:55` says "regardless of
  declaration order", of two providers).  `ConstructionOrder` has this as part of the claim.
* `.ginject/modules-and-providers.md:198` says that `NewProvider` is called per injection.  The code calls it
  once for a key and keeps the result (`providerSingletonByKey`), which `ConstructionOrder` states.
* A global module that another module imports is not registered globally, only one
  that the main module imports (`README.md:155` does not make the difference).
* A layer bound only to handlers that its controller does not have is widened over HTTP to every handler of the
  controller (`common/http_guard.go:66`).  Over WebSocket it is too, unless one of the names is that of an event: a layer bound
  only to the event of another controller reaches nobody (`common/ws_guard.go:60`).
* `Construct` keeps layers by the name of their type
  (`.ginject/package-reference.md` says so), so two types of one name in different packages share one.
* HTTP client: a download whose status is refused leaves the body in the error, for
  the caller to close; an error of a hook does not run the error hooks, although
  `modules/httpclient/README.md:104` and :491 say that OnError does (`request.go:420`); the time of a request with retries is not
  bounded by its timeout, as README:351 says, because the waits between attempts are not (`retry.go:32`); a
  middleware that answers a request for a stream itself leaves it without one.

## 3. Runs

| Run | Properties | What it shows |
|---|---|---|
| `broker` (`MCMemoryBroker.cfg`) | `TypeOK`, `IndexExact`, `NoCallAfterUnsubscribe`, `DrainedWhenShut`, `CommitIsFinal`, `CallsReturn`, `Implements` | With a subscription of each kind of pattern, a thread and an asynchronous publish race Subscribe, Unsubscribe, Publish, PublishAsync and Close, a handler that closes the broker included: the four maps implement one set of subscriptions, nothing is delivered to a removed subscription, nothing is admitted after Close commits, nothing is left when it returns, and every Close and every publish ends. |
| `ws` (`MCWSConnmgr.cfg`) | `ListsMatchBroker`, `DeadFoundByNextScan`, `TornDownOnce`, `LoopsExit` | A connection whose requests name an exact topic and a wildcard, also twice, with a peer that may stop reading, failing sends, a full channel, a dead-connection scan that waits for the write lock with mu held, and a closing broker: however these interleave, the lists of the manager and the broker agree, no subscription outlives the connection but while the broker is being closed, no done channel is closed twice, a silent connection is found by the next scan, and the three loops end unless a peer holds up a write for ever after pingLoop has returned. |
| `storage` (`MCStorageEngine.cfg`) | `RecoversAcknowledged`, `ReadsAcknowledged` | Single writes, transactions and compactions with crashes at every record, torn and short writes, failed commits, reused transaction IDs and rotation of segments: what is read and what a restart recovers is exactly what was acknowledged, until one of the four known ways to lose documents. |
| `storage_compact_tx` (`MCStorageCompactTx.cfg`) violated | `CompactionKeepsDocs` | Compaction drops the documents that transactions wrote, without any crash or failure. |
| `cache` (`MCMemoryCache.cfg`) | `Implements`, `KeysComplete`, `Reclaimed` | Two clients whose Set, SetNX, Delete and Keys act with the time they read before they had the lock, with eviction in map order and the sweeper: the visible entries behave as a plain map from which an entry vanishes at its deadline and for no other reason, Keys misses no key that was live during the whole call, and the memory of expired entries is reclaimed. |
| `throttler` (`MCThrottler.cfg`) | `LimitPerWindow`, `TokenRate`, `RetryHonoured` | The three strategies with two requests of a key at a time, of any delay, over a backend whose Get and Set may fail: a window exceeds Limit, and a bucket its burst and refill in any interval, by no more than the requests that the backend has lost to overlapping calls, failures and expiry before a late call; and who waits for Retry-After is let through if nobody else came. |
| `router` (`MCRouter.cfg`) | `MatchSound`, `MatchComplete` | Up to three of eighteen pairs of route and method registered by Use, For and Add in every order, then every path of up to three segments: a route that is found covers the path, a static route is always found, parameters get the segments they stand for, a wildcard catches what goes astray below it, and the index of the main handler stays right. |
| `router_root` (`MCRouterRoot.cfg`) violated | `OnlyMatchingRoutes` | Once a route "/" is registered, every path that is not matched is answered by it. |
| `pipeline` (`MCPipeline.cfg`) | `ContextsNotShared`, `PipelineOrder`, `PanicsAnswered`, `AnswersRight`, `RequestsReturn` | App.Create registers global and local layers, then two goroutines serve requests with contexts of one pool; every layer may go on, stop or panic, and filters may panic too: layers run in the documented order and only after the ones before them let the request through, every panic after the middlewares is answered by a filter, the client is answered once and with its own status, and every request returns its context. |
| `binding` (`MCBinding.cfg`) | `DecodesFitting`, `LevelsLocate`, `FormNeverWraps`, `FilesChecked` | Eighteen thousand pairs of a Go type of up to four levels and what a client sent for it: what fits a type that the code carries is decoded as by a decoder that follows the type alone, presence is reported at the right place, numbers in strings never wrap, and Store gets no unchecked upload, nor the structure but in a field whose key a later field names again. |
| `httpclient` (`MCHTTPClient.cfg`) | `BodyWhole`, `NothingLeaks`, `HooksOnce`, `PolicyEnforced`, `SendReturns` | One request or download with every outcome of every attempt, while another goroutine changes two settings at any moment: bodies are sent whole but for one race, bodies, contexts and files are not left behind, each hook runs at most once and those of one outcome only, the transport's rules hold, and a request with a timeout returns although the server hangs. |
| `modules` (`MCModules.cfg`) | `ResolvedByScope`, `ConstructionOrder`, `RoutesServed`, `EventsServed`, `StartEnds` | The start of 10000 applications of three modules (static and dynamic, global or not, imported along several paths): dependencies resolve by scope, which providers are constructed over raw dependencies follows from the declarations, every handler is served once, an HTTP one under the prefixes of its modules, hooks run once, and only a circle of functions keeps the start from ending. |

Deadlock checking is off where the system may really stop: all counters and
identifiers used up, or the component closed.

### Bounds

* Broker: one thread and one asynchronous task, so that the thread's calls overlap a
  running delivery and `Close` waits for it; four subscriptions, one per kind
  of pattern, because the maps are only distinguished by kinds.  Several threads are the
  proofs' matter: they hold for any number of goroutines.
* WebSocket: one connection.  Connections meet only in the broker's snapshot and
  in each other's channel, and a reader that fans out to its own, already reaped
  connection is the same situation as to another's.  A channel of two slots can be full, partly
  full and empty.  Timeout and interval of one tick each let a connection
  be silent for longer than the timeout between two scans.
* Storage: two documents, two values, segments of two records, a log of five records
  and two transactions: a transaction can cross a segment boundary, and a crash can hit
  between each pair of steps.  Compactions into several segments are only reached by the proofs.
* Cache: two keys in two shards, TTLs of none and one tick, batch of one.  With one key in a shard
  a Set never finds another entry to evict: eviction is reached by the proofs only,
  where shards hold any number of keys.
* Throttler: two goroutines, each of which may serve all four requests, limit two, window of three ticks,
  five ticks: two windows, a boundary, and a request so late that its entry has expired; two grants
  fill a window, the third is denied and the fourth comes again.  The goroutines are interchangeable, hence the symmetry.
* Pipeline: one global and one local layer of each kind, so that both the order of kinds and
  global before local matter; a versioned POST route, a neutral GET and a neutral SERVE route.
  Requests share only the pool, so the second goroutine gets requests that reach no
  route: it takes and releases contexts at any time.  Versioning is on or off.
* Router: nine routes chosen so that at a node an exact child competes with a parameter, a
  wildcard and a glob, and two routes share a node; three items are enough for one route to
  lead another's path astray with a third to fall back on; four handlers for
  a main handler that is replaced with something behind it.
* Binding: one field at a time for JSON and forms, since fields are bound
  independently; types of up to four containers, because the code counts
  dimensions and differs from two on; scalars of builtin and of named types, pointers, also as elements; integers of three and two bits, with values on
  both sides of their limits; two fields that may name one key for files.
* HTTP client: one request, since requests meet only in the settings, which no request
  writes; two retries, so that a retry follows a retry; two changes of the
  settings, so that a value read twice can differ both ways; up to two hooks of each kind, so that
  one is left when the first fails.
* Modules: 10,305 applications of three modules, three providers and an interface, and two
  controllers: a module can be reached along two paths, a dependency can sit in
  the module, in an import, in an import's import, in a global module or nowhere, and a chain
  of three providers, and a provider that two others need, can be declared in every order.
  For WebSocket, two controllers whose handlers have events of their own or share one.

### Fairness

* Broker: a goroutine that can run is scheduled, and handlers return
  (`Deliver`, `AsyncDone`, `CloseStep`).  No fairness on calls of the API.
* WebSocket: goroutines run, event handlers return, the tickers of the scan and of `pingLoop` fire.  A write ends by itself
  only when its deadline passes or its socket is closed; that a peer reads is its own
  choice and is not assumed.  Strong fairness on the `Close` that waits for the write
  lock, since a `sync.Mutex` serves a waiter before those that come later, and on the failing read of a
  closed socket: it may still yield buffered frames, but only finitely many.
* Pipeline: the goroutine of a request is scheduled and user code returns.
* Cache: the ticker fires and the sweeper gets the lock.
* HTTP client: the goroutine that called `Send` is scheduled and timers fire.  No
  fairness on the server: it may hang in every attempt.
* Modules: the goroutine that calls `Create` is scheduled.  Nobody has to call `Stop`.

## 4. Proofs

Eight modules hold proofs.  Each proves an inductive invariant of a component's specification, for every
value of the constants that the component's `ASSUME` allows, and derives from it the properties that the runs
check.  The invariants were checked by TLC on the instances of section 3 before they were proved.  In each
module the lemma that a step keeps the invariant has one step per action, and under it one per conjunct
that the action can disturb.

| Module | Theorem | States |
|---|---|---|
| `MemoryBrokerProofs` | `Typing`, `UnsubscribeIsEffective`, `CloseDrains`, `IndexIsExact` | `[]TypeOK`, `[]NoCallAfterUnsubscribe`, `[]DrainedWhenShut`, `[]IndexExact` |
| | `CloseIsFinal` | the action property `CommitIsFinal` |
| | `ImplementsBroker` | the refinement `Implements`, under `NoTrailingDot` |
| `WSConnmgrProofs` | `TearsDownOnce`, `FindsDead`, `BrokerMatchesLists` | `[]TornDownOnce`, `[]DeadFoundByNextScan`, `[]ListsMatchBroker` |
| `MemoryCacheProofs` | `KeysMissesNone` | `[]KeysComplete` |
| | `ImplementsCache` | the refinement `Implements` |
| `ThrottlerProofs` | `WindowsKeepLimit`, `BucketKeepsRate` | `[]LimitPerWindow`, `[]TokenRate` |
| | `HonoursRetry` | the action property `RetryHonoured` |
| `RouterProofs` | `MatchesAreSound`, `MatchesAreComplete` | `[]MatchSound`, `[]MatchComplete`, where `""` is no route |
| `HTTPClientProofs` | `RulesHold`, `BodiesWhole`, `HooksRunOnce`, `ClosesAll` | `[]PolicyEnforced`, `[]BodyWhole`, `[]HooksOnce`, `[]NothingLeaks` |
| `PipelineProofs` | `PoolIsExclusive`, `RunsInOrder`, `FiltersAnswer`, `AnswersOnceRight` | `[]ContextsNotShared`, `[]PipelineOrder`, `[]PanicsAnswered`, `[]AnswersRight` |
| `StorageEngineProofs` | `Recovers`, `Reads` | `[]RecoversAcknowledged`, `[]ReadsAcknowledged` |
| | `RecoversUnharmed` | recovery without the condition `~damaged`, if `Harmless`: no write is torn, and compactions are not mixed with transactions and fit in a segment |

Every module also proves its component's invariant (`Invariance`) and, all but `StorageEngineProofs`, its
`TypeOK` (`Typing`).

### Broker

From `BrokerAssumption` (threads and tasks are different goroutines, tasks are finitely many, every topic is
a non-empty sequence of segments).  The parts of `Inv` and why each is needed:

* `Counted`: `wg` is the number of running tasks; without it neither `wg - 1 >= 0` nor
  "`wg.Wait` returned, so no task runs" follows.
* `IdleTasks`: a task that is not running has no topic and no handlers;
  otherwise a finished task could deliver.
* `ClosePhases`: a thread in `wait` or `clear` implies `closed`, and in `clear` no task runs;
  without it "Close returned" says nothing about the tasks, since `PublishAsync` is refused only by `closed`.
* `History`: `removed` is within `registered`, joining subscriptions are new, and
  `gone` is within `removed`.
* `Keyed`: every pair in a map is under the key that `RemoveFromBucket`
  computes; without it a removal could miss its entry.
* `RemovedNotIndexed`: what was removed is in no map, so no later snapshot
  can collect it.

`IndexInv` adds that what callers hold is in a map until Close clears them, that one Close won, and that a
publish has no handlers before its snapshot.  With it the refinement is one lemma about `Collect`
(`CollectMatches`): looking a topic up in the four maps gives the indexed subscriptions whose pattern
matches.  There, and only there, a topic that ends in a dot makes a difference, hence `NoTrailingDot`,
which the run's topics satisfy and `MCMemoryBroker` assumes.

### WebSocket connections

From `WSAssumption` (positive buffer size and scan interval), for any number of connections and topics.
`ListsMatchBroker` counts, which is not inductive: a repeated topic in a list would be removed once.  `Unrepeated`
says that no list has a topic twice, also not the one the broker already has and the list not yet;
that needs the fact that only a connection's own reader appends to its list.  `BrokerHolds` then says what the
broker has for each topic: one or none, while it is open exactly what the lists have, and none once it is cleared.  `Gone` says
that a connection whose reader is past `Unregister` is neither known nor has a list, so that `NoOrphans` follows
whether the broker is open or cleared.  `NewUnknown` is what makes a second close of
`done` impossible.  `Ages` bounds the silence of those the last scan let live by the timeout and the time
since, and of those it found by the fact that they are removed before the clock goes on.

### Cache

From `CacheAssumption`.  `TimesPast` says that every call and the sweeper act with a time that has passed, so
that what they find expired is expired now (`ExpiredStays`); then eviction and sweeping change nothing that can be
seen (`DropExpired`), which is the heart of both theorems.  `Observed` says that while `Keys` runs the set of
live keys is among those it has met.  In the refinement a step of the code is one step of `Cache` or none.

### Throttler

From `ThrottlerAssumption`, for every limit and window and any number of goroutines and requests, which may overlap, be
late by any time, and meet a backend that fails.

* Windows: `Counted` says that the entry of a window, together with `unseen`, counts at least the grants of the window, and
  outlives the last moment at which a request of that window that is not late can read it.  `CountGot` says the
  same of the value a request got, together with what it has missed: this carries the claim over the time between `Get` and `Set`,
  in which other requests are decided.  When the request sets its value, what it missed becomes unseen.
* Bucket: `Covers` says, for every earlier time, that the grants since and the tokens at that time are no more than
  a full bucket and what is unseen; `Filled` says so of the entry and `FillGot` of what a request got.  `TokenRate` itself is needed besides,
  for the intervals that end before the last request.  A bucket that expired would be full,
  since its entry lives two windows and a request that is not late comes in one (`TokensFound`).
* Retries: `Alone` says that as long as no other request is decided, what a request got is still what the
  backend has.  `WaitsWindow` and `WaitsToken` say that nothing has been counted in the window, and that there is a token a second
  after the moment, that a denied caller was told to wait for.

`NoPrev` is the observation of section 2 that the count of the previous window is never there.

### Routing

From `RouterAssumption` and `<<>> \notin Routes` (the run `router_root` shows what a root route does), for every set
of routes and globs, and paths of any length.  `Inv` has two halves.  Of the trie, `Shape` says that it holds the prefixes of
its nodes, `Raws` that a `Raw` is a route of the items that leads to its node, `Registered` that every route of the items
ends at a node with a `Raw`, which may be that of another route with the same parsed form; `Use`, which inserts all
routes again in any order, keeps just this.  Of the items, `ItemRight` says that `HandlerIndex` is
the only place of the main handler.

`Find` is followed segment by segment.  `Searches` is a recursive function; `SearchSteps` shows that it exists, and what
is true of every prefix of a path is shown by looking at the least prefix of which it is not (`LeastNat`):

* `SearchFollows`: each segment of the node accepts the segment of the path, and the wildcard remembered leaves the
  way to the node only by its `*` (`Beside`).  Hence the route covers the path (`LedCovers`).
* `SearchValues`: the values are the segments under the node's parameters, in order.  A wildcard shares
  the way to the node up to its `*`, so it finds its parameters among the first values (`LedValues`).
* `SearchExact`: along the segments of a node that are in the path the search takes the exact child.  Hence
  static routes are found, and the search comes to the place of a wildcard whose other segments are words; from
  there on a wildcard is only replaced by another (`WildcardKept`).

### HTTP client

From `HTTPClientAssumption`, for any number of retries and of changes of the settings.  `TransportCurrent` says
that the transport is always the one built from the settings, whichever setter ran last; `Attempts` relates
the count of attempts to the retries allowed; `BodyState` and `SettingsSeen` keep what `buildBody` decided and that
nothing differs from it without a change of the settings; `OpenBodies`, `Outcomes`,
`FileState` and `HookState` say for each point of `Send` which body, context, file and hooks there are.  `HookState` counts,
for any number of hooks: all before hooks ahead of the first attempt, and of the after hooks a prefix, which is whole unless
the last of it failed.

### Pipeline

From `PipelineAssumption`, for any layers, routes, requests and contexts.  Besides types it says that there are no
fewer contexts than requests, that the framework's own filter answers (`core/default.go`), and that the names of a
route's interceptors tell them apart, which the history variables need.  `Registered` says what each route's handler
list and catch chain are after each init function of `Create`, so that in the end they are `Chain(r)` and
`Filters(r)` (`Router.push` puts the global middlewares in front of the first layer only).
`Served` says of each request, with the status of its own context:

* `Follows`: what ran and what is to come make up the chain; `GoneOn`: each layer that ran, but
  the last, let the request through.  `PipelineOrder` follows from the two.
* `Catching`: the filters called are the first of the catch chain and those to be called the rest of it.  The chain
  ends in the framework's filter, so it cannot run out.
* `Answering`, `NoDataYet`: a request that still goes on has not been answered.
* `Coded`: the status of the context is that of this request's route or the one its handler set; this
  needs `code[c] = OK` for every pooled context, which `Reset` establishes.
* `Folds`: while the chain runs, the aggregations are those of the interceptors that ran (`Kept`, `Counted`);
  while they are folded, the data carry the names of those used up, last first (`Told`); what the handler's
  answer carries is that fold (`FoldOf`).

### Storage engine

From `EngineAssumption` (the IDs are finitely many, which `compact` needs to list the live ones, and a segment holds at least
one record), for every set of documents, of transactions and of faults, with and without compaction.  `Inv` is
`~damaged => Good`.  The parts of `Good` and why each is needed:

* `Segments`: only the last entry of a segment may be torn, so that the scan, which stops at it, misses no record.
* `Numbered` and `Loaded`: the segments the engine lists are all the files, in ascending order from 0, and `size` is the
  length of each but for a torn entry.  Without it a new segment could be one that exists, a location
  could lead to other bytes (`Seen`), and `compact` could read something else than the next Open.
* `State(files).primary = docs`: what `rebuildIndex` makes of the log is what was acknowledged.
* `Committing`: while a transaction is written, the replay has it open, and holds of it exactly the last operation on
  each document that is written (`LastOf`).  So the commit record, and no earlier one, makes the transaction
  appear, as a whole; and a begin record that did not clear what an earlier process left under
  the same number would break it.
* `Compacting`: the new segments hold every document as it is, and only those.  While there is one of them, what is left of the
  old segments is replayed after it, and the last record of a document in it is what the document is (`Latest`): it
  may lack documents, since the new segment has them all, but never brings an old version back.  Removing
  segments from the front keeps that (`LatestSuffix`); removing them from the back would not.

The log is followed by lemmas about the operators.  `Scanned` and `Replays` are recursive functions; that they exist, and
what they give for a log that is one record or one segment longer (`ScannedAppend`, `ScannedTail`, `ReplayedAppend`), is shown by
looking at the least length for which it fails (`LeastNat`, `Induction`).  `PutFacts` says that an entry that is written adds
one record to the log, or none if it is torn; `ReplayedLast` that without transactions
`rebuildIndex` and the scan of `compact` agree; `ApplyLast` that the commit's update of the index and the replay of the
transaction agree; `ChunksFacts` that the chunks of a compaction are all its records.

`RecoversUnharmed` shows that the condition `~damaged` is not what makes the theorems true.  It assumes `Harmless` of the
constants: writes are whole or fail without leaving bytes, and if there are compactions, then there are no transactions and the
documents fit in one segment.  Then damage cannot occur at all (`Intact`): the process may die within a
transaction, between the rename of the new segment and the removals, or between two removals, and the next Open finds
exactly what was acknowledged.

### Only model-checked

* Liveness (`CallsReturn`, `LoopsExit`, `Reclaimed`, `RequestsReturn`, `SendReturns`, `StartEnds`): out of the
  prover's reach.
* `Modules`: an application is a value, and the walk flattens and reverses the lists it finds in it; the claims
  compare whole lists with recursive reference definitions.
* `Binding`: types and JSON values nest, so its operators are recursive, which the prover
  does not take.

## 5. Not modelled, and the plan

`PROJECT.json` gives the reason for each component that is not or partly modelled.  Hard
spots that no property covers:

* `ws_connmgr.go:172`: a connection whose `LastSeen` is renewed between the list of the dead
  and its removal is removed all the same.
* `modules/storage/engine.go:347`: a rename that fails half way through a compaction; file-system
  errors inside `compact` are not modelled.
* `modules/storage/store.go:129`: an engine opened after `Close`; the database above the engine is not
  modelled.
* `core/ws.go:119`: a write that a peer holds up after `pingLoop` has returned; `LoopsExit` makes no claim then.
* `common/http_guard.go:66`: a guard bound to no known handler is applied to all of them; the rule is one condition in the
  code and in the model, and no property is stated about it.
* `core/http.go:68`: a panic before a route is known.

Next, in this order:

1. `Database`: opening and closing of engines, secondary indexes kept with writes, queries against
   a scan of the documents.
2. `Event`: a `Once` listener runs at most once under concurrent `Emit`; `Off` removes one listener.
3. `WSEvent`: the lookup of event handlers against `Pattern`, and the chain of a WebSocket
   event (guards, interceptors, filters).
4. `cors` and `csrf` as operators against a reference.

Theorems next: `LifecycleOnce` and `ResolvedByScope` of `Modules`, for applications without import cycles, by an
induction along the imports.

Left out for good: logging and formatting, the devtool (generated code), the sample
application, configuration parsing (done once at start), accessors of the request and response.
