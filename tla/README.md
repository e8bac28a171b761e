# A TLA+ model of minostack

This directory holds TLA+ modules for the parts of the minostack packages that keep state over
time and for the interpreters and generators among them, the TLC configurations that check them on
small instances, and proofs, checked by TLAPS, of the properties that matter most for every
instance.

`PROJECT.json` is the index: which module models which source file and lines, what every run
checks, which seeded fault shows that a property can fail, what was found, and which hazards of
the code the properties are for.

To check a module with its configuration, and the proofs of another:

    tlc -config MCResilience.cfg MCResilience.tla
    tlapm ResilienceProofs.tla

## The system

minostack is a monorepo of TypeScript packages for HTTP services. A request enters through a
runtime adapter (`runtime-node`, `-bun`, `-deno`) as a Fetch `Request`. `mino` finds its route,
composes the handlers that apply into one chain and runs it. Handlers are functions `(c, next)`;
most of `mino` is middleware of that form, some of it with state shared by all requests. `kernel`
builds applications on top: modules, providers, a dependency injection container with request
scopes, lifecycle hooks, guards and interceptors around a controller's method. `jobs`, `events` and
`cache` are packages of their own, used by application code. `schema` describes and validates data, and
`openapi` and `graphql` make documents of such descriptions.

Everything runs on the JavaScript event loop. Code runs without interruption from one `await` to
the next, so there are no data races on single fields. The hard behaviour lies between awaits:
state is read before an `await` and used after it, many requests are at different awaits of the
same function over shared maps and counters, promises settle in any order, and callbacks and
errors leave functions half way. All modules model exactly this granularity: **one action is the
code between two awaits**, synchronous calls included.

### Inventory

| Component | State | Operations | What is hard, and what makes it correct |
|---|---|---|---|
| `mino/bulkhead` | `active`, waiter list | `execute` | wake-up of waiters through microtasks, barging newcomers; no slot leaked, no wake-up lost, first come first served |
| `mino/circuit-breaker` | state, failure count, `openedAt`, probe count | `execute`, `getState`, `reset` | late answers of calls admitted in another state, throwing listeners; probes bounded, open and half-open periods end |
| `mino/rate-limit` | buckets in insertion order | middleware | pruning of a full table; a key gets no second budget in its window |
| `mino/retry` | of one call: attempt, deadline | `withRetry` | two budgets around tries and sleeps of any length, timers that fire late |
| `mino/health` | cached report | `check`, timers | checks that hang, overlapping evaluations; a probe is answered, and not with old news |
| `mino/under-pressure` | last lag samples | sampling, middleware | a peak must be forgotten |
| `mino/compose`, `mino/timeout` | per request: index, `c.res`, one timer | `dispatch`, `next` | `next()` left unawaited, called twice, errors, the timer; which response is the reply |
| `mino/router`, `mino/mino` | trie, static map, pipeline cache with a version | `add`, `match`, `allowedMethods`, `use`, `notFound`, `fetch` | backtracking, shortcut and 405 agree with the walk; stale pipelines |
| `mino/idempotency` | store of responses by key | middleware | requests with one key between lookup and storing; replays match, no second execution after the first was stored |
| `mino/cache` | map of responses with expiry | middleware | concurrent misses, cap, eviction order, personal responses |
| `mino/session` | records or cookie data, chains of refresh ids | load, save, regenerate, destroy; `begin`, `consume`, `rotate` | overlapping requests, eviction, rejecting stores, data shared with the store; nothing lost between two requests, nothing left under an old id but where the code leaves it; reuse closes a chain |
| `mino/oidc` | cached key set, device flow | `getJwks`, `pollDeviceToken` | overlapping fetches, rotation; recent keys, the provider's pace |
| `mino/principal`, `kernel/guards`, route handler | principal, span, audit record of a request | guards, pipes, interceptors, filter | interceptors that call on several times or answer themselves; method, span and audit agree |
| `mino/multipart` | buffer, scan state, generators | `parseMultipart` | delimiters over chunk boundaries, parts left half read, errors that a reader catches, limits |
| `mino/websocket` | parser buffer, fragments | `encodeFrame`, `createFrameParser` | cuts anywhere, a mask per frame, control frames between fragments, listeners that throw |
| `runtime-node` | one exchange; files of a directory | `toRequest`, `toNodeResponse`, listener, `pipeToFile` | clients that leave, bodies that fail or are given up, streams that open and close late, a disk that refuses anything; what was cut off never looks complete |
| `kernel/container` | registrations, singleton cache, request caches, children | `get`, `getSync`, `createRequestScope`, `destroyRequestScope`, `override`, `clearCache` | overlapping resolutions, cycles, partial failure on close; scopes isolated, nothing lost or destroyed twice |
| `kernel/application`, `lifecycle` | instances, `started` | `create`, `start`, `stop` | overlapping and failing start/stop; hooks in order and balanced |
| `jobs` | map of pending jobs, batches of workers | `schedule`, `cancel`, `takeDue`, `runDue` | overlapping workers, a rejecting audit sink; each job in one place, attempts bounded, decided in the end |
| `events` | handler arrays, dead letters; outbox queue and claims | `subscribe`, `publish`, `append`, `claim`, `ack`, `nack` | subscriptions change during a publication; relays share records |
| `cache` | backend map, inflight map | `getOrLoad`, `cacheAside`, `namespaced`, `withNegativeCache`, ... | sharing of loaders, failures of loader and backend, loads that overlap a write |
| `schema` | the schema built so far | builders, `validateNode` | classes and nodes that drift apart, defaults and normalizers; outputs parse again |
| `openapi` | components, shared path items | `convert`, `generateMinoDocument`, `diffRoutes` | two dialects, `$ref`s; the document says what the validator does |
| `graphql` | declarations, names, references | `sdl` | one name for two types, both directions; every name defined once |
| `kernel/module`, `provider`, `decorators`, `dto`, `token`, `scope`, `exceptions`, `testing` | metadata, written once | discovery, export validation | - |
| `kernel/repository`, `observability` | rows with versions; spans | `save`, `delete` | one synchronous step each |
| `mino/csrf`, `jwt`, `paseto`, `cookie`, `basic-auth`, `bearer-auth`, `ip-restriction` | none | verification of one request | - |
| `mino/proxy`, `sse`, `file`, `static`, `formbody`, `compress`, `etag` | per stream | forwarding, conversion | - |
| header middlewares, `client`, `validator`, `contract`, `envelope`, `errors`, `context`, `config` | per request or none | mapping of one message | - |
| `runtime-bun`, `runtime-deno` | none of their own | `serve` | - |

`apps/benchmark`, `examples`, `playground` and `tooling` are not part of the framework.

## Modules

| Module | Models | Checked by | Proofs |
|---|---|---|---|
| `Bulkhead` | `mino/src/bulkhead.ts` | `MCResilience` | `ResilienceProofs` |
| `Gate` | what a bulkhead promises its callers | refined by `Bulkhead` | `ResilienceProofs` |
| `CircuitBreaker` | `mino/src/circuit-breaker.ts` | `MCResilience` | `ResilienceProofs` |
| `RateLimit`, `Retry`, `Readiness` | `rate-limit.ts`, `retry.ts`, `health.ts` of `mino/src` | `MCResilience` | `ResilienceProofs` |
| `Pressure` | `mino/src/under-pressure.ts` | `MCResilience` | |
| `Jobs` | `jobs/src/index.ts` | `MCBackground` | `BackgroundProofs` |
| `JobLifecycle` | what scheduler and workers promise of one job | refined by `Jobs` | `BackgroundProofs` |
| `EventBus`, `Outbox` | `events/src/index.ts` | `MCBackground` | `BackgroundProofs` |
| `Singleflight` | `withStampede` of `cache/src/index.ts` | `MCStores` | `StoresProofs` |
| `Idempotency` | `mino/src/idempotency.ts` | `MCStores` | `StoresProofs` |
| `ResponseCache` | `mino/src/cache.ts` | `MCStores` | `StoresProofs` |
| `CachePorts` | `MemoryCache`, `namespaced`, `cacheAside`, `withNegativeCache` of `cache/src/index.ts` | `MCRecords` | `StoresProofs` |
| `Session`, `TokenRotation` | `mino/src/session.ts` | `MCRecords` | `StoresProofs` |
| `KeyCache` | `MemoryJwksCache` and `pollDeviceToken` of `mino/src/oidc.ts` | `MCRecords` | `StoresProofs` |
| `Container` | `kernel/src/container.ts` and the request scope of a route | `MCKernel` | `KernelProofs` |
| `Application` | bootstrap, `start()`, `stop()` of `kernel/src/application.ts` and `lifecycle.ts` | `MCKernel` | `KernelProofs` |
| `RouteHandler` | the handler the kernel registers for a route, `guards.ts`, `mino/src/principal.ts` | `MCKernel` | `KernelProofs` |
| `Pipeline` | `mino/src/compose.ts` and `timeout.ts` | `MCPipeline` | `PipelineProofs` |
| `Router` | `mino/src/router.ts` and the pipeline cache of `mino.ts` | `MCPipeline` | `PipelineProofs` |
| `Schema` | the interpreter, `schema/src/core/validate.ts` | `MCSchema` | |
| `SchemaBuilder` | `schema/src/core/schema.ts` and its builders | `MCSchema` | |
| `OpenApi` | `openapi/src/oas.ts`, and what a reader of a document accepts | `MCSchema` | |
| `OpenApiDocument` | components and operations of `oas.ts`, `openapi/src/mino.ts` | `MCSchema` | |
| `Sdl` | `graphql/src/sdl.ts` | `MCSchema` | |
| `Multipart` | `mino/src/multipart.ts` | `MCTransport` | `TransportProofs` |
| `Frames` | `mino/src/websocket.ts` | `MCTransport` | `TransportProofs` |
| `NodeAdapter` | the listener of `runtime-node/src/index.ts`, `toRequest()`, `toNodeResponse()` | `MCTransport` | `KernelProofs` |
| `DiskSink` | `pipeToFile()` of `runtime-node/src/index.ts` | `MCTransport` | `TransportProofs` |

An `MC` module puts components side by side that do not call each other. Its variable `focus`,
chosen in the initial state and never changed, says which component a behaviour exercises; the
others stay in their initial states. The state spaces therefore add up and are not multiplied,
and `Focused` in a configuration selects the components a run explores. `Schema`, `SchemaBuilder`,
`OpenApi`, `OpenApiDocument` and `Sdl` are a stack, each extending the one before: the builder's
schemas are validated by the interpreter, converted by the generators, and read back.

Names with a suffix after an underscore (`Finish_HandsOver`, `Store_InRoot`) are seeded faults:
variants of a definition as a plausible bug would have them. No specification uses them.
Substituting one for its original makes TLC report the property `PROJECT.json` pairs it with.

### How state and actions correspond to the code

- **Bulkhead.** `active` and `waiters` are the fields. `ready` is the microtask queue as far as it
  concerns the bulkhead: resolving a waiter's promise and settling `fn()` put a continuation at
  its end, and only its head may run. `Enter`, `Wait` and `Refuse` are the three outcomes of
  `execute()` up to its first await, `Resume` the code behind the waiter's await, `Finish` the
  `finally` block. `EnterThrows` and `ResumeThrows` are the cases in which `fn()` throws before it
  awaits, so that entering and leaving are one step. `InLine` and `Ahead` are the line as callers
  see it: those woken and those in the list, and who of two will take a slot first.
- **CircuitBreaker.** A call is admitted in one step and answered in another, when the circuit may
  be in any state. Time is the number of ticks since `openedAt`. `calm`, fixed at the start, says
  that every error counts and the listener does not throw.
- **RateLimit, Retry, Readiness, Pressure.** A request of the limiter is one action, since all its
  work is synchronous. `buckets` maps a key to its count, its reset time and its `place`, a number
  that grows with every insertion: the order in which the code's `Map` is walked by a prune.
  `letThrough` remembers of every request let through in which window it was counted. In `Retry` a
  timer fires when it is due or any time later (`Wake` looks at the clock, `RetryTick` does not look
  at the timer), and nothing rechecks the budget then: the last try may begin behind it. In
  `Readiness` a check answers, throws or hangs, each against its timer, and evaluations overlap.
  `Pressure` has the window of lag samples as it is.
- **Jobs.** A task is a call of `schedule()`; retries carry the task on under a new id. `pending` is
  the scheduler's map, `taken` the batch of a worker, `phase` the await a worker is at. The sink may
  reject at both places where the code awaits it.
- **EventBus.** `arrays` holds every handler array that was ever installed, since a publication goes
  on walking the array it began with. `subscribe()` does not look whether a handler is installed
  already: it appends to the array that may be walked, so a subscription is a position, and `calls`
  counts per position. A handler that subscribes on every call makes `publish()` endless;
  `MaxSubscribed` bounds the length of an array, and `PublishEnds` holds because of that bound alone.
- **Outbox.** The queue and the claimed map are the fields; `held` is what a relay has to settle.
- **Singleflight, CachePorts.** A flight is named after the call that started it. Of the backend of
  `Singleflight` only whether a key is present matters; it may drop entries and reject.
  `CachePorts` has the backend itself, a map whose entries carry their value, expiry and `place` in
  the insertion order, with refreshed places and eviction of the oldest, below tenants whose
  sources are written while they load. A write of a source and the deletion of the cached entry are two
  steps of its writer, and writers overtake each other. `Prefixed` joins the segments of a prefix and
  a name as `namespaced()` joins strings by a colon, which is not injective: the tenants `a` and
  `a:b` share the key of `b:c` and `c`. `clear()` of a namespace clears the cache below it.
- **Idempotency, ResponseCache.** A response is named after the request that produced it. Time
  is counted down per entry or up to `LastTick`. The entries of `ResponseCache` carry their `place` in
  the insertion order; `prune()`'s loop over the oldest is the set of those with enough younger ones.
- **Session.** A visit is suspended wherever the middleware awaits: verifying the cookie, reading
  the store, the handlers, writing the store. `jar` is what the browser holds, which it sends when a
  visit begins and replaces when the response arrives. `stored` selects between a store and the data
  in the cookie. The store and the session copy one level, so what a session holds is an object
  (named after the visit that made it) that the record shares: `Assign` puts a new object into the
  session, `Alter` changes the one that is there, in the record and in every overlapping session
  too. `stranded` notes the ids the code leaves behind. The store's records carry their `place` as
  the cache's entries do. `TokenRotation` has a chain as its current and retired ids.
- **KeyCache.** A key set is named by its provider and the tick at which that served it. The cache has
  one slot whatever `jwksUri` it is asked for, as in the code. A flow notes of each question how many
  `slow_down` answers it had had by then.
- **Container.** The recursion of `get()` is a stack of frames, one for each `resolve()` on the way
  down. Each step of a call resolves one dependency, constructs, or stores; other calls run in
  between, except during `getSync()`. Instances are numbered as they are made, and `made` remembers
  for whom and from what. `doomed` is the list a close has taken from the cache.
- **Application.** `phase` and `pos` say which hook of which provider a `start()` or `stop()` awaits.
- **RouteHandler.** `stage` is the await the request is at, `outcome` what it has come to so far. An
  interceptor may call `next()` again, not at all, or answer itself, and its class may throw when it
  is constructed. `toResponse()`, custom filters and results that are no responses are left out.
- **Pipeline.** One request. Each handler is running, awaiting its `next()`, or over, and
  `dispatch` is the state of the promise that runs it. Handlers choose freely among everything
  the code lets them do: return, set a response, return something else, throw, call `next()`
  with or without awaiting it. Response contents are replaced by who made them.
- **Router.** A node of the trie is named by its path, so the trie is the set of prefixes of the
  registered patterns. Four kinds of request segment are enough for the code to tell apart: a
  registered literal, an unregistered one, an undecodable one, one that is too long.
  `findNodeForPath()`, a second copy of the walk, is asked only about paths on which `match()` has
  not thrown, where the two agree line by line; the model has one `Walk` for both. The recursion of
  `matchNode()` is a recursive function on the nodes: `WalkFrom` is one call, given the answers of
  the calls below. A HEAD request takes the handlers of its own method and GET's only where there
  are none. Pipelines carry the version, the middlewares and the method whose handlers they were
  composed of.
- **Schema, SchemaBuilder.** A schema is a tree of nodes, as in the code, and `Validate` is
  `validateNode()` case by case. A chain of builder calls is a behaviour; a schema keeps the class
  it was made with, and `refine()` changes only its node. Formats and regular expressions are sets
  of the strings they accept; numerals among the keys of a record are converted by `NumberOf`.
  `default()` takes any value.
- **OpenApi, OpenApiDocument.** `Convert` follows `convert()`; a converted schema is a function from
  keywords to values, with the warnings raised. `JsonAccepts` is what a validator of JSON Schema
  makes of a document and is external to the repository. `shared` is the object that callers pass as
  `options.paths` and that the generator writes to. A route's entry carries the operation as far as
  the caller wrote it: a response 200 of the caller's is kept and the entry's output is not shown, an
  input is added to the caller's body. `autoSchemas` may be off. Nodes are compared by content where the code compares objects; two that
  must be told apart carry a field `at`.
- **Sdl.** An entry of the type map is an action, the conversion's context the state. Names are
  sequences of words, so that derived names can be those of other types.
- **Multipart, Frames.** Bytes are symbols. A chunk of any size is appended to the buffer when the
  parser asks for one; the consumer decides part by part, and one that is told of an error in a part
  may catch it and ask for the next (`GoOn`). `MaxLine` is what `readLine()` holds of a line that
  does not end. `PartsExact` compares with a reading of the body as a whole: `Delimiters` are all
  places where one lies, `Cut` takes the first, `EmptyLine` and `Kind` read headers as sets of
  lines, and `Reading` goes from part to part, as often as the body has bytes. `Frames` scales
  lengths: digits of base `Base` for bytes, `Short` for 126, so that all three length encodings
  occur in short streams. Every frame has its own mask or none. `PushThrows` is a `push()` whose
  `onFrame` throws: `buf` stays uncut and its frames come again. The loop of `push()` is a recursive
  function of its turns; one that parses nothing changes nothing, so as many turns as the buffer has
  bytes are enough. `FramesAssumption` has payloads short enough for the widest length.
- **NodeAdapter.** `client`, `upload`, `res` are the streams with what they have told their
  listeners; `pump` is the loop of `toNodeResponse()`. A connection may be lost at every step. An
  upload that its reader gives up is done for that reader at once; that `cancel()` destroyed the
  request is noticed in a later step.
- **DiskSink.** The write stream opens, writes, fails and closes on its own time, and the file
  system is a map from names to files. Every step may be refused, the unlink of a failed upload
  included: `"left"` is an upload that was reported as failed with its file still there.

### Abstract specifications

- `Gate` is what a caller of a bulkhead may rely on: one line, served strictly from its head, nobody
  in it forgotten. Its line is a set with the relation `ahead`. `Bulkhead!ImplementsGate` maps the
  woken callers and the waiter list to the line, and their order in the two queues to `ahead`; its
  safety part is proved, `BulkheadIsGate`. The gate's capacity is what makes newcomers wait; it does
  not bound how many are inside, because the code does not either (see the findings).
- `JobLifecycle` has independent jobs with a status and a number of attempts. `Jobs` implements it,
  liveness included, where a worker that ends through its sink forgets its whole batch in one step.
  The safety part is proved, `JobsLiveTheirLife`.
- For the pure algorithms the reference is a definition of its own: the most specific matching
  pattern for the trie walk, `JsonAccepts` for conversion, `Entitled` for the chain of guards,
  `Sent` for the parser of bodies, the messages sent for the frame parser.

## Runs

| Run | Focus and bounds | States | Shows |
|---|---|---|---|
| `resilience` | bulkhead: 4 callers, 1 slot, line of 2. Breaker: 3 callers, threshold 2, 2 ticks, 2 probes. Limiter: 5 requests, 2 peers, table of 1. Retry: 3 tries, 6 ticks, late timers. Readiness: 2 probes, 2 checks. Pressure: window of 3 | 113 000 | `SlotsSafe`, `BreakerBounded`: slots and probes balance over late answers; `BudgetKept`, `RetriesInBudget`, `ReportsRecent`: requests per window, attempts and the begin of every pause within the budget, age of a report; `ImplementsGate`; `RefusalsEnd`: nothing is refused, or left without an answer, for ever |
| `background` | jobs: 3 tasks (one tried twice, one unregistered), 2 workers, sink may reject. Bus: 2 handlers, subscribed up to twice, 2 publications, 2 deliveries. Outbox: 3 records, 2 relays | 165 000 | `JobsKept`, `JobsAccounted`, `ImplementsLifecycle`: each job in one place, started as often as allowed, never after `cancel()`; `Delivered`: audiences served, dead letters exact; `RecordsKept`; `EverythingEnds` |
| `stores` | flight: 3 calls, 1 key, 1 deletion. Idempotency: 4 requests, 2 keys, 2 payloads, TTL 2. Response cache: 6 requests, 4 URLs, cap 3, TTL 2 | 168 000 | `FlightsShared`: loaders per key bounded; `ReplaysRight`: replays match, no execution after one was stored; `CacheHonest`: replies are for the page asked, personal ones not shared, cap and eviction order; `EveryCallAnswered` |
| `records` | sessions: 3 visits of 1 or 2 browsers, 2 records, rotation, rejecting and evicting store, data changed in place. Refresh ids: 6 minted, 2 remembered. Cache: 3 origins of 2 tenants, two of them under one joined key, 2 readers, writers that come late, cap 1. Keys: 3 verifiers, 2 providers, fetch of 1 tick. Poll: budget 4, `slow_down` | 4 600 000 | `SequentialSession`: a visit finds what the one before left; `NoOrphans`: no record under an old id but those `stranded` counts; `ReuseCloses`; `StaleOnlyIfOvertaken`: an entry is behind its source only if what was stored had been overtaken; `ProviderAsked`: recent keys, and the interval that holds after every `slow_down` |
| `kernel` | container: 5 tokens of all four kinds with a cycle through an alias, 5 calls (2 synchronous), 2 request scopes, 2 closes. Lifecycle: 2 providers, one listed twice, 2 starts and 2 stops. Route: 36 routes, 2 principals or none, 3 calls of `next()` | 98 000 | `ScopesIsolated`; `InstancesKept`: conserved, destroyed in order, one singleton per token without overlap; `EveryGetSettles`; `LifecycleKept`; `RequestsAccounted`: the method runs for the entitled only, span ended once, audit true |
| `pipeline` | chain: 3 handlers, the first `timeout()`. Routing: all sets of 3 registrations of patterns up to 2 segments over 2 methods. Caching: 2 routes, cap 2, one `use()`, over GET, HEAD and POST | 19 000 | `ChainDecided`: the reply is the outermost returned response; `RoutingAgrees`: the walk finds the most specific route, shortcut and 405 agree with it; `PipelinesFresh` |
| `schema` | 8 primitives (with a refined optional field, literals, a recursive schema), 14 checks (with patterns with and without flags, `safe`), chains of up to 3 calls of every modifier and composite, 28 values; 3 documents of 2 route tables with operations of the caller, `autoSchemas` on and off; 3 entries of a type map and operation roots | 101 000 | `ParsesSound`: issues lie in the input, outputs of settled schemas parse again unchanged; `ModifiersMonotone`; `DocumentsAgree` and `RoutesDocumented` in both OpenAPI versions; `DocumentSound` for SDL: every name defined once, every `!` true; each with its exceptions named below |
| `transport` | multipart: every cut of 30 bodies into chunks of at most 3, part limits 4 and 6, total 7, a reader that goes on after an error. Frames: 3 frames, 3 lengths, the first without a mask, the others with two masks; a stream ends when `onFrame` has thrown. Exchange: 2 chunks up, replies of no, 0 and 2 chunks, uploads given up. Disk: 2 uploads of 3 chunks, cap 2, any step refused | 422 000 | `PartsExact`, `MessagesArrive`: the parts and messages sent are those received, however they are cut, from a small buffer; `ExchangeWhole`, `UploadsExact`: what was cut off never looks complete; `AllReleased`: a client that stays and every upload get an end |
| `breaker_stuck`, `jobs_again`, `stampede_stuck`, `idempotency_twice` | one component each, same bounds | | each exhibits one finding below |

No configuration checks for deadlock: in all of them the finite set of calls, tasks or requests is
used up at some point, and then the system rightly stops. That nothing stops too early is what the
liveness properties and `SlotsSafe` say.

**Bounds.** They are the smallest at which the interesting interleavings exist. One slot and a line
of two let a newcomer barge in between the release of a slot and the resumption of the woken waiter
while another stands in line, and a fourth caller be refused. Two probes with three callers let late
answers from an earlier period meet probes of the current one. A table of one bucket makes the
second peer prune the first. Two workers, and a task with two attempts, put a retry into the map
while the other worker holds a batch. Three loads and one deletion give an orphaned loader, its
successor, and one that starts after the orphan has cleared the successor's slot. Four requests with
one key shared by three let two race and a third retry. Three visits let two of one browser overlap
before or behind a third, or meet another browser in a store of two records. In the container two
calls overlap in one scope while two closes of it overlap, and, in a separate focus, calls in two
scopes share a singleton. Two interceptors and three calls of `next()` let each of them call twice.
Two-segment patterns give dead ends (`/a/a` beside `/:/:`), parameter against wildcard, and a
wildcard for an empty rest. Three calls in a chain put a modifier on a composite of a refined
schema. The part limits let some files and fields pass and refuse others, and the total refuses a
body of which each part fits. A chunk of three is shorter than a delimiter, so that delimiters are
split over three chunks. Three frames are a message in two pieces with a control frame between them.
Counters that only grow are bounded by `MaxDels`, `MaxNacks`, `MaxArrays`, `MaxClears`, `MaxAdds`,
`MaxUses`, `MaxSubscribed`, `MaxMinted`, `MaxIds`, `Versions`, `MaxRuns`, `MaxCalls`,
`MaxDocuments`, `MaxTypes`, `MaxFrames`, `MaxChunks` and the clocks `LastTick`, `LimitTicks`,
`RetryTicks`, `ProbeTicks`, `SessionTicks`, `CacheTicks`, `KeyTicks` in the guards of the actions
that increment them. `CacheCap` of the router is 1024 in the code; its value plays no role in the
eviction.

**Fairness.** It is weak fairness, on steps the event loop or the environment must take:
microtasks run (`Microtask`, `Resolve`, `Proceed`, `CloseStep`, `Aggregate`, `Flow`, `SinkStep`),
protected functions, handlers, loaders and jobs settle (`FnSettles`, `Answered`, `Deliver`,
`Work`), timers fire and time passes (`JobsTick`, `BreakerTick`, `ProbeTick`, `CheckTimesOut`), relays
and workers are driven again and again (`Relay`, `Work`). The breaker also assumes callers go on
calling: its transition out of "open" is lazy and needs a reader. Checks of a readiness probe are
not assumed to answer. Nothing is assumed of newcomers elsewhere, of `cancel()`, deletions,
closes or of clients staying.

### Findings

Places where the code and its comments disagree, each shown by a run:

1. `breaker_stuck` - a probe that ends with an ignored error (4xx) decides nothing and keeps its
   share of the probe budget; once that is used up the circuit stays half-open and refuses every
   call until `reset()` (`circuit-breaker.ts:115`).
2. `jobs_again` - a job that succeeded is started again when recording its success rejects
   (`jobs/src/index.ts:224`).
3. `stampede_stuck` - a loader that throws before returning a promise leaves its rejected promise
   in the inflight map for good (`cache/src/index.ts:188`).
4. `idempotency_twice` - overlapping requests with one key are all executed (`idempotency.ts:107`).

Further disagreements met while modelling. The models behave as the code does, and the properties
leave room for it; no run is spent on them:

- a call arriving between the release of a slot and the resumption of the woken waiter makes
  `active` exceed `maxConcurrent` (`bulkhead.ts:58` against :4);
- the request scope opened for a controller is never destroyed (`application.ts:332` against
  `container.ts:102-103`);
- a chain that fails after the timer has fired is answered with its error instead of 408
  (`timeout.ts:52` against :14);
- OpenAPI 3.0 gets `nullable` beside a `$ref`, where readers ignore it (`oas.ts:917`);
- SDL throws on a recursive schema whose lazy node is already active (`sdl.ts:590` against the
  package's README:114);
- breaking out of a part's body closes the generator that would drain it, and the remainder is read
  as the headers of a next part (`multipart.ts:575` against the comment at :75-78).

- a failed upload whose unlink the disk refuses leaves its file (`runtime-node/src/index.ts:612`
  against :575, "failed uploads never leave remnants");
- a regular expression loses its flags and `safe()` its limit without a warning, of checks that
  write one keyword the last is kept, and a `null` added to an enumeration, a default or a union is
  lost (`oas.ts:572`, `:623` against :5-7, "nothing is silently lost"); `DocumentsAgree` names these
  (`Rendered`, `Plainly`) and shows that nothing else is;
- a type called `JSON`, `DateTime` or `BigInt` is defined beside the scalar of that name
  (`sdl.ts:1158`), and the intersection of two schemas that accept `null` is given a `!`
  (`sdl.ts:284`); `DocumentSound` names both.

Behaviour that no document contradicts, and that the properties therefore leave room for:
overlapping first resolutions make several singletons, of which the last one stays; overlapping
calls in a request scope may leave an instance that is never destroyed; a loader that lost its slot
to `del()` clears the slot of its successor; a batch is dropped when the sink rejects the record of
a failure; a late success closes a circuit that has opened since; a route registered again, or a
`notFound()`, after its pipeline was composed has no effect until `use()`; so has a HEAD registered
after GET's handlers answered one; a failing `onStart()` leaves providers that `stop()` will not
stop; a guard or pipe that throws, or an interceptor class whose constructor does, leaves the span
of the request open; a retry whose timer is late begins behind the budget; a handler that subscribes
on every call keeps `publish()` going; a handler that changes nested session data in place has
changed the record even if it throws; a `destroy()` that rejects after `set()` leaves the old
record, as do a reply without a response to put a cookie on and an overlapping reply that replaces
the cookie (`stranded`); `namespaced()` gives two tenants one key when a prefix or a name holds a
colon, and `clear()` of one namespace empties all; a key cache asked for two `jwksUri` answers one
with the other's keys while they are fresh; `cacheAside()` hands out the raw NEGATIVE marker of a
wrapped cache; `default()` takes values its own schema rejects, and a union takes what an earlier
variant accepts, so their outputs need not parse again (`Settled`); object modifiers forget
refinements, of the object and, for `required()`, of optional and default fields (`Seen`,
`Unrefined`); a reader who caught the error of a part and asks for the next gets what follows in the
buffer read as headers; frames that were delivered before an `onFrame` threw come again; an upload
that its reader gave up reads as done with fewer chunks; a refresh id that has fallen off the
retired list is no longer recognized as reused; a load that overlaps a write of its source stores
the old value; the response body of a client that has gone is not cancelled, and its pump may wait
for ever; giving up an upload destroys the socket, so a 413 may not arrive; two uploads of one name
write to one file.

## Proofs

The theorems hold for every value of the constants that satisfies the assumption named in the
component's module (`BulkheadAssumption` and so on), whatever bounds the runs use. The assumptions
say what constructors and types enforce: limits are natural numbers, capacities and numbers of
attempts not zero, sets of callers finite where something is counted, markers such as `None` not
among the values they stand beside. Two assumptions replace an induction over recursive operators:
`JobsAssumption` and `RetryAssumption` state that the powers of two by which pauses grow are
natural numbers. TLC evaluates every assumption on every run.

Every theorem about an invariant has the same form: an inductive invariant `...Inv`, a lemma that
`Init` establishes it, one lemma per action (or group of actions) that keeps it, and a step that
draws the property from it. In the table the argument is what the invariant adds to the property.

### Resilience (`ResilienceProofs`)

| Theorem | Says | Argument |
|---|---|---|
| `SlotsAlwaysSafe`, `NeverLosesWakeup` | `SlotsSafe`: types, slots balanced, nobody forgotten; while there is a line all slots are taken or promised | The count of slots is not inductive by itself: a release must not wake somebody who is running already. `LineConsistent` (no repetitions in either queue, everybody in them at that point of `execute()`) provides that. `ReleaseKeepsLine` treats the `finally` block once for its three callers. That nobody is forgotten needs a second pass over the actions (`NextForgetsNobody`): a waiter is in the line or among the woken, and what leaves one queue joins the other or goes on. |
| `BulkheadIsGate` | The safety part of `ImplementsGate`: every step of `execute()` is a step of `Gate` or none | A release moves the head of the list to the end of the microtasks, which is the same queue (`MovedAlong`); a call that settles comes in between the two and changes no order (`Squeezed`); who resumes is the head (`FirstOfQueue`, `HeadServed`), who waits comes last (`BehindAll`), and since nobody is forgotten everyone in line is in the queue. |
| `BreakerAlwaysBounded`, `OpenStartsNoCall`, `OpeningRestartsCooldown` | `BreakerBounded`: probes per half-open period are bounded and a closed circuit is below its threshold; two action properties | `halfOpenCalls` counts refused calls too and may not be cleared when the listener throws, so the limit is kept through `admitted <= halfOpenCalls`. |
| `BudgetAlwaysKept` | `BudgetKept`: `max` requests per window, twice as many in any stretch as long | `LimitInv`. The windows of a key do not overlap (`WindowsApart`); a bucket is the last window of its key, and a key whose bucket was pruned has no window running (`BucketsLast`); a bucket's count is at least what its window let through (`SharesKept`). So pruning gives nobody a second budget, and a stretch as long as a window meets two of them at most. |
| `RetriesStayInBudget` | `RetriesInBudget`: tries, errors, the budget and pauses that double | A sleep that began was found to be due within the budget, after the pause its attempt asks for (`SleepsInBudget`); that its timer is late moves only the try behind it. |
| `ReportsStayRecent` | `ReportsRecent`: age of a report | An evaluation that runs, and one that was cached, took no longer than the timers of its checks allow. |

### Background (`BackgroundProofs`)

| Theorem | Says | Argument |
|---|---|---|
| `JobsAlwaysKept` | `JobsKept`: one place for every job, attempts counted and bounded | The attempt number a job carries is the number of its starts (`AttemptsCounted`); this needs each task to be in one place, which needs unsubmitted tasks to be nowhere. |
| `JobsAlwaysAccounted` | `JobsAccounted`: a cancelled job never starts, and one that was taken is lost only in a step in which the sink rejects | A cancelled task is in no map and no batch. For the rest by actions: every other step hands the job on or records its outcome. |
| `JobsLiveTheirLife` | The safety part of `ImplementsLifecycle`: every step of scheduler and workers is a step of `JobLifecycle` or none | `RInv`: a job with an outcome is nowhere any more, and a failure is recorded exactly when the attempts are used up. `StatusIs` reduces the status of a job to five facts, which each action changes for the jobs it is about and for no other. |
| `AlwaysDelivered` | `Delivered`: audiences served in order, dead letters exact | `BusInv`. An array that is walked is never changed in place but by appending, so what was subscribed when a publication began is still the first part of it (`WalkRight`); attempts and calls of a handler agree, which makes its dead letter exact. |
| `RecordsAlwaysKept` | `RecordsKept`: each record in one place, handed out in order | `OutboxInv`. The order rests on records being in one place, on nothing but a `nack` putting a record in front of another, and on records that were not appended having no nacks. |

### Stores (`StoresProofs`)

| Theorem | Says | Argument |
|---|---|---|
| `FlightsAlwaysShared` | `FlightsShared`: loaders bounded, and a slot is never held by a flight that has ended, but for one whose loader threw at once | The bound on loaders does not say which of them holds the slot. Inductive is a bound on the orphans, loaders out of the slot: an orphan that ends may orphan its successor, so the number stays, and only a deletion adds one. |
| `ReplaysAlwaysRight` | `ReplaysRight`: replays match, no execution after a response was stored | `IdemInv`: what a request found decides where it is (`FoundDecides`), a key of which nothing has lapsed still holds a response (`StillHeld`), and a request that came later has found it (`SeenByLater`). |
| `NeverOrphaned`, `SessionsAlwaysFound` | `NoOrphans`, and the action property `SequentialSession` | `SessionInv` follows a browser from its cookie to its record: ids are owned by one browser and never handed out twice; while it sends one request after the other, the cookie in its jar, the record it names and what it was told last agree on the object and expiry (`Remembered`), or a request that is about to replace the cookie holds that object (`Replacing`). What is shared are objects, so `ObjectsOK` says where they come from, and an object changed in place changes what was told with it. `NoOrphans` is about every browser, disturbed or not, and a conjunct of the invariant: a record that loses its cookie or its writer does so in a step that puts its id into `stranded`. |
| `ReuseAlwaysCloses` | `ReuseCloses` | `RotationInv`: the ids of a chain were minted one after the other, and the retired list is the last of them before the current one, as many as it keeps. |
| `EntriesFollowSources` | `StaleOnlyIfOvertaken` | `PortInv` has every entry and every load under the joined key it was read for. A write of a source does not leave its entry `Behind` while its writer is on the way, and the writer drops or replaces it; so entry and source part only in a step that stores what a load or a later writer overtook. |
| `ProviderAskedRight` | `ProviderAsked` | `FetchInv` bounds what is being fetched and what is cached by the time a fetch takes; and has them served by a provider somebody asked for; `PollInv` has the interval be what all `slow_down` answers so far ask for (`IntervalAfter`), and the flow asleep until that has passed since it asked. |
| `CacheAlwaysHonest` | `CacheHonest`: replies are for the page asked and nobody else's personal ones, the cap holds, evictions are in order | `ResponseInv`: an entry was filled by a request for its page that may use the store, a request past the lookup may fill it, and no two entries have one place. Hence the number of younger live entries tells live entries apart, so at most as many as the cap allows have few enough of them (`TopFew`), and an entry that `prune()` keeps has no more than an older one. |

### Kernel (`KernelProofs`), requests (`PipelineProofs`), transport (`TransportProofs`)

| Theorem | Says | Argument |
|---|---|---|
| `ScopesAlwaysIsolated` | `ScopesIsolated`: request-scoped instances serve their own container | `IsolationInv`: not only caches and answers but every frame of every recursion, its arguments and the instance it has constructed belong to the container the call was made on; singletons, overrides and what they cache are never request-scoped, though an `override()` changes a token's scope while it is being resolved. |
| `InstancesAlwaysKept` | `InstancesKept`: nothing destroyed twice; where calls take turns nothing is lost or destroyed too early, and a singleton is made once | `KeptInv`, on top of `IsolationInv`. In every container an instance is in one place at most (`Once`); in a calm one in one place at least (`NoneLost`), since its only call has resolved a token that the cache lacks (`FrameKept`) and so overwrites nothing. What was injected is older than what it was injected into, and calm caches are sorted by age, so a reversed cache destroys users first (`InOrder`). Of a singleton, a serial call has one that is cached or under construction, never both (`SinglesOnce`). |
| `LifecycleAlwaysKept` | `LifecycleKept` | Counts of hooks are not inductive where a call is half way. `LifeInv` says how often each hook has run at every position of every `start()` and `stop()` (`TurnsInv`), and that the passes of `onDestroy` map into those of `onStop` (`Passes`), from which `Times`, a cardinality over positions, gives the counts. |
| `AlwaysAccounted` | `RequestsAccounted` | `RouteInv` relates the stage of a request to the guards passed, the span to the stage, and the audit record to the outcome that will be the response. |
| `ChainAlwaysDecided` | `ChainDecided`: the reply of a proper chain is the response of the outermost handler that returned one, no handler runs twice | `PipelineInv` is a relation between neighbours: a handler waits for the one below it, which has been dispatched by it alone (`Nested`), and a handler that is over passes the response of the outermost responder below it on, or has none to pass on because the chain was left at its last handler (`Passes`). |
| `AlwaysRoutedRight` | `RoutingAgrees`: the walk finds the most specific route, the shortcut agrees with it, a 405 lists only what the path has | `RouterInv` has the table of static routes offer nothing that the trie does not. The rest is about one walk, for any trie: that `matchNode()` ends is the existence of its recursive function, built layer by layer from the deepest nodes (`WalkSolved`); that it answers right at every node is shown for a deepest node that would be a counterexample, whose children answer right (`LeastNat` takes it from the library's theorem on well-founded minima). The patterns that run through a node and cover the path end there or go on by its static, parameter or wildcard child, in that order of precedence. |
| `PipelinesAlwaysFresh` | `PipelinesFresh`: a cached pipeline misses no middleware | Every cached entry is of the current version, since `use()` empties the cache and raises the version in one step, so it has all middlewares; a route keeps at least the registrations it had when the entry was composed, and an entry for HEAD comes from HEAD's handlers or, if there were none, from GET's. |
| `ExchangeAlwaysWhole` (in `KernelProofs`) | `ExchangeWhole`: what was cut off never looks complete, in both directions | `ExchangeInv`: the body listens as long as it is open, and while it listens it has all that was sent; one that was given up listens on but is neither open nor closed; the pump runs only for a response with a body, and within it. |
| `UploadsAlwaysExact` | `UploadsExact`: saved is whole, failed is gone unless the unlink was refused | `SinkInv`, for uploads whose name is their own (`Alone`): the file is there from when the stream opened it until it is unlinked, and holds what the stream wrote, which at the end is what was taken. |
| `FramesAlwaysArrive` | `MessagesArrive`: a legal stream of frames is never refused and is heard as the messages that were sent, however it is cut and masked; an illegal one is refused; what is heard until `onFrame` throws is where the messages begin | `FramesInv`: until a frame is refused or `onFrame` throws, `pending` and `stream` hold the bytes of the frames after the first i (`Laid`, `Part`), these i were legal, what was heard is what they tell (`Told`), the fragments kept are those of the unfinished message (`Keeps`), and `pending` has no whole frame any more. That a frame is read back from its bytes, and from no proper part of them, is `ParseIs` and `ReadBack`, with `Unmasked` for masks; a turn of the loop goes from one frame to the next (`TurnKeeps`), and the turns suffice because every frame has two bytes. A refused frame is illegal, and what follows it does not matter. The recursive functions exist by `Reached`, drawn from the least number at which one would not (`LeastNat`). |
| `MultipartAlwaysExact` | `PartsExact`: unless a part was broken out of or its error caught, the parts handed out are those of the body, a reader told the end has all of one, none is missing at the end; and the buffer stays small | `MultipartInv`: until a part is broken out of or has thrown, or the body is abandoned, buffer and wire together lie behind the k-th part of the reading, in its headers or its content (`Placed`): what is left of headers says what the headers say (`SameHeaders`), the bytes of a content that were emitted or set aside are in front of its delimiter (`InContent`), and a reader has all that was emitted (`HasRead`). What decides is that nothing read from a buffer is taken back by bytes that come later: what follows a boundary (`SuffixKept`), a line (`LineKept`), a boundary found, or none but in the tail that is kept (`ScanFound`, `ScanNone`), and one that turned out to be none hides no other (`NoOverlap`, `ClearOver`). Parts grow shorter, so the reading ends (`StageShort`). `BufferInv` bounds the buffer at every position; it needs that a line without an end was waited for with no more than `MaxLine` bytes. |

Only model-checked:

- all liveness properties (`RefusalsEnd`, `EverythingEnds`, `EveryCallAnswered`, `EveryGetSettles`,
  `AllReleased`, and the fairness in `ImplementsGate` and `ImplementsLifecycle`), since the prover
  has no rules for fairness and ENABLED;
- everything in `Schema`, `SchemaBuilder`, `OpenApi`, `OpenApiDocument`, `Sdl` (`ParsesSound`,
  `ModifiersMonotone`, `DocumentsAgree`, `RoutesDocumented`, `DocumentSound`), which define trees by
  recursive operators that the prover does not support;
- `Pressure`, which has a property of liveness alone.


## What is abstracted

Contents of messages, names, headers, log lines and metrics; wall-clock time, of which only the
order of ticks and deadlines is kept; garbage collection. Registration in the container happens
before resolution and is a constant. Left out of `Router`: prefixes (`mount`, `use(path)`),
strict mode, parameter values, a node registered under two spellings, URL limits and the stripping
of HEAD bodies. Left out of `Jobs`: the `AbortSignal`, which the code never aborts. `Schema` leaves out
messages and the order of issues, `OpenApi` and `Sdl` descriptions, examples and metadata that are
copied verbatim, `Multipart` the text of header values, `Frames` the handshake. `NodeAdapter`
leaves out `serve()` and the upgrade listener, which hand over to Node.

## Not modelled

Components without a module are listed in `PROJECT.json` with the reason. They are of three kinds:

- decisions about one message, without state between messages: `csrf`, `jwt`, `paseto`, `cookie`,
  `basic-auth`, `bearer-auth`, `ip-restriction`, `validator`, `contract`, `etag`, `compress`, header
  middlewares, `mount` and prefixes, `config`, `client`;
- input and output: `static`, `file`, `sse`, `proxy`, the Bun and Deno adapters;
- what runs once, sequentially, while an application is defined or bootstrapped: decorators,
  metadata, module discovery, export validation; and `kernel/repository`, whose operations are one
  synchronous step each.

None of these has interleavings or failures between steps that a model would add to their tests.

## Plan

Done, in this order: resilience policies, background packages, shared stores, container and
lifecycle, router and chain; then route handler, sessions and caches, schemas and documents,
transport; each with its abstract specification or reference definition where it has one. The models
are complete as far as the components above go.

What remains is to prove more of what is only model-checked, most important first:

1. `ParsesSound` and `DocumentsAgree`, for which `Validate`, the conversion and the reader become
   recursive functions on the nodes of a schema, numbered by depth.
2. `DocumentSound` of `Sdl`, by induction over the names that a conversion claims.
