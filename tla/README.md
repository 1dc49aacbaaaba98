# TLA+ models of the goddess gateway

This directory holds TLA+ specifications of the request-handling dataplane of
the gateway in `src/`. It also holds the TLC configurations that model-check
them, and TLAPS proofs of their main invariants. Each module is written from
the Go source and not from `spec.md`. The exception is code that is not under
`src/`, such as the sre circuit breaker and the retry feature gate. Those are
modelled from their contract and marked `spec_modelled` in `PROJECT.json`.

## The system

A request reaches `Proxy.ServeHTTP` (`src/proxy/proxy.go` 319-333). That
function recovers panics and dispatches through the route table held in an
`atomic.Value`. `Update` (300-317) builds a new route table from a
configuration. Each endpoint's handler is built by `buildEndpoint` (110-298),
swapped in, and the old table is closed after a drain (`tryCloseRouter`,
364-377).

The per-endpoint handler has two paths:

- **Buffered path** (`e.Stream = false`, 195-296). The handler reads the whole
  body and runs an attempt loop over `retryStrategy.attempts`. Each iteration
  with index `i > 0` first consults the retry feature gate and a retry breaker
  shared by every request of the endpoint
  (`sre.NewBreaker(WithSuccess(0.8), WithRequest(10))`). The iteration then
  sets `LastAttempt` on the final index, checks the request context and calls
  `RoundTrip` on a fresh reader over the body. The response is judged
  against the retry conditions. A non-retriable response ends the loop. A
  retriable one is marked failed and its body is closed. After the loop the
  handler calls `writeError` (`src/proxy/error_handler.go` 14-36) for an error,
  or copies status, headers and body to the client.

  Every outcome of an attempt with `i > 0` feeds the breaker (`markSuccess`
  and `markFailed`, 137-148). It also feeds the observer's retry metric
  through `splitRetryMetricsHandler` (378-403). That metric emits no event for
  `i = 0` and none for a `context.Canceled` failure.
- **Stream path** (`e.Stream = true`, 164-189). A `httputil.ReverseProxy`
  forwards the request, with request and response bodies wrapped by
  `MetaStreamContext` (`src/unnamed/part_001` 187-366). The wrappers count
  the bodies they wrap. They run `OnFinish` once, when every registered body
  has closed.

`src/unnamed/part_001` 1-186 is the namespace middleware, a RoundTripper that
rejects requests by a namespace header. `part_000` is the JWT middleware and
`part_003` the Consul and etcd discovery plugins, which register
themselves with the discovery registry (`src/discovery/registry.go`).
`src/cmd` is the command-line front end. The gateway's `run` function
(listed in `src/proxy/observer.go` 490-580) starts the process. It
optionally loads the config from the control service, then loads the config
file, creates the discovery and the proxy, and runs the first `Update`.
Then it registers the reloader with the file watcher and starts the servers.
Any failure before the servers start is a `log.Fatalf`.

## Modules

| module | models | source |
|---|---|---|
| `Handler` | the buffered path of one endpoint, with concurrent requests sharing its retry breaker | `proxy.go` 135-297, 378-403; `error_handler.go` 14-36 |
| `MCHandler` | a TLC instance of `Handler`: symmetry over the requests | |
| `HandlerProofs` | TLAPS proofs of type correctness and of every invariant of `handler_safety` | |
| `RouterProofs` | TLAPS proofs of `TypeOK`, `LiveTableOpen`, `FailedUpdateReleasesClients` and the action property `ClosedOnlyWhenRetired` | |
| `StreamTracker` | the stream path of one request and the body counting of `MetaStreamContext` | `proxy.go` 164-189, 405-465; `part_001` 187-366 |
| `MCStreamTracker` | a TLC instance of `StreamTracker` (it has no constants) | |
| `StreamTrackerProofs` | TLAPS proofs of `TypeOK` and `AllClosedFinishes` | |
| `Router` | `Update`, the route-table swap, `ServeHTTP` and the drain-then-close of old tables | `proxy.go` 76-93, 110-133, 300-377 |
| `MCRouter` | a TLC instance of `Router`: symmetry over the requests | |
| `Gateway` | the gateway process over `Router` (which it EXTENDS): control-service load, config load, discovery, first `Update`, fatal exits, the reloader and the servers | `observer.go` 490-580; `registry.go` 37-55 |
| `MCGateway` | a TLC instance of `Gateway` | |
| `GatewayProofs` | TLAPS proofs that `Gateway` implements `Router`, of `RequestsServedByBuiltTable` and `SwapOnlyToBuiltTable`, and of the `Router` theorems for the gateway | |
| `Namespace` | the namespace middleware: its build-time checks and its RoundTripper | `part_001` 35-186 |
| `MCNamespace` | a TLC instance of `Namespace` | |
| `Chain` | `buildMiddleware`, the order `buildEndpoint` stacks the wrappers, and a request's walk through them; the JWT middleware and, through `INSTANCE Namespace`, the namespace middleware are the gates | `proxy.go` 94-128; `part_000` |
| `MCChain` | a TLC instance of `Chain` | |
| `ChainProofs` | TLAPS proofs of `ChainFollowsDeclaration` and `UpstreamOnlyIfAuthorized`, and lemmas on `buildMiddleware`'s loop | |
| `ControlService` | the control service's `sync.RWMutex` shared by concurrent release and features handlers: lock, cache lookup, file load and store | `control.go` 55-86, 137-161, 231-257, 334-373 |
| `MCControlService` | a TLC instance of `ControlService` | |

### Handler: state and actions

Each request is a goroutine with a program counter `pc`. Its values are:

- `init`: before the body read;
- `loop`: at the head of an iteration;
- `call`: a `RoundTrip` is in flight;
- `relay`: after the loop;
- `done`: returned.

The per-request variables are the handler's own: `i`, `err`, `resp`,
`reqOpts.LastAttempt` (`lastAttempt`) and `ctx.Err()` (`ctxErr`). In
addition, `bodiesOpen` counts upstream bodies that are obtained and not
closed. Two histories record what the code does: `calls` holds one record per
`RoundTrip`, and `retryEvents` holds the `HandleRetry` states. The shared
variables are:

- the breaker window (`bAccepts`, `bTotal`);
- the number of retries sent since the window rolled (`windowRetries`);
- the feature gate (`retryEnabled`).

Data is abstracted to what the properties tell apart. An error is its class
as `writeError` sees it (canceled, "client disconnected", deadline, other). A
response is its kind (matching a retry condition or not) and whether its body
is open. A status is the code, the Grpc-Status header and the state of the
body handed to the copy.

| action | code |
|---|---|
| `ServeStart` | 190-204: body read, failure to `writeError` |
| `AttemptBegin` = `LoopExhausted` / `RetryRefused` / `IssueAttempt` | 207-234: loop bound, feature gate and `Allow`, `LastAttempt`, `ctx.Err()`, `RoundTrip` |
| `RoundTripReturn` = `AttemptFailed` / `AttemptRetriable` / `AttemptSucceeded` | 234-247 |
| `Respond` | 249-296: `writeError`, or relay and `doCopyBody`'s close |
| `ContextDone` | the overall `context.WithTimeout` (158) firing or the client going away |
| `ToggleRetryFeature` | the control plane flipping `retryFeature` (not under `src/`) |
| `WindowRoll` | the breaker's rolling window dropping its buckets (not under `src/`) |

The breaker's `Allow` is modelled by its contract. It must allow while the
window holds fewer than `MinRequest` outcomes, or while
`total * Success <= accepts * 100`. Otherwise it may refuse or allow, because
sre drops with a probability. No fairness is assumed. All checked properties
are safety properties.

### StreamTracker: state and actions

One streaming request involves three actors. The handler goroutine runs
`proxyStream` and `httputil.ReverseProxy`. The transport closes the request
body once it has written it. For HTTP/2 it may do so after the response
headers have arrived. Every wrapper's `Close` runs `notifyBodyClosed` in
whichever goroutine closes the body.

`notifyBodyClosed` is two separate atomic operations: `AddInt32` on
`closedCount`, then `LoadInt32` of `bodiesCount`. The model splits `Close`
into `TransportClosesRequest` / `CopyResponse` (the add) and `CloseCheck` (the
load and `finishOnce.Do`). Other actions can run between the two.

The initial state ranges over the protocol version, WebSocket upgrades, and
requests with `ContentLength == 0`, which get no body from ReverseProxy.

| action | code |
|---|---|
| `StreamStart` | `proxy.go` 164-189 to `ServeHTTP`; `wrapStreamRequestBody` and `RegisterBody` |
| `ResponseArrives` / `RoundTripFails` | `builtinStreamTripper` (405-465) |
| `CopyResponse` | `ModifyResponse`, the copy, and the deferred close of the response body |
| `TransportClosesRequest`, `CloseCheck(b)` | the wrappers' `Close` (`part_001` 280-293, 341-355) and `notifyBodyClosed` (234-238) |
| `ProxyReturns`, `CloseRequestOnExit` | the return of `ServeHTTP`, then `defer req.Body.Close()` |
| `DoOnFinish` | `defer streamCtx.DoOnFinish()` |

`DoOnFinish` is not under `src/`. It is modelled from spec 4.E as
`finishOnce.Do` of the hooks.

### Router: state and actions

A route table is named by the `Update` that built it. Table 0 is the empty
table of `New`. A client (a transport pool) is a pair of a table and an
endpoint index.

- `UpdateStart`, then `BuildEndpoint` once per endpoint, then `UpdateSwap`
  model `Update` (300-317). Each iteration may fail in one of three places:
  in the client factory, inside `buildEndpoint` after the client exists (its
  own deferred `closeOnError`), or in `router.Handle`.
- `UpdateFails` runs the deferred `closeOnError` calls.
- `TryCloseRouter` starts the drain of the table that was swapped out.
- `ServeHTTP(r)` / `RequestDone(r)` model a request that loads the live table
  and later returns.
- `SyncCloseDrained(t)` closes table `t` once it has drained. It is modelled
  from spec 4.H, because `router.SyncClose` is not under `src/`.
- `SyncCloseExpired(t)` is the 120 s context of `tryCloseRouter` expiring
  while requests on `t` are still running.

### Gateway: state and actions

`Gateway` EXTENDS `Router` and adds the process around the proxy. Its
variables are:

- `file`: the config file, abstracted to whether `confLoader.Load` parses it
  and its discovery descriptor;
- `phase`: `ctrl`, `load`, `update`, `serving` or `exited`;
- `discovery`: the discovery created at start;
- `breakerCtx`: the configuration whose build context the circuit breaker
  holds.

Its actions are:

- `CtrlLoad` (493-503): the control service's config replaces the file, or
  the load fails and the local file is kept.
- `FileChange`: `ctrlLoader.Run` or an operator rewrites the file. The
  loaders are not under `src/`, so this action is `spec_modelled`.
- `StartFatal` (505-518): the load or `DiscoveryCreate` fails, and
  `log.Fatalf` ends the process.
- `Start` (515-527): the discovery is created, `circuitbreaker.Init` runs,
  and `Router`'s `UpdateStart` begins.
- `StartUpdateFatal` (527-529): the first `Update` failed, and the process
  ends.
- `Serve` (545-579): the first `Update` succeeded, and the servers start.
- `Reload` (530-544): the reloader runs `SetBuildContext`, then
  `UpdateStart`. A load error changes nothing.
- `ProxyStep`: `Router`'s update loop, swap, requests and `SyncClose`
  goroutines, unchanged. Requests are accepted only once the phase is
  `serving`.

`DiscoveryCreate` translates `discoveryRegistry.Create`. A nil descriptor
means no discovery. A required descriptor with an empty name is an error,
and so is an unregistered name, which includes the empty name when the
descriptor is not required. A failing factory is also an error. Each error
is fatal at start, although the log message says "using default discovery
instead".

`GSpec` is `GInit /\ [][GNext]_allVars`, with no fairness: the gateway's
properties are all safety properties.

### Namespace: state and actions

`Build` is a configuration load calling `Middleware` with any options. It
either refuses them (`BuildFails`: whitelist mode with an empty list, api
mode without a URL) or builds the validation function of the mode.

`Serve` is one request through the RoundTripper. Its namespace is empty or a
model value, and its validation API answers `ok`, `reject` or `error`.

- `ViaApi` is `validateNamespaceViaAPI`, reduced to its three outcomes: nil,
  `ErrorForbidden` (403) or `ErrorInternal` (500).
- `Results` is the status `newForbiddenResponse` takes from the error code.
- The validation mode is taken after `ToLower(TrimSpace(...))`. `other`
  stands for the empty string and any unknown value, which all select the
  default case.

### Chain: state and actions

`Init` chooses the configuration: the global and endpoint lists, the stream
flag, the middlewares whose options fail to unmarshal, and the namespace
options. It then builds the tripper with `EndpointTripper`.

- `BuildMiddleware` is the code's loop from the last index down, written as
  a recursive function over the number of entries wrapped so far.
- `Factory` is `p.middlewareFactory`. The registry of names is not under
  `src/`; the JWT and namespace factories are.
- `Accept` hands a request to the outermost wrapper. `Forward` passes it one
  wrapper inward, and at the client sends it upstream. `Refuse` is a gate
  answering `newForbiddenResponse`.

### ControlService

`ControlService` models `src/cmd/control/control.go`. It is outside the
dataplane that `spec.md` covers, so its expectations come from
`src/README.md`.

It follows handler goroutines of `GetGatewayRelease` and
`GetGatewayFeatures` through `RLock`, the cache lookup, `Lock` in
`loadConfigFromFile` or `loadFeaturesFromFile`, and the store.
`sync.RWMutex` is modelled by its documented contract: `Lock` waits for
readers, and a waiting `Lock` blocks new `RLock` calls. The goroutines'
steps are weakly fair, because Go's scheduler runs every runnable
goroutine. `EveryRequestAnswered` is checked under that fairness.

The lock is the whole story of this file. A handler that misses the cache
for a gateway whose file exists takes `Lock` (line 231 or 258) while it
holds its own `RLock` (line 74 or 138). `sync.RWMutex` is not reentrant, so
that `Lock` never returns, and nothing else stores into `s.configs`. The
cache therefore stays empty. The version exchange that follows a cache hit
(the 304 check and the priority configs of the answer, lines 88-134) is
unreachable for a gateway with a config file, and it is not modelled. A
gateway without one gets the load's error and is answered at once.

## Runs

| run | cfg | expect | what it shows |
|---|---|---|---|
| `handler_safety` | `MCHandler.cfg` | pass | see the properties below |
| `handler_body` | `MCHandlerBody.cfg` | violation | `RelayedBodyIntact`: a retriable response whose body the loop closed (line 246) is relayed when the loop ends on exhaustion, the feature gate or the breaker |
| `handler_breaker_feed` | `MCHandlerBreakerFeed.cfg` | violation | `BreakerFedOnlyByRetries`: a cancellation seen at line 226 with `i > 0` is fed to the breaker as a failed retry although no retry was sent |
| `stream_finish` | `MCStreamTracker.cfg` | pass | `TypeOK`, `AllClosedFinishes` |
| `stream_early_finish` | `MCStreamTrackerFinish.cfg` | violation | `FinishAfterAllBodiesClosed`: the transport closes the request body before the response arrives; its `Close` sees 1 of 1 bodies closed and runs `OnFinish` while the response body is still to be registered and streamed (`part_001` 234-238) |
| `gateway_reload` | `MCGateway.cfg` | pass | `TypeOK`, `FailedUpdateReleasesClients`, `LiveTableOpen`, `RequestsServedByBuiltTable`, `SwapOnlyToBuiltTable`, `ClosedOnlyWhenRetired` |
| `router_drain` | `MCRouterDrain.cfg` | violation | `DrainBeforeClose`: after 120 s `tryCloseRouter` closes the old table's transports under a request still running on it (line 373), against spec P5 |
| `chain_order` | `MCChain.cfg` | pass | `ChainFollowsDeclaration`, `UpstreamOnlyIfAuthorized` |
| `control_lock` | `MCControlServiceLive.cfg` | violation | `EveryRequestAnswered`: the first request for a gateway whose file exists takes `mu.Lock` (line 231 or 258) under its own `mu.RLock` (74 or 138) and never returns; its pending `Lock` then blocks every later `RLock` |
| `namespace_default_api` | `MCNamespaceDefault.cfg` | violation | `DefaultModeHonoursApi`: in the default mode, a namespace the API accepts falls through to `ErrorForbidden` (`part_001` 92-97) and is refused with 403 |

`handler_safety` checks these properties:

- `TypeOK`.
- `NilResponseNeverRelayed`: the relay never dereferences a nil `resp`. This
  depends on the gate and the breaker breaking *before* `err = ctx.Err()`
  resets `err`.
- `UpstreamBodiesClosed`: at most one upstream body is open per request, and
  none after the handler returns.
- `LastAttemptOnlyOnFinalCall`: `LastAttempt` is never set on a call that is
  followed by another, and is set on the call at the last index.
- `SuccessIsRelayed`: the first non-retriable response ends the loop, and the
  client sees the success status exactly when there was one.

`stream_finish` checks these properties:

- `TypeOK`.
- `AllClosedFinishes`: once every registered body has finished its `Close`,
  the hooks have run, whatever the interleaving of the adds, the loads and
  the registration of the response.

The model has no constants; the whole space of one request is explored. The
run sets `CHECK_DEADLOCK FALSE` because a single request terminates in `done`.
Requests are independent `MetaStreamContext`s, so one request is enough.

`gateway_reload` runs the whole process, from start through reloads, and
checks these properties:

- `FailedUpdateReleasesClients`: an `Update` that returns an error has
  closed every client it created, whichever step failed.
- `LiveTableOpen`: the transports of the live table are never closed.
- `RequestsServedByBuiltTable`: no request runs on `proxy.New`'s empty router
  or on a table whose `Update` failed. A mutant that serves after an unchecked
  first `Update`, as the package's tests call it, breaks this.
- `SwapOnlyToBuiltTable` (an action property): a step that changes the live
  table installs a newer table, from an `Update` that did not fail, with all
  its clients open.
- `ClosedOnlyWhenRetired` (an action property): a step closes only clients
  of a table that is out of service. These are the clients of the `Update`
  that fails in that step, closed by its `closeOnError`, and those of a table
  `Swap` replaced, closed by its `SyncClose` goroutine. A mutant where
  `tryCloseRouter` closes the old table at once, with no goroutine to drain
  it, breaks this.
- The refinement `GSpec => Spec` of `Router` is proved by TLAPS (see
  Proofs), not checked here.

The run uses two requests, two endpoints and three updates (the first
`Update` and two reloads). That is enough for an update to fail in the
middle of its endpoint loop, and for a later one to succeed while requests
still run on two older tables. It sets `CHECK_DEADLOCK FALSE` because a `log.Fatalf` ends the
process. It explores about 40,000 distinct states in about half a minute.

`chain_order` checks two properties:

- `ChainFollowsDeclaration` (spec 4.B): an unregistered name is skipped, any
  other factory error fails the build, and a built chain runs the global list
  outermost, then the endpoint's list, each in declaration order, then the
  stream tripper and the client.
- `UpstreamOnlyIfAuthorized`: a request that reaches the upstream carried a
  valid Bearer token if the chain holds the JWT middleware. It also carried a
  namespace the options accept if the chain holds the namespace middleware.
  This is stated from the options, not from the model's gate operators. It
  also checks the namespace middleware on its own, for every option set.

The run covers all global and endpoint lists of up to two entries over the
names `jwt`, `namespace` and an unregistered name. That is enough for a
repeated entry, a skip between two real entries, and both lists non-empty.
It also covers every set of options that fail to unmarshal, every namespace
option set, and every request class. The run sets `CHECK_DEADLOCK FALSE`
because an endpoint whose build failed serves nothing, which is what
`Update` does when it returns the error.

**Bounds.** There are two requests, so that they interleave on the shared
breaker, and three attempts, so that a retry can be followed by a further
retry and the last index differs from the first retry. `MinRequest = 2`
stands in for 10 so that the breaker can refuse within the requests' own
retries; the run reaches the `breaker` event. Symmetry over the requests is
sound because no property or action distinguishes them. The run explores
about 495,000 distinct states in a few seconds.

## Proofs

`HandlerProofs` proves five theorems with TLAPS, for every set of requests,
both protocols, and every `Attempts`, `MinRequest` and `Success` allowed by
`ConstantsAssumption`:

- `TypeCorrect`: `Spec => []TypeOK`;
- `NilResponseSafety`: `Spec => []NilResponseNeverRelayed`;
- `UpstreamBodiesClosedHolds`: `Spec => []UpstreamBodiesClosed`;
- `LastAttemptOnlyOnFinalCallHolds`: `Spec => []LastAttemptOnlyOnFinalCall`;
- `SuccessIsRelayedHolds`: `Spec => []SuccessIsRelayed`.

Neither invariant is inductive alone. The proof uses the inductive invariant
`IInv == BaseOK /\ HistOK /\ Aux`. `BaseOK /\ HistOK` is `TypeOK` split in
two, because the SMT backend handles the sequence-of-records part badly, so
Zenon proves that part. `Aux` adds four facts:

- a request in `init` is at index 0;
- a request in `call` is below the bound;
- an open `resp` body is counted in `bodiesOpen`, which keeps the `- 1` in
  `doCopyBody`'s close in `Nat`;
- once an iteration has finished or the loop is left, `err = nil` implies
  that `resp` holds a response.

The last fact is the one that carries `NilResponseNeverRelayed` across the
gate and breaker breaks. TLC checked `IInv` as an invariant of
`handler_safety` before it was proved. The step lemma `NextIInv` has one case
per action and, under each, one step for `BaseOK'`, `HistOK'` and `Aux'`.

The other three theorems rest on two more invariants, each proved inductive
relative to `IInv`:

- `BodyCount`: `bodiesOpen[r]` is 1 exactly when `resp[r]` holds an open
  body, and only a response waiting at the relay with `err = nil` does.
  This is what rules out a leak: the retriable branch closes its body before
  the next iteration, and `Respond` closes the relayed one.
- `CallShape`, the conjunction over the requests of `CS(r)`:
  - while the loop runs, the history has one call per finished iteration;
  - `LastAttempt` is what `IsLastIndex` gave at the head of the iteration;
  - only the call at index `Attempts` carries it;
  - a `final` response is the last call and moves the request to the relay;
  - a `final` call exists exactly when `resp` is final, and then
    `err = nil`;
  - once the request is done, the client's status is 200 without a gRPC
    error exactly when such a call exists. `writeError` never writes that
    status, not even for gRPC, where its HTTP status is 200 and
    `Grpc-Status` is set.

A request's `CS(r)` reads only its own variables (lemma `CSFrame`), and a
step of another request leaves them alone (lemma `OtherStepFrame`). So
`NextCallShape` has one case per action of `r` itself. The
`RoundTripReturn` case shares one step about the appended record. TLC
checked both invariants on `handler_safety`, on HTTP with three attempts
and on gRPC with one and two, before they were proved.

`StreamTrackerProofs` proves `TypeCorrect` and `AllClosedFinishesHolds` for the stream path. The argument is that the two
atomic counters count exactly the wrappers registered and the wrappers
whose `Close` did its `AddInt32` (`Counts`). Those adds returned distinct
values `1..closedCount` (`SeenOrder`). So when every body is closed, the
`Close` that did the last add saw the final count. If it saw the count it
loaded (`LastCloserFinishes`), it ran `finishOnce`. `HandlerBodies` ties
the handler goroutine's position to the state of the two bodies, and
`FiresOnce` ties `fires` to `finishOnce`. The step lemma first proves the
Boolean variables' types with Zenon, because SMT cannot conclude
`x \in BOOLEAN` from `x = FALSE`.

`RouterProofs` proves the invariants of `gateway_reload` for every set of
requests, every `NEndpoints >= 1` and every `MaxUpdates`
(`RouterAssumption`), and one action property:

- `TypeCorrect`: `Spec => []TypeOK`;
- `LiveTableOpenHolds`: `Spec => []LiveTableOpen`;
- `FailedUpdateReleasesClientsHolds`: `Spec => []FailedUpdateReleasesClients`;
- `ClosedOnlyWhenRetiredHolds`: `Spec => ClosedOnlyWhenRetired`.

The two invariants are not inductive on their own. A swap makes table `gen`
live, so the proof must know that none of its clients is closed already.
A failure adds `gen` to `failed`, so it must know that every client of `gen`
is still in a pending `closeOnError`. The inductive invariant `IInv` adds
these facts to `TypeOK` and the two properties:

- `GenAhead`: the table being built is above the live one;
- `CreatedStarted`: every client belongs to a table already started;
- `DeferredCurrent`: the pending defers are exactly the clients of the
  update in progress, and none of them is closed;
- `DrainingOld`: only tables older than the live one drain, so
  `SyncClose` never touches the live table or the one being built;
- `FailedOld`: a failed table is never built again.

TLC checked `IInv` as an invariant of the `MCRouter` instance before it
was proved. `NextIInv` has one case per action. The `BuildEndpoint` case
is split again along its four outcomes: a factory failure, a failure after
the client, success, and a `router.Handle` failure. The action property
follows from the step lemma `RetiredCloseStep`, `IInv /\ [Next]_vars =>
[RetiredClose]_vars`. Two facts of `IInv` carry it. `DeferredCurrent` says
the defers a failing `Update` closes all belong to the table it marks
failed. `DrainingOld` says a table `SyncClose` closes is older than the
live one.

`GatewayProofs` proves five theorems for every number of requests,
endpoints and updates:

- `GatewayRefinesRouter`: `GSpec => Spec`. `GInit` implies `Init`, and every
  `GNext` step is a `Router` step or leaves the router's variables alone
  (lemma `GNextRouterStep`). So the `RouterProofs` theorems hold of the
  gateway.
- `RequestsServedByBuiltTableHolds`: `GSpec => []RequestsServedByBuiltTable`.
- `SwapOnlyToBuiltTableHolds`: `GSpec => SwapOnlyToBuiltTable`. It follows
  from the lemma `BuiltSwapStep`: under the invariant, only `UpdateSwap`
  changes the live table.
- `GatewayTypeCorrect` and `GatewayClosedOnlyWhenRetired`: `TypeOK` and
  `ClosedOnlyWhenRetired` for `GSpec`. Both follow from the refinement and
  the `RouterProofs` theorems.

The inductive invariant `GIInv` is `Router`'s `IInv` with three more facts:

- `StartOrder`: no update before `Start`, and no request before `Serve`;
  once serving, the live table is not 0.
- `UpdateSettled`: when no `Update` runs, the last one either swapped its
  table in or failed. This is what lets `Serve` conclude that the live table
  was built.
- `BuiltTables`: the live table and every request's table are built tables,
  no newer than the live one.

`IInv'` is obtained from `NextIInv` through the refinement lemma. TLC checked
`GIInv` on the `gateway_reload` instance before it was proved.

`ChainProofs` proves the two properties of `chain_order` for every set of
namespace names (`NsNames`):

- `ChainFollowsDeclarationHolds`: `Spec => []ChainFollowsDeclaration`;
- `UpstreamOnlyIfAuthorizedHolds`: `Spec => []UpstreamOnlyIfAuthorized`.

The proof runs in three stages.

1. The lemmas compute the tripper. `Chain` writes `buildMiddleware`'s loop
   and the spec's `RegisteredOf` as recursive functions over the number of
   entries done. This keeps TLAPS's SMT backend usable, which RECURSIVE
   operators would not. Each function is unfolded by naming its functional
   (`SelF`, `BMF`), exhibiting a solution for lists of up to two entries
   (`MwLists`), and reading off the value. `WrapStep` shows that one
   iteration either fails the build or prepends the entry when it is
   registered. The failure comes from a failed factory or an already failed
   inner tripper. `Factory`'s `CASE` has overlapping guards, so the lemma
   assumes `badOptions \subseteq Registered`, as `Init` chooses.
   `BuildMiddlewareShape` and `EndpointTripperShape` lift this to the
   whole loop and to the two nested loops of `buildEndpoint`.
2. `InitIInv` and `NextIInv` show the invariant `IInv` is inductive. `IInv`
   adds `PassedSoFar` to the types and to `ChainFollowsDeclaration`:
   `PassedSoFar` says every wrapper a request has left behind passed it,
   and one that went upstream passed them all. `ChainFollowsDeclaration` is
   preserved because no request step changes the lists or the tripper
   (`DeclarationUnchanged`). TLC checked `IInv` on the `chain_order`
   instance before it was proved.
3. `IInvAuthorized` derives `UpstreamOnlyIfAuthorized` from `IInv`:
   - A JWT stage in the chain passed the request, so its header was a valid
     Bearer token.
   - A namespace stage implies the build succeeded, since a failed build has
     no stages. The stage then comes from one of the two lists
     (`RegisteredOfRange`), so the namespace factory did not fail, so
     Middleware accepted the options.
   - `RoundTripNext` shows that, for such options, the RoundTripper passes a
     request on only in the three cases the property names.

Liveness, and anything about `ENABLED`, is out of TLAPS's reach and is not
claimed: `EveryRequestAnswered` is model-checked only. The
properties of the violation runs are model-checked only, and TLC finds each
of them violated. They include every property of `Namespace` and
`ControlService` that a run checks.

## Not modelled

- Liveness of the stream finish. It holds in the model only through
  `DoOnFinish`, whose code is not under `src/`.
- The control service's version exchange (the 304 check and the answer's
  priority configs). The deadlock described above makes it unreachable
  whenever the gateway has a config file.
- The panic barrier.
- The Prometheus observer, beyond the retry events.
- The JWT library's token parsing: a token is valid or not.
- The Consul and etcd constructors. They only decode options and build a
  client, which is modelled as succeeding or failing.
- The circuit breaker's use of its build context. `Gateway` records that a
  failed reload leaves the breaker with the rejected configuration's
  context (`SetBuildContext` runs before `Update`). The `circuitbreaker`
  package is not under `src/`, so what follows from that is not judged.
- The discovery is created once, at start. A reload whose configuration
  names another discovery keeps the first one. `Gateway` models this, but
  no property states whether it should be otherwise.
- The command-line flags and the cobra `main` functions.

`PROJECT.json` lists each of these with its reason.
