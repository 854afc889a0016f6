# grpcx: a TLA+ verification project

grpcx is a Go library for services that expose one implementation over gRPC and,
through grpc-gateway, over HTTP/JSON. `server.New` builds both servers, wires the
default interceptors and the gateway's options, and runs and stops the pair. Around
it live small packages: errors and their localization, rate limiting,
authentication, query parsing, a task worker, logging.

This directory holds TLA+ modules that model that code, TLC configurations that
check them on small instances, and TLAPS proofs of their main properties for
every value of the constants. `PROJECT.json` maps each definition to the lines it
models and lists the runs, mutants, hazards, findings and theorems.

    tlc -workers 4 -config lifecycle.cfg MCServerLifecycle
    tlapm ServerLifecycleProofs.tla

## 1. Inventory

| Part | State it keeps | Operations | Hard behaviour | What makes it correct |
|---|---|---|---|---|
| server lifecycle (`server/server.go`, `types.go`, the Serve/Shutdown of `gateway.go`, `grpc.go`) | two servers, two serving goroutines, `errch`, services to close | `Serve`, `Start`, `ServeGateway`, `ServeGRPC`, `Stop`, `ShutdownGateway`, `ShutdownGRPC` | shutdown concurrent with start-up and with requests; a 30 s deadline for one half and none for the other; errors nobody receives | the gateway drains before gRPC goes away; nothing accepted is cut off; every goroutine ends; every shutdown call returns |
| rate limiter (`ratelimit/tokenbucket.go`) | `sync.Map` of entries with a bucket and a `lastSeen`; the cleanup goroutine | `Allow`, `getOrCreate`, `evictStale`, `Stop` | racing first requests; eviction decided before an unlock and done after it; two ready cases in a select | one bucket per key; no more tokens than rate and burst give; stale entries go; cleanup ends |
| rate limit interceptor (`ratelimit/ratelimit.go`) | none | `UnaryServerInterceptor`, key functions | the key depends on what earlier interceptors and the gateway put in the context | one caller, one key |
| errors (`errs`, `grpc/middleware/error.go`, `i18n`, the ErrorHandler of `server/gateway.go`) | `*errs.Error` values, often package-level; translation tables | `New*`, `With*`, `GRPCStatus`, `Localize`, the error wrapper | a shared error written by concurrent requests without a lock | the client gets its own message in its own language; internal text stays inside |
| gateway (`server/gateway.go`, `grpc/gatewayopt`, `grpc/protojson`, `server/middleware.go`) | mux, connection to the gRPC server, response-header handling | header matchers, metadata annotators, response writer, body marshalling | headers crossing two protocols; a panic or a second WriteHeader after the first write | headers arrive where the docs say; one status line per response |
| interceptors (`server/grpc.go`, `grpc/middleware`) | none | timeout, metrics and logging by default; error wrapper, request id, recovery, auth and rate limit as the application lists them | who sees whose error; a handler outliving its timeout | a panic becomes an error; a request has one id; every handler has a deadline |
| auth (`auth`) | claims in the context | JWT and API-key validators, the interceptor, role checks | several values under one metadata key; public routes | no handler runs unauthenticated |
| query (`query`) | none | paging, ordering | `uint32` arithmetic at the boundary | pages read one after the other cover every row once, in order |
| collection (`collection`) | none of its own; slices and sets its callers hold | generic slice, map and set functions | results that share an array with an argument | each equals its reference definition; callers' slices and sets stay as they are |
| worker (`worker`) | asynq server and mux, client, scheduler; tasks in Redis | `Enqueue`, `Schedule`, `Register`, handlers behind the logging middleware, `Start`, `Stop` | at-least-once delivery; crashes between handling and recording; a shutdown that times out | done means handled; the log agrees with the queue; Stop waits; every task is settled |
| logger (`logger`) | handlers with attributes and groups, a mutex each, one file | `New`, `FromContext`, `WithContext`, `WithAttrs`, `WithGroup`, `Handle` | concurrent derivation from one parent; handlers that share the file but no lock | a line has its own logger's attributes; lines do not mix |
| construction (`server.New`, `server/options.go`, metrics of `server/gateway.go`) | the Prometheus registry, a `sync.Once` | options, registration of services, routes and metrics | several `New` in one process, one of which fails or panics | every request is counted where `/metrics` shows it |
| http client (`httpclient`), health, tracing, config, id | configuration | construction and I/O | little of it interleaves | see section 7 |

Interactions. A request to the gateway passes the HTTP middlewares and the mux, is
turned into a gRPC call over the loopback connection that `New` dialled, passes the
interceptor chain, and reaches a service. Its error goes back through the error
wrapper (which reads the request's language from the metadata and the translation
tables of `i18n`) and the gateway's `ErrorHandler`. `Stop` calls `Close` on the
services, then shuts down the gateway, then the gRPC server. A rate limiter is an
object of its own that the interceptor calls and the application stops.

## 2. Modules

| Module | Models | Composes / extends |
|---|---|---|
| `GracefulShutdown` | abstract: what a graceful stop promises | |
| `ServerLifecycle` | serving goroutines, shutdown calls, requests in flight | instantiates `GracefulShutdown` |
| `ServerLifecycleProofs` | theorems about it | extends `ServerLifecycle` |
| `TokenBucket` | `TokenBucketLimiter` | |
| `TokenBucketProofs` | theorems about it | extends `TokenBucket` |
| `ErrorPath` | handler error to HTTP reply | |
| `ErrorPathProofs` | theorems about it | extends `ErrorPath` |
| `RequestPath` | headers to metadata, the interceptor chain, handlers, the way back | |
| `RequestPathProofs` | theorems about it | extends `RequestPath` |
| `HttpReply` | one HTTP exchange: response writers, response options, error handler, recovery | |
| `HttpReplyProofs` | theorems about it | extends `HttpReply` |
| `Query` | paging and ordering, under a client that reads a whole list | |
| `Places` | the elements of a sequence at some of its positions | |
| `Collection` | the functions and sets of `collection`, over arrays that slices share | extends `Places` |
| `CollectionProofs` | theorems about it | extends `Collection` |
| `PrettyHandler` | loggers in contexts, the pretty handler, the file | extends `Places` |
| `Construction` | options and `New`, metrics shared through the once and the registry | |
| `PackagesProofs` | theorems about the other packages | extends `CollectionProofs`, `Query`, `PrettyHandler`, `Construction` |
| `Worker` | clients, scheduler, queue, server and handlers | |
| `WorkerProofs` | theorems about it | extends `Worker` |
| `MCPackages` | `Query`, `Collection`, `PrettyHandler` and `Construction` side by side | extends the four |
| `MC*` | model values and symmetry for TLC | extend the component |

### ServerLifecycle

`entry` says how the application serves: `Serve` (goroutines that send an error on
the two-place channel `errch`; the call returns the first), `Start` (goroutines that log
the error; the call waits for both) or `Split` (`ServeGateway` and `ServeGRPC` from
the application's own goroutines). `go` is where each serving goroutine is: before
its listener, `bound` (gRPC creates its listener before it serves), `serving`,
`failed` with the error still to report, `exited`. Each caller in `Callers` makes
one call of `Shutdowns`; `spc` follows it through Stop's loop over the services
(`CloseService` is one iteration), the begin and the end of the gateway's shutdown,
the begin and the end of the gRPC server's. `expired` is the caller's 30 s context.

net/http and grpc-go are external and appear as guards: `ListenAndServe` returns
`ErrServerClosed` (which `gateway.go` turns into nil) as soon as a shutdown has begun;
`Shutdown` returns when no connection is active or the context is done;
`grpc.Server.Serve` fails on a stopped server and otherwise returns only when
`GracefulStop` is done, which waits for the handlers and takes no context. `Forward` is
the gateway's call over its connection: it waits while the listener is bound but not
served, and fails with Unavailable while nothing listens, the server goes away, or
the connection is in `backoff`; `Redial` ends the back-off.

### GracefulShutdown

Three variables: requests in flight, requests answered, whether a stop is complete. A
request may enter only before the stop completes, leaves only by being answered, and the stop
may complete only with nothing in flight. `ServerLifecycle` maps "complete" to "a
`Stop` returned within its deadline".

### TokenBucket

One action per access to shared memory: `Load`, `LoadOrStore`, `Touch` (the locked
assignment of `lastSeen`), `Take` (`rate.Limiter.Allow`), and on the other side `RangeVisit`
(the locked comparison with the cutoff) and `Delete`, which the code does after unlocking. `made`
keeps the time stamp of an entry built after a miss and stored later. Time is in ticks; buckets
refill on the tick, which equals the lazy refill of x/time/rate for whole tokens. The
ticker's channel holds one tick. `ideal` is a history variable: the tokens of one
never-evicted bucket per key; `lossy` collects the keys whose bucket was deleted when it
was not full or in some goroutine's hands, which is when eviction gives tokens away.

### ErrorPath

Each request has an Accept-Language and returns nil, an `*errs.Error` (its own, named
by the request, or a sentinel shared by all, perhaps after `WithMetadata`, which mutates it), or a gRPC
status. `xErr.Message = localized` is a write of a Go string, two words without a lock, and
`GRPCStatus` reads them the same way; both are modelled word by word, so the reader may see
a mix. The translation tables come from `NewFromFS(dir)`: entries that are no YAML are skipped and the last file of a
language replaces the ones before it; `Lookup` tries the request's language, then the fallback. `Convert` classifies the error and replaces `Internal`, `Unknown` statuses and errors
without a status by the generic one; `ErrorHandler` builds the reply. A
text is abstracted to its language and the request whose metadata it interpolates.

### RequestPath

The configuration (`chain`, `keyFn`, `passed`) is fixed by `New`; `Configs` lists the applications to
check. A request enters by `GatewayCalls`, which turns HTTP headers into metadata as the setters of `gateway.go`
and grpc-gateway do, or by `ClientCalls`. `at` is its place in `ServerOptions`, the default interceptors followed by the
application's; an interceptor calls the next (`CallNext`) or returns an error (`ReturnError`), and on the way
out `Unwrap` is what each does to the result: the error wrapper converts, recovery turns a panic into Internal, the others
pass it on. A panic nobody recovers ends the process (`crashed`). Metadata keys hold sequences, because readers take the
first value (`authorization`, `x-api-key`) or join them all (`x-request-id`). The limiter is a count per key within one
refill period. What a handler does after its role check is arbitrary: success, an error of any class, a panic, or waiting
for its context.

### HttpReply

One exchange, served on one of three routes: `rpc` (grpc-gateway answers a call), `custom` (a route of a service, inside
the middlewares) and `direct` (a ServerHandler, outside them). Between handler and client stand up to four writers, innermost
first: net/http's, which decides what is sent and panics on a status it refuses; the metrics' `responseWriter`; otelhttp's; the
access log's `responseWriter`. Each keeps its own status and flag, and each has its `...WriteHeader` operator on the state of the
whole stack, so that a panic leaves the outer ones half updated, as in the code (`code` is assigned before the inner call,
`written` after it). An `rpc` exchange runs its forward response options in their order (`HTTPResponseModifier`, `Redirect`),
each of which may send the status and may fail; a failure goes to `ErrorHandler`. Other routes call WriteHeader, write and panic
in any order. `Recover` is the deferred function of loggingMiddleware, `AccessLog` its line, `Count` what `wrap` records after
the handler returned, `Abort` a panic nobody recovers, `Finish` net/http's implicit 200.

### Query

The word size is a constant, so that the edge where `(Page - 1) * PageSize` wraps around can be reached; the
default and the largest page are constants too. The database is external: `Select` orders a table of distinct values
(with ties, pages of an offset query may overlap whatever the code does) and cuts out the page; the n-th row is the one
with n - 1 rows before it (`Rank`). A client
asks for page 1, 2, ... with any raw page size and direction until a page is not full.

### Collection

A slice is an array and a length, a set is an object of its own. Every call adds its result to what the callers hold,
so a second call meets the sharing the first has made. The loops are recursive functions over the number of elements seen; the properties compare their results
with definitions by quantifiers over positions. `DeduplicateAndSortSlice` sorts the array it is given, and
`slices.CompactFunc` clears what it drops.

### PrettyHandler

A goroutine starts with the context of another one or with an empty one, derives loggers (`Derive` is what the request id
interceptor does), and logs. `Handle` formats the line first, then takes the handler's mutex, then writes; `os.File.Write`
holds the file's own lock over all the pieces of one call: a head and one piece per attribute, which holds none, one or several
keys. With `LOG_ENCODER=json` the handlers are slog's, which format an
attribute when it is added, under the groups opened so far, and keep the piece (`pre`); the pretty handler keeps the attributes and formats them in `Handle`.

### Construction

`New` step by step: options, services on both servers, metrics under the once, routes. The registry may already hold
an equal collector or a different one under either name. `Request` answers and counts as `wrap` does; where the once has left no
metrics, `wrap` dereferences nil behind the handler and net/http drops the connection (`RequestPanics`). Of the options, the five that
routes and metrics depend on are modelled.

### Worker

asynq (v0.25) and Redis are external, as the package uses them: `Dequeue`, `Settle`, `Retry`, `Recover` and the steps of `Shutdown` are
its processor, forwarder, recoverer and shutdown. `queue` is what Redis holds: a task remembers its state, its failed attempts and what the last
attempt did, logged and was judged as. `runs` are the handler goroutines. `Dequeue` starts one that goes through `LogStarted` at once, then
`ProcessTask` (mux, `json.Unmarshal`, the function) and `LogEnded`; a panic leaves the middleware without its second line. `Verdict` is what asynq
makes of the result: done, failed, skipped (an error that wraps `asynq.SkipRetry`: archived at once) or revoked (`asynq.RevokeTask`: counted as
done).

An attempt can also be given up. Every task has a deadline, its own `Timeout` or `Deadline` option or asynq's default of 30 minutes: `Late` fails the
attempt while the goroutine goes on, `Expired` fails it before the goroutine is started. `ShutdownTimeout` puts unfinished tasks back and leaves their
goroutines running as long as the process lives. `Exit` ends the process, with whatever its goroutines have logged kept in the task, and `Recover`
fails such a task when its lease has expired. A server that lives keeps extending the leases of its tasks. Options set their field to whatever
they are given; asynq turns a concurrency below 1 into the number of CPUs, leaves out queues of weight 0 and serves `default` if none is left.

## 3. Runs

| Run | Checks | Shows |
|---|---|---|
| `lifecycle` | TypeOK, DrainBeforeGrpc, StartReturnsDrained, NoRequestCutOff, ImplementsGracefulShutdown, ShutdownReturns, ServersExit, RequestsAnswered | gateway first, nothing cut off, Start waits, Stop refines the abstract shutdown; no shutdown call, serving goroutine or accepted request hangs |
| `lifecycle_serve_returns` (violation) | ServeReturns | `Serve` blocks for ever after a clean `Stop`: both goroutines end with nil and only a non-nil error is sent |
| `lifecycle_closed_in_use` (violation) | ClosedServiceUnused | `Stop` closes the services before it drains the servers: handlers run on a closed service |
| `bucket` | TypeOK, OverdrawnOnlyByLossyEviction, BucketShared, SweepComplete, CleanupExits | racing calls share one bucket; only a lossy eviction exceeds the limit; a sweep misses nothing; `Stop` ends the cleanup goroutine |
| `bucket_within_rate` (violation) | WithinRate | a bucket found stale, then used, then deleted hands its key a second full burst |
| `errors` | TypeOK, UnsharedErrorIsOwn, InternalsHidden | own message for an error nobody shares; what is internal, unknown or without a status leaves as the generic text |
| `errors_shared` (violation) | LocalizedForRequest | two requests that return one sentinel exchange languages |
| `requests` | TypeOK, HandlerAuthenticated, LimitHolds, QuotaIsTheUsers, FailuresContained, RequestIDAgrees, EveryCallAnswered | who may run a handler and by which credential, who pays for it, what failures show, which id is seen, that every call ends |
| `requests_id_forwarded` (violation) | RequestIDForwarded | the gateway drops the id the interceptor sets |
| `http` | TypeOK, ErrorStatus, RedirectAsAsked, CountedAsSent, LoggedAsSent, PanicAnswered | client, metrics and access log see one status (informational and late ones excepted), also when a handler panics; a panic is answered; errors and redirects go out as asked |
| `packages` | EveryRowOnce, PageAsAsked, ResultAsDocumented, CallersUntouched, LinesWhole, LineAsDerived, RequestsCounted | a paged list is complete; the collection functions do what they say and leave their callers' data alone, but for the one that sorts in place; log lines are whole and have their own attributes; every request of a recording server is answered and counted once, or, after a name clash, none is answered |
| `worker` | DoneMeansHandled, LogAgrees, StopWaits, EveryTaskSettled | done means handled, given up means tried often enough; the log of every attempt, lost ones included, agrees with its function and the queue; only an attempt that was given up runs on after `Stop`; every task of a queue asked for is settled through failures, crashes and shutdowns |

Every property of a passing run has a mutant in `PROJECT.json`: an operator beside the
one it replaces, commented "Mutant:", that changes it as a plausible bug would, and
under which TLC finds the property violated.

Bounds. The lifecycle needs two callers to have two shutdowns interleave, and a gateway
request and a direct RPC to have both servers busy; safety and liveness are checked on that one instance, and the
theorems of section 5 give safety for any number of requests, services and callers. The limiter needs two goroutines to
race on a key, two keys so a sweep visits more than one, and an address more than the keys so that an evicted bucket can
still be held while a new one exists; with a TTL and an interval of one tick, `MaxTime` of two lets an entry be created, go
stale, be evicted and be recreated (the proofs, again, are for all values). `AllowMayStall` is off in `bucket_within_rate` so
that the counterexample is the sweep's alone and not a goroutine descheduled for minutes. Errors need
two requests and one sentinel; the request path needs two calls to meet in the limiter with a burst of one, and its
five configurations have authentication before and after the limiter and recovery inside, outside and absent. `SomeHeaders` has an absent header, a translated and an untranslated language; the
directories are empty, one without a translation in the fallback, and one with two files of a language. The HTTP exchange
has valid statuses, one that net/http refuses (99), an informational one (103) and 101, which is final; three calls by a
handler, enough for a status, a body and one too many, or an informational status, a body and a panic; and six lists of at most two response options, in both orders and with one twice.


In `packages` a word counts to 8, a default page has two rows and the largest three, and lists have up to eight rows, so that full,
short and empty last pages and the wrap of offset and page number all happen; slices have up to three elements of three values, two of which share a
key, and two calls follow each other, enough for one to meet what another has shared; two goroutines derive two loggers each and log one
line, under the pretty and the JSON handler; two goroutines call `New` with six lists of options and nine registries. The worker
has two tasks of three kinds (a fourth cannot be serialized), at most one of each (`MaxCopies`), one retry, one slot, one restart and one
goroutine that has been given up at a time (`MaxOvertime`): a retry, a crash, both time-outs and a goroutine beside its successor all occur. A type
without handler is only in a queue that is not served, since to the queue its error is one like an undecodable payload's; the theorems have
it everywhere.

`CHECK_DEADLOCK FALSE` is set where the system really may stop: a server that has been shut down,
a `Serve` that waits for ever, a clock at its bound, requests all answered, tasks all settled.

Symmetry is used in three safety runs: `bucket_within_rate`, over keys, goroutines and addresses, and `errors` and `errors_shared`, over
requests. The modules distinguish none of them, and no property of these runs names one or is temporal beyond an invariant.

## 4. Fairness

- Serving goroutines, callers inside a shutdown call and accepted requests: weak fairness. The Go
  scheduler runs every runnable goroutine, and the model assumes that handlers and `Close`
  methods return.
- Clients, callers that have not called yet, deadlines and `Redial` get no fairness: nothing
  obliges them.
- Calls: weak fairness for the interceptors and for the passing of a deadline, none for a handler that returns by
  itself, so `EveryCallAnswered` covers a handler that only waits for its context (one that ignores it is out of the
  server's hands).
- Worker: weak fairness for starting the server, for the end of a shutdown, and per task for asynq's processor, forwarder and recoverer
  and for the steps of its handler or the passing of its deadline, so a handler that hangs is given up. `EveryTaskSettled` assumes a server that is up again and again; nobody is obliged to stop or to crash.
- `cleanupLoop`: weak fairness for its sweep, strong fairness for `SelectStop`, because a
  select with several ready cases picks one uniformly at random.

## 5. Proofs

`ServerLifecycleProofs`, for any sets of requests and callers and any number of services:

- `TypeCorrect`, `GatewayDrainsFirst` (DrainBeforeGrpc), `ShutdownCutsNothingOff`
  (NoRequestCutOff), `StartWaitsForRequests` (StartReturnsDrained), `StopIsGraceful` (the
  refinement of `GracefulShutdown`).
- The properties are not inductive: DrainBeforeGrpc says nothing while a shutdown is still
  waiting. The inductive invariant `IInv` adds `CallMatches` (a caller's place agrees with
  its call), `GatewayFirst` (a Stop past the first step of the gateway's shutdown has it down, and past its wait, within the
  deadline, empty), `GrpcDown` (the gRPC server is down only by somebody's call; a drained one is down and runs no
  handler), `RpcPhases` (a direct RPC is never inside the gateway) and `Goroutines` (a gRPC goroutine exits by an error or
  drained; Start returns after both).

`TokenBucketProofs`, for any keys, goroutines, rate, burst, TTL and interval:

- `TypeCorrect`, `NoOverdraw` (OverdrawnOnlyByLossyEviction), `OneBucketPerKey` (BucketShared),
  `SweepLeavesNoneStale` (SweepComplete).
- `IInv` adds `Injective` (two keys never share an entry), `HoldsCurrent` and
  `HoldsNoOther` (whose entry a goroutine in Allow may hold), `IdealMatches` (for a key without lossy
  eviction the bucket holds exactly what the ideal one holds, an absent bucket counting as full) and
  `SweptSoFar` (keys the sweep has passed are not stale, or are about to be touched).

`RequestPathProofs`, for any requests, any inputs and every list of
interceptors, in any order:

- `TypeCorrect`, `FailuresStayInside` (FailuresContained), `HandlersAuthenticated`
  (HandlerAuthenticated), `LimitAlwaysHolds` (LimitHolds), `QuotaAlwaysTheUsers` (QuotaIsTheUsers)
  and `RequestIDsAgree` (RequestIDAgrees): every safety property of the `requests` run, which
  has two requests and five lists.
- The properties speak of handlers that ran or of replies; each invariant says what holds on the
  way there. `Beyond(r, i)` (the request has passed the i-th interceptor) is what
  they share, and `CallNextBeyond` (going on passes only the interceptor one is in) carries it. `AuthInv`: the
  credentials in metadata and context are the request's own, past the auth interceptor
  the context holds what the route asks for and no more, and a handler that ran had passed its own check with that
  identity (`GuardPassed`). `Credential` says which of two credentials it is.
  `FailureInv`: a panic on its way out has met no recovery yet, and a text not meant for clients is still
  inside the wrapper that will hide it. `LimitInv`: the burst is kept per key, and past the limiter a request with a key
  is counted. `IdInv`: where ids come from, and that past the interceptor header and metadata agree.
- `Frame` lets each argument look at one request: a step of one leaves the others alone. Only the
  limiter's count is shared, and `CountOneMore` is the one lemma about cardinalities.

`HttpReplyProofs`, for any set of status codes, any list of response options and any number of calls by a handler:

- `TypeCorrect`, `AlwaysCountedAsSent` (CountedAsSent), `AlwaysLoggedAsSent` (LoggedAsSent), `PanicsAnswered`
  (PanicAnswered), `ErrorsHaveErrorStatus` (ErrorStatus) and `RedirectsAsAsked` (RedirectAsAsked): every invariant of the `http` run.
- The records are compared with what the client got only at the end, so the invariant says how the writers agree on the
  way: `WritersAgree` (a writer that has not passed a status on stands before a fresh or begun one below it; one that has
  kept the status net/http kept; an informational one leaves the metrics' writer closed, which is where the 500 of a recovered panic
  is lost) and `RecordsAgree` (what is logged or counted is the final status). The lemmas go up the stack
  one writer at a time, from net/http's (`NetFacts`) to the access log's (`HeaderAgrees`, `WriteAgrees`).
- ErrorStatus and RedirectAsAsked speak of the end of an exchange whose options have run; `FirstStatus` says that before the first
  option the writers are untouched, so that the status an error or a redirection sets first is the one sent (`FirstSent`),
  and that nothing sent later replaces it.

`ErrorPathProofs`, for any requests, sentinels, languages, directories and status codes:

- `TypeCorrect`, `UnsharedAlwaysOwn` (UnsharedErrorIsOwn) and `InternalsAlwaysHidden` (InternalsHidden).
- The properties speak of replies. `RequestOK` says what holds on the way: where the kind of its error takes a request
  (`KindMatches`); that as long as nobody else has returned its error value, the words it has written and read so far are its own
  (`OwnSoFar`), for which an error value nobody has returned must be as it was made (`Untouched`); and that from the interceptor on a secret
  error is the generic one and every other status is still its own (`Hidden`). `Local` is the frame: a step changes one request and the one error value it has returned.
  That value may be shared, which is why InternalsHidden needs no exclusivity and UnsharedErrorIsOwn does.

`WorkerProofs`, for any number of tasks, retries, slots, crashes and restarts:

- `DoneAlwaysHandled` (DoneMeansHandled), `LogAlwaysAgrees` (LogAgrees), `StopAlwaysWaits` (StopWaits), and
  `SettledTasksStay`: no step changes a task that is completed or archived, although goroutines that handle it may still run.
- The properties look at goroutines and at the last attempt recorded with a task; what is recorded comes from a run. `RunsOK` ties a run's log and
  result to its place in the middleware, `TasksOK` the task's state to its attempts, and `Ties` runs to tasks: a live run's task is
  active and has no other live run, so the result of one that was given up meets a task it no longer owns; only a crash leaves an
  active task without a run (`LeftBehind`). `FreshIsNew` (a pigeonhole argument) gives every run a name of its own.

`PackagesProofs`:

- `RequestsAlwaysCounted` (RequestsCounted), for any number of goroutines in `New`, any options and any registry of the two
  metrics. `OnceOK` says who has the once, what it has registered so far and that every recording server has what the once left;
  `CountsOK` that the registered collector has counted exactly what was answered, and that a connection is dropped only by a server the
  once has left without metrics (`RequestPanicsInv`).
- `LinesAlwaysWhole` (LinesWhole), for any goroutines, attributes and groups. A goroutine whose line is begun holds the file's lock
  and its piece is the last (`HoldsFile`); one that has not begun has nothing in the file (`NotBegun`). The handlers' mutexes, which
  derived loggers do not share, play no part. `DerivingLeavesLoggers`: no derivation changes the attributes of a logger that
  exists, because every array of attributes is written once.
- `EveryRowAlwaysOnce` (EveryRowOnce) and `PagesAlwaysAsAsked` (PageAsAsked), for every word size, page limit and
  table of distinct values. `Before` is a strict total order (`BeforeIsOrder`), so ranks are an injection of 1..Len(t) into itself, hence onto
  (`RankSurjective`), and OrderBy is the table in order (`OrderByProperties`) without any induction. `QueryInv`: a client that has not
  seen the end has received exactly the rows before its next page, all pages full, and its page number has not wrapped. That the list is shorter than
  `Word - 1` is used once, where the page number grows.
- `LinesAlwaysAsDerived` (LineAsDerived), for any goroutines, attributes and groups, however loggers are derived from each other. `MadeOK`
  says of a handler that its three parts are what its derivations make of them: the attributes are those given (`Given`), the groups those
  opened (`AllGroups`), the JSON handler's preformatted pieces those due so far (`Shown`); `WithAdded` and `GroupAdded` say what one derivation
  more does to each. So what is rendered agrees with what is due (`RenderedAsDue`): the JSON handler piece by piece, the pretty handler because its
  i-th attribute is the i-th one given, under all the groups, which are those before it when the groups came first
  (`GroupsComeFirst`) and only change the path and not the key otherwise (`KeysWhateverGroups`). `LinesBegun` is the invariant on the way to the file: what is
  written of a line and what is still in its buffer make up the line due. The property itself is not inductive, since it says nothing of
  the buffer. `TextsLonger` (a piece more in the file is a piece more of its own line, and of no other) carries it through a Write.

`CollectionProofs`, for slices of any length and any sequence of calls:

- `CallersAlwaysUntouched` (CallersUntouched). `CollectionInv` only says that every slice held is of an array there is; the lemmas go by what
  a call does to arrays, slices and sets, and need nothing about what the loops compute.
- `ResultsAlwaysDocumented` (ResultAsDocumented). A loop is a recursive function over the number of elements it has seen. What it
  computes is stated without a loop, as the elements at certain positions (`At` of `Places`: the first of each key, the kept ones, those
  before the reducer stops), and shown equal step by step: `AtAppend` says that one position more, behind the others, is one element more.
  The library's induction theorems take an operator, which the provers cannot instantiate; the induction is made here from a set: the finite
  subsets of Nat are well-founded under inclusion, so a nonempty set of numbers has a least one (`LeastNumber`), and a claim that holds at 0 and is passed on
  holds everywhere, because the numbers where it fails form such a set (`Induction`). Sorting and positions rest on `Places`, that counting
  the elements not behind one numbers a finite ordered set. `ResultsInv` adds to the property that elements, maps and sets have their types, which the
  callers' functions need.

The assumptions are the modules' named ASSUMEs: disjoint sets of identifiers, natural
numbers, a finite set of requests (the limiter counts them), tokens and keys that are what a client sends, the
known names of entries, shutdown calls, interceptors and key functions, callers of `New` that are not the states of the once, a default page
within the largest and tables of distinct rows.

Every invariant and every action property of the passing runs has its theorem. Only model-checked: the liveness properties (ShutdownReturns,
ServersExit, RequestsAnswered, CleanupExits, EveryCallAnswered, EveryTaskSettled), since TLAPS does not do fairness or ENABLED, and the
violations of section 6.

## 6. Findings

1. `Serve` never returns after `Stop` (`lifecycle_serve_returns`).
2. `Stop` closes services under running handlers (`lifecycle_closed_in_use`).
3. The sweep deletes a bucket after unlocking it, so one used in between is replaced by a full one (`bucket_within_rate`).
4. The error wrapper writes the localized message into a possibly shared error (`errors_shared`).
5. The request id set by the interceptor does not pass the gateway's outgoing header matcher (`requests_id_forwarded`).

`PROJECT.json` quotes the document or comment each one disagrees with.

Seen while modelling, without a run of their own: `server/doc.go:22` lists "Automatic X-Http-Code override support", but
`HTTPResponseModifier` is not among the default mux options; the comment at `server/gateway.go:351` says that "cookie-based
sessions take precedence", but grpc-gateway's own copy of the Authorization header comes first in the metadata and the readers
take the first value (`HandlerAuthenticated` states that the header wins); `gateway.go:125` deletes the override header under its canonical key, while
metadata keys are lower-case, so a second `HTTPResponseModifier` sees it again, to no effect, since the first status counts;
`grpc/middleware/doc.go:9-10` says that status errors are "forwarded as-is" and unhandled ones "mapped to Internal with the original logged", but
`error.go` replaces a status `Internal` (line 116) and does not treat a status `Unknown` as one (line 96), the generic error's code is `Unknown` (line 79), and with the debugger the
original goes into the details instead of the log (`InternalsHidden` states what the code does); the package comment of `collection` says its functions are pure, but `DeduplicateAndSortSlice` sorts its argument in place
(`CallersUntouched` names it); `worker/server.go:111` says Stop waits "for in-flight tasks to finish", which asynq does until its shutdown timeout or the task's
own deadline (`StopWaits` names both);
`WithGroup` of the pretty handler also qualifies the attributes added before it, which slog's contract does not; a configured time
zone the scheduler cannot load is silently replaced by UTC.

## 7. Abstractions and what is left out

- The operations of `sync.Map` and `rate.Limiter.Allow` are atomic, as their packages promise.
- Listener addresses, TLS, logging, formatting and the wording of messages are left out.
- An informational status (1xx) sent by a handler is forwarded by net/http and recorded by the writers as if it were
  final; `CountedAsSent` and `LoggedAsSent` leave out handlers that send one. A status set after the body has begun is
  left out too: for the log always, for the count only outside the middlewares (inside, otelhttp's writer stops it).
  `PanicAnswered` has the same case as a branch: a handler that sends 103 and then panics is answered 200 when metrics are
  recorded, because their writer takes no second status and recovery's 500 is lost.
- `grpc.SetHeader` is taken to succeed in the request id interceptor; where it fails the code logs and goes on (`requestid.go:54-56`).
- `ResultAsDocumented` has no clause for the functions of `collection` that are one expression. `EveryRowOnce` and `PageAsAsked` are
  about offsets that fit the word. `InternalsHidden` claims nothing of an `*errs.Error` of code Unknown, whose text is sent.
- Panics in handlers are outside `ServerLifecycle` (the recovery interceptor turns them into errors).
- `Query` orders distinct values; `Collection` passes fixed functions for `keep`, `mapper` and `reducer`; a group inside a group of
  `PrettyHandler` repeats what one group does; in `Worker` a task type either has a handler or not (asynq's mux also matches prefixes).
- A second `Stop` of the worker's server returns at once, without waiting: asynq's Shutdown does nothing on a closed server.
- Options of `server.New` that set addresses, CORS, the HTTP server's configuration, stream interceptors or what payload logging
  shows are left out.
- Not modelled: health, tracing, configuration loading, CORS, nanoid, the HTTP client (options handed to a library, applied in
  order), protojson and the redaction of logged payloads (conversions by protobuf's reflection), the PATCH field mask (a pure rewriting of one
  request's query). They keep no state and have no control flow beyond an early return.

## 8. Plan

Done: every module of section 2, and a theorem for every safety property of the passing runs.

Next, in this order:

1. `ServerLifecycle`: action properties (a server that is down stays down; a request answered stays answered).
2. `RequestPath`: the ids and the method header of the HTTP middlewares.
