# TLA+ models of go-infrastructure

Specifications, model-checking configurations and proofs for the shared runtime
packages of this repository (`pkg/`) and the three services that use them
(`kris-alpha`, `kris-beta`, `kris-gamma`). `PROJECT.json` is the index: runs, mutants,
source map, findings, hazards and theorems.

To check a run: `tlc -config <file>.cfg <MC module>`; to check the proofs
of a component: `tlapm <component>Proofs.tla` (`StartupProofs` for PoolMetrics and
ConfigLoader).

## Inventory

| Component | State | Operations | Interacts with | What is hard | What makes it correct |
|---|---|---|---|---|---|
| `pkg/middleware/ratelimit` | mutex, map key -> limiter, tokens | `Server`, `bucket.allow` | one goroutine per request | map shared by all requests; clock read outside the lock | one limiter per key; a verdict that depends on the key's own history only; quota in every window |
| `pkg/runtime/server` chain, `wrapHandler` | chain order, response | `NewGRPCServer`, `NewBizHTTPServer`, `HandleFunc` | all inbound middlewares, handlers | order of effects, panics, writes after an error | every answer has its cause, is counted once, errors reach the client |
| recovery, access, metric, auth, timeout middlewares | counters, log, channel, contexts | `Server` of each | the chain; `timeout` adds a goroutine | select races, abandoned workers, panics | handlers run only authorised; a timed-out client is answered; workers end |
| `pkg/middleware/retry`, `pkg/client` | attempt, timer, caller's context, options | `Client`, `backoffFor`, `sleepWithCtx`, `New`, `NewHTTP` | circuit breaker, transport | cancellation at any moment, overflow of the shift, options left at zero | every attempt justified, never late, right error |
| `Drainer`, `/readyz`, the mains of kris-alpha and kris-gamma | draining flag, timer, upstream channel | `BeforeStop`, `ReadinessPinger`, `readyHandler`, `client.New` and its cleanup | kratos app, load balancer, gRPC channel | grace period against probes, failing servers, an upstream that comes and goes | out of rotation before the servers stop and while the upstream is gone, back after it; main ends |
| `pkg/config` | process environment | `Load`, `findFile`, `loadDotEnv`, `MustGetSecret` | file tree, environment | layering, empty values, unreadable files | nothing missed, nothing skipped, the deployment's own values stand, a service starts only with a secret some source gives |
| `pkg/data` pools, `pkg/metric` | handles, metrics registry, event counters | `NewMySQL`, `NewRedis`, `NewMongo`, cleanups, `Collect`, the Mongo pool monitor | prometheus registry, `/metrics`, Mongo driver | several pools of one kind or one name, scrape during cleanup, connections that outlive their pool | no leak, no duplicate series, counters balance with the driver |
| `pkg/middleware/logid`, `pkg/trace` | ids in headers and contexts | `Server`, `Client`, `FromContext`, `Init` | tracing middleware, other services | two id systems, partial rollout | a call keeps its caller's id, two calls never share one |
| `pkg/page` | none | `Normalize`, `Offset`, `Limit`, `New`, `Map`, `Empty` | handlers, database, walking clients | integer overflow, rounding, a table that changes during the walk | a walk gives each row once and misses none, a page is the one asked for |
| `pkg/middleware/cors` | none | filter | browsers, caches | preflights, shared caches | foreign pages are shown nothing and get no preflighted write through, Vary keeps responses apart, allowed writes get through |
| `pkg/log`, `pkg/version`, TLS helpers, test helpers, scripts, charts | none of interest | formatting, file reading | | | not modelled |

`PROJECT.json` lists the hazards of this code, each at its line with the properties
that would catch it.

## Modules

**RateLimit** steps each request goroutine through `ratelimit.Server` and
`bucket.allow`: `Lock`, `Lookup`, `Insert`, `Unlock` are the accesses to the shared
map, `ReadClock` and `Admit`/`Reject` are the two halves of `rate.Limiter.Allow`. The
limiter (x/time/rate) is external; its clock may be turned back by a stale reading, so
the history variable `skew` sums the turn-backs and `last + skew` is a monotone limiter
time, in which `Quota` is stated. The limiter adds fractions of a token as a float;
here a tick refills one unit and a token costs `Cost` units.

**Admission** is what the limiter promises, with no mutex, map or bucket in it: a
request that asks is admitted exactly when the admissions of its own key leave room
for one more, and every request gets its verdict. RateLimit instantiates it
(`Promise`, checked as `KeepsPromise`) with a refinement mapping that forgets the
critical section (all of `lock` to `unlock` is `asking`) and reads the abstract
`late` and `admits` off the history variables. Fairness is part of both
specifications, so the refinement includes that no request starves at the mutex.

**RequestChain** is a stack machine: the connection goroutine and the worker of the
timeout middleware walk into a chain of named middlewares, out of it with a code, or
unwind with a panic. The chain is a constant built as the server does
(`DefaultChain \o Extra`), so one module serves the three services and other orders.
The handler may write, return, fail, panic or never return. The rate limiter inside it
is a single counter; RateLimit models it in full. A panic that reaches the base of a
stack ends the process in a gRPC call's goroutine and in timeout's worker; net/http
recovers what reaches the base of an HTTP connection, so `Crash` is not for those.

**GoInt** and **Backoff** hold Go's wrapping integers and `backoffFor` over them.
**Retry** extends Backoff with the loop of `retry.Client`, the context and
`sleepWithCtx`; time passes only while the call is blocked. `conf` is the
`RetryConfig` a client factory was given, `opt` what the middleware makes of it.

**Drain** composes `Drainer`, `readyHandler`, kratos' stop sequence (external), a
load balancer (external) that probes every `Period` and the upstream channel of
`client.New` (the gRPC channel's own transitions are external). A service is a record
of its pingers and its servers: `KrisAlpha`, `KrisGamma`, `KrisGammaAlone` (its upstream
could not be dialled) and `DrainerUsage`, the wiring of the Drainer's comment. kratos'
`Run` waits for its servers and for the goroutine that runs the stop hook, so `Exit`
comes after both. Assumed of what is outside: stopping a server takes no model time
and ends (gRPC's `GracefulStop` waits for the calls in progress, which are taken to end).

**ConfigLoader** follows one key (keys do not interact) through files, layers and
`MustGetSecret`. The search paths are a sequence that may name a directory twice, as
`NewLoader`'s does: the service directory's parent is the project root.
**MCStartup** composes it with PoolMetrics as `docs/secrets.md` writes a boot: `Load`,
`MustGetSecret`, then the constructors, which only a service that started reaches.

**PoolMetrics** runs constructors, cleanups and scrapes of several pools against the
registry (external). Closing may fail in the code; the error is only logged, so the
model closes. The Mongo driver (external) makes, lends and drops connections and tells
the pool monitor, which keeps process-wide counters by label.

**Page** puts `pkg/page` between a client that walks a listing, or asks for any one
page, and a table that others change. The count and the select of the repository's
`List` (external) are two steps, in either order. Integers wrap, as in GoInt.

**Cors** puts the filter between pages of several origins, whose browsers (external)
enforce the headers, a shared cache (external) and the handlers. A policy is any origin
or a set, the guarded methods and headers it lists, and credentials. A write with
guarded methods or headers (not the ones browsers send unasked) is preceded by a
preflight whose approval the browser remembers for a while; a simple write is sent as it
is. The filter stops nobody: a foreign page's simple POST passes it (`cors.go:117`), the
chain runs and the page is not shown the answer. Two kinds of response have no `Vary`,
those made for clients without an Origin and those made for foreign pages; an allowed
page that gets one from the cache is shown an error, which `ReadsDecided` states.

**TraceId** sends calls through a chain of services with OpenTelemetry on or off in
each. kratos' tracing middleware is external: it takes over an incoming traceparent
even without a provider. An outside client may send an id, a traceparent, both or neither.

The other `MC*` modules only give TLC its constants.

## Runs that pass

| Run | Checks | Bounds, and why they suffice |
|---|---|---|
| `ratelimit` | map exclusion, one limiter per key, quota, refusals; refinement of Admission with its liveness | 2 goroutines, 2 keys, 2 requests each, clock to 3, burst 2, cost 2: two goroutines race for one key or use two, and stale readings, full and empty buckets all occur. The theorems lift the invariants to all values. |
| `chain_extras` | authorisation, panics, error bodies, tokens | kris-beta's extras behind both server constructors: 2 requests, each HTTP or gRPC, without a token, with a good one or with one the validator gives nil claims for, a skipped and a guarded route, panics, one token. The other credentials are in `chain_timeout`. |
| `chain_timeout` | final code, cause of answers, accounting with auth and ratelimit inside timeout's worker; requests are answered and workers end | 1 gRPC request with every credential, skipped operations, handlers that fail, hang or panic. Requests meet only at the token count, which starts anywhere between empty and full, and when a panic ends the process. |
| `retry_loop` | result, deadline, documented schedule, panic of `rand.Int63n`, justification of every attempt, termination | limits 0, 2, 3 and 7, deadline 18, five-bit durations with initials to 5 and caps to 8, both also left out (late shifts overflow to zero, to a negative and to a small positive number), a representative of each error class |
| `drain_rotation` | rotation before stop, late probes, rotation after the upstream, end of main | delay 6 > 2 * 2 + 1, clock to 12, 4 channel changes, 4 services: a whole drain after any probe phase, and an upstream that is lost, found and lost again |
| `startup` | layers, the secret decision; leaks, duplicate series, Mongo counters | NewLoader's three search paths, which are two directories, 3 files in each with 5 contents, 3 environments; then 2 SQL pools, 1 Redis pool, 2 Mongo pools under one label, 2 connections and 2 checkouts under it, scrapes at any time. Pools of one kind are symmetric. The pools do not depend on the files, so they are followed in one environment, production's (`Production`). |
| `cors_cache` | foreign pages are shown nothing and get no preflighted write through; what is shown is what the policy decides; allowed writes get through | 2 origins and a client without one, a guarded method and a guarded header, all 64 policies: two allowed pages, or one allowed and one foreign, share the cache |
| `trace_rollout` | ids continuous, distinct | 2 calls, 3 services, all 8 rollouts, every combination of headers from outside |
| `page_walk` | no row twice, none missed, the page asked for | 4-bit integers: tables of 0 to 7 rows, every page number from -1, sizes around every boundary, any number of insertions up to the largest id, 1 deletion |

`CHECK_DEADLOCK FALSE` is set where a behaviour ends: requests, calls and boots
are finite. In `drain_rotation` and `ratelimit` the clock and the number of requests
are bounded (`MaxTime`, `MaxReqs`), in `drain_rotation` also the channel's changes
(`MaxChanges`), in `startup` connections and checkouts (`MaxConns`,
`MaxCheckouts`), in `page_walk` deletions (`MaxDeletes`).

`DrainedBeforeStop` is conditional on `SafeDelay`, the delay being longer than
`Threshold` probe periods plus one probe: the code cannot know the load balancer's
settings, so this is the condition a deployment has to meet. The repository's own chart
does not meet it: `kris-alpha/helm-charts/values.yaml` probes every 5 s and leaves
Kubernetes' threshold of 3 and timeout of 1 s, which asks for more than 16 s, and
`-drain-grace` is 10 s unless it is set.
`Stops` speaks of hooks whose timer fires within the clock's bound: `main` then ends,
with the upstream channel closed unless a server failed (`Fatalf` runs no deferred call).
`WritesGetThrough` is about writes whose methods and headers the policy lists.
`ScheduleKept` and `PanicOnlyWhenTiny` are conditional on options whose product stays
in range (`Fits`): beyond it a wrapped shift can land between zero and the cap.
`WalkComplete` excepts walks during which a row was deleted, because a deletion shifts
later rows to a page the client has already had; `NoRowTwice` has no such exception.
`PageExact` excepts offsets an int64 cannot hold.
`RotationFollowsUpstream` counts an idle channel as usable, as kris-gamma's pinger does:
the next call opens it.

## Disagreements between the code and its comments or docs

Runs with a violation show a line of the repository the code does not keep; the
quotations are under `findings` in `PROJECT.json`.

- `chain_panic_escapes`: a panic under the timeout middleware ends the process
  ("recovery is outermost so panics never escape").
- `pool_named`: a second pool of a kind has no metrics, whatever its name.
- `config_priority`: `.env.global` and `.env.example` win over the service's `.env`, since
  `Load` reads it last and layers only fill what is unset. The package comment
  (`loader.go:4`), the comment of `Load` (`loader.go:47`) and `docs/secrets.md:97` give
  `.env` priority; `TestLoader_GlobalThenServiceOverridesNot` agrees with the code.
  `SecretDecision` says what holds whichever is meant.

Others met while modelling, which have no run of their own:

- `retry.go:10` counts DNS among the errors the default predicate covers.
  `DefaultRetryOn` covers the `*net.OpError` that a dial wraps a failed lookup in, not a
  bare `*net.DNSError` that is no time-out (`"dns"` in Retry). `RetryJustified` allows a
  retry of either;
- `cors.go:55` says browsers reject any origin combined with credentials. They would
  reject `*`, but the code echoes the request's origin (`cors.go:126`), which they accept;
  `TestCORS_WildcardWithCredentialsEchoesOrigin` agrees with the code, and so do the
  properties of Cors, which cover this policy;
- a panicking request has no access line (`CountedOnce` counts it in
  `kris_panics_total` instead), although `docs/observability.md` says one line per RPC;
- `wrapHandler` returns nil whatever a raw HTTP handler wrote, so its 500 is logged as
  ok; `LogsFinalCode` is therefore checked for gRPC only;
- `timeout.Server` reports a client's cancellation as `DEADLINE_EXCEEDED`, and returns
  an error while the handler is still running;
- `WithInitialBackoff(0)` sleeps the maximum; the client factories never pass it on, so
  no call of `retry_loop` meets it;
- `logid.Server` never looks at the span, although `pkg/trace` says it prefers it;
- `page.Offset` overflows for large page numbers although it is "safe to call on an
  un-normalized Param"; the query then fails or returns another page;
- `client/grpc.go:7` says connections fail fast, but `New` dials without blocking, so an
  upstream that is down shows in `/readyz` and not at startup;
- HTTP clients without a forwarding header share the rate limiter's key `global`.

## Fairness

Goroutines are scheduled by the Go runtime: weak fairness of each goroutine's own
steps. `sync.Mutex` hands itself to a waiter that starves, hence strong fairness of
`Lock`. Timers fire and time passes: weak fairness of `DeadlineFires` and `Tick`.
Handlers get none (they may never return), nor do arrivals, cancellations, signals,
server failures or the upstream channel's changes. In `retry_loop` the transport returns, because it is bound to its
context. In `cors_cache` browsers send the preflight and the write of a page that wants
to write, and the server answers; caches need not evict.

## Proofs

Eight modules hold theorems, each about the module whose name it has, and
`StartupProofs` about PoolMetrics and ConfigLoader (`LoadSpec`). A theorem
holds for every value of the constants that satisfies the assumptions named where the
constants are declared; the run of the same property shows it on one instance. Every
inductive invariant was model-checked on that instance before it was proved.

| Module | For every | Theorems (properties) |
|---|---|---|
| `RateLimitProofs` | set of goroutines and keys, cost, burst | `TypeCorrect` (`TypeOK`), `MapIsExclusive` (`MapExclusive`), `LimiterIsUnique` (`OneLimiterPerKey`), `QuotaHolds` (`Quota`), `RejectionHasCause` (`RejectedWithCause`), `ImplementsAdmission` |
| `RequestChainProofs` | set of requests, chain built from the default one and any distinct extras, credentials, outcomes, burst | `TypeCorrect` (`TypeOK`), `Authorised` (`HandlerAuthorised`), `Caused` (`AnswerHasCause`), `Counted` (`CountedOnce`), `AnswerStands`, and under a condition on the chain `PanicsContained` (`PanicsNeverEscape`), `ErrorsReachTheClient` (`ErrorsSurface`), `LogsTheAnswer` (`LogsFinalCode`), `OnlyClearedSpend` (`AnonymousSpendsNothing`) |
| `RetryProofs` | configuration, deadline, integer width, behaviour of the downstream | `Faithful` (`ResultFaithful`), `Punctual` (`NeverLate`), `Justified` (`RetryJustified`), `Scheduled` (`ScheduleKept`), `PanicsOnlyWhenTiny` (`PanicOnlyWhenTiny`), `SecondsFit` |
| `DrainProofs` | delay, probe period and time, threshold, choice of services | `LateRequestsRefused` (`NoLateReady`), `DrainSuffices` (`DrainedBeforeStop`), `RotationTracks` (`RotationFollowsUpstream`) |
| `StartupProofs` | finite set of pools of any kinds and names, bounds on their connections; search paths and contents of files | `NoLeak` (`NothingLeaks`), `SeriesDistinct` (`NoDuplicateSeries`), `CountersExact` (`MongoCountersExact`), `NothingIsMissed` (`NothingMissed`), `SecretDecided` (`SecretDecision`) |
| `TraceIdProofs` | number of calls and services, rollout | `Continuity` (`TraceContinues`), `Distinct` (`CallsDistinct`) |
| `CorsProofs` | set of origins, set of guarded methods and headers, policy | `KeptOut` (`ForeignKeptOut`), `ReadsAreDecided` (`ReadsDecided`) |
| `PageProofs` | integer width, page sizes, clients, inserts and deletes | `NoneTwice` (`NoRowTwice`), `WalksComplete` (`WalkComplete`), `PagesExact` (`PageExact`) |

None of these properties is inductive alone. What each invariant adds:

**RateLimit.** The mutex holder is exactly the goroutine in the critical section
(`Guarded`); between lookup and insert the key has no limiter, and the pointer a
goroutine carries is the map's (`Bound`); the limiter's clock plus `skew` is the time of
the key's last admission (`Accounted`); and a potential argument, that tokens held by a
limiter plus what an admitted window spent never exceed capacity plus the window's
length (`Funded`). `Quota` is the case of the window ending at the last admission; an
admission extends every window by one token paid from the balance, a stale reading
leaves limiter time where it is. `RejectedWithCause` follows from the same invariant: a
refused limiter holds less than one token, which bounds the number and the age of its
admissions.

The refinement needs the other side too: `Tight`, some window reaches the bound of
`Funded`, so a limiter holds exactly what its key's admissions leave. From the two,
`SameVerdict` shows that the limiter grants a token in the state in which `Admission`
has room for one more admission, and `StepImplements` takes the actions one by one: the
steps under the mutex stutter, the clock reading is Admission's `Read`, `Admit` and
`Reject` are its verdicts. `ImplementsAdmission` is
`Spec => Promise!Spec`, both without fairness.

**RequestChain.** The properties speak of answered requests, so the invariant follows a
request to its answer: where its two goroutines can be (`Shape`), what became of the
handler and who carries its outcome (`Outcome`, `Handover`), who was let past auth
(`Clearance`), what is counted at each position of the chain (`Account`), what has been
written (`Response`). Position arguments replace the fixed chain: recovery, access and
metric have the places the default chain gives them, extras come after. Four theorems
have a condition on the constants because they are false without it:
`PanicsContained` and `ErrorsReachTheClient` are about chains without timeout (the first
fails with it, see `chain_panic_escapes`; no service puts timeout before raw HTTP
handlers), `OnlyClearedSpend` about chains with auth before ratelimit. `BetaConditions`
shows that kris-beta's chain satisfies both. `LogsTheAnswer` is about gRPC servers,
since `wrapHandler` hides what a raw handler wrote.

`AnswerStands` is an action property: a step leaves an answered request's code, line,
counts and response as they are. The only goroutine left to such a request is the
worker that timeout gave up on; its stack ends at timeout, behind the places of
recovery, access and metric (`WorkerInside`), so it can reach none of them. What it can
still do is write the response of a raw HTTP request, which the theorem excepts: TLC
finds such a write when a chain with timeout serves HTTP.

**Retry.** `Loop` ties the loop variable to the attempts made and the last answer, for
each place the call can be in; `Timely` says that time stops for
the call at its deadline, when its context is done. How long a backoff is plays no part
in these.

It does in `Scheduled` and `PanicsOnlyWhenTiny`. `Backed` says that a sleep is one that
`BackoffFor` offers and that the panic was met where it offers none; the rest is
`ClampedIsNominal`, that the clamp of `backoffFor` hides every overflow of the shift as
long as `Fits` holds: where `initial * 2^e` does not fit, the wrapped value differs from
it by a multiple of `2^W`, and both are multiples of `2^e`, so it is zero, negative or
at least `2^e`, which is above the cap since `initial * cap` fits. The provers know
nothing of `2^n`; `PowerStep` and `PowerSum` get it from counting subsets and from a least
counterexample (`LeastElement`), for which the library's well-founded minimum, stated with
sets, is enough. `OptionsAssumption` has defaults of at least two units, as the code's
100 ms and 2 s are. `SecondsFit` shows that `Fits` is no empty hypothesis: with int64 and the
code's defaults it holds of every `RetryConfig` of at most three seconds.

**Drain.** After so long, so many probes have failed. `DrainEnds`, `OutageEnds` and
`ReturnEnds` bound, at every moment, when the probe that ends the rotation (or brings it
back) begins: with `f` failures so far the next failing one is followed by
`Threshold - f - 1` more, a `Period` apart. One probe may have read the flag or the
channel before it changed; it began before the change, which is the one probe in
`SafeDelay`.

**PoolMetrics.** The registry does not follow the pools, because a cleanup unregisters
by identity. What holds all the same: a registered collector's pool is up, and a
registry and a scrape hold at most one collector of a kind.

The counters of a label are compared with sums over its pools, which are folds.
`TotalChange` says that a sum changes by what its one changed summand changes by, shown
by induction over the subsets of the pools, hence `IsFiniteSet(Pool)`; with it
`NextExact` goes through the driver's events and the closings one by one. A closed
pool's lent connections come back later, which `lent` and `live` account for separately.

**ConfigLoader.** The key when Load is at layer `k` is a function of the environment and
the files (`After`), so each property is a statement about that function at the end.
Writing it out showed that `NothingMissed` has to speak of directories: with
`NewLoader`'s search paths the project root is there twice, and the file found is in
the first of them.

**TraceId.** `Coherent` says what the headers and the context of a call carry at each
point between two services; `Owned` that a positive id belongs to one call.

**Cors.** `Honest`: what the cache keeps is what the filter would answer again;
`WritesPermitted`: a write on its way that needs a preflight is of a page the policy names. The
assumption `NoHeaderAssumption` keeps the mark of an absent header apart from origins.

**Page.** Ids grow along the table, the select's rows and what the client was given
(`Ascending`); inserts append and deletes only move rows towards the front, so every row
at or after the next offset is new to the client (`Ahead`), which gives `NoRowTwice`
for all changes of the table, also between the two queries. `PageCount` shows that
`New` has pages left exactly while rows are left; hence a walking client's next offset
is at most the count it was given and `Offset` does not wrap (`Bounded`). Without
deletes an id is its row's place, the count and the select are not smaller than the
table at the start, and everything before the offset has been given out (`Plain`).
`WrapFacts` is all the proofs need of the width; `PageAssumption` has page sizes and
clients' numbers within it.

### Checked by TLC only

- Liveness: `TimeoutAnswers`, `WorkerEnds`, `CallReturns`, `Stops`, `WritesGetThrough`
  and the fairness half of `KeepsPromise`. The prover has no rules for fairness
  and `ENABLED`.

Every invariant and every action property that a passing run checks is a theorem.

## Not modelled

- Logging and redaction: formatting over strings; the slog adapter copies its slices
  before it extends them and keeps no other state.
- `defaultKey` of the rate limiter: header and address parsing, abstracted to a set of
  keys.
- `findProjectRoot` and the typed getters of `pkg/config`: the directories and the value
  they end up with are inputs of ConfigLoader.
- TLS files, exporters and spans, listener and endpoint options, `/healthz`, `/version`
  and pprof: I/O or constants with no state of this code.
- A raw HTTP handler under the timeout middleware: no service builds that chain, so no
  run has it; the theorems about every chain include it.
- Charts, scripts, test helpers.

## Plan

1. Done: the core (RateLimit, RequestChain), Retry and Backoff, Drain with the
   upstream channel, ConfigLoader, PoolMetrics with the Mongo pools, Page, Cors, TraceId;
   Admission and its refinement; the theorems above.
2. Further modelling: an abstract request (arrive, decide once, answer once) that
   RequestChain implements, with a proof of the steps on top of its invariant
   (`AnswerStands` is its last part); Cors
   composed in front of RequestChain.
