# Orionis: TLA+ models and proofs

Orionis (`src/`) is a Go library and server for service-to-service
authentication: an authorization server that issues short-lived Ed25519-signed
JWTs for the OAuth2 client-credentials grant, a client that obtains and caches
such tokens, and a resource-server side that verifies them locally against a
cached JWKS document. This directory holds TLA+ modules of the parts whose
behaviour is hard to test, the TLC configurations that check small instances of
them, and theorems that the TLA+ proof system checks for every instance.

## 1. Inventory

| Component | State | Operations | Hard behaviour | What makes it correct |
|---|---|---|---|---|
| Client token provider (`client/cache.go`, `provider.go`, `token_http.go`) | `cache`, `inflight`, one `inflightCall` per running acquisition | `TokenResponse` by many goroutines; a `runCall` goroutine per acquisition | joining, cancelling, abandoning and succeeding calls in any order; lifetimes near the skew; overflow of `time.Duration` | one live request per key, nobody orphaned, nobody sees a foreign cancellation, no expired token served, canceled callers return |
| Remote JWKS provider (`jwk/remote.go`) | decoded `keys`, `fetchedAt`, `expiresAt`, `generation`, `refreshVersion`, outcome of the last refresh, the gate | `Key`, `Refresh` | a snapshot taken before the gate and compared after it; a canceled gate holder; failing GETs; rotation during a GET | one GET per snapshot, key sets in order, stale keys only within `maxStale`, errors not shared wrongly |
| Scope language (`scopes.go`, `server/scopes.go`, `claims.go`) | none | covering, validation, resolution | wildcards against wildcards, empty segments | covering is containment |
| Token service and client store (`server/token_service.go`, `http.go`, `store.go`, `client.go`) | the map of clients | `TokenHTTP` by many handlers, `Upsert` | a record replaced while a request is served; order of checks | a token stays within one record's policy and holds concrete scopes |
| Server configuration and key rotation (`server/config.go`, `docs/architecture.md`) | signers, active signer, per replica | restarts with T0..T3, JWKS responses | replicas at different steps, HTTP caches, verifier caches, clock skew | no live token refused; a withdrawn key dies |
| Signing keys (`jwk/ed25519.go`) | the key file | validate, load, generate, write | crashes between truncation and write, two first starts | one key for the life of the file |
| Verifier (`verifier.go`) | none of its own | `Verify` | kid lookup through the JWKS cache, leeway | as for rotation |
| Gin middleware (`ginorion/`) | none after `Build` | `Handler`, `Require` | order of checks, which scopes a route ends up with, skewed clocks | who is let through was allowed to call not long ago; a fresh token is not refused |
| Rate limiter (`internal/authapp/ratelimit.go`) | `windows`, `nextSweep` | `allow` by many handlers | clock readings and lock acquisitions in different orders; one sweep schedule for all endpoints | running windows kept, bursts bounded, Retry-After sufficient, windows evicted |
| Runtime configuration and start (`internal/authapp/config.go`, `runtime_config.go`, `app.go`, `signing.go`) | the configuration, presence flags, loaded signers | load, compile, compile again, load signers, build | three packages validate the same facts; key files change meanwhile | compiling is idempotent, validation complete, one active key |
| Server process (`cmd/orionis-auth`) | two goroutines, an error channel | parse the command line, start, listen to signals, serve, signal, shutdown with deadline | signal during the start, signal and failure together, hanging handlers | the process ends, with success only after a complete shutdown or when help was asked for |
| Mounting of the auth routes (`ginorion/routes.go`) | the routes and middlewares of the gin engine | the setters, `Mount` on an engine or a group, the application's own registrations | every order of registration; a matcher beside gin's own; conflicts that are recovered | the readiness route takes nothing from anybody and is there when nobody else answers |
| JWK decoding and static keys (`jwk/key.go`, `decode.go`, `static.go`) | decoded documents | `decodeSet`, `forAlgorithm` | one bad key rejects a whole document; duplicate kids; declared algorithms | every document that a server publishes decodes |
| YAML/JSON/AWS sources, audit log, examples, builders' setters | none or immutable | pure functions, I/O | none of the above | not modelled |

Interactions. A client goroutine calls `TokenResponse`, which sends a POST to the
token endpoint; behind the rate limiter the token service reads the client
store and signs with the active signer. The resource server's middleware calls
`Verify`, which asks `RemoteProvider.Key` for the kid of the token; that sends a
GET to the JWKS endpoint of some replica, possibly through an HTTP cache. The
server process compiles its configuration, loads or creates its key files,
builds the server and serves until a signal.

`PROJECT.json` lists every component with its status, and under `hazards` what
can go wrong at which line and which property would notice.

## 2. Modules

| Module | Models | Notes |
|---|---|---|
| `TokenRequests` | what a request to the token endpoint is and how it can end | shared by the next two |
| `TokenSource` | abstract: callers, and acquisitions that they share | the specification `TokenCache` implements |
| `TokenCache` | `client/cache.go` and the functions around it | proved about in `TokenCacheProofs`, the refinement too |
| `Keys` | `jwk/key.go`, `decode.go`, and `PublicJWK` | operators only |
| `RemoteProvider` | `jwk/remote.go` | extends `Keys`, proved about in `RemoteProviderProofs` |
| `RateLimiter` | `internal/authapp/ratelimit.go` | proved about in `RateLimiterProofs` |
| `Scopes` | the scope functions of three packages | operators only |
| `ScopeMeaning` | a reference definition of covering | extends `TokenService`, proved about in `EndToEndProofs` |
| `ClientRecords` | `server/client.go`: normalisation, validation, secrets | operators only, extends `Scopes` |
| `Issuance` | abstract: requests that are decided in one instant by one record | the specification `TokenService` implements |
| `TokenService` | the token endpoint and the client store | extends `ClientRecords`, proved about in `EndToEndProofs` |
| `Guard` | `Verify`, the gin middleware and its builder | operators only, extends `Scopes` |
| `EndToEnd` | token cache, token endpoint, client store and guards | composes `TokenService` and `Guard`, proved about in `EndToEndProofs` |
| `KeyRotation` | replicas, HTTP cache and verifiers during a rotation | composes server, JWKS cache and verifier, proved about in `KeyRotationProofs` |
| `KeyFile` | the start of processes that share a key file | proved about in `KeyFileProofs` |
| `Startup` | configuration and start of one process, and the JWKS document it publishes | extends `Keys` |
| `ServeHTTP` | `serveHTTPServer` and the goroutine it starts | |
| `Process` | `main` and `run` | composes `Startup` and `ServeHTTP`, proved about in `ProcessProofs` |
| `Routes` | `ginorion/routes.go` beside an application's routes | gin's tree of routes is external; proved about in `RoutesProofs` |
| `MC...` | instances of the above for TLC | |

Conventions. A definition named after a Go function models that function; a
definition preceded by "Mutant:" is a plausible bug of the definition that
follows it and is used by no specification. Clocks are integers; a blocked
goroutine is one whose actions are disabled; a `select` is a set of actions any
enabled one of which may be taken. Variables marked "history" in a module are
read by properties only.

### TokenCache

`cache`, `inflight` and `calls` are the maps of `Provider` and the objects they
point to. One action is one critical section of `p.mu`, one `select`, or one step
without the lock between two of those: `Lookup` (target, cacheKey and `cached`),
`CheckContext`, `JoinOrStartCall`, `WaitDone`/`WaitCanceled` (the two arms of
`waitForCall`), `ReleaseWaiter`, `RequestToken` (the HTTP exchange) and
`FinishCall` (the critical section of `runCall`, `close(done)` included). Call
objects are addresses that are reused only when nothing points to them, so an
abandoned request and its successor coexist. `FreshAt` computes with wrapping
machine words (`Wrap`), because `expires_in * time.Second` may overflow. The
decoded answer of the token endpoint is well formed or not and carries one of
`ExpiresIns`. `Canceled` is the error of a context that was canceled; a timeout
of the `http.Client` itself is a failed request, which waiters share by design.

`TokenSource` says what this amounts to: a caller asks for a target, and an
acquisition, started by one caller and shared by those who ask while it runs,
ends with one result for all of them; a caller may give up, and an acquisition
that everybody gave up is canceled. It knows no counter, no table entry to
remove and no critical section; `ImplementsTokenSource` maps the variables of
`TokenCache` to it.

### Keys and RemoteProvider

A key of a JWKS document is a record of its declared fields; octets are their
number and the number they spell. `decodeSet` accepts or refuses the document
as a whole. `gate` is the token in `refreshGate`. A `Key` is `BeginKey` (the first
snapshot), `LockFails` or `LockRefresh` (the gate, and what `refreshIfUnchanged`
decides there), `GetReply` and `Store` (the GET, `decodeSet` and `refreshLocked`)
and `Recheck` (the second snapshot). `WhyGet` names the reasons for which
`refreshIfUnchanged` sends a GET. A key set is a position in the sequence of
documents that the server publishes, so "older" and "newer" make sense.

### RateLimiter

`ReadClock` and `Allow` are the two halves of `allow`: `now()` is read before the
mutex is taken, so `stamp` may be older than the stamps other requests used.
`maxDelay` is a property of the run: how long a request may wait for the lock.
`recent` keeps the requests of a key that were admitted within a window's length of
now. `BurstBounded` is what a caller may rely on: less than twice the limit in any
such span if nobody waits, and less than three times the limit as long as no wait is
longer than half a window. A request that waits starts a window that is partly over
already, so that a span can meet three of them; with longer waits it can meet more.

### Scopes and TokenService

A scope is a sequence of segments; lists that went through `NormalizeScopes` are
sets. Records are normalised as `Upsert` does, and need not pass `Validate`.
`TokenService` lets `Upsert` replace records at any time; a handler reads the store
once (`FindClient`) and decides on that copy (`Issue`). A record holds secrets in
plain text and digests of secrets, and `VerifySecret` accepts either.

`Issuance` is the policy without the program: a request is decided at one
instant, while one record of its client is in the store, by quantified
conditions on what is due, wanted and allowed; nothing is expanded, resolved or
copied. `ImplementsIssuance` maps a handler that holds a copy of a record to a
request that has been decided and not yet answered.

### Guard and EndToEnd

`Outcome` is the middleware of a route: `BearerToken`, then `Verifies` (all checks of
`Verify`, with signatures abstracted to the kid), then `HasAllScopes` of the
scopes that `newGuard`, `Build` and `Require` chose. In `EndToEnd` the actions of
`TokenService` serve the requests of one client's cache: `Ask` is
`joinOrStartCall` (one call per target, which `TokenCache` shows for any number of
callers), `Serve` is `FindClient`, `StoreFails` or `Issue`, `Deliver` is the end of `runCall`. `Send`
is `RoundTrip` with a cached token, `Arrive` the guard's decision, on a clock
that may be off by the leeway. The client's clock needs no offset: it is only
compared with itself. Ticks are half seconds, because `NumericDate` and
`expires_in` round down.

### KeyRotation

Replicas are restarted one step at a time; when `planned`, the operator waits at
T2 for "max token TTL + clock skew", as `docs/architecture.md` says, and at T1 for
the `max-age` of cached JWKS responses, which the document does not name but
`NoOutage` needs (section 6). The JWKS cache of a verifier is the
sequential behaviour of `RemoteProvider`. Verifier clocks differ from the
issuer's by up to the leeway.

### KeyFile, Startup, ServeHTTP and Process

`KeyFile` has one action per system call that matters: `os.WriteFile` is `Open`
(which truncates) and `Write`, with `Crash` possible between any two steps.
`Startup` follows one start from the decoded file to a serving or failed server;
string trimming and duration parsing are constants, of which
`StringsAssumption` says what is used of them, and `JWKS` is the document
that `JWKSHTTP` answers with. The issuer is trimmed by a constant of its own,
`TrimIssuer`, which is not idempotent: white space is removed first and slashes
then, so white space between slashes survives one trimming (section 6). `ServeHTTP` has one action per channel operation,
and `net/http` behind `Listen`, `ServeFails`, `ServeCloses`, `Request`, `Answer`.
`Process` puts them one after the other, behind the command line (`ParseFlags`: `-h`
ends the process with success before anything is loaded, a wrong argument with an
error), with the window in which a signal still has its default action: until
`signal.NotifyContext` is called.

### Routes

A path is the sequence of its segments, and in a pattern a catch-all is the last
(`Path`, `Pattern`; gin panics otherwise). `Conflicts`, `Serving` and `Answer` are what
the tests of `ginorion` and gin's documentation say of its routes: two routes
conflict when they part ways at two wildcards or at a catch-all, a static segment
comes before a parameter, a path that differs in its trailing slash is
redirected, and the engine's middlewares run for unmatched requests too.
`ginRouteCovers` is translated from the code, as the loop it is, and compared with
`Serving` by the properties. `Mount` is one call with all its registrations; a panic
ends the program, so what a mount that panicked has left is not looked at.

## 3. What TLC checks

| Run | Properties | Instance, and why it suffices |
|---|---|---|
| `token_cache` | `WaitersCounted` `NoOrphanedWaiter` `SingleFlight` `ServedBeforeExpiry` `ImplementsTokenSource` | three goroutines and two call objects: one call that is abandoned, its successor, and a waiter for either; a lifetime that wraps to two ticks on a clock that reaches its end |
| `token_cache_live` | `CanceledCallerReturns` `AbandonedCallEnds` `EveryCallerReturns` | two goroutines; the provider has no audience of its own, so a request may be refused |
| `remote_provider` | `NoForeignCancellation` `SuccessMeansNewKeys` `OneGetPerSnapshot` `KeySetsInOrder` `ServedKeyJustified` `CanceledCallerReturns` `EveryCallerReturns` | two goroutines, one at the gate behind the other; an Ed25519 document, one with a bad key, one with an RSA key; a clock that passes the refresh interval and the stale window. The safety properties are proved for any number of goroutines |
| `remote_provider_not_found` | `NotFoundAfterGet` (violated) | see section 6 |
| `rate_limiter` | `BurstBounded` `LiveWindowKept` `RetryAfterSuffices` `EvictedInTime` | two handlers, two endpoints, a window shorter and one longer than the sweep interval, two ticks a second |
| `token_service` | `IssuedWithinPolicy` `DefaultsHonoured` `CoversIsContainment` `ImplementsIssuance` | one handler, as handlers share only the store that `Upsert` changes at any time; records that differ in each field, some that no validation would accept. `CoversIsContainment` is about `Scopes` alone and evaluated in the initial state: all pairs of scopes of up to three segments over an empty, two plain, both wildcard and one malformed segment |
| `end_to_end` | `AdmittedWasAllowed` `FreshTokenAdmitted` | one client, two records and a disabled one, two `Upsert`s; a lifetime of three seconds, a leeway and a delay of one tick; five routes: both ends of the leeway, a foreign audience, a verifier without checks, none. The hypothesis of `FreshTokenAdmitted` is tight: with a refresh skew one tick smaller a fresh token can be refused |
| `key_rotation` | `NoOutage` `WithdrawnKeyDies` | two replicas, two verifiers at the two ends of the leeway, planned and unplanned |
| `key_file` | `OneKeyServed` `SettledForGood` | three processes, three keys |
| `process` | `CompilesAgain` `ValidatedStarts` `ActiveKeyAgreed` `PublishedKeysUsable` `ServesUsableConfig` `CleanExit` `SignalEndsProcess` `ServingGoroutineEnds` | every signing section of up to two keys with good values elsewhere and every class of every other field, and every outcome of the command line, from there to the end of the process; one request in flight, since only whether one is matters |
| `routes` | `DefaultReadinessYields` `EngineRoutesKept` `ReadinessAnswered` | every order of four registrations and mounts; patterns with a parameter, two names for it, a catch-all, a static tail behind a parameter, and a trailing slash, all around the ready paths; two mounts that can stand side by side |
| `routes_group` | `GroupRoutesKept` (violated) | see section 6 |

Every property has a mutant in `PROJECT.json`: a bug in a mapped definition that
the property notices under the run's own configuration.

Bounds. `MaxNow` bounds the clocks, `MaxRefreshes` the GETs (operations that have
begun are never stopped by it), `MaxCount` the requests of a window, `MaxTokens`
the tokens in use, `MaxWire` the requests on their way, `MaxUpserts` the changes of
the store, `MaxRequests` the requests in flight, `MaxCalls` the registrations;
`Calls` and `Keys` are finite heaps. Deadlock is checked in `TokenCache`, where every waiting goroutine
must be able to go on, and in `TokenService`; in the other runs the bounded clock or the end of
the process stops the system, and the configuration says `CHECK_DEADLOCK FALSE`.

Fairness. Goroutines keep running: weak fairness of each goroutine's own steps.
Strong fairness is assumed in two places: for `JoinOrStartCall`, where it stands
for a heap that never runs out of call objects, and for `LockRefresh`, since Go
serves the senders blocked on a channel in order. A request whose context is
canceled returns, as `net/http` guarantees. That other requests return
(`NetworkFairness`: the default clients have timeouts of their own) is a
hypothesis of `EveryCallerReturns` and of nothing else. In `Process` both
goroutines of the serving phase run and the shutdown timer fires, which is weak
fairness of `Serving` and of `Main`; handlers may hang, and nothing is assumed of
the start. `RemoteProvider` states the same hypotheses for its gate and its GETs.

## 4. What is proved

`TokenCacheProofs`, for every finite set of goroutines, every set of call objects
and requests, every lifetime, skew, word size and clock:

* `WaitersCorrect`, `NoOrphans`, `OneAcquisition` (the safety invariants of
  `token_cache`), `OwnCancellation` (no goroutine sees another one's
  cancellation), `AbandonedHarmless` and `FreshServed` (action properties), and
  `TypeCorrect`.
* The inductive invariant `IInv` adds to the five invariants what makes them inductive:
  what a call object looks like once it is not published (completed or
  abandoned, or free), that waiters' calls carry their key, and that a
  canceled result belongs to an abandoned call. Without the
  equation between the counter and the cardinality of the joiners,
  `ReleaseWaiter` could abandon a call another goroutine waits for. Its step is one lemma per
  action.
* `FreshServed` rests on `TokensStamped` (a cached token was stamped with its
  own lifetime at some time not after now) and on `FreshIsAlive`, the arithmetic
  of `freshAt` with wrapped durations.

Also there: `CacheIsTokenSource`, the refinement of `TokenSource`. Each action
of the cache is shown to be a step of the source or a stutter under `IInv`; the
invariant is needed where the counter decides (`ReleaseWaiter` cancels for the
source exactly when nobody else waits).

`RemoteProviderProofs`, for any callers, documents, intervals and clocks:
`CancellationOwned`, `SuccessIsNew`, `OneGet`, `InOrder`, `KeyJustified` and
`TypeCorrect`. The invariant relates every caller's snapshot of `generation` and
`refreshVersion` to the present ones, says that only the holder of the gate has a
GET or a reply, and that a reply is no older than the key set in use.
Two more theorems say without fairness what progress rests on. `GateIsReturned`:
whoever waits at `refreshGate` is canceled, finds it free, or waits for a goroutine
whose GET is pending or about to be stored, so nobody who is done keeps it.
`OperationsEnd`: every step of `Key` and `Refresh` leaves the operation fewer steps,
at most four in all. They are the part of this module's `CanceledCallerReturns` and
`EveryCallerReturns` that does not need fairness.

`RateLimiterProofs`, for every limit, window, sweep interval and delay:
`TypeCorrect`; `WindowsKept`, from the fact that every stamp is in the past, so no
request is ahead of the clock that judges the window; `RetryAfterCorrect`,
from `RoundUp`, the arithmetic of rounding to seconds; and, when no delay exceeds
a window, `StaleWindowsEvicted`. Its invariant `SweptInTime` says that no stored
window ended more than an interval before the next sweep; a request that is later
than its window is long stores a window that is over already, hence the hypothesis.
`BurstsBounded` (`BurstBounded`) counts without looking at the order of admissions:
the requests of the last window's length are the union of three sets (`Cohorts`),
those admitted by the window stored last, by the one before it, and by the one before
that. The first two hold at most the limit each, and the third less, since the request
that started that window has left the span; windows of undelayed requests are a
full length apart, so that then there are only two.

`EndToEndProofs`, of the token service, for every set of handlers, client records, requests and
route scopes: `TokensWithinPolicy`, `TokensConcrete`, `RequestsHonoured` and
`SecretFirst` (the first an invariant of `token_service`, the others what its
refinement rests on), and `TypeCorrect`.

* None of the four is inductive: a token says nothing of the record it came from,
  and the store may have changed since. `AnswerJustified` records that an answer
  is what `Decide` makes of one record the store held during the request;
  `ClientSeen`, that the copy a handler holds is such a record. The four follow
  from `AnswerJustified` by facts about scopes alone.
* Those facts are `Resolved` (what `resolveRequestedScopes` returns is concrete,
  covered by the policy and by the request, and passes over nothing) and
  `ConcreteCoversItself` (a concrete scope covers only itself, so a route whose
  scope a token covers is one the policy covers).
* `DefaultsIssued`: a client whose records pass `Validate` is never refused for its
  default scopes, since validated defaults are concrete and covered.
* `HandlersIssue`, the refinement of `Issuance`: `FindClient` is the instant of the
  decision, and `resolveRequestedScopes` finds exactly what the policy's quantifiers
  say.

`EndToEndProofs`, of the calls, for every set of handlers, targets, routes, records, every
lifetime, refresh skew, leeway, clock skew, delay and unit of the clock:
`NarrowingTakesEffect` (`AdmittedWasAllowed`) and `FreshIsAdmitted`
(`FreshTokenAdmitted`).

* The inductive invariant follows a token from the record that justified it: what a
  handler holds, what it has answered, what the cache keeps, what is on its way
  to a guard and what the guard said, each with the instant it was signed and a
  record that was in the store no longer before that than the handler's delay.
  `StoredSince` survives every step, since a record that leaves the store is stamped
  (`left`) with a time no earlier than any the invariant speaks of.
* The rest is the arithmetic of rounding (`RoundedDown`) and the scope lemmas of
  the token service.

`EndToEndProofs`, of scopes of any segments and any length: `CoveringIsContainment`
(`CoversIsContainment`).

* `PatternMeaning`: what `Meaning` says with subsequences is what `UnderPrefix` says
  segment by segment.
* A concrete scope is covered exactly when it is meant (`ConcreteCovered`). A pattern
  covers only what it contains by the order of prefixes; the converse, that containment
  is enough (`PatternCovered`), is shown by `Instances`: a concrete segment in the place
  of the asterisk gives a scope that the pattern stands for, and so does one segment
  more for `**`.
* Two plain segments must exist (`MeaningAssumption`). Were there one only, `p.*`
  would stand for nothing but `p.a`, which does not cover it.

`KeyRotationProofs`, for any number of replicas and verifiers, all lifetimes, refresh
intervals, stale windows, ages of cached responses, and clocks that differ by up to
the leeway: `RotationInvisible` (`NoOutage`) and `WithdrawalWorks`
(`WithdrawnKeyDies`). `InStep` is what a planned rotation maintains: a copy in the
HTTP cache without the new key dates from before all replicas reached
T1, hence unusable when the first reaches T2; and the old key's tokens were all
issued before all replicas reached T2, hence dead when the first reaches T3.
`Withdrawn` is its counterpart for withdrawals without waiting.

`KeyFileProofs`, for every set of processes and keys: `OneKey`, `KeySettles` and
`TypeCorrect`. `OneKeyServed` becomes inductive with `WritesFirstKey`: among starts
one at a time a process that is about to write found no file, so nobody has
served yet.

`ProcessProofs`, for every set of configurations and key files, any number of keys,
clients and requests in flight: `CompilingIsStable` (`CompilesAgain`),
`ValidationIsComplete` (`ValidatedStarts`), `OneActiveKey` (`ActiveKeyAgreed`),
`PublishedKeysDecode` (`PublishedKeysUsable`), `UsableConfig` (`ServesUsableConfig`)
and `SuccessIsClean` (`CleanExit`).

* The first five follow from one invariant, `StartInv`: the configuration in use is
  what compiling the file gave and was accepted (`Accepted`); an undisturbed key file
  of a key still to be loaded is a key or missing, and of a loaded one a key
  (`Materials`); and the signers are those of the first keys (`Loaded`). What fails in
  the phase of the signers or of the server was then disturbed, or has an issuer of
  which the server's trimming leaves nothing.
* That compiling is stable rests on `CheckedAgain` and `SameRateLimit`: of a
  normalised configuration, normalising changes nothing but the issuer, and the
  flags that were lost only mattered for fields that now have a value.
* `SuccessIsClean` has an invariant of its own, `ExitInv`: nothing of the start moves
  unless the command line was parsed, and nothing of the server until the process
  listens to signals. It ties the error channel
  to what the serving goroutine has ended with and to the listener: the `nil` result
  needs an error `closed` that was taken from the channel after `Shutdown` had waited
  for every request.

`RoutesProofs`, for any routes of the application, any setters and requests, and any
number of registrations and mounts: `EngineKeepsRoutes` (`EngineRoutesKept`, an action
property), `DefaultYields` (`DefaultReadinessYields`) and `ReadinessIsAnswered`
(`ReadinessAnswered`).

* `CoversMatches`: `ginRouteCovers`, the loop, finds a route exactly when gin would
  serve the target by it. With `StaticRegistrable` (a static path that no route covers
  has no conflict) the readiness route is given up on an engine only for a route that
  answers in its place, and takes nothing when it is registered.
* Of two routes without a conflict that serve the same request one comes before the
  other (`OneIsBefore`), and coming before is transitive (`BeforeIsOrder`). So some
  route that matches is beaten by none, which `SomethingServes` shows by the number of
  routes before a route instead of by induction over the tree.
* `RoutesInv`: the tree holds patterns without conflicts, every readiness path mounted on
  an engine is in the tree or among the fallbacks, and without an explicit mount the
  tree differs from the one without readiness only in the middlewares its routes use.

The assumptions are the named `ASSUME`s of the modules: the caller set is finite,
`NoCall` is not a call, the constants are in their ranges, which the code's
normalisation of configurations guarantees; requests hold no blank scope, since
`NormalizeScopes` drops blanks (records may: `Normalize` is modelled), and no
client has the empty id; in `EndToEnd`, clocks agree up to the leeway, guards
require no blank scope (`newGuard`), and the client's requests are among those the
endpoint is modelled for. In `Startup`, trimming white space is idempotent and
parsing a duration gives an integer or an error (`StringsAssumption`), and a configuration
file has the fields of its Go types (`ConfigsAssumption`); of `TrimIssuer` nothing is
assumed but its type. In `Routes`, the fixed segments of the endpoints are neither
parameters nor catch-alls (`SegmentsAssumption`), and what is registered is a pattern
that gin accepts (`PathsAssumption`).

Every safety invariant and action property that a passing run checks is a theorem.
Only model-checked are the liveness properties (fairness and `ENABLED` are out of the
prover's reach): `CanceledCallerReturns`, `AbandonedCallEnds`, `EveryCallerReturns`,
`SignalEndsProcess` and `ServingGoroutineEnds`. Facts about recursive
definitions for all inputs would need induction theorems that the installed
backends cannot instantiate; the modules declare no `RECURSIVE` operator.

## 5. What is not modelled

Signatures and base64 (pure functions over bytes; a signature is the kid it was
made with). YAML, JSON and AWS decoding (one flag, `wellFormed`), audit logging
(it records answers that were given), the standalone server's static route
table, discovery and health answers. The setters of the builders (`client/config.go`,
`server/config.go`, `jwk/*.go`, `ginorion/builder.go`) are assignments with a nil check; what
`Build` makes of the result is modelled in `Guard`, `Startup` and `Keys`, and what the
token cache relies on (a positive skew) is an assumption. Signers that are built
by hand and not by the runtime's loader are not modelled: `PublicJWK` of such a
signer with an invalid key is the empty `Key` (`src/jwk/ed25519.go:119`), which would
make verifiers refuse the whole document. Examples show the use of the library.

## 6. Findings and observations

* `remote_provider_not_found`: `README.md:414` says that a token whose kid is not
  in the cache triggers a GET. A goroutine that calls `Key` while another one's
  GET is under way does not send one when that GET succeeds
  (`src/jwk/remote.go:245`), although the response may be older than the
  question. The token of a key published in between is refused with
  `ErrKeyNotFound`; the next request succeeds.
* `routes_group`: the comment at `src/ginorion/routes.go:140` says that the readiness
  route is added "without replacing a route already owned by the application". On
  a `*gin.RouterGroup` the routes cannot be listed (`src/ginorion/routes.go:195`) and gin
  sees no conflict between a static segment and a parameter: an explicit
  `ReadyPath` takes the requests that a parameter route of the application answered
  before. On an engine the same application keeps them (`EngineRoutesKept`).
* The discovery document names `issuer + "/oauth/token"` whatever `TokenPath` or base
  path the routes were mounted with (`src/server/server.go:40`).
* A signal before `signal.NotifyContext` (`src/cmd/orionis-auth/main.go:100`) kills the process: key
  files may have been created by then, and the exit code is not 0.
* The documented T1 to T2 step names no waiting time. `NoOutage` needs one when
  an HTTP cache honours the `max-age=300` of the JWKS response: `Wait(1)`.
* `KeyFile`: processes that are started together with no key file may serve with different
  keys under one kid until they are restarted (`OneKeyServed` is therefore about
  starts one at a time; `SettledForGood` says that no further process joins those that
  serve with another key than the file's once the starts are over), and a crash between truncation and write leaves a file
  that makes every later start fail, never one that replaces a key.
* `Require` prefers its arguments to the builder's scopes before blanks are
  removed: `Require("")` makes a route that requires no scope (`firstScopes`,
  `newGuard`). No document says what a blank argument means.
* How long a disabled client can still call is the sum in `AdmittedWasAllowed`:
  the token lifetime, the verifier's leeway, the clock skew, and the time between
  `FindClient` and `Sign`, which nothing in the code bounds.
* The issuer is trimmed once by `LoadConfigContext` and again by `New` and by the server's
  builder (`TrimIssuer`). Trimming is not idempotent: of `"/ / /"` the first leaves
  `"/ / "`, the second `"/ "`, and the third nothing. Such an issuer
  passes the validation, key files are created, and then the builder refuses it, although
  `docs/releases/v0.4.0.md:22` promises that invalid configuration is rejected
  before key creation. `ValidatedStarts` says that this is the only way in which an
  undisturbed start fails after validation.
* A key configured with neither path nor variable is generated anew at each
  start (`Startup.LoadSigner`).

## 7. What could follow

All components with state of their own are modelled, and their safety properties are
proved. Abstract specifications of the rate limiter (admissions within spans) and of
the key file (one key, chosen once) would let `EndToEnd` and `KeyRotation` rely on
them by refinement, as they could on `TokenSource` and `Issuance`.
