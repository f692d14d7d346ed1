# Verification of the Traefik gateway plugin

TLA+ models of the gateway middleware in `src/`, TLC runs that check them on
small instances and TLAPS proofs for every instance. Go names are kept where
TLA+ allows it (`matchEndpoint`, `newPolicyIndex`, `ownerMatches`); an action
carries the name of the stage it models.

## The system

The plugin is a Traefik middleware. Every request runs in its own goroutine
through `ServeHTTP`; beside them run the pollers of process-wide caches.

| Component | State | Operations | Correct when |
|---|---|---|---|
| Request pipeline (`plugin.go` ServeHTTP) | the request and its headers | CORS preflight, strip trusted headers, resolve the host, cold checks, dispatch | enforce mode fails closed, clients cannot supply trusted headers, every request is answered |
| Policy engine (`policy.go`) | per request: target, endpoint, claims, principal | target, match, credential, principal, permission, headers, owner gate, rate limit; `/api/_iam/me` | nothing passes a gated route without a grant on the target |
| Legacy engine (`plugin.go` serveLegacy) | per request | the same stages under the host's application | tokens count only on the host they were issued for |
| Evaluator (`authz.go`) | policy index of one snapshot | matchAction, matchApp, newPolicyIndex, resolveStatements, granted, isWildcard, permissionsByApp | union of the bound policies; introspection agrees with verdicts |
| Snapshot cache (`snapshot.go`) | endpoints, policies, version under a RWMutex; atomic `loaded` | start, loop, checkVersion, refresh; matchEndpoint, policyIndex, Loaded | readers see one published version, failures keep the last good one, it catches up |
| Registry cache (`registry.go`) | byHost, wildcards, active, version, loaded under a RWMutex | the same poller; resolveHost, isActiveApp, activeAppIDs, coldStart | as the snapshot cache |
| JWKS cache (`jwks.go`) | keys, last attempt | keyForKid with refetch on a miss, cooldown, periodic refresh | one published key set is served, a rotated key is found, refetches are limited |
| Rate limiter (`ratelimit.go`), Redis client (`redis_resp.go`) | counters in Redis; per instance one connection, its mutex and backoff | Check (INCR, EXPIRE); do, roundTrip, connect | a window admits at most the limit, a refusal is earned, outages fail open and end |
| Plan resolver (`identity.go`) | plans with an expiry, per application and user | Resolve | default plan on failure, no plan from the cache beyond the TTL |
| Rate-limit identity (`helpers.go`, `plugin.go`) | none | rateLimitKey, anonymousRateLimitKey, clientIP | counters are shared exactly where the code says so |
| Construction (`plugin.go` New, `getShared*`) | maps of shared caches | New, get-or-create | one cache and one poller per URL |

Interactions: requests read the two caches, one critical section per read, and
call the plan service and Redis; pollers replace cache contents; the upstreams
(service-service, application-service, Keycloak) publish at any moment. Nothing
is persisted by the plugin: a restart is a start with cold caches.

What is hard here: a refresh may fall between any two reads of one request (the
endpoint is matched, then matched again for another application, then the
policies are read); caches are cold after a restart; calls fail at any stage;
trusted headers are stripped once and stamped on many paths; two engines and a
shadow evaluation must stay consistent; refetches of keys and plans overlap and
install their answers in any order; a Redis reply may be lost after the command
was executed; instances are built concurrently. `PROJECT.json` lists these hazards by
line, with the property that watches each, or why there is none yet.

## Modules

| Module | Models | Notes |
|---|---|---|
| `Authz` | `authz.go` | pure operators; permissions, patterns and roles are sequences of segments, statement lists are sets (every consumer asks "is there one that"), published lists keep their order |
| `AccessPolicy` | the lists administrators publish, entry by entry | the evaluator's state machine and properties |
| `Snapshot` | compilation and `matchEndpoint` of `snapshot.go` | a path pattern is the set of paths it matches |
| `AppRegistry` | compilation and `resolveHost` of `registry.go`, `normalizeHost` | `compileRegistry` is the set of results of Go's random map iteration |
| `LastGoodCache` | what both polled caches promise | the abstract specification |
| `SnapshotCache` | the snapshot poller | one step per HTTP answer, comparison, critical section and flag store; steps refine `LastGoodCache` but for blank answers |
| `Gateway` | `ServeHTTP`, `servePolicy`, `serveLegacy`, `serveIAMMe` over both caches | one step per critical section or blocking call; composes `Snapshot`, `AppRegistry`, `Authz` and two instances of `LastGoodCache` |
| `Construction` | what `New` makes of realms, operator realm and engine | pure operators, `Nil` for an error; `MCGateway` builds its configurations with it |
| `AppRegistryCache` | `getSharedAppRegistryCache`, the registry poller | concurrent construction, then polling; steps refine `LastGoodCache` but for blank answers |
| `JWKSCache` | `jwks.go` | requests and loop run `refresh` side by side |
| `RespRedis` | `redis_resp.go` with the server | connection, mutex, backoff, commands and replies in flight; actions take their continuation from the caller |
| `RateLimiter` | `ratelimit.go`, the identity helpers | extends `RespRedis`; one step per critical section and server step |
| `PlanResolver` | `identity.go` | clock in ticks, overlapping calls |
| `AuthzProofs`, `SnapshotCacheProofs`, `GatewayProofs`, `GatewayTrustProofs`, `AppRegistryCacheProofs`, `JWKSCacheProofs`, `RateLimiterProofs`, `PlanResolverProofs` | proofs | each extends the module it is about |
| `MCAuthz`, `MCSnapshotCache`, `MCGateway`, `MCAppRegistryCache`, `MCJWKSCache`, `MCRateLimiter`, `MCPlanResolver` | instances for TLC | |

`Gateway` state: `regPub`, `regVer`, `regLoaded`, `registry` are what
application-service published and what `AppRegistryCache` holds; `snapPub`,
`snapVer`, `snapLoaded` the same for the snapshot, whose endpoints and policies
are a function of the version held (`EndpointsAt`, `IndexAt`; the theorem
`OneVersion` justifies it). `rq[r]` is a request: its stage `pc`, the headers the
gateway owns, and the local variables of the handlers. `resVer`, `epVer`,
`hostVer` and `polVer` record which cache version each read saw; the code has no
such variables, the properties speak through them. Status 0 (`FORWARD`) stands
for handing the request to the backend; `reason` is the `reason=` of the log
line.

`AppRegistryCache` state: `building[i]` is where the `New` of instance `i` is,
`mutex` and `shared` are `sharedAppCachesMu` and its map, `bound[i]` the cache
the instance keeps, `cache[c]` the cache that `c` created with the stage of its
goroutine. `JWKSCache` state: `keys` and `sinceAttempt` are `jc.keys` and the age
of `jc.lastAttempt`, `g[p]` a goroutine inside `keyForKid` or `refresh`; `held`
(the document the keys come from) and `sinceOwn` are history. `RateLimiter`
state: `store` is Redis, `conn`, `owner`, `backoff` are `r.conn`, the holder of
`r.mu` and whether `retryAt` is ahead, `chk[r]` is a `Check` under way; `spent`
and `admitted` are history, kept per account: one identity on one endpoint in
one window, which several callers may share. `PlanResolver` state: `tier` is what service-service
would answer, `cache` is `pr.cache`, `req[r]` a `Resolve` under way, `since` is
history: how long ago a plan was last a customer's.

Operators marked "Mutant" are faulty variants of the definition that
follows them; no specification uses them.

Abstractions:

- A token is a record of the claims the code reads plus one bit `valid` for
  form, algorithm, signature and expiry; in `Gateway` a token that would
  validate may still be refused, which covers keys that cannot be fetched. The
  user id is the configured claim or else the subject, verbatim when it is a
  positive integer and derived from the subject when it is not; the email counts
  only when the token says it is verified.
- In `Gateway` the plan lookup returns any plan, and the rate limiter admits
  or, where a limit applies, refuses; counting is the subject of `RateLimiter`,
  plans that of `PlanResolver`.
- Ages in `JWKSCache` stop at the cooldown, those in `PlanResolver` beyond every
  bound of interest: the code asks only whether an age has reached the bound.
- In `RateLimiter` gateway and Redis share a clock, counters survive an outage,
  the backoff is a flag that time clears, and a command whose connection is
  dropped has been executed by then or never is. Redis may really execute it
  later, so an increment nobody waits for may count later than it does here, when
  its counter may be gone; keeping such commands would multiply the states of the
  largest run. All requests are under one
  plan: that plans with windows of different lengths may share a counter is not
  represented.
- `Timeout` in `PlanResolver` bounds a call from the miss to the store of its
  answer. The HTTP timeout ends the call, but nothing in the code bounds how long
  a goroutine may rest between reading an answer and storing it; a plan that
  rests longer is older by as much.
- Blank 200 answers (`{}`), which install nothing under the empty version and
  count as loaded, are modelled in both pollers, and in `Gateway` for the
  registry. The snapshot of `Gateway` is taken to be answered with published
  versions only: after a blank one the cache counts as loaded, every route is
  unregistered and passes un-gated, and the versions that requests read are no
  longer ordered. The properties of `Gateway` about gated routes say what the
  code makes of published snapshots; that a blank one is replaced again is
  `CatchesUp` of `SnapshotCache`.
- Log text, CORS response headers, request ids and timing are left out.

## Runs

| Run | Shows |
|---|---|
| `snapshot_cache` | `HoldsOneVersion`; the refinement `LastGoodUnlessBlank`: only a blank answer takes the cache back, no failure does; `CatchesUp`: when publishing stops the cache holds the last version, loaded, again and again, although any call may fail or be answered with a blank |
| `authz` | `UnionWhenBoundOnce`, `HomeConfined`, `IntrospectionAgrees` over every list of up to the bounded number of policies and bindings, for every home application and for none |
| `gateway` | `EnforceFailsClosed`, `PolicyDecisionSound`, `LegacyPinned`, `CredentialNotIgnored`, `OwnerGateSound`, `HeadersEarned`, `EveryRequestAnswered` |
| `registry_cache` | `OneCache`, `EveryNewReturns`: concurrent constructions share one polled cache and all return; `ResolvesAsPublished`: what a host resolves to, whatever order Go iterates in (a lone `*` is no wildcard: the code asks for the prefix `*.`); `LastGoodUnlessBlank`; `CatchesUp` |
| `jwks_cache` | `HoldsOneKeySet`, `NoRegressionFromStart`: overlapping refreshes never mix or lose keys, nor bring in a set older than the one held when they began; `CallerCooled`; `RotationPickedUp`: a rotated key stops being unknown |
| `rate_limiter` | `WindowQuota`, `RefusalEarned`, `CreatorSetsLife`: what a count means, per account, under lost replies, late commands and failed EXPIREs; `ReplyMatchesCommand`: no reply is taken for another command's; `AllowancePerCaller`; `EveryCheckEnds`; `Recovers`: after an outage checks are decided again |
| `plan_resolver` | `BoundedStaleness`: a cached plan is at most a TTL and a call old; `Settles`: a plan that stays is served in the end |
| `jwks_cooldown` | violated: `README.md` says refetches on a miss are at least `jwksRefetchCooldown` apart, but the attempt is read under a lock that is released before the refetch, so concurrent misses all refetch (`CallerCooled` is what holds) |
| `authz_order` | violated: two bindings of one role are not a union, the last wins (authz.go comment) |
| `gateway_exposure` | violated: a refresh between the two lookups of `servePolicy` lets a registered route pass un-gated |
| `gateway_shadow` | violated: the shadow verdict uses the admin access level, the policy engine does not |
| `gateway_reasons` | violated: unmapped hosts and the legacy owner gate deny without a reason |

Bounds. `MCGateway` publishes up to two versions per cache, drawn from two
registries and two snapshots, so each read of a request can meet a cold, an
older or a newer cache: the routes, owners, active applications and bindings
differ between them. One request slot is enough for TLC because requests share
nothing but the caches, which they only read; the proofs hold for any number.
Its inputs cover both engines, the three resolution modes, authentication
switched off, a realm shared by two applications, the operator realm, tokens of
a foreign realm, invalid tokens, retired keys, explicit targets, wildcard hosts,
forwarded hosts, owner routes, spoofed headers, a subject that is a number, and
an unverified email; the registry may go blank at any time. `MCSnapshotCache` publishes
up to three versions.
`MCAuthz` builds lists of up to two policies and three bindings over two policy
names, two roles and three sets of statements that use every kind of action
pattern and application entry: duplicates of names and roles, dangling bindings
and both orders occur.

`MCAppRegistryCache` builds three instances, so that two meet a mutex held by a
third, over two registries with two spellings of one host, overlapping
wildcards, a lone `*`, inactive hosts and applications without hosts; two versions suffice
for a stale poll and a stale fetch. `MCJWKSCache` has two requests and the loop,
so that three refreshes overlap, three documents (a first key, a rotation with
repeated and unusable entries, no usable key) of which two are published, and a
cooldown of one tick, which tells a fresh attempt from an old one.
`MCRateLimiter` has two requests of one user on one client, where every race for
the mutex and the connection happens; a limit of one, counts up to two (within
and beyond the limit), windows of two seconds, a clock to three so that two
windows and the extra second of a counter's life are seen, and one outage.
`AllowancePerCaller` concerns identities alone and ranges over a wider set,
where identifiers of different kinds have equal values. `MCPlanResolver` has one
user on an application and on the global tier, two plans, two requests, a TTL of
two ticks and calls of at most one. No symmetry is used.

Fairness. `SnapshotCache`: the goroutine runs on and each call ends because the
HTTP client has a timeout (weak fairness); the poll ticker keeps firing and an
upstream asked again and again gives a proper answer again and again (strong
fairness), with failures and blanks in between;
nothing is assumed of the refresh ticker, so the version poll alone suffices.
`Gateway`: a goroutine that can step does (weak fairness on the steps of one
request), since every call it makes has a timeout; nothing is assumed of
upstreams or refreshes.

`AppRegistryCache`: as `SnapshotCache`; the steps of a construction are weakly
fair, since its only blocking call has a timeout and the mutex is released.
`JWKSCache`: time passes and goroutines run and their calls end (weak fairness);
a realm asked again and again answers again and again (strong fairness on the
answers). The loop's ticker need not fire. Its fetches are covered by the same
strong fairness, and have to be: a failed one stamps the attempt, and a loop
that ticks within the cooldown and always fails would defer every refetch.
`RateLimiter`: a step under the mutex is weakly fair, because every dial and
command has a deadline; taking the mutex is strongly fair, because Go's mutex
hands over to a waiter that starves; requests keep coming and the backoff passes
(weak fairness); a server that stays up accepts some dials, executes some
commands and is heard in time (strong fairness). `PlanResolver`: time passes and
calls end, well or not (weak fairness); no call need succeed.

Deadlock is checked except in `MCAuthz`, which only builds lists up to a bound.

## Proofs

TLAPS checks the theorems below for every value of the constants. Every safety
invariant, action property and refinement that a passing run checks is stated by
one; TLC checked each inductive invariant on the run's instance first.

Assumptions, all named in the modules and evaluated by TLC on every run:

- Bounds: `MaxPublish`, `TTL`, `Cooldown`, `Limit` and `Window` are positive
  naturals, `Timeout`, `MaxTime` and `MaxOutages` naturals, and counters stop
  only beyond the limit (`MaxCount > Limit`).
- The absent value is none of the values it stands beside (`NilAssumption`,
  `InstancesAssumption`, `AbsentAssumption`), the background loop is no request
  (`LoopAssumption`), `NoPerm` is no permission (`PermsAssumption`), and the claims
  of a token are a value (`ClaimsAssumption`).
- Shapes of data: an input's headers are those the gateway knows
  (`HeadersAssumption`), a default plan is a plan (`ConfigAssumption`), a subject
  has an application and a user (`SubjectsAssumption`), a registry has finitely
  many hosts, each with at least one label (`HostsAssumption`; even the empty
  host name has one), and the Redis keys are those of callers and windows
  (`KeysAssumption`).

Sets of requests, instances, clients, inputs, configurations, registries, key
documents, callers, subjects, plans, policies and bindings are otherwise
arbitrary.

| Module | Theorems | Inductive invariant |
|---|---|---|
| `SnapshotCacheProofs` | `Typing`, `OneVersion`, `Refinement` | `CacheIInv` |
| `GatewayProofs` | `Typing`, `FailsClosed`, `DecisionSound` | `GInv` |
| `GatewayTrustProofs` | `TokensPinned`, `CredentialsRead`, `OwnersOnly`, `NoForeignIdentity` | `TInv`, with `GInv` |
| `AppRegistryCacheProofs` | `Typing`, `Shared`, `Resolution`, `Refinement` | `RInv` |
| `JWKSCacheProofs` | `Typing`, `OneKeySet`, `NoRegression`, `SlotsCooled` | `KInv` |
| `RateLimiterProofs` | `Typing`, `NoStrayReply`, `Quotas`, `Refusals`, `Lives`, `Allowances` | `LInv` |
| `PlanResolverProofs` | `Typing`, `Fresh` | `PInv` |
| `AuthzProofs` | `UnionHeld`, `HomeHeld`, `IntrospectionHeld` | lists of policies and bindings |

`CacheIInv` says beyond the properties that an answer waiting to be installed is
blank, or the content published under its version and not older than the one held
(`FetchedIsPublished`), and that the flag is about to go up only when a snapshot
is held or the answer was blank (`InstalledHolds`); without these an install could
break the refinement. That a blank answer leaves no endpoints and no policies is
`BlankIsEmpty`.

`GInv`: the properties speak of finished requests, so it says per stage what a
request already has: a host resolved by a published registry (`Resolved`), a held
snapshot after the loaded check, the matched endpoint of version `epVer`
(`Matched`), an accepted issuer (`TokenAccepted`), the permission under version
`polVer` (`PermissionHeld`); and that the registry held is one compiled from the
version held. There is one lemma per action; `ResolveSound` shows that whatever
order Go iterates in, a host resolves only to an application published with an
active host; `ReqInvKept` shows that these facts survive refreshes, because
published versions never change and the version of the snapshot never decreases;
that of the registry may, to nothing, and what a request resolved before stays
true of the version it read.

`TInv` says per stage what a request owes to its token. Up to the credential
nothing has been read from it and the gateway-owned headers hold nothing of the
client's, the application's apart; then the claims are those of an accepted token
(`CredentialRead`, `ClaimsEarned`), with the admin standing of a gated route
(`LegacyHeld`); past the owner gate (`OwnerPassed`) the headers are those the
claims earn (`HeadersStamped`). `AppStamped` follows the application header
through the two places that stamp it.

`RInv`: the mutex is held exactly while an instance creates the cache, and once
shared nothing else is created (`Construction`); a cache holds one published
version, or the blank one, and an answer on its way is blank or not older
(`InOrder`). `Resolution` also rests on lemmas about compilation: `compileRegistry`
and `resolveHost` choose the same application the published registry allows, for
every order of the iterated map, because a first match among wildcards exists
whenever one does.

`KInv`: an answer waiting to be installed is a published document not older than
the one held when its refresh began (`Asked`), and no request slot goes by an
attempt older than its own last one (`Cooled`), which is why the stale read of the
attempt cannot make one caller refetch twice.

`LInv`: a free client has an empty connection (`Clean`); a check that holds the
mutex has a connection with its command alone or the reply to it alone
(`Waiting`); a counter with a life outlives its window by a second, so a count
got within that time is still in the counter (`Counts`, `Entry`); and what has
been admitted plus the checks that will be if nothing fails any more never
exceeds the limit, nor the counter while it lives (`Quota`). The last is needed
because an admission happens two commands after the count that earns it.

`PInv`: a plan on its way was the subject's no longer ago than its call has lasted
(`OnItsWay`), and once stored each tick takes from the life of the entry what it
adds to the age of its plan (`Aged`).

`AuthzProofs` shows that the last entry of a name is the only one when names do
not repeat (`PolicyIndexed`, `RoleIndexed`), which is all that `newPolicyIndex`
needs to be a union; the other two theorems hold of every principal.

Looking for these invariants corrected four statements, which held on the small
instances only: `NoRegressionFromStart` had claimed more than the code promises
(a refresh may install what another one installed meanwhile); a lone `*` is an
ordinary host (registry.go:214), which `ResolvesAsPublished` had taken for a
wildcard; `WindowQuota` and `RefusalEarned` counted per caller what callers who
share an identity share; and `CreatorSetsLife` does not hold of a check that
decides after the second that follows its window.

Only model-checked: liveness (`CatchesUp`, `EveryRequestAnswered`,
`EveryNewReturns`, `RotationPickedUp`, `EveryCheckEnds`, `Recovers`, `Settles`),
which is out of the prover's reach, and the properties the code violates, which
have counterexamples.

## Plan

1. Done: `Authz`, `Snapshot`, `AppRegistry`, `LastGoodCache`, `SnapshotCache`,
   `Gateway`, their runs and theorems.
2. Done: `JWKSCache`, `RespRedis` and `RateLimiter`, `PlanResolver`,
   `AppRegistryCache` with the shared construction, `Construction`.
3. Done: theorems for every safety property of the passing runs.
4. Next, the seams between modules: the registry of `Gateway` may go blank as
   that of `AppRegistryCache` does; its snapshot should too, with the properties
   restated for versions that may fall to nothing. Then lemmas about what
   `Construction` makes of a configuration.
5. Next, the shared counter of plans with windows of different lengths
   (ratelimit.go:54), as lemmas about `redisKey`, since a second length is too
   much for TLC.

Not modelled: parsing and defaults of the configuration other than those of
`Construction`, logging and the interpreter harness, which keep no protocol
state; vendored code. Of modelled parts: the 64-bit hash that derives user ids
(beyond TLC's integers; `Gateway` takes it as a constant function), `Retry-After`
and the other rate-limit headers, commands of the Redis client the gateway never
issues, its URL parsing and its RESP encoding, eviction of plans (there is none)
and the memory of shared maps.
