# Verification of caba-inseguridad

TLA+ models, TLC runs and TLAPS proofs for the Go API of this repository (`cmd/api`,
`internal/`), the Python ETL that feeds it (`etl/`) and the SQL they share (`migrations/`,
`scripts/osm/`). The reference is the code; where a document of the repository says
something else, a run shows the difference.

State of the project: modelled and checked are the authentication subsystem, the risk pipeline
that decides which model the API serves, the safe-routes requests with their cache, the choice and
the scoring of routes over the road graph and its cleanup, the paging of crimes while they are
loaded, and the process with its pool, its Redis client, its rate limiters and its shutdown. Every
safety property that a run checks is also proved, for every value of the constants; what is liveness
is model-checked. What is left of the plan, and what is left out for good, is said below.

## 1. Inventory

The API is one Go process. Every HTTP request is served by its own goroutine; requests share
nothing in memory but the connection pool and a few counters, so all interaction goes through
Postgres (and Redis, when it is enabled) one statement at a time. The ETL consists of programs
run by hand that write the tables the API reads while the API is running.

| component | state | operations | what is hard | what makes it correct |
|---|---|---|---|---|
| auth service and repository (`internal/auth`) | `users`, `refresh_sessions`, `login_attempts`, `audit_logs` | register, login, refresh (rotation), logout, authenticate | two requests with one token; the rotation transaction and its row lock; failed statements, lost acknowledgements, crashes, lost responses | the books of the session table stay consistent; a stale token yields nothing; a granted token is backed; log rows are true; nobody waits forever |
| auth tokens, handlers, middleware | tokens and cookies held by clients | mint, verify, set and clear the cookie | expiry at the boundary; what the client knows after a lost response | an access token stems from a session of the same user and instant |
| safe routes (`internal/saferoutes`) | the Redis route cache (TTL 1 h) | look up the active model, cache get, snap, three routes, candidates, cache set | several reads of changing tables per request; entries stored late; cache failures | a response is computed from one model; the cache changes no answer; cache trouble never fails a request |
| route aggregation (`risk_aggregation.go`) | none (pure) | aggregate a path, dominant factor, bucket risk, risk level, comparisons | rounding, thresholds, ties, empty inputs | totals, bounds and levels agree with their definitions |
| risk model ETL (`etl/risk_network_kde`) | `risk_model_versions`, `edge_risk_scores`, evaluation runs | compute-scores, evaluate, calibrate, finalize | several commits per program; two programs at once; crash in between; approval of something since overwritten | at most one active model; an activated model is approved and scored |
| graph import and cleanup (`scripts/osm`) | `road_edges.is_routable`, `quality_checked_at` | import, cleanup | an import between the statements of a cleanup; a cleanup between those of a request | what is routable is fit and connected; nobody is stranded |
| snapping and neighbourhoods (`snap_crimes.py`, `build_neighborhoods.py`) | neighbourhoods, snaps | snap, build | re-runs; artefacts of an older graph | derived rows agree with the graph version |
| crimes API (`internal/crimes`) and loader (`etl/python`) | `crimes` | nearby page with keyset cursor; upsert | pages taken while rows are upserted | without writes a scan returns every row once |
| rate limiting (`internal/ratelimit`) | counters per client and window in Redis | admit or reject | window boundary, Redis failure, two endpoints | quota per window, no bleeding between endpoints |
| app wiring, `cmd/api` | the pool, the Redis client | start, serve, shut down | failure half way through the start; shutdown with requests running | whatever was opened is closed, once, after the last use |
| road graph API (`internal/roadgraph`) | none | walk route, statistics | the graph may change | a way is found on a clean graph |
| ORS proxy, observability, health, config, platform | none | reads, one outgoing call, formatting | nothing stateful | not modelled but for opening and validating (see `PROJECT.json`) |

Interactions: the handlers call the services, the services call repository interfaces and (safe
routes) the cache; the auth middleware wraps the safe-routes handler and `/auth/me`; the rate
limiters wrap four routes, that of `/routes/safe` inside the auth middleware, which is put around the
whole protected group and reads the user before the limiter is asked. The ETL and the API meet only in the database.

`PROJECT.json` lists the hazards, each at its line with the properties that would catch it.

## 2. Plan

1. `AuthSessions` with the abstract `SessionStore` — done, with proofs of typing, of all its
   safety properties and of the refinement. Left: a browser with one cookie (lost and crossed
   responses) composed with it.
2. `RiskModels` with the abstract `ModelRegistry` — done, with proofs of typing, of all its
   safety properties and of the refinement. Left: the evaluation's metrics and gate as pure functions.
3. `SafeRoutes` over `ModelRegistry` — done, with proofs of all its invariants. Left: every request
   is answered (liveness).
4. `RoadGraph`, and `RouteChoice` over it — done, with proofs of all invariants: the cleanup, who
   finds a way, what the multipliers do, the candidate, the numbers of an answer.
5. `CrimesPaging` — done, with proofs of all its invariants.
6. `ApiProcess` (start, shutdown, pool, rate limits) — done, with proofs of typing and of all its
   safety properties, the quotas included.
7. `Neighborhoods`: what `snap_crimes.py` and `build_neighborhoods.py` derive, against the version
   of the graph they derive it from.

Composition: `SafeRoutes` takes `ModelRegistry`, which the pipeline implements, as its environment;
`RouteChoice` takes `RoadGraph` as its own; `ApiProcess` says when requests run at all, and how
they share connections. Questions that fit one instance share a run.

## 3. Modules

| module | what it is |
|---|---|
| `AuthSessions` | `internal/auth` as concurrent requests over Postgres |
| `SessionStore` | what the session repository promises: absent, live, revoked; rotation is atomic |
| `MCAuthSessions` | the instances TLC checks |
| `AuthSessionsProofs` | typing; the inductive invariant of rotation; revoked rows are frozen; the table implements `SessionStore` |
| `AuthClientsProofs` | what clients hold, are told and find recorded is true; what must not be let in is not |
| `RiskModels` | `etl/risk_network_kde`: compute-scores, evaluate, calibrate, finalize as concurrent programs |
| `ModelRegistry` | what the pipeline promises the API: define, rescore, activate, each atomic |
| `MCRiskModels` | the instances TLC checks |
| `RiskModelsProofs` | typing: `PipelineTypeCorrect` |
| `RiskRegistryProofs` | one active model, always scored; the pipeline implements `ModelRegistry`; what finalize publishes is approved; scores and runs of models that one program at a time works on |
| `SafeRoutes` | `internal/saferoutes`: concurrent requests over Postgres and the Redis cache, with the pipeline as `ModelRegistry` |
| `MCSafeRoutes` | the instance TLC checks |
| `SafeRoutesProofs` | typing; answers are never blind, of a served model, to the question asked, and fresh; only statements fail |
| `RoadGraph` | `scripts/osm`: the graph in Postgres, its import and its cleanup, rule by rule |
| `RouteChoice` | `internal/saferoutes`: what a request computes over that graph, its scores and levels; the walk route of `internal/roadgraph` |
| `MCRouteChoice` | a small city |
| `RouteChoiceProofs` | typing; a clean graph is one component; the trade-off between the profiles; nobody is stranded; the candidate is no safer; the numbers of an answer agree |
| `CrimesPaging` | `internal/crimes` and the loader: keyset pages while crimes are upserted |
| `MCCrimesPaging` | the instance TLC checks |
| `CrimesPagingProofs` | typing; pages are ordered and miss nothing; the last line of a file counts |
| `ApiProcess` | `cmd/api`, `internal/app`, `internal/ratelimit`: processes that start, serve, stop |
| `MCApiProcess` | the instance TLC checks |
| `ApiProcessProofs` | typing; what is opened is closed; graceful stops; connections and quotas are kept; rejections are deserved |

### AuthSessions and the code

*State.* `users` and `sessions` are the tables (`DOMAIN sessions` is the set of stored rows;
a row keeps the user, `expires_at`, whether `revoked_at` is set, and `replaced_by`). `locks` says
which open transaction holds a row lock. A request is a pair `pc`, `call`: the SQL statement it
executes next, and the locals of the service method. A session row and the refresh token whose
hash it stores share an identifier: `token_hash` is UNIQUE and tokens are 256 random bits.
`cookies`, `loggedOut`, `accessUntil` and `parent` are history: what clients hold, which logouts
were answered, until when a user holds a valid access token, and which session a row was rotated
from (the code knows it in `RotateSession` but stores only the reverse link, if that).

*Actions.* `Register`, `Login`, `Refresh`, `Logout`, `Authenticate` are the arrival of a request:
decoding and the validation the service does before its first statement. Then one action per
repository call — `CreateUser`, `CredentialsByEmail`, `CreateSession`, `RecordLoginAttempt`,
`WriteAudit`, `SessionByHash`, `RevokeSession`, `UserByID` — each with the computation that
follows it in the service, because nothing else can observe that computation. `RotateSession` is
three actions: `RotateInsert` (invisible to others), `RotateRevoke` (waits for the row lock, then
evaluates `revoked_at IS NULL` on the current row, as Postgres does under READ COMMITTED, and
locks the row if it matches) and `RotateCommit`. The code ignores the number of rows updated, and
so does the model. `Respond` writes the response, which the client receives or not.

*Faults.* `Fail`: a statement fails without effect, a failure inside the transaction rolls it
back (`defer tx.Rollback`), and failures of the two log writers are swallowed. `Acked`: a write
took effect but the service sees an error (the connection broke before the reply, or the
client left and the request's context was cancelled). `Crash`: the process dies, Postgres rolls
back. `SetActive`: an operator flips `is_active`; no code of the service writes it.

*Abstractions.* Passwords are the five kinds the code tells apart (`tooLong` is bcrypt's 72 byte
limit, answered 500). Of all access tokens of a user the model keeps the latest expiry: presenting
it stands for presenting any of them. Rate limiting sits in front of login and only removes
requests. IP addresses, user agents and response bodies are left out.

### SessionStore

Three actions: `Issue`, `Rotate`, `Revoke`. A rotation that lost the race for its old session is
an `Issue` there: the new session exists but replaces nobody. `AuthSessions` instantiates it
(`Store`) with the table as its state, and `ImplementsStore` is its specification.

### RiskModels and the code

*State.* `models` is `risk_model_versions` (parameters, `train_until`, `is_active`; models are known
by their UNIQUE name). `scores` stands for the two score tables: computing scores is deterministic,
so what a model has is identified by what it was computed from, the parameters and `train_until`
that `compute_scores.run` read (`Batch`), or is None when there are no rows. `runs` is
`risk_model_evaluation_runs`; the field `judged` is history: the scores the contexts of the
evaluation found. `rowLock` and `scoreLock` say which open transaction has updated a model's row or
rewritten its scores. `prog` is the program counter and the locals of each running program. Three more
variables are history: `source` (the base model a final model was made from), `overwritten` (models whose
parameters an upsert has changed) and `disturbed` (models that two programs have worked on at the same
time, or that a failure has left with a new row and without its scores).

*Actions.* `ComputeScores`, `Evaluate`, `Calibrate`, `Finalize` are an operator starting a command,
up to the first thing it reads. After that an action is a transaction: `FindApproval`, `Upsert`,
`ReadModel`, `StartRun`, `JudgeContext`, `CompleteRun` can neither wait (but for `Upsert`, on a row
lock) nor be seen half done. `calibrate` loops over `Upsert … CompleteRun` for each combination of
its grid, `finalize` runs `FindApproval … CommitScores` and, with `--activate`, the activation.
Every `run()` opens a connection of its own, so no transaction spans the calls between them.

Two transactions are split into statements, because what they wait for matters.
`Rewrite`/`CommitScores` replaces the scores: the DELETE of a second program waits for the first;
when that commits, the second DELETE skips the deleted rows, does not see the inserted ones (they
are not in its snapshot), and its INSERT fails on the primary key, so `CommitScores` ends the
programs that are `Blocked` on the same model. If the first one rolls back, a blocked one goes on.
`Deactivate`/`DeactivateRows`/`Activate`/`CommitActivation` are the two UPDATEs of the activation
under READ COMMITTED: the first works on the rows active when it began (`seen`), waits for their
locks and looks again; the second waits for transactions that decide on a row it conflicts with
and raises if `idx_one_active_risk_model` is violated by a committed one.

*Faults.* `Fail`: a statement raises or the operator interrupts the program; the exception leaves
`run()`, `conn.close()` rolls back what is not committed, what is committed stays.

*Abstractions.* The metrics are not computed: `CompleteRun` lets the gate go either way. A date
stands for a day; `finalize` with "latest" is one of the choices of `until`. Dates compare as the
code's ISO strings do. `calibrate`'s grid replaces the same parameters whatever the base, which the
constant `Override` says. Nothing keeps the names of base models, candidates and final models apart: in the
runs a candidate may be named as `--final-model`, so that a base model is written over after it has
passed. `ANALYZE`, the neighbourhoods that `calibrate` builds when they
are missing, and the backtest labels of a run are left out.

### ModelRegistry

Three actions: `Define` (a row with parameters), `Rescore` (all scores of a model at once) and
`Activate` (from a model with scores; the active model is one value, so it is handed over, never
taken away). `RiskModels` instantiates it (`Registry`) with its tables as state.

### SafeRoutes and the code

*State.* `parameters`, `scores`, `active` are those of `ModelRegistry`. `cache` is what Redis holds
under the keys of `routeCacheKey`: `Keys` stands for the coordinates at five decimals with the time
bucket and the weekday type, and `Resolved` maps a query to its key. A response keeps what its
properties need: query, model, the bounds of the risk levels, and every set of scores that one of
its statements read (`reads`). `pc` and `req` are the statement a request executes next and the
locals of `Service.SafeRoutes`. `seen`, `failed`, `served` and `rewritten` are history.

*Actions.* `Arrive` (parsing and validation), then one action per statement or Redis command:
`ActiveModel`, `CacheGet`, `SnapEndpoints` (with the profiles), `FindRoute` and `TimeOfDayRisk` for
each profile, `FindCandidates` and `CandidateRisk` for the contrast route, `CacheSet`, `Respond`. No
transaction spans them, so any number of pipeline steps (`PipelineStep`) may come between.
`Outcome` says what the graph has for the exact endpoints: two queries with one key may differ in
it, and the one that would be refused is answered when it hits the other's entry.

*Faults.* `Fail`: a statement fails, its rows do not decode, or the client has left. A failing Redis
command is a miss, or an answer that is not stored, though Redis may have taken it. `Expire`: an
entry expires or is evicted. `Crash`: the process dies, Redis keeps its entries.

*Abstractions.* Routes are not computed. An empty path or a missing geometry is "unreachable"; whether
a candidate lies within the detour bound is a choice. The graph and the profiles are loaded offline
and do not change. A hit echoes the coordinates and the time of the query its entry was computed for
(`openspec/specs/observability/spec.md:59` calls the bodies equivalent); what has to agree is what
`ServesTheQuestion` says. A pipeline step is atomic, as `PipelineImplementsRegistry` justifies.

### RoadGraph and the code

*State.* `quality` says of each row of `road_edges` whether it is routable or why it was excluded;
`checked` are the rows with a `quality_checked_at`; `cleanup` is the running cleanup: the statement
it executes next, and what it has written so far and nobody else sees.

*Actions.* `Normalize` is `normalize_osm_graph.sql`, which only adds rows. The cleanup is one
transaction under READ COMMITTED, so each of its statements sees what an import has committed
meanwhile: `Reset`, `ExcludeUnfit` (rules 1 to 4, of one row each), `ExcludeIslands` (rule 5, by
component), `CommitCleanup`, `RollbackCleanup` (`ON_ERROR_STOP`). A component is defined without
paths, as a set of nodes that no cut leaves without an edge across; of several largest components
any may stay, so a second cleanup of the same graph may decide otherwise only if components tie.

### RouteChoice and the code

*State.* That of `RoadGraph`, a table of risks (those of the active model for the weekday type of the
request, per time bucket), and one request.

*Actions.* `SnapEndpoints`, `FindRoute` for each profile and `FindCandidates` are statements; the graph
may change between any two (`GraphStep`). `FindWalkRoute` is the endpoint of `internal/roadgraph`,
which snaps and searches in one statement. What pgRouting promises is said by definition: `Cheapest`
paths, and sets of K `Shortest` paths, any of those that tie. `aggregateRoute`, `BucketRisk`,
`Reduction`, `Worst` and `WithinDetour` are `risk_aggregation.go` with its rounding: levels are decided on
the unrounded blend, all else that is shown is rounded (a high-risk stretch shorter than half a unit is
shown as 0), and the detour of a candidate is measured on
what is shown.

*Constants.* Their assumptions are those of the code: the multipliers of the profiles grow, and that of the
fastest is 0 (`migrations/000010_create_route_profiles.up.sql:14`), so that its cost is its length; a
candidate may be longer than the fastest route (`maxDetour`, 1.75, `internal/saferoutes/service.go:15`), so
the factor is at least 1; the thresholds of the levels are in order, as
`internal/saferoutes/repository_integration_test.go:161` expects of what `ActiveModel` loads. Paths are
walks without a node passed twice, collected by their number of edges (`Walks`).

*Abstractions.* Floats are exact integers in small units, and a displayed step is a tenth (`Grid`)
instead of a thousandth, so that ties and roundings happen on a small graph. Risks are within 0 and
1, as the pipeline writes them. Endpoints enter at any end of a routable edge, since there are no
coordinates. Crime counts with the dominant factor, durations and geometry are left out; statements
that fail, and risks that change, are the subject of `SafeRoutes`.

What the code does that its documents do not say: `route_profiles.max_detour_ratio` is loaded and
never enforced; high-risk metres are counted above the threshold, `ModerateMax`, not from it on;
nearest-edge snapping "can never strand" a request (`openspec/specs/road-graph/spec.md:72`) holds once
all rows have been checked, not between an import and the next cleanup, nor for a safe-routes request
that is snapped before a cleanup commits and searched for after it. Two routes shown with the same score
may have different levels, when it is the score at a threshold.

### CrimesPaging and the code

*State.* The table of crimes (of each its id and its distance from the point), the sequence behind the
ids, the loader with its open transaction and its batch, and a client with its cursor. `got` and
`changed` are history: what the client has received, and which crimes were moved or inserted since
its first page.

*Actions.* `GetNearby` is a page, one statement: the rows beyond the cursor by distance and id, one
more than the limit, which is not delivered and decides whether a cursor is returned. `ORDER BY` is said
by ranks: a row comes at the place given by the number of rows before it. `Rescan` starts anew.
The loader reads lines (`ReadLine`) into a batch that keeps one line per crime, and upserts it (`Flush`) when it is full and at the end; `Commit` and `Abort` end its transaction. Ids of the sequence
are used up by conflicts and by loads that are rolled back.

*Abstractions.* The point and the radius are the same on every page, and the token is its cursor. A
request that is answered 400 or 500 leaves the client where it was. A missing `limit` or `radius` and
the value 0 take the default, though `openspec/specs/crimes-api/spec.md:61` has values below 1 refused.

### ApiProcess and the code

*State.* For each process where `main` is, and its pool and Redis client: none, open, closing, closed.
For each slot the request in it: before its limiter, waiting for a connection, in a statement (of the auth
middleware, `InMiddleware`, or of its handler), about to be answered. `counter` is what Redis holds under the key of a limiter. `harmed`, `late`, `hits`
and `admitted` are history: a request met something closed or was cut off; requests were left when
the 30 seconds of the shutdown were over; the sequences of the instants at which each limiter was asked, and
let pass.

*Actions.* `Boot` validates the configuration; `NewPool`, `NewClient`, `NewMiddlewares` open, and `Abandon`
on failure closes what is open. `Signal` makes `main` call `Shutdown`, or kills a process that has not
called `signal.Notify` yet (the instant between the start of the listener and that call counts as
starting); `Drained` or `Deadline` end the shutdown; `ClosePool` and `PoolClosed` are `pool.Close`, which
waits for every connection; `CloseRedis`; `MainReturns`, which cuts off what still runs. `ListenerFails` is
`os.Exit` in the goroutine of the server. A process that has ended may be started again; Redis
keeps its counters. `Arrive` is a request as the router takes it: to the limiter, or for the endpoints in
`Authenticated` to the auth middleware first, which answers 401 or reads the user with a statement on a
connection; `Authenticate` answers 401 or goes on to the limiter. `Limiter` increments and compares in one script; when Redis fails, perhaps after it
has counted, the limiter panics and the request is answered 500. `Acquire` takes a connection when
one is free.

*Abstractions.* All requests are of limited endpoints; what a handler does is a number of statements,
each with a connection of its own (a rotation keeps one for its transaction, which changes nothing
here). Whether a token is good is a choice, which `AuthSessions` explains. Redis keeps a counter until it
expires: an eviction or a restart without persistence would let a client start anew. The limiter's script belongs to a library and is modelled as it is used.

## 4. Runs

Instance sizes are in the `.cfg` files. The `Auth` runs use the module `MCAuthSessions`, the
`Risk` runs `MCRiskModels`, the `Route` runs `MCRouteChoice`.

| run | question |
|---|---|
| `AuthSessionsCore` | do two requests on one user's sessions, under every fault, keep table, locks, log rows and client tokens consistent, and implement `SessionStore`? |
| `AuthAccounts` | two accounts: is one that was found inactive shut out, though it is deactivated during login and use? |
| `AuthAnswered` | is every request answered, though rotations of one token wait for row locks and are rolled back? |
| `AuthLogoutRace` | violation: `NoSessionAfterLogout` |
| `RiskConcurrent` | two programs out of a calibrate, an evaluate and two finalizes, failures anywhere, a base model written over after it passed: do approvals and runs say what is true, and do the tables implement `ModelRegistry`? |
| `RiskProgramsEnd` | two programs out of a calibrate, a compute-scores and two finalizes, failures anywhere: does every program end, whoever it waits for, and are scores those of their rows? |
| `RiskFailedSince` | violation: `FailedModelsStayOut` |
| `SafeRoutesCached` | two requests, a cache that may fail, and a pipeline at work: does every client get what it asked for, of a served model, and not stale but for rewriting in place? |
| `RouteChoice` | any two endpoints, every history of the graph, risks around the thresholds: is nobody stranded on a clean graph, do the profiles trade length for exposure, do the numbers agree? |
| `RouteSafestRiskier` | violation: `SafestIsNoRiskier` |
| `CrimesPaged` | a client pages while the loader commits: is every crime that stays received once, and all in order? |
| `ApiProcesses` | a process started in every way, stopped at every point and started again: does it close what it opens, stop in order, and keep quotas and connections? |

What the violations show. A refresh that read the session before a logout revoked it makes a session
after the logout was answered (`openspec/changes/archive/2026-06-22-add-user-auth/design.md:13`). The
safest route may be shown with a higher score than the fastest: the search minimises the length
weighted with the risk, and the score adds a quarter of the largest risk on the route, so a long
street of some risk is avoided through a short and very risky one
(`internal/saferoutes/repository_integration_test.go:95`). What the search promises is `TradeOff`.
`finalize` takes any run of the base model that ever passed, so a candidate that passes in `calibrate` and
fails a later `evaluate` is finalized all the same (`openspec/specs/risk-scoring/spec.md:144`, and the
scenario at `:153`); one program at a time and no failure are enough. What the code does promise is
`FinalsApproved`.

Five disagreements are plain in the actions and have no run. Two refreshes of one token racing both
succeed, and the second session has a parent that does not name it (`openspec/specs/auth/spec.md:93`
says it does; in `SessionStore` it is an `Issue`). A login that fails in the datastore returns before
`recordAttempt`, while `auth/spec.md:158` wants a row for any login. A calibrate that fails between its
upsert and its scoring leaves a row whose `train_until` is not that of its scores, and `evaluate`, which
checks the row, then judges scores trained on its test window (`risk-scoring/spec.md:143`); of models not
`disturbed` so, `JudgedAsRecorded` excludes it. `finalize` and `calibrate` overwrite the parameters of an
existing version (`risk-scoring/spec.md:34`), also those of a base model that has passed
(`etl/risk_network_kde/finalize.py:47`, `calibrate.py:78`); a final model made of it then carries parameters no
evaluation has passed, which is the exception `FinalsApproved` makes. The limiter of `/routes/safe` runs after
the auth middleware (`internal/app/routes.go:62`, `internal/saferoutes/handler.go:30`), so a request that is
rejected with 429 has cost a verification and a statement, and one without a token is not counted;
`openspec/changes/archive/2026-06-25-add-rate-limiting-and-cache/design.md:90` puts the limiter first, and
`README.md:118` says that a rate-limited request consumes no application or database work.

Properties beyond the obvious:

* `LinksSound`, `ChainsEnd`: whatever interleaves, `replaced_by` leads to a stored session of the
  same user made from this one, and never in a circle.
* `SuccessorsSound`: a rotated session was made while its parent had not expired at the instant
  the request arrived, and leaves the parent revoked.
* `RecordsAreTrue`, `GrantsAreBacked`, `LoggedOutIsRevoked`: what log rows and clients were told
  has happened, in spite of failures and lost responses.
* `StaleTokenNeverRotates`, `InactiveShutOut`: what must not be let in is not.
* `OneActive`: the API finds at most one active model, even between the statements of two
  activations and after a failure at any of them.
* `ImplementsStore`, `ImplementsRegistry`: seen from outside, rotation, rescoring and activation are
  atomic; nobody waits for what has failed (`Answered`, `ProgramsEnd`).
* `FinalsApproved`: the base model of a final model has passed, and with the very parameters that are
  published unless those of the base model have been changed, though `finalize` reads the parameters before
  it looks for the approval and other programs evaluate and write over both models meanwhile.
* `ScoresCurrent`, `JudgedAsRecorded`: the row, its scores and the run that judged them agree, among any
  programs and failures, for models that two programs did not work on at once and that no failure has left
  with a new row and old scores. Those two cases are left out because there the code does part them.
* `RecordsAreTrue` is about rows that are there; `InactiveShutOut` about accounts inactive during the whole
  request; `GracefulStop` about requests before the deadline; `NeverStranded`, `CandidateContrasts` and
  `TradeOff` about a graph that has not changed since the endpoints were snapped. What lies beyond is named
  with the hazards.
* `FreshUnlessRewritten`: whatever is activated, stored late or read back from Redis, an answer
  agrees with the tables unless the model was redefined or rescored after it was first activated.
  Entries of such a model stay until they expire: the key holds the model's id, which `finalize` and
  `compute-scores` keep.
* `NoBlindRoutes`: no statement of a request meets a model without scores, though they are replaced
  while it runs. It depends on the pipeline: `Activate` requires scores, `Rescore` is atomic.
* `ServedModelWasActive`, `ServesTheQuestion`: a hit is for the model looked up and the same question.
* `OnlyTheDatabaseFails`: 500 needs a failed statement, 503 that no model was active.
* `OneComponent`: once all rows have been checked, what is routable is fit and hangs together, although
  rows are added while the cleanup runs. `NeverStranded`: a request snapped to a clean graph that
  has not changed since finds its way.
* `TradeOff`: more weight on risk never makes a route shorter or more exposed, and the metres it adds
  are paid for by exposure. `CandidateContrasts`: the contrast route is there, and no safer.
* `ScoresAgree`: rounded and unrounded numbers of one answer, and the same score computed twice from
  different statements, do not contradict each other.
* `SteadyCrimesSeenOnce`, `StrictlyOrdered`: whatever is inserted or moved between pages, what stays
  is received once, and what is received is ordered. `LastLineWins`: batches do not change what a
  file says.
* `ResourcesSound`: whatever fails during a start, what was opened is closed, and what is used is open.
  `GracefulStop`, `StatementsKeepTheirConnection`, `StopsInOrder`: a stop harms no request within its 30
  seconds, takes no connection from a statement after them, and comes to its end.
* `QuotaKept`, `RejectedForOwnHits`: however requests, failures of Redis before or after it counts, and
  restarts of the process interleave, as long as Redis keeps its counters a client gets no more than its limit
  while a counter lives, less than twice the limit in any period, and a 429 only for what it asked of that
  endpoint itself. The run has one client and one process: it tells endpoints apart, and reaches nearly twice
  the limit for the limit 1; that addresses are told apart, and that processes share the counters, rests on
  the theorems `RejectionsAreDeserved` and `QuotasAreKept`.

*Bounds of the auth runs.* Two requests are enough for every race of the code: a row is contended by its lock holder
and one waiter, and further waiters behave as the first. Three sessions allow a login and two
rotations, so two successors of one token or a chain of three. `RefreshTTL = 1` and `MaxClock = 2`
make a token expire within the run, including exactly at the boundary. `Room` admits a request
that may insert a row only while an identifier is left for it, so that running out of identifiers
(a bound of the model, not of the program) never blocks a request in the middle. Symmetry is used
on sessions and requests in the safety runs only: no operator chooses among them.

*Bounds of the pipeline runs.* Two programs: a row or a set of scores has one holder, and further
waiters behave as the first; the unique index concerns pairs. `MaxCommands` bounds how often the operator
starts each command: `Evaluations` (calibrate, evaluate, two finalizes) is what it takes to approve a
candidate, judge it again, write over it and finalize it, while another program runs and either may fail;
`Waits` puts a compute-scores in place of the evaluate, so that scores are rewritten from both sides. Two
`calibrate`s that overlap are not within the bounds; the theorems have no such bound. `final` and `first` may be
final models, `seed`, `first` and `second` base models, so that two activations can disagree and `first` can
be overwritten after it has passed. Two dates are enough to put a test window before, at and after the end of
the training. Two candidates make `calibrate` loop; two contexts let the scores change between them. Programs
are symmetric. The violation runs are as small as their traces allow.

*Bounds of the safe-routes run.* Two requests: entries have one writer and one reader at a time. Two
models, parameters and sets of scores, and `MaxChanges = 5` commits of the pipeline: both models are
scored and activated, and one is redefined, rescored or activated again. Two of the three profiles
make the loop go round. Four queries: two with one key, of which the graph serves one; one without a
path; an invalid one.

*Bounds of the route runs.* Six nodes and eight edges: two ways between neighbours with different
lengths and risks, a block, an island that only an edge too long connects, and a loop, so that each rule
that looks at the graph excludes something and rule 5 decides after rule 4. Two imports, in either order and
with cleanups between and across. Four tables of scores: a risky direct street, a short and very risky
one, scores on both sides of a threshold, none at all. One request, since requests share nothing here; one time bucket is
asked for, and all are aggregated. `K = 2` of at most three paths, so that candidates are left out.

*Bounds of the crimes run.* Three crimes, at two distances within the radius, so that some tie, or
beyond it; files of up to three lines in batches of two, so that a crime may come twice in a
batch and in two batches. One run of the loader commits at one point of the client's pages; a second
would be one more set of changes at one more point.

*Bounds of the process run.* One process and two requests for one connection: one waits while the
other holds it. Two statements of the handler of `login`, one of the auth middleware and one of the handler of
`routes`, so that a connection is given back and asked for again during the shutdown, with the limiter
between or before. A window of two ticks in a time of three, so that a counter expires and a period spans two
counters; three arrivals exceed the limits 2 and 1. Several processes share the counters only, where
two requests of one process race as well.

*Deadlock* is checked in every run but those of the pipeline: a state without successor would be a
request waiting for a lock or a connection that nobody holds or releases. The pipeline really stops
when the operator has started `MaxCommands` commands; that no program is left waiting then is
`ProgramsEnd`.

*Fairness of the auth runs* (`FairSpec`): weak fairness of each request's own steps — goroutines are scheduled, and
Postgres answers a statement — and strong fairness of the two statements that wait for a row
lock, because Postgres grants a row lock to its waiters in order. Arrivals, the clock, faults and
the operator have no fairness. Liveness is not claimed across an outage: a failing statement
answers the request with 500.

*Fairness of the pipeline*: weak fairness of each program's own steps, because the operating system
schedules it and Postgres answers. It is enough for a waiting program too: only finitely many
commands are started, so in the end nobody is left to overtake it. Commands need not be started.

*Fairness of the process* (`FairSpec` of `ApiProcess`): weak fairness of `main` and of each handler's
own steps, which are scheduled, end their statements and see their timers fire; strong fairness of
`Acquire`, because the pool hands connections to those who wait in turn. Signals, arrivals, failures of
the listener and starts have no fairness.

## 5. Proofs

For every value of the constants that satisfies the assumptions of `AuthSessions` (None is no
identifier, `Normal` is a function into addresses or None, the TTLs are positive, the clock bound
is a natural number): any number of users, sessions and concurrent requests.

* `TypeCorrect`. `TypeOK` is not inductive: a row is typed because the request that inserts it has
  a user, and a cookie because the request that grants it has a session. `Ready` says what a
  request carries at each label (`Fits`), and `TypeInv == TypeOK /\ Ready` is inductive, with one
  lemma per group of actions.
* `RotationInv` is the conjunction of `LinksSound`, `SuccessorsSound`, `ChainsEnd`,
  `LocksHeldByRotations`, `TransactionsSound` and `Unborn` (rows not stored have no parent, so a
  login's row has none). The conjuncts need each other: the link of a commit is sound because the
  request holds the lock of a live row (`LocksHeldByRotations`), whose data it read earlier
  (`TransactionsSound`); the chain still ends because the new row is fresh and links nowhere.
  Actions that take no part in a transaction are dealt with by one lemma (`Quiet`): every request
  keeps its part in the transactions or leaves them, giving back its lock. The others have a lemma
  each. The five invariants are theorems.
* `TableMoves` classifies what a step does to the table (nothing, revoke, issue, replace).
  `RevokedRowsStayFrozen` and `TableImplementsStore` (`Spec => ImplementsStore`) follow.
* `ClientInv`, relative to `RotationInv`: `ToldInv` says of every request, from its label alone, what it may
  have recorded and is about to tell (`Told`). A login or refresh that has written its session has a stored row
  of its user and instant (`Opened`), a logout about to be confirmed a revoked one (`Closed`), a token that was
  stale on arrival has not passed the lookup, and whoever is let in was seen active. Waiting requests keep this
  because every step keeps rows, revocations and accounts (`RowsKept`, `ToldStays`), moving ones by a lemma for
  each action. Only answers change what clients hold, so `GrantsAreBacked` and `LoggedOutIsRevoked` are inductive
  with it. `StaleTokensNeverRotate`, `RecordsAlwaysTrue`, `GrantsAlwaysBacked`, `LoggedOutStaysRevoked` and
  `InactiveStaysOut` follow.

For every value of the constants of `RiskModels` (None is no value of another kind, the grid is a
table, the bounds are naturals): any number of models, programs, candidates, contexts and commands.

* `PipelineTypeCorrect`. What a program carries at each label (`Fits`, `Known`) strengthens `TypeOK`
  to the inductive `TypeInv`: a statement writes what an earlier one has read.
* `RegistryInv` adds to `OneActive` and `ActiveIsScored`: scored models are stored; a program that is
  scoring has a stored target, one that activates a scored one (`Placed`); a program about to commit
  an activation has every active row among those it will clear, and is alone there (`OneCommits`),
  which is what the unique index establishes at `Activate` and nobody may disturb before the commit.
  `AtMostOneActive` and `ActiveAlwaysScored` follow.
* `RegistryMoves` classifies what a step does to the tables (nothing, define, rescore, activate);
  `PipelineImplementsRegistry` (`Spec => ImplementsRegistry`) follows.
* `ApprovalInv` follows an approval from the run to the row. A run has recorded the parameters of its model,
  and a finalize has read those of its base: either is what the row still says, or an upsert has changed the
  row and it is `overwritten` (`RunsRecord`, `Vetted`). So when `FindApproval` meets a run that has passed, what
  is about to be written is approved. A run is judged by the program that started it and by no other, and
  has not passed before (`OwnRuns`, `Vetted`), so that nothing takes an approval back. `FinalsAlwaysApproved`
  follows, without a condition on names, grids, programs or failures.
* `WorkInv` is about the models that are not `disturbed`: at most one program has one as its target
  (`SharingRecorded`), its scores are those of its row unless that program has upserted it and is about to
  score it (`Mending`), what that program has read is still what the row says (`UpToDate`), and a run has found
  nothing but scores of what it recorded (`JudgesItsOwn`). `ScoresStayCurrent` and `RunsJudgeWhatTheyRecord`
  follow. Of a disturbed model neither holds.

For every value of the constants of `SafeRoutes` (None is no value of another kind, `Resolved` and
`Outcome` are tables, at least one profile): any number of requests, models, keys and changes, and
whatever `Events` happen.

* `IInv` follows a request: what it carries at a label (`RequestOK`) is what the next statement
  needs — the model it found is scored and was seen active, its query can be routed once a route was
  found, `reads` holds no None — and an entry is sound for its key (`EntryOK`). `RegistryKept` supplies
  what the pipeline promises. `TypeCorrect`, `RoutesAreNeverBlind`, `AnswersAreOfServedModels` and
  `HitsAnswerTheQuestion` follow.
* `FreshInv`, relative to `IInv`: what a request has read so far, an answer and an entry agree with the
  tables, or the model has been served and rewritten. The active model is in `served`, so a rewriting
  between two statements is always taken down. `OnlyRewritingMakesStale` follows.
* `FailureInv`: a request that is not answered has no status, whatever the cache did; one with 500 has
  failed; one with 503 has seen no active model, because there is no way back to none once there was one.
  `OnlyStatementsFail` follows.

For every value of the constants of `RoadGraph` and `RouteChoice` that satisfies their assumptions: any
graph, any imports, any table of risks, any increasing multipliers.

* `GraphInv` says what a running cleanup has reached. `CleanupSound`: it has written every row that was
  checked, and what it has left routable breaks no rule it has passed. `ComponentKept`: after rule 5, what it
  leaves routable hangs together, unless there are rows it has not written; those were imported meanwhile and
  stay unchecked, so that the graph is not clean after the commit either. That the edges which rule 5 keeps
  connect the component they lie in is `ComponentHangsTogether`. `OneComponentHolds` follows.
* Sums and walks are recursive functions. That such a function exists is `Recursion`, from `Induction`: a set
  that contains 0 and each successor contains the naturals, because `<` is well founded (`LeastNat`). A set
  takes the place of the predicate, which the library's theorem would have as a parameter. Hence `Sum` and
  `Walks` unfold, sums are naturals, grow with their weights and agree when these do (`SumIsNat`,
  `SumsCompared`, `SumsAgree`), and there are finitely many simple paths (`WalksAreFinite`,
  `PathsAreFinite`).
* `CheapestKept`: as long as the graph is as the endpoints saw it, every route found is a cheapest one of its
  profile among the same paths. `TwoCheapest` is the arithmetic of two weights. `TradeOffHolds` follows.
* `PlaceInv` says where a request that was snapped to a clean graph stands (`Placed`): between nodes of
  routable edges, which hang together. The model defines hanging together by cuts;
  `PathExists` makes a simple path of it: the nodes that some walk reaches from one side are a cut without an
  edge across, so they are all nodes, and a shortest walk passes none twice. So no profile finds nothing, and
  `NobodyIsStranded` (`NeverStranded`) follows.
* `ChoiceInv` adds what is kept of a candidate (`CandidateKept`). The fastest route is as short as the
  shortest path, since its multiplier is 0 (`FastestIsShortest`), and the K shortest contain every path that
  ties with it when they are not more than K (`PoolHasShortest`, on cardinalities); so the fastest is itself
  among those that the candidate with the highest score is taken from. `CandidateIsNoSafer`
  (`CandidateContrasts`) follows.
* The numbers of an answer: rounding and levels are monotone (`RoundIsMonotone`, `LevelIsMonotone`), the
  blend lies between the mean and the largest risk (`BlendFacts`), the score computed from the steps of a
  path is that computed from its edges (`RouteScoreIsScoreAt`, `BucketRiskIsScoreAt`), the rounded high-risk
  metres lie between the rounded length of any high-risk edge and the distance shown (`SumIsNoLess`,
  `HighRiskAgrees`), so the worst bucket
  (`PeakIsWorst`) and the comparison with the fastest (`ReductionShows`) are about the numbers shown.
  `NumbersOfAnAnswerAgree` (`ScoresAgree`) follows.

For every value of the constants of `CrimesPaging` that satisfies its assumptions (finitely many crimes; None is
no row, no cursor and no distance; batches of at least one line): any crimes, distances, limits, and files of
any length.

* `Rank` is an injection of the rows beyond the cursor onto the numbers below their count (`RankOrders`, `RankOnto`),
  so `Sorted` has every row once and in order (`SortedIsSorted`). `PageContinues` says of a page that its rows
  are those beyond the cursor, up to the next cursor, and all of them.
* `TablesInv`: ids are unique and drawn from the sequence, in the committed table and in that of the open
  transaction, and a row keeps its id. `LoaderInv`: what the last line about a crime says stands in the batch
  or, if it is not there, in the table (`LastStands`); a batch has no crime twice; ids suffice for the lines
  that are left (`IdsLeft`, which typing needs). `ScanInv`: the cursor is not before anything received, and a
  crime that has not moved is received if and only if the pages have passed its place (`SteadySeen`).
* A commit keeps `ScanInv` because it changes only crimes that it counts as changed. `TypeCorrect`,
  `PagesAreOrdered`, `PagesMissNothing` and `LastLinesCount` follow from the conjunction `Inv`.

For every value of the constants of `ApiProcess` (`SlotAssumption`: finitely many slots): any number of
processes, configurations, clients and connections.

* `IInv` says for each process what is open at each stage (`ServiceOK`) and for each request that its process
  still serves it (`Served`): before the deadline nothing a request needs is closed. It is inductive, with a
  lemma for every action. `TypeCorrect`, `ResourcesAreSound` and `StopsAreGraceful` follow.
* `PoolKept`: no more holders than connections, and as long as there is one `main` has not gone past
  `pool.Close`; by the library's theorems about finite sets. `ConnectionsAreKept` follows.
* `QuotaInv` says of each counter (`Metered`): since its first hit, no more were let through than it has
  counted, or than its limit, and that hit was at its first instant (`Since`); when no counter lives, every
  period that ends now and is shorter than a window has seen fewer than the limit (`Quiet`). A counter dies
  one window after its first hit, so a period of a window meets at most two, and of one of them not the first
  hit: less than twice the limit (`Bounded`). `QuotasAreKept` follows, and, since a counter has not counted
  more than it was asked (`count <= Num(asked, …)`), the action property `RejectionsAreDeserved`.

Stated and proved without a run of their own: `LocksHeldByRotations`, `TransactionsSound` and
`RevokedRowsFrozen` of `AuthSessions`, `ActiveIsScored` of `RiskModels`. TLC has found no counterexample to
them either; the runs keep what they are needed for.

Only model-checked: what is liveness under fairness, out of the prover's reach (`Answered`, `ProgramsEnd`,
`StopsInOrder`), and the three violations, which are traces.

## 6. Not modelled

* Planned: snapping of crimes and neighbourhoods (`Neighborhoods`); the browser's single cookie.
* `GetStats` of the road graph, health and observability only read counters; the ORS proxy makes one outgoing
  call with a timeout and keeps no state.
* The report on route quality computes routes offline and adds an evaluation run of a type that
  `PASSED_RUN_SQL` ignores; the Mongo loader feeds nothing the API reads; the benchmarks are load generators.
* Environment parsing, logging, CORS, JSON bodies and documentation pages are input and output.
* Inside auth: bcrypt, JWT signing and parsing, cookie attributes.
* Inside the pipeline: the kernel density estimate itself, the metrics and the gate of `evaluate`.
* Inside safe routes: geometry, crime counts and the dominant factor, durations, the hit and error counters.
