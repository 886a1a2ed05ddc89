# CortexAI in TLA+

CortexAI is an HTTP gateway, written in Go, that lets an LLM answer questions
about data in BigQuery, PostgreSQL and Elasticsearch. This directory holds TLA+
specifications of the parts of it whose correctness depends on what happens
when, TLC configurations that check them on small instances, and TLAPS proofs of
their main properties for every instance. `PROJECT.json` has, for each
definition, the lines of code it stands for.

    tlc -workers 2 -config RateLimiter.cfg MCRateLimiter     # check
    tlapm RateLimiterProofs.tla                              # prove

All paths below are relative to the repository.

## The system

A request goes through the middleware of `internal/server/routes.go` (recovery,
request id, logging, headers, CORS, the client's address, rate limit, API key,
role), then to a handler. `query-agent` is the heart: the HTTP handler resolves
the user's persona (LLM, prompt style, tools), routes the question to a data
source, and calls that source's agent handler; this checks the prompt, looks
into its response cache, puts the schema of the dataset into the system prompt,
runs the agent loop (LLM and tools in turn), and validates, costs, executes and
masks the SQL that comes out.

| Component | State | Operations | Interacts with |
|---|---|---|---|
| rate limiter (`internal/middleware/ratelimit.go`) | map of windows, each a slice of stamps; two kinds of mutex; a ticker | `window`, `allow`, `cleanup` | every request; its own goroutine |
| schema caches (`internal/agent/bigquery_handler.go`, `postgres_handler.go`) | TTL map, singleflight group | `get`, `set`, `invalidate`, `getSchemaSection` | handlers, admin endpoint, database |
| response caches (same files) | TTL map of pointers to responses | `get`, `set`, `flush` | handlers, HTTP handler that labels and encodes, admin endpoint |
| agent loop (`cortex_agent.go`, `deepseek_agent.go`) | conversation, iteration, last statement | `run` | LLM API, tools |
| agent handlers (`*_handler.go`) | the caches; the personas' slices of excluded tools | `Handle`, `HandleStream` | loop, caches, services, security |
| agent HTTP handler (`internal/handler/agent.go`) | none | `QueryAgent`, `QueryAgentStream` | agent handlers, router, LLM pool |
| request gate (`internal/server/routes.go`, middleware, `llm_pool.go`) | user store and pool, fixed at start | authentication, roles, personas | all handlers |
| direct API (`internal/handler/query.go`, `datasets.go`, `tables.go`) | none | `Execute`, `ListDatasets`, `GetDataset`, `ListTables`, `GetTable` | BigQuery, security |
| security (`internal/security`) | patterns and limits | validate, detect, mask, check cost, log | handlers |
| data services (`internal/service/bigquery.go`, `postgres.go`, `elasticsearch.go`) | a job for each query; `max_conns` connections; index patterns | `ExecuteQuery`, listings, `ExplainCost`, `Search`, `WithPatterns` | direct API, tools, agent handlers |
| lifecycle (`internal/server/server.go`, `internal/service/postgres_pool.go`) | clients, pools opened lazily | `GetPool`, `Close`, `CloseAll`, `Run` | handlers, signals |
| startup (`internal/config`, `routes.go`, `user_store.go`, `llm_pool.go`) | settings, tables of squads and users, LLM runners, routes | `Load`, `NewUserStore`, `Register`, `setupRoutes` | everything after it |
| LLM tools (`internal/tools`) | none | one call each | services |
| intent router (`internal/service/router.go`) | none | score a prompt | agent HTTP handler |
| the rest: user and health handlers, prompts | none | pass-through | services |

What is hard here, and what correctness means:

* **Rate limiter.** Lookup and charge are two critical sections with cleanup
  able to run between them. No window may admit more than the limit in a minute;
  cleanup may forget only what no longer counts; nobody waits for ever.
* **Schema cache.** Concurrent misses, expiry, invalidation during a fetch,
  failing database calls, a leader whose client leaves. One fetch at a time; an
  invalidation is honoured; a section is complete; a leader that fails or goes
  away releases who waits for it.
* **Response cache.** Entries are shared pointers written without a lock. An
  answer belongs to the question under whose key it lies; flushes hold; labels
  belong to the request that gets them; a crash of the process leaves no half
  answers.
* **Agent loop.** The LLM may call anything, in any order, for ever. Rounds are
  bounded, every tool call has its result, the remembered statement is the one
  that ran last.
* **Agent handlers.** Many early returns. A dry run executes nothing; rows are
  returned only after every check; a stream ends with one terminal event; no LLM
  can keep a request from ending.
* **Lifecycle.** A ten-second shutdown against requests that last longer, and
  pools that handlers open meanwhile. One pool to a database; nothing closed
  under a handler before its time; nothing left open.
* **Data services.** Calls fail between any two steps, contexts end, a pool runs
  out of connections, one Elasticsearch service serves squads that may see
  different indices, and the LLM may ask it for any expression. An answer is
  whole or an error; connections come back; nobody is told of what its own
  patterns did not let through; what a query's client gets and what the logs say
  agree; a deadline is kept whatever the database does.
* **Startup.** Two loops over one list build two tables, and a loop over a Go
  map fills the LLM pool in an order nobody knows. The tables should agree, and
  a persona get the LLM it was configured with; both hold with an exception.
* **Gate and tools.** Role and source are checked before and after routing, by
  different code. Nobody is served by a source that is barred; nobody is offered
  a tool that is excluded, although requests append to one slice.

`PROJECT.json` lists the hazards line by line, with the properties that cover
each, or why none does.

## The modules

`X` is the component, `MCX` its instance for TLC, `XProofs` its theorems. Each
module models whole operations; an action ends where another goroutine can see
the difference: at a lock, a map access, a call to the outside.

**`RateLimiter`**, 3 requests in TLC. `Lookup` is `window()`, under
`RateLimiter.mu`; `Admit` and `Deny` are `allow()`, under the lock of the window
the request holds; `CleanupStart`, `CleanupVisit` and `CleanupEnd` are the
sweep, which keeps `RateLimiter.mu` (`sweeping`) and takes each window's lock in
turn; `Tick` is the clock, with the ticker's channel of one. A window object is
named by the request that made it, so one that the map has dropped can still be
charged, as in Go. `strays` remembers which requests were charged to such a one.
**`SlidingWindow`** is what clients are promised: each request is counted by its
key's counter, which forgets nothing, and is admitted exactly when fewer than
the limit were charged to it within the last minute; a key gets a new counter
only when nothing on its old one counts any more. Neither slices, locks nor
sweeps are in it.

**`SchemaCache`**. `BeginHit`/`BeginMiss` are the first `get`; `Lead`/`Join` are
`sf.Do`; then the leader's `DoubleCheckHit`/`DoubleCheckMiss`, `ListTables`,
`GetTableSchema` one by one, each of which can fail, `Store`, and `Return`,
which releases all who wait. `Disconnect` cancels the leader's context: every
later call of its fetch fails. `OwnStep` is what a request does of itself,
`DatabaseAnswers` what it waits for. `Alter`, `Expire` and `Invalidate` come
from outside. A section is a function from tables to the version at which each
was read. `floor`, `firm`, `need`, `troubled` are history.

**`ResponseCache`**, from `QueryAgent` through `Handle` and back, with
`responseCache` in the middle, and **`ResponseMemo`**, what clients may rely on:
an answer is one's own, or was made for the same key, neither being a dry run.
The pipeline between miss and `set` is one step. `MarkHit` and `Label` write
into the map of the response held, which may be held by others. `Fault` is Go's
fatal error for a map used by two goroutines, one of which writes: a data race,
so an outcome that may or may not happen; it ends all requests and empties the
cache.

**`AgentLoop`** is `run` of both LLM clients, which differ in wire format only:
`Ask` is the head of the loop, `Answer`, `CallTools` and `ForceAnswer` are what
can come of the reply, `RunTool` executes the next call, `GoRound` puts the
results into the conversation. A text is the statement `extractSQL` finds in it,
or none.

**`AgentPipeline`** extends it with the handler around it: `Block`/`Pass`,
`Prepare` (the tools are filtered, the schema section is read, the run begins),
the run, `Extract`, `Invalid`/`Valid`, `TooDear`/`NotTooDear` (PostgreSQL's
EXPLAIN), `ExecuteSucceeds`/`ExecuteFails`, `Finish`. `source`, `dry`, `stream`,
`dataset` and `excluded` choose the path, so one specification covers the five
entry points. The names a dry run appends to its persona's slice may be
overwritten by another request's before they are read: where the persona's array
is `shared` with such requests, `Prepare` loses any of them (`Overwritten`).
What validators, detectors and trackers decide is a choice. The events of a
stream are kept as the last one and the number of terminal ones. It uses no
cache: it is the request that misses, and what is one step in `ResponseCache`.

**`Lifecycle`** is `Server.Run` (`phase`) with the handlers it waits for and
what they hold. `Resolve` is `PGPoolRegistry.Get`; `PoolHit`, `PoolMiss` and
`GetPool` are `PostgresService.GetPool` before and after it changes its lock;
`NextCall` goes round again, for each tool call and query asks for the pool
anew. `Drained` and `GraceOver` are the two ways `Shutdown` returns;
`CloseBigQuery`, `CloseService` and `CloseAllEnds` follow. `CloseAll` keeps the
registry's lock, so `Resolve` waits for it, and handlers that are past it go on:
one may open a pool again after its service was closed, and be its only user
when the process ends. `CleanExit` and `OnePoolPerDatabase` say how far that
goes.

**`RequestGate`** is the way from the key to the tools: `Authenticate` (`Auth`),
`RequireRole`, then `QueryAgent` with `Malformed`, `Choose` (the source that is
asked for, or `Route`'s, and `checkDataSourceAllowed`), `Unavailable`,
`PanicWithoutRunner`, `Dispatch`; then the handler as far as `filterTools`:
`AppendExecute`, `AppendInspection` or `MoveInspection`, `ReadName` for each
name, `Offer`. `cells` is the array behind a persona's `ExcludedTools`, `len`
and `moved` are the request's slice of it. An append that fits writes name by
name; one that does not copies the slice. `ReturnEarly` stands for the checks,
the cache and PostgreSQL's own access checks. A name that is no source's
(`"other"`) is served by the switch's default branch, BigQuery; a persona may
allow such a name. `AgentPipeline` begins with what `RequestGate` has offered;
that `DryRunToolsHidden` fails here is why a dry run's exclusions are uncertain
there.

**`DataService`** has the calls of the three services, any number at a time.
`Begin` is the call of a method, with or without a deadline; `RunJob`,
`JobEnds`, `Wait` and `ReadRow` are BigQuery's `ExecuteQuery` and its job;
`BeginTx` or `Connect` wait for one of the pool's connections, `SetTimeout`,
`SendQuery`, `ScanRow` use it, and `Return` gives it back; `CheckIndex` and
`Search` or `ListIndices` are Elasticsearch's, on the service object (`service`,
`allowed`) that `ServiceFor` chose. `Fails` can end a call wherever it is and is
all a call can do once its context is over. Rows and entries are counted, not
told apart: `size` is what the database has, `got` what was read. A search is
for an expression: an index, a wildcard, a list of them. The check compares it
as a string with the patterns (`Matches`); which indices the cluster then takes
it for is `Reaches`, of which nothing is assumed but that an index's name stands
for that index.

**`DirectApi`** extends it with who calls: a REST endpoint or an agent. `Offers`
lists the methods each may call and whether with a deadline; the schema section
that a handler reads before the run has none (`agent/postgres_handler.go:233`,
before line 236 sets it). `Refuse` is a reply without a call. `QueryFails`,
`QueryTooDear` and `QueryAnswered` are the three ways `Execute` goes on after
BigQuery, with their entries in the two logs; the other replies are those of the
dataset and table endpoints.

**`Startup`** is the way from the configuration to the routes, once: `Load`
(file over defaults, environment over file), `StartServices`, then the loops as
actions of one round each: `RegisterSquad` and `AddSquad` over the squads,
`AddUser` over users and legacy keys, `SetFallback`, `Register` over the
personas in any order, `ServeRoutes`. A table of squads has the index of the
entry it took, which is what the property compares. A configuration is a record
of what later steps look at.

```
RateLimiter   --implements--> SlidingWindow   (checked and proved: ImplementsSlidingWindow)
AgentPipeline --extends--> AgentLoop          (proved: HandlerRunsLoop, Spec => LoopSpec)
DirectApi     --extends--> DataService
ResponseCache --implements--> ResponseMemo    (checked and proved: ImplementsMemo)
```

## The runs

| Run | Distinct states | What it shows |
|---|---|---|
| `rate_limiter` | 197,616 | `WindowLimit`, `KeyLimitBarringStrays`, `CleanupForgetsNothing`, `ImplementsSlidingWindow`, `EveryRequestAnswered` |
| `schema_cache` | 352,028 | `OneFetchPerDataset`, `LiveEntryNotOverwritten`, `InvalidationHonoured`, `CompleteUnlessTroubled`, `EveryLookupReturns` |
| `schema_cache_stale` | violation | `InvalidationForcesRefetch`: an invalidation during a fetch is undone by it |
| `schema_cache_partial` | violation | `CachedSchemaComplete`: the leader's client leaves, and half a schema is cached for all |
| `response_cache` | 436,822 | `CachedForItsKey`, `FlushHonoured`, `OwnLabelsUnlessShared`, `ImplementsMemo` |
| `response_cache_label` | violation | `OwnTagAlways`: the maker of a response is told "hit" |
| `agent_pipeline` | 105,320 | `CallsBounded`, `EveryCallAnswered`, `FallbackIsLastRun`, `TerminalEventLast`, `DryRunExecutesNothing`, `RowsAreChecked`, `RequestEnds` |
| `lifecycle` | 233,757 | `OnePoolPerDatabase`, `GracefulClose`, `CleanExit`, `ServerStops` |
| `request_gate` | 218,190 | `PersonaTools`, `DryRunToolsHiddenUnlessMixed`, `OnlyAllowedServed` |
| `request_gate_race` | violation | `DryRunToolsHidden`: two dry runs overwrite each other's name in the persona's array, and one is offered its execute tool |
| `direct_api` | 468,882 | `WholeOrNothing`, `OwnPatterns`, `QueryAccounted`, `TimedCallsReturn` |
| `startup` | 28,472 | `PersonaServedUnlessShared`, `SquadsAgreeUnlessOverwritten` |

Each passing run but `startup` and `rate_limiter`, whose types are proved only,
also checks its module's `TypeOK`, which includes who holds what where that is
not a matter of types (`FlightOK`, `HeldOK`).

**Findings.** A violation run states what a document, a comment or a name in the
code says, and TLC shows a behaviour of the code that is otherwise. Each has a
sibling in a passing run that says what does hold: `InvalidationHonoured` for
`InvalidationForcesRefetch`, `CompleteUnlessTroubled` for
`CachedSchemaComplete`, `OwnLabelsUnlessShared` for `OwnTagAlways`,
`DryRunToolsHiddenUnlessMixed` for `DryRunToolsHidden`. The lines and quotations
are in `PROJECT.json` under `findings`.

**Known divergences without a run.** What else the models show of the code that
a reader of its documents would not expect. Where a passing property would run
into one of these, it names the exception:

* PostgreSQL answers are keyed without the squad, which decides the server:
  `AnswerFromOwnServer` in `ResponseCache` states what one would expect, and TLC
  refutes it.
* A statement runs unchecked, labelled "cost_tracking: ok", when EXPLAIN fails
  or its plan is not understood: `CostEnforced` in `AgentPipeline`, likewise.
* A byte limit of 0 stops every BigQuery query that processes anything, while a
  comment in `server/integration_test.go:96` calls it no limit, and a PostgreSQL
  limit of 0 does stop nothing (`security/pg_cost_tracker.go:16`).
  `QueryAccounted` asks nothing of it.
* `WithPatterns(nil)` lets every index through, although its comment says that
  it keeps the patterns. Its one caller (`agent/elasticsearch_handler.go:113`)
  does not call it so, which `ServiceFor` models.
* `base_url` is to "override base URL for this persona" (`config/config.go:20`),
  but personas with one provider and model share one runner, so that of
  different base URLs whichever the map's order visits last holds for all.
  `PersonaServedUnlessShared` is about everybody else's URL.
* A squad entry without a server that comes after one of the same id with a
  server leaves the registry with that server and the user with the later
  entry's empty list of databases, which `agent/postgres_handler.go:172` takes
  for no restriction: the exception in `SquadsAgreeUnlessOverwritten`.
* The pattern check of Elasticsearch compares strings, while the tool takes any
  index expression (`tools/es_search.go:20-22`): `logs-a,secret` passes for the
  pattern `logs-*` (`service/elasticsearch.go:69-85`) and reaches `secret` as
  well. `OwnPatterns` says what is left: the expression was let through.
* `allowed_data_sources` is not validated, and the switch's default branch
  (`handler/agent.go:148`) serves every unknown name from BigQuery: a persona
  that allows a misspelt source may query BigQuery under that name.
  `OnlyAllowedServed` says that this is all it may.
* The schema section is read before the request's timeout is set
  (`agent/bigquery_handler.go:416` and 597, `agent/postgres_handler.go:233` and
  429): a database that does not answer keeps the request, and all that have
  joined its fetch, as long as the leader's client stays. `RequestEnds` and
  `EveryLookupReturns` name the case.

**Mutation runs.** For each property a definition of the model has a variant
with a slip a programmer could make (an off-by-one, a missing check, a wrong
order). With the variant in place TLC finds the property violated: it can tell
the code from its neighbours. The variants stand before the definitions they
replace and appear nowhere else.

### Bounds, and why they are enough

* *Rate limiter*: 3 requests, limit 2, one API key and one connection without, a
  minute of 3 clock units, a sweep every 2, the clock up to 4. Exceeding a limit
  of 2 takes three requests; the clock lets a charge expire, a sweep find an old
  and a young charge in one window, and two sweeps run. The code sweeps every
  five minutes; sweeping more often only adds behaviours.
* *Schema cache*: 3 requests, one dataset, 2 tables, one schema change. A
  leader, one that joins, and one that comes after; datasets share nothing but
  the map; two tables are enough for a fetch to be half done; one change is
  enough to tell old from new.
* *Response cache*: 3 requests by any of 3 users of whom two share a prompt
  style, with and without dry run, one prompt and one dataset (keys differ by
  style; prompt and dataset enter the key the same way). Of the two who share,
  one has no persona, and they are of different squads.
* *Agent pipeline*: one request (runs share nothing but the caches). The answer
  is forced in the third of four iterations rather than the eighth of ten; at
  most two calls in a reply; two statements; the execute tools of both
  databases, one of which is never offered, and a call without a statement
  standing for all other tools; personas that exclude nothing or inspection, in
  an array that others write to or not.
* *Lifecycle*: 3 requests, 2 databases on 2 squads' servers and BigQuery, a
  grace of 1 and a clock to 2. Two requests race for one pool while a third asks
  another server; the grace can be over before the end of the clock.
* *Request gate*: 2 requests with keys of five users (analysts with and without
  persona, administrator, viewer), a legacy key, an unknown one and none. Of the
  personas one excludes three tools in an array for four and may query
  everything, one excludes nine in an array for sixteen and may query PostgreSQL
  only: the one has room for a dry run's first name, the other for all four. A
  third excludes nothing and allows a source there is none of. Two requests
  suffice for one to write what the other reads.

* *Direct API*: 2 calls of any two methods, a pool of one connection, answers of
  at most one item, a byte limit of 1, two patterns that match an index each:
  the configuration has the one, a squad the other or none. A third expression
  passes the configuration's pattern and reaches both indices. Two calls compete
  for one connection, one of them without a deadline; one item can be read or be
  missing; a job's bytes are on either side of the limit.
* *Startup*: all maps of 3 personas into 5 configurations, in every order; all
  lists of up to 3 squads under 2 ids, with and without a server; 4
  environments, with switches given as "1", "true" and "yes". Three entries
  under two ids suffice for one to overwrite another with and without one
  between them.

Every bound is a constant (`MaxTime`, `MaxVersion`, `MaxIter`, `MaxCalls`), and
the theorems hold for all their values.

`CHECK_DEADLOCK FALSE` is where the modelled system does come to its end: the
clock stops and every request is answered; the one request of the pipeline ends;
the server exits; the requests at the gate have their tools; the calls of the
direct API are answered; the routes are up. The response cache may always be
flushed, so deadlock is checked there.

### Fairness

* *Rate limiter*: weak fairness of `allow()` and of each step of a sweep: a
  goroutine that can run does. Strong fairness of `Lookup`: sweeps take the lock
  again and again, and a Go mutex that has kept a goroutine waiting for a
  millisecond is handed to it. None for `Arrive` and `Tick`.
* *Schema cache*: weak fairness of what each request does of itself, and of the
  return of a call whose context has been cancelled. Any other call of a fetch
  may never return, for it has no deadline; so `EveryLookupReturns` has the
  exception that such a call is out for ever. None for expiry, invalidation,
  alteration, disconnection, or the arrival of requests.
* *Agent pipeline*: weak fairness of all steps but `Prepare` where it reads the
  schema. They are one goroutine's, and the calls it waits for end with the
  context's timeout at the latest (`context.WithTimeout`,
  `AgentRequest.SetDefaults`); the schema is read on the HTTP request's context,
  before that timeout is set, and may never come (`FetchingSchema`).
* *Lifecycle*: weak fairness of the clock and of `Run` once it stops. None for
  handlers: `ServerStops` holds though they work for ever. The locks `CloseAll`
  takes are held over map accesses only, so waiting for them is no step of its
  own.
* *Direct API*: weak fairness of a deadline's passing, of a call's going on once
  its context is over, and of the replies: timers fire, clients of the three
  services watch their contexts, and goroutines that can run do. Nothing is
  assumed of the databases and the clients, which may be silent for ever, so
  `TimedCallsReturn` is about calls with a deadline; those without may hold
  their connection for ever.
* *Response cache*, *request gate*, *startup*: no liveness is claimed; they have
  no fairness.

## The proofs

Every theorem is for all values of the constants that satisfy the module's
`ASSUME`: any number of requests (infinitely many included, except where
finiteness is proved along the way), any limit, any number of tables. The
assumptions say that the markers for "none" are not among the things they mark,
that bounds are natural numbers, that tables (which `ListTables` returns in a
slice) and squads (entries of the configuration) are finitely many, that the
user's attributes are functions and, for the loop, `ForceAt < MaxIter`, as 7 <
10 in the code.

* **`RateLimiterProofs`**: all safety properties of its run. `WindowLimit` is
  not inductive: one must know that no charge is in the future (`ChargesPast`),
  that a request past the lookup holds a window (`HoldsWindow`), and that a
  window's slice lists only charges on it and all those younger than a minute,
  no more than the limit (`WindowKeeps`). The heart is `AdmitKeepsLimit`: the
  charges within a minute of the new one are those `allow()` kept, and they were
  fewer than the limit. `KeyInv` goes on from there: every charge of a key that
  still counts is on the one window the map has for it, strays aside
  (`RecentOnWindow`), and a sweep's cutoff is at least a minute behind the clock
  (`CutoffPast`). With these `KeyLimitBarringStrays` reduces to the limit of one
  window, and a window that cleanup finds idle has expired (`IdleIsExpired`),
  hence `CleanupForgetsNothing`. `ImplementsSlidingWindow` needs both: what
  `allow()` keeps of a window are all the charges on it that count
  (`ValidIsCounting`), so it decides as a counter would that never forgets; what
  a sweep drops has none; and the window a request creates is one no key has and
  nobody was ever charged to (`Unused`). `PromiseStep` then shows each step to
  be one of `SlidingWindow` or a stutter.
* **`SchemaCacheProofs`**: `TypeOK`, `OneFetchPerDataset`,
  `LiveEntryNotOverwritten`, `InvalidationHonoured`, `CompleteUnlessTroubled`.
  `FlightOK`, a conjunct of `TypeOK`, is what makes one fetch one.
  `FetchedIsAbsent` (while a dataset is being fetched its entry is absent:
  nobody but the fetch stores) gives the second; bounds on the history
  (`FirmBounds`, `NeedBounds`: all that is cached or being read is at least as
  new as the last invalidation that met no flight) the third; `Complete` (what
  has been read and what is pending are together all tables) the fourth.
  `SchemaCacheLookupsAdvance` is what `EveryLookupReturns` rests on: `Remaining`
  counts the steps until a lookup is out, which are taken by its `Worker`
  (itself, or the leader of the flight it has joined); there always is a worker,
  no other step adds to the count, and each of the worker's takes from it,
  although a leader's calls may fail and its client leave.
* **`ResponseCacheProofs`**: all the properties of its run. `HeldFor` (what a
  request holds was made for its key) carries `CachedForItsKey` and the
  refinement; `RetiredInv` (the cache has nothing that was made before the last
  flush) `FlushHonoured`; `LabelsInv` (at each stage, a request that does not
  share its response finds its own labels there) `OwnLabelsUnlessShared`.
  `ImplementsMemo` maps what the clients have received; `MemoStep` shows each
  step to be one of `ResponseMemo` or a stutter.
* **`AgentPipelineProofs`**, first the loop: `LoopTypeOK`, `CallsBounded`,
  `EveryCallAnswered`, `FallbackIsLastRun`, from `LoopInv`. Its conjunct
  `Rounds` ties calls made, iteration and place in the loop together, and calls
  and results in the conversation with those pending; `NoToolNoRun` says that
  without an execute tool nothing runs. Then the handler: `HandlerRunsLoop`,
  that a step of a handler is one of the loop or leaves it alone, hence `Spec =>
  LoopSpec` and all that is proved of the loop. `PipelineInv` adds `Announced`
  (no terminal event before the end), `ExecutesOnlyInEarnest` (a dry run never
  gets as far as validation and, unless its names can be overwritten, is never
  offered an execute tool) and `ChecksInOrder` (what has been established at
  each stage); from it `TypeOK`, `TerminalEventLast`, `DryRunExecutesNothing`,
  `RowsAreChecked`. `AgentPipelineStepsBounded` gives the number behind
  `RequestEnds`: `StepsLeft`, the rounds until the answer is forced
  (`RoundsCost`) with what is left of the current one and of the handler, begins
  at `ForceAt*(MaxCalls+3)+10`, and every step takes from it, whatever the LLM
  replies. TLC's longest behaviour has exactly that many steps.
* **`LifecycleProofs`**: `TypeOK` and the three safety properties, from
  `LifeInv`. `Stages` says what has been closed at each phase and that a
  shutdown in time finds nobody at work; `Tracked` that the pools which are open
  are those in the maps; `Closable` that until the end each of them, and each
  request past the registry, is of a squad `CloseAll` comes to. `CleanExit` is
  inductive only with that: after `CloseAll` a pool could be left of a squad it
  never visits. `LifecycleStopAdvances`: `Run` has at most four steps left and
  one for each squad (`StopLeft`), only its own steps change that, each of them
  takes from it, and the grace period ends when the clock can still get there.
* **`RequestGateProofs`**: all properties of its passing run, from `GateInv`,
  for any number of requests and any capacities. Nobody writes but behind its
  own slice (`WriteStep`), hence the configured names stay (`ConfiguredKept`);
  what was appended stays (`KeptOf`) where all who write are of one database
  (`OneDatabase`) and so write the same name in the same place; `KnownOf`
  carries both through the reading. For `PersonaTools` the other way round:
  behind the configured names there is nothing but names dry runs have written,
  each in the place of its kind (`BehindOK`), so a dry run finds no more than
  what it must not have anyway, and everybody else finds nothing (`SurplusOf`).
  `OnlyAllowedServed` follows from who is past the role and past `Choose`, for
  any lists of allowed names.
* **`DirectApiProofs`**: all safety properties of its run, for any number of
  calls. That the pool is never overdrawn is a conjunct of `TypeOK`
  (`ConnectionsOK`): those who have a connection are those between acquiring it
  and `Return`. `WholeInv` says what has been read at each step, `PatternsInv`
  that the shared object's patterns never change, a call's object has those of
  its squad (`OwnPatternsOf`), and what it was told of was found by what they
  let through (`Told`), `AccountsInv` that a request has entries only once it
  has been answered, and is answered only once its call has returned
  (`AnsweredLate`). `CallsTakeFewSteps`: each step of the system is one call's
  and takes from what that call has left (`CallLeft`, at most `MaxItems + 7`),
  and from no other's; so whoever waits for a connection waits for a bounded
  number of steps of those who have one.
* **`StartupProofs`**: types, `SquadsAgreeUnlessOverwritten`,
  `PersonaServedUnlessShared`, for any configurations and environments.
  `SquadInv`: while the loops run, each table has the last entry of an id among
  those visited (`TablesLast`), and users point where their squad's id does
  (`UsersSquads`). `PoolInv`: a runner is always that of some persona under its
  own key, and a key of a visited persona has one, so that a persona finds its
  own runner there, or that of one with its provider and model, which differs by
  the base URL at most.

Only model-checked: `EveryRequestAnswered`, `EveryLookupReturns`, `ServerStops`,
`RequestEnds` and `TimedCallsReturn`, being liveness under fairness: their
proofs would need to know when a step is `ENABLED`, which the prover does not
reason about. For all but the first the other half of the argument is proved,
that the steps to be taken are bounded and each takes one away; what is left to
TLC is that one of them can always be taken, by somebody whom fairness obliges
to.

## What is not modelled

* Validators, detectors and masking work on texts by regular expressions. The
  pipeline and the direct API take their outcome as a choice, the gate the
  router's counts.
* `HandleStream` is modelled as called. Whether the writer can flush is a fact
  of types (see the hazards).
* The user and health handlers keep no state: the one answers from the request's
  context, the other makes two checks in turn under one deadline of five
  seconds. `internal/handler/elasticsearch.go` is wired to no route. Prompts are
  texts.
* Settings that are only handed on (limits, timeouts, TTLs, CORS origins) are
  constants of the components that get them, not of `Startup`.
* How an index expression is matched with a pattern, character by character, and
  what the cluster takes it for: both are relations any of which is allowed.
* Time is left out of the caches: an entry may expire at any moment, which
  allows all that any TTL does.
* From the forced round on, the conversation has tool calls without results.
  Whether a provider accepts that is not in this repository, so
  `EveryCallAnswered` is about the calls from the head of the loop.

## Plan

In this order; all of it is done.

1. `RateLimiter` with its proofs.
2. `SchemaCache` with its proofs.
3. `ResponseMemo`, `ResponseCache`, refinement, proofs.
4. `AgentLoop`, `AgentPipeline`, composed, with proofs.
5. `Lifecycle` with its proofs.
6. `RequestGate` with its proofs: middleware, roles, personas, routing, and the
   slice of excluded tools that dry runs append to.
7. `DataService`, `DirectApi`: the calls of the services, and the endpoints
   without an agent, with their proofs.
8. `Startup`: configuration, tables of squads and users, LLM pool, with proofs.
9. Proofs of `KeyLimitBarringStrays` and `CleanupForgetsNothing`.
10. `SlidingWindow`, and that `RateLimiter` implements it.
11. The measures behind four of the liveness properties, with proofs.

What could follow: a composition of `AgentPipeline` with `ResponseCache`, whose
miss would then take the pipeline's steps; `Lifecycle` over `DataService`, so
that a pool is closed under the connections of single calls.
