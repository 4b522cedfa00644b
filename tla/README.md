# A TLA+ verification of kokoro-model

`kokoro-model` keeps a catalogue of model providers and revisions in
PostgreSQL, answers *which revision serves this tenant's label* over RPC and
HTTP, and caches the answers in Redis. This directory holds TLA+ modules of
the parts of it where order, concurrency and failure matter, the TLC
configurations that check them on small instances, and theorems about them
proved with TLAPS. Paths below are relative to the root of the repository.

    tlc -config MCRouteCache.cfg MCRouteCache        # check one instance
    tlapm RouteCacheProofs.tla                       # check the proofs

## 1. The system

| part | state | operations | talks to |
| --- | --- | --- | --- |
| model repository, `src/infrastructure/prisma/prisma-model-repository.ts` | rows of `model_provider`, `model_revision`, `model_label`, `model_routing_policy`, `model_provider_health_state` | ensure / set status / delete / restore of accounts and bindings, set health, upsert policy, ensure label, lists, `resolveModelBindings` | PostgreSQL through Prisma, one awaited statement after another |
| route resolver, `src/infrastructure/postgresql/model-resolver.ts` | what one call has read so far | `resolve` | the repository (three queries) and the policy table (a fourth) |
| route cache, `src/infrastructure/redis/model-cache.ts` | `kokoro:model:resolve:v1:*` in a Redis all replicas share | `resolve` (GET, query, SETEX), `withRedisInvalidation` (mutation, KEYS, DEL) | Redis, the resolver, the repository |
| schema and initial data, `prisma/schema.prisma`, `database/*.sql` | unique keys, defaults, initial rows | migration | the repository |
| application service and public catalogue, `src/application/model-service.ts` | none | forwards to the repository; composes the public catalogue from several reads | the repository, pagination |
| pagination, `src/application/pagination.ts` | none; the cursor carries offset and scope | `pageWindow` | HTTP |
| builtin seed, `src/bootstrap/` | none | three ensures in a row | the bare repository |
| RPC interface, `src/interfaces/rpc/` | a listening server and its connections | `ResolveModel`, start, shutdown | the cached resolver |
| HTTP interface, `src/interfaces/http/` | a listening server and its connections | admin writes, catalogue, `/resolve`, `/readyz`, start, shutdown | the service over the wrapped repository, the cached resolver |
| route access control, `packages/service-kit/src/http/route-access.ts` | the routes declared at start | decides the level of a path | HTTP |
| service-kit plumbing, admin manifest, generated protocol code | none | formatting, headers, schemas | HTTP |

What makes each of them hard, and what correctness means there:

- **Repository.** No transaction spans the statements of a method. A check
  (is the row deleted, is the revision publishable) and the write that relies on
  it can be separated by any other caller's statements, by a failure, or by the
  death of the process; a statement may commit and its answer be lost.
  Correct: an acknowledged ensure is live; a rejected call changed no route;
  only a restore brings a deleted row back; no policy pins what was never
  published; a policy never has two different contents under one generation.
- **Resolver.** Four queries read four moments. Correct: an answer is the route
  of a single moment unless the tenant's policy for the label was written meanwhile, and
  a query no write overlaps gives the true route.
- **Cache.** Fill and invalidation race; commands fail, or are applied and not
  acknowledged and sent again; some writes invalidate nothing. Correct: no stale entry
  without one of three named causes, no answer that replicas do not share, and
  every stale entry eventually gone.
- **Catalogue.** Two reads of the whole, then four per label, all labels at
  once, with filters of their own that must agree with the resolver's. Correct: every
  label that a revision of its own feature can be routed through is offered as
  available, and each item is the item of a single moment unless the policy for
  its label was written meanwhile.
- **Pagination.** A list is queried afresh for every page while its rows are
  written, and a cursor remembers only its length and its two ends. Correct: a
  client that nothing turns away has seen every row exactly once, wherever rows
  neither leave nor move; a cursor is good while nothing is written.
- **Builtin seed.** A script of three calls that may stop after any statement
  and be run again, by several at once, over what others have written. Correct:
  once one is through undisturbed the label has a route, and repeating it
  changes nothing.
- **HTTP and RPC.** Levels are declared by path in one place, routes registered
  in another, the admin contract written in a third. A status is composed of a
  method that may have committed and an invalidation that may have failed. Two
  signals start two shutdowns that know nothing of each other. Correct: each
  caller stays in its layer; before a change is answered 200 the cached routes
  were deleted, and a request answered 4xx has changed none; a handler whose client
  still waits has Redis and PostgreSQL; and once connections have ended and Redis
  answers, a shutdown ends.

`PROJECT.json` lists every component, and under `hazards` each of these
difficulties at the line where it bites and the properties that cover it.

## 2. The modules

    ModelCatalog              rows, eligibility, the route of a label  (no behaviour)
      ModelRepository         the writing methods, statement by statement
        ModelRepositoryProofs   types, pins, what a step may do; the refinement
                                of RevisionLifecycle
        RouteResolver         + the four queries of a resolution
          RouteResolverProofs   atomicity; the refinement of RouteSource
        PublicCatalog         + label rows and the reads of a catalogue listing
          PublicCatalogProofs   items of one moment; agreement with the resolver
        SeedBuiltin           + the builtin seed, stopped and repeated
          SeedBuiltinProofs     what a seed leaves, and that a second changes nothing
      RevisionLifecycle       abstract: what an admin sees of a revision
    RouteSource               abstract: the resolver as a safe register
      RouteCache              Redis, readers, mutations and their invalidation
        RouteCacheProofs
    Pagination                cursors through a list that is written
      PaginationProofs
    RouteAccess               levels, declarations, refusals           (no behaviour)
      HttpRoutes              the routes, levels and announced actions as tables
        ModelServer           a process: start, requests, shutdown
          ModelServerProofs     levels, answers, shutdown
    Minima                    least elements of finite sets, for the proofs
    MC*                       small instances

The composition is in two halves that meet at `RouteSource`: `RouteResolver`
together with the whole of `ModelRepository` *implements* it, which is checked on
an instance and proved in general, and `RouteCache` is built *on* it, so the
cache is checked against every behaviour the resolver may show without the
product of the two state spaces. `ModelServer` stands above both: it takes of a
method only its outcome and whether it has changed a route, and of an
invalidation only whether it went through. That a refused call has changed no
route is `RejectedMutationKeepsRoutes` there and an assumption here.

The order of work was the repository, the resolver, the cache and the catalogue
first, then pagination, the seed, access control and the server, then the
proofs. Left: the initialisation SQL run again over a catalogue in use, as an
action beside the repository's; and the theorems of the cache restated over
`RouteResolver` itself, through `SourceImplemented`, in one composed module.

## 3. How the modules correspond to the code

**ModelCatalog.** A row is a record of the columns that queries filter on or a
route quotes. Rows are named by their unique key (`provider_key`,
`providerAccountId_modelName_transportKind`, `uq_policy_tenant_label`), which no
method changes; the generated ids are in bijection with them. `deletedBy` stands for the three
deletion columns, always written together (`deletionData`, `restoreData`).
`publishedAt` is a Boolean, `createdAt` the rank of a row in the order by
`createdAt`, then `id`. `Serves` is the `where` of `resolveModelBindings` for any
transport and any feature, `Servable` for the transport the resolver asks for, `ServableRows` what the
query returns, as a function that is Null where a row is not returned, `Narrowed` its three
in-memory filters, `Before` its `orderBy`, `RouteThrough` the object `PostgreSQLModelResolver.resolve` builds.
The digest is a function of other fields of the answer and is left out; the id of
the quoted policy is reduced to whether it is a row's or `default-label:...`.

**ModelRepository.** `call[c]` is the method a caller has in progress with the
arguments that matter, `at[c]` the statement it is about to run and, between calls, how the
last one ended. Each `await this.prisma...` is one step: the disjuncts of an
action are the statements of the method in order. `FindTarget` is the
`findUnique` by id with its early returns. `AnswerOrLose` lets the answer of a
committed statement be lost, `Fail` lets a call end before its next statement
commits. Not modelled: the `generation` of a health row, which nothing reads;
`retiredAt`, which no method writes; `deletedAt` of a policy, which
no method sets; columns that decide
nothing. The requests are those the admin routes' schemas let through: a LiteLLM
binding always comes with a gateway model (`schemas.ts:51`), a direct one need
not. A statement is atomic because Prisma runs each `upsert`, and
each `update` with its nested write, as one statement or one transaction; where
PostgreSQL would reject a concurrent insert the call fails, which `Fail` covers.
The initial states are those of the init SQL, in full or in part: accounts
live, bindings published or disabled drafts.

**RevisionLifecycle.** The `availability` of `mapModelBinding`, with "absent"
for a revision not yet inserted, and five moves.

**RouteResolver.** `resolving[r]` holds what a resolution has read. The fields
`clean`, `before` and `policyBefore` are history for the properties and no
guard reads them (`Resolution` has the type of all of them). An early `return null` goes straight to `answered`.

**PublicCatalog.** `listing[r]` holds what a listing has read: `labels`, then
an item per label with its own position, since `Promise.all` runs the lookups
side by side. `ensureModelLabel` is one upsert. A label row and a binding row each carry a
`feature`, a string of its own that an ensure may rewrite. `asked` is the
feature the request names, or none; `Active` are the labels of that feature,
and `Serving` and `Configured`, the two queries behind an item, are narrowed
to the feature the label was read with, which the resolver's are not. `clean`, `before` and `policyBefore`
are history. `EndListing` is the answer sent or a query failed at any point.
Display fields, capabilities and the cut into pages are left out.

**RouteSource / RouteCache.** `truth[k]` is the decision the database stands
for; a `Commit` changes it arbitrarily and marks the queries under way. A query
no commit overlapped returns the truth, an overlapped one anything: weaker than
the code, hence sound for the properties of the cache. `cache[k]` carries `late`
and `missed` as history; no guard reads them. `Mutate` is the commit of a
mutation, wrapped (listed in `Mutations`) or not; the seed script and
`setProviderHealthStatus` are unwrapped ones. `Delete` may be applied again
when its answer is lost, without a limit on how often (ioredis sends once
more; the limit changes no property). `Tick` lowers every TTL at once, Redis's
own clock. `RedisCachedModelResolver.invalidate` has no caller; it would run the
same two commands as the wrapper. A cached value that cannot be
deserialised is not modelled: only this code writes under the prefix.

**Pagination.** `row` is one table and `walk[w]` how far a client has got.
`AllResources` are the lists that are queried whole and cut into pages, each with its filter and
its order (`public-model-catalog`, composed from many reads before it is cut, is
left to `PublicCatalog`); a row's priority may be rewritten, which moves it in the two lists
sorted by it. `pageScope` keeps what the hash of the code is taken over: the
length and the two ends. `Accepts` is `decodeCursor` with its checks in order,
`FirstPage`, `NextPage` and `Reject` are `pageWindow` without a cursor, with a
good one and with another. `calm`, `seen` and `served` are history.

**SeedBuiltin.** `seed[c]` is the call of the seed that caller `c` awaits; its
statements are those of `ModelRepository`, so a seed can be overtaken, fail or lose an
answer at any of them. `SeedStops` covers a call that threw and a script that died. Of
`model_label` only the default binding of the builtin label is kept, since
nothing else of the row is different after a second run. `calm` and `settled`
are history: nobody else has written since this seed began, and a calm
seed was through with only seeds writing since.

**RouteAccess.** A path is the sequence of its segments, so a prefix is a prefix
of segments, as the code's `path + "/"` makes it. `Best` is the loop that keeps the first of
the longest matches, `Refusal` the `onRequest` hook in its order: 503 without any secret, 401, 403.

**HttpRoutes.** Tables: each route with verb, path, the method its handler
calls, how it answers what is thrown and the parameters a schema asks of its
path; the declarations in their order; the actions and pages of the admin
contract.

**ModelServer.** `phase`, `shutdown` and `open` are the process; `attached` the
clients whose connection is open, `request[c]` the last request of a client,
`redis` whether Redis answers. `Receive` is everything up to the method (access
check, parameters, body, tenant header), `MethodEnds` its outcome with the
status the handler gives it, `Sweep` the wrapper's KEYS and DEL after a wrapped
mutation that returned a value. The hook resolves a level for the url as it was
sent (`route-access.ts:171`), the router finds the route in the path it decodes
from it: `plain` says that the two are spelled alike, and `LevelSeen` gives an
url spelled otherwise the default level, `runtime-internal`. `changed` and
`swept` are history. `HangUp` ends a connection and leaves its handler running.
`Signal` starts a shutdown; `process.once` leaves a second signal of a kind
without a handler, which ends the process. `Closed`, `Quit` and `Disconnect` are
its three awaits: `Closed` waits for connections and not for handlers, `Quit` for as
long as Redis hangs, since the client of `model-cache.ts:14` has no limit of
time on a command. While the server closes, the RPC server goes on serving
the connections it has kept; Fastify answers 503 there before any hook, which
changes nothing and is no step.

## 4. The runs

Seven runs pass and five refute a statement of the repository's own documents,
comments or tests.

| run | asks | bounds | states |
| --- | --- | --- | --- |
| `repository_policy` | pins and generations while every method of the repository runs beside the upserts | all ten methods, 2 callers, 1 account, 1 LiteLLM binding, 1 policy key, generations to 2 | 1.23 M |
| `repository_lifecycle` | acknowledgements, rejections, revivals, the lifecycle refinement, the seed | `MCSeedBuiltin`: the nine methods of rows and the seed, 2 callers, 1 account, 1 binding | 571 k |
| `repository_pin_race` | *refutes* that a pin is eligible when written | 2 callers, 1 binding | |
| `resolver` | atomicity, servability, the refinement of `RouteSource` | 1 reader, 1 caller, 2 bindings, upsert and delete, generations to 2 | 220 k |
| `resolver_torn` | *refutes* that an answer obeys the generation it quotes | as above, upserts only | |
| `catalog` | what the catalogue must offer of what the resolver routes, and atomicity per item | 1 label, 2 bindings of two transports, 2 features, 1 caller, 1 listing, upsert and ensure, generation 1 | 634 k |
| `catalog_direct` | *refutes* that an available label can be executed | as above, ensures only | |
| `cache` | staleness, shared answers and eventual freshness under every fault | 2 keys, 1 reader, 2 writers, TTL 2 | 512 k |
| `cache_fill_race` | *refutes* "writes cannot leave stale route decisions", without any fault | 1 key, 1 reader, 1 wrapped writer | |
| `pagination` | exact walks and good cursors | rows of 4 ranks, 2 priorities, one plain and one filtered and sorted list, 1 client, page sizes 0 to 2 | 391 k |
| `http` | layers, statuses, order and end of a shutdown | every route in both spellings, 4 named callers, 3 sets of secrets, both programs, 1 client, who may hang up, a Redis that may hang, 2 signals | 293 k |
| `http_contract` | *refutes* that an announced action is a real one | the announced routes, 1 request | |

*Why the bounds are enough.* A race of the repository needs one statement of
another call between two statements of one: two callers. A pin must be refused
for a revision that is missing, disabled, deleted or a draft, and the one
binding of `repository_policy` is each of these in turn; that a direct binding
is refused is in `PinsPublished`, which holds for every assignment of
transports, and direct bindings meet LiteLLM ones in `catalog`. An update of a
policy, as against an insert, needs generation 2, and since an upsert reads only
the current row, further generations repeat it. `MaxGeneration` disables an
upsert rather than wrapping it around. A resolution uses two bindings to tell
the first in order from the pinned one. A listing's items read no variable of
one another, so one label shows every interleaving an item can meet; two
features let the label and each binding agree or not, before and after a
rewrite. A listing reads no generation, and an item whose policy row changes, by
an insert as by an update, is claimed nothing of: generation 1 is enough, and
the theorems have no such bound. For the
cache, two keys let KEYS list one and miss the other, and two writers let one
invalidation stop at "nothing cached" while another is between KEYS and DEL.
A hit does not change an entry, so one reader, whose fill and hits any number of writers
and expiries separate, sees what two would, and `StalenessExplained` is proved
for any number. The TTL of 2 tells renewing an entry from leaving it alone. For
a walk, four ranks leave room for a row before, between and after the two ends of a page, and
two priorities let a row move; a client reads no state of another. Clients
share with one another only what a shutdown waits for, so one is enough to have
a connection with a handler, a connection without, a handler without and
neither; `ConnectionsOutliveHandlers` is proved for
any number. The four callers are one the service does not know, which a request without
a caller equals, and one of each layer; they are also the three production requires,
so the three sets of secrets are none, some and all that it requires.

Deadlock is checked except in the runs of `http`, where a process ends.
Symmetry is used over callers, and over features in `catalog`, in runs of
safety properties only.

*Fairness.* The cache needs weak fairness of `Tick`, which is Redis expiring
keys as time passes; nothing obliges a client to read, a query to return or a
command to succeed, and `EventuallyFresh` is conditional: *if* from some moment
no mutation commits, then from some moment no entry is stale. The server needs
weak fairness of `Closed`, `Quit`, `Disconnect` and of `Stop` when no handler is left, which
is the event loop running the callbacks of what has been called. Nothing is
assumed of clients, who may keep a connection for ever, of queries, which may
take for ever, or of Redis, which may hang: `ShutdownEnds` is conditional on Redis answering
from some moment on and starts from a shutdown under way with every connection ended
and no handler in flight.

## 5. What the runs found

Five statements of the repository fail, each with a run.

- `model-cache.ts:70` says the wrapper ensures that writes "cannot leave stale route
  decisions". A fill whose query preceded the mutation can be stored after the
  mutation's DEL (`cache_fill_race`). `NoUnexplainedStaleness` says that this, a
  mutation that invalidates nothing, and a command that failed or was not
  acknowledged are *all* the ways, and `EventuallyFresh` that each is bounded by the TTL.
  `OnlyLateFillsStayStale` proves what is left of the comment: without faults and
  with every write wrapped, the late fill is the only way.
- The policy generation is meant for consistent concurrent reads
  (`API_CONTRACT.md:73`), but is read by a query of its own (`resolver_torn`).
  What survives is `ResolveIsAtomicWhilePolicyStands`.
- Cross-row invariants are said to be checked in one transaction
  (`OWNER_AND_MIGRATION.md:24`); the pin is not (`repository_pin_race`). What
  survives is `PinnedRevisionIsPublished`, because no method unpublishes. That it
  takes a second caller is proved: `OneCallerPinsEligible`.
- The catalogue's `availability` is meant to keep what merely exists from being shown as
  executable (`API_CONTRACT.md:174`), but counts revisions of any transport, while
  `resolve` asks for LiteLLM only: a label served by a direct revision is
  "available" and has no route (`catalog_direct`). The converse,
  `RoutableLabelIsOffered`, holds for revisions of the label's own feature; the
  catalogue asks for that feature and the resolver for none, so a label that only
  a revision of another feature carries has a route and is not shown as available.
  From the catalogue to the resolver the transport is the whole of the
  difference: `AvailableIsRoutableThroughLiteLLM`.
- The admin contract announces an action on the health of an account, and its
  tests call the announced actions real; the route's path names its parameter
  `:id` and the handler's schema requires `providerAccountId`, so it answers 400
  whatever is sent (`http_contract`). It is the only such action
  (`HealthAloneIsAnnouncedInVain`).

Two more disagreements are listed as hazards rather than runs. An ensure rewrites a
published revision in place, which `API_CONTRACT.md:182` calls immutable.
`setProviderHealthStatus` invalidates nothing, against `RUNTIME_BOUNDARY.md:11`;
over HTTP this is hidden by the 400 above. The proof of `AnswersTruthful`
uses just that (`OnlyHealthIsUnwrapped`): once the route is repaired, the property
fails unless the wrapper takes the method in.

## 6. What is proved

Each theorem holds for all values of the constants that satisfy the named
assumptions, which TLC evaluates in the runs. `CatalogAssumption`,
`RouteAssumption`, `RepositoryAssumption`, `SeedAssumption`, `ListingAssumption`,
`ResolverAssumption`, `SourceAssumption`, `SourceQueryAssumption`, `CacheAssumption`,
`PaginationAssumption`, `RoutesAssumption` and `ServerAssumption` say that the
sentinels are no rows, keys or records, that `Bindings` and the rows of a list are
finite (they are counted), that no two rows have one rank, that a TTL is at
least one tick, that a listing asks for a feature there is or for none, and
that the two calls of a seed are among the methods.

- **ModelRepositoryProofs.** `TypeCorrect` and `PinsPublished`. Neither
  invariant is inductive: an `update` runs on a row found by an earlier
  statement, and a policy is written with a pin checked by an earlier statement.
  `IInv` therefore adds that a call past its check has a row to write
  (`FoundRowExists`) and that an upsert past its check carries a published
  LiteLLM pin (`FoundPinIsPublished`). Both survive other callers' steps because
  rows never disappear and publication is never undone (`RowsStay`, proved once
  for every action).
  The action properties `GenerationsAdvance`, `RestoreAloneRevives`,
  `AcknowledgementsAreLive` and `RefusalsKeepRoutes`, and the refinement
  `LifecycleImplemented`, rest on lemmas that say what a step of any method can
  have written: one account (`AccountWrite`), one binding (`BindingWrite`), one
  policy (`PolicyWrite`), or nothing. `SInv` adds to `IInv` that the stage of a
  call is one its method has. `RepositoryInv` adds that ranks are distinct
  (`Ranked`), since a new row ranks after all others (`RanksBelow`); it is what
  the modules above build on, with `PolicyMovesOn`: a policy that changes takes
  a later generation, so one that is at the end the row it was at the beginning
  was that row all the while.
  `OneCallerPinsEligible` has the hypothesis that there is at most one caller,
  and needs that the pin it found is still eligible when it writes
  (`FoundPinIsPinnable`), which is what a second caller destroys.
- **RouteResolverProofs.** `ResolverTypeCorrect`, `ResolutionsAreAtomic`,
  `RoutedWasServable` and `SourceImplemented`. `OfOnePolicy` of the invariant
  `RInv` applies `PolicyMovesOn` to a resolution under way: what it has read was
  read under one policy row if that row still stands. That a first row in order
  exists uses `Ranked`. The refinement maps a write that changes a table to
  `Commit`, the first query to `Ask`, the one that settles the answer to
  `Return`, and the others to stutters.
- **PublicCatalogProofs.** `CatalogTypeCorrect`, `ItemsAreAtomic`,
  `RoutableIsOffered` and `AvailableIsRoutableThroughLiteLLM`; and
  `CatalogKeepsRepository`, by which every theorem of the repository holds with
  listings beside it. The invariant `CInv` has two parts for each item.
  `SoundItem` holds whatever is written: as long as the policy row the item began
  with stands, what its later queries read is of that row. `CleanItem` holds
  while nothing has been written since the listing began: what has been read, the
  features of the labels included, is what the tables say now. From the second,
  both agreement theorems compare the two filters in one state.
  `RoutableIsOffered` needs a routable revision that also passes the catalogue's
  filter on features; the one that fails in general has the hypothesis
  that every binding is a LiteLLM one, and uses it where a served revision must
  be servable.
- **SeedBuiltinProofs.** `SeedsKeepRepository`, `SeedTypeCorrect`,
  `SettledRoutes` and `SeedTwiceIsSeedOnce`. `SeedInv` says that the call a
  seed awaits is its own (`AwaitsOwn`), that what an undisturbed seed has
  ensured so far is there (`CalmProgress`), and that a settled catalogue has all
  of it (`Seeded`). A statement of a seed leaves ready what is ready, and in a
  seeded catalogue writes each row as it is; this is idempotence, and it is
  also why seeds do not disturb one another. The run `repository_lifecycle`'s
  instance was used to check `SeedInv` before it was proved.
- **RouteCacheProofs.** `TypeCorrect`, `StalenessExplained` and `AnswersShared`.
  `IInv` adds `CleanReturnIsTrue`: a decision that came back from a query no
  commit has overlapped is still true, which is what makes a fill that is not
  late a true one. With `SourceImplemented` this holds of the cache over the
  repository itself. `OnlyLateFillsStayStale` assumes that nothing fails and that
  every write is wrapped, and adds `NothingMissed`.
- **PaginationProofs.** `TypeCorrect`, `CalmCursorAccepted`, `WalksExact`. The
  invariant `WalkInv` says what a cursor knows of the list as it is now: the number of
  rows given is its offset; in a list that keeps its rows and their order, the
  length only grows, and while it is the cursor's the rows given are the
  first `offset` of the list.
- **ModelServerProofs.** `TypeCorrect`, `AnswersTruthful` and
  `HandlersKeepTheirConnections`, for any routes offered, callers and clients.
  `RequestInv` follows a request through its stages; `ClosedInOrder` says that a
  shutdown past its first await has seen every connection end, so what is claimed
  is claimed of handlers whose client still waits: one whose client has hung up
  may find Redis ended or PostgreSQL disconnected.
  `LevelIgnoresOrder`: the order of declarations decides no level unless one
  path is declared with two. It is proved of any declarations; for those of this
  server, `LevelByFirstSegment` shows that the first segment of a path
  decides which declaration can match it, and `LevelsOfRoutes` which level each route gets. With
  `AccessInv` (a serving server has the secrets it requires, and a request that
  was let in met no refusal) follow `CallersKeepTheirLayers` and
  `ProductionIsReachable`. The layers are those of the code for both spellings of an
  url: `/admin` and `/bff` are closed to other callers when the url is spelled as
  registered, and `web-bff` is kept to `/bff` and the probes however it is
  spelled, because the default level does not admit it. `HealthAloneIsAnnouncedInVain` assumes that nobody asks
  for the health action, and rests on `ParametersFit` for every other route.

Only model-checked: `EventuallyFresh` and `ShutdownEnds`, since liveness under
fairness is outside what the installed backends do. The five refuted
statements are not theorems; for four of them a theorem above says under which
hypothesis they hold, and for the fifth, that an answer obeys the generation it quotes,
`ResolutionsAreAtomic` says what holds instead.

## 7. What is not modelled

- The initialisation SQL run again over a catalogue in use; it is the initial
  states only. `model_definition`, which no code reads.
- `insecureLocal`, a switch of the access check for tests, and
  `registerInternalSecretGuard`, which this program does not install. The
  documentation served under `/docs`. Which urls reach a route without being
  spelled as it: `plain` says only whether one is, and of the others no claim is
  made for `/admin` and `/bff`.
- What becomes of a handler whose client has hung up, apart from the state it
  leaves: it may run on after Redis has ended or PostgreSQL was disconnected. A
  hung Redis keeps a shutdown pending; nothing is claimed of it until Redis answers.
- The ticks between a signal and the closing of the listening socket, which are
  folded into `Signal`.
- Cursors a client has altered: `decodeCursor` trusts what it decodes apart from
  the checks in `Accepts`.
- The bodies and fields of replies, names, secrets and descriptions; metrics,
  request ids and error envelopes of service-kit; generated protocol code.
- A TTL that is not a positive number, which `model-cache.ts:25` does not check and
  which makes every SETEX fail: assumed away in `CacheAssumption`. Redis
  eviction under memory pressure removes entries early, which only adds misses.
