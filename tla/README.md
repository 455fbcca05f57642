# mob09 flash sale: verification project

The system sells a few units of a product to many buyers at once, through
stateless API processes, a Redis lock, a BullMQ queue, one worker process and
PostgreSQL, while many readers look at the remaining stock through a versioned
page cache. This directory holds TLA+ models of it, the TLC runs that check
them on small instances, and TLAPS proofs. Paths below are relative to
`src/api/src/` unless they start with `src/`.

    tlc -workers 2 -config MCStockClaimMixed.cfg MCStockClaim.tla
    tlapm StockClaimProofs.tla

The modules named `...Proofs` and `SumLemmas` are for tlapm; the largest takes a
few minutes.

## 1. The system

| component | state it keeps | operations | talks to |
|---|---|---|---|
| order intake, `orders/orders.service.ts` | none; entry lock `order-lock:user:product` in Redis, 30 s TTL | `createOrder`: lock, enqueue, or replay the holder's answer | Redis, BullMQ |
| BullMQ queue (library) | jobs by id, their states, job locks, stalled counters, event stream | add, pick up, complete/fail, stalled check, retry | API, worker, listener |
| worker, `orders/orders.processor.ts` | none; `WORKER_CONCURRENCY` jobs at once | `process`: claim, then bump the cache version | stock claim, Redis |
| stock claim, `orders/stock-claim.service.ts` | `products` (stock, version), `orders` (unique user+product, job_id) | `claim` by one of three strategies | PostgreSQL |
| release listener, `orders/orders-lock-release.listener.ts` | none | compare-and-delete of the entry lock on completed/failed | BullMQ events, Redis |
| page cache, `cache/product-cache.service.ts` | Redis: version, pages by version, rebuild locks; per instance: in-flight map, counters | read, rebuild or wait, bypass, statistics | Redis, products query |
| products query, `products/products.service.ts`; query DTO | none | one page from PostgreSQL; clamp and snap of page and limit | PostgreSQL |
| load tests, `src/load-test/` | what each script remembers of its own reads | probe the API or the database and report `FAIL_` counters, PASS or FAIL | HTTP; Redis and PostgreSQL for `reset.sh`, `verify.sql`, `measure.js` |
| Redis client, `redis/redis.module.ts` | commands sent and not yet answered | sends them again after a reconnect (ioredis' default) | Redis |
| auth, config, seeding, Bull Board, nginx | configuration or none | see `PROJECT.json` | |

A `POST /orders` takes the entry lock, adds a job whose id is a function of
user and product, and answers 202. A worker slot picks the job up, claims a
unit in one transaction, bumps the version with `INCR`, and BullMQ records the
outcome and publishes an event; the listener, in the worker process, frees the
entry lock. A `GET /products` reads version and page in one script; on a miss
it takes the rebuild lock of that version and refills the page, or polls, or
reads through to PostgreSQL, coalesced per instance.

What is hard here: claims of many slots on one hot row; a decrement and an
order that must stand or fall together; a job that commits and is run again
(crash, stall, operator); locks with TTLs that are freed from somewhere else;
commands that took effect, whose answers are lost, and which the Redis client sends
again; events that come late or never; a cache that is filled by slow readers while
the version moves; counters that are buffered, flushed by two callers and thrown
back; the fallbacks that must still end in an answer; and test scripts that
judge an asynchronous system from outside, through answers that may be lost and
a stock that may move late. The entries under `hazards` in `PROJECT.json` name
the lines.

What each component has to get right:

- stock claim: units gone = orders recorded, at all times; never below zero; one
  unit per user and product; every verdict true; every call answered.
- pipeline: a job's recorded outcome agrees with the database and is never
  overwritten; every queued job and every request ends; a version bump never
  precedes its commit.
- page cache: a page is never older than what its version announced; one
  owner of a rebuild lock; every read ends; a count is neither lost nor doubled
  unless a batch was.
- products query and its DTO: every query at a boundary is answered or refused as
  the comments promise; the pages of a catalogue make up the catalogue.
- load tests: an accusation is true, or the rig explains it; a defect a script
  was written to find is found.

## 2. The modules

**FlashSale.tla** is the abstract service: stock and orders, and one action,
`Sell`, that takes a unit and records a buyer in the same instant.

**StockClaim.tla** is `claim()` statement by statement. The database is its
committed rows (`stock`, `version`, `orders`) and a row lock per product; what a
transaction has written is private to its run (`draft`), so a rollback is the
lock released. A `Run` is one execution of `claim()`; two runs may carry the
same job, which is how redelivery appears. Actions follow the code:
`SelectForUpdate`, `UpdateLocked`, `RefuseLocked` (pessimistic); `PlainRead`,
`CasWon`, `CasLost` (optimistic); `UpdateReturning`, `NothingClaimed`,
`ProbeProduct` (atomic); and the tail they share, `InsertOrder`,
`UniqueViolation`, `ClassifyUniqueViolation`, `Commit`. Failures:
`LockTimeout`, `ConnectionLost` at any statement, and `CommitUnacknowledged`.
READ COMMITTED is modelled by what the code relies on: a locking statement waits
for the row's holder and matches the row as committed then; a statement whose
condition the committed row does not meet matches nothing and waits for nobody.
The atomic CTE is one statement to the program and two here (row update, order
insert) because its INSERT can fail; between the two it holds the row.
`strategy` is per run, so a deployment whose workers were started with different
settings is included.

**OrderPipeline.tla** is everything around the claim: `AcquireLock`, `ReadHolder`,
`Enqueue`, `EnqueueError`, `UndoLock` (createOrder, one action per Redis or BullMQ
call), `PickUp`, the four outcomes of `claim()` as the processor sees them,
`BumpVersion`, `Report`, the external `Stall`, `CrashWorker` and `RetryFailedJob`,
and the listener's `ReleaseOnEvent`. Lock key, job id and payload are functions of
user and product; the module follows one product, so a user stands for the pair, and
the payload comparison of the scripts is what it is in the code: always equal for
the same user and product. The lock remembers which request set it only so that
properties can speak of it; it is `Gone` when no request knows it to be its own.
`AcquireUnheard` and `BumpUnheard` are a `SET NX` and an `INCR` that took effect and
whose answers were lost: the client sends them again (the program counter stays), or
the request throws and leaves the lock. Here `claim()` is one step; that this loses
nothing is `StockClaim!SaleSpec`, and the pipeline is itself shown to implement
`FlashSale`.

**ProductCache.tla** is the read path for one page and limit. Content is the
number of committed stock changes; a page is the content it was read from.
`announced` says of each version which changes have been announced by the time the
key took that number: a version may move twice for one change, once for two, or not
at all for one whose bump is lost, so versions and changes are counted apart.
`ReadPage`, `TryLock`, `QueryPage`, `WritePage`, `ReleaseLock`, `Poll`,
`JoinFlight`, `FlightReads`, `FlightSettles` are the awaits of the code;
`ExpireLock`, `ExpirePage`, `CrashInstance` the environment. The worker appears as
`CommitStock` and `BumpVersion`, which may fail, as in OrderPipeline, or be sent
again (`BumpUnheard`); so may the write of a page (`WriteUnheard`) and the `SET` of
the rebuild lock, whose holder then polls behind its own lock (in `TryLock`).

**CacheStats.tla** is the other half of the cache service: `pendingCounters` of
each process, `flushCounters` by the timer and by `getStats`, and the commands a
connection has sent and Redis not yet executed (`wire`). A flush is two steps,
as in the code: snapshot and clear, then the answer. A batch may be executed and
sent again (`Resend`), dropped with `exec()` resolving all the same (`GiveUp`),
or thrown back (`ExecThrows`). Beside it runs `cache-hit-miss.js`, step by step. What
its requests count depends on the page, which is cold, warm or locked by another
rebuild when the script begins and moves at any moment (`PageMoves`: written, expired,
or invalidated by an order): a hit, a miss, or a miss and a hit after polling.

**Catalogue.tla** is `GET /products` as a function: what the DTO makes of a query
(values in halves, so that 1.5 is among them) and which rows a page holds.

**LoadTestClient.tla** declares what the models of the judging scripts share: the
script's position, the service it runs against, what it remembers, what it
reported, and what went wrong outside the service. Each script is a module of
its own, whose Init chooses a correct service or one of the defects the script
names, and **LoadTests.tla** puts them together (one script per behaviour):

- **PageContract.tla**: `pagination-integrity.js` over Catalogue: the crawl at
  each page size, the comparison, page 1 against page 2, past the end, and the
  boundary queries, also those of `cache-failure-modes.js`. The service clamps the
  page number as its DTO does (`Served`).
- **OrderProbes.tla**: phases A to E of `order-concurrency.js`, and the check of
  `orders-50.js` on a burst. A phase is a sequence of reads, orders and waits; the
  worker takes jobs at any moment between them. The service keeps or breaks a
  rule (lock per user, no lock, quantity honoured, no unique constraint, lost
  writes, no stock guard) and keeps either of the contracts for duplicates the
  script allows.
- **InvalidationProbe.tla**: the rounds and the background readers of
  `cache-invalidation.js`, and the invalidation probe of `cache-blackbox.js`. The
  cache is abstracted to what ProductCache guarantees a reader
  (`CachedAnswerFresh`): an answer shows a state between the last announced and the
  last committed change. A page size a defective service never invalidates shows the
  initial stock for ever, which stands for a TTL longer than the poll.
- **Benchmark.tla**: a measured run from `reset.sh` to `verify.sql` and
  `measure.js`, with jobs of an earlier run still in the worker, or `seed.ts` in
  place of the reset. The worker claims pessimistically, the default, one
  statement per step, since the reset's statements fall between them; it may fail at
  any statement (the pool's and the row's timeouts, a lost connection), lose the
  answer of its commit, or stall before or after it, once or twice (`Stall`), with a
  slot that is only late still at work (`LateCommit`, `LateFails`).

The theorems (section 4) are in modules of their own, each extending what it is
about: **StockClaimProofs.tla**, **OrderPipelineProofs.tla**,
**ProductCacheProofs.tla**, **CacheStatsProofs.tla**; **PageProbesProofs.tla**
(InvalidationProbe and PageContract), **OrderProbesProofs.tla**, and
**LoadTestsProofs.tla** (Benchmark, and the scripts put together).
**SumLemmas.tla** has the facts about sums over finite sets that the counters and
the catalogue need.

The `Bug...` definitions in the modules are mutated forms of the action that
follows them, one per property, and are used by no specification: `PROJECT.json`
lists which property each of them breaks.

## 3. What is model-checked

| run | instance | shows |
|---|---|---|
| stock_mixed | 3 runs, every mix of strategies, 2 units for 3 buyers and a 4th who holds one from before job ids existed, an unknown product, 2 passes of the loop | `StockConserved`, `NoOversell`, `RowLockDiscipline`, `VerdictsHold`, `SoldOnce`, `RetriesPaidBySales`, the inductive invariant, refinement of FlashSale |
| stock_uniform | same, one strategy for all, with fairness | `UnitsNumbered` (reported stocks differ), `EveryClaimAnswered` |
| pipeline_safety | 2 buyers, 2 slots, 2 units, 1 crash, 1 operator retry, any lost answers of `SET` and `add()` | the inductive invariant, `CompletedMeansSold`, `SoldOutIsTrue`, `OutcomeIsFinal`, refinement of FlashSale |
| pipeline_liveness | 1 buyer, 2 clicks and an abandoned lock, 1 slot, 2 units, 1 crash, 1 retry, 1 INCR sent again, any lost answers of `SET` and `add()` | `JobsFinish`, `RequestsAnswered`, `ReplayVouchesForJob`, `VersionNeverAhead` |
| cache_safety | 2 clients, 2 instances, 2 commits, 2 expiries, 1 crash, failing Redis, 1 command sent again | the inductive invariant, `PageNotOlder`, `CachedAnswerFresh`, `RebuilderHoldsLock` |
| cache_liveness | same with 1 commit and no expiry | `ReadsAnswered` |
| cache_stats | 2 processes, the probing client and one more, 1 repeated request, 1 event among other reads, other stats requests and faults, the page cold, warm or locked and moving at will | the inductive invariant, `CountsConserved`, `OwnCountsAnswered`, `HitMissSound`, `StatsSettle` |
| load_tests | catalogues of 0 to 61 rows, and of 1000 and 1001 pages, at page sizes 10 and 20; probe products of 3 or 7 units; 2 page sizes and 2 rounds; a benchmark of 3 users for 1 unit with 2 stalls | `ContractSound`, `DefectFound`, `QueryAnswered`; `AccusedOnlyIfGuilty`, `GuiltyIsAccused`; `RoundsFair`, `StaleFound`, `BlackboxVerdict`; `DriftExplained`, `RunProven` |

The inductive invariants of `UnitsNumbered` and of the four judging scripts
(`NumberedInv`, `BenchInv`, `ProbeInv`, `PageInv`, `OrderInv`) are defined beside
their proofs, which no run reads; they were model-checked with the constants of
`stock_uniform` and `load_tests` before they were proved.

`UnitsNumbered` is checked only for uniform deployments because it is false of
mixed ones: an optimistic claim reports the stock it read minus one, and another
strategy may sell in between without moving the version.

Bounds. Three runs are enough for a winner, a loser and a redelivery of either; two
units make both "one left" and "sold out" happen within them, and two passes of the
loop make one retry and one exhaustion. In the pipeline two slots give a stalled job
a second execution while the first is still going, and two buyers sell the product
out from under a replay. The cache needs a version to be built while the next two
are announced, announcements that cross or are doubled, and two readers of whom one
holds the lock. The counters need two processes (an answer from one while the other
still buffers) and two concurrent flushes, which need no event: the timer's and the
script's. The safety properties of cache_stats were also checked with two events,
those of cache_safety with two reads of each client (one commit, no crash), and those
of load_tests with two units; the runs have the bounds that leave room for liveness,
for a second commit and for a check in minutes. The
catalogue sizes are those around one, two and three pages at either page size, one
beyond the crawl's ceiling, and the last the DTO's 1000 pages hold and the next; the
queries are every boundary of the DTO and its neighbours, in halves. A burst of two,
two rush users for one unit, and two lost requests or readings make every flag of
`order-concurrency.js` possible and every way it is misled; 7 units are enough for
all phases, 3 are what the script asks for. Two rounds show what one leaves to the
next. The benchmark's three users for one unit leave two refused, two slots let one
job hold the row while another times out, and two stalls fail a job for good. The
stalled counter is BullMQ's own limit. Crashes, retries, expiries, reads and commits
are capped by constants named `Max...`; entry locks expire without a bound. No state
constraint is used. Symmetry is used only in runs without liveness: over runs,
slots, clients and instances, over the two buyers swapped together with their
requests, and over the users of the benchmark.

CHECK_DEADLOCK is off for the pipeline, the cache and the load tests: when every
request is answered, every budget spent and every script at its end, the system
does stop. StockClaim has an explicit
stuttering step for that state and is checked for deadlock.

Fairness. A claim's next statement, a request, a worker slot, the delivery of an
event, the expiry of a lock and the collapse of a single flight are weakly fair:
each is a step of a running process, of Redis or of PostgreSQL. The stalled check is
fair only for jobs nobody is executing, since BullMQ's timer recurs; taking a job
from a live slot is possible and never required. In CacheStats the probing script,
the flush timer and Redis' execution of a connection's next command are weakly fair;
other readers and faults never have to come. LoadTests states no fairness: its
properties are about verdicts already given. No failure is fair in itself. A row
lock is waited for under weak fairness of the waiter and of the holder, which is
enough in StockClaim because there are finitely many runs.

### Where code and documentation disagree

Four runs check a sentence of the repository and find it violated; the traces are
ordinary schedules.

1. `retry_enqueues`: after a failure the user may "retry", is answered 202, and
   nothing is enqueued, because the failed job still owns the id.
2. `committed_not_refused`: the replay of a committed job is reported as out of
   stock when the stock is gone, since the check of the stock comes first.
3. `event_keeps_lock`: a late event deletes a newer request's lock; the payloads
   are equal, so comparing them protects nothing.
4. `monotonic_reads`: one reader can see the stock climb, by a bypass followed by a
   page a slow rebuilder filed.

None of them breaks a safety property above: the database stays right.

Other disagreements met while modelling, which a property names as its exception
or which need no run:

- `cache/README.md:11` says that the version is bumped once per committed stock
  change. A crash between commit and `INCR` loses the bump, and the replay branch
  of the processor does not make up for it; an `INCR` whose answer is lost is sent
  again and bumps twice. `VersionNeverAhead` is what holds: no bump before its
  commit, and no second one but by the client.
- `orders.service.ts:68` says that a lock which is refused belongs to the retry of the
  same request or to another click. It may be this very request's own, whose `SET` the
  Redis client sent twice (`AcquireUnheard`): the only request is answered 202 and
  nothing was queued. `ReplayVouchesForJob` excepts such a lock.
- `product-cache.service.ts:247` says that exactly one caller rebuilds a version's
  page. The page is not looked at again once the lock is obtained, so a caller
  that missed early and asks for the lock late rebuilds a page that is there.
- `flushCounters` says that a failed flush hands the counts back. `pipeline.exec()`
  resolves with an error per command instead of throwing when single commands
  fail or the client gives up on them, and those counts are gone (`GiveUp`); and
  `onModuleDestroy`, which flushes a last time, is not reached on SIGTERM because
  `enableShutdownHooks` is never called (`Kill`).
- `cache-hit-miss.js` waits 0.2 s for a counter that is flushed every second. Its
  stats request flushes the process it reaches; behind nginx that may be another
  one than served the read (the exception `apart` in `HitMissSound`). Of a missing miss
  it warns that the key was warm from an earlier run (`primed`); an order or an expiry
  between two reads (`cooled`) has the same effect and is not named.
- the DTO clamps before it asks for an integer: `page=999.5` is refused and
  `page=1000.5` answered.
- `pagination-integrity.js` asks for a page past the end and expects it to be echoed;
  with more than 1000 pages the DTO answers it with page 1000, which the script calls
  a broken contract (the exception `BeyondClamp`).
- `pagination-integrity.js` also classifies lost answers apart from spec breaks, but not
  in its step 3, and a first crawl that broke makes step 4 ask for page 6, which
  may exist. And a cache keyed without the limit, which it says step 2 catches
  ("breaks exactly here"), serves the second crawl the pages of the first: the
  catalogue is complete and agrees.
- `order-concurrency.js` asks for three spare units and needs four of the first
  product for phase D to have a unit left to sell twice; a reading that was lost
  counts as a blocked second product; a burst that was lost entirely as a lost
  write. `duplicate_lock_violations` of `orders-50.js` also counts a click that got
  no answer.
- The rush of `order-concurrency.js` oversells only if more users take part than
  there are units; `setup()` prints both numbers and does not compare them.
- `cache-invalidation.js` says of a drop by two that a job ran twice, and of a stock
  that climbs that a stale page was served after a fresher one; an order of an
  earlier run that is late, and the window between commit and bump, do the same.
- `cache-blackbox.js` calls one unanswered poll a cache that was never invalidated,
  and looks at the largest page size only.
- `measure.js` counts errors beginning with `LOCK_TIMEOUT:`; none does, the row
  lock's timeout arrives as PostgreSQL's own text and is counted as other. The
  comment at `stock-claim.service.ts:111` has BullMQ retry it; no job is given
  attempts.
- `cache-stampede.js` asks for random limits to get a fresh key each time; the DTO
  snaps them to four.

## 4. What is proved

`StockClaimProofs.tla`, for every set of users, products, jobs and runs, every
assignment of strategies to runs and every bound on the attempts, from the
assumptions in StockClaim (users are a finite set, claims are well formed,
earlier orders do not exceed the stock, the null values are distinct):

- `TypeCorrect`, `Invariance`, `ConservationTheorem`, `NoOversellTheorem`,
  `RowLockTheorem`, `VerdictsTheorem`, `SoldOnceTheorem`, `RetriesTheorem`;
- `ImplementsSale`: the three strategies, in any mix, implement FlashSale.

The properties are not inductive by themselves: that the stock is not negative
after a commit depends on what the transaction saw when it took the row. `IInv`
adds `StepFacts`: in "insert" and "commit" the stock is positive, in "probe" it
is not (or the product is unknown), in "classify" the order is there, and in
"cas" the stock is at most what was read, and strictly less if the version has
moved, which is what pays for the lost pass. The proof that a step keeps it has
two halves: `OwnStepKeepsFacts`, a case per action of the run that moves, and
`OtherRunKeepsFacts`, that no other run's step disturbs them, because
(`Footprint`) a step changes committed rows only by committing, and only while it
holds the row. `CommitWrites` says what a commit does to stock and orders;
conservation (a cardinality argument over the buyers), `SoldOnceStep` and
`SaleStep` follow from it.

`UnitsNumberedTheorem` is about a specification whose deployment is `Unmixed`:
every run is optimistic, or none is. That is what the property needs, no more: the
pessimistic and the atomic strategy may be mixed. `NumberedInv` adds to `IInv`
that a claim which is about to commit has read the unit it takes (`ReadsItsUnit`),
which for an optimistic claim rests on the version: a row whose version has not
moved has not been sold from.

`OrderPipelineProofs.tla`, for every set of users, requests and slots, every stock
and every number of crashes and operator retries: `TypeCorrect`, `Invariance`,
`CompletedTheorem`, `SoldOutTheorem`, `VersionTheorem`, `OutcomeTheorem`,
`ReplayTheorem` and `ImplementsSale`. Most of these compare the queue with the
database, and the step that would break them is a slot's, reporting what it learned
some steps ago. So `IInv` says what a slot's program counter still stands for
(`SlotsInformed`): one that is about to report success, or to bump the version, has
the order in the database; one about to report "sold out" has a stock of zero.
`TokenMeansActive` makes the late finisher harmless: only the slot whose token the
job carries can record anything. `VersionNeverAhead` is a count: the announcements
made and those still owed by slots are at most the orders and the INCRs sent again
(`BumpsOwed`), shown with the cardinality of the users whose announcement is owed;
no two slots owe the same one. `LocksVouched` says who stands behind a lock that a
request knows to be its own, which is all that `ReplayVouchesForJob` can promise:
the lock of an unheard `SET` vouches for nothing. `PassesLeft` says that a request
in createOrder's loop has a pass left.

`ProductCacheProofs.tla`, for every set of readers and instances and every bound:
`TypeCorrect`, `Invariance`, `PageTheorem`, `AnswerTheorem`, `RebuildLockTheorem`.
The heart is `BodiesFresh`: a body that a request holds was read after what its
version announced was committed, and nothing is announced before its commit
(`AnnouncedCommitted`), however often an `INCR` is sent. Freshness is stated against
what was announced and not against the version's number, which a doubled `INCR`
moves on although nothing changed.
`RequestsNumbered` keeps the lock tokens of different requests apart, without
which a late release could free another's lock.

`CacheStatsProofs.tla`, for every set of processes and clients and every bound:
`TypeCorrect`, `Invariance`, `ConservedTheorem`, `OwnCountsTheorem`,
`HitMissTheorem`. `CommandsAwaited` ties every command on a connection to the flush
that sent it, and the order of a connection's commands carries the argument for
`OwnCountsAnswered`: what a request has to report is stored, or written by a command
ahead of its own read (`OwedAhead`, in `FaultlessRun`: it holds as long as no
command failed). `ScriptInformed` says the same of what the probing script
remembers: as long as none of the named causes occurred, the page was cold before
its first request and is warm after it (`ReadExpected`), so what the process has
counted is one miss and then hits (`ReadCounted`). The sums over processes and over
the commands of a connection are `SumFunctionOnSet`, which is defined by recursion;
an induction theorem is out of reach, so `SumLemmas.tla` argues by a smallest set on
which a fact would fail, from the well-foundedness of strict inclusion on finite
sets.

`LoadTestsProofs.tla` proves that every behaviour of the load tests keeps
`BenchInv`, `ProbeInv`, `PageInv` and `OrderInv`, each under its script
(`ProbesInvariance`): a script stays what it was at the start, and no other
script's step is enabled under it. From it follow the theorems about the verdicts:

- `DriftTheorem` and `RunTheorem`, for any users, units and slots. `BenchInv` adds
  that one job at most holds the row (`OneHolder`), what the difference of units
  and orders is at every moment, jobs of an earlier run included (`Balance`), and
  what a run that began clean knows (`Loaded`, `CleanRun`): jobs that have completed
  or are about to (`Acknowledged`) have their orders, every order is theirs as long as
  each commit was heard of, and whoever was told that nothing is left was told so
  truly.
- `RoundsTheorem`, `StaleTheorem`, `BlackboxTheorem`, for any page sizes, rounds
  and lost answers. `ProbeInv` adds what a baseline says of the stock
  (`BaselineTaken`), what a page size that settled has seen (`PollSettles`), and
  what a round can have cost (`RoundsCost`).
- `ContractTheorem`, `DefectTheorem` and `QueryTheorem`, for any catalogue and page
  sizes. The first two leave out a crawl that is allowed, and has rows enough, to walk
  beyond the last page the DTO serves (`ClampReached`); past that page, the first
  names the echo check of step 4 as an exception. `PageInv` adds that a crawl of a service whose
  pages fit together has seen exactly the rows of the pages it read
  (`CrawlsRight`), which needs the arithmetic of the last page and of the rounded-up
  number of pages. A cache keyed without the limit is such a service, at the page
  size of the first walk (`Cut`), which is why it is not found. Of the other defects
  it says what a walk has seen so far (`WalksKept`: page 1 again, or never the first
  row) and that a walk on which the defect shows ends with an accusation
  (`DefectNoticed`); and of the boundary queries, that an answer on record is the
  answer to the query on record (`QueryTaken`).
- `AccusedTheorem`, for any stock, rush and number of lost requests and readings.
  Each phase counts what it ordered against what the stock lost; `OrderInv` says
  who can have ordered (`Newcomers`, `BurstIds`), that a wait ended with nothing
  under way (`Waited`), how many units the orders of a phase have taken (`Counted`,
  `Stocked`), and what a rule the service keeps forbids (`Guarded`,
  `NoneForgotten`, `BothRead`).
- `GuiltyTheorem`, for the same: when nothing was lost and the script was never too
  early (`Smooth`), a service that breaks a rule is accused of something. `OrderInv`
  has a conjunct for each rule (`Found`), which says what the service that breaks it
  has done at each point of the phase that looks for it: every order of the burst
  has a job of its own (`NoLockFound`), nothing was ever sold (`LosesFound`), the lock
  of the first order keeps the second out (`UserLockFound`), five units are gone or
  none (`QuantityFound`), both late orders sold while there was a unit
  (`NoUniqueFound`), everyone in the rush holds an order or has a job
  (`NoGuardFound`). They share that the script has read what it was to read
  (`AllRead`) and that a lock is held for a job under way (`LocksHeld`), which a wait
  that ended with nothing pending therefore finds released. No assumption is made
  of the rush: one with units for everyone is an exception the property names.

The assumptions are the named `ASSUME`s of the modules: finite sets of users,
natural bounds, positive page sizes, null values outside the sets they are told
from. TLC evaluates each of them in the runs above.

Only model-checked:

- all liveness (`EveryClaimAnswered`, `JobsFinish`, `RequestsAnswered`,
  `ReadsAnswered`, `StatsSettle`), since neither fairness nor ENABLED is within the
  prover's reach;
- the four sentences of the repository that are refuted: a run's counterexample is
  the proof.

## 5. Not modelled, and why

JWT authentication, configuration, key naming, nginx and Bull Board's pages keep no
state the properties speak of. A Redis that loses data (restart to a snapshot) and
removal of jobs from the queue are outside the models: the code has no handling
for them and no document promises anything of them; they are listed as hazards.
So is a reset of Redis during a page's rebuild: the version counts from the start
again, and a page filed late under an old number is read when the number recurs.
Several products are modelled in StockClaim and OrderProbes only: no component
carries state from one product to another except the cache version, which is
shared by all. The counter of cache errors is incremented directly and read by
nothing but the statistics.

Of `src/load-test/` the scripts that only produce load (`products-read.js`,
`moo_ja_test.js`, `cache-stampede.js`), the failure injection of
`cache-failure-modes.js` and everything measured in milliseconds (latency
thresholds, staleness budgets, the timing classifier of `cache-blackbox.js`) are
left out, and so are the checks of field names and types: a model without data has
nothing to say of them.

Three abstractions of the load tests' models: OrderProbes reads the committed stock,
so a page that stays old after a lost bump is covered only as a worker that is late;
the Redis commands of the service do not fail there (a doubled `SET NX` would make a
correct service lose a write, and the script say so, rightly); and in Benchmark what a
late slot can still do after its job was handed out again is one step, a whole sale or
a failure, and two late slots of one job are one.

What a lost bump leaves behind is not a property either: the page stays old until its
TTL, and no code promises otherwise. That a claim which timed out on the row is not
retried follows from how the queue is used, and is a hazard without a property.

## 6. Plan

Done: FlashSale, StockClaim and its proofs; OrderPipeline and ProductCache with
their runs; the counters; the query DTO and page arithmetic; the load tests that
judge the system; benchmark runs with reset and seeding.

Every safety invariant and every action property a run checks is proved, and so are
the two refinements of FlashSale. The liveness properties stay with TLC.

A model of a Redis that is restored to a snapshot would be the next component, should
the code ever come to handle it.
