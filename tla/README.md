# A verification of demo-openfga-in-unikraft

This directory specifies the program in `src/` in TLA+, checks small instances of it with TLC, and proves the main safety results for every instance with TLAPS. `PROJECT.json` indexes it: components, runs, the source lines behind every definition, findings, hazards and theorems.

Sections: [The system](#the-system), [Components and what makes them correct](#components-and-what-makes-them-correct), [Modules](#modules), [What each run checks](#what-each-run-checks), [Fairness](#fairness), [Proofs](#proofs), [Findings](#findings), [What is not modelled](#what-is-not-modelled), [Plan](#plan), [Running it](#running-it).

## The system

The repository deploys a public authorization API on Unikraft Cloud. Three instances run on a private network:

```
caller --HTTPS--> demo-fga-api --HTTPS--> demo-fga-openfga --verify-full--> demo-fga-postgres
                  (api/src)               (OpenFGA v1.21.0)                  (wrapper.sh, volume)
                        ^                       ^
    deploy.sh pins the model      seed.sh writes store, model, tuples through tunnel.sh
```

- **The API** (`api/src`, TypeScript on Effect) turns `GET /check`, `POST /batch-check`, `GET /list-objects` and `POST /bench` into calls to OpenFGA. Its only lasting state is one cache entry, the *target*: the id of the store with the configured name and of its newest model. All requests share it. Requests are fibers, which interleave at every `yield*`; a client that disconnects interrupts its fiber.
- **OpenFGA** keeps stores, models and tuples in PostgreSQL and evaluates checks against them, through a cache of answers and sub-problems. The repository runs a released image and vendors its source (`docs/repos/openfga`) and its SDK (`docs/repos/js-sdk`) for reading. That source says what a listing, a deletion or a check against a missing store returns, how a check is evaluated and cached, how a batch is deduplicated and run, and how the stages of a listing hand items over.
- **PostgreSQL** starts through `infrastructure/unikraft/postgres/wrapper.sh`, which sets up an empty volume on the first boot and skips the setup afterwards. The platform restarts the instance whenever it exits.
- **The scripts** (`scripts/*.sh`) are run by an operator, one at a time: `build.sh` pushes images and records their digests, `tls.sh` issues certificates, `deploy.sh` creates the volume, the instances and the service group, `seed.sh` writes the store, the model and the tuples and records the model's id in `.cache/fga-model-id`, `cleanup.sh` deletes what `deploy.sh` made, and `tunnel.sh` reaches the private OpenFGA.

They interact through calls (API to OpenFGA to PostgreSQL), through what OpenFGA stores (`seed.sh` writes what the API looks up), through two files on the operator's machine (the model id and the digests), and through the cloud's list of resources, which the scripts look up by name before they create or delete.

What makes this hard to get right, or to test:

- concurrent requests that share one cache entry and one lookup, while the entry expires, a lookup fails, a client leaves, or an operator replaces the store behind the name;
- two retries that compose: the second attempt on a target that is gone, inside the retry of a transient failure, with a timeout on every call;
- a soft-deleted store that still answers, so that only the TTL catches its replacement;
- cached answers whose time starts again whenever another answer is made from them, and answers that are only right on the path they were computed on;
- children of a check that run at once, the first decisive one cancelling the rest, over teams and folders that may nest in a circle;
- a lock-free ring buffer that can be extended, grown and closed under its users;
- scripts that a signal or a failing command ends after any step, lookups whose failure looks like a missing resource, and state in two places (the volume and the model id file);
- an instance that crashes during the one boot that matters.

## Components and what makes them correct

| Component | State | Operations | Correct when |
| --- | --- | --- | --- |
| OpenFGA client (`openfga.ts`) | cache entry, lookup in flight, per request: attempt, try, timer | hit, join, start, settle or fail a lookup; send, answer, report gone, time out, retry, disconnect | one lookup serves all who wait, and only them; a failure is never remembered; a report drops the target it is about and no newer one; the number of calls is bounded; every request ends; a deleted store is asked for a bounded time |
| `/bench` (`handlers.ts`) | one permit | start, refuse, next check, finish, fail, disconnect | one run at a time, the permit always comes back, bounded work for any `n` |
| PostgreSQL start-up (`wrapper.sh`) | data directory, `pg_hba.conf`, database | the steps of `_main` | a served database is complete; a crash never leaves a volume that cannot come back (it can: see below) |
| `deploy.sh`, `cleanup.sh`, `seed.sh` | instances, service group, volume, migration, models, model id file | their sections | exit 0 means what the script says; a script that was cut short does not mislead the next one |
| Images (`build.sh`, `env.sh`) | digest file, registry | build, push, record, pin | a deploy runs the image that was built, whatever was pushed since |
| TLS (`tls.sh`, `check-certificates.mjs`) | key and certificate files | new CA, issue, keep, check | no deploy with a pair that does not match |
| Shutdown (`main.ts`) | connections, requests in flight | stop, answer, close | every request the server accepted is answered, then it stops |
| `/batch-check` (`api.ts`, `openfga.ts`, the SDK, OpenFGA's batch command) | items, one task per distinct check, results | accept, start, skip, evaluate, collect, match, repeat | each item is answered with its own check's outcome |
| Check evaluation (OpenFGA's `internal/graph`) | per check: the path visited, the depth | union, intersection, exclusion, userset, tuple-to-userset, strategies | what is granted is due, and only a cycle makes a cycle |
| Check cache (OpenFGA) | entries by problem and context | look up, evaluate, save, expire, evict | no answer is older than the API says |
| List pipeline's queue (OpenFGA's `mpmc/queue.go`) | ring of slots, head, tail, wake-up tokens | send, receive, extend, grow, close | a FIFO queue that loses nothing, with nobody stuck |
| Handlers' pure parts | none | client address, percentiles | only the nearest proxy's address counts |
| Authorization model (`authz/models`) | tuples | the rewrites of the relations | they mean what the comments and tests say |
| `tunnel.sh` | tunnel processes | start, signal | one signal per tunnel |

## Modules

| Module | Models | Lines of source |
| --- | --- | --- |
| `OpenFgaStores` | the stores under the configured name and their models, as a lookup and a check see them: creation, model write, soft deletion, a wiped datastore | `postgres.go`, `server.go` of the vendored OpenFGA |
| `OpenFgaClient` | `openfga.ts`: EXTENDS `OpenFgaStores` | `openfga.ts` 65-195 |
| `RequestPromise` | abstract: what the service promises of a request (2 calls, 4 with its one retry, an end) | - |
| `Bench` | `/bench`: its permit, the size clamp, the checks of a run; INSTANCEs `RequestPromise` for the checks it sends | `handlers.ts` 99-156 |
| `VolumeBoot` | abstract: the postgres instance and its volume as the rest of the deployment sees them | - |
| `PostgresBoot` | `wrapper.sh`, step by step, with crashes; implements `VolumeBoot` | `wrapper.sh` 36-363 |
| `Deployment` | `deploy.sh`, `cleanup.sh`, `seed.sh`: EXTENDS `VolumeBoot` | the three scripts, `env.sh` |
| `AuthzModel` | organisations, teams, folders and projects: the rewrites, and their meaning (`Holds`) | `core.fga`, `projects.fga` |
| `CheckResolver` | OpenFGA's evaluation of a check with a shared cache: EXTENDS `AuthzModel` | `check.go`, `cached_resolver.go` and the strategies of `internal/graph` |
| `CheckCache` | the age of answers: the API's time step, the TTL, HIGHER_CONSISTENCY | `handlers.ts` 68-82, `cached_resolver.go`, `cache.go` |
| `BatchCheck` | `/batch-check` from the caller's list to its answers | `api.ts`, `openfga.ts` 208-231, the SDK's `batchCheck`, OpenFGA's `batch_check_command.go` |
| `FifoQueue` | abstract: what a concurrent queue promises | - |
| `MpmcQueue` | the bounded queue, an atomic access at a time; implements `FifoQueue` | `mpmc/queue.go` |
| `MC*` | instances for TLC; `MCClientPins` also runs the client with each choice of pins | - |
| `*Proofs` | theorems and lemmas | - |

The first two abstract specifications join components, the third states what a data structure must look like from outside. `OpenFgaClient` refines `RequestPromise`, and `Bench` builds its checks from it, so that the bound on a run's calls rests on the client's. `PostgresBoot` refines `VolumeBoot`, and `Deployment` builds the postgres instance from it, so that "the migration succeeded" rests on what a crash of the first boot can leave. `MpmcQueue` refines `FifoQueue`. The three modules on checks divide the question between them: `CheckResolver` asks whether an answer is right for tuples that stand still, `CheckCache` how old the tuples behind it can be, `BatchCheck` whether it reaches the item that asked.

**OpenFgaClient.** A client is a slot that carries one request at a time. `entry`, `cached` and `entryAge` are the only entry of Effect's `Cache`; `lookup` is the fiber that fills it, with the phase of its two calls (`listing`, `listed`, `reading`, `read`). A call is three steps, sent, evaluated and received, so that the store can change in between: the lookup's answer and the check's are as old as the moment OpenFGA evaluated them. `pc` is where a request is: `start` (at the cache), `waiting` (for the shared lookup), `calling`, `backoff` (before the transient retry), `idle` and `failed`. `cached.id` is the identity of the target object, because `Cache.invalidateWhen` in `withTarget` compares objects, not ids; `held` is the object of the request's last call. One action is one run of a fiber up to its next suspension: `Gone`, for instance, drops the entry and starts the second attempt, or fails the request. Errors are `transient` (an Effect retry may fix it) or `final`. Time is counted in ticks; no timer runs past its timeout.

**Bench.** `permits` is the semaphore of one; `left` the checks a run still has to send, warm-ups included; `running`, `retried` and `calls` are the check in flight, whose steps are those of `RequestPromise`. The query's `n` is nothing, not a number, or a number in halves, so that truncation is exercised on both sides of zero; `benchSize` is translated as the code computes it.

**PostgresBoot.** `disk` is how far initdb got (`files` before `PG_VERSION`, `version` after it, `cluster` when complete), `hba` and `db` the line and the database the later steps add, `exists` the variable the skip depends on, `pc` the next step. `Crash` stops any of them; `InitdbFails` is the failure that cleans up after itself. `cut` records that a setup on this volume was cut short. With TLS on, PostgreSQL reads another `hba_file` from the image; the line is still written and is what matters with `INTERNAL_TLS=off`.

**Deployment.** `pc` is the next section of the script that runs, named after the resource it makes or removes; a script is atomic in none of them. `Faults` says what can go wrong: `interrupt` ends the script at any step, or fails a deletion that may have happened; `lookup` makes a `unikraft ... get` of an existing resource fail; `hand` lets the operator delete the volume with the CLI, as the repository's README shows. `Interrupt` before a step is a command that failed without effect, after it one that failed although it worked. `migrated`, `store`, `written` and `lost` are what the volume's database holds: model ids count up and models 1..`lost` went with an earlier volume. `missed` is history: whether a lookup of the present script failed that way. The migrate instance runs on its own between `RunMigrate` and `ReadExitCode` and outlives an interrupted deploy.

**AuthzModel, CheckResolver.** `Relations` is the model as OpenFGA is given it, `Holds` a reading of its comments in sets and reachability; the two are written independently and compared. A store holds only tuples that OpenFGA accepts (`WellTyped`): a team is granted only what `core.fga` and `projects.fga` grant to teams. One user asks. An evaluation has a *set* of outcomes, since children run at once, any read may fail, and the planner may pick any strategy that fits: `yes`, `no`, `error`, and `cycle` for a no that a cycle made, which the code flags. `AnyOf`, `AllOf` and `Except` are the three reducers over such sets. A context may end under an evaluation: the request is cancelled or times out, or a sibling's answer cancels it. Then a child's outcome may be dropped and the loop of a union or an intersection end on the closed channel, so `SomeOf` and `EachOf` add what the loop began with; exclusion keeps waiting, and a dispatch asks its context at the end (`Counted`). A call has one of three modes: `fresh` (HIGHER_CONSISTENCY, reads no cache), `live`, or `ended`. `cut` is history: whether the answer of an ended evaluation was ever saved. `Resolve` saves without asking the context, as the code does. `Leaf`, `Union` and `Rewrite` walk a rewrite, whose nesting is as deep as the model's: an exclusion of unions of leaves. A call is a problem with the path that led to it (`seen`) and its depth; `Check` is a recursive function from calls to outcomes, `Match` one from the states of the search through nested teams. `Asked` is the set of calls that the roots can lead to, each with a context that lives and one that ends, so that `Resolve` saves what a request on any of those paths would. Conditions are left out: a tuple whose condition does not hold is no tuple. Task lists and tasks are left out, as they add no rewrite of a new shape. A HIGHER_CONSISTENCY request does not read the cache but saves to it.

**CheckCache.** A check is a chain of problems of which the last reads tuples. `asof` and `at` are when an answer's tuples were read and with which `current_time` their conditions were evaluated; `stamp` is the time the API floored, which is part of the key. `Save` starts the TTL again whatever the answer was made from. There is one clock, since only the API stamps. OpenFGA's cache controller and the jitter of its TTLs are off in this deployment.

**BatchCheck.** `task` is where the evaluation of each distinct check is. `current` holds the decisions OpenFGA may give a check now, by the tuples as they are or from its cache, and `held` collects them over the call. `Collect` hands the results over in any order, as a map of Go and the keys of a JSON object have none that matters. The API, the SDK and OpenFGA all draw the line at 50 items, and OpenFGA evaluates 50 at once: a batch is one call, and no task waits for another. OpenFGA's own test for repeated ids finds nothing that the API's let through, and has no action.

**MpmcQueue.** A step is one atomic access: reading head or tail, looking at a slot's sequence number, the compare-and-swap, publishing, the token. A section under the write lock is one step, since nobody holds the read lock meanwhile; a writer that waits for it lets no more readers in (`Admits`). `Extensions` is a set, from which each behaviour takes one limit, so that one run has queues that may extend and queues that park their senders.

External behaviour that the models take as given: Effect's `Cache` shares one lookup between concurrent callers and interrupts it when its last caller leaves; its semaphore returns the permit when the run ends or is interrupted; initdb writes `PG_VERSION` before it completes and refuses a directory that is not empty; the platform refuses a second resource of the same name and the deletion of an attached volume; `openfga migrate` exits 0 only after it migrated a reachable database; Go's read-write lock, channels of one token and atomics do what their documentation says. These are visible in the code's own use of them.

## What each run checks

| Run | Checks | Instance and why it is enough |
| --- | --- | --- |
| `client_safety` | `TypeOK`, `LookupIsAwaited`, `GoneNotReused`, `CallBudget`, `FreshTargetKept`, `FailureNotCached` | two requests, two stores of the name (one replaces the other), two models, three object identities: a request's old target, the other's, and the cached one. TTL and timeout of one tick, so expiry, timeout and report race. The pins are chosen at the start: none, the model (what `deploy.sh` makes), or the store and the model |
| `client_liveness` | `BoundedStaleness`, `RequestEnds`, `PromiseKept` | two requests, one store that is created and deleted, and OpenFGA free never to answer; ages up to 5, one more than the bound of TTL + 3 timeouts |
| `bench` | `TypeOK`, `PermitHeld`, `WorkBounded`, `RefusedForARun`, `FreeAgain` | three callers; `n` of -1.5 to 4.5 in halves, nothing, and not a number, against BENCH_MAX = 3 |
| `batch_check` | `AnswersItsOwn`, `OutcomeForEvery` | three ids, two checks, up to three items and one too many: every way for items to share a check, every order of the reply. `TypeOK` is proved |
| `check_eval` | `TypeOK`, `CacheExact`, `DecisionsRight`, `AcyclicDecides`, `CyclesResolve` | 256 stores: seven tuples that link a project, two folders, two teams and an organisation, with a second organisation the user belongs to, and every subset of eight more, one of which closes a circle of teams and one of folders. Four roots; a depth limit of 5 (25 in the code), which the longest paths reach; a cache of one entry, so that every save makes room. Every call with its context alive and ended |
| `check_cache` | `TypeOK`, `AnswerWithinStep`, `FreshWhenAsked` | two requests, a check with one problem below it, steps of 3 and a TTL of 1, so that an entry made from an entry outlives its TTL within a step; the clock runs to 4, into the second step |
| `mpmc_queue` | `TypeOK`, `NobodyStuck`, `FifoKept`, `DrainedFirst` | two senders, two receivers, three sends into two slots: laps, a full and an empty ring; at most one extension, or none; `Grow(4)`; receivers whose contexts end |
| `postgres_boot` | `TypeOK`, `ServesWhole`, `BootAsPromised`, `ComesBack` | five crashes, failures or deletions: enough for a crash in each of several boots of one volume |
| `deploy_all_faults` | `TypeOK`, `MigratedFirst`, `DeployKeepsWord`, `GoneUnlessMissed`, `SeedRecordsLatest`, `WrittenIfChanged`, `ScriptsEnd` | every fault; two attempts of the migration (the code has five: a first, a retry and the last are the cases), two models written and two versions of `authz/models`: a model that is written again, one that changed, and one whose volume went |
| `client_gone_pair`, `deploy_stale_pin`, `check_cancelled` | `GonePairDropped`, `PinAlive`, `SharesDue`, each violated | the instances of the runs above; `deploy_stale_pin` lets only the operator's hand disturb the scripts. See Findings |

Deadlock is checked in every run but `postgres_boot`: once its crashes are spent, a server that serves takes no further step. Symmetry (over clients and object identities, callers, ids and checks, senders and receivers) is used only in runs without liveness. Every checked property of a passing run has a mutant, an operator defined before the one it replaces and marked `Mutant`, that breaks it the way a plausible bug would.

The properties, in words:

- `LookupIsAwaited`: a lookup is in flight exactly while the entry is pending, and exactly while somebody waits.
- `GoneNotReused`: after a gone report a request never finds the same object in the cache again.
- `FreshTargetKept`: a target that has not expired leaves the cache only after a report about that very object.
- `FailureNotCached`: nobody is answered with a failure from before it came.
- `CallBudget`: two calls per try, two tries.
- `BoundedStaleness`: a call is in flight only to a store that was listed at most TTL + 3 timeouts ago: one for the listing, one for the read of the model, the TTL in the cache, one for the call.
- `RequestEnds`, `PromiseKept`: every request ends, and the service implements `RequestPromise`.
- `PermitHeld`, `RefusedForARun`, `WorkBounded`, `FreeAgain`: the permit is out exactly while one run holds it, a 429 means that another run holds it, a run sends at most 4 calls per check, and the permit is free again and again.
- `ServesWhole`, `ComesBack`: a served volume is complete, and an instance comes back to serve, unless its setup was cut short. That exception is real: `wrapper.sh` looks only for `PG_VERSION`, so a first boot killed after initdb wrote it serves a cluster without the `openfga` database, and one killed before it never starts again. `VolumeBoot` has both outcomes (`half`), and `Deployment` shows what saves the deploy: the migration fails on such a database.
- `MigratedFirst`: a deploy that includes the migration reaches OpenFGA only with the schema in place.
- `DeployKeepsWord`, `GoneUnlessMissed`, `SeedRecordsLatest`: what exit 0 of each script means. For cleanup it takes that none of its lookups failed; `missed` records one that did.
- `WrittenIfChanged`: `seed.sh` writes a model only if it changed, even when an earlier run died before it recorded one, unless the latest model could not be read.
- `PinAlive`: the recorded model is one of the present database. Proved when no script is interrupted and nothing is deleted by hand; violated by a deletion by hand.
- `GonePairDropped`: after a report about a pair whose store was wiped before it, the cache does not hold that pair. Violated.
- `ScriptsEnd`: every script ends, the migration's loop included.
- `AnswersItsOwn`: the answers of a batch stand in the caller's order, and each is a decision OpenFGA gave that item's check while the call ran, or an error, and that only if its evaluation failed.
- `OutcomeForEvery`: when OpenFGA hands the outcomes out, every check has one, those a cancelled context kept from running included; the code would panic on a missing one.
- `CacheExact`: a cached sub-problem is what the tuples say, whatever path of whatever request it was computed on, as long as no evaluation was saved whose context had ended. Even then no role and no membership (a relation without intersection or exclusion) is cached as a yes that is not due.
- `DecisionsRight`: a `yes` is due, and a `no` that no cycle made means that access is not. It holds of a request whose context lives: always with HIGHER_CONSISTENCY, and for one that reads the cache as long as no evaluation was saved whose context had ended. A role or a membership is never answered yes unduly, ended contexts included. Errors are always possible.
- `SharesDue`: a cached yes to `can_share` is due. Violated: see Findings.
- `AcyclicDecides`, `CyclesResolve`: only a circle in the tuples makes a cycle, diamonds do not; and a relation without exclusion loses nothing to one, for the same requests as in `DecisionsRight`. `AcyclicDecides` covers requests whose context ends too. With exclusion a circle of folders does cost something: `but not is_blocked` turns the cycle met under `is_blocked` into a denial. That is the safe side, and `DecisionsRight` allows it because the no is flagged.
- `AnswerWithinStep`: tuples and `current_time` behind an answer are less than one `CURRENT_TIME_STEP` older than the request. The README's "up to 10 s" is true because of the step in the key; the TTL alone would not bound it, as every save restarts it. A longer step would lengthen it. `/bench` sends no context, so nothing but the TTL and the chain of problems bounds the age of what it measures, and it is not about that.
- `FreshWhenAsked`: a HIGHER_CONSISTENCY answer rests only on tuples read after the request began.
- `FifoKept`: `MpmcQueue` implements `FifoQueue`, across extension, growth and laps of the ring.
- `DrainedFirst`: a receiver whose context lives is sent away only from a closed queue that is empty for good.
- `NobodyStuck`: senders and receivers never all wait for each other.

## Fairness

- `OpenFgaClient!FairSpec`: weak fairness of `Tick` (clocks advance), of the two timeouts, and of the steps a fiber takes on its own (`Hit`, `JoinLookup`, `LookUp`, `Retry`): Effect's scheduler runs every ready fiber. There is none on OpenFGA's answers, on clients or on operators, so `RequestEnds` says that timeouts alone end every request.
- `Bench!FairSpec`: weak fairness of a run's own steps and of the end of each check. The latter is `RequestPromise`'s fairness, which `client_liveness` shows the client keeps.
- `PostgresBoot!FairSpec`: the script runs, and the platform restarts what exits (`restart: always`, `deploy.sh:117-118`). Crashes are bounded by `MaxCrashes`, which for liveness means that they stop some day.
- `Deployment!FairSpec`: a script takes its next step, and the migration ends (`deploy.sh:166` waits 5 minutes at most). Starting a script, editing the models and the postgres instance's own steps have no fairness.

## Proofs

All theorems hold for every value of the constants that satisfies the named assumptions (`BoundsAssumption`, `ClientAssumption`, `BenchAssumption`, `CrashAssumption`, `DeploymentAssumption`, `BatchAssumption`, `QueueAssumption`, `ObjectsAssumption`, `ResolverAssumption`, and `ConstantsAssumption` of `CheckCache`), which the code justifies: sizes are natural numbers, a timeout is at least one tick, a step at least one, the identities exclude the null one, pins are ids or absent, a queue has at least two slots, an object has one type and there are finitely many, stores are well-typed, and the depth limit is at least one. Every invariant that a passing run checks is proved; `PinAlive`, which a run refutes, is proved for deployments that nobody interrupts or touches by hand.

| Theorem | States |
| --- | --- |
| `OpenFgaClientProofs!TypeCorrect` | `TypeOK` |
| `LookupAwaited`, `BudgetKept`, `GoneNeverReused`, `StalenessBounded` | the safety invariants of `OpenFgaClient` |
| `FreshTargetStays`, `FailuresForgotten` | its action properties |
| `PromiseSafe` | `Spec => Promise!SafeSpec`, the safety part of the refinement |
| `BenchProofs!OneRun`, `WorkIsBounded`, `RefusalsJustified`, `BenchTyped` | `PermitHeld`, `WorkBounded`, `RefusedForARun`, `TypeOK` |
| `SizeInRange` | `benchSize` is between 1 and `BenchMax` for every input: no run of zero checks |
| `BatchCheckProofs!EachItsOwn`, `NoneWithoutOutcome` (and `TypeCorrect`) | `AnswersItsOwn`, `OutcomeForEvery` |
| `CheckCacheProofs!AgeBounded`, `FreshnessKept`, `TypeCorrect` | `AnswerWithinStep`, `FreshWhenAsked`, `TypeOK` |
| `PostgresBootProofs!ServedWhole`, `BootRefines`, `BootTyped` | `ServesWhole`, that `wrapper.sh` implements `VolumeBoot`, `TypeOK` |
| `DeploymentProofs!TypeCorrect`, `MigratesFirst` | `TypeOK`, `MigratedFirst`, under every fault |
| `WordKept`, `LeavesNothing`, `RecordsLatest`, `WrittenOnce` | `DeployKeepsWord`, `GoneUnlessMissed`, `SeedRecordsLatest`, `WrittenIfChanged`, under every fault |
| `PinStaysAlive` | `PinAlive`, if no script is interrupted and nothing is deleted by hand |
| `MpmcQueueProofs!TypeCorrect`, `DrainsFirst`, `Refines` | `TypeOK`, `DrainedFirst`, and `FifoKept`: `MpmcQueue` implements `FifoQueue` |
| `NeverStuck` | `NobodyStuck`, if there is a receiver and no sender's context ends |
| `CheckResolverProofs!ExactAlways` | the inductive invariant `Exact` |
| `TypeCorrect`, `CacheStaysExact`, `DecisionsAreRight` | `TypeOK`, `CacheExact`, `DecisionsRight` |
| `AcyclicAlwaysDecides`, `CyclesAlwaysResolve` | `AcyclicDecides`, `CyclesResolve` |
| `MeaningOfRewrites` | a relation of the model, read step by step as its rewrite says, holds exactly when `Holds` says so, for every well-typed store, circles included |

The inductive invariants:

- **Budget.** `CallBudget` bounds `sent` by `tries` only; what a step adds depends on where the request is. `RequestInv` says how much it may have sent at each `pc` given its attempt and try, that a finished request has reset all three, and that only a calling request has a running timer. The refinement `PromiseSafe` rests on it too: `Call` needs room in the budget.
- **Staleness.** `AgeInv` follows the age of a store through the pipeline: at most the lookup's timer when its id has been listed, one timeout more while its model is read, two timeouts plus the entry's age in the cache, and from there the TTL and the call's own timer. A store that is listed has age 0, which starts the chain.
- **Gone.** `GoneNotReused` is inductive with `TypeOK` and `RequestInv`: a new target takes an identity that no request still holds (`FreshId`), and a report drops the entry if it is the reported object. `RequestInv` gives that a request that starts anew is at its first attempt.
- **Lookup.** `LookupIsAwaited` is inductive by itself: settling and failing move every waiter, and the last disconnect cancels.
- **Bench.** `BenchInv` adds to `PermitHeld` how much a run has spent for the checks it has left, from `SizeInRange`.
- **First boot.** `SetupInv` says what each step of `wrapper.sh` relies on (`StepsInv`) and what a volume can hold (`DataInv`): the database comes last, and data without it means that its setup is running or was cut short for good. The refinement maps each step of the script to a step of `VolumeBoot` or a stutter.

- **Batch.** `TasksSound` says that what was sent passed `Accepted` and that a decision, once made, is one that was held; `ReplySound` that the reply names every id, with the outcome of its check. The step between them is `CollectIInv`: since no two items share an id, a result with an item's id can only be that item's.
- **Cache age.** `EntriesSound`: what is found under a stamp was read no earlier than the stamp and evaluated at it. It needs nothing of the TTL, which is why no chain of saves can break it. `RequestSound` carries it along a request, and `StampBounds` turns it into the age.
- **Deployment.** `IInv` has seven parts: which sections each script may be in (`Control`), the count of attempts, what model ids there can be (`Models`), that a migration which ended well migrated the database the instance serves (`OnPath`), and what a deploy, a cleanup and a seed have achieved by each of their sections (`Deployed`, `Cleaned`, `Seeded`). The last three are the strengthening: what an exit 0 means follows from what each section found when it ran, as long as nothing later undoes it. Each part has a lemma with one step per action; the ways to end a script share the lemma `Exits`.
- **Queue.** `Slots` says what the slot of every position within one lap shows: that of a claimed position is published, or exactly one sender owns it; that of a free one is writable, or one receiver still owns it from the lap before. `SenderAt` and `ReceiverAt` say what a process knows at each step, `Exclusive` that no two processes own the same position. Within a lap the slots are distinct (lemma `Ring`), and a sequence number read as writable cannot be one read as published, which takes a capacity of two. For the refinement, `Items` is the item of each position, from its slot or still from its sender; an item enters when its position is claimed, and is taken when its position is claimed, so publishing, recycling and extending the ring change nothing that `FifoQueue` sees.
- **Wake-ups.** `WakeInv` says where a wake-up can be. A token in a channel means that nobody is parked on it (`Unclaimed`). If every receiver waits, there is nothing to read, or the token `empty` or a sender about to signal is on its way to one of them (`ReadersWoken`). If a sender waits, there is something to read, or the token `full`, a receiver or another sender is about to act on the room there is (`WritersWoken`). Who looks at a ring's slot must see the truth for this: `RoomWhenEmpty` (an empty ring shows a writable slot) and `NothingToRead` (a ring that shows no item is empty, or its sender is still at work), from `Slots`.

- **Checks.** `Exact`, which is `TypeOK` and `CacheExact`, is inductive because an evaluation over a cache that is right is right (`CheckRight`). What is right depends on the call: one whose context lives and that reads no spoilt cache (`Sound`) gives a `yes` that is due and an unflagged `no` that means no access; of the others only a `yes` counts, and only to a relation without intersection or exclusion (`Grantable`). The children of a union or a tuple-to-userset of such a relation are such relations again, so the second part carries itself. The induction is on the problems that a path has not visited yet (`CallInduction`), since a call that goes on adds one to the path. It is a lemma about each reducer, then each strategy, then each rewrite. The meaning it compares with comes from `MeaningOfRewrites`. That `Check`, `Below` and `Match` exist as functions is a lemma of its own (`FixedPoint`), as they are recursive over sets that are not the natural numbers. The search through nested teams says no only when the teams it has visited lead to none of the user's (`Explored`, `Fruitless`).
- **Cycles.** For `AcyclicDecides`, `Earlier` orders the problems strictly when no tuples form a circle: by the level of their types (projects and teams, then folders, then organisations), by nesting (`Beyond`), and by the rank of relations of one object. Every call of an evaluation is later than its whole path, so none repeats one. For `CyclesResolve`, `Wins(seen)` is the least set of problems that are granted along paths that avoid `seen`. What holds is in `Wins({})` (`MeaningWins`), and what grants a problem needs no way back through it (`WinsStep`), so a `Sound` evaluation whose path is `seen` always has a child that can decide, and a `yes` outranks a flag.

Model-checked only: everything under fairness (`RequestEnds`, `PromiseKept`'s liveness, `FreeAgain`, `ComesBack`, `ScriptsEnd`), which is out of the prover's reach. The recursive functions of `CheckResolver` are proved about through their defining equations; what they compute is pinned down by inductions on sets (`NatSets`), not by evaluating them.

## Findings

Three statements of the repository that the code does not keep; each has a run that TLC refutes.

1. **`client_gone_pair`.** `openfga.ts:4-6` says the pair is "dropped as soon as OpenFGA says the store or model is gone". The entry is dropped only if it is the object of the failed call (`openfga.ts:179-182`), and the same pair can come back as another one. Request A caches the pair and calls; the entry expires while its call is in flight; B's lookup, evaluated before the datastore is wiped, caches the same ids again; A's call is answered that the store is gone. The report drops nothing, and A's second attempt finds the pair that OpenFGA has just called gone.
2. **`deploy_stale_pin`.** `cleanup.sh:58` says that the model the API pinned goes with the volume, and removes the model id file. Only the cleanup that deletes the volume itself does so: after the volume is deleted by hand, the way the README shows (`src/README.md:280-290`), the file names a model that is gone, and a later `cleanup.sh --volume` finds no volume and keeps it. The next deploy pins that model (`deploy.sh:231`), and checks are answered 502 until the operator seeds and deploys again. An interrupt between the deletion and the `rm` leaves the same state.
3. **`check_cancelled`.** `check.go:220-222` says that an intersection requires all of its operands to be allowed. When its context ends, an operand's outcome may be dropped (`concurrency.go:26-33`), and the `break` on the closed channel (`check.go:261-263`) leaves only the `select`. Go picks at random between the closed channel and `ctx.Done()`, so the loop can complete on its initial `Allowed: true`. `cached_resolver.go:200-202` saves it, and the deployment's cache (`deploy.sh:219`, 10 s) serves it to other requests. The run caches a yes to `can_share` for a user who is not due it. Union (`check.go:193-195`) can end on its initial no: cached for a blocked relation, it lets a live `can_view` pass. It takes a consumer that is off its `select` when the context ends; exclusion is not affected.

Four observations that properties state as exceptions rather than as findings:

- A lookup in `cleanup.sh` or `seed.sh` that fails for any reason counts as "not found". Cleanup then exits 0 with the resource left, and seed writes the same model once more. `GoneUnlessMissed` and `WrittenIfChanged` except such a lookup (`missed`).
- A first boot that is cut short serves a cluster without its database, or never comes back (`ServesWhole`, `ComesBack`).
- In `mpmc/queue.go` one token stands for any number of wake-ups: of two receivers about to park, one may park beside an item, until the next send or close. The pipeline gives each queue one receiver, where this cannot happen, and `NobodyStuck` holds with any number.
- A sender that takes the token `full` and whose context then ends leaves without passing it on. Another sender may stay parked beside an empty ring, with every receiver waiting for it. `NeverStuck` and the run let only receivers' contexts end. The pipeline's queues extend without limit (`medium.go:129`), so its senders never park.

## What is not modelled

- **Images and digests, TLS, tunnel**: the digest file, the certificate files and the relays. They are in the plan below; their hazards are listed.
- **Startup and shutdown of the API**: the outcome of `main.ts` 76-100 rests on Node's HTTP server and Effect's scope.
- **OpenFGA beyond checks**: tuple writes and listings, the storage layer, contextual tuples, throttling, ListObjects other than its queue; conditions other than by their absence. Its parsers, validators and generated code keep no state. This is most of the repository's lines: about 100 000 of the 107 000 are vendored copies of OpenFGA, its API, SDK, CLI and language tools, which the repository keeps for reading and does not build.
- **Pure parts of the handlers**: the caller's address and the percentiles of `/bench`.
- **Two scripts at once**: README and scripts assume one operator. What two would do to the digest file and to the store is listed under hazards.
- **Test, check and measurement scripts, Dockerfiles**: they keep no state of the system. The steps inside a deletion or a creation belong to the platform.

## Plan

Done, in the order of their weight for the system:

1. `OpenFgaStores`, `OpenFgaClient`, `RequestPromise`, with `OpenFgaClientProofs`: the service every request depends on, and its concurrency.
2. `Bench`, `BenchProofs`; `BatchCheck`, `BatchCheckProofs`.
3. `VolumeBoot`, `PostgresBoot`, `PostgresBootProofs`, `Deployment`, `DeploymentProofs`: the deployment's state across scripts and crashes.
4. `CheckCache`, `CheckCacheProofs`: how old a decision can be.
5. `AuthzModel`, `CheckResolver`, `CheckResolverProofs`: whether a decision is right.
6. `FifoQueue`, `MpmcQueue`, `MpmcQueueProofs`: the queue of the list pipeline.

Left:

1. `Tls`: `tls.sh` with a crash between any two files, against what `check-certificates.mjs` accepts; no deploy with a pair that does not match, and a way back from every crash.
2. `Images`: `build.sh`, `record_digest`, `pinned_image`, with two builds at once; the lost update of the digest file.
3. `Shutdown`: no request is left without an answer on a kept-alive connection, and the process stops.
4. `Tunnel`.

## Running it

In this directory, for a run of the table above: `tlc -workers 2 -config Deployment_all_faults.cfg MCDeployment`. For a proof module: `tlapm BenchProofs.tla`. The longest runs, `client_liveness`, `deploy_all_faults` and `check_eval`, take a few minutes.
