# healthkit in TLA+

A verification project for the healthkit crate: TLA+ modules translated from its
source, TLC configurations that check them on small instances, and TLAPS proofs
that carry the main results to every value of the constants. Source paths are
those of the repository (`src/registry.rs` is the crate's own `src` directory).

## Running it

    tlc -workers 2 -config RegistryConcurrent.cfg MCHealthRegistry # any run of PROJECT.json
    tlapm HealthRegistryProofs.tla                                 # any *Proofs module, RegistryRefinement

## The system

healthkit is a library. A service registers health checks (closures that return
futures) in a `HealthRegistry`; HTTP handlers, called by a kubelet, a load
balancer or Prometheus, sweep the registry and turn the results into an answer.
Everything runs on one tokio runtime: async tasks, timers, a pool of blocking
threads.

| Part | State | Operations | Talks to |
|---|---|---|---|
| Registry, `registry.rs` | the vector of checks behind an `RwLock`; per handle a default timeout | `add_check[_to_group][_async]`, `check_all`, `check_group`, `check_liveness`, `check_readiness` | the checks' futures; tokio's `timeout` and `spawn_blocking`; the `metrics` facade |
| Types, `types.rs`, `error.rs` | none | statuses, results, responses | everyone |
| Routes, `axum.rs` | a registry handle, `ReadinessConfig`, a group name | `/healthz`, `/ping`, `/readyz`, `/startupz`, `/healthz/detailed` | registry sweeps; the client |
| Metrics, `metrics.rs` | one cache entry behind an `RwLock`, a ttl | `render_prometheus`, `/metrics` | registry sweeps; the scraper |
| Redis check, `checks/redis.rs` | url, timeout, threshold | `check`, and `ping` on a blocking thread | the blocking pool; a Redis server |
| SQLx check, `checks/sqlx.rs` | pool, timeout, threshold | `check` | a database pool |
| Example, `examples/k8s_service.rs` | flags `initialized` and `draining` | start-up, graceful shutdown | all of the above; the kubelet |

What makes each correct, and what is hard about it:

* **Registry.** Registrations and sweeps run concurrently; a sweep works on a
  clone. An answer must cover what was acknowledged before it began, in one
  stable order, with every slot decided exactly once although answers race
  timeouts. A sweep must end although checks may not. An async registration
  runs on a thread its caller cannot recall and its runtime may cancel. A sweep
  can vanish at any await: its client hangs up, a check panics.
* **Routes.** The HTTP code must follow the aggregate (and the strictness setting) and
  liveness must not depend on any check.
* **Metrics.** How old may a served answer be, when scrapes overlap, miss
  together and overwrite each other's entry? Does a scrape always end?
* **Redis check.** The probe gives up, its thread cannot. The thread must end
  all the same, must not starve later probes past their deadline, and its own
  socket timeout must not pre-empt the probe's.
* **Renderer.** One broken line spoils the whole scrape: names must survive
  escaping, series must not collide, a histogram must be one, and the gauge must
  agree with what readiness says.
* **SQLx check.** The timeout drops a query that waits for, tests or holds a
  connection of a pool the application uses too. Does the check end while the
  pool is exhausted, and does probing a dead database drain it?
* **Example.** The init group alone gates start-up; a draining pod answers 503
  while it still accepts; equal deadlines (2 s and 2 s) race; a crash at any step
  starts over.

`PROJECT.json` lists the hazards line by line, with the properties that cover
each.

## Modules

| Module | Models | State and actions |
|---|---|---|
| `HealthTypes` | statuses and `aggregate` | operators only |
| `HealthRegistry` | `registry.rs` | `checks` is the vector; `task`, `caller`, `runtime` the asynchronous registrations; `phase`, `scope`, `snapshot`, `cells`, `future`, `elapsed`, `overall` one sweep each; `emitted` the facade's counter and histogram. One action per step between awaits: see below |
| `ProbeContract` | what the registry promises | a growing log, callers' standing, reports over a prefix of the log; no clones, slots, timers or pool |
| `HealthTypesProofs`, `HealthRegistryProofs`, `RegistryRefinement` | | theorems about these |
| `MetricsCache` | `MetricsState::render`, the `/metrics` handler | `cache` is the entry (a set of at most one); `stage`, `startedAt`, `seen`, `slots`, `body`, `answeredAt` one scrape each; `dep`, `flippedAt` the world it looks at |
| `MetricsCacheProofs` | | its theorems |
| `RedisCheck` | `checks/redis.rs` with tokio's blocking pool and a server | `call`, `outcome`, `elapsed` the async side; `job`, `queue`, `ioTime` the blocking side; `server`, `runtime` the world |
| `TimedCheck` | what `check()` of either check promises | `stage`, `verdict`, `age` of each call; no thread, pool or server |
| `RedisCheckProofs` | | its theorems |
| `PrometheusText` | `render_prometheus` and its helpers | `results` is the sweep being rendered; the text is an operator of it, a sequence of lines |
| `PrometheusTextProofs` | | its theorems |
| `SqlxCheck` | `checks/sqlx.rs` with sqlx's pool and a database | `phase`, `outcome`, `elapsed` one probe each; `queue`, `returning`, `held`, `closed` the pool; `database` the world; `hungSince` remembers which probes began in the present hang |
| `SqlxCheckProofs` | | its theorems |
| `HealthRoutes` | the decisions of the handlers in `axum.rs` | operators only: a route's checks' statuses to an HTTP status |
| `K8sService` | `examples/k8s_service.rs` and the handlers of `axum.rs` | `process` is how far `run()` has come; `initialized`, `draining` the flags; `stage`, `route`, `slots`, `thread`, `code` one request each; `dep` the dependencies; `sawDraining`, `steady`, `late` remember whether the flag was set when a sweep began, and which dependencies have changed or were timed out since |
| `K8sServiceProofs` | | its theorems |
| `MC…` | instances for TLC | constants and symmetry sets |

### HealthRegistry

A registration call and the check it registers share an identity (`Call`). The
push under the write lock is one step, for `AddCheck` in the caller's and for
`AddCheckAsync`/`RunRegistration`/`AsyncReturns` in a blocking thread between
the caller's two polls; `DropCaller` drops the future at its await,
`CancelRegistration` is the pool refusing a queued task while the runtime stops.
A sweep begins with the clone of the vector (`BeginProbe`, with the scope as its
argument: `check_all`, `check_liveness` and `check_readiness` are registry-wide,
`check_group` is not) and starts one `run_one` future per check due. A check
becomes ready (`CheckReady`) apart from the poll that notices it: a poll takes the
answer of a check that is ready (`CheckReturns`), late or not, since tokio's
`timeout` polls the future before its timer, and ends one that is not once its
timer has expired (`CheckTimesOut`). `Answer` is the poll that fills the last slot:
the facade's counters and histogram, the aggregate and the return are one step
because no await separates them. `CheckPanics` and `Abandon` end a sweep without
an answer. Results keep status, message kind and duration; names matter only to
the facade. A check may itself fail with `CheckTimedOut`, as `RedisCheck` and
`SqlxCheck` do, in any sweep and at any time; its message is then that of a
timeout although the registry's timer had no part in it. The other error variants
tell nothing apart and are one, `"error"`.

Time is discrete. Every future has a clock of its own, from its first poll on, and
the sweep has one from its first poll to its answer. `Tick` waits only for the
runtime: for a sweep that can answer, and, from `Lag` ticks after a deadline on, for
a poll that would resolve a check (`PollIsDue`). It does not wait for a check: one
that nothing resolves lets time pass its deadline, so that a sweep that awaits its
checks in turn (mutant `PolledInTurn`) or without a timer (`ArmedNever`) breaks
`SweepWithinDeadline`. The clocks saturate one tick after the bound. `Lag` is an
assumption on the scheduler and on checks that yield; a check that blocks its
thread is outside it.

### MetricsCache

The sweep is the registry's seen from outside: each check looks at its dependency
at some moment of the sweep (`Observe`), its future resolves at a later one
(`Return`), and `TimeOut` may decide any check that has not returned by the
deadline, on time alone, whether its dependency hangs or the check is late. The
model keeps a timeout apart from an unhealthy dependency (`"timed_out"`; the code
reports both as unhealthy), since an answer that says so is not stale. The sweep is
over by `Deadline`, which is `SweepWithinDeadline` of the registry. Cache hit, miss,
write and drop of a scrape are separate steps with no lock between them, as in the
code.

### RedisCheck

`check()` is `StartCheck` (queue the task, start the timer), `CheckReturns` or
`CheckTimesOut`, or `DropCheck` when the registry's own deadline or its client
drops it. `ping()` is `PickUp`, `Connect`, then `Reply` or `PingTimesOut`.
`Connect` may hang: the redis crate's `get_connection` connects and runs its
handshake before `ping` sets a socket timeout. Slack is `Timeout + Margin`, the
margin being the code's second; `Lag < Margin` says the runtime serves its
timers faster than that. The PING is one exchange: a server that sends a reply
byte by byte, each within the socket timeout, is not modelled. Dropping the
runtime cancels queued tasks and waits for busy threads, as tokio documents.

### TimedCheck

The two checks differ in all that goes on behind their `timeout(..).await` and
agree in what the registry's `run_one` sees of it. `TimedCheck` states that once:
a call begins, then succeeds, fails, times out or is dropped, once; a success is
degraded exactly if the latency of the whole call exceeds the threshold; a timeout
is never early and no call outlasts it by more than `Lag`; what was returned stays.
`Contract` in `RedisCheck` maps its async side alone (the blocking side stutters,
the runtime's drop is one `Drop` of every call that runs), `Contract` in `SqlxCheck` maps all
waits, for a permit, a connection or rows, to one running call. An acquire that
fails in the first poll, on a closed pool, is a `Fail` from idle.

### PrometheusText

`results` grows in the order `join_all` returns (`Resolve`) and is empty again
for the next scrape (`Scrape`); `render_prometheus` maps it to lines. A line
keeps its metric, its escaped label, its bound and its value; `HELP` and `TYPE`
are one header, floats keep their value and lose their digits, durations and
bounds are whole milliseconds. Names are sequences of the characters that
escaping tells apart (backslash, quote, newline, and the `n` an escaped newline
contains). `Read` is the other side, a scraper that undoes the escaping by the
rules of the exposition format.

### SqlxCheck

`check()` is `StartCheck` (the timer is set, the query asks the pool), then
`QueryEnds`, `AcquireFails`, `CheckTimesOut` or `DropCheck`. What lies between is
sqlx's and external, modelled on version 0.8 with default options: one permit per
connection, given first come first served (`GetPermit`); the connection behind a
permit is tested or opened before use, `testing`, so that a dropped probe in that
phase frees its permit at once; a connection whose query was dropped is flushed
by a task of its own before its permit is free (`returning`, `GiveBack`); a
closed pool fails its waiters; `AcquireTimeout` bounds waiting and testing
together. The application takes and returns connections of the same pool
(`AppTakes`, `AppReturns`) and owes nothing. A server that refuses may fail an
acquire at once or only when the acquire timeout ends its retries: both are
behaviours of the model.

### K8sService

`run()` goes `ConnectPool`, `RegisterChecks`, `Bind`, `SetInitialized`, `Serve`,
`ServeReturns`, then `RuntimeDropped` in `main`; the first and third may fail.
`Kill` ends the process at any step: a signal before `shutdown_signal` is polled,
SIGKILL after the grace period, a crash. Its connections and threads end with it,
and `Restart` is the kubelet starting `main` from the top, with the flags unset;
nothing else of it was kept anywhere. `Signal` sets
`draining` in one task and `StopAccepting` happens in another: in between the
backlog is still accepted. A request is `Arrive`, `Accept`, then `AnswerAlive`
for the constant routes, or `BeginSweep` (the handler up to its await: the checks
on the flags are resolved in the sweep's first poll), the dependencies' answers
or `TimeOut`, and `Answer`. The database's future ends when its answer does; the
Redis thread outlives a dropped or timed-out probe, and the runtime's drop waits
for it. `TimeOut` stands for the check's own timeout and the registry's, 2 s each
here, which leave the same verdict; it may end any check that waits, on time alone:
the pool or the blocking threads may be in use, so that a dependency that is up
still shows as unhealthy (`late`). A client sends its request in its own time
(`SendPart`, `SendRest`) and may stop half-way: graceful shutdown closes an idle
connection but waits for one with half a request. `/metrics` is `MetricsCache`'s. The
handlers' 500 is left out: `check_readiness` has no error to return. `startup_route`
without a group, which the example does not mount, appears only as the mutant `DueAll`.

## Runs

Registry (constants in the cfg; `MCHealthRegistry` takes the example's checks,
with `migrations` in its `init` group and two checks named `cache`):

| Run | Instance | Shows |
|---|---|---|
| `registration` | 3 registrations, 1 sweep, outcomes healthy and error | types; order, visibility, acknowledgement and refusal of registrations racing a sweep and a shutdown; the worst status wins; the deadlines of the checks of one sweep do not add up |
| `concurrent_sweeps` | 2 registrations, 2 sweeps | the counter and the histogram count answered registry-wide sweeps exactly; a slot is decided once; `ProbeContract` is implemented, the scope of group sweeps included |
| `deadlines` | 1 registration, one handle with a deadline and one with none, lag 1, fairness | a check ready when polled is reported by its own answer, its own timeout included; the registry's timeouts are never early and never without a deadline; sweeps and registrations end; a dropped caller's check turns up |
| `claim_never_unwinds`, `claim_counts_executions` | 1 sweep | two sentences of the docs the code does not honour |

Two sweeps and two or three registrations are enough for every order of clone,
push, acknowledgement and answer that a property can tell apart: each property
relates one sweep to one registration, two sweeps through the counter, or two
positions of one vector. `MaxElapsed` caps the clock of a sweep without
deadline, whose duration nothing bounds.

Metrics: `metrics` (three scrapes of a route with a cache and one of a route
without, one dependency: two sweeps that overlap, the entry of the one overwritten
by the other, and a third scrape that is served what they left) and
`metrics_liveness` (two cached, one not, with fairness). `Horizon` stops the clock;
4 in the first exceeds ttl plus sweep, 2 + 1, so that an entry can expire and a
flip be older than the bound; the liveness run needs no more than one sweep.

Exposition: `exposition` (sweeps of up to two checks, every name of up to two of
the four characters, durations on, above and between bounds and beyond the last).
Two characters hold every pair an escape can be confused with, two checks every
pair that could share a series.

Redis: `redis_probes` (2 probes for 1 thread, so that a probe waits behind a hung
one, with fairness), and `claim_redis_never_hangs`.

SQLx: `sqlx_pool` (2 probes, 2 connections, timeout 3, acquire timeout 2, lag 1,
fairness). The application may hold both connections, so that both probes wait;
one, so that one waits behind the other; or none. The acquire timeout is the
shorter one here, so that either may end a probe: while it waits or tests, the
pool's usually does; while the query runs, only the check's can. sqlx's default
of 30 s is longer than the example's 2 s; the theorems hold for any two.

Service: `k8s_service` (one request, database and cache, the default
`ReadinessConfig`, fairness): a request, sent whole or in part, meets every phase of the process, of its
shutdown, crash and restart, and every change of the dependencies. One is enough,
since requests share only the flags and the process, which they do not change;
several together hold up `ServeReturns` and `RuntimeDropped` as one does. The
theorems cover any number and both configurations.

Probes and scrapes are interchangeable, so runs without liveness properties use
symmetry over them.

Deadlock is checked in every run: `HealthRegistry` has a `Terminated` step for the
state in which everything is settled; in the others the environment can always
move.

Each property is paired in `PROJECT.json` with a mutant of the model, a plausible
bug, that its run refutes.

## Fairness

Weak fairness only, on what tokio does: an expired timer is served, a finished
task's waiter is polled, a blocking thread that is free takes a task and runs it,
a stopping runtime drops its futures, time passes, a server that has been told to
stop stops accepting; and on the kubelet, which restarts a process that ended.
Never on a check's return, a client, a server, a dependency, sqlx's pool or the
application's use of it, which owe nothing. A handler is fair once its request has
been sent whole (`requested`); that it is sent is nobody's duty. Where a result needs
more of the outside it is a premise of the property, in the open: `ShutdownCompletes`
assumes that no client keeps a request half sent for ever (`ClientsFinish`) and no Redis
thread hangs for ever in `get_connection` (`ThreadsFinish`), which are the two things
axum's graceful shutdown and the runtime's drop wait for without bound; `ComesUp`
assumes these too, a database that stays up and no further signal, kill or lost
address.

`Tick` in `RedisCheck`, `SqlxCheck` and `MetricsCache` does not pass a timer that has
expired `Lag` ticks ago. That a timer is served by then is thus an assumption of these
modules, not a result; that it ends the check, with the right verdict, is the result.

## What is proved

For all values of the constants that satisfy the named assumptions
(`GroupAssumption`, `TimeAssumption`, `OutcomeAssumption`, `CacheAssumption`,
`RedisAssumption`, `SqlxAssumption`, `ExpositionAssumption`, `ServiceAssumption`):

* `HealthTypesProofs`: `aggregate` picks a worst status (`AggregateIsWorst`) and
  what follows for its reader (`AggregateVerdict`).
* `HealthRegistryProofs`: every safety invariant of the registry's passing runs
  but `SweepWithinDeadline`,
  `GroupIsolation` and the action property `VerdictFinal`. The inductive
  invariant `SafetyInv` adds to the typing what the properties lean on: a task
  is pushed exactly if its check is in the vector, and an acknowledged,
  unawaited or refused caller has a task in the matching state, without which
  "at most once" could not survive `RunRegistration`; a clone is a prefix of the
  vector; an acknowledged check of a running sweep lies in its clone; an
  answered sweep has no pending slot and the aggregate of its slots. `Timeouts` goes
  slot by slot (`Earned`), from the answer and the age of the future that filled it.
  `FacadeExact` compares the facade with a sum over sweeps; its proof
  splits the sum into shares of one sweep each (`ShareOf`): an `Answer` adds its
  sweep's share, whose size is that of its slots, once, and no other step changes
  an answered sweep's slots.
* `RegistryRefinement`: `Spec => ImplementsContract`. The vector is the log, the
  clone's length the floor of the answer's prefix, panicked and dropped sweeps
  are failed ones; slots, clocks and tasks stutter.
* `MetricsCacheProofs`: `BoundedStaleness` (once a dependency has been in its state for
  longer than the ttl plus one sweep, every answer shows that state or a timeout),
  `StampsMonotone` (no overlap of scrapes makes the entry's stamp go back) and
  `TypeCorrect`. The inductive invariant says of what each check has found, of each slot, of the entry
  and of each answer how late the state it shows may have ended: a slot not before its
  sweep's start, an entry not earlier than a sweep's length before its stamp. The stamp
  alone bounds nothing without it.
* `RedisCheckProofs`: `TypeCorrect`, `OuterTimeoutWins`,
  `VerdictSound` and `Promise`. The inductive invariant adds that the wire time of a probe that
  waits is part of its whole time: with `Lag < Margin` a waiting PING stays below the socket
  timeout. The inductive invariant also records what `Tick` assumes of the
  runtime, the bounded lag (`BackInTime`). `Promise`, that the check implements
  `TimedCheck`, goes action by action:
  the async steps map to the contract's, `AsyncStays` disposes of the rest.
* `SqlxCheckProofs`: `TypeCorrect` (which includes that no more permits are out
  than there are connections), `PoolUntouched` and `Promise`. The inductive
  invariant `SqlxInv` is their conjunction with two facts they lean on: only a probe that is over has an outcome, and the history set is empty unless
  the database hangs, so that no query of one of its probes can be sent.
  `Unqueued` says that a probe leaving the middle of the queue leaves the others
  there once each; `FewerHolders` bounds the permits by `FS_Subset`. In `Promise` the pool's own
  steps stutter (`StageStays`: from one wait to the next), and each way for a query to end
  is one of the contract's.
* `PrometheusTextProofs`: all four properties of the renderer. `GaugesAgree` is
  from `AggregateIsWorst` and that the gauge falls as severity rises, `HistogramsSound`
  from the fourteen lines of a check by position and the bounds' order.
  `NamesRead` and `SeriesUnique` speak of sequences of any length, so they need
  induction, which the provers have only through theorems that take an operator.
  It is had from sets instead: `Smallest` takes a least member from a non-empty
  set of numbers (the natural numbers being well founded), `Induction` follows for sets, and a statement is
  proved for all n as the set of the n it holds of. On recursive data the order is always: the
  defining equation of the recursive function (`FlattenRecursion` for `FlattenSeq`,
  `ReadRecursion` for the scraper's `Read`: a recursive definition means something only
  once a function that satisfies it is shown to exist, shorter ones first), then where its parts end up (`Flattened`: the i-th part of a
  concatenation lies behind the lengths before it; `EscapedShape`: an escaped
  character is one or two in the label), then what it computes. `EscapingIsUndone`
  is an induction over the characters from the right: reading from where one
  was escaped to gives that character and what follows it. `Layout` says where every line of
  an exposition is: a header, a gauge for each result, a header, fourteen lines for each
  result. From it `SeriesDiffer` follows by cases: two lines of one series have the same metric and bound,
  hence the same place among the fourteen, and the same label, hence (by `EscapingIsUndone`) the
  same name and, names being unique, the same result; `FS_Surjection` and the
  cardinality of an interval turn that into a count.
* `K8sServiceProofs`: `TypeCorrect`, `DrainingHolds`, `StartupHolds`,
  `ReadinessHolds`, `RouteVerdict`. The inductive invariant `ServiceInv` says that nothing is served before
  `initialized` is set, that the slots of the flags keep what the first poll saw,
  and that a filled slot of a dependency that has not changed since shows its
  state or a timeout; a thread that hangs does so on a dependency that hangs. `AnswerFacts`
  collects the slots of an answer, and `RouteVerdict` says which code each route makes of any set
  of statuses, by `AggregateVerdict`.

Every invariant, action property and refinement the runs check is thus proved, but
for `SweepWithinDeadline`: the urgency of `Tick` is stated with ENABLED, which is out
of the prover's reach. Only model-checked besides are the liveness properties
(`EveryProbeEnds`, `RegistrationResolves`, `DroppedCallerRegisters`, `EveryScrapeEnds`,
`EveryCheckEnds` of both checks, `PingEnds`, `RuntimeStops`, `RequestsEnd`,
`ShutdownCompletes`, `ComesUp`), for the same reason; and the three claims of the
repository that fail, for which a counterexample is all there is to show.
`GroupIsolation` is proved and in no run.

## Where the code and its documents differ

Shown by the runs that end in a violation; `PROJECT.json` quotes the lines.

1. A panicking check unwinds the sweep (`src/registry.rs` says it never does).
2. Group sweeps are not counted by `healthkit_check_result` (the README: every
   execution is).
3. A silent Redis server holds the blocking thread for ever, inside
   `get_connection`, where the doc of `ping` says it cannot; the drop of the
   runtime then waits for it too.

## Not modelled, and the plan

Left out for good: wording of messages and HELP lines, digits of floats, JSON
bodies, benches, CI and supply-chain data, re-exports. `HealthStatus::is_ready`
and the serde responses have no behaviour beyond a match or a field each, which
is why the types are only partly modelled.

Disagreements met that no run shows:

* the doc of `check_liveness` (`src/registry.rs:268`) knows two answers, the code
  returns the aggregate, degraded included: it is read off line 271;
* the doc of `readiness_route` (`src/axum.rs:79-80`) says a degraded aggregate
  answers 503, its default config answers 200;
* the README (361-362) has readiness at 503 during the drain window, where a
  sweep begun before the signal may still answer 200;
* the README (78-79) has no restarts from a database outage during start-up,
  but the example ends with an error if its first connection fails. `ComesUp`
  shows what that amounts to: restarts until the database is back, and none
  because of any other dependency.

Planned, in this order:

1. `ProbeContract` as the interface of `K8sService`'s sweeps, so that `BeginSweep`
   and `Answer` refine it and the registry's theorems carry over.
2. `TimedCheck`, which both checks implement, in the place of `K8sService`'s
   `Verdict` and `TimeOut`, which are abstractions of its actions.
3. `RegistryLock`: the critical sections of the `RwLock`, `name.into()` included,
   refining `HealthRegistry`'s atomic push and clone. It would show only what a
   caller's own conversion can do; nothing in the crate takes the lock twice.
