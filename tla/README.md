# Verification of webtracker

TLA+ models of the uptime monitor in `src/`, the TLC runs that check them on
small instances, and theorems about them that TLAPS checks for every value of
the constants. `tlc -config <run>.cfg MC<Module>` repeats a run, `tlapm
<Module>.tla` repeats the proofs of a module; `PROJECT.json` lists both, with
the source lines behind every definition, the hazards of the code, and for
every property a mutant of the model that refutes it.

## 1. Inventory

| Component (under `src/`) | State it keeps | Operations | Talks to | What makes it correct | Module |
|---|---|---|---|---|---|
| Job scheduler `usecase/scheduler.go` | a running flag, a stop channel; jobs live in Redis | `ScheduleMonitor`, `UnscheduleMonitor`, `RescheduleMonitor`, a ticker loop `processDueJobs`, `Start`, `Stop` | Redis client, monitor service | jobs move to the queue once, in order, not early; none is lost without a failure | `JobPipeline`, `Lifecycle` |
| Redis client `infrastructure/redis` | sorted set, list, cache keys | `Schedule`, `GetDueJobs`, `Enqueue`, `Dequeue`, `Get`/`Set`/`Delete` | Redis, through go-redis, which repeats commands | the same under repeated or half-done commands | those of its users |
| Worker pool `usecase/worker_pool.go` | running flag, stop channel, wait group, statistics | `Start`, `Stop`, `GetStats`, the worker loop, `processJob` | Redis client, health check service | a worker always comes back; a stop waits for the jobs under way | `JobPipeline`, `Lifecycle` |
| Monitor service `usecase/monitor_service.go` | none (rows in PostgreSQL) | create, update, enable, disable, delete | cached repository, scheduler | schedule and row agree; an update undoes no other | `JobPipeline`, `MonitorStore` |
| Cached monitor repository `infrastructure/postgres` | Redis keys with a TTL of five minutes | read through, invalidate on write | PostgreSQL, Redis | a copy is old or wrong only for long, and only by a race | `MonitorStore` |
| Health check service, HTTP client `usecase/healthcheck_service.go`, `infrastructure/httpclient` | none | `ExecuteCheck`, retries, classification, `persistHealthCheck`, cache invalidation | repositories, WebSocket hub, alert service | a transient error is forgiven; metrics follow the checks | `JobPipeline`, `HealthMetrics` |
| Metrics service `usecase/metrics_service.go` | Redis keys with a TTL of a minute | uptime, response times, percentiles | health check repository, Redis | statistics of the rows, not older than a bound | `HealthMetrics`, `ResponseStats` |
| Aggregation, retention `usecase` | tickers, flags, rows | hourly aggregates, clean-up, `Start`, `Stop` | repositories | nothing young is lost, nothing old stays | `Retention` |
| Alert service, rate limiter `usecase` | rows, Redis keys with a TTL | `ProcessHealthCheckAlerts`, four generators, delivery | repositories, Redis, delivery, hub | alerts keep their distance; an outage ends once | `AlertService` |
| Delivery `interface/alertchannel` | none | concurrent or guarded fan-out to webhook, e-mail, Telegram | circuit breakers | what is reported is what the recipients have seen | `Delivery` |
| Circuit breaker `infrastructure/resilience` | state, two counters, time of the last failure | `Execute` (`canExecute`, `recordSuccess`, `recordFailure`), `Reset` | the alert channels it guards | opens and closes for the reasons its configuration names | `CircuitBreaker` |
| Degradation, resilient wrappers `infrastructure/resilience` | a mode, two probe times, a copy of monitors in the process | probes, reports, fallbacks | PostgreSQL, Redis | the mode is what was last heard, and returns to normal | `Degradation` |
| WebSocket hub `interface/websocket` | map of connections, `broadcast`, `register`, `unregister`, a `Send` channel per connection | `Run`, the broadcasts, `writePump`, `readPump`, `Stop` | health check and alert service, clients | no closed channel is used, no client sees a gap, nobody waits for a slow one | `WebSocketHub` |
| Accounts and sessions `usecase/auth_service.go`, `interface/http` | rows; a cookie in the browser | register, log in, log out, `LoadUser`, `RequireAuth` | repositories | one account per address, a session only of its account, no cookie lost without cause | `Access` |
| System handlers, start-up `interface/http/handlers.go`, `cmd/main.go` | none | `Ready`, `Metrics`, start and end of the process | worker pool, scheduler | what they answer is so | `Lifecycle` |
| Configuration, other handlers, templates, logging, profiling | rows, files | parsing, one service call, rendering | everything above | see section 7 | |

How they interact: a request to the monitor service commits a row and then
asks the scheduler for a job; the loops of all instances move due jobs from a
Redis sorted set to a Redis list; workers pop the list, run the check, store a
row, drop the metrics kept in Redis and broadcast the row through the hub.
Alerts go through one circuit breaker per channel. `cmd/main.go` wires no alert
service, delivery, aggregation, retention or degradation manager into the
running program (the alert service is passed as `nil`), and nothing calls
`CleanupExpiredSessions`; these parts are complete in the source and exercised
by its tests, and are modelled as they stand.

The hard behaviours: two-command Redis operations shared by instances;
commands repeated by go-redis; crashes between the steps of a hand-over;
deletions during checks; lock upgrades and late results in the breaker; full
channels, double closes and shutdown in the hub; caches filled by stale reads;
windows kept by expiring keys; whole rows written back from an old copy; locks
held across waits; loops that are started, told to end and started again.
`PROJECT.json` lists each with its line under `hazards`.

## 2. Plan

Written, in this order:

1. `JobPipeline`, which composes monitor service, scheduler, Redis, workers and
   health check service, because every hazard of theirs is in the hand-overs;
   `JobLedger`, the abstract promise about one job, which it implements;
   `JobPipelineProofs`.
2. `CircuitBreaker` and its proofs. 3. `WebSocketHub` and its proofs.
4. `Delivery` and `AlertService`, which composes it with the rate limiter.
5. `MonitorStore`: the monitor service step by step over the cached
   repository (JobPipeline takes an update as one step).
6. `Degradation`. 7. `HealthMetrics` and `ResponseStats`. 8. `Retention`.
9. `Access`. 10. `Lifecycle`.
11. The proofs of `QueueInDueOrder`, `BoundedDuplication` and the step
    refinement from `JobPipeline` to `JobLedger`, in `JobPipelineProofs`.
12. `AccessProofs`, `LifecycleProofs`, `RetentionProofs`, `MonitorStoreProofs`
    and `HealthMetricsProofs`: every safety and action property of these
    components, each from one inductive invariant of its module.
13. `ResilienceProofs`: `Degradation` from what the manager has heard and what
    each caller has read; and, beside it, `CircuitBreaker`.
14. `NotificationProofs`: `Delivery` and `AlertService`, from the stages of a
    delivery, the expiry of the keys and the stages of a call; and, beside
    them, `WebSocketHub`.

With these every safety and action property of the runs is a theorem; what is
left to the runs is at the end of section 5.

## 3. The models

### JobPipeline

State. `monitor` is the row of each monitor as far as scheduling looks at it;
`calls` the `ScheduleMonitor` calls that running requests still have to make;
`schedule` and `queue` are the two Redis structures; `phase` and `batch` the
program counter and the local slice of each instance's scheduler loop; `wpc`
and `held` those of each worker. `mon` and `at` are the fields of a job.
`runs`, `rows`, `errors` and `crashes` count what the properties speak about.

Actions. `CreateMonitor`, `UpdateMonitor`, `DeleteMonitor` are the requests;
`ScheduleMonitor` and `ScheduleMonitorError` the calls they owe.
`UnscheduleMonitor` changes nothing in the code and so has no action:
`ScheduleCalls` counts what `EnableMonitor`, `RescheduleMonitor` and the rest
of an update add up to. `GetDueJobs` and `RemoveDueJobs` are the two commands
of the code's `GetDueJobs`, `Enqueue*` one turn of the loop of
`processDueJobs`. `Dequeue`, `LoadMonitor` and `PersistHealthCheck` are the
worker; each has its error path. `EnqueueUnanswered` is an RPUSH that Redis
executes and whose reply is lost: go-redis repeats it (`tries`), up to
`MaxRetries` times, 3 in the code, and `repeats` records it. `Crash` also stands for the end of `main`,
which waits for no loop. `Evict` is Redis under the `allkeys-lru` policy of
`docker-compose.prod.yml`. The request of a check is abstracted to the row it
leaves; `HealthMetrics` has it in detail.

`JobLedger` knows of a job only whether the scheduler has it (`place`), how many
copies of it wait for a worker, how often it was started, and how often the
command that hands it over was repeated. A repetition makes a copy only while
the scheduler still has the job; handing it over makes one more; every start
uses one up; failures and crashes only take away. `Place`, `Copies`, `runs` and
`repeats` are the refinement mapping, `ImplementsLedger` the claim, for one
instance.

### CircuitBreaker

One breaker and the goroutines that send alerts through it. Every section under
`cb.mu` is a step, so that the places where `canExecute` holds no lock are the
caller states `upgrade` and `recheck`. (A caller that finds the circuit closed
again at `recheck` is rejected, as in the code, which accepts only half-open
there.) Points in time are ages that saturate at
`Timeout`, and the failure counter saturates at `MaxFailures`: the code only
ever compares them. `probes`, `losses` and `wins` are history, kept apart from
the counters they are compared with.

### WebSocketHub

A message is a number: its place in the order in which `broadcast` accepted it. The
hub is `select`, `sending` (in the loop over the map, with `pending` the
connections not yet visited) or `stopped`. `register` and `unregister` are
unbuffered, so that the hub's receive and the sender's next step are one action
(`Register`, `Unregister`). `writer` and `reader` are the pumps, `batch` the
`n` of the loop that drains the queue into the frame. `panicked` records a
close of, or a send to, a closed channel. `counting` is a holder of the read
lock in `GetConnectionCount`, which the program reaches through the manager's
interface.

### Delivery and AlertService

`Delivery` has no next-state relation of its own: `AlertService` EXTENDS it and
composes it. `stage` is how far each channel of a call has come, under the
concurrent `DeliveryService` or the sequential `ResilientDeliveryService`
(`SendChannel` keeps the order of the second). A request of webhook or Telegram
is served, refused, or served with its reply lost; an e-mail can also be
refused after its text, which the code hears only from a deferred `Close`, and
its server may never answer: the dial has no limit
(`interface/alertchannel/email.go:100`), and nothing there asks the context. An
open circuit is a failure of the channel. `copies` and `lost` are what the
recipients know.

In `AlertService` every Redis command and every SQL statement is a step of its
own and may fail with or without effect (`Fail`). `limit` and `sslLimit` are
the keys with their expiry, `alerts` the rows, `caller` the state of a call of
`ProcessHealthCheckAlerts` or of one of the generators. The stored time of the
last alert has whole seconds. `limited = FALSE` is the service without a
limiter. `grant`, `spoilt` and `sslGrant` are history.

### MonitorStore

One row and its copy in Redis; a field holds the number of the write that set
it, so that an undone write shows. `calls` is the program counter of each
request: read through the copy (`lookup`, `load`, `fill`), `write`,
`invalidate`, `schedule`. Times are ages and lifetimes left, so there is no
clock to bound. `planned` says that a job was scheduled since the row was last
enabled; what becomes of the job is `JobPipeline`'s.

### Degradation

`mode` is one of the four modes, `reported` history: the services whose last
report was bad. The manager's loop (`Manage`) holds its lock while it probes
one service after the other; callers of the wrappers ask for the mode, call the
service, report an error, and fill or drop the copy of the process, each as a
step; readers of the copy hold a read lock while they ask the manager. `Outside`
is the world: services fail and work again, other instances write. Neither the
probes nor the wrapped calls have a deadline of their own. `Silent` are the
services that, while they are down, leave a call without an answer: the
database may be one, while the Redis client gives up after three seconds
(`infrastructure/redis/client.go:42`).

### HealthMetrics and ResponseStats

A check is a number in the order of `checked_at`. Workers go through attempts
and back-offs under one deadline for all of them, store the row and drop the
keys that `invalidateMetricsCache` names. `Cancel` is the end of the worker's
own context, by its 45 seconds or the end of the process: it ends a back-off or
an attempt with the last error, and then refuses the row. Readers look for a key, read the rows
of one period after the other and fill the key. `Kinds` are the keys the
metrics service uses. `Classify` has status codes and the four facts a
certificate is judged by. `ResponseStats` has the percentiles, with the
interpolation and its truncation, as operators on sorted sequences.

### Retention

Both services have a flag, a stop channel and a loop; a loop remembers the
channel it was started with, so that loops of several starts overlap. An
aggregation lists the hours, reads one, writes its aggregate and deletes what
it covers, in steps; the clean-up deletes by a cutoff from the clock. A check is
the time of its row, an aggregate the set of the checks it counted.
`withAggregates` says which of its two constructors made the clean-up: only
`NewDataRetentionServiceWithAggregation` gives it the repository of the
aggregates, and without it `Clean` goes from the checks to the alerts. `Cancel`
is the end of the process's context, `Restart` a new process, at any moment.

### Access

One browser whose tabs share two cookies. A request is sent with the cookie of
its time and its response sets or clears the one of another. `Load` and
`GetUser` are `LoadUser`, `CheckEmail`, `CreateUser`, `FindUser` and
`CreateSession` the two forms, `Logout` the third; each is one statement of a
repository and may fail with or without effect. All tabs use one e-mail
address, each with a password of its own. `ForgetCSRF` is the expiry of the
CSRF cookie, `Inputs` the fields a form can lack.

### Lifecycle

Both services share one pattern: a lock, a flag, a stop channel made once, a
wait group. Their loops are numbered, 0 for the scheduler. A caller runs a
list of calls to the end: `Start`, `Stop` (which holds the lock until the loops
have ended), `IsRunning`, `GetStats` (which adds up a counter per worker), and
the handlers `Ready` and `Metrics`, which are made of them. A second close of
the channel ends the process (`panicked`).

## 4. The runs

All runs pass. An invariant named `...AreSound` is the conjunction of the type
invariant of its module and the invariants listed with it.

| Run | Instance | Shows |
|---|---|---|
| `pipeline_safety` | 1 instance, 1 monitor, 3 jobs, 2 workers, 2 ticks a second, `MaxRetries` 3, 1 failure of any kind, 1 crash | `AtMostOnce`, `QueueInDueOrder`, `NeverEarly`, `NoSilentLoss`, `NoOrphanRows`, `ImplementsLedger` |
| `pipeline_replicas` | 2 instances, a worker each, 2 jobs, `MaxRetries` 1, 1 failure of any kind, fair | `BoundedDuplication`: no more runs than instances and repetitions; `PipelineProgress`: every job settles, every worker returns |
| `breaker` | 3 callers, 3 failures, 2 successes, timeout 2, calls of any length, fair | `OpensInTime`, `QuietWhileOpen`, `OnlyProbes`, `ChangesForCause`, `CircuitRecovers` |
| `hub` | 2 clients, channels of 2, 3 messages, fair | `NoPanic`, `NoGaps`, `BatchIsQueued`, `HubProgress`: everything is dispatched, pumps end |
| `alerts` | 2 workers, 3 checks, window 3, hour 4, day 3, second 2, 1 failure | `LimitsAreSound` (`LimitIsBacked`), `RecoveryOfAnOutage`, `AlertsAreSpaced` (`Suppression`, `OneSSLAlertPerDay`) |
| `delivery` | 1 call, 4 channels (one unusable), 2 attempts, 1 failure, fair | `ReportsMatchRecipients`, `CallsReturn`: only a silent mail server holds a call |
| `monitors` | 2 callers, 3 writes, a copy lives 1, a call takes 1, 1 failure | `CopiesAreSound` (`FreshReads`, `StaleNeedsARace`), `EnabledIsPlanned`, `WritesTakeEffect` (`UpdatesLoseOnlyRecent`, `SwitchTakesEffect`) |
| `degradation` | 2 callers, 1 outage, 1 write, both services probed in every or every other period, a database that may not answer, fair | `ModesAreSound` (`ModeIsReports`, `DownIsShort`), `CopyNeedsARace`, `Recovers`, `CallsReturn`: only a call or a probe without an answer holds a caller |
| `metrics` | 2 workers, 1 reader, 2 checks, 3 attempts, 2 failures, 2 metrics | `MetricsAreSound` (`FreshMetrics`, `UptimeNeedsARace`), `PeriodsNest`, `ShortOutagesAreForgiven` |
| `retention` | 2 loops, 2 checks, an hour of 2, a day of 2, a period of 3, 7 ticks, either constructor, 1 failure, crashes | `DataAreSound` (`NothingIsLost`, `OldDataGoes`), `OneLoopEach` |
| `access` | 2 tabs, 2 sessions, sessions live 2, requests take up to 2, 1 failure | `SessionsAreSound` (`SessionsAreOwn`, `ServedInTime`), `SessionsEndForACause`, `CookieLostForACause` |
| `lifecycle` | 2 callers, a pool of 2, 2 starts, 3 jobs, fair | `StopIsSound` (`StopWaits`, `OneLateJob`, `PanicNeedsARestart`), `AnswersAreSound` (`RunningMeansWorking`, `StatsAreBetween`), `CallsReturn` |

Every property is refuted by at least one mutant of the model: an operator next
to the definition it replaces, with a plausible bug of the code in it. For a
conjunction most of the conjuncts have a mutant of their own. The type
invariants of the first three modules, and `Shares` and `NoneForgotten`, are
not checked by a run but proved for every instance (section 5).

Bounds. Jobs, messages, checks, writes and time are finite, so that a run ends
where none is left; `CHECK_DEADLOCK FALSE` is set for that reason, in the hub
because a server whose clients have all gone may stop, and in `lifecycle`
because a panic ends the process. `breaker`, `metrics` and `access` never stop
and are checked for deadlock.
`pipeline_safety`: three jobs let a batch be cut short by a failure while a
later batch forms and a job waits in the list; two ticks a second make scores
lose a fraction; two workers hold two jobs at once; the one failure may be a
lost RPUSH reply, so that one repetition of the three allowed happens.
`pipeline_replicas`: both
instances can read the same batch, and a second job is due a second later, so
that a scheduler that hangs is missed. `breaker`: three callers let each
failure come from another one, and a call can outlive the timeout. `hub`:
channels of two tell full from non-empty, and three messages overfill a client.
`alerts`: three checks are an outage, a recovery between, and an outage again;
the window ends before the clock does, and the hour after it, as in the code
(15 minutes, one hour), while the key of the limit expires with the window.
`delivery` has every kind of channel and one retry. `monitors`: two writes can
race and the third come between; a copy's life and a call of one tick each are
enough for a copy older than either. `degradation`: periods of 20
seconds and intervals of 20 and 15, so that a service is probed in some periods
and not in others; with the code's 10, 30 and 15 (`Period = 2`,
`DBInterval = 6`, `RedisInterval = 3`) the invariants hold in 3.2 million
states, too many for the liveness of a run. `metrics`: three attempts
are those of the code; two workers let a check be stored while another one's
results are being removed; the back-offs are a tick and two, and the timeout ends
a little later. `retention`: the clock runs past the period and a day, so that
something that should have gone is seen, with cutoffs on a full hour and between
two; one loop of each service, or two of one, at a time; the process may end and
start again at any moment. `access`: two tabs
race on everything a browser shares. `lifecycle`: a second start is what the
stop channel, made once, does not survive.
`MaxCalls`, `MaxErrors`, `MaxCrashes`, `MaxTime`, `MaxMessages`, `MaxChecks`,
`MaxSends`, `MaxWrites`, `MaxOutages`, `MaxSessions`, `MaxStarts` and `MaxJobs`
are the explicit bounds.

Symmetry is used in runs without liveness only, for monitors, jobs, callers,
tabs, loops, readers, and workers that share an instance.

Fairness. Pipeline: the clock, each scheduler loop (its ticker fires again and
again, and go-redis gives up on a command after its time-outs and repetitions)
and each worker (it polls in a loop; a check ends by its 30 and 45 second
timeouts). Requests, failures and crashes are not fair. Breaker: a caller past
the first check goes on, since locks are held briefly; nobody has to call, and
no call has to end. Hub: goroutines that can move do. It is strong for `Run`, because a
waiting writer of `sync.RWMutex` keeps new readers out, so that repeated
`GetConnectionCount` cannot hold the hub up. A write ends by its deadline of ten
seconds only once the connection is gone; a live one is never assumed to fail.
Delivery: weak, for the steps of a call and of its channels, because the HTTP
clients of webhook and Telegram and all back-offs are timed; not for the
conversation with a mail server (`InMail`), which has no limit and may never
end. Degradation: weak for the manager's loop, strong for callers, because Go's
locks starve nobody; neither for a call to a silent service that is down
(`CallHangs`), nor for the probe of one (`ProbeHangs`), which the manager makes
with its lock held and without a deadline. What these leave open is said by the
properties, not assumed away: `CallsReturn` of `delivery` and of `degradation`
names the unanswered call as the only thing that keeps a call from its end, and
for `delivery` only in its own channel or, behind the breakers, in those after
it. Lifecycle: strong for taking a lock, for the same reason, and for the
scheduler's exit, because `select` chooses at random among the cases that are
ready; weak for everything that has a deadline. The other runs have no
liveness.

## 5. The proofs

All theorems hold for every value of the constants that satisfies the modules'
`ASSUME`s. They say that bounds are naturals, and times, thresholds, capacities
and pools positive, that sets of instances, workers, tabs and callers are
finite, and that `None` or `Null` is not a value it stands for the lack of. Five
say more. `AlertAssumption`: the hour that makes a success a recovery covers the
window of a limit and the fraction of a second its time has lost, so that a
limit is young enough for as long as it stands (no proof needs it).
`DirectAssumption`: what is generated without a health check is one of the
alerts of the four generators. `PipelineAssumption`: every delay is at least a
second, as intervals are whole minutes. `RetentionAssumption`: a day is a number of
hours, and the seven days of the aggregation and an hour are at most the 90
days of the clean-up. `BackoffsGrow`: the first back-off is `Delay`, each is
twice the one before, none is zero and of two the later is the longer, which the
provers cannot compute from powers of two. TLC
evaluates each on the values of its run.

`JobPipelineProofs`

- `TypeCorrect`: `TypeOK` is inductive.
- `PipelineImplementsLedger`, the refinement, under one instance and for any
  number of repetitions. Initial states map to initial states; then the step is
  proved by what it does to one job or to all: it schedules a fresh one,
  repeats its RPUSH, hands it over, starts a copy, or only loses. `Shares` is
  needed: what a batch hands over is no longer in the set, and a repetition is
  not on record before its try, so that it counts as a new one.
- `JobsComeInDueOrder`, under one instance. `QueueInDueOrder` says nothing of
  what will be appended; `InOrder` adds that all that is queued is due before
  all of the batch, and that before all of the set, up to the second.
- `CopiesAreAccountedFor`, for any number of instances and repetitions: the
  inductive invariant `Shares` behind what is said of duplicates. `AtMostOnce`
  is not inductive: a job popped once may be in the list again. `Shares` is a
  budget: the runs of a job and its copies in the list are at most one for each
  instance that no longer can fetch it and one for each repetition, and only
  instances that read it before its removal still can (`Fetchers`).
- `JobsRunAtMostOnce`, under one instance, and `DuplicationIsBounded`, for any
  number, follow from it with `repeats` counted. `Recorded` adds that each row
  has a run of its own.
- `JobsAreNeverEarly`, `DeletedMonitorsKeepNoRows`, `JobsAreNotLost`, for any
  number of instances and repetitions. They rest on two lemmas about all
  steps: `Movement` (a step only moves jobs along set, batch, list, worker, or
  creates a fresh one) and `ResultsOfSteps` (what a step does to rows, runs and
  monitors), on `Known` (only created jobs are anywhere), and on `DivOrder`
  for the scores.

`ResilienceProofs` on `Degradation` (`DegradationInv`)

- `ModesAreReports`: `ModesAreSound` for any intervals, callers, outages and
  writes. That no service counts as down for long needs the age of its bad
  report bounded at every place of the manager's loop: the report is no older
  than the last probe, and younger once the manager has looked at the service
  in this round (`ReportsAge`). A caller's report is new; a probe renews or
  withdraws the one there is. That the mode is exactly the set of bad reports
  (`ModeIsReports`) is inductive with types.
- `WrongCopiesNeedRaces`: `CopyNeedsARace` for any number of callers. Another
  caller's write makes it false unless the callers on their way hear of it, so
  the invariant adds that a call that runs together with a write knows of it
  (`WritesAreShared`), that a call about to fill the copy has the row or knows
  of a write (`FillIsRow`), and that creates and updates bring a copy and
  deletes none (`WritersBring`).

`ResilienceProofs` on `CircuitBreaker` (`BreakerSpec`)

- `BreakerTypes`; `CircuitOpensInTime`, and `CircuitChangesForCause`, which
  joins `CircuitOpensForCause` and `CircuitClosesForCause`, from
  `CountersCount`: in a closed circuit `failureCount` is `losses`, in a
  half-open one `successCount` is `wins`.
- `OpenCircuitIsQuiet` is inductive with types. `HalfOpenCallsAreProbes` needs
  it: a call that is no probe has run for the whole timeout. (A webhook takes up
  to 33 seconds, three attempts of ten and their back-offs, against a timeout of
  60; an e-mail has no limit, and the model none for any call.)

`NotificationProofs` on `Delivery` (`DeliveryInv`) and `AlertService` (`AlertInv`)

- `ReportsAreTrue`: `ReportsMatchRecipients` for any channels, attempts and
  concurrent deliveries. `ChannelOK` adds where a delivery to a channel is: none
  is counted before its first attempt, and none is still on its way with every
  attempt used up. The alert service reaches a delivery only through
  `Delivery`'s operations (`DeliveryStep`), each of which changes one cell
  (`CellsKeepDelivery`) or starts or forgets all channels of a call.
- `LimitsStandForAlerts`: a limit is set before its alert is stored. While the
  call is between the two, no other call moves it (`OthersRemain`); the step that
  stores the alert or fails to (`spoilt`) hands the limit over.
- `AlertsKeepTheirDistance` (`DowntimesAreSpaced`, `CertificateAlertsAreSpaced`).
  `LimitInv` ties the key to what it was set for: it holds its whole seconds,
  and it is there until a window after it; without the key, a window has passed.
  A call that finds no limit has therefore asked a window later (`Spaced`), and
  keeps that until it sets the limit, or another call sets one first and it is
  marked as overtaken, the case that the properties leave out. `SSLInv` and
  `SSLSpaced` say the same of each level of the certificate.
- `RecoveriesEndOutages`: a limit that can be read was set for an outage that no
  recovery has cleared (`LimitInv`).

`NotificationProofs` on `WebSocketHub` (`HubSpec`)

- `HubTypes`: no channel exceeds its capacity.
- `HubNeverPanics` and `NoConnectionIsForgotten` follow from `Ownership`
  (`ChannelsAreOwned`): a registered connection has an open channel, a channel
  is closed exactly by the step that takes its connection out of the map, and
  only registered connections are still to be visited by a broadcast.
- `CountedMessagesAreQueued`: `BatchIsQueued` is inductive with types.
- `ClientsSeeNoGaps` follows from `Numbering` (`MessagesAreNumbered`), which
  adds to `NoGaps` that nothing is queued for a connection before it is
  registered; its step is proved per connection (`InStepStep`) and uses
  `Ownership`.

`AccessProofs` (`AccessInv`)

- `SessionsStaySound`: `SessionsAreSound` for any number of tabs. What a tab
  has read survives the other tabs (`Sound`): the account that a login found
  stays, and a session that was young enough when it was read is now older by
  at most the time spent since. Sessions cannot run out of numbers because the
  requests that may still make one (`Minting`) are counted with them.
- `SessionsEndOnPurpose` and `CookieGoesOnPurpose` are action properties. The
  second needs that a response that clears the cookie was excused or found its
  session gone, and that a session once gone stays so (`Later`).

`LifecycleProofs` (`LifecycleInv`)

- `StopsStaySound`: a worker takes a late job only if it was polling when the
  channel was closed, and then it is its first (`Lateness`); a channel is closed
  under a running flag only in a second life (`Flags`), which `StartsBounded`
  counts.
- `AnswersStaySound`: `GetStats` reads one counter after the other while
  workers count on. `Summing` says for each place it may be at that the sum so
  far, with the counters not read yet, is no less than the total when it began,
  and by itself no more than what the counters read hold now. Its read lock
  keeps `Start` from resetting them. This needs sums over sets of any size
  (`Done` is a set of numbered jobs, so that they are cardinalities).

`RetentionProofs` (`RetentionInv`)

- `DataStaySound`: nothing young is lost because a loop in a run has the cutoff
  of the present moment (`Dated`) and the threshold of the aggregation and an
  hour are within the period; nothing old stays because `Cleaned` follows a
  clean-up from table to table and `Elapsed` bounds the time since the last one;
  of the aggregates it speaks only when the clean-up has their repository
  (`Filled`).
- `LoopsAreSingle`: `Lives` says that a service not told to end has exactly the
  loop of its `Start`, and that one told to end has one loop at most, and after
  another `Start` two.

`MonitorStoreProofs` (`StoreInv`)

- `CopiesStaySound`: a copy may have the time left that its age leaves it
  (`KeyFits`): the sum of both never exceeds a life and a call, since a fill is
  at most a call late. It differs from the row only with an excuse or while a
  caller is about to invalidate it, for which each reader must know of the
  writes that run with it (`Seen`).
- `EnabledStaysPlanned`: `PlanOK` names the call that still has to schedule.
- `WritesTake`: an update undoes only what its own copy held, and the copy is
  less than a life and two calls old (one to fill it, one to use it). `Settled`
  is what makes a switch take: no write for a life and a call, and none since it
  began.

`HealthMetricsProofs` (`MetricsInv`)

- `MetricsStaySound`: `Within` says that what an entry misses was stored at most
  `Horizon - left` ago, what a reader misses at most as long ago as it has been
  reading; filling hands one bound over to the other, and a tick moves both.
  `Full` is the same for the uptime with no bound at all, but for the excuses.
- `PeriodsStayNested`: each query finds all that the ones before it have found
  (`Nested`), because its upper bound is the time of the call and rows are never
  removed; the periods are read from the shortest to the longest.
- `ShortOutagesForgiven` is an action property. It needs (`Spread`) that a check
  in its n-th attempt has already waited for the first n - 1 back-offs, less what is
  left of the one it is in, and that the deadline has come closer by that time;
  for the last attempt these sum up to `Outage` (`BackoffsAre`). And a check
  that was cancelled is not stored.
- `StatsOrdered`: shortest, 95th and 99th percentile and longest are in order,
  for sorted lists of any length. It rests on the interpolation lying between
  its neighbours and growing with the percentile. `MCHealthMetrics` evaluates
  the same statement on all lists of up to four times.

TLC checked each of these invariants, as an invariant of the run of its module,
before it was proved. The attempts changed two statements. The first form of
`UpdatesLoseOnlyRecent` holds for the three writes of the run and not in
general: TLC refutes it with five writes and three callers, so it now names the
copy that the undone value comes from. `NothingIsLost` spoke of checks only, and
alerts have the same cutoff. Two assumptions turned out to be missing, because
TLC takes values of different kinds to be different and a proof does not: that
`None` is no number of a write (`Degradation`) and `Null` no limit
(`AlertService`).

Only model-checked: liveness (`PipelineProgress`, `HubProgress`, `Recovers`,
`CircuitRecovers`, the three `CallsReturn`), because it needs fairness and
ENABLED, which are out of the prover's reach; and what `Backoff` computes, because powers
are defined by induction.

## 6. Where code and documents differ

Met while the models were written, each as a behaviour of the models. They are
not properties, since a property of the code has to hold of it.

Pipeline
- Two schedulers can read a due job before either removes it
  (`infrastructure/redis/client.go:226` and `:252`, whose count of removed
  members is ignored), and the check runs twice.
  `.kiro/specs/uptime-monitoring-system/design.md:1006` has several instances
  run concurrently, `OPERATIONS.md:808` deploys three. Trace: `ScheduleMonitor`,
  ticks, `GetDueJobs(i1)`, `GetDueJobs(i2)`, both `RemoveDueJobs`, both
  `Enqueue`, both workers.
- `UnscheduleMonitor` (`usecase/scheduler.go:121`) only logs and
  `ExecuteCheck` does not look at `Enabled`: a disabled monitor's job is still
  checked. `RescheduleMonitor` (`:131`) therefore adds a job and leaves the old
  one.
- One lost reply to RPUSH runs a job twice on a single instance, since go-redis
  repeats the command (`MaxRetries` 3, `infrastructure/redis/client.go:40`) and
  the list takes it again. Trace: `ScheduleMonitor`, ticks, `GetDueJobs`,
  `RemoveDueJobs`, `EnqueueUnanswered`, `Dequeue`, `Enqueue`, `Dequeue`.
  `AtMostOnce` and `JobLedger` therefore allow a run more for each repetition
  that reached Redis, and none for any other failure or crash.
- `scheduleNextExecution` (`:208`) schedules nothing and nothing else does after
  a check: a monitor is checked once. `requirements.md:58` asks for a check
  whenever the interval is reached.

Hub
- `Run` returns on `Stop` and nobody receives `unregister` any more: a
  `readPump` that ends later waits forever (`interface/websocket/handler.go:268`).
- A client whose channel is full is deleted from the map while the hub holds the
  read lock (`:133`); readers of the map may run at the same time.
- A full `broadcast` channel drops the message for every client (`:164`).

Alerts
- The key of the downtime limit expires after its window
  (`usecase/rate_limiter.go:45`), so a site that is down for longer than 15
  minutes after the alert comes back without a recovery alert;
  `requirements.md:83` asks for one. The branches for older alerts are never
  taken.
- `GenerateAndDeliver` reads back the latest alert of the monitor
  (`usecase/alert_service.go:337`), which may be one of another check.
- The conversation with a mail server has no limit
  (`interface/alertchannel/email.go:100`: no timeout, no deadline, the context
  unused): a server that accepts and says nothing keeps `DeliverAlert` waiting
  for ever.
- Days until expiry are truncated towards zero (`domain/healthcheck.go:41`), so
  a certificate that ended within the last day shows zero days.

Metrics and checks
- `invalidateMetricsCache` removes `response:1h`, the metrics service caches
  under `response:1h0m0s` (`usecase/healthcheck_service.go:293`,
  `usecase/metrics_service.go:118`): response times are dropped by their expiry
  only. `UptimeNeedsARace` therefore speaks of the uptime alone, `FreshMetrics`
  of both.
- The response time of a check includes its failed attempts and back-offs
  (`usecase/healthcheck_service.go:93`).

Aggregation and retention
- The aggregation deletes with a zero start time, which the repository refuses:
  the checks it covered stay until the clean-up, and its error ends the run
  after one hour; `requirements.md:193` speaks of all data older than that.
- The end of an hour is inclusive in the query: a check at the boundary is
  counted in two hours.
- `OPERATIONS.md:703` keeps aggregates indefinitely. So does a service made by
  `NewDataRetentionService`, which has no repository for them
  (`usecase/data_retention_service.go:106`); one made by
  `NewDataRetentionServiceWithAggregation` deletes them after 90 days.
  `withAggregates` tells the two apart.

Degradation
- The probes get the context of the manager's loop, which has no deadline, and
  run with `dm.mu` held (`infrastructure/resilience/degradation.go:124` to
  `:150`): a database that accepts and does not answer blocks every
  `IsDatabaseAvailable`.
- `IsRedisAvailable` is read off one mode, which names only one service: see
  `infrastructure/resilience/degradation.go:69` to `:73`. A monitor that does
  not exist is reported as a failure of the database.

Lifecycle
- The stop channel is made once: after a stop, loops that are started again end
  at once, and a second stop closes a closed channel
  (`usecase/worker_pool.go:114`). `main` starts each service once.
- Loops that end with their context leave the flag set, so `IsRunning` stays
  true; a worker's loop does not look at its context between polls.

Sessions
- The response to a request that was sent with an old cookie clears the newer
  one; a failed read of the user deletes the session.

## 7. What is not modelled

- Configuration: read once, precedence and range checks in straight-line code.
- Handlers other than those of accounts and of the system decode a request, call
  one service and render; the models begin at the call. Templates are generated
  code. The `CSRFProtection` middleware is installed on no route.
- SQL statements are single steps of their callers; `List` with its limit of
  1000 rows has no state. Logging and profiling are output.
- `main` beyond what starts and ends: construction that stops on the first
  error.
- Pipeline: `RemoveScheduledJob` has no caller. Jobs of one `at` second may be
  fetched in either order, as Redis orders them by their text.
- Breaker: the map of breakers, filled while the program is wired. In
  `AlertService` a guarded channel may fail at any time, as an open circuit
  does.
- Hub: contents of messages; messages dropped on a full `broadcast` channel
  change nothing and are not numbered.
- Alerts: texts. Metrics: the average. Retention: the 1000 monitors an
  aggregation lists. Degradation: the calls that only pass through.
