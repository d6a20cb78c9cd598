----------------------------- MODULE JobPipeline -----------------------------
(***************************************************************************)
(* The health-check job pipeline of the uptime monitor.                    *)
(*                                                                         *)
(* The monitor service records a monitor in PostgreSQL and then asks the   *)
(* scheduler for a job; the job waits in a Redis sorted set until its      *)
(* second has come; the scheduler loop of every application instance       *)
(* moves due jobs to a Redis list; the workers pop the list and execute    *)
(* the health check, which ends with a row in PostgreSQL.                  *)
(*                                                                         *)
(* Redis and PostgreSQL outlive a crash of an instance; the fetched batch  *)
(* of a scheduler, the job a worker holds and the API requests in progress *)
(* do not.                                                                 *)
(***************************************************************************)
EXTENDS Integers, Sequences, FiniteSets

CONSTANTS
  Monitors,        \* monitor IDs (UUIDs, never reused)
  Jobs,            \* job IDs: finite in TLC, which bounds the number of jobs
  Instances,       \* application instances sharing one Redis and one database
  Workers,         \* worker goroutines of all the instances
  Host,            \* the instance a worker runs in
  Null,            \* no job, no monitor
  Intervals,       \* check intervals a monitor may have, in clock ticks
  JitterDivisor,   \* the jitter is +/- interval / JitterDivisor (10 in the code)
  TicksPerSecond,  \* clock ticks per second: Redis scores are whole seconds
  MaxRetries,      \* how often go-redis repeats a command whose reply was lost
                   \* (3 in the code)
  MaxTime,         \* bound: last clock tick
  MaxCalls,        \* bound: ScheduleMonitor calls in progress per monitor
  MaxErrors,       \* bound: failed Redis or database operations
  MaxCrashes       \* bound: crashes of an instance

(* What a job waits from now to its execution: the interval and the jitter *)
(* around it.                                                              *)
Delays == UNION { (i - i \div JitterDivisor)..(i + i \div JitterDivisor) :
                    i \in Intervals }

(* Intervals are at least one minute, so that even with the jitter taken   *)
(* off, a job is scheduled at least a second ahead.                        *)
ASSUME PipelineAssumption ==
  /\ IsFiniteSet(Instances) /\ IsFiniteSet(Workers)
  /\ Host \in [Workers -> Instances]
  /\ Null \notin Monitors \union Jobs
  /\ JitterDivisor \in Nat \ {0}
  /\ TicksPerSecond \in Nat \ {0}
  /\ MaxRetries \in Nat /\ MaxTime \in Nat /\ MaxCalls \in Nat
  /\ MaxErrors \in Nat /\ MaxCrashes \in Nat
  /\ Intervals \subseteq Nat
  /\ \A d \in Delays : d \in Nat /\ d >= TicksPerSecond

VARIABLES
  now,       \* the clock
  monitor,   \* the row of each monitor, reduced to what scheduling looks at
  calls,     \* calls[p][m]: ScheduleMonitor calls the API requests running in
             \* instance p have still to make for monitor m
  mon,       \* the monitor a job checks; Null while the job does not exist
  at,        \* the time a job is scheduled for
  schedule,  \* Redis sorted set health_check_schedule
  phase,     \* where the scheduler loop of an instance is
  batch,     \* the due jobs that loop has fetched and not yet enqueued
  tries,     \* tries[p][j]: RPUSH commands of p for j whose reply was lost,
             \* while go-redis repeats the command
  queue,     \* Redis list health_check_queue
  wpc,       \* where a worker is
  held,      \* the job a worker has popped
  repeats,   \* <<p, n>> for every n-th repetition of an RPUSH of the job by p
  runs,      \* how many times a job was given to processJob
  rows,      \* health_checks rows a job has left in the database
  errors,    \* operations that failed so far (bounded by MaxErrors)
  crashes    \* crashes so far (bounded by MaxCrashes)

apiVars    == <<monitor, calls>>
jobVars    == <<mon, at, repeats>>
schedVars  == <<phase, batch, tries>>
workerVars == <<wpc, held>>
vars == <<now, apiVars, jobVars, schedule, schedVars, queue, workerVars,
          runs, rows, errors, crashes>>

Exists(m) == monitor[m] \in {"enabled", "disabled"}
Created(j) == mon[j] # Null

(* The score of a time in the sorted set: Unix() drops the sub-second part. *)
Score(t) == t \div TicksPerSecond

(* Mutant of IsDue: the bound of the query is rounded up.                  *)
IsDueRoundedUp(j) == Score(at[j]) <= Score(now + TicksPerSecond - 1)

IsDue(j) == Score(at[j]) <= Score(now)

QueuedJobs == { queue[i] : i \in DOMAIN queue }

(* How often a job is in a list.                                           *)
Positions(q, j) == { i \in DOMAIN q : q[i] = j }
Copies(q, j) == Cardinality(Positions(q, j))

(* Jobs the schedulers are not done with, and those that wait anywhere.    *)
Upstream(j) == j \in schedule \/ \E p \in Instances : j \in batch[p]
Waiting(j) == Upstream(j) \/ j \in QueuedJobs

Fail == errors < MaxErrors /\ errors' = errors + 1

Init ==
  /\ now = 0
  /\ monitor = [m \in Monitors |-> "absent"]
  /\ calls = [p \in Instances |-> [m \in Monitors |-> 0]]
  /\ mon = [j \in Jobs |-> Null]
  /\ at = [j \in Jobs |-> 0]
  /\ schedule = {}
  /\ phase = [p \in Instances |-> "idle"]
  /\ batch = [p \in Instances |-> {}]
  /\ tries = [p \in Instances |-> [j \in Jobs |-> 0]]
  /\ queue = <<>>
  /\ wpc = [w \in Workers |-> "idle"]
  /\ held = [w \in Workers |-> Null]
  /\ repeats = [j \in Jobs |-> {}]
  /\ runs = [j \in Jobs |-> 0]
  /\ rows = [j \in Jobs |-> 0]
  /\ errors = 0
  /\ crashes = 0

-----------------------------------------------------------------------------
(* The monitor service. A request first commits its database write; the    *)
(* calls to the scheduler that follow it are steps of their own.           *)

(* Owe n more ScheduleMonitor calls for m to the request running in p.     *)
Owe(p, m, n) ==
  /\ calls[p][m] + n <= MaxCalls
  /\ calls' = [calls EXCEPT ![p][m] = @ + n]

CreateMonitor(p, m, enabled) ==
  /\ monitor[m] = "absent"
  /\ monitor' = [monitor EXCEPT ![m] = IF enabled THEN "enabled" ELSE "disabled"]
  /\ Owe(p, m, IF enabled THEN 1 ELSE 0)
  /\ UNCHANGED <<now, jobVars, schedule, schedVars, queue, workerVars,
                 runs, rows, errors, crashes>>

(* ScheduleMonitor calls of an update that finds the monitor in status old *)
(* and leaves it enabled or not: one when it becomes enabled, and one from *)
(* RescheduleMonitor when it is enabled and its interval or URL was given. *)
(* UnscheduleMonitor, which a disabling update and RescheduleMonitor call, *)
(* changes nothing.                                                        *)
ScheduleCalls(old, enabled, reconfigured) ==
  IF ~enabled THEN 0
  ELSE (IF old = "disabled" THEN 1 ELSE 0) + (IF reconfigured THEN 1 ELSE 0)

UpdateMonitor(p, m, enabled, reconfigured) ==
  /\ Exists(m)
  /\ monitor' = [monitor EXCEPT ![m] = IF enabled THEN "enabled" ELSE "disabled"]
  /\ Owe(p, m, ScheduleCalls(monitor[m], enabled, reconfigured))
  /\ UNCHANGED <<now, jobVars, schedule, schedVars, queue, workerVars,
                 runs, rows, errors, crashes>>

(* Deleting the row deletes the monitor's checks too (ON DELETE CASCADE);  *)
(* its jobs stay where they are.                                           *)
DeleteMonitor(m) ==
  /\ Exists(m)
  /\ monitor' = [monitor EXCEPT ![m] = "deleted"]
  /\ rows' = [j \in Jobs |-> IF mon[j] = m THEN 0 ELSE rows[j]]
  /\ UNCHANGED <<now, calls, jobVars, schedule, schedVars, queue, workerVars,
                 runs, errors, crashes>>

(* A new job, under an ID no other job has, at now + interval +/- jitter.  *)
ScheduleMonitor(p, m, j, d) ==
  /\ calls[p][m] > 0
  /\ ~Created(j)
  /\ now + d <= MaxTime
  /\ calls' = [calls EXCEPT ![p][m] = @ - 1]
  /\ mon' = [mon EXCEPT ![j] = m]
  /\ at' = [at EXCEPT ![j] = now + d]
  /\ schedule' = schedule \union {j}
  /\ UNCHANGED <<now, monitor, repeats, schedVars, queue, workerVars, runs, rows,
                 errors, crashes>>

(* ZADD fails: the service swallows the error and the request succeeds.    *)
ScheduleMonitorError(p, m) ==
  /\ calls[p][m] > 0
  /\ Fail
  /\ calls' = [calls EXCEPT ![p][m] = @ - 1]
  /\ UNCHANGED <<now, monitor, jobVars, schedule, schedVars, queue,
                 workerVars, runs, rows, crashes>>

-----------------------------------------------------------------------------
(* The scheduler loop of an instance: processDueJobs at every ticker tick. *)
(* Reading the due jobs and removing them are two Redis commands.          *)

(* Mutant of RemoveDueJobs: nothing is removed.                            *)
RemoveDueJobsNot(p) ==
  /\ phase[p] = "fetched"
  /\ phase' = [phase EXCEPT ![p] = "enqueue"]
  /\ UNCHANGED <<now, apiVars, jobVars, schedule, batch, tries, queue,
                 workerVars, runs, rows, errors, crashes>>

GetDueJobs(p) ==
  /\ phase[p] = "idle"
  /\ \E j \in schedule : IsDue(j)
  /\ batch' = [batch EXCEPT ![p] = { j \in schedule : IsDue(j) }]
  /\ phase' = [phase EXCEPT ![p] = "fetched"]
  /\ UNCHANGED <<now, apiVars, jobVars, schedule, tries, queue, workerVars,
                 runs, rows, errors, crashes>>

RemoveDueJobs(p) ==
  /\ phase[p] = "fetched"
  /\ schedule' = schedule \ batch[p]
  /\ phase' = [phase EXCEPT ![p] = "enqueue"]
  /\ UNCHANGED <<now, apiVars, jobVars, batch, tries, queue, workerVars, runs,
                 rows, errors, crashes>>

(* Mutant of RemoveDueJobsError: the loop goes on with its batch.          *)
RemoveDueJobsErrorIgnored(p) ==
  /\ phase[p] = "fetched"
  /\ Fail
  /\ schedule' \in {schedule, schedule \ batch[p]}
  /\ phase' = [phase EXCEPT ![p] = "enqueue"]
  /\ UNCHANGED <<now, apiVars, jobVars, batch, tries, queue, workerVars, runs,
                 rows, crashes>>

(* ZREM reports an error, having removed the members or not: the loop       *)
(* returns without its batch.                                              *)
RemoveDueJobsError(p) ==
  /\ phase[p] = "fetched"
  /\ Fail
  /\ schedule' \in {schedule, schedule \ batch[p]}
  /\ phase' = [phase EXCEPT ![p] = "idle"]
  /\ batch' = [batch EXCEPT ![p] = {}]
  /\ UNCHANGED <<now, apiVars, jobVars, tries, queue, workerVars, runs, rows,
                 crashes>>

(* Mutant of NextOfBatch: the order of the batch is lost.                  *)
NextOfBatchUnordered(p, j) == j \in batch[p]

(* The next job of the batch: ZRANGEBYSCORE returned them by score. A      *)
(* command that is being repeated is not given up for another.             *)
NextOfBatch(p, j) ==
  /\ j \in batch[p]
  /\ \A k \in batch[p] : Score(at[j]) <= Score(at[k])
  /\ \A k \in batch[p] \ {j} : tries[p][k] = 0

(* Mutants of Advance: the loop ends with its first job; it never ends.    *)
AdvanceOnlyOnce(p, j) ==
  /\ phase[p] = "enqueue"
  /\ NextOfBatch(p, j)
  /\ batch' = [batch EXCEPT ![p] = {}]
  /\ phase' = [phase EXCEPT ![p] = "idle"]
  /\ tries' = [tries EXCEPT ![p][j] = 0]

AdvanceForever(p, j) ==
  /\ phase[p] = "enqueue"
  /\ NextOfBatch(p, j)
  /\ batch' = [batch EXCEPT ![p] = @ \ {j}]
  /\ tries' = [tries EXCEPT ![p][j] = 0]
  /\ UNCHANGED phase

(* The loop is done with job j, whatever came of it.                       *)
Advance(p, j) ==
  /\ phase[p] = "enqueue"
  /\ NextOfBatch(p, j)
  /\ batch' = [batch EXCEPT ![p] = @ \ {j}]
  /\ phase' = [phase EXCEPT ![p] = IF batch[p] = {j} THEN "idle" ELSE "enqueue"]
  /\ tries' = [tries EXCEPT ![p][j] = 0]

Enqueue(p, j) ==
  /\ Advance(p, j)
  /\ queue' = Append(queue, j)
  /\ UNCHANGED <<now, apiVars, jobVars, schedule, workerVars, runs, rows,
                 errors, crashes>>

(* Redis executes RPUSH and its reply is lost: go-redis will repeat the     *)
(* command, while a worker may already have the first copy.                *)
EnqueueUnanswered(p, j) ==
  /\ phase[p] = "enqueue"
  /\ NextOfBatch(p, j)
  /\ tries[p][j] < MaxRetries
  /\ Fail
  /\ queue' = Append(queue, j)
  /\ tries' = [tries EXCEPT ![p][j] = @ + 1]
  /\ repeats' = [repeats EXCEPT ![j] = @ \union {<<p, tries[p][j] + 1>>}]
  /\ UNCHANGED <<now, apiVars, mon, at, schedule, phase, batch, workerVars,
                 runs, rows, crashes>>

(* RPUSH fails, after all its repetitions: logged, and the loop continues  *)
(* with the next job. (When only the last reply was lost, the loop goes on *)
(* as it does after Enqueue.)                                              *)
EnqueueError(p, j) ==
  /\ Advance(p, j)
  /\ Fail
  /\ UNCHANGED <<now, apiVars, jobVars, schedule, queue, workerVars, runs,
                 rows, crashes>>

-----------------------------------------------------------------------------
(* The workers.                                                            *)

Release(w) ==
  /\ wpc' = [wpc EXCEPT ![w] = "idle"]
  /\ held' = [held EXCEPT ![w] = Null]

(* BLPOP removes the job before it is processed.                           *)
Dequeue(w) ==
  /\ wpc[w] = "idle"
  /\ queue # <<>>
  /\ queue' = Tail(queue)
  /\ wpc' = [wpc EXCEPT ![w] = "load"]
  /\ held' = [held EXCEPT ![w] = Head(queue)]
  /\ runs' = [runs EXCEPT ![Head(queue)] = @ + 1]
  /\ UNCHANGED <<now, apiVars, jobVars, schedule, schedVars, rows, errors,
                 crashes>>

(* BLPOP removes a job and its reply does not reach the worker.            *)
DequeueError(w) ==
  /\ wpc[w] = "idle"
  /\ queue # <<>>
  /\ Fail
  /\ queue' = Tail(queue)
  /\ UNCHANGED <<now, apiVars, jobVars, schedule, schedVars, workerVars, runs,
                 rows, crashes>>

(* ExecuteCheck found the monitor, in the database or, up to five minutes  *)
(* after its deletion, in the cache; whether it is enabled is not asked.   *)
LoadMonitor(w) ==
  /\ wpc[w] = "load"
  /\ wpc' = [wpc EXCEPT ![w] = "persist"]
  /\ UNCHANGED <<now, apiVars, jobVars, schedule, schedVars, queue, held,
                 runs, rows, errors, crashes>>

(* Mutant of LoadMonitorError: the worker puts the job back.               *)
LoadMonitorErrorRequeues(w) ==
  /\ wpc[w] = "load"
  /\ \/ ~Exists(mon[held[w]]) /\ UNCHANGED errors
     \/ Fail
  /\ queue' = Append(queue, held[w])
  /\ Release(w)
  /\ UNCHANGED <<now, apiVars, jobVars, schedule, schedVars, runs, rows, crashes>>

(* The monitor is gone, or its repository failed: the job is given up.     *)
LoadMonitorError(w) ==
  /\ wpc[w] = "load"
  /\ \/ ~Exists(mon[held[w]]) /\ UNCHANGED errors
     \/ Fail
  /\ Release(w)
  /\ UNCHANGED <<now, apiVars, jobVars, schedule, schedVars, queue, runs,
                 rows, crashes>>

(* Mutant of PersistHealthCheck: no foreign key.                           *)
PersistHealthCheckUnchecked(w) ==
  /\ wpc[w] = "persist"
  /\ rows' = [rows EXCEPT ![held[w]] = @ + 1]
  /\ Release(w)
  /\ UNCHANGED <<now, apiVars, jobVars, schedule, schedVars, queue, runs,
                 errors, crashes>>

(* Mutant of PersistHealthCheckError: a refused row is not given up.       *)
PersistHealthCheckErrorRetries(w) ==
  /\ wpc[w] = "persist"
  /\ Fail
  /\ Release(w)
  /\ UNCHANGED <<now, apiVars, jobVars, schedule, schedVars, queue, runs,
                 rows, crashes>>

(* The request has ended, within its timeouts, in success or failure: its  *)
(* result becomes a row. The foreign key refuses one of a deleted monitor. *)
PersistHealthCheck(w) ==
  /\ wpc[w] = "persist"
  /\ Exists(mon[held[w]])
  /\ rows' = [rows EXCEPT ![held[w]] = @ + 1]
  /\ Release(w)
  /\ UNCHANGED <<now, apiVars, jobVars, schedule, schedVars, queue, runs,
                 errors, crashes>>

PersistHealthCheckError(w) ==
  /\ wpc[w] = "persist"
  /\ \/ ~Exists(mon[held[w]]) /\ UNCHANGED errors
     \/ Fail
  /\ Release(w)
  /\ UNCHANGED <<now, apiVars, jobVars, schedule, schedVars, queue, runs,
                 rows, crashes>>

-----------------------------------------------------------------------------
(* The environment.                                                        *)

(* An instance dies, or is told to stop (main returns without waiting for  *)
(* its loops), and starts again: it reads nothing back.                    *)
Crash(p) ==
  /\ crashes < MaxCrashes
  /\ crashes' = crashes + 1
  /\ calls' = [calls EXCEPT ![p] = [m \in Monitors |-> 0]]
  /\ phase' = [phase EXCEPT ![p] = "idle"]
  /\ batch' = [batch EXCEPT ![p] = {}]
  /\ tries' = [tries EXCEPT ![p] = [j \in Jobs |-> 0]]
  /\ wpc' = [w \in Workers |-> IF Host[w] = p THEN "idle" ELSE wpc[w]]
  /\ held' = [w \in Workers |-> IF Host[w] = p THEN Null ELSE held[w]]
  /\ UNCHANGED <<now, monitor, jobVars, schedule, queue, runs, rows, errors>>

(* Redis, deployed with maxmemory-policy allkeys-lru, evicts a whole key.  *)
Evict ==
  /\ Fail
  /\ \/ schedule' = {} /\ schedule # {} /\ UNCHANGED queue
     \/ queue' = <<>> /\ queue # <<>> /\ UNCHANGED schedule
  /\ UNCHANGED <<now, apiVars, jobVars, schedVars, workerVars, runs, rows,
                 crashes>>

Tick ==
  /\ now < MaxTime
  /\ now' = now + 1
  /\ UNCHANGED <<apiVars, jobVars, schedule, schedVars, queue, workerVars,
                 runs, rows, errors, crashes>>

-----------------------------------------------------------------------------
Api(p) == \E m \in Monitors :
  \/ \E enabled \in BOOLEAN : CreateMonitor(p, m, enabled)
  \/ \E enabled, reconfigured \in BOOLEAN :
       UpdateMonitor(p, m, enabled, reconfigured)
  \/ DeleteMonitor(m)

Submit(p) == \E m \in Monitors :
  \/ \E j \in Jobs, d \in Delays : ScheduleMonitor(p, m, j, d)
  \/ ScheduleMonitorError(p, m)

EnqueueBatch(p) == \E j \in Jobs :
  Enqueue(p, j) \/ EnqueueUnanswered(p, j) \/ EnqueueError(p, j)

Scheduler(p) ==
  GetDueJobs(p) \/ RemoveDueJobs(p) \/ RemoveDueJobsError(p) \/ EnqueueBatch(p)

Worker(w) ==
  \/ Dequeue(w) \/ DequeueError(w)
  \/ LoadMonitor(w) \/ LoadMonitorError(w)
  \/ PersistHealthCheck(w) \/ PersistHealthCheckError(w)

Next ==
  \/ \E p \in Instances : Api(p) \/ Submit(p) \/ Scheduler(p) \/ Crash(p)
  \/ \E w \in Workers : Worker(w)
  \/ Evict
  \/ Tick

Spec == Init /\ [][Next]_vars

(* The clock runs; the ticker of a scheduler keeps firing and its loop     *)
(* never blocks for good; a worker polls again as soon as it is free, and  *)
(* its request ends by its 30 and 45 second timeouts. Nobody has to call   *)
(* the API, fail or crash.                                                 *)
Fairness ==
  /\ WF_vars(Tick)
  /\ \A p \in Instances : WF_vars(Scheduler(p))
  /\ \A w \in Workers : WF_vars(Worker(w))

FairSpec == Spec /\ Fairness

-----------------------------------------------------------------------------
(* Properties.                                                             *)

(* The shape of the state (JobScheduler, WorkerPoolImpl and their stores). *)
TypeOK ==
  /\ now \in 0..MaxTime
  /\ monitor \in [Monitors -> {"absent", "enabled", "disabled", "deleted"}]
  /\ calls \in [Instances -> [Monitors -> Nat]]
  /\ mon \in [Jobs -> Monitors \union {Null}]
  /\ at \in [Jobs -> Nat]
  /\ schedule \in SUBSET Jobs
  /\ phase \in [Instances -> {"idle", "fetched", "enqueue"}]
  /\ batch \in [Instances -> SUBSET Jobs]
  /\ tries \in [Instances -> [Jobs -> 0..MaxRetries]]
  /\ queue \in Seq(Jobs)
  /\ wpc \in [Workers -> {"idle", "load", "persist"}]
  /\ held \in [Workers -> Jobs \union {Null}]
  /\ repeats \in [Jobs -> SUBSET (Instances \X (1..MaxRetries))]
  /\ runs \in [Jobs -> Nat]
  /\ rows \in [Jobs -> Nat]
  /\ errors \in 0..MaxErrors
  /\ crashes \in 0..MaxCrashes

(* With one instance a job is handed to processJob once, and once more     *)
(* only for every time its RPUSH was repeated after a lost reply: through  *)
(* every other failure, lost reply and crash, fetch, removal, enqueueing   *)
(* and BLPOP leave no second copy behind (processDueJobs, GetDueJobs,      *)
(* worker.run).                                                            *)
AtMostOnce == \A j \in Jobs : runs[j] <= 1 + Cardinality(repeats[j])

(* Whatever is shared or retried, duplication stays bounded: a job is run  *)
(* at most once for every instance and once for every repeated RPUSH, of   *)
(* which each instance has MaxRetries at most; and it leaves no more rows  *)
(* than it had runs.                                                       *)
BoundedDuplication ==
  \A j \in Jobs :
    /\ runs[j] <= Cardinality(Instances) + Cardinality(repeats[j])
    /\ runs[j] <= (MaxRetries + 1) * Cardinality(Instances)
    /\ rows[j] <= runs[j]

(* Due jobs reach the workers in the order of their scores, over batches   *)
(* that fail, are retried or are cut short: the list is sorted, what the   *)
(* scheduler still has to append comes after it, and what is still in the  *)
(* sorted set after that (GetDueJobs "in order of their scheduled          *)
(* execution time", RPUSH and BLPOP).                                      *)
QueueInDueOrder ==
  /\ \A i, k \in DOMAIN queue : i < k => Score(at[queue[i]]) <= Score(at[queue[k]])
  /\ \A j \in QueuedJobs, p \in Instances :
       \A k \in batch[p] \union schedule : Score(at[j]) <= Score(at[k])

(* No job leaves the sorted set a second or more before its time, although *)
(* both its score and the bound of the query lose their sub-second part.   *)
NeverEarly ==
  \A j \in Jobs :
    runs[j] > 0 \/ j \in QueuedJobs \/ (\E p \in Instances : j \in batch[p])
      => at[j] < now + TicksPerSecond

(* A job that was scheduled and not yet run can vanish only through a      *)
(* failed operation or a crash: no interleaving of scheduler loops,        *)
(* workers, updates and deletions loses one by itself.                     *)
NoSilentLoss ==
  errors = 0 /\ crashes = 0 =>
    \A j \in Jobs : Created(j) => Waiting(j) \/ runs[j] > 0

(* A deleted monitor keeps no check: a worker that was in the middle of a  *)
(* check when the monitor was deleted cannot leave a row behind            *)
(* (DeleteMonitor "delete all associated data", persistHealthCheck).       *)
NoOrphanRows == \A j \in Jobs : rows[j] > 0 => Exists(mon[j])

(* With one instance the pipeline keeps the promise of JobLedger, job by   *)
(* job: it is scheduled while a scheduler has it in the sorted set or in   *)
(* its batch, its copies wait in the list, and every pop starts it.        *)
Place == [j \in Jobs |-> IF ~Created(j) THEN "none"
                         ELSE IF Upstream(j) THEN "scheduled" ELSE "settled"]

JL == INSTANCE JobLedger WITH
        place   <- Place,
        copies  <- [j \in Jobs |-> Copies(queue, j)],
        started <- runs,
        repeats <- [j \in Jobs |-> Cardinality(repeats[j])]

ImplementsLedger == JL!Spec

(* A scheduled job is eventually processed or lost to a failure; it does   *)
(* not wait forever in the set, in a batch or in the list.                 *)
EveryJobSettles == \A j \in Jobs : []<>~Waiting(j)

(* A worker always comes back from the job it popped (Requirement 6.5: no  *)
(* monitor blocks the others).                                             *)
WorkersReturn == \A w \in Workers : []<>(held[w] = Null)

(* Jobs and workers both come to an end of what they are in.               *)
PipelineProgress == EveryJobSettles /\ WorkersReturn
=============================================================================
