-------------------------- MODULE JobPipelineProofs --------------------------
(* Theorems about JobPipeline, for all values of its constants.            *)
EXTENDS JobPipeline, TLAPS, SequenceTheorems, FiniteSetTheorems

(* The delays of a job are clock ticks, so that its time is one too.       *)
LEMMA DelayNat == ASSUME NEW d \in Delays PROVE d \in Nat /\ d >= TicksPerSecond
  BY PipelineAssumption

(* The bounds are naturals.                                                *)
LEMMA BoundsNat ==
  MaxTime \in Nat /\ MaxErrors \in Nat /\ MaxCrashes \in Nat /\ MaxRetries \in Nat
  BY PipelineAssumption

(* Every reachable state has the shape TypeOK describes.                   *)
THEOREM TypeCorrect == Spec => []TypeOK
<1>1. Init => TypeOK
  BY PipelineAssumption, EmptySeq DEF Init, TypeOK
<1>2. TypeOK /\ [Next]_vars => TypeOK'
  <2> SUFFICES ASSUME TypeOK, [Next]_vars PROVE TypeOK'
    OBVIOUS
  <2> USE BoundsNat DEF TypeOK, apiVars, jobVars, schedVars, workerVars
  <2>1. ASSUME NEW p \in Instances, Api(p) PROVE TypeOK'
    <3>1. ASSUME NEW m \in Monitors, NEW enabled \in BOOLEAN,
                 CreateMonitor(p, m, enabled)
          PROVE TypeOK'
      <4>1. (IF enabled THEN 1 ELSE 0) \in Nat
        OBVIOUS
      <4>2. calls' \in [Instances -> [Monitors -> Nat]]
        BY <3>1, <4>1 DEF CreateMonitor, Owe
      <4>3. monitor' \in [Monitors -> {"absent", "enabled", "disabled", "deleted"}]
        BY <3>1 DEF CreateMonitor
      <4> QED BY <3>1, <4>2, <4>3 DEF CreateMonitor
    <3>2. ASSUME NEW m \in Monitors, NEW enabled \in BOOLEAN,
                 NEW reconfigured \in BOOLEAN,
                 UpdateMonitor(p, m, enabled, reconfigured)
          PROVE TypeOK'
      BY <3>2 DEF UpdateMonitor, Owe, ScheduleCalls
    <3>3. ASSUME NEW m \in Monitors, DeleteMonitor(m) PROVE TypeOK'
      BY <3>3 DEF DeleteMonitor
    <3> QED BY <2>1, <3>1, <3>2, <3>3 DEF Api
  <2>2. ASSUME NEW p \in Instances, Submit(p) PROVE TypeOK'
    <3>1. ASSUME NEW m \in Monitors, NEW j \in Jobs, NEW d \in Delays,
                 ScheduleMonitor(p, m, j, d)
          PROVE TypeOK'
      <4>1. at' \in [Jobs -> Nat] /\ mon' \in [Jobs -> Monitors \union {Null}]
        BY <3>1, DelayNat DEF ScheduleMonitor
      <4>2. calls' \in [Instances -> [Monitors -> Nat]]
        <5>1. calls[p][m] \in Nat /\ calls[p][m] > 0
          BY <3>1 DEF ScheduleMonitor
        <5>2. calls[p][m] - 1 \in Nat
          BY <5>1
        <5>3. calls' = [calls EXCEPT ![p][m] = calls[p][m] - 1]
          BY <3>1 DEF ScheduleMonitor
        <5> HIDE DEF TypeOK
        <5>4. calls \in [Instances -> [Monitors -> Nat]]
          BY DEF TypeOK
        <5> QED BY <5>2, <5>3, <5>4
      <4> QED BY <3>1, <4>1, <4>2 DEF ScheduleMonitor
    <3>2. ASSUME NEW m \in Monitors, ScheduleMonitorError(p, m) PROVE TypeOK'
      BY <3>2 DEF ScheduleMonitorError, Fail
    <3> QED BY <2>2, <3>1, <3>2 DEF Submit
  <2>3. ASSUME NEW p \in Instances, Scheduler(p) PROVE TypeOK'
    <3>1. CASE GetDueJobs(p)
      BY <3>1 DEF GetDueJobs
    <3>2. CASE RemoveDueJobs(p)
      BY <3>2 DEF RemoveDueJobs
    <3>3. CASE RemoveDueJobsError(p)
      BY <3>3 DEF RemoveDueJobsError, Fail
    <3>4. CASE EnqueueBatch(p)
      <4>1. ASSUME NEW j \in Jobs, Enqueue(p, j) PROVE TypeOK'
        BY <4>1 DEF Enqueue, Advance
      <4>2. ASSUME NEW j \in Jobs, EnqueueUnanswered(p, j) PROVE TypeOK'
        <5>1. tries[p][j] \in 0..MaxRetries /\ tries[p][j] < MaxRetries
          BY <4>2 DEF EnqueueUnanswered
        <5>2. tries[p][j] + 1 \in 1..MaxRetries
          BY <5>1
        <5>3. tries' \in [Instances -> [Jobs -> 0..MaxRetries]]
          BY <4>2, <5>2 DEF EnqueueUnanswered
        <5>4. repeats' \in [Jobs -> SUBSET (Instances \X (1..MaxRetries))]
          <6>1. <<p, tries[p][j] + 1>> \in Instances \X (1..MaxRetries)
            BY <5>2
          <6> QED BY <4>2, <6>1 DEF EnqueueUnanswered
        <5> QED BY <4>2, <5>3, <5>4 DEF EnqueueUnanswered, Fail
      <4>3. ASSUME NEW j \in Jobs, EnqueueError(p, j) PROVE TypeOK'
        BY <4>3 DEF EnqueueError, Advance, Fail
      <4> QED BY <3>4, <4>1, <4>2, <4>3 DEF EnqueueBatch
    <3> QED BY <2>3, <3>1, <3>2, <3>3, <3>4 DEF Scheduler
  <2>4. ASSUME NEW p \in Instances, Crash(p) PROVE TypeOK'
    BY <2>4, PipelineAssumption DEF Crash
  <2>5. ASSUME NEW w \in Workers, Worker(w) PROVE TypeOK'
    <3>1. CASE Dequeue(w)
      <4>1. queue \in Seq(Jobs) /\ queue # <<>>
        BY <3>1 DEF Dequeue
      <4>2. Head(queue) \in Jobs /\ Tail(queue) \in Seq(Jobs)
        BY <4>1
      <4>3. queue' \in Seq(Jobs)
        BY <3>1, <4>2 DEF Dequeue
      <4>4. /\ wpc' \in [Workers -> {"idle", "load", "persist"}]
            /\ held' \in [Workers -> Jobs \union {Null}]
        BY <3>1, <4>2 DEF Dequeue
      <4>5. runs' \in [Jobs -> Nat]
        <5>1. runs[Head(queue)] + 1 \in Nat
          BY <4>2
        <5> QED BY <3>1, <4>2, <5>1 DEF Dequeue
      <4>6. UNCHANGED <<now, apiVars, jobVars, schedule, schedVars, rows, errors, crashes>>
        BY <3>1 DEF Dequeue
      <4> QED BY <4>3, <4>4, <4>5, <4>6
    <3>2. CASE DequeueError(w)
      BY <3>2 DEF DequeueError, Fail
    <3>3. CASE LoadMonitor(w)
      BY <3>3 DEF LoadMonitor
    <3>4. CASE LoadMonitorError(w)
      <4>1. /\ wpc' \in [Workers -> {"idle", "load", "persist"}]
            /\ held' \in [Workers -> Jobs \union {Null}]
        BY <3>4 DEF LoadMonitorError, Release
      <4>2. errors' \in 0..MaxErrors
        BY <3>4 DEF LoadMonitorError, Fail
      <4>3. UNCHANGED <<now, apiVars, jobVars, schedule, schedVars, queue, runs, rows, crashes>>
        BY <3>4 DEF LoadMonitorError
      <4> QED BY <4>1, <4>2, <4>3
    <3>5. CASE PersistHealthCheck(w)
      <4>1. rows' \in [Jobs -> Nat]
        <5>1. CASE held[w] \in Jobs
          BY <3>5, <5>1 DEF PersistHealthCheck
        <5>2. CASE held[w] \notin Jobs
          BY <3>5, <5>2 DEF PersistHealthCheck
        <5> QED BY <5>1, <5>2
      <4>2. wpc' \in [Workers -> {"idle", "load", "persist"}]
            /\ held' \in [Workers -> Jobs \union {Null}]
        BY <3>5 DEF PersistHealthCheck, Release
      <4>3. UNCHANGED <<now, apiVars, jobVars, schedule, schedVars, queue, runs, errors, crashes>>
        BY <3>5 DEF PersistHealthCheck
      <4> QED BY <4>1, <4>2, <4>3
    <3>6. CASE PersistHealthCheckError(w)
      <4>1. /\ wpc' \in [Workers -> {"idle", "load", "persist"}]
            /\ held' \in [Workers -> Jobs \union {Null}]
        BY <3>6 DEF PersistHealthCheckError, Release
      <4>2. errors' \in 0..MaxErrors
        BY <3>6 DEF PersistHealthCheckError, Fail
      <4>3. UNCHANGED <<now, apiVars, jobVars, schedule, schedVars, queue, runs, rows, crashes>>
        BY <3>6 DEF PersistHealthCheckError
      <4> QED BY <4>1, <4>2, <4>3
    <3> QED BY <2>5, <3>1, <3>2, <3>3, <3>4, <3>5, <3>6 DEF Worker
  <2>6. CASE Evict
    <3>1. queue' = queue \/ queue' = <<>>
      BY <2>6 DEF Evict
    <3>2. queue' \in Seq(Jobs)
      BY <3>1, EmptySeq
    <3>3. schedule' \in SUBSET Jobs
      BY <2>6 DEF Evict
    <3>4. errors' \in 0..MaxErrors
      BY <2>6 DEF Evict, Fail
    <3>5. UNCHANGED <<now, apiVars, jobVars, schedVars, workerVars, runs, rows,
                      crashes>>
      BY <2>6 DEF Evict
    <3> QED BY <3>2, <3>3, <3>4, <3>5
  <2>7. CASE Tick
    BY <2>7, PipelineAssumption DEF Tick
  <2>8. CASE UNCHANGED vars
    BY <2>8 DEF vars
  <2> QED BY <2>1, <2>2, <2>3, <2>4, <2>5, <2>6, <2>7, <2>8 DEF Next
<1> QED BY <1>1, <1>2, PTL DEF Spec

-----------------------------------------------------------------------------
(* The list as a sequence: what its elements are after a push or a pop.    *)

Elems(q) == { q[i] : i \in DOMAIN q }

LEMMA TailElems ==
  ASSUME NEW q \in Seq(Jobs), q # <<>>
  PROVE  /\ Head(q) \in Elems(q)
         /\ Elems(q) = Elems(Tail(q)) \union {Head(q)}
         /\ Elems(Tail(q)) \subseteq Elems(q)
<1>1. /\ Len(q) \in Nat \ {0} /\ DOMAIN q = 1..Len(q)
      /\ Tail(q) \in Seq(Jobs) /\ Len(Tail(q)) = Len(q) - 1
      /\ DOMAIN Tail(q) = 1..(Len(q) - 1)
      /\ Head(q) = q[1]
      /\ \A i \in 1..(Len(q) - 1) : Tail(q)[i] = q[i + 1]
  OBVIOUS
<1>2. Head(q) \in Elems(q)
  BY <1>1 DEF Elems
<1>3. Elems(Tail(q)) \subseteq Elems(q)
  BY <1>1 DEF Elems
<1>4. Elems(q) \subseteq Elems(Tail(q)) \union {Head(q)}
  <2> SUFFICES ASSUME NEW i \in DOMAIN q, i # 1 PROVE q[i] \in Elems(Tail(q))
    BY <1>1 DEF Elems
  <2>1. i - 1 \in DOMAIN Tail(q) /\ Tail(q)[i - 1] = q[i]
    BY <1>1
  <2> QED BY <2>1 DEF Elems
<1> QED BY <1>2, <1>3, <1>4

LEMMA AppendElems ==
  ASSUME NEW q \in Seq(Jobs), NEW j \in Jobs
  PROVE  Elems(Append(q, j)) = Elems(q) \union {j}
<1>1. /\ Len(q) \in Nat /\ DOMAIN q = 1..Len(q)
      /\ DOMAIN Append(q, j) = 1..(Len(q) + 1)
      /\ \A i \in 1..Len(q) : Append(q, j)[i] = q[i]
      /\ Append(q, j)[Len(q) + 1] = j
  OBVIOUS
<1> QED BY <1>1 DEF Elems

-----------------------------------------------------------------------------
(* What holds for any number of instances, with repeated commands or not.  *)

(* Only jobs that were scheduled turn up anywhere, and the batch of an idle *)
(* scheduler is empty.                                                     *)
Known ==
  /\ \A j \in Jobs : Waiting(j) \/ runs[j] > 0 \/ rows[j] > 0 => Created(j)
  /\ \A w \in Workers : held[w] # Null => Created(held[w])
  /\ \A p \in Instances : phase[p] = "idle" => batch[p] = {}

(* A job that has been fetched and not yet popped.                         *)
Moving(j) == j \in QueuedJobs \/ \E p \in Instances : j \in batch[p]

(* A job the step schedules: it had not existed.                           *)
Fresh(j) ==
  /\ ~Created(j) /\ Created(j)'
  /\ UNCHANGED <<now, repeats, schedVars, queue, workerVars, runs, rows>>
  /\ schedule' = schedule \union {j}
  /\ at'[j] \in Nat /\ at'[j] >= now + TicksPerSecond
  /\ \A k \in Jobs : k # j => mon'[k] = mon[k] /\ at'[k] = at[k]

LEMMA ScheduleFresh ==
  ASSUME TypeOK, NEW p \in Instances, NEW m \in Monitors, NEW j \in Jobs,
         NEW d \in Delays, ScheduleMonitor(p, m, j, d)
  PROVE  Fresh(j)
<1>1. /\ mon' = [mon EXCEPT ![j] = m] /\ at' = [at EXCEPT ![j] = now + d]
      /\ ~Created(j) /\ schedule' = schedule \union {j}
      /\ UNCHANGED <<now, repeats, schedVars, queue, workerVars, runs, rows>>
  BY DEF ScheduleMonitor, schedVars, workerVars
<1>2. m # Null
  BY PipelineAssumption
<1>3. mon'[j] = m /\ at'[j] = now + d /\ now \in Nat
  BY <1>1, BoundsNat DEF TypeOK
<1>4. \A k \in Jobs : k # j => mon'[k] = mon[k] /\ at'[k] = at[k]
  BY <1>1 DEF TypeOK
<1>5. d \in Nat /\ d >= TicksPerSecond /\ TicksPerSecond \in Nat
  BY DelayNat, PipelineAssumption
<1>6. at'[j] \in Nat /\ at'[j] >= now + TicksPerSecond
  BY <1>3, <1>5
<1>7. ~Created(j) /\ Created(j)'
  BY <1>1, <1>2, <1>3 DEF Created
<1> QED BY <1>1, <1>4, <1>6, <1>7 DEF Fresh

(* Where a step can take a job that it does not schedule: no further into  *)
(* the sorted set, out of it once it is due, and to a worker from the list. *)
Moves ==
  /\ UNCHANGED <<mon, at>>
  /\ now' \in Nat /\ now' >= now
  /\ schedule' \subseteq schedule
  /\ \A j \in Jobs : Moving(j)' => Moving(j) \/ (j \in schedule /\ IsDue(j))
  /\ \A j \in Jobs : runs'[j] # runs[j] => j \in QueuedJobs

LEMMA Movement ==
  ASSUME TypeOK, [Next]_vars
  PROVE  Moves \/ \E j \in Jobs : Fresh(j)
<1> USE DEF apiVars, jobVars, schedVars, workerVars
<1>0. now \in Nat
  BY BoundsNat DEF TypeOK
<1>1. ASSUME UNCHANGED <<mon, at, runs, now>>, schedule' \subseteq schedule,
             QueuedJobs' \subseteq QueuedJobs,
             \A p \in Instances : batch'[p] \subseteq batch[p]
      PROVE Moves
  BY <1>0, <1>1 DEF Moves, Moving
<1>2. ASSUME NEW p \in Instances, Api(p) PROVE Moves
  <2>1. UNCHANGED <<mon, at, runs, now, schedule, batch, queue>>
    BY <1>2 DEF Api, CreateMonitor, UpdateMonitor, DeleteMonitor
  <2> QED BY <1>1, <2>1 DEF QueuedJobs
<1>3. ASSUME NEW p \in Instances, Submit(p) PROVE Moves \/ \E j \in Jobs : Fresh(j)
  <2>1. ASSUME NEW m \in Monitors, ScheduleMonitorError(p, m) PROVE Moves
    <3>1. UNCHANGED <<mon, at, runs, now, schedule, batch, queue>>
      BY <2>1 DEF ScheduleMonitorError
    <3> QED BY <1>1, <3>1 DEF QueuedJobs
  <2> QED BY <1>3, <2>1, ScheduleFresh DEF Submit
<1>4. ASSUME NEW p \in Instances, Scheduler(p) PROVE Moves
  <2>1. CASE GetDueJobs(p)
    <3>1. /\ UNCHANGED <<mon, at, runs, now, schedule, queue>>
          /\ batch' = [batch EXCEPT ![p] = { j \in schedule : IsDue(j) }]
      BY <2>1 DEF GetDueJobs
    <3>2. \A q \in Instances, j \in Jobs :
             j \in batch'[q] => j \in batch[q] \/ (j \in schedule /\ IsDue(j))
      BY <3>1 DEF TypeOK
    <3>3. QueuedJobs' = QueuedJobs
      BY <3>1 DEF QueuedJobs
    <3>4. \A j \in Jobs : Moving(j)' => Moving(j) \/ (j \in schedule /\ IsDue(j))
      BY <3>2, <3>3 DEF Moving
    <3> QED BY <1>0, <3>1, <3>4 DEF Moves
  <2>2. CASE RemoveDueJobs(p) \/ RemoveDueJobsError(p)
    <3>1. /\ UNCHANGED <<mon, at, runs, now, queue>> /\ schedule' \subseteq schedule
          /\ \A q \in Instances : batch'[q] \subseteq batch[q]
      BY <2>2 DEF RemoveDueJobs, RemoveDueJobsError, TypeOK
    <3> QED BY <1>1, <3>1 DEF QueuedJobs
  <2>3. ASSUME NEW j \in Jobs, UNCHANGED <<mon, at, runs, now, schedule>>, Advance(p, j),
               Elems(queue') = Elems(queue) \union {j}
        PROVE  Moves
    <3>1. j \in batch[p] /\ \A q \in Instances : batch'[q] \subseteq batch[q]
      BY <2>3 DEF Advance, NextOfBatch, TypeOK
    <3>2. QueuedJobs' = QueuedJobs \union {j}
      BY <2>3 DEF QueuedJobs, Elems
    <3>3. \A k \in Jobs : Moving(k)' => Moving(k)
      BY <3>1, <3>2 DEF Moving
    <3> QED BY <1>0, <2>3, <3>3 DEF Moves
  <2>4. ASSUME NEW j \in Jobs, Enqueue(p, j) PROVE Moves
    <3>1. /\ UNCHANGED <<mon, at, runs, now, schedule>> /\ queue' = Append(queue, j)
          /\ Advance(p, j)
      BY <2>4 DEF Enqueue
    <3>2. Elems(queue') = Elems(queue) \union {j}
      BY <3>1, AppendElems DEF TypeOK
    <3> QED BY <2>3, <3>1, <3>2
  <2>5. ASSUME NEW j \in Jobs, EnqueueUnanswered(p, j) PROVE Moves
    <3>1. /\ UNCHANGED <<mon, at, runs, now, schedule, batch>>
          /\ queue' = Append(queue, j) /\ j \in batch[p]
      BY <2>5 DEF EnqueueUnanswered, NextOfBatch
    <3>2. Elems(queue') = Elems(queue) \union {j}
      BY <3>1, AppendElems DEF TypeOK
    <3>3. \A k \in Jobs : Moving(k)' => Moving(k)
      BY <3>1, <3>2 DEF Moving, QueuedJobs, Elems
    <3> QED BY <1>0, <3>1, <3>3 DEF Moves
  <2>6. ASSUME NEW j \in Jobs, EnqueueError(p, j) PROVE Moves
    <3>1. /\ UNCHANGED <<mon, at, runs, now, schedule, queue>>
          /\ \A q \in Instances : batch'[q] \subseteq batch[q]
      BY <2>6 DEF EnqueueError, Advance, TypeOK
    <3> QED BY <1>1, <3>1 DEF QueuedJobs
  <2> QED BY <1>4, <2>1, <2>2, <2>4, <2>5, <2>6 DEF Scheduler, EnqueueBatch
<1>5. ASSUME NEW p \in Instances, Crash(p) PROVE Moves
  <2>1. /\ UNCHANGED <<mon, at, runs, now, schedule, queue>>
        /\ \A q \in Instances : batch'[q] \subseteq batch[q]
    BY <1>5 DEF Crash, TypeOK
  <2> QED BY <1>1, <2>1 DEF QueuedJobs
<1>6. ASSUME NEW w \in Workers, Worker(w) PROVE Moves
  <2>1. CASE Dequeue(w)
    <3>1. /\ queue \in Seq(Jobs) /\ queue # <<>>
          /\ UNCHANGED <<now, mon, at, schedule, batch>>
          /\ queue' = Tail(queue) /\ runs' = [runs EXCEPT ![Head(queue)] = @ + 1]
      BY <2>1 DEF Dequeue, TypeOK
    <3>2. Head(queue) \in QueuedJobs /\ QueuedJobs' \subseteq QueuedJobs
      BY <3>1, TailElems DEF QueuedJobs, Elems
    <3>3. \A j \in Jobs : runs'[j] # runs[j] => j = Head(queue)
      BY <3>1 DEF TypeOK
    <3>4. \A j \in Jobs : Moving(j)' => Moving(j)
      BY <3>1, <3>2 DEF Moving
    <3> QED BY <1>0, <3>1, <3>2, <3>3, <3>4 DEF Moves
  <2>2. CASE DequeueError(w)
    <3>1. /\ queue \in Seq(Jobs) /\ queue # <<>>
          /\ UNCHANGED <<mon, at, runs, now, schedule, batch>> /\ queue' = Tail(queue)
      BY <2>2 DEF DequeueError, TypeOK
    <3>2. QueuedJobs' \subseteq QueuedJobs
      BY <3>1, TailElems DEF QueuedJobs, Elems
    <3>3. schedule' \subseteq schedule /\ \A p \in Instances : batch'[p] \subseteq batch[p]
      BY <3>1
    <3> QED BY <1>1, <3>1, <3>2, <3>3
  <2>3. CASE \/ LoadMonitor(w) \/ LoadMonitorError(w)
             \/ PersistHealthCheck(w) \/ PersistHealthCheckError(w)
    <3>1. UNCHANGED <<mon, at, runs, now, schedule, batch, queue>>
      BY <2>3 DEF LoadMonitor, LoadMonitorError, PersistHealthCheck,
                  PersistHealthCheckError
    <3> QED BY <1>1, <3>1 DEF QueuedJobs
  <2> QED BY <1>6, <2>1, <2>2, <2>3 DEF Worker
<1>7. CASE Evict
  <2>1. /\ UNCHANGED <<mon, at, runs, now, batch>>
        /\ schedule' \in {schedule, {}} /\ queue' \in {queue, <<>>}
    BY <1>7 DEF Evict
  <2>2. QueuedJobs' \subseteq QueuedJobs
    BY <2>1 DEF QueuedJobs
  <2> QED BY <1>1, <2>1, <2>2
<1>8. CASE Tick
  <2>1. UNCHANGED <<mon, at, runs, schedule, batch, queue>> /\ now' = now + 1
    BY <1>8 DEF Tick
  <2>2. \A j \in Jobs : Moving(j)' => Moving(j)
    BY <2>1 DEF Moving, QueuedJobs
  <2> QED BY <1>0, <2>1, <2>2 DEF Moves
<1>9. CASE UNCHANGED vars
  <2>1. UNCHANGED <<mon, at, runs, now, schedule, batch, queue>>
    BY <1>9 DEF vars
  <2> QED BY <1>1, <2>1 DEF QueuedJobs
<1> QED BY <1>2, <1>3, <1>4, <1>5, <1>6, <1>7, <1>8, <1>9 DEF Next

(* How a step touches what the workers hold and what they leave behind: a  *)
(* worker takes the job it pops, and a row appears only for the job of a   *)
(* worker whose monitor exists; the rows go when their monitor goes.       *)
Results ==
  /\ \A w \in Workers : held'[w] \in {held[w], Null} \union QueuedJobs
  /\ \A j \in Jobs : rows'[j] > 0 => 
       \/ rows[j] > 0
       \/ Exists(mon[j])' /\ \E w \in Workers : held[w] = j
  /\ \A m \in Monitors : Exists(m) =>
       Exists(m)' \/ \A j \in Jobs : mon[j] = m => rows'[j] = 0
  /\ \A p \in Instances : phase'[p] = "idle" =>
       batch'[p] = {} \/ UNCHANGED <<phase[p], batch[p]>>

LEMMA ResultsOfSteps ==
  ASSUME TypeOK, [Next]_vars
  PROVE  Results
<1> USE DEF apiVars, jobVars, schedVars, workerVars
<1>1. ASSUME UNCHANGED <<monitor, mon, held, rows, phase, batch>> PROVE Results
  BY <1>1 DEF Results, Exists
<1>2. ASSUME NEW p \in Instances, Api(p) PROVE Results
  <2>1. CASE \E m \in Monitors : DeleteMonitor(m)
    <3>1. PICK m \in Monitors : DeleteMonitor(m)
      BY <2>1
    <3>2. /\ UNCHANGED <<mon, held, phase, batch>>
          /\ monitor' = [monitor EXCEPT ![m] = "deleted"]
          /\ rows' = [j \in Jobs |-> IF mon[j] = m THEN 0 ELSE rows[j]]
      BY <3>1 DEF DeleteMonitor
    <3> QED BY <3>2 DEF Results, Exists, TypeOK
  <2>2. ASSUME NEW m \in Monitors, NEW enabled \in BOOLEAN, NEW reconfigured \in BOOLEAN,
               CreateMonitor(p, m, enabled) \/ UpdateMonitor(p, m, enabled, reconfigured)
        PROVE  Results
    <3>1. /\ UNCHANGED <<mon, held, rows, phase, batch>>
          /\ \A n \in Monitors : Exists(n) => Exists(n)'
      BY <2>2 DEF CreateMonitor, UpdateMonitor, Exists, TypeOK
    <3> QED BY <3>1 DEF Results
  <2> QED BY <1>2, <2>1, <2>2 DEF Api
<1>3. ASSUME NEW p \in Instances, Submit(p) PROVE Results
  <2>1. UNCHANGED <<monitor, held, rows, phase, batch>>
    BY <1>3 DEF Submit, ScheduleMonitor, ScheduleMonitorError
  <2> QED BY <2>1 DEF Results, Exists
<1>4. ASSUME NEW p \in Instances, Scheduler(p) PROVE Results
  <2>1. UNCHANGED <<monitor, mon, held, rows>>
    BY <1>4 DEF Scheduler, EnqueueBatch, GetDueJobs, RemoveDueJobs,
                RemoveDueJobsError, Enqueue, EnqueueUnanswered, EnqueueError
  <2>2. ASSUME NEW q \in Instances, phase'[q] = "idle"
        PROVE  batch'[q] = {} \/ UNCHANGED <<phase[q], batch[q]>>
    <3>1. CASE \E j \in Jobs : Advance(p, j)
      BY <2>2, <3>1 DEF Advance, TypeOK
    <3>2. CASE GetDueJobs(p) \/ RemoveDueJobs(p) \/ RemoveDueJobsError(p)
      BY <2>2, <3>2 DEF GetDueJobs, RemoveDueJobs, RemoveDueJobsError, TypeOK
    <3>3. CASE \E j \in Jobs : EnqueueUnanswered(p, j)
      BY <3>3 DEF EnqueueUnanswered
    <3> QED BY <1>4, <3>1, <3>2, <3>3 DEF Scheduler, EnqueueBatch, Enqueue,
                                         EnqueueError
  <2> QED BY <2>1, <2>2 DEF Results, Exists
<1>5. ASSUME NEW p \in Instances, Crash(p) PROVE Results
  BY <1>5 DEF Crash, Results, Exists, TypeOK
<1>6. ASSUME NEW w \in Workers, Worker(w) PROVE Results
  <2>1. CASE Dequeue(w)
    <3>1. /\ queue \in Seq(Jobs) /\ queue # <<>>
          /\ UNCHANGED <<monitor, mon, rows, phase, batch>>
          /\ held' = [held EXCEPT ![w] = Head(queue)]
      BY <2>1 DEF Dequeue, TypeOK
    <3>2. Head(queue) \in QueuedJobs
      BY <3>1, TailElems DEF QueuedJobs, Elems
    <3> QED BY <3>1, <3>2 DEF Results, Exists, TypeOK
  <2>2. CASE DequeueError(w) \/ LoadMonitor(w)
    BY <1>1, <2>2 DEF DequeueError, LoadMonitor
  <2>3. CASE LoadMonitorError(w) \/ PersistHealthCheckError(w)
    <3>1. /\ UNCHANGED <<monitor, mon, rows, phase, batch>>
          /\ held' = [held EXCEPT ![w] = Null]
      BY <2>3 DEF LoadMonitorError, PersistHealthCheckError, Release
    <3> QED BY <3>1 DEF Results, Exists, TypeOK
  <2>4. CASE PersistHealthCheck(w)
    <3>1. /\ UNCHANGED <<monitor, mon, phase, batch>> /\ Exists(mon[held[w]])
          /\ held' = [held EXCEPT ![w] = Null]
          /\ rows' = [rows EXCEPT ![held[w]] = @ + 1]
      BY <2>4 DEF PersistHealthCheck, Release
    <3>2. ASSUME NEW j \in Jobs, rows'[j] > 0, ~(rows[j] > 0)
          PROVE  Exists(mon[j])' /\ \E v \in Workers : held[v] = j
      <4>1. held[w] = j
        BY <3>1, <3>2 DEF TypeOK
      <4> QED BY <3>1, <4>1 DEF Exists
    <3>3. \A m \in Monitors : Exists(m)' = Exists(m)
      BY <3>1 DEF Exists
    <3>4. \A v \in Workers : held'[v] \in {held[v], Null}
      BY <3>1 DEF TypeOK
    <3>5. \A q \in Instances : UNCHANGED <<phase[q], batch[q]>>
      BY <3>1
    <3> QED BY <3>2, <3>3, <3>4, <3>5 DEF Results
  <2> QED BY <1>6, <2>1, <2>2, <2>3, <2>4 DEF Worker
<1>7. CASE Evict \/ Tick \/ UNCHANGED vars
  BY <1>1, <1>7 DEF Evict, Tick, vars
<1> QED BY <1>2, <1>3, <1>4, <1>5, <1>6, <1>7 DEF Next

(* A score that is due belongs to a time less than a second ahead; scores  *)
(* keep the order of times.                                                *)
LEMMA DivDef ==
  ASSUME NEW a \in Nat, NEW T \in Nat \ {0}
  PROVE  a \div T \in Nat /\ a = T * (a \div T) + (a % T) /\ a % T \in 0..(T - 1)
OBVIOUS

LEMMA DivOrder ==
  ASSUME NEW a \in Nat, NEW b \in Nat, NEW T \in Nat \ {0}
  PROVE  /\ a \div T <= b \div T => a < b + T
         /\ a <= b => a \div T <= b \div T
<1>1. a \div T \in Nat /\ a = T * (a \div T) + (a % T) /\ a % T \in 0..(T - 1)
  BY DivDef
<1>2. b \div T \in Nat /\ b = T * (b \div T) + (b % T) /\ b % T \in 0..(T - 1)
  BY DivDef
<1>3. ASSUME a \div T <= b \div T PROVE a < b + T
  <2>1. T * (a \div T) <= T * (b \div T)
    BY <1>1, <1>2, <1>3
  <2> QED BY <1>1, <1>2, <2>1
<1>4. a <= b => a \div T <= b \div T
  OBVIOUS
<1> QED BY <1>3, <1>4

LEMMA KnownStep ==
  ASSUME TypeOK, Known, [Next]_vars
  PROVE  Known'
<1>1. Results
  BY ResultsOfSteps
<1>2. CASE Moves
  <2>1. \A j \in Jobs : Waiting(j)' => Waiting(j)
    BY <1>2 DEF Moves, Moving, Waiting, Upstream
  <2>2. \A j \in Jobs : Created(j)' = Created(j)
    BY <1>2 DEF Moves, jobVars, Created
  <2>3. ASSUME NEW j \in Jobs, Waiting(j)' \/ runs'[j] > 0 \/ rows'[j] > 0
        PROVE  Created(j)
    <3>1. CASE Waiting(j)'
      BY <2>1, <3>1 DEF Known
    <3>2. CASE runs'[j] > 0
      <4>1. runs[j] > 0 \/ Waiting(j)
        BY <1>2, <3>2 DEF Moves, Waiting, Upstream
      <4> QED BY <4>1 DEF Known
    <3>3. CASE rows'[j] > 0
      <4>1. rows[j] > 0 \/ \E w \in Workers : held[w] = j
        BY <1>1, <3>3 DEF Results
      <4>2. j # Null
        BY PipelineAssumption
      <4> QED BY <4>1, <4>2 DEF Known
    <3> QED BY <2>3, <3>1, <3>2, <3>3
  <2>4. ASSUME NEW w \in Workers, held'[w] # Null PROVE Created(held[w])'
    <3>1. CASE held'[w] = held[w]
      BY <1>2, <2>4, <3>1 DEF Known, Moves, jobVars, Created
    <3>2. CASE held'[w] \in QueuedJobs
      <4>1. held'[w] \in Jobs
        BY <3>2 DEF QueuedJobs, TypeOK
      <4>2. Waiting(held'[w])
        BY <3>2 DEF Waiting, Upstream
      <4> QED BY <1>2, <4>1, <4>2 DEF Known, Moves, jobVars, Created
    <3> QED BY <1>1, <2>4, <3>1, <3>2 DEF Results
  <2>5. ASSUME NEW p \in Instances, phase'[p] = "idle" PROVE batch'[p] = {}
    BY <1>1, <2>5 DEF Results, Known, Exists
  <2> QED BY <2>2, <2>3, <2>4, <2>5 DEF Known
<1>3. ASSUME NEW j \in Jobs, Fresh(j) PROVE Known'
  <2>1. /\ UNCHANGED <<phase, batch, queue, held, runs, rows>>
        /\ schedule' = schedule \union {j}
        /\ ~Created(j) /\ Created(j)'
        /\ \A k \in Jobs : k # j => mon'[k] = mon[k]
    BY <1>3 DEF Fresh, schedVars, workerVars
  <2>2. \A k \in Jobs : Created(k) => Created(k)'
    BY <2>1 DEF Created
  <2>3. \A k \in Jobs : Waiting(k)' => Waiting(k) \/ k = j
    BY <2>1 DEF Waiting, Upstream, QueuedJobs
  <2>4. \A w \in Workers : held[w] # Null => held[w] \in Jobs
    BY DEF TypeOK
  <2>5. \A k \in Jobs : Waiting(k)' \/ runs'[k] > 0 \/ rows'[k] > 0 => Created(k)'
    BY <2>1, <2>2, <2>3 DEF Known
  <2>6. \A w \in Workers : held'[w] # Null => Created(held[w])'
    <3> SUFFICES ASSUME NEW w \in Workers, held'[w] # Null PROVE Created(held[w])'
      OBVIOUS
    <3>1. held'[w] = held[w] /\ held[w] \in Jobs /\ Created(held[w])
      BY <2>1, <2>4 DEF Known
    <3> QED BY <2>1, <3>1 DEF Created
  <2>7. \A p \in Instances : phase'[p] = "idle" => batch'[p] = {}
    BY <2>1 DEF Known
  <2> QED BY <2>5, <2>6, <2>7 DEF Known
<1> QED BY <1>2, <1>3, Movement

(* Sets, lists, workers and results hold only jobs that were scheduled, in *)
(* any number of instances.                                                *)
THEOREM JobsAreKnown == Spec => []Known
<1>1. Init => Known
  BY DEF Init, Known, Waiting, Upstream, QueuedJobs
<1>2. TypeOK /\ Known /\ [Next]_vars => Known'
  BY KnownStep
<1> QED BY <1>1, <1>2, TypeCorrect, PTL DEF Spec

(* No job is fetched, queued or run a second or more before its time, for  *)
(* any number of instances and any clock resolution: NeverEarly follows    *)
(* from the rounding of GetDueJobs alone.                                  *)
THEOREM JobsAreNeverEarly == Spec => []NeverEarly
<1>1. Init => NeverEarly
  BY DEF Init, NeverEarly, QueuedJobs
<1>2. TypeOK /\ Known /\ NeverEarly /\ [Next]_vars => NeverEarly'
  <2> SUFFICES ASSUME TypeOK, Known, NeverEarly, [Next]_vars, NEW j \in Jobs,
                      (runs[j] > 0 \/ Moving(j))'
               PROVE  (at[j] < now + TicksPerSecond)'
    BY DEF NeverEarly, Moving
  <2>0. now \in Nat /\ at[j] \in Nat /\ TicksPerSecond \in Nat \ {0}
    BY BoundsNat, PipelineAssumption DEF TypeOK
  <2>1. CASE Moves
    <3>1. runs[j] > 0 \/ Moving(j) \/ (j \in schedule /\ IsDue(j))
      BY <2>1 DEF Moves, Moving
    <3>2. IsDue(j) => at[j] < now + TicksPerSecond
      BY <2>0, DivOrder DEF IsDue, Score
    <3>3. at[j] < now + TicksPerSecond
      BY <3>1, <3>2 DEF NeverEarly, Moving
    <3>4. at'[j] = at[j] /\ now' \in Nat /\ now' >= now
      BY <2>1 DEF Moves, jobVars
    <3> QED BY <2>0, <3>3, <3>4
  <2>2. ASSUME NEW k \in Jobs, Fresh(k) PROVE (at[j] < now + TicksPerSecond)'
    <3>1. UNCHANGED <<now, queue, batch, runs>> /\ ~Created(k)
      BY <2>2 DEF Fresh, schedVars
    <3>2. runs[j] > 0 \/ Moving(j)
      BY <3>1 DEF Moving, QueuedJobs
    <3>3. Created(j)
      BY <3>2 DEF Known, Moving, Waiting, Upstream
    <3>4. at'[j] = at[j]
      BY <2>2, <3>1, <3>3 DEF Fresh
    <3> QED BY <3>1, <3>2, <3>4 DEF NeverEarly, Moving
  <2> QED BY <2>1, <2>2, Movement
<1> QED BY <1>1, <1>2, TypeCorrect, JobsAreKnown, PTL DEF Spec

(* A deleted monitor keeps no check, whatever its workers were doing when  *)
(* it was deleted: NoOrphanRows holds for any number of instances,         *)
(* failures and crashes.                                                   *)
THEOREM DeletedMonitorsKeepNoRows == Spec => []NoOrphanRows
<1>1. Init => NoOrphanRows
  BY DEF Init, NoOrphanRows
<1>2. TypeOK /\ Known /\ NoOrphanRows /\ [Next]_vars => NoOrphanRows'
  <2> SUFFICES ASSUME TypeOK, Known, NoOrphanRows, [Next]_vars, NEW j \in Jobs,
                      rows'[j] > 0
               PROVE  Exists(mon[j])'
    BY DEF NoOrphanRows
  <2>1. Results
    BY ResultsOfSteps
  <2>2. CASE rows[j] > 0
    <3>1. Created(j) /\ Exists(mon[j])
      BY <2>2 DEF Known, NoOrphanRows
    <3>2. mon[j] \in Monitors
      BY <3>1 DEF Created, TypeOK
    <3>3. mon'[j] = mon[j]
      <4>1. CASE Moves
        BY <4>1 DEF Moves, jobVars
      <4>2. ASSUME NEW k \in Jobs, Fresh(k) PROVE mon'[j] = mon[j]
        BY <3>1, <4>2 DEF Fresh
      <4> QED BY <4>1, <4>2, Movement
    <3>4. Exists(mon[j]) /\ mon[j] \in Monitors => 
            monitor'[mon[j]] \in {"enabled", "disabled"} \/ rows'[j] = 0
      BY <2>1 DEF Results, Exists
    <3> QED BY <3>1, <3>2, <3>3, <3>4 DEF Exists
  <2>3. CASE ~(rows[j] > 0)
    BY <2>1, <2>3 DEF Results
  <2> QED BY <2>2, <2>3
<1> QED BY <1>1, <1>2, TypeCorrect, JobsAreKnown, PTL DEF Spec

(* The counters of failures and crashes never fall.                        *)
LEMMA FaultsCounted ==
  ASSUME TypeOK, [Next]_vars, errors' = 0, crashes' = 0
  PROVE  errors = 0 /\ crashes = 0
<1> USE DEF apiVars, jobVars, schedVars, workerVars
<1>0. errors \in Nat /\ crashes \in Nat
  BY BoundsNat DEF TypeOK
<1>1. ASSUME NEW p \in Instances, Api(p) \/ Submit(p) PROVE errors = 0 /\ crashes = 0
  <2>1. CASE Api(p)
    BY <2>1 DEF Api, CreateMonitor, UpdateMonitor, DeleteMonitor
  <2>2. CASE Submit(p)
    BY <1>0, <2>2 DEF Submit, ScheduleMonitor, ScheduleMonitorError, Fail
  <2> QED BY <1>1, <2>1, <2>2
<1>2. ASSUME NEW p \in Instances, Scheduler(p) \/ Crash(p) PROVE errors = 0 /\ crashes = 0
  <2>1. CASE GetDueJobs(p) \/ RemoveDueJobs(p) \/ RemoveDueJobsError(p)
    BY <1>0, <2>1 DEF GetDueJobs, RemoveDueJobs, RemoveDueJobsError, Fail
  <2>2. CASE EnqueueBatch(p)
    <3>1. crashes' = crashes /\ (Fail \/ errors' = errors)
      BY <2>2 DEF EnqueueBatch, Enqueue, EnqueueUnanswered, EnqueueError
    <3> QED BY <1>0, <3>1 DEF Fail
  <2>3. CASE Crash(p)
    BY <1>0, <2>3 DEF Crash
  <2> QED BY <1>2, <2>1, <2>2, <2>3 DEF Scheduler
<1>3. ASSUME NEW w \in Workers, Worker(w) PROVE errors = 0 /\ crashes = 0
  BY <1>0, <1>3 DEF Worker, Dequeue, DequeueError, LoadMonitor, LoadMonitorError,
                    PersistHealthCheck, PersistHealthCheckError, Fail
<1>4. CASE Evict \/ Tick \/ UNCHANGED vars
  BY <1>0, <1>4 DEF Evict, Fail, Tick, vars
<1> QED BY <1>1, <1>2, <1>3, <1>4 DEF Next

(* A step that loses jobs is a failure or a crash, and is counted as one.  *)
LEMMA LossIsCounted ==
  ASSUME TypeOK, Known, [Next]_vars, errors' = 0, crashes' = 0,
         NEW j \in Jobs, Waiting(j)
  PROVE  errors = 0 /\ crashes = 0 /\ (Waiting(j)' \/ runs'[j] > 0)
<1> USE DEF apiVars, jobVars, schedVars, workerVars
<1>0. errors \in Nat /\ crashes \in Nat /\ runs[j] \in Nat
  BY BoundsNat DEF TypeOK
<1>1. ASSUME Fail PROVE FALSE
  BY <1>0, <1>1 DEF Fail
<1>2. ASSUME UNCHANGED <<errors, crashes, schedule, batch, queue>>
      PROVE  errors = 0 /\ crashes = 0 /\ (Waiting(j)' \/ runs'[j] > 0)
  BY <1>2 DEF Waiting, Upstream, QueuedJobs
<1>3. ASSUME NEW p \in Instances, Api(p) \/ Submit(p)
      PROVE  errors = 0 /\ crashes = 0 /\ (Waiting(j)' \/ runs'[j] > 0)
  <2>1. /\ UNCHANGED <<errors, crashes, batch, queue>> /\ schedule \subseteq schedule'
    BY <1>1, <1>3 DEF Api, CreateMonitor, UpdateMonitor, DeleteMonitor, Submit,
                      ScheduleMonitor, ScheduleMonitorError
  <2> QED BY <2>1 DEF Waiting, Upstream, QueuedJobs
<1>4. ASSUME NEW p \in Instances, Scheduler(p)
      PROVE  errors = 0 /\ crashes = 0 /\ (Waiting(j)' \/ runs'[j] > 0)
  <2>1. CASE GetDueJobs(p)
    <3>1. /\ UNCHANGED <<errors, crashes, schedule, queue>> /\ batch[p] = {}
          /\ \A q \in Instances : batch[q] \subseteq batch'[q]
      BY <2>1 DEF GetDueJobs, Known, TypeOK
    <3> QED BY <3>1 DEF Waiting, Upstream, QueuedJobs
  <2>2. CASE RemoveDueJobs(p)
    <3>1. /\ UNCHANGED <<errors, crashes, batch, queue>>
          /\ schedule' = schedule \ batch[p]
      BY <2>2 DEF RemoveDueJobs
    <3> QED BY <3>1 DEF Waiting, Upstream, QueuedJobs
  <2>3. CASE RemoveDueJobsError(p)
    BY <1>1, <2>3 DEF RemoveDueJobsError
  <2>4. ASSUME NEW k \in Jobs, Enqueue(p, k)
        PROVE  errors = 0 /\ crashes = 0 /\ (Waiting(j)' \/ runs'[j] > 0)
    <3>1. /\ UNCHANGED <<errors, crashes, schedule>> /\ queue' = Append(queue, k)
          /\ \A q \in Instances : batch[q] \ {k} \subseteq batch'[q]
      BY <2>4 DEF Enqueue, Advance, TypeOK
    <3>2. QueuedJobs' = QueuedJobs \union {k}
      <4>1. Elems(queue') = Elems(queue) \union {k}
        BY <3>1, AppendElems DEF TypeOK
      <4> QED BY <4>1 DEF QueuedJobs, Elems
    <3> QED BY <3>1, <3>2 DEF Waiting, Upstream
  <2>5. ASSUME NEW k \in Jobs, EnqueueError(p, k) \/ EnqueueUnanswered(p, k)
        PROVE  FALSE
    BY <1>1, <2>5 DEF EnqueueError, EnqueueUnanswered
  <2> QED BY <1>4, <2>1, <2>2, <2>3, <2>4, <2>5 DEF Scheduler, EnqueueBatch
<1>5. ASSUME NEW p \in Instances, Crash(p) PROVE FALSE
  BY <1>0, <1>5 DEF Crash
<1>6. ASSUME NEW w \in Workers, Worker(w)
      PROVE  errors = 0 /\ crashes = 0 /\ (Waiting(j)' \/ runs'[j] > 0)
  <2>1. CASE Dequeue(w)
    <3>1. /\ UNCHANGED <<errors, crashes, schedule, batch>>
          /\ queue \in Seq(Jobs) /\ queue # <<>> /\ queue' = Tail(queue)
          /\ runs' = [runs EXCEPT ![Head(queue)] = @ + 1]
      BY <2>1 DEF Dequeue, TypeOK
    <3>2. QueuedJobs = QueuedJobs' \union {Head(queue)}
      <4>1. Elems(queue) = Elems(Tail(queue)) \union {Head(queue)}
        BY <3>1, TailElems
      <4> QED BY <3>1, <4>1 DEF QueuedJobs, Elems
    <3>3. CASE j = Head(queue)
      BY <1>0, <3>1, <3>3 DEF TypeOK
    <3>4. CASE j # Head(queue)
      BY <3>1, <3>2, <3>4 DEF Waiting, Upstream
    <3> QED BY <3>3, <3>4
  <2>2. CASE \/ LoadMonitor(w) \/ LoadMonitorError(w)
             \/ PersistHealthCheck(w) \/ PersistHealthCheckError(w)
    <3>1. UNCHANGED <<errors, crashes, schedule, batch, queue>>
      BY <1>1, <2>2 DEF LoadMonitor, LoadMonitorError, PersistHealthCheck,
                        PersistHealthCheckError
    <3> QED BY <1>2, <3>1
  <2>3. CASE DequeueError(w)
    BY <1>1, <2>3 DEF DequeueError
  <2> QED BY <1>6, <2>1, <2>2, <2>3 DEF Worker
<1>7. CASE Evict
  BY <1>1, <1>7 DEF Evict
<1>8. CASE Tick \/ UNCHANGED vars
  <2>1. UNCHANGED <<errors, crashes, schedule, batch, queue>>
    BY <1>8 DEF Tick, vars
  <2> QED BY <1>2, <2>1
<1> QED BY <1>3, <1>4, <1>5, <1>6, <1>7, <1>8 DEF Next

(* Without a failed operation and without a crash, every job that was      *)
(* scheduled is waiting or has been run, for any number of instances       *)
(* interleaving their fetches, removals and pops: NoSilentLoss.            *)
THEOREM JobsAreNotLost == Spec => []NoSilentLoss
<1>1. Init => NoSilentLoss
  BY DEF Init, NoSilentLoss, Created
<1>2. TypeOK /\ Known /\ NoSilentLoss /\ [Next]_vars => NoSilentLoss'
  <2> SUFFICES ASSUME TypeOK, Known, NoSilentLoss, [Next]_vars,
                      errors' = 0, crashes' = 0, NEW j \in Jobs, Created(j)'
               PROVE  Waiting(j)' \/ runs'[j] > 0
    BY DEF NoSilentLoss
  <2>1. CASE Waiting(j)
    BY <2>1, LossIsCounted
  <2>2. CASE ~Waiting(j) /\ Moves
    <3>1. Created(j)
      BY <2>2 DEF Moves, jobVars, Created
    <3>2. errors = 0 /\ crashes = 0
      BY FaultsCounted
    <3>3. runs[j] > 0
      BY <2>2, <3>1, <3>2 DEF NoSilentLoss
    <3>4. runs'[j] = runs[j]
      BY <2>2 DEF Moves, Waiting, Upstream
    <3> QED BY <3>3, <3>4
  <2>3. ASSUME ~Waiting(j), NEW k \in Jobs, Fresh(k)
        PROVE  Waiting(j)' \/ runs'[j] > 0
    <3>1. CASE j = k
      BY <2>3, <3>1 DEF Fresh, Waiting, Upstream
    <3>2. CASE j # k
      <4>1. Created(j) /\ runs' = runs
        BY <2>3, <3>2 DEF Fresh, Created
      <4>2. errors = 0 /\ crashes = 0
        BY FaultsCounted
      <4> QED BY <2>3, <4>1, <4>2 DEF NoSilentLoss
    <3> QED BY <3>1, <3>2
  <2> QED BY <2>1, <2>2, <2>3, Movement
<1> QED BY <1>1, <1>2, TypeCorrect, JobsAreKnown, PTL DEF Spec

-----------------------------------------------------------------------------
(* Due order, with one instance: failures, crashes, evictions and repeated *)
(* commands do not disturb it.                                             *)

(* One instance of the application runs, with all its workers.             *)
OneInstance == \A p, q \in Instances : p = q

Before(j, k) == Score(at[j]) <= Score(at[k])
Sorted(q) == \A i, k \in DOMAIN q : i < k => Before(q[i], q[k])

(* What makes QueueInDueOrder inductive: what a scheduler has fetched      *)
(* comes before what it left in the sorted set, and is no longer there     *)
(* when it is appended.                                                    *)
InOrder ==
  /\ Sorted(queue)
  /\ \A p \in Instances :
       /\ \A j \in QueuedJobs, k \in batch[p] \union schedule : Before(j, k)
       /\ \A j \in batch[p], k \in schedule : k \notin batch[p] => Before(j, k)
       /\ phase[p] = "enqueue" => batch[p] \intersect schedule = {}

LEMMA ScoreNat ==
  ASSUME TypeOK
  PROVE  Score(now) \in Nat /\ \A j \in Jobs : at[j] \in Nat /\ Score(at[j]) \in Nat
<1>1. now \in Nat /\ TicksPerSecond \in Nat \ {0} /\ \A j \in Jobs : at[j] \in Nat
  BY BoundsNat, PipelineAssumption DEF TypeOK
<1> QED BY <1>1, DivDef DEF Score

LEMMA TailSorted ==
  ASSUME NEW q \in Seq(Jobs), q # <<>>, Sorted(q)
  PROVE  Sorted(Tail(q))
<1>1. /\ Len(q) \in Nat \ {0} /\ DOMAIN q = 1..Len(q)
      /\ DOMAIN Tail(q) = 1..(Len(q) - 1)
      /\ \A i \in 1..(Len(q) - 1) : Tail(q)[i] = q[i + 1]
  OBVIOUS
<1> QED BY <1>1 DEF Sorted

(* Appending a job that is after all the others.                           *)
LEMMA AppendSorted ==
  ASSUME TypeOK, NEW q \in Seq(Jobs), NEW j \in Jobs, Sorted(q),
         \A k \in Elems(q) : Before(k, j)
  PROVE  Sorted(Append(q, j))
<1>1. /\ Len(q) \in Nat /\ DOMAIN q = 1..Len(q)
      /\ DOMAIN Append(q, j) = 1..(Len(q) + 1)
      /\ \A i \in 1..Len(q) : Append(q, j)[i] = q[i]
      /\ Append(q, j)[Len(q) + 1] = j
  OBVIOUS
<1> SUFFICES ASSUME NEW i \in 1..(Len(q) + 1), NEW k \in 1..(Len(q) + 1), i < k
             PROVE  Before(Append(q, j)[i], Append(q, j)[k])
  BY <1>1 DEF Sorted
<1>2. i \in 1..Len(q) /\ (k \in 1..Len(q) \/ k = Len(q) + 1)
  BY <1>1
<1>3. CASE k \in 1..Len(q)
  BY <1>1, <1>2, <1>3 DEF Sorted
<1>4. CASE k = Len(q) + 1
  BY <1>1, <1>2, <1>4 DEF Elems
<1> QED BY <1>2, <1>3, <1>4

(* Steps that schedule nothing and fetch nothing.                          *)
LEMMA FewerInOrder ==
  ASSUME InOrder, UNCHANGED at, Sorted(queue)',
         schedule' \subseteq schedule, QueuedJobs' \subseteq QueuedJobs,
         \A p \in Instances :
           /\ \/ batch'[p] = {}
              \/ /\ batch'[p] \subseteq batch[p]
                 /\ batch[p] \intersect schedule' \subseteq batch'[p]
           /\ phase'[p] = "enqueue" =>
                phase[p] = "enqueue" \/ batch'[p] \intersect schedule' = {}
  PROVE  InOrder'
<1>1. \A j, k \in Jobs : Before(j, k)' = Before(j, k)
  BY DEF Before, Score
<1>2. ASSUME NEW p \in Instances, NEW j \in QueuedJobs',
             NEW k \in batch'[p] \union schedule'
      PROVE  Before(j, k)'
  BY <1>2 DEF InOrder, Before, Score
<1>3. ASSUME NEW p \in Instances, NEW j \in batch'[p], NEW k \in schedule',
             k \notin batch'[p]
      PROVE  Before(j, k)'
  BY <1>3 DEF InOrder, Before, Score
<1>4. ASSUME NEW p \in Instances, phase'[p] = "enqueue"
      PROVE  batch'[p] \intersect schedule' = {}
  BY <1>4 DEF InOrder
<1> QED BY <1>2, <1>3, <1>4 DEF InOrder

LEMMA InOrderScheduler ==
  ASSUME OneInstance, TypeOK, Known, InOrder, NEW p \in Instances, Scheduler(p)
  PROVE  InOrder'
<1> USE DEF apiVars, jobVars, schedVars, workerVars
<1>1. CASE GetDueJobs(p)
  <2>1. /\ UNCHANGED <<at, schedule, queue>>
        /\ \A q \in Instances : /\ batch'[q] = { j \in schedule : IsDue(j) }
                                /\ phase'[q] = "fetched"
    BY <1>1 DEF GetDueJobs, OneInstance, TypeOK
  <2>2. \A j \in schedule : at[j] \in Nat /\ Score(at[j]) \in Nat /\ Score(now) \in Nat
    BY ScoreNat DEF TypeOK
  <2>3. \A j, k \in schedule : IsDue(j) /\ ~IsDue(k) => Before(j, k)
    BY <2>2 DEF IsDue, Before
  <2> QED BY <2>1, <2>3 DEF InOrder, Sorted, Before, Score, QueuedJobs
<1>2. CASE RemoveDueJobs(p) \/ RemoveDueJobsError(p)
  <2>1. /\ UNCHANGED <<at, queue>> /\ schedule' \subseteq schedule
        /\ \A q \in Instances :
             \/ batch'[q] = {}
             \/ batch'[q] = batch[q] /\ batch[q] \intersect schedule' = {}
    BY <1>2 DEF RemoveDueJobs, RemoveDueJobsError, OneInstance, TypeOK
  <2>2. Sorted(queue)'
    BY <2>1 DEF InOrder, Sorted, Before, Score
  <2> QED BY <2>1, <2>2, FewerInOrder DEF QueuedJobs
<1>3. ASSUME NEW j \in Jobs, Advance(p, j), UNCHANGED <<at, schedule>>,
             \/ queue' = queue
             \/ Elems(queue') = Elems(queue) \union {j} /\ Sorted(queue')
      PROVE  InOrder'
  <2>1. /\ phase[p] = "enqueue" /\ j \in batch[p] /\ \A k \in batch[p] : Before(j, k)
        /\ batch[p] \intersect schedule = {}
        /\ \A q \in Instances : q = p /\ batch'[q] = batch[p] \ {j}
    BY <1>3 DEF Advance, NextOfBatch, Before, OneInstance, TypeOK, InOrder
  <2>2. \A k \in batch[p] \union schedule : Before(j, k)
    BY <2>1 DEF InOrder
  <2>3. Sorted(queue)'
    BY <1>3 DEF InOrder, Sorted, Before, Score
  <2>4. QueuedJobs' \subseteq QueuedJobs \union {j}
    BY <1>3 DEF QueuedJobs, Elems
  <2>5. \A i \in QueuedJobs', k \in batch'[p] \union schedule' : Before(i, k)
    BY <1>3, <2>1, <2>2, <2>4 DEF InOrder
  <2>6. \A i \in batch'[p], k \in schedule' : Before(i, k)
    BY <1>3, <2>1 DEF InOrder
  <2> QED BY <1>3, <2>1, <2>3, <2>5, <2>6 DEF InOrder, Before, Score
<1>4. ASSUME NEW j \in Jobs, Advance(p, j) PROVE \A k \in Elems(queue) : Before(k, j)
  BY <1>4 DEF Advance, NextOfBatch, InOrder, QueuedJobs, Elems
<1>5. ASSUME NEW j \in Jobs, Enqueue(p, j) PROVE InOrder'
  <2>1. /\ Advance(p, j) /\ UNCHANGED <<at, schedule>> /\ queue \in Seq(Jobs)
        /\ queue' = Append(queue, j) /\ Sorted(queue)
    BY <1>5 DEF Enqueue, TypeOK, InOrder
  <2>2. Elems(queue') = Elems(queue) \union {j} /\ Sorted(queue')
    BY <1>4, <2>1, AppendElems, AppendSorted
  <2> QED BY <1>3, <2>1, <2>2
<1>6. ASSUME NEW j \in Jobs, EnqueueUnanswered(p, j) PROVE InOrder'
  <2>1. /\ UNCHANGED <<at, schedule, batch, phase>> /\ queue \in Seq(Jobs)
        /\ queue' = Append(queue, j) /\ Sorted(queue)
        /\ j \in batch[p] /\ \A k \in batch[p] : Before(j, k)
        /\ batch[p] \intersect schedule = {} /\ \A q \in Instances : q = p
    BY <1>6 DEF EnqueueUnanswered, NextOfBatch, Before, OneInstance, TypeOK, InOrder
  <2>2. \A k \in Elems(queue) : Before(k, j)
    BY <2>1 DEF InOrder, QueuedJobs, Elems
  <2>3. Elems(queue') = Elems(queue) \union {j} /\ Sorted(queue')
    BY <2>1, <2>2, AppendElems, AppendSorted
  <2>4. \A i \in QueuedJobs', k \in batch'[p] \union schedule' : Before(i, k)
    BY <2>1, <2>3 DEF InOrder, QueuedJobs, Elems
  <2> QED BY <2>1, <2>3, <2>4 DEF InOrder, Sorted, Before, Score
<1>7. ASSUME NEW j \in Jobs, EnqueueError(p, j) PROVE InOrder'
  BY <1>3, <1>7 DEF EnqueueError
<1> QED BY <1>1, <1>2, <1>5, <1>6, <1>7 DEF Scheduler, EnqueueBatch

LEMMA InOrderStep ==
  ASSUME OneInstance, TypeOK, Known, NeverEarly, InOrder, [Next]_vars
  PROVE  InOrder'
<1> USE DEF apiVars, jobVars, schedVars, workerVars
<1>1. ASSUME UNCHANGED <<at, batch, phase>>, Sorted(queue'),
             schedule' \subseteq schedule, QueuedJobs' \subseteq QueuedJobs
      PROVE  InOrder'
  <2>1. Sorted(queue)'
    BY <1>1 DEF Sorted, Before, Score
  <2> QED BY <1>1, <2>1, FewerInOrder
<1>2. ASSUME UNCHANGED <<at, schedule, batch, phase, queue>> PROVE InOrder'
  BY <1>1, <1>2 DEF InOrder, QueuedJobs
<1>3. ASSUME NEW p \in Instances, Api(p) PROVE InOrder'
  BY <1>2, <1>3 DEF Api, CreateMonitor, UpdateMonitor, DeleteMonitor
<1>4. ASSUME NEW j \in Jobs, Fresh(j) PROVE InOrder'
  <2>1. /\ UNCHANGED <<now, phase, batch, queue>> /\ schedule' = schedule \union {j}
        /\ ~Created(j) /\ at'[j] \in Nat /\ at'[j] >= now + TicksPerSecond
        /\ \A k \in Jobs : k # j => at'[k] = at[k]
    BY <1>4 DEF Fresh
  <2>2. \A k \in Jobs : Waiting(k) => k # j
    BY <2>1 DEF Known
  <2>3. \A k, l \in Jobs : Waiting(k) /\ Waiting(l) => Before(k, l)' = Before(k, l)
    BY <2>1, <2>2 DEF Before, Score
  <2>4. ASSUME NEW k \in Jobs, Moving(k) PROVE Before(k, j)'
    <3>1. k # j /\ at[k] < now + TicksPerSecond
      BY <2>2, <2>4 DEF Moving, Waiting, Upstream, NeverEarly
    <3>2. at'[k] = at[k] /\ at[k] \in Nat /\ now \in Nat /\ TicksPerSecond \in Nat \ {0}
      BY <2>1, <3>1, BoundsNat, PipelineAssumption DEF TypeOK
    <3>3. at'[k] <= at'[j]
      BY <2>1, <3>1, <3>2
    <3> QED BY <2>1, <3>2, <3>3, DivOrder DEF Before, Score
  <2>5. Sorted(queue)'
    <3>1. \A i \in DOMAIN queue : queue[i] \in Jobs /\ Waiting(queue[i])
      BY DEF TypeOK, Waiting, Upstream, QueuedJobs
    <3> QED BY <2>1, <2>3, <3>1 DEF InOrder, Sorted
  <2>6. ASSUME NEW p \in Instances
        PROVE  /\ \A i \in QueuedJobs, k \in batch[p] \union schedule' : Before(i, k)'
               /\ \A i \in batch[p], k \in schedule' : k \notin batch[p] => Before(i, k)'
    <3>1. QueuedJobs \subseteq Jobs /\ batch[p] \subseteq Jobs /\ schedule \subseteq Jobs
      BY DEF TypeOK, QueuedJobs
    <3>2. \A i \in QueuedJobs \union batch[p] : i \in Jobs /\ Moving(i) /\ Waiting(i)
      BY <3>1 DEF Moving, Waiting, Upstream
    <3>3. \A i \in schedule : i \in Jobs /\ Waiting(i)
      BY <3>1 DEF Waiting, Upstream
    <3> QED BY <2>1, <2>3, <2>4, <3>2, <3>3 DEF InOrder
  <2>7. \A p \in Instances : phase[p] = "enqueue" => batch[p] \intersect schedule' = {}
    BY <2>1, <2>2 DEF InOrder, Waiting, Upstream, TypeOK
  <2>8. QueuedJobs' = QueuedJobs
    BY <2>1 DEF QueuedJobs
  <2> QED BY <2>1, <2>5, <2>6, <2>7, <2>8 DEF InOrder
<1>5. ASSUME NEW p \in Instances, Submit(p) PROVE InOrder'
  <2>1. ASSUME NEW m \in Monitors, ScheduleMonitorError(p, m) PROVE InOrder'
    BY <1>2, <2>1 DEF ScheduleMonitorError
  <2> QED BY <1>4, <1>5, <2>1, ScheduleFresh DEF Submit
<1>6. ASSUME NEW p \in Instances, Crash(p) PROVE InOrder'
  <2>1. UNCHANGED <<at, schedule, queue>>
        /\ \A q \in Instances : batch'[q] = {}
    BY <1>6 DEF Crash, OneInstance, TypeOK
  <2>2. Sorted(queue)'
    BY <2>1 DEF InOrder, Sorted, Before, Score
  <2> QED BY <2>1, <2>2, FewerInOrder DEF QueuedJobs
<1>7. ASSUME NEW w \in Workers, Worker(w) PROVE InOrder'
  <2>1. CASE Dequeue(w) \/ DequeueError(w)
    <3>1. /\ UNCHANGED <<at, schedule, batch, phase>> /\ queue \in Seq(Jobs)
          /\ queue # <<>> /\ queue' = Tail(queue) /\ Sorted(queue)
      BY <2>1 DEF Dequeue, DequeueError, TypeOK, InOrder
    <3>2. Sorted(queue') /\ QueuedJobs' \subseteq QueuedJobs
      BY <3>1, TailElems, TailSorted DEF QueuedJobs, Elems
    <3> QED BY <1>1, <3>1, <3>2
  <2>2. CASE \/ LoadMonitor(w) \/ LoadMonitorError(w)
             \/ PersistHealthCheck(w) \/ PersistHealthCheckError(w)
    BY <1>2, <2>2 DEF LoadMonitor, LoadMonitorError, PersistHealthCheck,
                      PersistHealthCheckError
  <2> QED BY <1>7, <2>1, <2>2 DEF Worker
<1>8. CASE Evict
  <2>1. /\ UNCHANGED <<at, batch, phase>>
        /\ schedule' \in {schedule, {}} /\ queue' \in {queue, <<>>}
    BY <1>8 DEF Evict
  <2>2. Sorted(queue') /\ QueuedJobs' \subseteq QueuedJobs
    BY <2>1 DEF InOrder, Sorted, QueuedJobs
  <2> QED BY <1>1, <2>1, <2>2
<1>9. CASE Tick \/ UNCHANGED vars
  BY <1>2, <1>9 DEF Tick, vars
<1> QED BY <1>3, <1>5, <1>6, <1>7, <1>8, <1>9, InOrderScheduler DEF Next

(* One instance hands out the jobs in the order of their scores, however   *)
(* its batches fail, are repeated or are cut short by crashes, and         *)
(* whatever is scheduled meanwhile: QueueInDueOrder.                       *)
THEOREM JobsComeInDueOrder ==
  ASSUME OneInstance
  PROVE  Spec => []QueueInDueOrder
<1>1. Init => InOrder
  BY DEF Init, InOrder, Sorted, QueuedJobs
<1>2. TypeOK /\ Known /\ NeverEarly /\ InOrder /\ [Next]_vars => InOrder'
  BY InOrderStep
<1>3. InOrder => QueueInDueOrder
  BY DEF InOrder, Sorted, Before, QueueInDueOrder
<1> QED BY <1>1, <1>2, <1>3, TypeCorrect, JobsAreKnown, JobsAreNeverEarly, PTL DEF Spec

-----------------------------------------------------------------------------
(* How often a job can be run, for any number of instances and of          *)
(* repetitions.                                                            *)

Fetchers(j) == { p \in Instances : j \in batch[p] }
HoldersOf(j) == { w \in Workers : held[w] = j }

LEMMA PositionsFinite ==
  ASSUME NEW q \in Seq(Jobs), NEW j
  PROVE  IsFiniteSet(Positions(q, j)) /\ Copies(q, j) \in Nat
<1>1. IsFiniteSet(1..Len(q)) /\ Positions(q, j) \in SUBSET (1..Len(q))
  BY FS_Interval DEF Positions
<1>2. IsFiniteSet(Positions(q, j))
  BY <1>1, FS_Subset
<1> QED BY <1>2, FS_CardinalityType DEF Copies

(* A pop takes one copy of the job it returns.                             *)
LEMMA CopiesTail ==
  ASSUME NEW q \in Seq(Jobs), q # <<>>, NEW k
  PROVE  Copies(q, k) = Copies(Tail(q), k) + (IF k = Head(q) THEN 1 ELSE 0)
<1> DEFINE S == Positions(Tail(q), k)
           T == Positions(q, k)
           f == [i \in S |-> i + 1]
<1>1. /\ Len(q) \in Nat \ {0} /\ DOMAIN q = 1..Len(q) /\ Head(q) = q[1]
      /\ Tail(q) \in Seq(Jobs) /\ DOMAIN Tail(q) = 1..(Len(q) - 1)
      /\ \A i \in 1..(Len(q) - 1) : Tail(q)[i] = q[i + 1]
  OBVIOUS
<1>2. IsFiniteSet(T) /\ Copies(q, k) \in Nat /\ Copies(Tail(q), k) \in Nat
  BY <1>1, PositionsFinite
<1>3. S \subseteq 1..(Len(q) - 1) /\ \A i \in S : i + 1 \in T \ {1}
  BY <1>1 DEF Positions
<1>4. f \in Injection(S, T \ {1})
  BY <1>3 DEF Injection, IsInjective
<1>5. f \in Surjection(S, T \ {1})
  <2>1. f \in [S -> T \ {1}]
    BY <1>3
  <2>2. ASSUME NEW t \in T \ {1} PROVE \E i \in S : f[i] = t
    <3>1. t - 1 \in S /\ f[t - 1] = t
      BY <1>1 DEF Positions
    <3> QED BY <3>1
  <2> QED BY <2>1, <2>2 DEF Surjection
<1>6. IsFiniteSet(T \ {1})
      /\ Cardinality(T \ {1}) = IF 1 \in T THEN Cardinality(T) - 1 ELSE Cardinality(T)
  BY <1>2, FS_RemoveElement
<1>7. Cardinality(S) = Cardinality(T \ {1})
  BY <1>4, <1>5, <1>6, FS_Injection
<1>8. 1 \in T <=> k = Head(q)
  BY <1>1 DEF Positions
<1> QED BY <1>2, <1>6, <1>7, <1>8 DEF Copies

(* A push adds one copy of its job.                                        *)
LEMMA CopiesAppend ==
  ASSUME NEW q \in Seq(Jobs), NEW j \in Jobs, NEW k
  PROVE  Copies(Append(q, j), k) = Copies(q, k) + (IF k = j THEN 1 ELSE 0)
<1> DEFINE new == Len(q) + 1
<1>1. /\ Len(q) \in Nat /\ DOMAIN q = 1..Len(q)
      /\ DOMAIN Append(q, j) = 1..new
      /\ \A i \in 1..Len(q) : Append(q, j)[i] = q[i]
      /\ Append(q, j)[new] = j
  OBVIOUS
<1>2. IsFiniteSet(Positions(q, k)) /\ Copies(q, k) \in Nat
  BY PositionsFinite
<1>3. new \notin Positions(q, k)
  BY <1>1 DEF Positions
<1>4. Positions(Append(q, j), k) =
        IF k = j THEN Positions(q, k) \union {new} ELSE Positions(q, k)
  BY <1>1 DEF Positions
<1> HIDE DEF new
<1>5. Cardinality(Positions(q, k) \union {new}) = Cardinality(Positions(q, k)) + 1
  BY <1>2, <1>3, FS_AddElement
<1>6. CASE k = j
  BY <1>4, <1>5, <1>6 DEF Copies
<1>7. CASE k # j
  BY <1>2, <1>4, <1>7 DEF Copies
<1> QED BY <1>6, <1>7

LEMMA FetchersFinite ==
  ASSUME NEW j
  PROVE  /\ IsFiniteSet(Fetchers(j)) /\ Cardinality(Fetchers(j)) \in Nat
         /\ Cardinality(Instances) \in Nat
         /\ Cardinality(Fetchers(j)) <= Cardinality(Instances)
<1>1. IsFiniteSet(Instances) /\ Fetchers(j) \in SUBSET Instances
  BY PipelineAssumption DEF Fetchers
<1> QED BY <1>1, FS_Subset, FS_CardinalityType

LEMMA NoCopies ==
  ASSUME NEW q, NEW j, \A i \in DOMAIN q : q[i] # j
  PROVE  Copies(q, j) = 0
<1>1. Positions(q, j) = {}
  BY DEF Positions
<1> QED BY <1>1, FS_EmptySet DEF Copies

(* A job spends what it has been run, what waits in the list, and what the *)
(* instances that have fetched it may still append. Every instance brings  *)
(* one, and every repetition another.                                      *)
Share(j) ==
  runs[j] + Copies(queue, j) + Cardinality(Fetchers(j))
    <= Cardinality(Instances) + Cardinality(repeats[j])

(* While a job is in the sorted set nobody has appended it; an instance    *)
(* that appends has removed its batch; and it has not yet made the         *)
(* repetitions beyond its tries.                                           *)
Shares ==
  /\ \A j \in Jobs : j \in schedule \/ ~Created(j) =>
       runs[j] = 0 /\ j \notin QueuedJobs /\ repeats[j] = {}
  /\ \A p \in Instances : phase[p] = "enqueue" => batch[p] \intersect schedule = {}
  /\ \A p \in Instances : \A j \in batch[p], n \in 1..MaxRetries :
       <<p, n>> \in repeats[j] => n <= tries[p][j]
  /\ \A j \in Jobs : Share(j)

LEMMA RepeatsFinite ==
  ASSUME NEW S \in SUBSET (Instances \X (1..MaxRetries))
  PROVE  /\ IsFiniteSet(S) /\ Cardinality(S) \in Nat
         /\ Cardinality(S) <= Cardinality(Instances) * MaxRetries
         /\ Cardinality(Instances) * MaxRetries \in Nat
<1>1. /\ IsFiniteSet(1..MaxRetries) /\ Cardinality(1..MaxRetries) = MaxRetries
      /\ MaxRetries \in Nat
  BY BoundsNat, FS_Interval
<1>2. /\ IsFiniteSet(Instances \X (1..MaxRetries))
      /\ Cardinality(Instances \X (1..MaxRetries)) = Cardinality(Instances) * MaxRetries
  BY <1>1, FS_Product, PipelineAssumption
<1>3. IsFiniteSet(S) /\ Cardinality(S) <= Cardinality(Instances \X (1..MaxRetries))
  BY <1>2, FS_Subset
<1> QED BY <1>2, <1>3, FS_CardinalityType

LEMMA SpentNat ==
  ASSUME TypeOK, TypeOK', NEW j \in Jobs
  PROVE  /\ runs[j] \in Nat /\ runs'[j] \in Nat
         /\ Copies(queue, j) \in Nat /\ Copies(queue', j) \in Nat
         /\ Cardinality(Fetchers(j)) \in Nat /\ Cardinality(Fetchers(j)') \in Nat
         /\ Cardinality(Fetchers(j)') <= Cardinality(Instances)
         /\ Cardinality(repeats[j]) \in Nat /\ Cardinality(repeats'[j]) \in Nat
         /\ Cardinality(Instances) \in Nat
<1>1. /\ runs[j] \in Nat /\ runs'[j] \in Nat /\ queue \in Seq(Jobs) /\ queue' \in Seq(Jobs)
      /\ repeats[j] \in SUBSET (Instances \X (1..MaxRetries))
      /\ repeats'[j] \in SUBSET (Instances \X (1..MaxRetries))
  BY DEF TypeOK
<1>2. /\ IsFiniteSet(Instances) /\ Fetchers(j) \in SUBSET Instances
      /\ Fetchers(j)' \in SUBSET Instances
  BY PipelineAssumption DEF Fetchers
<1>3. /\ Cardinality(Fetchers(j)) \in Nat /\ Cardinality(Fetchers(j)') \in Nat
      /\ Cardinality(Fetchers(j)') <= Cardinality(Instances)
      /\ Cardinality(Instances) \in Nat
  BY <1>2, FS_Subset, FS_CardinalityType
<1> QED BY <1>1, <1>3, PositionsFinite, RepeatsFinite

(* A step that spends no more than it brings keeps the share.              *)
LEMMA ShareStep ==
  ASSUME TypeOK, TypeOK', NEW j \in Jobs, Share(j),
         runs'[j] + Copies(queue', j) + Cardinality(Fetchers(j)') + Cardinality(repeats[j])
           <= runs[j] + Copies(queue, j) + Cardinality(Fetchers(j)) + Cardinality(repeats'[j])
  PROVE  Share(j)'
<1>1. runs[j] + Copies(queue, j) + Cardinality(Fetchers(j))
        <= Cardinality(Instances) + Cardinality(repeats[j])
  BY DEF Share
<1>2. runs'[j] + Copies(queue', j) + Cardinality(Fetchers(j)')
        <= Cardinality(Instances) + Cardinality(repeats'[j])
  BY <1>1, SpentNat
<1> QED BY <1>2 DEF Share, Copies, Positions, Fetchers

LEMMA SameShare ==
  ASSUME TypeOK, TypeOK', NEW j \in Jobs, Share(j), UNCHANGED <<runs[j], repeats[j]>>,
         Copies(queue', j) <= Copies(queue, j), Fetchers(j)' \subseteq Fetchers(j)
  PROVE  Share(j)'
<1>1. IsFiniteSet(Fetchers(j)) /\ Fetchers(j)' \in SUBSET Fetchers(j)
  BY FetchersFinite
<1>2. Cardinality(Fetchers(j)') <= Cardinality(Fetchers(j))
  BY <1>1, FS_Subset
<1>3. runs'[j] = runs[j] /\ repeats'[j] = repeats[j]
  OBVIOUS
<1>4. runs'[j] + Copies(queue', j) + Cardinality(Fetchers(j)') + Cardinality(repeats[j])
        <= runs[j] + Copies(queue, j) + Cardinality(Fetchers(j)) + Cardinality(repeats'[j])
  BY <1>2, <1>3, SpentNat
<1> QED BY <1>4, ShareStep

(* A step that neither schedules, appends nor starts a job: it may fetch,  *)
(* remove, or lose.                                                        *)
Loses ==
  /\ UNCHANGED <<mon, runs, repeats>>
  /\ schedule' \subseteq schedule /\ QueuedJobs' \subseteq QueuedJobs
  /\ \A j \in Jobs : Copies(queue', j) <= Copies(queue, j)
  /\ \A q \in Instances :
       \/ /\ batch'[q] \subseteq batch[q]
          /\ \A j \in batch'[q] : tries'[q][j] = tries[q][j]
          /\ phase'[q] = "enqueue" =>
               phase[q] = "enqueue" \/ batch'[q] \intersect schedule' = {}
       \/ batch'[q] \subseteq schedule /\ schedule' = schedule /\ phase'[q] = "fetched"

(* What Advance does to the batch of every instance.                       *)
AdvancedBatch(p, j, q) ==
  /\ batch'[q] = IF q = p THEN batch[q] \ {j} ELSE batch[q]
  /\ \A k \in batch'[q] : tries'[q][k] = tries[q][k]
  /\ phase'[q] = "enqueue" => phase[q] = "enqueue"

LEMMA AdvanceStep ==
  ASSUME TypeOK, NEW p \in Instances, NEW j \in Jobs, Advance(p, j)
  PROVE  \A q \in Instances : AdvancedBatch(p, j, q)
<1> TAKE q \in Instances
<1>1. /\ batch' = [batch EXCEPT ![p] = @ \ {j}] /\ batch \in [Instances -> SUBSET Jobs]
      /\ tries' = [tries EXCEPT ![p][j] = 0]
      /\ tries \in [Instances -> [Jobs -> 0..MaxRetries]]
  BY DEF Advance, TypeOK
<1>2. batch'[q] = IF q = p THEN batch[q] \ {j} ELSE batch[q]
  BY <1>1
<1>3. ASSUME NEW k \in batch'[q] PROVE tries'[q][k] = tries[q][k]
  <2>1. k \in Jobs /\ (q # p \/ k # j)
    BY <1>1, <1>2, <1>3
  <2> QED BY <1>1, <2>1
<1>4. phase'[q] = "enqueue" => phase[q] = "enqueue"
  BY DEF Advance, TypeOK
<1> QED BY <1>2, <1>3, <1>4 DEF AdvancedBatch

LEMMA OtherStepsLose ==
  ASSUME TypeOK, TypeOK', [Next]_vars
  PROVE  \/ Loses
         \/ \E j \in Jobs : Fresh(j)
         \/ \E w \in Workers : Dequeue(w)
         \/ \E p \in Instances, j \in Jobs : Enqueue(p, j) \/ EnqueueUnanswered(p, j)
<1> USE DEF apiVars, jobVars, schedVars, workerVars
<1>0. \A j \in Jobs : Copies(queue, j) \in Nat
  BY PositionsFinite DEF TypeOK
<1>1. ASSUME UNCHANGED <<mon, runs, repeats, schedule, phase, batch, tries, queue>>
      PROVE  Loses
  BY <1>0, <1>1 DEF Loses, QueuedJobs
<1>2. ASSUME NEW p \in Instances, Api(p) PROVE Loses
  BY <1>1, <1>2 DEF Api, CreateMonitor, UpdateMonitor, DeleteMonitor
<1>3. ASSUME NEW p \in Instances, Submit(p) PROVE Loses \/ \E j \in Jobs : Fresh(j)
  <2>1. ASSUME NEW m \in Monitors, ScheduleMonitorError(p, m) PROVE Loses
    BY <1>1, <2>1 DEF ScheduleMonitorError
  <2> QED BY <1>3, <2>1, ScheduleFresh DEF Submit
<1>4. ASSUME NEW p \in Instances, Scheduler(p)
      PROVE  Loses \/ \E j \in Jobs : Enqueue(p, j) \/ EnqueueUnanswered(p, j)
  <2>1. CASE GetDueJobs(p)
    <3>1. /\ UNCHANGED <<mon, runs, repeats, schedule, tries, queue>>
          /\ \A q \in Instances :
               \/ batch'[q] = batch[q] /\ phase'[q] = phase[q]
               \/ batch'[q] \subseteq schedule /\ phase'[q] = "fetched"
      BY <2>1 DEF GetDueJobs, TypeOK
    <3> QED BY <1>0, <3>1 DEF Loses, QueuedJobs
  <2>2. CASE RemoveDueJobs(p) \/ RemoveDueJobsError(p)
    <3>1. /\ UNCHANGED <<mon, runs, repeats, tries, queue>> /\ schedule' \subseteq schedule
          /\ \A q \in Instances :
               /\ batch'[q] \subseteq batch[q]
               /\ phase'[q] = "enqueue" =>
                    phase[q] = "enqueue" \/ batch'[q] \intersect schedule' = {}
      BY <2>2 DEF RemoveDueJobs, RemoveDueJobsError, TypeOK
    <3> QED BY <1>0, <3>1 DEF Loses, QueuedJobs
  <2>3. ASSUME NEW j \in Jobs, EnqueueError(p, j) PROVE Loses
    <3>1. UNCHANGED <<mon, runs, repeats, schedule, queue>>
      BY <2>3 DEF EnqueueError
    <3>2. \A q \in Instances : AdvancedBatch(p, j, q)
      BY <2>3, AdvanceStep DEF EnqueueError
    <3>3. UNCHANGED QueuedJobs /\ schedule' = schedule
      BY <3>1 DEF QueuedJobs
    <3>4. ASSUME NEW q \in Instances
          PROVE  /\ batch'[q] \subseteq batch[q]
                 /\ \A k \in batch'[q] : tries'[q][k] = tries[q][k]
                 /\ phase'[q] = "enqueue" => phase[q] = "enqueue"
      <4>1. AdvancedBatch(p, j, q)
        BY <3>2
      <4> QED BY <4>1 DEF AdvancedBatch
    <3> QED BY <1>0, <3>1, <3>3, <3>4 DEF Loses
  <2> QED BY <1>4, <2>1, <2>2, <2>3 DEF Scheduler, EnqueueBatch
<1>5. ASSUME NEW p \in Instances, Crash(p) PROVE Loses
  <2>1. /\ UNCHANGED <<mon, runs, repeats, schedule, queue>>
        /\ \A q \in Instances :
             /\ q = p => batch'[q] = {} /\ phase'[q] = "idle"
             /\ q # p => /\ batch'[q] = batch[q] /\ tries'[q] = tries[q]
                         /\ phase'[q] = phase[q]
    BY <1>5 DEF Crash, TypeOK
  <2>2. ASSUME NEW q \in Instances
        PROVE  /\ batch'[q] \subseteq batch[q]
               /\ \A j \in batch'[q] : tries'[q][j] = tries[q][j]
               /\ phase'[q] = "enqueue" => phase[q] = "enqueue"
    BY <2>1
  <2> QED BY <1>0, <2>1, <2>2 DEF Loses, QueuedJobs
<1>6. ASSUME NEW w \in Workers, Worker(w) PROVE Loses \/ Dequeue(w)
  <2>1. CASE DequeueError(w)
    <3>1. /\ UNCHANGED <<mon, runs, repeats, schedule, phase, batch, tries>>
          /\ queue \in Seq(Jobs) /\ queue # <<>> /\ queue' = Tail(queue)
      BY <2>1 DEF DequeueError, TypeOK
    <3>2. QueuedJobs' \subseteq QueuedJobs
      BY <3>1, TailElems DEF QueuedJobs, Elems
    <3>3. ASSUME NEW j \in Jobs PROVE Copies(queue', j) <= Copies(queue, j)
      <4>1. Copies(queue', j) \in Nat
        BY PositionsFinite DEF TypeOK
      <4> QED BY <1>0, <3>1, <4>1, CopiesTail
    <3> QED BY <3>1, <3>2, <3>3 DEF Loses
  <2>2. CASE \/ LoadMonitor(w) \/ LoadMonitorError(w)
             \/ PersistHealthCheck(w) \/ PersistHealthCheckError(w)
    BY <1>1, <2>2 DEF LoadMonitor, LoadMonitorError, PersistHealthCheck,
                      PersistHealthCheckError
  <2> QED BY <1>6, <2>1, <2>2 DEF Worker
<1>7. CASE Evict
  <2>1. /\ UNCHANGED <<mon, runs, repeats, phase, batch, tries>>
        /\ schedule' \in {schedule, {}} /\ queue' \in {queue, <<>>}
    BY <1>7 DEF Evict
  <2>2. QueuedJobs' \subseteq QueuedJobs
    BY <2>1 DEF QueuedJobs
  <2>3. \A j \in Jobs : Copies(<<>>, j) = 0
    BY NoCopies
  <2>4. \A j \in Jobs : Copies(queue', j) <= Copies(queue, j)
    BY <1>0, <2>1, <2>3
  <2> QED BY <2>1, <2>2, <2>4 DEF Loses
<1>8. CASE Tick \/ UNCHANGED vars
  BY <1>1, <1>8 DEF Tick, vars
<1> QED BY <1>2, <1>3, <1>4, <1>5, <1>6, <1>7, <1>8 DEF Next
LEMMA SharesWhenLost ==
  ASSUME TypeOK, TypeOK', Shares, Loses
  PROVE  Shares'
<1>1. ASSUME NEW j \in Jobs PROVE Share(j)'
  <2>1. CASE j \in schedule
    <3>1. runs'[j] = 0 /\ j \notin QueuedJobs'
      BY <2>1 DEF Shares, Loses
    <3>2. Copies(queue', j) = 0
      BY <3>1, NoCopies DEF QueuedJobs
    <3>3. runs'[j] + Copies(queue', j) + Cardinality(Fetchers(j)')
            <= Cardinality(Instances) + Cardinality(repeats'[j])
      BY <3>1, <3>2, SpentNat
    <3> QED BY <3>3 DEF Share, Copies, Positions, Fetchers
  <2>2. CASE j \notin schedule
    <3>1. Fetchers(j)' \subseteq Fetchers(j)
      BY <2>2 DEF Fetchers, Loses
    <3> QED BY <3>1, SameShare DEF Shares, Loses
  <2> QED BY <2>1, <2>2
<1>2. \A j \in Jobs : j \in schedule' \/ ~Created(j)' =>
         runs'[j] = 0 /\ j \notin QueuedJobs' /\ repeats'[j] = {}
  BY DEF Shares, Loses, Created
<1>3. \A p \in Instances : phase'[p] = "enqueue" => batch'[p] \intersect schedule' = {}
  BY DEF Shares, Loses
<1>4. ASSUME NEW p \in Instances, NEW j \in batch'[p], NEW n \in 1..MaxRetries,
             <<p, n>> \in repeats'[j]
      PROVE  n <= tries'[p][j]
  <2>1. j \in Jobs
    BY DEF TypeOK
  <2> QED BY <1>4, <2>1 DEF Shares, Loses
<1> QED BY <1>1, <1>2, <1>3, <1>4 DEF Shares

LEMMA SharesWhenFresh ==
  ASSUME TypeOK, TypeOK', Known, Shares, NEW j \in Jobs, Fresh(j)
  PROVE  Shares'
<1>1. /\ UNCHANGED <<phase, batch, tries, queue, runs, repeats>>
      /\ schedule' = schedule \union {j} /\ ~Created(j) /\ Created(j)'
      /\ \A k \in Jobs : k # j => mon'[k] = mon[k]
  BY DEF Fresh, schedVars
<1>2. ~Waiting(j)
  BY <1>1 DEF Known
<1>3. ASSUME NEW k \in Jobs PROVE Share(k)'
  <2>1. Fetchers(k)' = Fetchers(k)
    BY <1>1 DEF Fetchers
  <2>2. Copies(queue', k) <= Copies(queue, k)
    BY <1>1, SpentNat
  <2> QED BY <1>1, <2>1, <2>2, SameShare DEF Shares
<1>4. ASSUME NEW k \in Jobs, k \in schedule' \/ ~Created(k)'
      PROVE  runs'[k] = 0 /\ k \notin QueuedJobs' /\ repeats'[k] = {}
  <2>1. k \in schedule \/ ~Created(k)
    BY <1>1, <1>4 DEF Created
  <2> QED BY <1>1, <2>1 DEF Shares, QueuedJobs
<1>5. \A p \in Instances : phase'[p] = "enqueue" => batch'[p] \intersect schedule' = {}
  BY <1>1, <1>2 DEF Shares, Waiting, Upstream
<1>6. \A p \in Instances : \A k \in batch'[p], n \in 1..MaxRetries :
        <<p, n>> \in repeats'[k] => n <= tries'[p][k]
  BY <1>1 DEF Shares
<1> QED BY <1>3, <1>4, <1>5, <1>6 DEF Shares

LEMMA SharesWhenStarted ==
  ASSUME TypeOK, TypeOK', Shares, NEW w \in Workers, Dequeue(w)
  PROVE  Shares'
<1>1. /\ UNCHANGED <<mon, schedule, phase, batch, tries, repeats>>
      /\ queue \in Seq(Jobs) /\ queue # <<>> /\ queue' = Tail(queue)
      /\ runs' = [runs EXCEPT ![Head(queue)] = @ + 1] /\ runs \in [Jobs -> Nat]
  BY DEF Dequeue, TypeOK, jobVars, schedVars
<1>2. Head(queue) \in QueuedJobs /\ QueuedJobs' \subseteq QueuedJobs
  BY <1>1, TailElems DEF QueuedJobs, Elems
<1>3. ASSUME NEW j \in Jobs PROVE Share(j)'
  <2>1. Copies(queue, j) = Copies(queue', j) + (IF j = Head(queue) THEN 1 ELSE 0)
    BY <1>1, CopiesTail
  <2>2. runs'[j] = runs[j] + (IF j = Head(queue) THEN 1 ELSE 0)
    BY <1>1
  <2>3. Fetchers(j)' = Fetchers(j) /\ repeats'[j] = repeats[j]
    BY <1>1 DEF Fetchers
  <2>4. runs'[j] + Copies(queue', j) + Cardinality(Fetchers(j)') + Cardinality(repeats[j])
          <= runs[j] + Copies(queue, j) + Cardinality(Fetchers(j)) + Cardinality(repeats'[j])
    BY <2>1, <2>2, <2>3, SpentNat
  <2> QED BY <2>4, ShareStep DEF Shares
<1>4. ASSUME NEW j \in Jobs, j \in schedule \/ ~Created(j)
      PROVE  runs'[j] = 0 /\ j \notin QueuedJobs' /\ repeats'[j] = {}
  BY <1>1, <1>2, <1>4 DEF Shares
<1>5. \A p \in Instances : \A j \in batch'[p], n \in 1..MaxRetries :
        <<p, n>> \in repeats'[j] => n <= tries'[p][j]
  BY <1>1 DEF Shares
<1> QED BY <1>1, <1>3, <1>4, <1>5 DEF Shares, Created

LEMMA SharesWhenAppended ==
  ASSUME TypeOK, TypeOK', Known, Shares, NEW p \in Instances, NEW j \in Jobs,
         Enqueue(p, j) \/ EnqueueUnanswered(p, j)
  PROVE  Shares'
<1>1. /\ UNCHANGED <<mon, schedule, runs>> /\ queue' = Append(queue, j)
      /\ queue \in Seq(Jobs) /\ phase[p] = "enqueue" /\ j \in batch[p]
  BY DEF Enqueue, EnqueueUnanswered, Advance, NextOfBatch, jobVars, TypeOK
<1>2. j \notin schedule /\ Created(j)
  BY <1>1 DEF Shares, Known, Waiting, Upstream
<1>3. QueuedJobs' = QueuedJobs \union {j}
  <2>1. Elems(queue') = Elems(queue) \union {j}
    BY <1>1, AppendElems
  <2> QED BY <2>1 DEF QueuedJobs, Elems
<1>4. \A k \in Jobs : Copies(queue', k) = Copies(queue, k) + (IF k = j THEN 1 ELSE 0)
  BY <1>1, CopiesAppend
<1>5. CASE Enqueue(p, j)
  <2>1. UNCHANGED repeats /\ \A q \in Instances : AdvancedBatch(p, j, q)
    BY <1>5, AdvanceStep DEF Enqueue, jobVars
  <2>2. ASSUME NEW k \in Jobs PROVE Share(k)'
    <3>1. Fetchers(k)' = IF k = j THEN Fetchers(k) \ {p} ELSE Fetchers(k)
      BY <2>1 DEF Fetchers, AdvancedBatch
    <3>2. CASE k = j
      <4>1. p \in Fetchers(j) /\ IsFiniteSet(Fetchers(j))
        BY <1>1, FetchersFinite DEF Fetchers
      <4>2. Cardinality(Fetchers(j)') = Cardinality(Fetchers(j)) - 1
        BY <3>1, <3>2, <4>1, FS_RemoveElement
      <4>3. Copies(queue', j) = Copies(queue, j) + 1 /\ runs'[j] = runs[j]
            /\ repeats'[j] = repeats[j]
        BY <1>1, <1>4, <2>1
      <4>4. runs'[j] + Copies(queue', j) + Cardinality(Fetchers(j)') + Cardinality(repeats[j])
              <= runs[j] + Copies(queue, j) + Cardinality(Fetchers(j)) + Cardinality(repeats'[j])
        BY <4>2, <4>3, SpentNat
      <4> QED BY <3>2, <4>4, ShareStep DEF Shares
    <3>3. CASE k # j
      <4>1. Copies(queue', k) <= Copies(queue, k)
        BY <1>4, <3>3, SpentNat
      <4> QED BY <1>1, <2>1, <3>1, <3>3, <4>1, SameShare DEF Shares
    <3> QED BY <3>2, <3>3
  <2>3. \A q \in Instances : phase'[q] = "enqueue" => batch'[q] \intersect schedule' = {}
    BY <1>1, <2>1 DEF Shares, AdvancedBatch
  <2>4. ASSUME NEW q \in Instances, NEW k \in batch'[q], NEW n \in 1..MaxRetries,
               <<q, n>> \in repeats'[k]
        PROVE  n <= tries'[q][k]
    <3>1. AdvancedBatch(p, j, q)
      BY <2>1
    <3> QED BY <2>1, <2>4, <3>1 DEF Shares, AdvancedBatch
  <2> QED BY <1>1, <1>2, <1>3, <2>1, <2>2, <2>3, <2>4 DEF Shares, Created
<1>6. CASE EnqueueUnanswered(p, j)
  <2> DEFINE new == tries[p][j] + 1
  <2>1. /\ UNCHANGED <<phase, batch>> /\ tries[p][j] \in 0..MaxRetries
        /\ tries' = [tries EXCEPT ![p][j] = new]
        /\ tries \in [Instances -> [Jobs -> 0..MaxRetries]]
        /\ repeats' = [repeats EXCEPT ![j] = @ \union {<<p, new>>}]
        /\ repeats \in [Jobs -> SUBSET (Instances \X (1..MaxRetries))]
        /\ new \in 1..MaxRetries
    <3>1. tries[p][j] \in 0..MaxRetries /\ tries[p][j] < MaxRetries
      BY <1>6 DEF EnqueueUnanswered, TypeOK
    <3>2. new \in 1..MaxRetries
      BY <3>1, BoundsNat
    <3> QED BY <1>6, <3>1, <3>2 DEF EnqueueUnanswered, TypeOK
  <2>2. <<p, new>> \notin repeats[j]
    <3>1. <<p, new>> \in repeats[j] => new <= tries[p][j]
      BY <1>1, <2>1 DEF Shares
    <3> QED BY <2>1, <3>1
  <2>3. ASSUME NEW k \in Jobs PROVE Share(k)'
    <3>1. Fetchers(k)' = Fetchers(k)
      BY <2>1 DEF Fetchers
    <3>2. CASE k = j
      <4>1. repeats'[j] = repeats[j] \union {<<p, new>>} /\ IsFiniteSet(repeats[j])
        BY <2>1, RepeatsFinite
      <4>2. Cardinality(repeats'[j]) = Cardinality(repeats[j]) + 1
        <5> HIDE DEF new
        <5> QED BY <2>2, <4>1, FS_AddElement
      <4>3. Copies(queue', j) = Copies(queue, j) + 1 /\ runs'[j] = runs[j]
        BY <1>1, <1>4
      <4>4. runs'[j] + Copies(queue', j) + Cardinality(Fetchers(j)') + Cardinality(repeats[j])
              <= runs[j] + Copies(queue, j) + Cardinality(Fetchers(j)) + Cardinality(repeats'[j])
        BY <3>1, <3>2, <4>2, <4>3, SpentNat
      <4> QED BY <3>2, <4>4, ShareStep DEF Shares
    <3>3. CASE k # j
      <4>1. Copies(queue', k) <= Copies(queue, k) /\ repeats'[k] = repeats[k]
        BY <1>4, <2>1, <3>3, SpentNat
      <4> QED BY <1>1, <3>1, <4>1, SameShare DEF Shares
    <3> QED BY <3>2, <3>3
  <2>4. ASSUME NEW q \in Instances, NEW k \in batch'[q], NEW n \in 1..MaxRetries,
               <<q, n>> \in repeats'[k]
        PROVE  n <= tries'[q][k]
    <3>1. k \in Jobs /\ k \in batch[q]
      BY <2>1 DEF TypeOK
    <3>2. CASE q = p /\ k = j
      <4>1. tries'[p][j] = tries[p][j] + 1
        BY <2>1
      <4>2. <<p, n>> \in repeats[j] \/ n = new
        BY <2>1, <2>4, <3>2
      <4>3. <<p, n>> \in repeats[j] => n <= tries[p][j]
        BY <3>1, <3>2 DEF Shares
      <4> QED BY <2>1, <3>2, <4>1, <4>2, <4>3
    <3>3. CASE q # p \/ k # j
      <4>1. tries'[q][k] = tries[q][k]
        BY <2>1, <3>1, <3>3
      <4>2. <<q, n>> \in repeats[k]
        BY <2>1, <2>4, <3>1, <3>3
      <4> QED BY <3>1, <4>1, <4>2 DEF Shares
    <3> QED BY <3>2, <3>3
  <2>5. ASSUME NEW k \in Jobs, k \in schedule' \/ ~Created(k)'
        PROVE  runs'[k] = 0 /\ k \notin QueuedJobs' /\ repeats'[k] = {}
    <3>1. k # j /\ (k \in schedule \/ ~Created(k))
      BY <1>1, <1>2, <2>5 DEF Created
    <3> QED BY <1>1, <1>3, <2>1, <3>1 DEF Shares
  <2>6. \A q \in Instances : phase'[q] = "enqueue" => batch'[q] \intersect schedule' = {}
    BY <1>1, <2>1 DEF Shares
  <2> QED BY <2>3, <2>4, <2>5, <2>6 DEF Shares
<1> QED BY <1>5, <1>6

(* Every copy of a job is accounted for, whatever fails: an instance runs, *)
(* appends or still holds it once, and once more for each of its           *)
(* repetitions (processDueJobs, worker.run).                               *)
THEOREM CopiesAreAccountedFor == Spec => []Shares
<1>1. Init => Shares
  <2> SUFFICES ASSUME Init PROVE Shares
    OBVIOUS
  <2>1. QueuedJobs = {} /\ \A j \in Jobs : runs[j] = 0 /\ repeats[j] = {}
    BY DEF Init, QueuedJobs
  <2>2. \A j \in Jobs : Copies(queue, j) = 0
    BY <2>1, NoCopies DEF QueuedJobs
  <2>3. \A j \in Jobs : Fetchers(j) = {}
    BY DEF Init, Fetchers
  <2>4. Cardinality(Instances) \in Nat /\ Cardinality({}) = 0
    BY PipelineAssumption, FS_CardinalityType, FS_EmptySet
  <2>5. \A j \in Jobs : Share(j)
    BY <2>1, <2>2, <2>3, <2>4 DEF Share
  <2> QED BY <2>1, <2>5 DEF Init, Shares
<1>2. TypeOK /\ TypeOK' /\ Known /\ Shares /\ [Next]_vars => Shares'
  BY OtherStepsLose, SharesWhenLost, SharesWhenFresh, SharesWhenStarted,
     SharesWhenAppended
<1> QED BY <1>1, <1>2, TypeCorrect, JobsAreKnown, PTL DEF Spec

(* With one instance, a job is given to processJob once and once more only *)
(* for every repetition of its RPUSH: AtMostOnce, whatever else fails and  *)
(* whenever the instance crashes.                                          *)
THEOREM JobsRunAtMostOnce ==
  ASSUME OneInstance
  PROVE  Spec => []AtMostOnce
<1>1. TypeOK /\ Shares => AtMostOnce
  <2> SUFFICES ASSUME TypeOK, Shares, NEW j \in Jobs
               PROVE  runs[j] <= 1 + Cardinality(repeats[j])
    BY DEF AtMostOnce
  <2>1. Cardinality(Instances) \in Nat /\ Cardinality(Instances) <= 1
    <3>1. CASE Instances = {}
      BY <3>1, FS_EmptySet
    <3>2. ASSUME NEW p \in Instances
          PROVE  Cardinality(Instances) \in Nat /\ Cardinality(Instances) <= 1
      <4>1. Instances = {p}
        BY DEF OneInstance
      <4> QED BY <4>1, FS_Singleton
    <3> QED BY <3>1, <3>2
  <2>2. /\ runs[j] \in Nat /\ Copies(queue, j) \in Nat
        /\ Cardinality(Fetchers(j)) \in Nat /\ Cardinality(repeats[j]) \in Nat
    BY PositionsFinite, FetchersFinite, RepeatsFinite DEF TypeOK
  <2>3. runs[j] + Copies(queue, j) + Cardinality(Fetchers(j))
          <= Cardinality(Instances) + Cardinality(repeats[j])
    BY DEF Shares, Share
  <2> QED BY <2>1, <2>2, <2>3
<1> QED BY <1>1, TypeCorrect, CopiesAreAccountedFor, PTL

(* Only a Dequeue runs a job or gives one to a worker.                     *)
LEMMA OthersRelease ==
  ASSUME TypeOK, [Next]_vars, \A w \in Workers : ~Dequeue(w)
  PROVE  UNCHANGED runs /\ \A w \in Workers : held'[w] \in {held[w], Null}
<1> USE DEF apiVars, jobVars, schedVars, workerVars
<1>1. ASSUME NEW p \in Instances, Api(p) \/ Submit(p) \/ Scheduler(p)
      PROVE  UNCHANGED <<runs, held>>
  <2>1. CASE Api(p)
    BY <2>1 DEF Api, CreateMonitor, UpdateMonitor, DeleteMonitor
  <2>2. CASE Submit(p)
    BY <2>2 DEF Submit, ScheduleMonitor, ScheduleMonitorError
  <2>3. CASE Scheduler(p)
    BY <2>3 DEF Scheduler, EnqueueBatch, GetDueJobs, RemoveDueJobs,
                RemoveDueJobsError, Enqueue, EnqueueUnanswered, EnqueueError
  <2> QED BY <1>1, <2>1, <2>2, <2>3
<1>2. ASSUME NEW p \in Instances, Crash(p)
      PROVE  UNCHANGED runs /\ \A w \in Workers : held'[w] \in {held[w], Null}
  BY <1>2 DEF Crash
<1>3. ASSUME NEW w \in Workers, Worker(w), ~Dequeue(w)
      PROVE  UNCHANGED runs /\ \A v \in Workers : held'[v] \in {held[v], Null}
  <2>1. CASE DequeueError(w) \/ LoadMonitor(w)
    BY <2>1 DEF DequeueError, LoadMonitor
  <2>2. CASE \/ LoadMonitorError(w)
             \/ PersistHealthCheck(w) \/ PersistHealthCheckError(w)
    BY <2>2 DEF LoadMonitorError, PersistHealthCheck, PersistHealthCheckError,
                Release, TypeOK
  <2> QED BY <1>3, <2>1, <2>2 DEF Worker
<1>4. CASE Evict \/ Tick \/ UNCHANGED vars
  BY <1>4 DEF Evict, Tick, vars
<1> QED BY <1>1, <1>2, <1>3, <1>4 DEF Next

(* Every row of a job has a run that it came from: a run that still has a  *)
(* worker has left none yet.                                               *)
Recorded ==
  \A j \in Jobs : rows[j] + Cardinality(HoldersOf(j)) <= runs[j]

LEMMA HoldersFinite ==
  ASSUME NEW j
  PROVE  /\ IsFiniteSet(HoldersOf(j)) /\ Cardinality(HoldersOf(j)) \in Nat
         /\ IsFiniteSet(HoldersOf(j)') /\ Cardinality(HoldersOf(j)') \in Nat
<1>1. /\ IsFiniteSet(Workers) /\ HoldersOf(j) \in SUBSET Workers
      /\ HoldersOf(j)' \in SUBSET Workers
  BY PipelineAssumption DEF HoldersOf
<1> QED BY <1>1, FS_Subset, FS_CardinalityType

(* Rows appear in PersistHealthCheck only.                                 *)
LEMMA OthersAddNoRow ==
  ASSUME TypeOK, [Next]_vars, \A w \in Workers : ~PersistHealthCheck(w)
  PROVE  \A j \in Jobs : rows'[j] <= rows[j]
<1> USE DEF apiVars, jobVars, schedVars, workerVars
<1>0. ASSUME UNCHANGED rows PROVE \A j \in Jobs : rows'[j] <= rows[j]
  BY <1>0 DEF TypeOK
<1>1. ASSUME NEW p \in Instances, Api(p) PROVE \A j \in Jobs : rows'[j] <= rows[j]
  <2>1. CASE \E m \in Monitors : DeleteMonitor(m)
    BY <2>1 DEF DeleteMonitor, TypeOK
  <2>2. CASE ~\E m \in Monitors : DeleteMonitor(m)
    BY <1>0, <1>1, <2>2 DEF Api, CreateMonitor, UpdateMonitor
  <2> QED BY <2>1, <2>2
<1>2. ASSUME NEW p \in Instances, Submit(p) \/ Scheduler(p) \/ Crash(p)
      PROVE  UNCHANGED rows
  <2>1. CASE Submit(p) \/ Crash(p)
    BY <2>1 DEF Submit, ScheduleMonitor, ScheduleMonitorError, Crash
  <2>2. CASE Scheduler(p)
    BY <2>2 DEF Scheduler, EnqueueBatch, GetDueJobs, RemoveDueJobs,
                RemoveDueJobsError, Enqueue, EnqueueUnanswered, EnqueueError
  <2> QED BY <1>2, <2>1, <2>2
<1>3. ASSUME NEW w \in Workers, Worker(w) PROVE UNCHANGED rows
  BY <1>3 DEF Worker, Dequeue, DequeueError, LoadMonitor, LoadMonitorError,
              PersistHealthCheckError
<1>4. CASE Evict \/ Tick \/ UNCHANGED vars
  BY <1>0, <1>4 DEF Evict, Tick, vars
<1> QED BY <1>0, <1>1, <1>2, <1>3, <1>4 DEF Next

LEMMA RecordedStep ==
  ASSUME TypeOK, TypeOK', Recorded, [Next]_vars
  PROVE  Recorded'
<1> SUFFICES ASSUME NEW j \in Jobs
             PROVE  rows'[j] + Cardinality(HoldersOf(j)') <= runs'[j]
  BY DEF Recorded, HoldersOf
<1> DEFINE a == Cardinality(HoldersOf(j))
           b == Cardinality(HoldersOf(j)')
<1>1. /\ a \in Nat /\ b \in Nat /\ rows[j] \in Nat /\ rows'[j] \in Nat
      /\ runs[j] \in Nat /\ runs'[j] \in Nat /\ rows[j] + a <= runs[j]
      /\ j # Null
  BY HoldersFinite, PipelineAssumption DEF TypeOK, Recorded
<1>2. HoldersOf(j)' \subseteq HoldersOf(j) => b <= a
  BY HoldersFinite, FS_Subset
<1>3. ASSUME NEW w \in Workers, PersistHealthCheck(w)
      PROVE  rows'[j] + b <= runs'[j]
  <2>1. /\ UNCHANGED runs /\ held' = [held EXCEPT ![w] = Null]
        /\ rows' = [rows EXCEPT ![held[w]] = @ + 1]
    BY <1>3 DEF PersistHealthCheck, Release
  <2>2. HoldersOf(j)' = HoldersOf(j) \ {w}
    BY <1>1, <2>1 DEF HoldersOf, TypeOK
  <2>3. CASE held[w] = j
    <3>1. w \in HoldersOf(j)
      BY <2>3 DEF HoldersOf
    <3>2. b = a - 1
      BY <2>2, <3>1, HoldersFinite, FS_RemoveElement
    <3>3. rows'[j] = rows[j] + 1 /\ runs'[j] = runs[j]
      BY <2>1, <2>3 DEF TypeOK
    <3> HIDE DEF a, b
    <3> QED BY <1>1, <3>2, <3>3
  <2>4. CASE held[w] # j
    <3>1. rows'[j] = rows[j] /\ runs'[j] = runs[j] /\ b <= a
      BY <1>2, <2>1, <2>2, <2>4 DEF TypeOK
    <3> HIDE DEF a, b
    <3> QED BY <1>1, <3>1
  <2> QED BY <2>3, <2>4
<1>4. ASSUME NEW w \in Workers, Dequeue(w)
      PROVE  rows'[j] + b <= runs'[j]
  <2>1. /\ UNCHANGED rows /\ held' = [held EXCEPT ![w] = Head(queue)]
        /\ runs' = [runs EXCEPT ![Head(queue)] = @ + 1]
    BY <1>4 DEF Dequeue
  <2>2. CASE Head(queue) = j
    <3>1. HoldersOf(j)' \in SUBSET (HoldersOf(j) \union {w})
      BY <2>1, <2>2 DEF HoldersOf, TypeOK
    <3>2. /\ IsFiniteSet(HoldersOf(j) \union {w})
          /\ Cardinality(HoldersOf(j) \union {w}) <= a + 1
      <4>1. IsFiniteSet(HoldersOf(j))
        BY HoldersFinite
      <4>2. /\ IsFiniteSet(HoldersOf(j) \union {w})
            /\ \/ Cardinality(HoldersOf(j) \union {w}) = a
               \/ Cardinality(HoldersOf(j) \union {w}) = a + 1
        BY <4>1, FS_AddElement
      <4> HIDE DEF a
      <4> QED BY <1>1, <4>2
    <3>3. b <= Cardinality(HoldersOf(j) \union {w})
      BY <3>1, <3>2, FS_Subset
    <3>4. Cardinality(HoldersOf(j) \union {w}) \in Nat
      BY <3>2, FS_CardinalityType
    <3>5. rows'[j] = rows[j] /\ runs'[j] = runs[j] + 1
      BY <2>1, <2>2 DEF TypeOK
    <3> HIDE DEF a, b
    <3> QED BY <1>1, <3>2, <3>3, <3>4, <3>5
  <2>3. CASE Head(queue) # j
    <3>1. HoldersOf(j)' \subseteq HoldersOf(j)
      BY <2>1, <2>3 DEF HoldersOf, TypeOK
    <3>2. rows'[j] = rows[j] /\ runs'[j] = runs[j] /\ b <= a
      BY <1>2, <2>1, <2>3, <3>1 DEF TypeOK
    <3> HIDE DEF a, b
    <3> QED BY <1>1, <3>2
  <2> QED BY <2>2, <2>3
<1>5. ASSUME \A w \in Workers : ~Dequeue(w) /\ ~PersistHealthCheck(w)
      PROVE  rows'[j] + b <= runs'[j]
  <2>1. UNCHANGED runs /\ rows'[j] <= rows[j]
    BY <1>5, OthersRelease, OthersAddNoRow
  <2>2. HoldersOf(j)' \subseteq HoldersOf(j)
    BY <1>1, <1>5, OthersRelease DEF HoldersOf
  <2>3. b <= a
    BY <1>2, <2>2
  <2> HIDE DEF a, b
  <2> QED BY <1>1, <2>1, <2>3
<1> QED BY <1>3, <1>4, <1>5

(* However many instances share Redis and however often a lost reply makes *)
(* them repeat an RPUSH, a job is run at most once per instance and once   *)
(* per repetition, and leaves no more rows than it had runs, through       *)
(* crashes and failed removals: BoundedDuplication.                        *)
THEOREM DuplicationIsBounded == Spec => []BoundedDuplication
<1>1. Init => Recorded
  <2> SUFFICES ASSUME Init PROVE Recorded
    OBVIOUS
  <2>1. \A j \in Jobs : runs[j] = 0 /\ rows[j] = 0 /\ j # Null
    BY PipelineAssumption DEF Init
  <2>2. \A j \in Jobs : HoldersOf(j) = {}
    BY <2>1 DEF Init, HoldersOf
  <2> QED BY <2>1, <2>2, FS_EmptySet DEF Recorded
<1>2. TypeOK /\ TypeOK' /\ Recorded /\ [Next]_vars => Recorded'
  BY RecordedStep
<1>3. TypeOK /\ Shares /\ Recorded => BoundedDuplication
  <2> SUFFICES ASSUME TypeOK, Shares, Recorded, NEW j \in Jobs
               PROVE  /\ runs[j] <= Cardinality(Instances) + Cardinality(repeats[j])
                      /\ runs[j] <= (MaxRetries + 1) * Cardinality(Instances)
                      /\ rows[j] <= runs[j]
    BY DEF BoundedDuplication
  <2> DEFINE N == Cardinality(Instances)
             x == Cardinality(repeats[j])
  <2>1. /\ runs[j] \in Nat /\ rows[j] \in Nat /\ Copies(queue, j) \in Nat
        /\ Cardinality(HoldersOf(j)) \in Nat /\ Cardinality(Fetchers(j)) \in Nat
        /\ MaxRetries \in Nat /\ N \in Nat /\ x \in Nat
        /\ x <= N * MaxRetries /\ N * MaxRetries \in Nat
    BY PositionsFinite, HoldersFinite, FetchersFinite, RepeatsFinite, BoundsNat DEF TypeOK
  <2>2. /\ runs[j] + Copies(queue, j) + Cardinality(Fetchers(j)) <= N + x
        /\ rows[j] + Cardinality(HoldersOf(j)) <= runs[j]
    BY DEF Shares, Share, Recorded
  <2> HIDE DEF N, x
  <2>3. runs[j] <= N + x /\ rows[j] <= runs[j]
    BY <2>1, <2>2
  <2>4. (MaxRetries + 1) * N = N * MaxRetries + N
    BY <2>1
  <2>5. runs[j] <= (MaxRetries + 1) * N
    BY <2>1, <2>3, <2>4
  <2> QED BY <2>3, <2>5 DEF N, x
<1> QED BY <1>1, <1>2, <1>3, TypeCorrect, CopiesAreAccountedFor, PTL DEF Spec

-----------------------------------------------------------------------------
(* The pipeline of one instance implements JobLedger: ScheduleMonitor      *)
(* submits a job, Enqueue hands it over, an unanswered RPUSH repeats it,   *)
(* Dequeue starts it, and every other step can only lose some of it.       *)

CopiesOf == [j \in Jobs |-> Copies(queue, j)]
RepeatsOf == [j \in Jobs |-> Cardinality(repeats[j])]

LEMMA LedgerLose ==
  ASSUME TypeOK, TypeOK', Loses
  PROVE  JL!Lose
<1> DEFINE S == { j \in Jobs : Place[j] = "scheduled" /\ ~Upstream(j)' }
<1>1. \A j \in Jobs : Upstream(j)' => Upstream(j)
  BY DEF Upstream, Loses
<1>2. \A j \in Jobs : Created(j)' = Created(j)
  BY DEF Created, Loses
<1>3. S \in SUBSET { j \in Jobs : Place[j] = "scheduled" }
  OBVIOUS
<1>4. Place' = [j \in Jobs |-> IF j \in S THEN "settled" ELSE Place[j]]
  <2>1. ASSUME NEW j \in Jobs
        PROVE  Place'[j] = IF j \in S THEN "settled" ELSE Place[j]
    BY <1>1, <1>2 DEF Place
  <2> QED BY <2>1 DEF Place
<1>5. \A j \in Jobs : Copies(queue, j)' = Copies(queue', j)
  BY DEF Copies, Positions
<1>6. CopiesOf' \in [Jobs -> Nat] /\ \A j \in Jobs : CopiesOf'[j] <= CopiesOf[j]
  BY <1>5, SpentNat DEF CopiesOf, Loses
<1>7. UNCHANGED <<runs, RepeatsOf>>
  BY DEF Loses, RepeatsOf
<1> QED BY <1>3, <1>4, <1>6, <1>7 DEF JL!Lose, CopiesOf, RepeatsOf

LEMMA LedgerSubmit ==
  ASSUME TypeOK, Known, NEW j \in Jobs, Fresh(j)
  PROVE  JL!Submit(j)
<1>1. /\ UNCHANGED <<batch, queue, runs, repeats>> /\ schedule' = schedule \union {j}
      /\ ~Created(j) /\ Created(j)' /\ \A k \in Jobs : k # j => mon'[k] = mon[k]
  BY DEF Fresh, schedVars
<1>2. Place[j] = "none" /\ Place'[j] = "scheduled"
  BY <1>1 DEF Place, Upstream
<1>3. \A k \in Jobs : k # j => Place'[k] = Place[k]
  <2> SUFFICES ASSUME NEW k \in Jobs, k # j PROVE Place'[k] = Place[k]
    OBVIOUS
  <2>1. Upstream(k)' = Upstream(k) /\ Created(k)' = Created(k)
    BY <1>1 DEF Upstream, Created
  <2> QED BY <2>1 DEF Place
<1>4. Place' = [Place EXCEPT ![j] = "scheduled"]
  BY <1>2, <1>3 DEF Place
<1>5. UNCHANGED <<CopiesOf, RepeatsOf>>
  BY <1>1 DEF CopiesOf, RepeatsOf, Copies, Positions
<1> QED BY <1>1, <1>2, <1>4, <1>5 DEF JL!Submit, CopiesOf, RepeatsOf

LEMMA LedgerStart ==
  ASSUME TypeOK, TypeOK', NEW w \in Workers, Dequeue(w)
  PROVE  \E j \in Jobs : JL!Start(j)
<1> DEFINE j == Head(queue)
<1>1. /\ UNCHANGED <<mon, schedule, batch, repeats>>
      /\ queue \in Seq(Jobs) /\ queue # <<>> /\ queue' = Tail(queue)
      /\ runs' = [runs EXCEPT ![j] = @ + 1]
  BY DEF Dequeue, TypeOK, jobVars, schedVars
<1>2. j \in Jobs
  BY <1>1
<1> HIDE DEF j
<1>3. \A k \in Jobs : Copies(queue, k) = Copies(queue', k) + (IF k = j THEN 1 ELSE 0)
  BY <1>1, CopiesTail DEF j
<1>4. \A k \in Jobs : Copies(queue, k) \in Nat /\ Copies(queue', k) \in Nat
  BY SpentNat
<1>5. \A k \in Jobs : Copies(queue, k)' = Copies(queue', k)
  BY DEF Copies, Positions
<1>6. CopiesOf[j] > 0 /\ CopiesOf' = [CopiesOf EXCEPT ![j] = @ - 1]
  <2>1. \A k \in Jobs : CopiesOf[k] = Copies(queue, k) /\ CopiesOf'[k] = Copies(queue', k)
    BY <1>5 DEF CopiesOf
  <2>2. \A k \in Jobs : CopiesOf'[k] = IF k = j THEN CopiesOf[k] - 1 ELSE CopiesOf[k]
    BY <1>3, <1>4, <2>1
  <2>3. CopiesOf[j] > 0
    BY <1>2, <1>3, <1>4, <2>1
  <2>4. /\ CopiesOf = [k \in Jobs |-> CopiesOf[k]]
        /\ CopiesOf' = [k \in Jobs |-> CopiesOf'[k]]
    BY DEF CopiesOf
  <2> QED BY <1>2, <2>2, <2>3, <2>4
<1>7. UNCHANGED <<Place, RepeatsOf>>
  BY <1>1 DEF Place, RepeatsOf, Created, Upstream
<1>8. JL!Start(j)
  BY <1>1, <1>6, <1>7 DEF JL!Start, CopiesOf, RepeatsOf
<1> QED BY <1>2, <1>8

LEMMA LedgerAppend ==
  ASSUME OneInstance, TypeOK, TypeOK', Known, Shares, NEW p \in Instances, NEW j \in Jobs,
         Enqueue(p, j) \/ EnqueueUnanswered(p, j)
  PROVE  JL!HandOver(j) \/ JL!Repeat(j)
<1>1. /\ UNCHANGED <<mon, schedule, runs>> /\ queue' = Append(queue, j)
      /\ queue \in Seq(Jobs) /\ phase[p] = "enqueue" /\ j \in batch[p]
  BY DEF Enqueue, EnqueueUnanswered, Advance, NextOfBatch, jobVars, TypeOK
<1>2. j \notin schedule /\ Created(j) /\ Place[j] = "scheduled"
  BY <1>1 DEF Shares, Known, Waiting, Upstream, Place
<1>3. \A k \in Jobs : Copies(queue', k) = Copies(queue, k) + (IF k = j THEN 1 ELSE 0)
  BY <1>1, CopiesAppend
<1>4. \A k \in Jobs : Copies(queue, k)' = Copies(queue', k) /\ Copies(queue, k) \in Nat
  BY SpentNat DEF Copies, Positions
<1>5. CopiesOf' = [CopiesOf EXCEPT ![j] = @ + 1]
  <2>1. \A k \in Jobs : CopiesOf[k] = Copies(queue, k) /\ CopiesOf'[k] = Copies(queue', k)
    BY <1>4 DEF CopiesOf
  <2>2. \A k \in Jobs : CopiesOf'[k] = IF k = j THEN CopiesOf[k] + 1 ELSE CopiesOf[k]
    BY <1>3, <1>4, <2>1
  <2>3. /\ CopiesOf = [k \in Jobs |-> CopiesOf[k]]
        /\ CopiesOf' = [k \in Jobs |-> CopiesOf'[k]]
    BY DEF CopiesOf
  <2> QED BY <2>2, <2>3
<1>6. CASE Enqueue(p, j)
  <2>1. UNCHANGED repeats /\ \A q \in Instances : q = p /\ batch'[q] = batch[q] \ {j}
    BY <1>6, AdvanceStep DEF Enqueue, AdvancedBatch, OneInstance, jobVars
  <2>2. ASSUME NEW k \in Jobs PROVE Place'[k] = IF k = j THEN "settled" ELSE Place[k]
    BY <1>1, <1>2, <2>1 DEF Place, Upstream, Created
  <2>3. Place' = [Place EXCEPT ![j] = "settled"]
    BY <2>2 DEF Place
  <2>4. UNCHANGED RepeatsOf
    BY <2>1 DEF RepeatsOf
  <2> QED BY <1>1, <1>2, <1>5, <2>3, <2>4 DEF JL!HandOver, CopiesOf, RepeatsOf
<1>7. CASE EnqueueUnanswered(p, j)
  <2> DEFINE new == <<p, tries[p][j] + 1>>
  <2>1. /\ UNCHANGED batch /\ repeats' = [repeats EXCEPT ![j] = @ \union {new}]
        /\ repeats \in [Jobs -> SUBSET (Instances \X (1..MaxRetries))]
        /\ repeats' \in [Jobs -> SUBSET (Instances \X (1..MaxRetries))]
        /\ tries[p][j] \in 0..MaxRetries /\ tries[p][j] + 1 \in 1..MaxRetries
    <3>1. tries[p][j] \in 0..MaxRetries /\ tries[p][j] < MaxRetries
      BY <1>7 DEF EnqueueUnanswered, TypeOK
    <3>2. tries[p][j] + 1 \in 1..MaxRetries
      BY <3>1, BoundsNat
    <3> QED BY <1>7, <3>1, <3>2 DEF EnqueueUnanswered, TypeOK
  <2>2. new \notin repeats[j]
    <3>1. new \in repeats[j] => tries[p][j] + 1 <= tries[p][j]
      BY <1>1, <2>1 DEF Shares
    <3> QED BY <2>1, <3>1
  <2>3. repeats'[j] = repeats[j] \union {new} /\ IsFiniteSet(repeats[j])
    BY <2>1, RepeatsFinite
  <2> HIDE DEF new
  <2>4. Cardinality(repeats'[j]) = Cardinality(repeats[j]) + 1
    BY <2>2, <2>3, FS_AddElement
  <2>5. Cardinality(repeats[j]) < MaxRetries
    <3>1. Instances = {p}
      BY DEF OneInstance
    <3>2. Cardinality(Instances) = 1
      BY <3>1, FS_Singleton
    <3>3. Cardinality(repeats'[j]) <= Cardinality(Instances) * MaxRetries
      BY <2>1, RepeatsFinite
    <3> QED BY <2>4, <3>2, <3>3, SpentNat, BoundsNat
  <2>6. RepeatsOf[j] < MaxRetries /\ RepeatsOf' = [RepeatsOf EXCEPT ![j] = @ + 1]
    BY <2>1, <2>4, <2>5 DEF RepeatsOf
  <2>7. UNCHANGED Place
    BY <1>1, <2>1 DEF Place, Upstream, Created
  <2> QED BY <1>1, <1>2, <1>5, <2>6, <2>7 DEF JL!Repeat, CopiesOf, RepeatsOf
<1> QED BY <1>6, <1>7

(* What JobLedger promises of every job holds in the pipeline of one       *)
(* instance, for any number of repetitions: a job is started once and once *)
(* more for each repeated command, and once the scheduler is done with it  *)
(* and its copies are gone nothing brings it back.                         *)
THEOREM PipelineImplementsLedger ==
  ASSUME OneInstance
  PROVE  Spec => ImplementsLedger
<1>1. Init => JL!Init
  <2> SUFFICES ASSUME Init PROVE JL!Init
    OBVIOUS
  <2>1. \A j \in Jobs : Copies(queue, j) = 0
    BY NoCopies DEF Init
  <2>2. \A j \in Jobs : Cardinality(repeats[j]) = 0
    BY FS_EmptySet DEF Init
  <2> QED BY <2>1, <2>2 DEF Init, JL!Init, Place, Created
<1>2. TypeOK /\ TypeOK' /\ Known /\ Shares /\ [Next]_vars => [JL!Next]_(JL!vars)
  <2> SUFFICES ASSUME TypeOK, TypeOK', Known, Shares, [Next]_vars PROVE JL!Next
    OBVIOUS
  <2>1. CASE Loses
    BY <2>1, LedgerLose DEF JL!Next
  <2>2. ASSUME NEW j \in Jobs, Fresh(j) PROVE JL!Next
    BY <2>2, LedgerSubmit DEF JL!Next
  <2>3. ASSUME NEW w \in Workers, Dequeue(w) PROVE JL!Next
    BY <2>3, LedgerStart DEF JL!Next
  <2>4. ASSUME NEW p \in Instances, NEW j \in Jobs,
               Enqueue(p, j) \/ EnqueueUnanswered(p, j)
        PROVE  JL!Next
    <3>1. JL!HandOver(j) \/ JL!Repeat(j)
      BY <2>4, LedgerAppend
    <3> QED BY <3>1 DEF JL!Next
  <2> QED BY <2>1, <2>2, <2>3, <2>4, OtherStepsLose
<1> QED BY <1>1, <1>2, TypeCorrect, JobsAreKnown, CopiesAreAccountedFor, PTL
        DEF Spec, ImplementsLedger, JL!Spec
=============================================================================
