------------------------------ MODULE Lifecycle ------------------------------
(***************************************************************************)
(* Starting, stopping and watching the two background services: the worker *)
(* pool (src/usecase/worker_pool.go) and the job scheduler                 *)
(* (src/usecase/scheduler.go), which share one pattern of a lock, a flag,  *)
(* a stop channel and a wait group, and the system handlers that ask them  *)
(* (src/interface/http/handlers.go).  JobPipeline has what their loops do  *)
(* with the jobs.                                                          *)
(*                                                                         *)
(* Loops are numbered: 0 is that of the scheduler, 1 .. PoolSize are the   *)
(* workers.  MaxStarts bounds the starts of a service, MaxJobs the jobs.   *)
(***************************************************************************)
EXTENDS Integers, Sequences, FiniteSets

CONSTANTS Callers, PoolSize, MaxStarts, MaxJobs, None

ASSUME LifecycleAssumption ==
    /\ IsFiniteSet(Callers) /\ None \notin Callers
    /\ PoolSize \in Nat \ {0} /\ MaxStarts \in Nat /\ MaxJobs \in Nat

VARIABLES
    services,   \* of each service: its flag, its channel and its lock
    loops,      \* of each loop: where it is, the jobs it finished, and those it took late
    calls,      \* of each caller: what is left to do, and how far GetStats has read
    jobs,       \* jobs left to take from the queue
    panicked    \* a channel was closed twice: the process is gone

vars == <<services, loops, calls, jobs, panicked>>

Services == {"pool", "scheduler"}
Workers == 1 .. PoolSize
Of(s) == IF s = "pool" THEN Workers ELSE {0}
Owner(l) == IF l = 0 THEN "scheduler" ELSE "pool"

\* The jobs some workers have finished, each as the worker and its number.
Done(ws) == UNION {{w} \X (1 .. loops[w].done) : w \in ws}
Total == Cardinality(Done(Workers))

\* What the handlers Ready and Metrics ask, in their order; Ready asks nothing
\* when its query fails.
Ready == <<<<"running", "pool">>, <<"running", "scheduler">>>>
Metrics == <<<<"stats", "pool">>, <<"running", "pool">>, <<"running", "scheduler">>>>
Requests == {Ready, Metrics} \cup {<<<<op, s>>>> : op \in {"start", "stop"}, s \in Services}

Idle == [todo |-> <<>>, at |-> 0, sum |-> 0, base |-> 0]
Off == [pc |-> "off", done |-> 0, late |-> 0]

Init ==
    /\ services = [s \in Services |-> [running |-> FALSE, closed |-> FALSE, writer |-> None,
                                       readers |-> {}, starts |-> 0]]
    /\ loops = [l \in {0} \cup Workers |-> Off]
    /\ calls = [c \in Callers |-> Idle]
    /\ jobs = MaxJobs
    /\ panicked = FALSE

----------------------------------------------------------------------------
Doing(c, op, s) == calls[c].todo # <<>> /\ Head(calls[c].todo) = <<op, s>>
Return(c) == calls' = [calls EXCEPT ![c] = [Idle EXCEPT !.todo = Tail(calls[c].todo)]]
Starting(s) == {c \in Callers : Doing(c, "start", s)}

Call(c) ==
    /\ calls[c].todo = <<>>
    /\ \E r \in Requests :
         /\ \A s \in Services : r = <<<<"start", s>>>> =>
              services[s].starts + Cardinality(Starting(s)) < MaxStarts
         /\ calls' = [calls EXCEPT ![c].todo = r]
    /\ UNCHANGED <<services, loops, jobs, panicked>>

\* The lock: one writer, or any number of readers.
MayWrite(s) == services[s].writer = None /\ services[s].readers = {}
MayRead(s) == services[s].writer = None

\* Start: a service that runs is left alone.  The stop channel is not made anew.
MayStart(s) == ~services[s].running
Start(c, s) ==
    /\ Doing(c, "start", s) /\ MayWrite(s)
    /\ IF MayStart(s)
       THEN /\ services' = [services EXCEPT ![s].running = TRUE, ![s].starts = @ + 1]
            /\ loops' = [l \in DOMAIN loops |->
                           IF l \in Of(s) THEN [Off EXCEPT !.pc = "select"] ELSE loops[l]]
       ELSE UNCHANGED <<services, loops>>
    /\ Return(c)
    /\ UNCHANGED <<jobs, panicked>>

\* Stop keeps the lock until the loops have ended.
MayStopAlways(s) == TRUE
MayStop(s) == services[s].running
Stop(c, s) ==
    /\ Doing(c, "stop", s) /\ MayWrite(s)
    /\ \/ ~MayStop(s) /\ Return(c) /\ UNCHANGED <<services, panicked>>
       \/ /\ MayStop(s) /\ ~services[s].closed
          /\ services' = [services EXCEPT ![s].running = FALSE, ![s].closed = TRUE,
                                          ![s].writer = c]
          /\ UNCHANGED <<calls, panicked>>
       \/ /\ MayStop(s) /\ services[s].closed
          /\ panicked' = TRUE /\ UNCHANGED <<services, calls>>
    /\ UNCHANGED <<loops, jobs>>

EndedAtOnce(s) == TRUE
Ended(s) == \A l \in Of(s) : loops[l].pc = "off"
Wait(c, s) ==
    /\ Doing(c, "stop", s) /\ services[s].writer = c /\ Ended(s)
    /\ services' = [services EXCEPT ![s].writer = None]
    /\ Return(c)
    /\ UNCHANGED <<loops, jobs, panicked>>

IsRunning(c, s) ==
    /\ Doing(c, "running", s) /\ MayRead(s)
    /\ Return(c)
    /\ UNCHANGED <<services, loops, jobs, panicked>>

\* GetStats holds the read lock while it asks Redis and reads the counters of
\* the workers one by one, as they go on.
GetStats(c) ==
    /\ Doing(c, "stats", "pool") /\ calls[c].at = 0 /\ MayRead("pool")
    /\ services' = [services EXCEPT !["pool"].readers = @ \cup {c}]
    /\ calls' = [calls EXCEPT ![c].at = 1, ![c].base = Total]
    /\ UNCHANGED <<loops, jobs, panicked>>

CountedToLast(w) == IF w = PoolSize THEN 0 ELSE loops[w].done
Counted(w) == loops[w].done
Count(c) ==
    /\ calls[c].at \in Workers
    /\ calls' = [calls EXCEPT ![c].at = @ + 1, ![c].sum = @ + Counted(calls[c].at)]
    /\ UNCHANGED <<services, loops, jobs, panicked>>

Answer(c) ==
    /\ calls[c].at > PoolSize
    /\ services' = [services EXCEPT !["pool"].readers = @ \ {c}]
    /\ Return(c)
    /\ UNCHANGED <<loops, jobs, panicked>>

----------------------------------------------------------------------------
GoLoop(l, pc) == loops' = [loops EXCEPT ![l].pc = pc]

\* A loop ends when it sees the channel closed.
SeesStopNever(l) == FALSE
SeesStop(l) == services[Owner(l)].closed
Leave(l) ==
    /\ loops[l].pc = "select" /\ SeesStop(l)
    /\ GoLoop(l, "off")
    /\ UNCHANGED <<services, calls, jobs, panicked>>

\* A worker looks at the channel first and then waits for a job for a second.
PollsAlways(w) == TRUE
Polls(w) == ~SeesStop(w)
Poll(w) ==
    /\ loops[w].pc = "select" /\ Polls(w)
    /\ GoLoop(w, "dequeue")
    /\ UNCHANGED <<services, calls, jobs, panicked>>

AfterErrorOff == "off"
AfterError == "select"
Dequeue(w) ==
    /\ loops[w].pc = "dequeue"
    /\ \/ /\ jobs > 0 /\ jobs' = jobs - 1
          /\ loops' = [loops EXCEPT ![w].pc = "job",
                                    ![w].late = IF SeesStop(w) THEN @ + 1 ELSE @]
       \/ GoLoop(w, "select") /\ UNCHANGED jobs   \* no job
       \/ GoLoop(w, AfterError) /\ UNCHANGED jobs
    /\ UNCHANGED <<services, calls, panicked>>

\* The loop of the scheduler selects among the channel and its ticker, and
\* either may be chosen when both are ready.
Tick ==
    /\ loops[0].pc = "select"
    /\ GoLoop(0, "job")
    /\ UNCHANGED <<services, calls, jobs, panicked>>

\* A job, or the due jobs of a tick, are done with.
Finish(l) ==
    /\ loops[l].pc = "job"
    /\ loops' = [loops EXCEPT ![l].pc = "select", ![l].done = IF l = 0 THEN @ ELSE @ + 1]
    /\ UNCHANGED <<services, calls, jobs, panicked>>

Locks(c) ==
    \/ \E s \in Services : Start(c, s) \/ Stop(c, s) \/ IsRunning(c, s)
    \/ GetStats(c)
Proceeds(c) == (\E s \in Services : Wait(c, s)) \/ Count(c) \/ Answer(c)
Works(l) ==
    \/ Finish(l)
    \/ l \in Workers /\ (Leave(l) \/ Poll(l) \/ Dequeue(l))

Next ==
    /\ ~panicked
    /\ \/ \E c \in Callers : Call(c) \/ Locks(c) \/ Proceeds(c)
       \/ \E l \in DOMAIN loops : Works(l)
       \/ Leave(0) \/ Tick

\* The lock of Go starves nobody, a call of Redis and a job have deadlines, and
\* select chooses at random among what is ready.
Fairness ==
    /\ \A c \in Callers : SF_vars(~panicked /\ Locks(c)) /\ WF_vars(~panicked /\ Proceeds(c))
    /\ \A l \in {0} \cup Workers : WF_vars(~panicked /\ Works(l))
    /\ SF_vars(~panicked /\ Leave(0))

Spec == Init /\ [][Next]_vars /\ Fairness

----------------------------------------------------------------------------
\* The state has its type.
TypeOK ==
    /\ services \in [Services -> [running : BOOLEAN, closed : BOOLEAN,
                                  writer : Callers \cup {None}, readers : SUBSET Callers,
                                  starts : 0 .. MaxStarts]]
    /\ \A l \in DOMAIN loops :
         loops[l].pc \in {"off", "select", "dequeue", "job"} /\ loops[l].done \in 0 .. MaxJobs
    /\ \A c \in Callers :
         calls[c].at \in 0 .. PoolSize + 1 /\ {calls[c].sum, calls[c].base} \subseteq 0 .. MaxJobs
    /\ jobs \in 0 .. MaxJobs /\ panicked \in BOOLEAN

\* When Stop has returned, and until the next Start, no worker has a job and
\* no batch is being enqueued.
StopWaits ==
    \A s \in Services : MayRead(s) /\ ~services[s].running =>
        \A l \in Of(s) : loops[l].pc = "off"

\* A service that says it runs has all its loops, whatever errors they met,
\* unless it was stopped and started again.
RunningMeansWorking ==
    \A s \in Services : services[s].running /\ services[s].starts = 1 =>
        \A l \in Of(s) : loops[l].pc # "off"

\* However the calls of Start and Stop interleave, the stop channel is closed
\* twice only when a service was started twice.
PanicNeedsARestart == panicked => \E s \in Services : services[s].starts > 1

\* GetStats counts every job that was finished when it began, and none that
\* is not finished when it ends, though the workers go on while it reads.
StatsAreBetween ==
    \A c \in Callers : calls[c].at = PoolSize + 1 =>
        calls[c].base <= calls[c].sum /\ calls[c].sum <= Total

\* After a stop was asked for, a worker takes at most one more job: the one it
\* was waiting for.
OneLateJob == \A w \in Workers : loops[w].late <= 1

\* Every call returns, those of the handlers too, though Stop holds the lock
\* until the last job is done.
CallsReturn ==
    \A c \in Callers : []<>(calls[c].todo = <<>> \/ panicked)

\* Stop lets one more job in per worker, ends when the last is done, and may
\* be called at any time in the life of a service that is started once.
StopIsSound == TypeOK /\ StopWaits /\ OneLateJob /\ PanicNeedsARestart

\* What IsRunning and GetStats answer is so.
AnswersAreSound == RunningMeansWorking /\ StatsAreBetween
=============================================================================
