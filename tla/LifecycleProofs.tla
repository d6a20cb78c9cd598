-------------------------- MODULE LifecycleProofs --------------------------
(***************************************************************************)
(* What the run of MCLifecycle checks on two callers and two workers, for  *)
(* every number of callers, workers, starts and jobs.  The inductive       *)
(* invariant is split by what its parts are about: the types, the flags of *)
(* a service, its loops, and the numbers that GetStats adds up.            *)
(***************************************************************************)
EXTENDS Lifecycle, FiniteSetTheorems, TLAPS

\* What a caller may have left to do: a request, or the rest of one.
Todos == Requests \cup {<<<<"running", "scheduler">>>>, <<>>}

Service == [running : BOOLEAN, closed : BOOLEAN, writer : Callers \cup {None},
            readers : SUBSET Callers, starts : Nat]
Loop == [pc : {"off", "select", "dequeue", "job"}, done : Nat, late : Nat]
CallState == [todo : Todos, at : 0 .. PoolSize + 1, sum : Nat, base : 0 .. MaxJobs]

Types ==
    /\ services \in [Services -> Service]
    /\ loops \in [{0} \cup Workers -> Loop]
    /\ calls \in [Callers -> CallState]
    /\ jobs \in 0 .. MaxJobs /\ panicked \in BOOLEAN

\* The starts that were made and those that were asked for.
StartsBounded ==
    \A s \in Services : services[s].starts + Cardinality(Starting(s)) <= MaxStarts

\* A service that runs although its channel is closed is in its second life.
Flags ==
    /\ \A s \in Services :
         /\ services[s].running \/ services[s].closed => services[s].starts >= 1
         /\ services[s].running /\ services[s].closed => services[s].starts >= 2
    /\ PanicNeedsARestart

\* Only a worker that polled before the channel was closed takes a late job.
Lateness ==
    \A w \in Workers :
        /\ loops[w].late <= 1
        /\ ~services["pool"].closed \/ loops[w].pc = "dequeue" => loops[w].late = 0

\* Every job is in the queue, with a worker, or done; the scheduler does none.
Busy == {w \in Workers : loops[w].pc = "job"}
JobsKept ==
    /\ IsFiniteSet(Done(Workers))
    /\ jobs + Total + Cardinality(Busy) <= MaxJobs
    /\ loops[0].done = 0

\* What GetStats has added up lies between the jobs done when it began and
\* those done by now, and its read lock keeps Start from resetting them.
Summing(c) ==
    /\ calls[c].at = 0 => calls[c].sum = 0 /\ calls[c].base = 0
    /\ \A a \in 1 .. PoolSize + 1 : calls[c].at = a =>
         /\ c \in services["pool"].readers /\ calls[c].todo # <<>>
         /\ calls[c].base <= calls[c].sum + Cardinality(Done(a .. PoolSize))
         /\ calls[c].sum <= Cardinality(Done(1 .. (a - 1)))
Sums == \A c \in Callers : Summing(c)

LifecycleInv ==
    Types /\ StartsBounded /\ Flags /\ Lateness /\ StopWaits /\ RunningMeansWorking
    /\ JobsKept /\ Sums

----------------------------------------------------------------------------
LEMMA Sizes ==
  /\ PoolSize \in Nat \ {0} /\ MaxStarts \in Nat /\ MaxJobs \in Nat
  /\ 0 \notin Workers /\ Workers \in SUBSET Nat
  /\ \A l \in {0} \cup Workers : /\ Owner(l) \in Services
                                /\ \A s \in Services : l \in Of(s) <=> Owner(l) = s
  BY LifecycleAssumption DEF Workers, Owner, Of, Services

(* A caller who did something has the rest left, and that starts nothing.  *)
LEMMA RestOfRequest ==
  ASSUME NEW r \in Todos, r # <<>>
  PROVE  /\ Tail(r) \in Todos
         /\ \A s \in Services : Tail(r) # <<>> => Head(Tail(r)) # <<"start", s>>
<1>0. ASSUME NEW s \in Services
      PROVE  /\ <<"running", "pool">> # <<"start", s>>
             /\ <<"running", "scheduler">> # <<"start", s>>
  OBVIOUS
<1>1. CASE r = Ready
  <2>1. Tail(r) = <<<<"running", "scheduler">>>>
    BY <1>1 DEF Ready
  <2>2. Head(Tail(r)) = <<"running", "scheduler">>
    <3>1. Head(<<<<"running", "scheduler">>>>) = <<"running", "scheduler">>
      OBVIOUS
    <3> QED BY <2>1, <3>1, Zenon
  <2>3. Tail(r) \in Todos
    BY <2>1 DEF Todos
  <2> QED BY <1>0, <2>2, <2>3
<1>2. CASE r = Metrics
  <2>1. Tail(r) = <<<<"running", "pool">>, <<"running", "scheduler">>>>
    BY <1>2 DEF Metrics
  <2>2. Head(Tail(r)) = <<"running", "pool">>
    <3>1. Head(<<<<"running", "pool">>, <<"running", "scheduler">>>>) = <<"running", "pool">>
      OBVIOUS
    <3> QED BY <2>1, <3>1, Zenon
  <2>3. Tail(r) \in Todos
    <3>1. Tail(r) = Ready
      BY <2>1 DEF Ready
    <3>2. Ready \in Todos
      BY DEF Todos, Requests
    <3> QED BY <3>1, <3>2
  <2> QED BY <1>0, <2>2, <2>3
<1>3. CASE r = <<<<"running", "scheduler">>>>
  BY <1>3 DEF Todos
<1>4. ASSUME NEW op \in {"start", "stop"}, NEW s \in Services, r = <<<<op, s>>>>
      PROVE  Tail(r) = <<>>
  BY <1>4
<1> QED BY <1>1, <1>2, <1>3, <1>4 DEF Todos, Requests

LEMMA FirstOfRequest ==
  ASSUME NEW r \in Requests, NEW s \in Services, r # <<<<"start", s>>>>
  PROVE  r # <<>> /\ Head(r) # <<"start", s>>
<1>1. CASE r = Ready
  <2>1. Head(r) = <<"running", "pool">>
    BY <1>1 DEF Ready
  <2> QED BY <1>1, <2>1 DEF Ready
<1>2. CASE r = Metrics
  <2>1. Head(r) = <<"stats", "pool">>
    BY <1>2 DEF Metrics
  <2> QED BY <1>2, <2>1 DEF Metrics
<1>3. ASSUME NEW op \in {"start", "stop"}, NEW z \in Services, r = <<<<op, z>>>>
      PROVE  r # <<>> /\ Head(r) # <<"start", s>>
  <2>1. Head(r) = <<op, z>>
    BY <1>3
  <2> QED BY <1>3, <2>1
<1> QED BY <1>1, <1>2, <1>3 DEF Requests

(* The caller returns; the others stay where they are.                     *)
LEMMA Returned ==
  ASSUME Types, NEW c \in Callers, calls[c].todo # <<>>, Return(c)
  PROVE  /\ calls' \in [Callers -> CallState]
         /\ calls'[c].at = 0 /\ calls'[c].sum = 0 /\ calls'[c].base = 0
         /\ calls'[c].todo = Tail(calls[c].todo)
         /\ \A d \in Callers : d # c => calls'[d] = calls[d]
<1>1. calls \in [Callers -> CallState] /\ calls[c].todo \in Todos
  BY DEF Types, CallState
<1>2. PICK r : r = [Idle EXCEPT !.todo = Tail(calls[c].todo)]
  OBVIOUS
<1>3. r = [todo |-> Tail(calls[c].todo), at |-> 0, sum |-> 0, base |-> 0]
  BY <1>2 DEF Idle
<1>4. Tail(calls[c].todo) \in Todos
  BY <1>1, RestOfRequest
<1>5. r \in CallState
  BY <1>3, <1>4, Sizes DEF CallState
<1>6. calls' = [calls EXCEPT ![c] = r]
  BY <1>2 DEF Return
<1> QED BY <1>1, <1>3, <1>5, <1>6

(* The steps of the loops, one loop at a time.                             *)
LEMMA LoopStep ==
  ASSUME Types, NEW l \in {0} \cup Workers,
         Works(l) \/ (l = 0 /\ (Leave(0) \/ Tick))
  PROVE  /\ UNCHANGED <<services, calls, panicked>>
         /\ loops' \in [{0} \cup Workers -> Loop] /\ jobs' \in 0 .. MaxJobs
         /\ loops[l].pc # "off"
         /\ loops'[l].pc = "off" => SeesStop(l)
         /\ loops'[l].late <= loops[l].late + 1
         /\ loops'[l].late # loops[l].late => loops[l].pc = "dequeue" /\ SeesStop(l)
         /\ loops'[l].pc = "dequeue" => ~SeesStop(l) /\ loops'[l].late = loops[l].late
         /\ \/ /\ loops'[l].done = loops[l].done /\ jobs' = jobs
               /\ loops'[l].pc # "job" \/ l = 0
            \/ /\ loops'[l].done = loops[l].done /\ jobs' = jobs - 1
               /\ l \in Workers /\ loops[l].pc # "job"
            \/ /\ loops'[l].done = loops[l].done + 1 /\ jobs' = jobs
               /\ l \in Workers /\ loops[l].pc = "job" /\ loops'[l].pc # "job"
         /\ \A k \in {0} \cup Workers : k # l => loops'[k] = loops[k]
<1>1. loops \in [{0} \cup Workers -> Loop] /\ loops[l] \in Loop /\ jobs \in 0 .. MaxJobs
  BY DEF Types
<1>2. ASSUME NEW pc \in {"off", "select", "dequeue", "job"}, GoLoop(l, pc)
      PROVE  /\ loops' \in [{0} \cup Workers -> Loop]
             /\ loops'[l].pc = pc /\ loops'[l].done = loops[l].done
             /\ loops'[l].late = loops[l].late
             /\ \A k \in {0} \cup Workers : k # l => loops'[k] = loops[k]
  BY <1>1, <1>2 DEF GoLoop, Loop
<1>3. CASE Leave(l)
  BY <1>1, <1>2, <1>3 DEF Leave, Loop
<1>4. CASE l = 0 /\ Tick
  BY <1>1, <1>2, <1>4 DEF Tick, Loop
<1>5. CASE l \in Workers /\ Poll(l)
  BY <1>1, <1>2, <1>5 DEF Poll, Polls, Loop
<1>6. CASE l \in Workers /\ Dequeue(l)
  <2>1. loops[l].pc = "dequeue" /\ UNCHANGED <<services, calls, panicked>>
    BY <1>6 DEF Dequeue
  <2>2. CASE GoLoop(l, "select") /\ UNCHANGED jobs
    BY <1>1, <1>2, <2>1, <2>2 DEF Loop
  <2>3. CASE /\ jobs > 0 /\ jobs' = jobs - 1
             /\ loops' = [loops EXCEPT ![l].pc = "job",
                                       ![l].late = IF SeesStop(l) THEN @ + 1 ELSE @]
    <3> DEFINE n == IF SeesStop(l) THEN loops[l].late + 1 ELSE loops[l].late
    <3>1. n \in Nat /\ loops[l].late \in Nat /\ n <= loops[l].late + 1
      BY <1>1 DEF Loop
    <3>2. /\ loops' \in [{0} \cup Workers -> Loop]
          /\ loops'[l].pc = "job" /\ loops'[l].done = loops[l].done /\ loops'[l].late = n
          /\ \A k \in {0} \cup Workers : k # l => loops'[k] = loops[k]
      <4>1. loops' = [loops EXCEPT ![l] = [loops[l] EXCEPT !.pc = "job", !.late = n]]
        BY <1>1, <2>3
      <4> HIDE DEF n
      <4> QED BY <1>1, <3>1, <4>1 DEF Loop
    <3>3. jobs' \in 0 .. MaxJobs
      <4>1. jobs \in Nat /\ MaxJobs \in Nat /\ jobs <= MaxJobs /\ jobs > 0 /\ jobs' = jobs - 1
        BY <1>1, <2>3, Sizes
      <4> QED BY <4>1
    <3> QED BY <1>6, <2>1, <2>3, <3>1, <3>2, <3>3
  <2> QED BY <1>6, <2>2, <2>3 DEF Dequeue, AfterError
<1>7. CASE Finish(l)
  <2>1. /\ loops[l].pc = "job" /\ UNCHANGED <<services, calls, jobs, panicked>>
        /\ loops' = [loops EXCEPT ![l].pc = "select", ![l].done = IF l = 0 THEN @ ELSE @ + 1]
    BY <1>7 DEF Finish
  <2> DEFINE n == IF l = 0 THEN loops[l].done ELSE loops[l].done + 1
  <2>2. n \in Nat
    BY <1>1 DEF Loop
  <2>3. /\ loops' \in [{0} \cup Workers -> Loop]
        /\ loops'[l].pc = "select" /\ loops'[l].done = n /\ loops'[l].late = loops[l].late
        /\ \A k \in {0} \cup Workers : k # l => loops'[k] = loops[k]
    <3>1. loops' = [loops EXCEPT ![l] = [loops[l] EXCEPT !.pc = "select", !.done = n]]
      BY <1>1, <2>1
    <3> HIDE DEF n
    <3> QED BY <1>1, <2>2, <3>1 DEF Loop
  <2>4. loops[l].late \in Nat
    BY <1>1 DEF Loop
  <2> QED BY <1>1, <2>1, <2>3, <2>4, Sizes
<1> QED BY <1>3, <1>4, <1>5, <1>6, <1>7 DEF Works

(* A service that is started: all its loops begin at once, and nothing     *)
(* else of it changes.                                                     *)
LEMMA StartStep ==
  ASSUME Types, NEW c \in Callers, NEW s \in Services, Start(c, s), MayStart(s)
  PROVE  /\ UNCHANGED <<jobs, panicked>>
         /\ ~services[s].running /\ MayWrite(s)
         /\ services' \in [Services -> Service] /\ loops' \in [{0} \cup Workers -> Loop]
         /\ services'[s].running /\ services'[s].starts = services[s].starts + 1
         /\ services'[s].closed = services[s].closed
         /\ services'[s].writer = services[s].writer
         /\ services'[s].readers = services[s].readers
         /\ \A z \in Services : z # s => services'[z] = services[z]
         /\ \A l \in Of(s) : /\ loops'[l].pc = "select" /\ loops'[l].done = 0
                             /\ loops'[l].late = 0
         /\ \A l \in {0} \cup Workers : l \notin Of(s) => loops'[l] = loops[l]
<1>1. /\ services \in [Services -> Service] /\ services[s] \in Service
      /\ loops \in [{0} \cup Workers -> Loop]
  BY DEF Types
<1>2. /\ services' = [services EXCEPT ![s].running = TRUE, ![s].starts = @ + 1]
      /\ loops' = [l \in DOMAIN loops |->
                     IF l \in Of(s) THEN [Off EXCEPT !.pc = "select"] ELSE loops[l]]
      /\ UNCHANGED <<jobs, panicked>> /\ MayWrite(s)
  BY DEF Start
<1>3. services' = [services EXCEPT
                     ![s] = [services[s] EXCEPT !.running = TRUE,
                                                !.starts = services[s].starts + 1]]
  BY <1>1, <1>2
<1>4. PICK x : x = [services[s] EXCEPT !.running = TRUE, !.starts = services[s].starts + 1]
  OBVIOUS
<1>5. /\ x \in Service /\ x.running /\ x.starts = services[s].starts + 1
      /\ x.closed = services[s].closed /\ x.writer = services[s].writer
      /\ x.readers = services[s].readers
  <2>1. PICK n : n = services[s].starts + 1
    OBVIOUS
  <2>2. n \in Nat
    BY <1>1, <2>1 DEF Service
  <2>3. x = [services[s] EXCEPT !.running = TRUE, !.starts = n]
    BY <1>4, <2>1
  <2>4. /\ x \in Service /\ x.running /\ x.starts = n
        /\ x.closed = services[s].closed /\ x.writer = services[s].writer
        /\ x.readers = services[s].readers
    BY <1>1, <2>2, <2>3 DEF Service
  <2> QED BY <2>1, <2>4
<1>6. services' = [services EXCEPT ![s] = x]
  BY <1>3, <1>4
<1>7. [Off EXCEPT !.pc = "select"] = [pc |-> "select", done |-> 0, late |-> 0]
  BY DEF Off
<1>8. [Off EXCEPT !.pc = "select"] \in Loop
  BY <1>7 DEF Loop
<1>9. loops' \in [{0} \cup Workers -> Loop]
  BY <1>1, <1>2, <1>8
<1>10. \A l \in {0} \cup Workers : Of(s) \subseteq {0} \cup Workers /\
          loops'[l] = IF l \in Of(s) THEN [pc |-> "select", done |-> 0, late |-> 0] ELSE loops[l]
  BY <1>1, <1>2, <1>7 DEF Of
<1>11. \A z \in Services : services'[z] = IF z = s THEN x ELSE services[z]
  BY <1>1, <1>6
<1>12. services' \in [Services -> Service]
  BY <1>1, <1>5, <1>6
<1>13. \A l \in Of(s) : l \in {0} \cup Workers
  BY DEF Of
<1>14. /\ \A l \in Of(s) : loops'[l].pc = "select" /\ loops'[l].done = 0 /\ loops'[l].late = 0
       /\ \A l \in {0} \cup Workers : l \notin Of(s) => loops'[l] = loops[l]
  <2>1. ASSUME NEW l \in Of(s)
        PROVE  loops'[l].pc = "select" /\ loops'[l].done = 0 /\ loops'[l].late = 0
    <3>1. loops'[l] = [pc |-> "select", done |-> 0, late |-> 0]
      BY <1>10, <1>13
    <3> QED BY <3>1
  <2> QED BY <1>10, <2>1
<1> QED BY <1>2, <1>5, <1>9, <1>11, <1>12, <1>14 DEF MayStart

(* A service that is stopped keeps its lock until its loops have ended.    *)
LEMMA StopStep ==
  ASSUME Types, NEW c \in Callers, NEW s \in Services, Stop(c, s), ~UNCHANGED services
  PROVE  /\ UNCHANGED <<calls, loops, jobs, panicked>>
         /\ services[s].running /\ ~services[s].closed
         /\ services' \in [Services -> Service]
         /\ ~services'[s].running /\ services'[s].closed /\ services'[s].writer = c
         /\ services'[s].starts = services[s].starts
         /\ services'[s].readers = services[s].readers
         /\ \A z \in Services : z # s => services'[z] = services[z]
<1>1. services \in [Services -> Service] /\ services[s] \in Service
  BY DEF Types
<1>2. /\ services' = [services EXCEPT ![s].running = FALSE, ![s].closed = TRUE, ![s].writer = c]
      /\ services[s].running /\ ~services[s].closed
      /\ UNCHANGED <<calls, loops, jobs, panicked>>
  BY DEF Stop, MayStop
<1>3. PICK x : x = [services[s] EXCEPT !.running = FALSE, !.closed = TRUE, !.writer = c]
  OBVIOUS
<1>4. /\ x \in Service /\ ~x.running /\ x.closed /\ x.writer = c
      /\ x.starts = services[s].starts /\ x.readers = services[s].readers
  BY <1>1, <1>3 DEF Service
<1>5. services' = [services EXCEPT ![s] = x]
  BY <1>1, <1>2, <1>3
<1> QED BY <1>1, <1>2, <1>4, <1>5

(* Stop gives the lock back.                                               *)
LEMMA WaitStep ==
  ASSUME Types, NEW c \in Callers, NEW s \in Services, Wait(c, s)
  PROVE  /\ services' \in [Services -> Service]
         /\ \A z \in Services : /\ services'[z].running = services[z].running
                                /\ services'[z].closed = services[z].closed
                                /\ services'[z].starts = services[z].starts
                                /\ services'[z].readers = services[z].readers
                                /\ z # s => services'[z] = services[z]
<1>1. services \in [Services -> Service] /\ services[s] \in Service
  BY DEF Types
<1>2. PICK x : x = [services[s] EXCEPT !.writer = None]
  OBVIOUS
<1>3. /\ x \in Service /\ x.running = services[s].running /\ x.closed = services[s].closed
      /\ x.starts = services[s].starts /\ x.readers = services[s].readers
  BY <1>1, <1>2 DEF Service
<1>4. services' = [services EXCEPT ![s] = x]
  BY <1>1, <1>2 DEF Wait
<1> QED BY <1>1, <1>3, <1>4

(* The read lock of GetStats.                                              *)
LEMMA ReadersStep ==
  ASSUME Types, NEW r \in SUBSET Callers, services' = [services EXCEPT !["pool"].readers = r]
  PROVE  /\ services' \in [Services -> Service]
         /\ \A z \in Services : /\ services'[z].running = services[z].running
                                /\ services'[z].closed = services[z].closed
                                /\ services'[z].starts = services[z].starts
                                /\ services'[z].writer = services[z].writer
         /\ services'["pool"].readers = r
<1>1. services \in [Services -> Service] /\ services["pool"] \in Service /\ "pool" \in Services
  BY DEF Types, Services
<1>2. PICK x : x = [services["pool"] EXCEPT !.readers = r]
  OBVIOUS
<1>3. /\ x \in Service /\ x.running = services["pool"].running
      /\ x.closed = services["pool"].closed /\ x.writer = services["pool"].writer
      /\ x.starts = services["pool"].starts /\ x.readers = r
  BY <1>1, <1>2 DEF Service
<1>4. services' = [services EXCEPT !["pool"] = x]
  BY <1>1, <1>2
<1> QED BY <1>1, <1>3, <1>4

(* What a reader has added up: the step of Count, and the first of GetStats. *)
Summed(c, a, n) == calls' = [calls EXCEPT ![c].at = a, ![c].sum = n]
Began(c, a, b) == calls' = [calls EXCEPT ![c].at = a, ![c].base = b]

LEMMA SumStep ==
  ASSUME Types, NEW c \in Callers, NEW a \in 0 .. PoolSize + 1, NEW n \in Nat,
         NEW b \in 0 .. MaxJobs,
         \/ Summed(c, a, n) /\ b = calls[c].base
         \/ Began(c, a, b) /\ n = calls[c].sum
  PROVE  /\ calls' \in [Callers -> CallState]
         /\ calls'[c].at = a /\ calls'[c].sum = n /\ calls'[c].base = b
         /\ calls'[c].todo = calls[c].todo
         /\ \A d \in Callers : d # c => calls'[d] = calls[d]
<1>1. calls \in [Callers -> CallState] /\ calls[c] \in CallState
  BY DEF Types
<1>2. PICK x : x = [calls[c] EXCEPT !.at = a, !.sum = n, !.base = b]
  OBVIOUS
<1>3. x \in CallState /\ x.at = a /\ x.sum = n /\ x.base = b /\ x.todo = calls[c].todo
  BY <1>1, <1>2 DEF CallState
<1>4. calls' = [calls EXCEPT ![c] = x]
  <2>1. CASE Summed(c, a, n) /\ b = calls[c].base
    <3>1. x = [calls[c] EXCEPT !.at = a, !.sum = n]
      BY <1>1, <1>2, <2>1 DEF CallState
    <3> QED BY <1>1, <2>1, <3>1 DEF Summed
  <2>2. CASE Began(c, a, b) /\ n = calls[c].sum
    <3>1. x = [calls[c] EXCEPT !.at = a, !.base = b]
      BY <1>1, <1>2, <2>2 DEF CallState
    <3> QED BY <1>1, <2>2, <3>1 DEF Began
  <2> QED BY <2>1, <2>2
<1>5. ASSUME NEW f \in [Callers -> CallState], NEW g, g = [f EXCEPT ![c] = x]
      PROVE  /\ g \in [Callers -> CallState] /\ g[c] = x
             /\ \A d \in Callers : d # c => g[d] = f[d]
  BY <1>3, <1>5
<1>6. /\ calls' \in [Callers -> CallState] /\ calls'[c] = x
      /\ \A d \in Callers : d # c => calls'[d] = calls[d]
  BY <1>1, <1>4, <1>5, Zenon
<1> QED BY <1>3, <1>6, Zenon

----------------------------------------------------------------------------
(* The jobs that some workers have done.                                   *)
LEMMA DoneParts ==
  ASSUME Types, IsFiniteSet(Done(Workers))
  PROVE  /\ \A ws \in SUBSET Workers :
              /\ Done(ws) \in SUBSET Done(Workers) /\ IsFiniteSet(Done(ws))
              /\ Cardinality(Done(ws)) \in Nat /\ Cardinality(Done(ws)) <= Total
         /\ \A w \in Workers : Cardinality(Done({w})) = loops[w].done
         /\ Total \in Nat
<1>1. ASSUME NEW ws \in SUBSET Workers
      PROVE  /\ Done(ws) \in SUBSET Done(Workers) /\ IsFiniteSet(Done(ws))
             /\ Cardinality(Done(ws)) \in Nat /\ Cardinality(Done(ws)) <= Total
  <2>1. Done(ws) \in SUBSET Done(Workers)
    BY DEF Done
  <2>2. IsFiniteSet(Done(ws)) /\ Cardinality(Done(ws)) <= Cardinality(Done(Workers))
    BY <2>1, FS_Subset
  <2> QED BY <2>1, <2>2, FS_CardinalityType DEF Total
<1>2. ASSUME NEW w \in Workers PROVE Cardinality(Done({w})) = loops[w].done
  <2> DEFINE n == loops[w].done
             f == [i \in 1 .. n |-> <<w, i>>]
  <2>1. n \in Nat
    BY DEF Types, Loop
  <2>2. Done({w}) = {w} \X (1 .. n)
    BY DEF Done
  <2> HIDE DEF n
  <2>3. f \in Bijection(1 .. n, {w} \X (1 .. n))
    <3>1. f \in [1 .. n -> {w} \X (1 .. n)]
      OBVIOUS
    <3>2. \A i, j \in 1 .. n : f[i] = f[j] => i = j
      OBVIOUS
    <3>3. \A p \in {w} \X (1 .. n) : \E i \in 1 .. n : f[i] = p
      OBVIOUS
    <3> QED BY <3>1, <3>2, <3>3 DEF Bijection, Injection, Surjection, IsInjective
  <2>4. IsFiniteSet(1 .. n) /\ Cardinality(1 .. n) = n
    BY <2>1, FS_Interval
  <2>5. Cardinality({w} \X (1 .. n)) = n
    BY <2>3, <2>4, FS_Bijection DEF ExistsBijection
  <2> QED BY <2>2, <2>5 DEF n
<1> QED BY <1>1, <1>2, FS_CardinalityType DEF Total

(* One worker more adds its jobs.                                          *)
LEMMA DoneOneMore ==
  ASSUME Types, IsFiniteSet(Done(Workers)), NEW ws \in SUBSET Workers,
         NEW w \in Workers, w \notin ws
  PROVE  Cardinality(Done(ws \cup {w})) = Cardinality(Done(ws)) + loops[w].done
<1>1. Done(ws \cup {w}) = Done(ws) \cup Done({w}) /\ Done(ws) \cap Done({w}) = {}
  BY DEF Done
<1>2. /\ IsFiniteSet(Done(ws)) /\ IsFiniteSet(Done({w})) /\ Cardinality(Done(ws)) \in Nat
      /\ Cardinality(Done({w})) = loops[w].done /\ loops[w].done \in Nat
  BY DoneParts DEF Types, Loop
<1>3. ASSUME NEW S, NEW T, IsFiniteSet(S), IsFiniteSet(T), S \cap T = {},
             Cardinality(S) \in Nat, Cardinality(T) \in Nat
      PROVE  Cardinality(S \cup T) = Cardinality(S) + Cardinality(T)
  <2>1. Cardinality(S \cup T) = Cardinality(S) + Cardinality(T) - Cardinality(S \cap T)
    BY <1>3, FS_Union
  <2>2. Cardinality(S \cap T) = 0
    BY <1>3, FS_EmptySet
  <2> QED BY <1>3, <2>1, <2>2
<1> QED BY <1>1, <1>2, <1>3

LEMMA StartingFinite ==
  ASSUME NEW s
  PROVE  /\ IsFiniteSet(Starting(s)) /\ Cardinality(Starting(s)) \in Nat
         /\ IsFiniteSet(Starting(s)') /\ Cardinality(Starting(s)') \in Nat
         /\ Starting(s)' \subseteq Starting(s) =>
              Cardinality(Starting(s)') <= Cardinality(Starting(s))
<1>1. /\ IsFiniteSet(Callers) /\ Starting(s) \in SUBSET Callers
      /\ Starting(s)' \in SUBSET Callers
  BY LifecycleAssumption DEF Starting
<1>2. IsFiniteSet(Starting(s)) /\ IsFiniteSet(Starting(s)')
  BY <1>1, FS_Subset
<1> QED BY <1>2, FS_Subset, FS_CardinalityType

LEMMA BusyFinite ==
  /\ IsFiniteSet(Busy) /\ Cardinality(Busy) \in Nat
  /\ IsFiniteSet(Busy') /\ Cardinality(Busy') \in Nat
  /\ Busy' \subseteq Busy => Cardinality(Busy') <= Cardinality(Busy)
<1>1. IsFiniteSet(Workers) /\ Busy \in SUBSET Workers /\ Busy' \in SUBSET Workers
  BY Sizes, FS_Interval DEF Busy, Workers
<1>2. IsFiniteSet(Busy) /\ IsFiniteSet(Busy')
  BY <1>1, FS_Subset
<1> QED BY <1>2, FS_Subset, FS_CardinalityType

(* A caller asks for something new.                                        *)
LEMMA CallStep ==
  ASSUME Types, NEW c \in Callers, Call(c)
  PROVE  \E r \in Requests :
           /\ calls[c].todo = <<>>
           /\ \A s \in Services : r = <<<<"start", s>>>> =>
                services[s].starts + Cardinality(Starting(s)) < MaxStarts
           /\ UNCHANGED <<services, loops, jobs, panicked>>
           /\ calls' \in [Callers -> CallState]
           /\ calls'[c].at = calls[c].at /\ calls'[c].sum = calls[c].sum
           /\ calls'[c].base = calls[c].base /\ calls'[c].todo = r
           /\ \A d \in Callers : d # c => calls'[d] = calls[d]
<1>1. calls \in [Callers -> CallState] /\ calls[c] \in CallState
  BY DEF Types
<1>2. PICK r \in Requests :
        /\ \A s \in Services : r = <<<<"start", s>>>> =>
             services[s].starts + Cardinality(Starting(s)) < MaxStarts
        /\ calls' = [calls EXCEPT ![c].todo = r]
  BY DEF Call
<1>3. PICK x : x = [calls[c] EXCEPT !.todo = r]
  OBVIOUS
<1>4. /\ x \in CallState /\ x.at = calls[c].at /\ x.sum = calls[c].sum
      /\ x.base = calls[c].base /\ x.todo = r
  <2>1. r \in Todos
    BY DEF Todos
  <2> HIDE DEF Todos
  <2> QED BY <1>1, <1>3, <2>1 DEF CallState
<1>5. calls' = [calls EXCEPT ![c] = x]
  BY <1>1, <1>2, <1>3
<1>6. /\ calls' \in [Callers -> CallState] /\ calls'[c] = x
      /\ \A d \in Callers : d # c => calls'[d] = calls[d]
  BY <1>1, <1>4, <1>5
<1>7. calls[c].todo = <<>> /\ UNCHANGED <<services, loops, jobs, panicked>>
  BY DEF Call
<1> QED BY <1>2, <1>4, <1>6, <1>7

(* GetStats begins to read.                                                *)
LEMMA GetStatsStep ==
  ASSUME Types, JobsKept, Sums, NEW c \in Callers, GetStats(c)
  PROVE  /\ UNCHANGED <<loops, jobs, panicked>> /\ services' \in [Services -> Service]
         /\ calls' \in [Callers -> CallState]
         /\ \A z \in Services : /\ services'[z].running = services[z].running
                                /\ services'[z].closed = services[z].closed
                                /\ services'[z].starts = services[z].starts
                                /\ services'[z].writer = services[z].writer
         /\ services'["pool"].readers = services["pool"].readers \cup {c}
         /\ calls'[c].at = 1 /\ calls'[c].sum = 0 /\ calls'[c].base = Total
         /\ calls'[c].todo = calls[c].todo
         /\ \A d \in Callers : d # c => calls'[d] = calls[d]
<1>1. /\ services' = [services EXCEPT !["pool"].readers = services["pool"].readers \cup {c}]
      /\ calls' = [calls EXCEPT ![c].at = 1, ![c].base = Total]
      /\ UNCHANGED <<loops, jobs, panicked>> /\ calls[c].at = 0
  BY DEF GetStats, Types, Services
<1>2. services["pool"].readers \cup {c} \in SUBSET Callers
  BY DEF Types, Services, Service
<1>3. Total \in 0 .. MaxJobs
  <2>1. Total \in Nat /\ Cardinality(Busy) \in Nat
    BY DoneParts, BusyFinite DEF JobsKept
  <2> QED BY <2>1, Sizes DEF JobsKept, Types
<1>4. calls[c].sum = 0 /\ 1 \in 0 .. PoolSize + 1
  BY <1>1, Sizes DEF Sums, Summing
<1>5. PICK b \in 0 .. MaxJobs : b = Total
  BY <1>3
<1>6. Began(c, 1, b) /\ 0 = calls[c].sum /\ 0 \in Nat
  BY <1>1, <1>4, <1>5 DEF Began
<1>7. /\ calls' \in [Callers -> CallState]
      /\ calls'[c].at = 1 /\ calls'[c].sum = 0 /\ calls'[c].base = b
      /\ calls'[c].todo = calls[c].todo
      /\ \A d \in Callers : d # c => calls'[d] = calls[d]
  BY <1>4, <1>6, SumStep
<1>8. PICK r \in SUBSET Callers : r = services["pool"].readers \cup {c}
  BY <1>2
<1> QED BY <1>1, <1>5, <1>7, <1>8, ReadersStep

(* It reads the counter of the next worker.                                *)
LEMMA CountStep ==
  ASSUME Types, NEW c \in Callers, Count(c)
  PROVE  /\ UNCHANGED <<services, loops, jobs, panicked>>
         /\ calls[c].at \in Workers /\ calls' \in [Callers -> CallState]
         /\ calls'[c].at = calls[c].at + 1
         /\ calls'[c].sum = calls[c].sum + loops[calls[c].at].done
         /\ calls'[c].base = calls[c].base /\ calls'[c].todo = calls[c].todo
         /\ \A d \in Callers : d # c => calls'[d] = calls[d]
<1>1. /\ calls' = [calls EXCEPT ![c].at = calls[c].at + 1,
                                ![c].sum = calls[c].sum + loops[calls[c].at].done]
      /\ UNCHANGED <<services, loops, jobs, panicked>> /\ calls[c].at \in Workers
  BY DEF Count, Counted, Types
<1>2. PICK a : a = calls[c].at + 1
  OBVIOUS
<1>3. PICK n : n = calls[c].sum + loops[calls[c].at].done
  OBVIOUS
<1>4. a \in 0 .. PoolSize + 1 /\ n \in Nat /\ calls[c].base \in 0 .. MaxJobs
  <2>1. calls[c].sum \in Nat /\ calls[c].base \in 0 .. MaxJobs
    BY DEF Types, CallState
  <2>2. loops[calls[c].at].done \in Nat
    BY <1>1 DEF Types, Loop
  <2> QED BY <1>1, <1>2, <1>3, <2>1, <2>2, Sizes DEF Workers
<1>5. Summed(c, a, n)
  BY <1>1, <1>2, <1>3 DEF Summed
<1>6. PICK b \in 0 .. MaxJobs : b = calls[c].base
  BY <1>4
<1>7. /\ calls' \in [Callers -> CallState]
      /\ calls'[c].at = a /\ calls'[c].sum = n /\ calls'[c].base = b
      /\ calls'[c].todo = calls[c].todo
      /\ \A d \in Callers : d # c => calls'[d] = calls[d]
  BY <1>4, <1>5, <1>6, SumStep
<1>8. UNCHANGED <<services, loops, jobs, panicked>> /\ calls[c].at \in Workers
  BY <1>1
<1> QED BY <1>2, <1>3, <1>6, <1>7, <1>8

(* It gives the read lock back and answers.                                *)
LEMMA AnswerStep ==
  ASSUME Types, Sums, NEW c \in Callers, Answer(c)
  PROVE  /\ UNCHANGED <<loops, jobs, panicked>> /\ Return(c) /\ calls[c].todo # <<>>
         /\ services' \in [Services -> Service] /\ calls' \in [Callers -> CallState]
         /\ \A z \in Services : /\ services'[z].running = services[z].running
                                /\ services'[z].closed = services[z].closed
                                /\ services'[z].starts = services[z].starts
                                /\ services'[z].writer = services[z].writer
         /\ services'["pool"].readers = services["pool"].readers \ {c}
<1>1. /\ services' = [services EXCEPT !["pool"].readers = services["pool"].readers \ {c}]
      /\ UNCHANGED <<loops, jobs, panicked>> /\ Return(c) /\ calls[c].at > PoolSize
  BY DEF Answer, Types, Services
<1>2. calls[c].todo # <<>>
  <2>1. calls[c].at \in 1 .. PoolSize + 1
    BY <1>1, Sizes DEF Types, CallState
  <2> QED BY <2>1 DEF Sums, Summing
<1>3. services["pool"].readers \ {c} \in SUBSET Callers
  BY DEF Types, Services, Service
<1> QED BY <1>1, <1>2, <1>3, ReadersStep, Returned

(* A caller asks whether a service runs, or finds nothing to start or to   *)
(* stop, or a channel that is closed already.                              *)
LEMMA LookStep ==
  ASSUME NEW c \in Callers, NEW s \in Services,
         \/ IsRunning(c, s)
         \/ Start(c, s) /\ ~MayStart(s)
         \/ Stop(c, s) /\ UNCHANGED services
  PROVE  /\ UNCHANGED <<services, loops, jobs>>
         /\ \/ UNCHANGED panicked /\ Return(c) /\ calls[c].todo # <<>>
            \/ /\ panicked' = TRUE /\ UNCHANGED calls /\ services[s].running
               /\ services[s].closed
            \/ UNCHANGED <<calls, panicked>>
<1>1. CASE IsRunning(c, s)
  BY <1>1 DEF IsRunning, Doing
<1>2. CASE Start(c, s) /\ ~MayStart(s)
  BY <1>2 DEF Start, Doing
<1>3. CASE Stop(c, s) /\ UNCHANGED services
  BY <1>3 DEF Stop, Doing, MayStop
<1> QED BY <1>1, <1>2, <1>3

----------------------------------------------------------------------------
(* The steps of a caller, and all steps.                                   *)
Looks(c, s) ==
    \/ IsRunning(c, s)
    \/ Start(c, s) /\ ~MayStart(s)
    \/ Stop(c, s) /\ UNCHANGED services
CallerStep(c, s) ==
    \/ Call(c) \/ Looks(c, s) \/ GetStats(c) \/ Count(c) \/ Answer(c)
    \/ Start(c, s) /\ MayStart(s)
    \/ Stop(c, s) /\ ~UNCHANGED services
    \/ Wait(c, s)
LoopSteps(l) == Works(l) \/ (l = 0 /\ (Leave(0) \/ Tick))

LEMMA StepKinds ==
  ASSUME Types, [Next]_vars
  PROVE  \/ UNCHANGED vars
         \/ \E c \in Callers, s \in Services : CallerStep(c, s)
         \/ \E l \in {0} \cup Workers : LoopSteps(l)
<1>1. "pool" \in Services /\ DOMAIN loops = {0} \cup Workers
  BY DEF Services, Types
<1> QED BY <1>1 DEF Next, Locks, Proceeds, CallerStep, Looks, LoopSteps

LEMMA TypesStep ==
  ASSUME Types, JobsKept, Sums, [Next]_vars
  PROVE  Types'
<1>1. CASE UNCHANGED vars
  BY <1>1 DEF vars, Types
<1>2. ASSUME NEW l \in {0} \cup Workers, LoopSteps(l) PROVE Types'
  BY <1>2, LoopStep DEF LoopSteps, Types
<1>3. ASSUME NEW c \in Callers, NEW s \in Services, CallerStep(c, s) PROVE Types'
  <2>1. CASE Call(c)
    BY <2>1, CallStep DEF Types
  <2>2. CASE Looks(c, s)
    BY <2>2, LookStep, Returned DEF Looks, Types
  <2>3. CASE GetStats(c)
    BY <2>3, GetStatsStep DEF Types
  <2>4. CASE Count(c)
    BY <2>4, CountStep DEF Types
  <2>5. CASE Answer(c)
    BY <2>5, AnswerStep DEF Types
  <2>6. CASE Start(c, s) /\ MayStart(s)
    <3>1. Return(c) /\ calls[c].todo # <<>>
      BY <2>6 DEF Start, Doing
    <3> QED BY <2>6, <3>1, StartStep, Returned DEF Types
  <2>7. CASE Stop(c, s) /\ ~UNCHANGED services
    BY <2>7, StopStep DEF Types
  <2>8. CASE Wait(c, s)
    <3>1. /\ Return(c) /\ calls[c].todo # <<>>
          /\ UNCHANGED <<loops, jobs, panicked>>
      BY <2>8 DEF Wait, Doing
    <3> QED BY <2>8, <3>1, WaitStep, Returned DEF Types
  <2> QED BY <1>3, <2>1, <2>2, <2>3, <2>4, <2>5, <2>6, <2>7, <2>8 DEF CallerStep
<1> QED BY <1>1, <1>2, <1>3, StepKinds

LEMMA StartsStep ==
  ASSUME Types, Types', JobsKept, Sums, StartsBounded, [Next]_vars
  PROVE  StartsBounded'
<1>1. ASSUME NEW z \in Services
      PROVE  /\ services[z].starts \in Nat /\ services'[z].starts \in Nat /\ MaxStarts \in Nat
             /\ services[z].starts + Cardinality(Starting(z)) <= MaxStarts
  BY Sizes DEF Types, Service, StartsBounded
<1>2. ASSUME NEW z \in Services, services'[z].starts = services[z].starts,
             Starting(z)' \subseteq Starting(z)
      PROVE  services'[z].starts + Cardinality(Starting(z)') <= MaxStarts
  BY <1>1, <1>2, StartingFinite
<1>3. ASSUME NEW z \in Services,
             \A d \in Callers :
               \/ calls'[d].todo = calls[d].todo
               \/ calls[d].todo # <<>> /\ calls'[d].todo = Tail(calls[d].todo)
      PROVE  Starting(z)' \subseteq Starting(z)
  <2>1. ASSUME NEW d \in Callers, calls[d].todo # <<>>, calls'[d].todo = Tail(calls[d].todo)
        PROVE  d \notin Starting(z)'
    <3>1. calls[d].todo \in Todos
      BY DEF Types, CallState
    <3>2. calls'[d].todo # <<>> => Head(calls'[d].todo) # <<"start", z>>
      BY <2>1, <3>1, RestOfRequest
    <3> QED BY <3>2 DEF Starting, Doing
  <2> QED BY <1>3, <2>1 DEF Starting, Doing
<1>4. ASSUME \A z \in Services : services'[z].starts = services[z].starts,
             \A d \in Callers :
               \/ calls'[d].todo = calls[d].todo
               \/ calls[d].todo # <<>> /\ calls'[d].todo = Tail(calls[d].todo)
      PROVE  StartsBounded'
  BY <1>2, <1>3, <1>4 DEF StartsBounded
<1>5. CASE UNCHANGED vars
  BY <1>4, <1>5 DEF vars
<1>6. ASSUME NEW l \in {0} \cup Workers, LoopSteps(l) PROVE StartsBounded'
  BY <1>4, <1>6, LoopStep DEF LoopSteps
<1>7. ASSUME NEW c \in Callers, NEW s \in Services, CallerStep(c, s) PROVE StartsBounded'
  <2>1. CASE Call(c)
    <3>1. PICK r \in Requests :
            /\ calls[c].todo = <<>> /\ UNCHANGED services /\ calls'[c].todo = r
            /\ \A z \in Services : r = <<<<"start", z>>>> =>
                 services[z].starts + Cardinality(Starting(z)) < MaxStarts
            /\ \A d \in Callers : d # c => calls'[d] = calls[d]
      BY <2>1, CallStep
    <3>2. ASSUME NEW z \in Services
          PROVE  services'[z].starts + Cardinality(Starting(z)') <= MaxStarts
      <4>1. CASE r = <<<<"start", z>>>>
        <5>1. Starting(z)' \in SUBSET (Starting(z) \cup {c})
          BY <3>1 DEF Starting, Doing
        <5>2. /\ IsFiniteSet(Starting(z) \cup {c})
              /\ \/ Cardinality(Starting(z) \cup {c}) = Cardinality(Starting(z))
                 \/ Cardinality(Starting(z) \cup {c}) = Cardinality(Starting(z)) + 1
          BY StartingFinite, FS_AddElement
        <5>3. Cardinality(Starting(z)') <= Cardinality(Starting(z) \cup {c})
          BY <5>1, <5>2, FS_Subset
        <5> QED BY <1>1, <3>1, <4>1, <5>2, <5>3, StartingFinite
      <4>2. CASE r # <<<<"start", z>>>>
        <5>1. Head(r) # <<"start", z>>
          BY <4>2, FirstOfRequest
        <5>2. Starting(z)' \subseteq Starting(z)
          BY <3>1, <5>1 DEF Starting, Doing
        <5> QED BY <1>2, <3>1, <5>2
      <4> QED BY <4>1, <4>2
    <3> QED BY <3>2 DEF StartsBounded
  <2>2. CASE Looks(c, s)
    <3>1. UNCHANGED services /\ (UNCHANGED calls \/ (Return(c) /\ calls[c].todo # <<>>))
      BY <2>2, LookStep DEF Looks
    <3> QED BY <1>4, <3>1, Returned
  <2>3. CASE GetStats(c)
    BY <1>4, <2>3, GetStatsStep
  <2>4. CASE Count(c)
    BY <1>4, <2>4, CountStep
  <2>5. CASE Answer(c)
    BY <1>4, <2>5, AnswerStep, Returned
  <2>6. CASE Start(c, s) /\ MayStart(s)
    <3>1. Return(c) /\ calls[c].todo # <<>> /\ c \in Starting(s)
      BY <2>6 DEF Start, Doing, Starting
    <3>2. \A z \in Services : Starting(z)' \subseteq Starting(z)
      BY <1>3, <3>1, Returned
    <3>3. c \notin Starting(s)'
      <4>1. calls[c].todo \in Todos /\ calls'[c].todo = Tail(calls[c].todo)
        BY <3>1, Returned DEF Types, CallState
      <4>2. calls'[c].todo # <<>> => Head(calls'[c].todo) # <<"start", s>>
        BY <3>1, <4>1, RestOfRequest
      <4> QED BY <4>2 DEF Starting, Doing
    <3>4. /\ IsFiniteSet(Starting(s) \ {c})
          /\ Cardinality(Starting(s) \ {c}) = Cardinality(Starting(s)) - 1
      BY <3>1, StartingFinite, FS_RemoveElement
    <3>5. Starting(s)' \in SUBSET (Starting(s) \ {c})
      BY <3>2, <3>3
    <3>6. Cardinality(Starting(s)') <= Cardinality(Starting(s) \ {c})
      BY <3>4, <3>5, FS_Subset
    <3>7. /\ services'[s].starts = services[s].starts + 1
          /\ \A z \in Services : z # s => services'[z].starts = services[z].starts
      BY <2>6, StartStep
    <3>8. services'[s].starts + Cardinality(Starting(s)') <= MaxStarts
      BY <1>1, <3>4, <3>6, <3>7, StartingFinite
    <3>9. \A z \in Services : services'[z].starts + Cardinality(Starting(z)') <= MaxStarts
      BY <1>2, <3>2, <3>7, <3>8
    <3> QED BY <3>9 DEF StartsBounded
  <2>7. CASE Stop(c, s) /\ ~UNCHANGED services
    BY <1>4, <2>7, StopStep
  <2>8. CASE Wait(c, s)
    <3>1. Return(c) /\ calls[c].todo # <<>>
      BY <2>8 DEF Wait, Doing
    <3> QED BY <1>4, <2>8, <3>1, WaitStep, Returned
  <2> QED BY <1>7, <2>1, <2>2, <2>3, <2>4, <2>5, <2>6, <2>7, <2>8 DEF CallerStep
<1> QED BY <1>5, <1>6, <1>7, StepKinds

LEMMA FlagsStep ==
  ASSUME Types, Types', JobsKept, Sums, Flags, [Next]_vars
  PROVE  Flags'
<1>1. \A z \in Services : services[z].starts \in Nat /\ services'[z].starts \in Nat
  BY DEF Types, Service
<1>2. ASSUME UNCHANGED panicked,
             \A z \in Services : /\ services'[z].running = services[z].running
                                 /\ services'[z].closed = services[z].closed
                                 /\ services'[z].starts = services[z].starts
      PROVE  Flags'
  BY <1>2 DEF Flags, PanicNeedsARestart
<1>3. CASE UNCHANGED vars
  BY <1>2, <1>3 DEF vars
<1>4. ASSUME NEW l \in {0} \cup Workers, LoopSteps(l) PROVE Flags'
  BY <1>2, <1>4, LoopStep DEF LoopSteps
<1>5. ASSUME NEW c \in Callers, NEW s \in Services, CallerStep(c, s) PROVE Flags'
  <2>1. CASE Call(c)
    BY <1>2, <2>1, CallStep
  <2>2. CASE Looks(c, s)
    <3>1. UNCHANGED services
      BY <2>2, LookStep DEF Looks
    <3>2. UNCHANGED panicked \/ services[s].starts >= 2
      BY <2>2, LookStep DEF Looks, Flags
    <3> QED BY <1>1, <3>1, <3>2 DEF Flags, PanicNeedsARestart
  <2>3. CASE GetStats(c)
    BY <1>2, <2>3, GetStatsStep
  <2>4. CASE Count(c)
    BY <1>2, <2>4, CountStep
  <2>5. CASE Answer(c)
    BY <1>2, <2>5, AnswerStep
  <2>6. CASE Start(c, s) /\ MayStart(s)
    <3>1. /\ services'[s].starts = services[s].starts + 1 /\ UNCHANGED panicked
          /\ services'[s].closed = services[s].closed
          /\ \A z \in Services : z # s => services'[z] = services[z]
      BY <2>6, StartStep
    <3>2. \A z \in Services :
            /\ services'[z].running \/ services'[z].closed => services'[z].starts >= 1
            /\ services'[z].running /\ services'[z].closed => services'[z].starts >= 2
      BY <1>1, <3>1 DEF Flags
    <3>3. PanicNeedsARestart'
      BY <1>1, <3>1 DEF Flags, PanicNeedsARestart
    <3> QED BY <3>2, <3>3 DEF Flags
  <2>7. CASE Stop(c, s) /\ ~UNCHANGED services
    <3>1. /\ services[s].running /\ ~services'[s].running /\ UNCHANGED panicked
          /\ services'[s].starts = services[s].starts
          /\ \A z \in Services : z # s => services'[z] = services[z]
      BY <2>7, StopStep
    <3> QED BY <1>1, <3>1 DEF Flags, PanicNeedsARestart
  <2>8. CASE Wait(c, s)
    BY <1>2, <2>8, WaitStep DEF Wait
  <2> QED BY <1>5, <2>1, <2>2, <2>3, <2>4, <2>5, <2>6, <2>7, <2>8 DEF CallerStep
<1> QED BY <1>3, <1>4, <1>5, StepKinds

LEMMA LoopsOf ==
  /\ \A s \in Services : \A l \in Of(s) : l \in {0} \cup Workers /\ Owner(l) = s
  /\ \A l \in {0} \cup Workers : Owner(l) \in Services /\ l \in Of(Owner(l))
  /\ \A w \in Workers : w \in {0} \cup Workers /\ Owner(w) = "pool" /\ w \in Of("pool")
  /\ "pool" \in Services
BY Sizes DEF Of, Owner, Services

(* Stop waits for the loops, which end for no other reason.                *)
LEMMA WaitsStep ==
  ASSUME Types, Types', JobsKept, Sums, Flags, StopWaits, RunningMeansWorking, [Next]_vars
  PROVE  StopWaits' /\ RunningMeansWorking'
<1>1. ASSUME UNCHANGED loops,
             \A z \in Services : /\ services'[z].running = services[z].running
                                 /\ services'[z].starts = services[z].starts
                                 /\ services'[z].writer = services[z].writer
      PROVE  StopWaits' /\ RunningMeansWorking'
  BY <1>1 DEF StopWaits, RunningMeansWorking, MayRead
<1>2. CASE UNCHANGED vars
  BY <1>1, <1>2 DEF vars
<1>3. ASSUME NEW l \in {0} \cup Workers, LoopSteps(l)
      PROVE  StopWaits' /\ RunningMeansWorking'
  <2>1. /\ UNCHANGED services /\ loops[l].pc # "off"
        /\ loops'[l].pc = "off" => services[Owner(l)].closed
        /\ \A k \in {0} \cup Workers : k # l => loops'[k] = loops[k]
    BY <1>3, LoopStep DEF LoopSteps, SeesStop
  <2>2. StopWaits'
    <3> SUFFICES ASSUME NEW s \in Services, MayRead(s), ~services[s].running, NEW k \in Of(s)
                 PROVE  loops'[k].pc = "off"
      BY <2>1 DEF StopWaits, MayRead
    <3>1. loops[k].pc = "off" /\ k \in {0} \cup Workers
      BY LoopsOf DEF StopWaits
    <3> QED BY <2>1, <3>1
  <2>3. RunningMeansWorking'
    <3> SUFFICES ASSUME NEW s \in Services, services[s].running, services[s].starts = 1,
                        NEW k \in Of(s)
                 PROVE  loops'[k].pc # "off"
      BY <2>1 DEF RunningMeansWorking
    <3>1. loops[k].pc # "off" /\ k \in {0} \cup Workers /\ Owner(k) = s
      BY LoopsOf DEF RunningMeansWorking
    <3>2. ~services[s].closed
      BY DEF Flags
    <3> QED BY <2>1, <3>1, <3>2
  <2> QED BY <2>2, <2>3
<1>4. ASSUME NEW c \in Callers, NEW s \in Services, CallerStep(c, s)
      PROVE  StopWaits' /\ RunningMeansWorking'
  <2>1. CASE Call(c)
    BY <1>1, <2>1, CallStep
  <2>2. CASE Looks(c, s)
    BY <1>1, <2>2, LookStep DEF Looks
  <2>3. CASE GetStats(c)
    BY <1>1, <2>3, GetStatsStep
  <2>4. CASE Count(c)
    BY <1>1, <2>4, CountStep
  <2>5. CASE Answer(c)
    BY <1>1, <2>5, AnswerStep
  <2>6. CASE Start(c, s) /\ MayStart(s)
    <3>1. /\ services'[s].running
          /\ \A z \in Services : z # s => services'[z] = services[z]
          /\ \A l \in Of(s) : loops'[l].pc = "select"
          /\ \A l \in {0} \cup Workers : l \notin Of(s) => loops'[l] = loops[l]
      BY <2>6, StartStep
    <3>2. ASSUME NEW z \in Services, NEW k \in Of(z), z # s PROVE loops'[k] = loops[k]
      <4>1. k \in {0} \cup Workers /\ Owner(k) = z
        BY LoopsOf
      <4>2. k \notin Of(s)
        BY <3>2, <4>1, LoopsOf
      <4> QED BY <3>1, <4>1, <4>2
    <3> QED BY <3>1, <3>2 DEF StopWaits, RunningMeansWorking, MayRead
  <2>7. CASE Stop(c, s) /\ ~UNCHANGED services
    <3>1. /\ ~services'[s].running /\ services'[s].writer = c /\ UNCHANGED loops
          /\ \A z \in Services : z # s => services'[z] = services[z]
      BY <2>7, StopStep
    <3>2. c # None
      BY LifecycleAssumption
    <3> QED BY <3>1, <3>2 DEF StopWaits, RunningMeansWorking, MayRead
  <2>8. CASE Wait(c, s)
    <3>1. /\ UNCHANGED loops /\ \A l \in Of(s) : loops[l].pc = "off"
      BY <2>8 DEF Wait, Ended
    <3>2. \A z \in Services : /\ services'[z].running = services[z].running
                              /\ services'[z].starts = services[z].starts
                              /\ z # s => services'[z] = services[z]
      BY <2>8, WaitStep
    <3> QED BY <3>1, <3>2 DEF StopWaits, RunningMeansWorking, MayRead
  <2> QED BY <1>4, <2>1, <2>2, <2>3, <2>4, <2>5, <2>6, <2>7, <2>8 DEF CallerStep
<1> QED BY <1>2, <1>3, <1>4, StepKinds

LEMMA LatenessStep ==
  ASSUME Types, Types', JobsKept, Sums, Lateness, [Next]_vars
  PROVE  Lateness'
<1>0. \A w \in Workers : w \in {0} \cup Workers /\ loops[w].late \in Nat /\ loops'[w].late \in Nat
  BY DEF Types, Loop
<1>1. ASSUME UNCHANGED loops, services["pool"].closed => services'["pool"].closed
      PROVE  Lateness'
  BY <1>1 DEF Lateness
<1>2. CASE UNCHANGED vars
  BY <1>1, <1>2 DEF vars
<1>3. ASSUME NEW l \in {0} \cup Workers, LoopSteps(l) PROVE Lateness'
  <2>1. /\ UNCHANGED services
        /\ \A k \in {0} \cup Workers : k # l => loops'[k] = loops[k]
    BY <1>3, LoopStep DEF LoopSteps
  <2>2. ASSUME l \in Workers
        PROVE  /\ loops'[l].late <= 1
               /\ ~services["pool"].closed \/ loops'[l].pc = "dequeue" => loops'[l].late = 0
    <3>1. SeesStop(l) = services["pool"].closed
      BY <2>2, LoopsOf DEF SeesStop
    <3>2. /\ loops'[l].late <= loops[l].late + 1
          /\ loops'[l].late # loops[l].late => loops[l].pc = "dequeue" /\ SeesStop(l)
          /\ loops'[l].pc = "dequeue" => ~SeesStop(l) /\ loops'[l].late = loops[l].late
      BY <1>3, LoopStep DEF LoopSteps
    <3>3. /\ loops[l].late <= 1
          /\ ~services["pool"].closed \/ loops[l].pc = "dequeue" => loops[l].late = 0
      BY <2>2 DEF Lateness
    <3> QED BY <1>0, <2>2, <3>1, <3>2, <3>3
  <2> QED BY <1>0, <2>1, <2>2 DEF Lateness
<1>4. ASSUME NEW c \in Callers, NEW s \in Services, CallerStep(c, s) PROVE Lateness'
  <2>0. "pool" \in Services
    BY LoopsOf
  <2>1. CASE Call(c)
    BY <1>1, <2>1, CallStep
  <2>2. CASE Looks(c, s)
    BY <1>1, <2>2, LookStep DEF Looks
  <2>3. CASE GetStats(c)
    BY <1>1, <2>0, <2>3, GetStatsStep
  <2>4. CASE Count(c)
    BY <1>1, <2>4, CountStep
  <2>5. CASE Answer(c)
    BY <1>1, <2>0, <2>5, AnswerStep
  <2>6. CASE Start(c, s) /\ MayStart(s)
    <3>1. /\ \A l \in Of(s) : loops'[l].pc = "select" /\ loops'[l].late = 0
          /\ \A l \in {0} \cup Workers : l \notin Of(s) => loops'[l] = loops[l]
          /\ services'["pool"].closed = services["pool"].closed
      BY <2>0, <2>6, StartStep
    <3>2. ASSUME NEW w \in Workers
          PROVE  /\ loops'[w].late <= 1
                 /\ ~services'["pool"].closed \/ loops'[w].pc = "dequeue" =>
                      loops'[w].late = 0
      <4>1. CASE w \in Of(s)
        BY <3>1, <4>1
      <4>2. CASE w \notin Of(s)
        BY <1>0, <3>1, <4>2 DEF Lateness
      <4> QED BY <4>1, <4>2
    <3> QED BY <3>2 DEF Lateness
  <2>7. CASE Stop(c, s) /\ ~UNCHANGED services
    <3>1. UNCHANGED loops /\ services["pool"].closed => services'["pool"].closed
      BY <2>0, <2>7, StopStep
    <3> QED BY <1>1, <2>7, <3>1, StopStep
  <2>8. CASE Wait(c, s)
    BY <1>1, <2>0, <2>8, WaitStep DEF Wait
  <2> QED BY <1>4, <2>1, <2>2, <2>3, <2>4, <2>5, <2>6, <2>7, <2>8 DEF CallerStep
<1> QED BY <1>2, <1>3, <1>4, StepKinds

(* What a step of the loops does to the jobs: nothing, or one is taken, or *)
(* one is finished.                                                        *)
LEMMA DoneStep ==
  ASSUME Types, Types', JobsKept, NEW l \in {0} \cup Workers, LoopSteps(l)
  PROVE  /\ JobsKept'
         /\ \A ws \in SUBSET Workers : Cardinality(Done(ws)) <= Cardinality(Done(ws)')
<1>1. /\ \A k \in {0} \cup Workers : k # l => loops'[k] = loops[k]
      /\ \/ /\ loops'[l].done = loops[l].done /\ jobs' = jobs
            /\ loops'[l].pc # "job" \/ l = 0
         \/ /\ loops'[l].done = loops[l].done /\ jobs' = jobs - 1
            /\ l \in Workers /\ loops[l].pc # "job"
         \/ /\ loops'[l].done = loops[l].done + 1 /\ jobs' = jobs
            /\ l \in Workers /\ loops[l].pc = "job" /\ loops'[l].pc # "job"
  BY LoopStep DEF LoopSteps
<1>2. /\ jobs \in Nat /\ jobs' \in Nat /\ MaxJobs \in Nat /\ 0 \notin Workers
      /\ \A w \in Workers : w \in {0} \cup Workers /\ loops[w].done \in Nat
  BY Sizes DEF Types, Loop
<1>3. /\ IsFiniteSet(Done(Workers)) /\ Total \in Nat /\ Cardinality(Busy) \in Nat
      /\ Cardinality(Busy') \in Nat /\ jobs + Total + Cardinality(Busy) <= MaxJobs
  BY DoneParts, BusyFinite DEF JobsKept
<1>4. loops'[0].done = 0
  <2>1. loops[0].done = 0 /\ 0 \in {0} \cup Workers
    BY DEF JobsKept
  <2> QED BY <1>1, <1>2, <2>1
<1>5. ASSUME NEW ws \in SUBSET Workers, loops'[l].done = loops[l].done
      PROVE  Done(ws)' = Done(ws)
  <2>1. \A w \in ws : loops'[w].done = loops[w].done
    BY <1>1, <1>2, <1>5
  <2> QED BY <2>1 DEF Done
<1>6. CASE /\ loops'[l].done = loops[l].done /\ jobs' = jobs
           /\ loops'[l].pc # "job" \/ l = 0
  <2>1. Done(Workers)' = Done(Workers) /\ Total' = Total
    BY <1>5, <1>6 DEF Total
  <2>2. Busy' \subseteq Busy
    BY <1>1, <1>2, <1>6 DEF Busy
  <2>3. JobsKept'
    BY <1>2, <1>3, <1>6, <1>4, <2>1, <2>2, BusyFinite DEF JobsKept
  <2>4. \A ws \in SUBSET Workers : Cardinality(Done(ws)) <= Cardinality(Done(ws)')
    BY <1>3, <1>5, <1>6, DoneParts
  <2> QED BY <2>3, <2>4
<1>7. CASE /\ loops'[l].done = loops[l].done /\ jobs' = jobs - 1
           /\ l \in Workers /\ loops[l].pc # "job"
  <2>1. Done(Workers)' = Done(Workers) /\ Total' = Total
    BY <1>5, <1>7 DEF Total
  <2>2. Busy' \in SUBSET (Busy \cup {l})
    BY <1>1, <1>2, <1>7 DEF Busy
  <2>3. l \notin Busy
    BY <1>7 DEF Busy
  <2>4. IsFiniteSet(Busy \cup {l}) /\ Cardinality(Busy \cup {l}) = Cardinality(Busy) + 1
    BY <2>3, BusyFinite, FS_AddElement
  <2>5. Cardinality(Busy') <= Cardinality(Busy) + 1
    BY <2>2, <2>4, FS_Subset
  <2>6. JobsKept'
    BY <1>2, <1>3, <1>7, <1>4, <2>1, <2>5 DEF JobsKept
  <2>7. \A ws \in SUBSET Workers : Cardinality(Done(ws)) <= Cardinality(Done(ws)')
    BY <1>3, <1>5, <1>7, DoneParts
  <2> QED BY <2>6, <2>7
<1>8. CASE /\ loops'[l].done = loops[l].done + 1 /\ jobs' = jobs
           /\ l \in Workers /\ loops[l].pc = "job" /\ loops'[l].pc # "job"
  <2> DEFINE e == <<l, loops[l].done + 1>>
  <2>1. ASSUME NEW ws \in SUBSET Workers
        PROVE  Done(ws)' = IF l \in ws THEN Done(ws) \cup {e} ELSE Done(ws)
    <3>1. 1 .. (loops[l].done + 1) = (1 .. loops[l].done) \cup {loops[l].done + 1}
      BY <1>2, <1>8
    <3>2. {l} \X (1 .. loops'[l].done) = ({l} \X (1 .. loops[l].done)) \cup {e}
      BY <1>8, <3>1
    <3>3. \A w \in ws : w # l => loops'[w].done = loops[w].done
      BY <1>1, <1>2
    <3> QED BY <3>2, <3>3 DEF Done
  <2>2. \A ws \in SUBSET Workers : IsFiniteSet(Done(ws)) /\ Cardinality(Done(ws)) \in Nat
    BY <1>3, DoneParts
  <2>3. ASSUME NEW ws \in SUBSET Workers
        PROVE  /\ IsFiniteSet(Done(ws)') /\ Cardinality(Done(ws)') \in Nat
               /\ Cardinality(Done(ws)) <= Cardinality(Done(ws)')
               /\ Cardinality(Done(ws)') <= Cardinality(Done(ws)) + 1
    <3>1. /\ IsFiniteSet(Done(ws) \cup {e})
          /\ \/ Cardinality(Done(ws) \cup {e}) = Cardinality(Done(ws))
             \/ Cardinality(Done(ws) \cup {e}) = Cardinality(Done(ws)) + 1
      BY <2>2, FS_AddElement
    <3>2. Done(ws)' = Done(ws) \/ Done(ws)' = Done(ws) \cup {e}
      BY <2>1
    <3>3. IsFiniteSet(Done(ws)) /\ Cardinality(Done(ws)) \in Nat
      BY <2>2
    <3>4. CASE Done(ws)' = Done(ws)
      BY <3>3, <3>4
    <3>5. CASE Done(ws)' = Done(ws) \cup {e}
      <4>1. IsFiniteSet(Done(ws)') /\ Cardinality(Done(ws)') = Cardinality(Done(ws) \cup {e})
        BY <3>1, <3>5
      <4> QED BY <3>1, <3>3, <4>1
    <3> QED BY <3>2, <3>4, <3>5
  <2>4. Busy' \in SUBSET (Busy \ {l}) /\ l \in Busy
    BY <1>1, <1>2, <1>8 DEF Busy
  <2>5. IsFiniteSet(Busy \ {l}) /\ Cardinality(Busy \ {l}) = Cardinality(Busy) - 1
    BY <2>4, BusyFinite, FS_RemoveElement
  <2>6. Cardinality(Busy') <= Cardinality(Busy) - 1
    BY <2>4, <2>5, FS_Subset
  <2>7. IsFiniteSet(Done(Workers)') /\ Total' \in Nat /\ Total' <= Total + 1
    BY <2>3 DEF Total
  <2>8. JobsKept'
    BY <1>2, <1>3, <1>8, <1>4, <2>6, <2>7 DEF JobsKept
  <2> QED BY <2>3, <2>8
<1> QED BY <1>1, <1>6, <1>7, <1>8

LEMMA JobsStep ==
  ASSUME Types, Types', JobsKept, Sums, [Next]_vars
  PROVE  JobsKept'
<1>1. ASSUME UNCHANGED <<loops, jobs>> PROVE JobsKept'
  BY <1>1 DEF JobsKept, Total, Done, Busy
<1>2. CASE UNCHANGED vars
  BY <1>1, <1>2 DEF vars
<1>3. ASSUME NEW l \in {0} \cup Workers, LoopSteps(l) PROVE JobsKept'
  BY <1>3, DoneStep
<1>4. ASSUME NEW c \in Callers, NEW s \in Services, CallerStep(c, s) PROVE JobsKept'
  <2>1. CASE Call(c)
    BY <1>1, <2>1, CallStep
  <2>2. CASE Looks(c, s)
    BY <1>1, <2>2, LookStep DEF Looks
  <2>3. CASE GetStats(c)
    BY <1>1, <2>3, GetStatsStep
  <2>4. CASE Count(c)
    BY <1>1, <2>4, CountStep
  <2>5. CASE Answer(c)
    BY <1>1, <2>5, AnswerStep
  <2>6. CASE Start(c, s) /\ MayStart(s)
    <3>1. /\ \A l \in Of(s) : loops'[l].pc = "select" /\ loops'[l].done = 0
          /\ \A l \in {0} \cup Workers : l \notin Of(s) => loops'[l] = loops[l]
          /\ UNCHANGED jobs
      BY <2>6, StartStep
    <3>2. ASSUME NEW w \in Workers
          PROVE  \/ loops'[w].pc = "select" /\ loops'[w].done = 0
                 \/ loops'[w] = loops[w]
      BY <3>1
    <3>3. Done(Workers)' \in SUBSET Done(Workers)
      <4>1. \A w \in Workers : (1 .. loops'[w].done) \subseteq 1 .. loops[w].done
        BY <3>2
      <4> QED BY <4>1 DEF Done
    <3>4. Busy' \subseteq Busy
      BY <3>2 DEF Busy
    <3>5. IsFiniteSet(Done(Workers)') /\ Total' <= Total /\ Total' \in Nat
      BY <3>3, FS_Subset, FS_CardinalityType DEF JobsKept, Total
    <3>6. /\ jobs \in Nat /\ jobs' = jobs /\ MaxJobs \in Nat /\ Total \in Nat
          /\ Cardinality(Busy) \in Nat /\ Cardinality(Busy') \in Nat
          /\ Cardinality(Busy') <= Cardinality(Busy)
          /\ jobs + Total + Cardinality(Busy) <= MaxJobs
      BY <3>1, <3>4, Sizes, DoneParts, BusyFinite DEF Types, JobsKept
    <3>7. loops'[0].done = 0
      <4>1. loops[0].done = 0 /\ 0 \in {0} \cup Workers
        BY DEF JobsKept
      <4> QED BY <3>1, <4>1
    <3> QED BY <3>5, <3>6, <3>7 DEF JobsKept
  <2>7. CASE Stop(c, s) /\ ~UNCHANGED services
    BY <1>1, <2>7, StopStep
  <2>8. CASE Wait(c, s)
    BY <1>1, <2>8 DEF Wait
  <2> QED BY <1>4, <2>1, <2>2, <2>3, <2>4, <2>5, <2>6, <2>7, <2>8 DEF CallerStep
<1> QED BY <1>2, <1>3, <1>4, StepKinds

(* A caller whose reading goes on while the loops work, and one that does  *)
(* not read.                                                               *)
LEMMA SummingKept ==
  ASSUME Types, Types', NEW d \in Callers, Summing(d),
         calls'[d].at = calls[d].at, calls'[d].sum = calls[d].sum,
         calls'[d].base = calls[d].base,
         calls'[d].at # 0 => /\ calls'[d].todo = calls[d].todo
                             /\ d \in services'["pool"].readers
                             /\ IsFiniteSet(Done(Workers)) /\ IsFiniteSet(Done(Workers)')
                             /\ \A ws \in SUBSET Workers :
                                  Cardinality(Done(ws)) <= Cardinality(Done(ws)')
  PROVE  Summing(d)'
<1> SUFFICES ASSUME NEW a \in 1 .. PoolSize + 1, calls'[d].at = a
             PROVE  /\ d \in services'["pool"].readers /\ calls'[d].todo # <<>>
                    /\ calls'[d].base <= calls'[d].sum + Cardinality(Done(a .. PoolSize)')
                    /\ calls'[d].sum <= Cardinality(Done(1 .. (a - 1))')
  BY DEF Summing
<1>1. a \in Nat /\ a # 0 /\ a .. PoolSize \in SUBSET Workers /\ 1 .. (a - 1) \in SUBSET Workers
  BY Sizes DEF Workers
<1>2. \A ws \in SUBSET Workers : /\ Cardinality(Done(ws)) \in Nat
                                 /\ Cardinality(Done(ws)') \in Nat
                                 /\ Cardinality(Done(ws)) <= Cardinality(Done(ws)')
  <2>1. ASSUME NEW ws \in SUBSET Workers
        PROVE  Cardinality(Done(ws)) \in Nat /\ Cardinality(Done(ws)') \in Nat
    <3>1. Done(ws) \in SUBSET Done(Workers) /\ Done(ws)' \in SUBSET Done(Workers)'
      BY DEF Done
    <3>2. IsFiniteSet(Done(ws)) /\ IsFiniteSet(Done(ws)')
      BY <1>1, <3>1, FS_Subset
    <3> QED BY <3>2, FS_CardinalityType
  <2> QED BY <1>1, <2>1
<1>3. /\ d \in services["pool"].readers /\ calls[d].todo # <<>>
      /\ calls[d].base <= calls[d].sum + Cardinality(Done(a .. PoolSize))
      /\ calls[d].sum <= Cardinality(Done(1 .. (a - 1)))
      /\ calls[d].sum \in Nat /\ calls[d].base \in Nat
  BY Sizes DEF Summing, Types, CallState
<1>4. /\ Cardinality(Done(a .. PoolSize)) \in Nat /\ Cardinality(Done(a .. PoolSize)') \in Nat
      /\ Cardinality(Done(a .. PoolSize)) <= Cardinality(Done(a .. PoolSize)')
      /\ Cardinality(Done(1 .. (a - 1))) \in Nat /\ Cardinality(Done(1 .. (a - 1))') \in Nat
      /\ Cardinality(Done(1 .. (a - 1))) <= Cardinality(Done(1 .. (a - 1))')
  BY <1>1, <1>2
<1> QED BY <1>1, <1>3, <1>4

(* The counters that nobody changes.                                       *)
LEMMA DoneKept ==
  ASSUME Types, IsFiniteSet(Done(Workers)),
         \A w \in Workers : loops'[w].done = loops[w].done
  PROVE  /\ IsFiniteSet(Done(Workers)')
         /\ \A ws \in SUBSET Workers : /\ Cardinality(Done(ws)) <= Cardinality(Done(ws)')
                                       /\ Done(ws)' = Done(ws)
<1>1. ASSUME NEW ws \in SUBSET Workers PROVE Done(ws)' = Done(ws)
  BY DEF Done
<1>2. \A ws \in SUBSET Workers : Cardinality(Done(ws)) \in Nat
  BY DoneParts
<1> QED BY <1>1, <1>2

LEMMA SumsStep ==
  ASSUME Types, Types', JobsKept, JobsKept', Sums, [Next]_vars
  PROVE  Sums'
<1>0. /\ \A d \in Callers : Summing(d)
      /\ IsFiniteSet(Done(Workers)) /\ IsFiniteSet(Done(Workers)') /\ "pool" \in Services
  BY LoopsOf DEF Sums, JobsKept
<1>1. ASSUME NEW d \in Callers, calls[d].at # 0
      PROVE  /\ calls[d].at \in 1 .. PoolSize + 1
             /\ d \in services["pool"].readers /\ calls[d].todo # <<>>
  <2>1. calls[d].at \in 1 .. PoolSize + 1
    BY <1>1, Sizes DEF Types, CallState
  <2> QED BY <1>0, <2>1 DEF Summing
<1>2. ASSUME NEW d \in Callers, calls'[d].at = 0, calls'[d].sum = 0, calls'[d].base = 0
      PROVE  Summing(d)'
  BY <1>2 DEF Summing
<1>3. ASSUME \A ws \in SUBSET Workers : Cardinality(Done(ws)) <= Cardinality(Done(ws)'),
             \A d \in Callers :
               \/ Summing(d)'
               \/ /\ calls'[d] = calls[d]
                  /\ d \in services["pool"].readers => d \in services'["pool"].readers
      PROVE  Sums'
  <2>1. ASSUME NEW d \in Callers, calls'[d] = calls[d],
               d \in services["pool"].readers => d \in services'["pool"].readers
        PROVE  Summing(d)'
    BY <1>0, <1>1, <1>3, <2>1, SummingKept
  <2> QED BY <1>3, <2>1 DEF Sums
<1>4. ASSUME \A w \in Workers : loops'[w].done = loops[w].done,
             \A d \in Callers :
               \/ Summing(d)'
               \/ /\ calls'[d] = calls[d]
                  /\ d \in services["pool"].readers => d \in services'["pool"].readers
      PROVE  Sums'
  BY <1>0, <1>3, <1>4, DoneKept
<1>5. CASE UNCHANGED vars
  BY <1>4, <1>5 DEF vars
<1>6. ASSUME NEW l \in {0} \cup Workers, LoopSteps(l) PROVE Sums'
  <2>1. UNCHANGED <<services, calls>>
    BY <1>6, LoopStep DEF LoopSteps
  <2>2. \A ws \in SUBSET Workers : Cardinality(Done(ws)) <= Cardinality(Done(ws)')
    BY <1>6, DoneStep
  <2> QED BY <1>3, <2>1, <2>2
<1>7. ASSUME NEW c \in Callers, NEW s \in Services, CallerStep(c, s) PROVE Sums'
  <2>1. CASE Call(c)
    <3>1. /\ calls[c].todo = <<>> /\ UNCHANGED <<services, loops>>
          /\ calls'[c].at = calls[c].at /\ calls'[c].sum = calls[c].sum
          /\ calls'[c].base = calls[c].base
          /\ \A d \in Callers : d # c => calls'[d] = calls[d]
      BY <2>1, CallStep
    <3>2. calls[c].at = 0 /\ calls[c].sum = 0 /\ calls[c].base = 0
      BY <1>0, <1>1, <3>1 DEF Summing
    <3> QED BY <1>2, <1>4, <3>1, <3>2
  <2>2. CASE Looks(c, s)
    <3>1. /\ UNCHANGED <<services, loops>>
          /\ UNCHANGED calls \/ (Return(c) /\ calls[c].todo # <<>>)
      BY <2>2, LookStep DEF Looks
    <3> QED BY <1>2, <1>4, <3>1, Returned
  <2>3. CASE GetStats(c)
    <3>1. /\ UNCHANGED loops
          /\ services'["pool"].readers = services["pool"].readers \cup {c}
          /\ calls'[c].at = 1 /\ calls'[c].sum = 0 /\ calls'[c].base = Total
          /\ calls'[c].todo = calls[c].todo
          /\ \A d \in Callers : d # c => calls'[d] = calls[d]
      BY <2>3, GetStatsStep
    <3>2. calls[c].todo # <<>>
      BY <2>3 DEF GetStats, Doing
    <3>3. \A ws \in SUBSET Workers : Done(ws)' = Done(ws) /\ Cardinality(Done(ws)) \in Nat
      BY <1>0, <3>1, DoneKept, DoneParts
    <3>4. 1 .. PoolSize = Workers /\ 1 .. (1 - 1) \in SUBSET Workers
      BY Sizes DEF Workers
    <3>5. /\ Total <= 0 + Cardinality(Done(1 .. PoolSize)')
          /\ 0 <= Cardinality(Done(1 .. (1 - 1))')
      BY <1>0, <3>3, <3>4, DoneParts DEF Total
    <3>6. Summing(c)'
      BY <3>1, <3>2, <3>5 DEF Summing
    <3> QED BY <1>4, <3>1, <3>6
  <2>4. CASE Count(c)
    <3>1. /\ UNCHANGED <<services, loops>> /\ calls[c].at \in Workers
          /\ calls'[c].at = calls[c].at + 1
          /\ calls'[c].sum = calls[c].sum + loops[calls[c].at].done
          /\ calls'[c].base = calls[c].base /\ calls'[c].todo = calls[c].todo
          /\ \A d \in Callers : d # c => calls'[d] = calls[d]
      BY <2>4, CountStep
    <3>2. PICK w \in Workers : w = calls[c].at
      BY <3>1
    <3>3. /\ w \in Nat /\ w # 0 /\ w <= PoolSize /\ PoolSize \in Nat
          /\ w \in 1 .. PoolSize + 1
      BY Sizes DEF Workers
    <3>4. /\ c \in services["pool"].readers /\ calls[c].todo # <<>>
          /\ calls[c].base <= calls[c].sum + Cardinality(Done(w .. PoolSize))
          /\ calls[c].sum <= Cardinality(Done(1 .. (w - 1)))
      BY <1>0, <3>2, <3>3 DEF Summing
    <3>5. /\ (w + 1) .. PoolSize \in SUBSET Workers /\ w \notin (w + 1) .. PoolSize
          /\ w .. PoolSize = ((w + 1) .. PoolSize) \cup {w}
          /\ 1 .. (w - 1) \in SUBSET Workers /\ w \notin 1 .. (w - 1)
          /\ 1 .. w = (1 .. (w - 1)) \cup {w}
      BY <3>3 DEF Workers
    <3>6. /\ Cardinality(Done(w .. PoolSize)) =
               Cardinality(Done((w + 1) .. PoolSize)) + loops[w].done
          /\ Cardinality(Done(1 .. w)) = Cardinality(Done(1 .. (w - 1))) + loops[w].done
      BY <1>0, <3>5, DoneOneMore
    <3>7. /\ Cardinality(Done((w + 1) .. PoolSize)) \in Nat
          /\ Cardinality(Done(1 .. (w - 1))) \in Nat /\ loops[w].done \in Nat
          /\ calls[c].sum \in Nat /\ calls[c].base \in Nat
      <4>1. loops[w] \in Loop /\ calls[c].sum \in Nat /\ calls[c].base \in Nat
        BY Sizes DEF Types, CallState
      <4>2. /\ Cardinality(Done((w + 1) .. PoolSize)) \in Nat
            /\ Cardinality(Done(1 .. (w - 1))) \in Nat
        BY <1>0, <3>5, DoneParts
      <4> QED BY <4>1, <4>2 DEF Loop
    <3>8. /\ calls'[c].base <= calls'[c].sum + Cardinality(Done((w + 1) .. PoolSize))
          /\ calls'[c].sum <= Cardinality(Done(1 .. w))
      BY <3>1, <3>2, <3>4, <3>6, <3>7
    <3>9. /\ Done((w + 1) .. PoolSize)' = Done((w + 1) .. PoolSize)
          /\ Done(1 .. w)' = Done(1 .. w)
      BY <3>1 DEF Done
    <3>10. ASSUME NEW a \in 1 .. PoolSize + 1, calls'[c].at = a
           PROVE  /\ calls'[c].base <= calls'[c].sum + Cardinality(Done(a .. PoolSize)')
                  /\ calls'[c].sum <= Cardinality(Done(1 .. (a - 1))')
      <4>1. a = w + 1 /\ a - 1 = w
        BY <3>1, <3>2, <3>3, <3>10
      <4> QED BY <3>8, <3>9, <4>1
    <3>11. Summing(c)'
      <4>1. calls'[c].at # 0
        BY <3>1, <3>2, <3>3
      <4> QED BY <3>1, <3>4, <3>10, <4>1 DEF Summing
    <3> QED BY <1>4, <3>1, <3>11
  <2>5. CASE Answer(c)
    <3>1. /\ UNCHANGED loops /\ Return(c) /\ calls[c].todo # <<>>
          /\ services'["pool"].readers = services["pool"].readers \ {c}
      BY <1>0, <2>5, AnswerStep
    <3> QED BY <1>2, <1>4, <3>1, Returned
  <2>6. CASE Start(c, s) /\ MayStart(s)
    <3>1. Return(c) /\ calls[c].todo # <<>>
      BY <2>6 DEF Start, Doing
    <3>2. /\ MayWrite(s)
          /\ services'["pool"].readers = services["pool"].readers
          /\ \A l \in {0} \cup Workers : l \notin Of(s) => loops'[l] = loops[l]
      BY <1>0, <2>6, StartStep
    <3>3. CASE s = "pool"
      <4>1. \A d \in Callers : calls[d].at = 0
        BY <1>1, <3>2, <3>3 DEF MayWrite
      <4>2. ASSUME NEW d \in Callers PROVE Summing(d)'
        <5>1. calls[d].sum = 0 /\ calls[d].base = 0
          BY <1>0, <4>1 DEF Summing
        <5> QED BY <1>2, <3>1, <4>1, <5>1, Returned
      <4> QED BY <4>2 DEF Sums
    <3>4. CASE s # "pool"
      <4>1. \A w \in Workers : w \in {0} \cup Workers /\ w \notin Of(s)
        BY <3>4, Sizes DEF Of
      <4> QED BY <1>2, <1>4, <3>1, <3>2, <4>1, Returned
    <3> QED BY <3>3, <3>4
  <2>7. CASE Stop(c, s) /\ ~UNCHANGED services
    BY <1>0, <1>4, <2>7, StopStep
  <2>8. CASE Wait(c, s)
    <3>1. Return(c) /\ calls[c].todo # <<>> /\ UNCHANGED loops
      BY <2>8 DEF Wait, Doing
    <3> QED BY <1>0, <1>2, <1>4, <2>8, <3>1, WaitStep, Returned
  <2> QED BY <1>7, <2>1, <2>2, <2>3, <2>4, <2>5, <2>6, <2>7, <2>8 DEF CallerStep
<1> QED BY <1>5, <1>6, <1>7, StepKinds

----------------------------------------------------------------------------
(* The invariant holds initially, and every step keeps it: each of its     *)
(* parts needs only those before it.                                       *)
THEOREM LifecycleInvariant == Spec => []LifecycleInv
<1>1. Init => LifecycleInv
  <2> SUFFICES ASSUME Init PROVE LifecycleInv
    OBVIOUS
  <2>1. /\ \A s \in Services : services[s] = [running |-> FALSE, closed |-> FALSE,
                                              writer |-> None, readers |-> {}, starts |-> 0]
        /\ loops = [l \in {0} \cup Workers |-> Off] /\ calls = [c \in Callers |-> Idle]
        /\ jobs = MaxJobs /\ panicked = FALSE
    BY DEF Init
  <2>2. Types
    <3>1. [running |-> FALSE, closed |-> FALSE, writer |-> None, readers |-> {},
           starts |-> 0] \in Service
      BY DEF Service
    <3>2. services \in [Services -> Service]
      BY <3>1 DEF Init
    <3>3. Off \in Loop /\ Idle \in CallState
      BY Sizes DEF Off, Loop, Idle, CallState, Todos
    <3>4. /\ loops \in [{0} \cup Workers -> Loop] /\ calls \in [Callers -> CallState]
          /\ jobs \in 0 .. MaxJobs
      BY <2>1, <3>3, Sizes
    <3> QED BY <2>1, <3>2, <3>4 DEF Types
  <2>3. \A c \in Callers : /\ calls[c].todo = <<>> /\ calls[c].at = 0
                           /\ calls[c].sum = 0 /\ calls[c].base = 0
    BY <2>1 DEF Idle
  <2>4. \A l \in {0} \cup Workers : loops[l].pc = "off" /\ loops[l].done = 0 /\ loops[l].late = 0
    BY <2>1 DEF Off
  <2>5. StartsBounded
    <3>1. ASSUME NEW s \in Services PROVE services[s].starts + Cardinality(Starting(s)) <= MaxStarts
      <4>1. Starting(s) = {}
        BY <2>3 DEF Starting, Doing
      <4>2. services[s].starts = 0 /\ Cardinality(Starting(s)) = 0
        BY <2>1, <4>1, FS_EmptySet
      <4> QED BY <4>2, Sizes
    <3> QED BY <3>1 DEF StartsBounded
  <2>6. \A s \in Services : ~services[s].running /\ ~services[s].closed
    BY <2>1
  <2>7. Flags /\ Lateness /\ StopWaits /\ RunningMeansWorking
    <3>1. panicked = FALSE
      BY <2>1, Zenon
    <3>2. Flags /\ RunningMeansWorking
      BY <2>6, <3>1 DEF Flags, PanicNeedsARestart, RunningMeansWorking
    <3>3. Lateness
      <4>1. \A w \in Workers : loops[w].late = 0
        BY <2>4
      <4>2. \A w \in Workers : loops[w].late <= 1
        BY <4>1
      <4> QED BY <4>1, <4>2 DEF Lateness
    <3>4. StopWaits
      <4>1. \A s \in Services : \A l \in Of(s) : loops[l].pc = "off"
        BY <2>4, LoopsOf
      <4> QED BY <4>1 DEF StopWaits
    <3> QED BY <3>2, <3>3, <3>4
  <2>8. JobsKept
    <3>1. Done(Workers) = {}
      <4>1. \A w \in Workers : 1 .. loops[w].done = {}
        <5>1. \A w \in Workers : loops[w].done = 0
          BY <2>4
        <5> QED BY <5>1
      <4> QED BY <4>1 DEF Done
    <3>2. Busy = {}
      BY <2>4 DEF Busy
    <3>3. IsFiniteSet(Done(Workers)) /\ Total = 0 /\ Cardinality(Busy) = 0
      BY <3>1, <3>2, FS_EmptySet DEF Total
    <3> QED BY <2>1, <2>4, <3>3, Sizes DEF JobsKept
  <2>9. Sums
    BY <2>3 DEF Sums, Summing
  <2> QED BY <2>2, <2>5, <2>7, <2>8, <2>9 DEF LifecycleInv
<1>2. LifecycleInv /\ [Next]_vars => LifecycleInv'
  <2> SUFFICES ASSUME LifecycleInv, [Next]_vars PROVE LifecycleInv'
    OBVIOUS
  <2>1. /\ Types /\ StartsBounded /\ Flags /\ Lateness /\ StopWaits /\ RunningMeansWorking
        /\ JobsKept /\ Sums
    BY DEF LifecycleInv
  <2>2. Types'
    BY <2>1, TypesStep
  <2>3. JobsKept'
    BY <2>1, <2>2, JobsStep
  <2>4. StartsBounded' /\ Flags' /\ Lateness'
    BY <2>1, <2>2, StartsStep, FlagsStep, LatenessStep
  <2>5. StopWaits' /\ RunningMeansWorking'
    BY <2>1, <2>2, WaitsStep
  <2>6. Sums'
    BY <2>1, <2>2, <2>3, SumsStep
  <2> QED BY <2>2, <2>3, <2>4, <2>5, <2>6 DEF LifecycleInv
<1> QED BY <1>1, <1>2, PTL DEF Spec

(* When Stop has returned nothing works any more, each worker took at most *)
(* one job after the stop was asked for, and the channel is closed twice   *)
(* only in a second life, however many callers start and stop: StopIsSound. *)
THEOREM StopsStaySound == Spec => []StopIsSound
<1>1. LifecycleInv => StopIsSound
  <2> SUFFICES ASSUME LifecycleInv PROVE StopIsSound
    OBVIOUS
  <2>1. /\ Types /\ StartsBounded /\ Flags /\ Lateness /\ StopWaits /\ JobsKept /\ Sums
    BY DEF LifecycleInv
  <2>2. /\ Total \in Nat /\ Total <= MaxJobs /\ MaxJobs \in Nat
        /\ \A ws \in SUBSET Workers : /\ Cardinality(Done(ws)) \in Nat
                                      /\ Cardinality(Done(ws)) <= MaxJobs
        /\ \A w \in Workers : Cardinality(Done({w})) = loops[w].done
    <3>1. /\ Total \in Nat /\ jobs \in Nat /\ MaxJobs \in Nat /\ Cardinality(Busy) \in Nat
          /\ jobs + Total + Cardinality(Busy) <= MaxJobs
      BY <2>1, Sizes, DoneParts, BusyFinite DEF Types, JobsKept
    <3>2. Total <= MaxJobs
      BY <3>1
    <3>3. ASSUME NEW ws \in SUBSET Workers
          PROVE  Cardinality(Done(ws)) \in Nat /\ Cardinality(Done(ws)) <= MaxJobs
      <4>1. Cardinality(Done(ws)) \in Nat /\ Cardinality(Done(ws)) <= Total
        BY <2>1, DoneParts DEF JobsKept
      <4> QED BY <3>1, <3>2, <4>1
    <3> QED BY <2>1, <3>1, <3>2, <3>3, DoneParts DEF JobsKept
  <2>3. ASSUME NEW s \in Services PROVE services[s].starts \in 0 .. MaxStarts
    <3>1. /\ services[s].starts \in Nat /\ Cardinality(Starting(s)) \in Nat /\ MaxStarts \in Nat
          /\ services[s].starts + Cardinality(Starting(s)) <= MaxStarts
      BY <2>1, Sizes, StartingFinite DEF Types, Service, StartsBounded
    <3> QED BY <3>1
  <2>4. services \in [Services -> [running : BOOLEAN, closed : BOOLEAN,
                                   writer : Callers \cup {None}, readers : SUBSET Callers,
                                   starts : 0 .. MaxStarts]]
    <3>1. services \in [Services -> Service]
      BY <2>1 DEF Types
    <3>2. \A s \in Services :
            services[s] \in [running : BOOLEAN, closed : BOOLEAN,
                             writer : Callers \cup {None}, readers : SUBSET Callers,
                             starts : 0 .. MaxStarts]
      BY <2>3, <3>1 DEF Service
    <3> QED BY <3>1, <3>2
  <2>5. ASSUME NEW l \in {0} \cup Workers, l \in Workers
        PROVE  loops[l].done \in 0 .. MaxJobs
    <3>1. {l} \in SUBSET Workers
      BY <2>5
    <3>2. loops[l].done = Cardinality(Done({l}))
      BY <2>2, <2>5
    <3> QED BY <2>2, <3>1, <3>2
  <2>6. ASSUME NEW l \in DOMAIN loops
        PROVE  /\ loops[l].pc \in {"off", "select", "dequeue", "job"}
               /\ loops[l].done \in 0 .. MaxJobs
    <3>1. loops \in [{0} \cup Workers -> Loop] /\ l \in {0} \cup Workers /\ loops[0].done = 0
      BY <2>1 DEF Types, JobsKept
    <3>2. loops[l].pc \in {"off", "select", "dequeue", "job"}
      BY <3>1 DEF Loop
    <3> QED BY <2>2, <2>5, <3>1, <3>2
  <2>7. ASSUME NEW c \in Callers
        PROVE  /\ calls[c].at \in 0 .. PoolSize + 1
               /\ {calls[c].sum, calls[c].base} \subseteq 0 .. MaxJobs
    <3>1. /\ calls[c].at \in 0 .. PoolSize + 1 /\ calls[c].base \in 0 .. MaxJobs
          /\ calls[c].sum \in Nat
      BY <2>1 DEF Types, CallState
    <3>2. calls[c].sum <= MaxJobs
      <4>1. CASE calls[c].at = 0
        BY <2>1, <2>2, <4>1 DEF Sums, Summing
      <4>2. CASE calls[c].at # 0
        <5>1. PICK a \in 1 .. PoolSize + 1 : a = calls[c].at
          BY <3>1, <4>2, Sizes
        <5>2. calls[c].sum <= Cardinality(Done(1 .. (a - 1)))
          BY <2>1, <5>1 DEF Sums, Summing
        <5>3. 1 .. (a - 1) \in SUBSET Workers
          BY <5>1, Sizes DEF Workers
        <5>4. Cardinality(Done(1 .. (a - 1))) \in Nat /\ Cardinality(Done(1 .. (a - 1))) <= MaxJobs
          BY <2>2, <5>3
        <5> QED BY <2>2, <3>1, <5>2, <5>4
      <4> QED BY <4>1, <4>2
    <3> QED BY <2>2, <3>1, <3>2
  <2>8. TypeOK
    BY <2>1, <2>4, <2>6, <2>7 DEF TypeOK, Types
  <2>9. OneLateJob /\ PanicNeedsARestart
    BY <2>1 DEF OneLateJob, Lateness, Flags
  <2> QED BY <2>1, <2>8, <2>9 DEF StopIsSound
<1> QED BY <1>1, LifecycleInvariant, PTL

(* A service that says it runs has all its loops, and the sum of GetStats  *)
(* lies between the jobs that were done when it began and those that are   *)
(* done when it ends, however many workers go on meanwhile:                *)
(* AnswersAreSound.                                                        *)
THEOREM AnswersStaySound == Spec => []AnswersAreSound
<1>1. LifecycleInv => AnswersAreSound
  <2> SUFFICES ASSUME LifecycleInv PROVE AnswersAreSound
    OBVIOUS
  <2>1. Types /\ RunningMeansWorking /\ JobsKept /\ Sums
    BY DEF LifecycleInv
  <2>2. ASSUME NEW c \in Callers, calls[c].at = PoolSize + 1
        PROVE  calls[c].base <= calls[c].sum /\ calls[c].sum <= Total
    <3>1. PICK a \in 1 .. PoolSize + 1 : a = PoolSize + 1
      BY Sizes
    <3>2. /\ calls[c].base <= calls[c].sum + Cardinality(Done(a .. PoolSize))
          /\ calls[c].sum <= Cardinality(Done(1 .. (a - 1)))
          /\ calls[c].base \in Nat /\ calls[c].sum \in Nat
      BY <2>1, <2>2, <3>1, Sizes DEF Types, CallState, Sums, Summing
    <3>3. a .. PoolSize = {} /\ 1 .. (a - 1) = Workers
      BY <3>1, Sizes DEF Workers
    <3>4. Done({}) = {}
      BY DEF Done
    <3>5. Cardinality(Done(a .. PoolSize)) = 0
      BY <3>3, <3>4, FS_EmptySet
    <3>6. Cardinality(Done(1 .. (a - 1))) = Total
      BY <3>3 DEF Total
    <3> QED BY <3>2, <3>5, <3>6
  <2> QED BY <2>1, <2>2 DEF AnswersAreSound, StatsAreBetween
<1> QED BY <1>1, LifecycleInvariant, PTL
=============================================================================
