--------------------------- MODULE HealthMetrics ---------------------------
(***************************************************************************)
(* Health checks and what is computed from them: HealthCheckService        *)
(* (src/usecase/healthcheck_service.go) with the retries of its HTTP       *)
(* client (src/infrastructure/httpclient), and MetricsServiceImpl          *)
(* (src/usecase/metrics_service.go), which keeps its results in Redis for  *)
(* a minute.  Workers run and store checks of one monitor and remove the   *)
(* results; readers use them, or compute them anew.                        *)
(*                                                                         *)
(* A check is a number, in the order of checked_at: the time it begins.    *)
(* Times are ages and times left; Delay is the first back-off.  A period   *)
(* is long compared with a run: no check leaves it.  ReadTime bounds the   *)
(* time of a read, MaxChecks and MaxErrors bound the run.                  *)
(***************************************************************************)
EXTENDS Integers, Sequences

CONSTANTS
    Workers, Readers,
    MaxAttempts, Delay, Timeout,     \* RetryConfig, requestTimeout
    Kinds,                           \* the metrics that are asked for
    TTL, ReadTime, MaxChecks, MaxErrors, None

ASSUME MetricsAssumption ==
    /\ {MaxAttempts, Delay, TTL, MaxChecks} \subseteq Nat \ {0}
    /\ {Timeout, ReadTime, MaxErrors} \subseteq Nat
    /\ Kinds \subseteq {"uptime", "response:1h0m0s",
                        "response:24h0m0s", "response:168h0m0s"}
    /\ None \notin [status : {"success", "failure", "timeout"}, age : Nat]

VARIABLES
    checks,    \* per check: its result and how long ago it was stored, or None
    cache,     \* what is cached under each key cache:metrics:<id>:<kind>, or None
    workers,   \* the check each worker is at
    readers,   \* the call each reader is in
    errors     \* failures left

vars == <<checks, cache, workers, readers, errors>>

Horizon == TTL + ReadTime   \* older checks are not told apart
Checks == 1 .. MaxChecks
Statuses == {"success", "failure", "timeout"}
Results == [status : Statuses, age : 0 .. Horizon]
\* seen: the checks each range read found; excused: for the properties
Entries == [seen : Seq(SUBSET Checks), left : 1 .. TTL, excused : BOOLEAN]

Resting == [pc |-> "idle", check |-> 0, attempt |-> 0, wait |-> 0, left |-> 0,
            status |-> None, cancelled |-> FALSE, grounds |-> FALSE]
Away == [pc |-> "idle", kind |-> None, upto |-> 0, seen |-> <<>>, spent |-> 0,
         raced |-> FALSE]

Begun == Len(checks)
Stored == {k \in DOMAIN checks : checks[k] # None}
Fail == errors > 0 /\ errors' = errors - 1

Init ==
    /\ checks = <<>>
    /\ cache = [k \in Kinds |-> None]
    /\ workers = [w \in Workers |-> Resting]
    /\ readers = [r \in Readers |-> Away]
    /\ errors = MaxErrors

----------------------------------------------------------------------------
\* ExecuteCheck: the record with its time, then the first attempt.  The
\* Timeout is for all attempts together.
ExecuteCheck(w) ==
    /\ workers[w].pc = "idle" /\ Begun < MaxChecks
    /\ checks' = Append(checks, None)
    /\ workers' = [workers EXCEPT ![w] =
                     [Resting EXCEPT !.pc = "request", !.check = Begun + 1,
                                     !.attempt = 1, !.left = Timeout]]
    /\ UNCHANGED <<cache, readers, errors>>

\* The monitor cannot be read: no check is made.
NoMonitor(w) ==
    /\ workers[w].pc = "idle"
    /\ Fail
    /\ UNCHANGED <<checks, cache, workers, readers>>

\* The context of the worker is done: its 45 seconds are over, or it is told
\* to stop.
Cancel(w) ==
    /\ workers[w].pc # "idle" /\ ~workers[w].cancelled
    /\ workers' = [workers EXCEPT ![w].cancelled = TRUE]
    /\ UNCHANGED <<checks, cache, readers, errors>>

\* The attempts are over.  "grounds" is for the property: the site has
\* answered, or was tried for the sum of all back-offs or the whole Timeout.
Backoff(attempt) == Delay * 2 ^ (attempt - 1)
Outage == Backoff(MaxAttempts) - Delay
Patience == IF Outage < Timeout THEN Outage ELSE Timeout

Conclude(w, status, answered) ==
    workers' = [workers EXCEPT ![w] =
                  [@ EXCEPT !.pc = "store", !.attempt = 0, !.wait = 0, !.left = 0,
                            !.status = status,
                            !.grounds = answered \/ Timeout - workers[w].left >= Patience]]

\* classifyError.
ClassifyError(timedOut) == IF timedOut THEN "timeout" ELSE "failure"

\* validateCertificateChain and extractSSLInfo, of what is known of a
\* connection with TLS; without TLS it is None.
ChainFacts == {"certificate", "current", "handshake", "named"}
Certified(tls) == tls = None \/ ChainFacts \subseteq tls

\* classifyStatusCode: a code of 200 to 299, and a certificate if there is TLS.
Classify(code, tls) ==
    IF code \in 200 .. 299 /\ Certified(tls) THEN "success" ELSE "failure"
Answers == {Classify(code, tls) : code \in {199, 200, 299, 300},
                                  tls \in {None} \cup SUBSET ChainFacts}

\* Any response ends the attempts, whatever its code.
Respond(w) ==
    /\ workers[w].pc = "request"
    /\ \E status \in Answers : Conclude(w, status, TRUE)
    /\ UNCHANGED <<checks, cache, readers, errors>>

\* What the provers are not told of powers.
ASSUME BackoffsGrow ==
    /\ Backoff(1) = Delay
    /\ \A a, b \in 1 .. MaxAttempts :
         /\ Backoff(a) \in Nat \ {0} /\ (a < b => Backoff(a) < Backoff(b))
         /\ Backoff(a + 1) = 2 * Backoff(a)

\* DoWithRetry after a network error: back off, or give up with the last
\* error.  classifyError asks that error whether it is a timeout; so is a
\* slow TLS handshake.
LastAttemptEarly(attempt) == attempt >= MaxAttempts - 1
LastAttempt(attempt) == attempt = MaxAttempts
AttemptFails(w) ==
    LET me == workers[w] IN
    /\ me.pc = "request"
    /\ \/ /\ LastAttempt(me.attempt)
          /\ \E timedOut \in BOOLEAN : Conclude(w, ClassifyError(timedOut), FALSE)
       \/ /\ ~LastAttempt(me.attempt)
          /\ workers' = [workers EXCEPT ![w].pc = "backoff",
                           ![w].wait = Backoff(me.attempt)]
    /\ UNCHANGED <<checks, cache, readers, errors>>

\* The time for all attempts is over, or the context of the worker is done.
\* During a back-off the last network error is returned, which need not be a
\* timeout.
Over(w) == workers[w].left = 0 \/ workers[w].cancelled
Expire(w) ==
    /\ workers[w].pc \in {"request", "backoff"} /\ Over(w)
    /\ \E timedOut \in BOOLEAN :
         /\ workers[w].pc = "request" /\ ~workers[w].cancelled => timedOut
         /\ Conclude(w, ClassifyError(timedOut), FALSE)
    /\ UNCHANGED <<checks, cache, readers, errors>>

Retry(w) ==
    /\ workers[w].pc = "backoff" /\ workers[w].wait = 0
    /\ workers' = [workers EXCEPT ![w].pc = "request", ![w].attempt = @ + 1]
    /\ UNCHANGED <<checks, cache, readers, errors>>

\* persistHealthCheck: Create, with the context of the worker: a check that
\* was cancelled leaves no row.  The row may be there although its reply is
\* lost; then the results are not removed.
Go(w, pc) == workers' = [workers EXCEPT ![w] =
                           IF pc = "idle" THEN Resting ELSE [@ EXCEPT !.pc = pc]]

\* Mutant of Ongoing: the result is stored although the check was cut short.
OngoingAlways(w) == TRUE
Ongoing(w) == ~workers[w].cancelled
FailFor(w) == Fail \/ (workers[w].cancelled /\ UNCHANGED errors)

Excuse == cache' = [k \in Kinds |-> IF cache[k] = None THEN None
                                    ELSE [cache[k] EXCEPT !.excused = TRUE]]

Insert(w) ==
    /\ checks' = [checks EXCEPT ![workers[w].check] =
                    [status |-> workers[w].status, age |-> 0]]
    /\ readers' = [r \in Readers |->
                     [readers[r] EXCEPT !.raced = readers[r].pc \in {"read", "fill"}]]

Create(w) ==
    /\ workers[w].pc = "store"
    /\ \/ Ongoing(w) /\ Insert(w) /\ Go(w, "invalidate") /\ UNCHANGED <<cache, errors>>
       \/ Ongoing(w) /\ Fail /\ Insert(w) /\ Go(w, "idle") /\ Excuse
       \/ FailFor(w) /\ Go(w, "idle") /\ UNCHANGED <<checks, cache, readers>>

\* The keys invalidateMetricsCache removes, one after the other.  Only one
\* of them is a key of the metrics service.
InvalidatedKeysPeriods == {"uptime:24h", "uptime:7d", "uptime:30d",
                           "response:1h", "response:24h", "response:7d"}
InvalidatedKeys == {"uptime", "uptime:24h", "uptime:7d", "uptime:30d",
                    "response:1h", "response:24h", "response:7d"}

\* The errors of Delete are dropped; then the check is broadcast.
InvalidateMetricsCache(w) ==
    /\ workers[w].pc = "invalidate"
    /\ \/ /\ Ongoing(w)
          /\ cache' = [k \in Kinds |-> IF k \in InvalidatedKeys THEN None ELSE cache[k]]
          /\ UNCHANGED errors
       \/ FailFor(w) /\ Excuse
    /\ Go(w, "idle")
    /\ UNCHANGED <<checks, readers>>

----------------------------------------------------------------------------
\* GetUptimePercentage and GetResponseTimeStats look for the key; on a miss,
\* an error or a timeout of Redis they note the time: "upto".
Get(r, kind) ==
    /\ readers[r].pc = "idle"
    /\ \/ cache[kind] = None /\ UNCHANGED errors
       \/ Fail
    /\ readers' = [readers EXCEPT ![r] =
                     [Away EXCEPT !.pc = "read", !.kind = kind, !.upto = Begun]]
    /\ UNCHANGED <<checks, cache, workers>>

\* The periods are read one after the other.
Hours == [p \in {"24h", "7d", "30d"} |->
            CASE p = "24h" -> 24 [] p = "7d" -> 7 * 24 [] p = "30d" -> 30 * 24]
PeriodsLongestFirst(kind) == IF kind = "uptime" THEN <<"30d", "7d", "24h">> ELSE <<kind>>
Periods(kind) == IF kind = "uptime" THEN <<"24h", "7d", "30d">> ELSE <<kind>>

\* GetByDateRange from the start of the period up to the time of the call.
InRange(r) == {k \in Stored : k <= readers[r].upto}
Read(r) ==
    /\ readers[r].pc = "read"
    /\ LET seen == Append(readers[r].seen, InRange(r)) IN
       readers' = [readers EXCEPT
          ![r].seen = seen,
          ![r].pc = IF Len(seen) = Len(Periods(readers[r].kind)) THEN "fill" ELSE "read"]
    /\ UNCHANGED <<checks, cache, workers, errors>>

ReadFails(r) ==
    /\ readers[r].pc = "read"
    /\ Fail
    /\ readers' = [readers EXCEPT ![r] = Away]
    /\ UNCHANGED <<checks, cache, workers>>

\* Response times of successful checks; nothing is cached without any.
Samples(seen) == {k \in seen : checks[k].status = "success"}

\* setCachedJSON, for a minute; its errors are dropped.
LifetimeLonger == TTL + 1
Lifetime == TTL
Fill(r) ==
    LET me == readers[r]
        worth == me.kind = "uptime" \/ Samples(me.seen[1]) # {}
    IN
    /\ me.pc = "fill"
    /\ \/ /\ worth
          /\ cache' = [cache EXCEPT ![me.kind] =
                         [seen |-> me.seen, left |-> Lifetime, excused |-> me.raced]]
          /\ UNCHANGED errors
       \/ ~worth /\ UNCHANGED <<cache, errors>>
       \/ worth /\ Fail /\ UNCHANGED cache
    /\ readers' = [readers EXCEPT ![r] = Away]
    /\ UNCHANGED <<checks, workers>>

----------------------------------------------------------------------------
\* Time passes, unless someone is due.
Due(w) == \/ workers[w].pc = "backoff" /\ workers[w].wait = 0
          \/ workers[w].pc \in {"request", "backoff"} /\ Over(w)
Trying(w) == workers[w].pc \in {"request", "backoff"}

Tick ==
    /\ \A w \in Workers : ~Due(w)
    /\ \A r \in Readers : readers[r].pc # "idle" => readers[r].spent < ReadTime
    /\ checks' = [k \in DOMAIN checks |->
                    IF checks[k] = None \/ checks[k].age = Horizon THEN checks[k]
                    ELSE [checks[k] EXCEPT !.age = @ + 1]]
    /\ cache' = [k \in Kinds |->
                   IF cache[k] = None \/ cache[k].left = 1 THEN None
                   ELSE [cache[k] EXCEPT !.left = @ - 1]]
    /\ workers' = [w \in Workers |->
                     [workers[w] EXCEPT !.left = IF Trying(w) THEN @ - 1 ELSE @,
                        !.wait = IF workers[w].pc = "backoff" THEN @ - 1 ELSE @]]
    /\ readers' = [r \in Readers |->
                     [readers[r] EXCEPT !.spent = IF readers[r].pc = "idle" THEN 0 ELSE @ + 1]]
    /\ UNCHANGED errors

Next ==
    \/ \E w \in Workers :
         \/ ExecuteCheck(w) \/ NoMonitor(w) \/ Respond(w) \/ AttemptFails(w) \/ Cancel(w)
         \/ Expire(w) \/ Retry(w) \/ Create(w) \/ InvalidateMetricsCache(w)
    \/ \E r \in Readers :
         \/ \E kind \in Kinds : Get(r, kind)
         \/ Read(r) \/ ReadFails(r) \/ Fill(r)
    \/ Tick

Spec == Init /\ [][Next]_vars

----------------------------------------------------------------------------
\* The state has its type.
TypeOK ==
    /\ Begun <= MaxChecks
    /\ \A k \in DOMAIN checks : checks[k] = None \/ checks[k] \in Results
    /\ \A kind \in Kinds : cache[kind] # None =>
         /\ cache[kind] \in Entries
         /\ Len(cache[kind].seen) = Len(Periods(kind))
    /\ workers \in [Workers ->
         [pc : {"idle", "request", "backoff", "store", "invalidate"},
          check : 0 .. MaxChecks, attempt : 0 .. MaxAttempts,
          wait : 0 .. Backoff(MaxAttempts) - 1, left : 0 .. Timeout,
          status : Statuses \cup {None}, cancelled : BOOLEAN, grounds : BOOLEAN]]
    /\ \A r \in Readers :
         /\ readers[r].pc \in {"idle", "read", "fill"}
         /\ readers[r].upto \in 0 .. MaxChecks
         /\ readers[r].seen \in Seq(SUBSET Checks)
         /\ readers[r].spent \in 0 .. ReadTime
    /\ errors \in 0 .. MaxErrors

\* No metric served from Redis, of either kind, misses a check that was
\* stored longer ago than the life of a key and the time of a read: neither
\* races of readers and workers nor failed removals keep it out longer.
FreshMetrics ==
    \A kind \in Kinds : cache[kind] # None =>
        \A k \in Stored, i \in DOMAIN cache[kind].seen :
            checks[k].age = Horizon => k \in cache[kind].seen[i]

\* The three percentages of GetUptimePercentage come from three queries, yet
\* a longer period has counted every check that a shorter one has, whatever
\* was stored in between.
PeriodsNest ==
    LET Nest(seen) == \A i, j \in DOMAIN seen :
          Hours[Periods("uptime")[i]] < Hours[Periods("uptime")[j]] => seen[i] \subseteq seen[j]
    IN  /\ "uptime" \in Kinds /\ cache["uptime"] # None => Nest(cache["uptime"].seen)
        /\ \A r \in Readers : readers[r].kind = "uptime" => Nest(readers[r].seen)

\* The uptime in Redis misses a stored check only if that check was stored
\* while a reader computed it, if its removal failed or the reply of its
\* INSERT was lost, or if its worker is about to remove it.
UptimeNeedsARace ==
    \A kind \in Kinds \cap {"uptime"} :
        \/ cache[kind] = None \/ cache[kind].excused
        \/ \E w \in Workers : workers[w].pc = "invalidate"
        \/ \A i \in DOMAIN cache[kind].seen : Stored \subseteq cache[kind].seen[i]

\* A site that is out of reach for less than the sum of the back-offs (3
\* seconds in the code) is not called down: a check whose attempts all failed
\* is stored only when they were spread over that sum, or filled the whole
\* Timeout.  A check whose context was cut short before leaves no row.
ShortOutagesAreForgiven ==
    [][\A w \in Workers :
         Stored' # Stored /\ workers'[w] # workers[w] =>
             workers[w].grounds]_vars

\* What the metrics answer: never older than a bound, and short of a check
\* only by a race.
MetricsAreSound == TypeOK /\ FreshMetrics /\ UptimeNeedsARace
=============================================================================
