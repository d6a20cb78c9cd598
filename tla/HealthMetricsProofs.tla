------------------------ MODULE HealthMetricsProofs ------------------------
(***************************************************************************)
(* What the run of MCHealthMetrics checks on two workers, a reader and two *)
(* checks, for any number of them: how old and how wrong a cached metric   *)
(* can be, that the periods nest, and that short outages are forgiven.     *)
(* Then the order of the statistics, for sorted lists of any length.       *)
(***************************************************************************)
EXTENDS HealthMetrics, ResponseStats, SequenceTheorems, TLAPS

ChecksOK == checks \in Seq(Results \cup {None}) /\ Begun <= MaxChecks

\* What a list of reads has found: a longer period all that a shorter one
\* has, but for what was stored less than n ago, or all there is.
Nested(seen) == \A i, j \in DOMAIN seen : i < j => seen[i] \subseteq seen[j]
Young(n, k) == k \in Stored => checks[k].age <= n
Within(seen, n) == \A i \in DOMAIN seen, k \in Checks : k \notin seen[i] => Young(n, k)
Full(seen) == \A i \in DOMAIN seen : Stored \subseteq seen[i]
Invalidating == \E w \in Workers : workers[w].pc = "invalidate"

EntryOK(kind, e) ==
    /\ e \in Entries /\ Len(e.seen) = Len(Periods(kind)) /\ Nested(e.seen)
    /\ Within(e.seen, Horizon - e.left)
    /\ kind = "uptime" => e.excused \/ Invalidating \/ Full(e.seen)
CacheOK == \A kind \in Kinds : cache[kind] # None =>
               \A e \in {cache[kind]} : EntryOK(kind, e)

\* A reader has missed only what was stored since it began.
Calls == [pc : {"idle", "read", "fill"}, kind : Kinds \cup {None}, upto : 0 .. MaxChecks,
          seen : Seq(SUBSET Checks), spent : 0 .. ReadTime, raced : BOOLEAN]
Reads(x) ==
    /\ x.kind \in Kinds /\ Nested(x.seen) /\ Within(x.seen, x.spent)
    /\ IF x.pc = "read" THEN Len(x.seen) < Len(Periods(x.kind))
                        ELSE Len(x.seen) = Len(Periods(x.kind))
    /\ \A i \in DOMAIN x.seen : \A k \in x.seen[i] : k \in Stored /\ k <= x.upto
    /\ \A k \in Stored : k > x.upto => Young(x.spent, k)
    /\ ~x.raced => Full(x.seen) /\ \A k \in Stored : k <= x.upto
ReaderOK(x) ==
    /\ x \in Calls
    /\ IF x.pc = "idle" THEN x.seen = <<>> ELSE Reads(x)
ReadersOK == /\ readers \in [Readers -> Calls]
             /\ \A r \in Readers : \A x \in {readers[r]} : ReaderOK(x)

LongestWait == Backoff(MaxAttempts) - 1
Trials == [pc : {"idle", "request", "backoff", "store", "invalidate"},
           check : 0 .. MaxChecks, attempt : 0 .. MaxAttempts,
           wait : 0 .. LongestWait, left : 0 .. Timeout,
           status : Statuses \cup {None}, cancelled : BOOLEAN, grounds : BOOLEAN]
\* The attempts are as far apart as the back-offs between them, and what is
\* left of the present one.
Spread(x) ==
    /\ x.pc = "request" => Timeout - x.left >= Backoff(x.attempt) - Delay
    /\ x.pc = "backoff" => Timeout - x.left + x.wait >= Backoff(x.attempt + 1) - Delay
    /\ x.pc = "store" => x.grounds \/ x.cancelled
WorkerOK(x) ==
    /\ x \in Trials /\ Spread(x)
    /\ x.pc # "idle" => x.check \in 1 .. Begun
    /\ x.pc \in {"request", "backoff"} => x.attempt > 0
    /\ x.pc = "backoff" => x.attempt < MaxAttempts
    /\ x.pc = "store" => x.status \in Statuses
WorkersOK == /\ workers \in [Workers -> Trials]
             /\ \A w \in Workers : \A x \in {workers[w]} : WorkerOK(x)

MetricsInv ==
    /\ ChecksOK /\ CacheOK /\ ReadersOK /\ WorkersOK
    /\ cache \in [Kinds -> Entries \cup {None}]
    /\ errors \in 0 .. MaxErrors

----------------------------------------------------------------------------
LEMMA MetricsNumbers ==
  /\ TTL \in Nat /\ TTL > 0 /\ ReadTime \in Nat /\ MaxChecks \in Nat /\ MaxErrors \in Nat
  /\ Timeout \in Nat /\ MaxAttempts \in Nat /\ MaxAttempts > 0
  /\ Horizon \in Nat /\ Horizon = TTL + ReadTime /\ None \notin Results
  /\ LongestWait \in Nat
  /\ \A a \in 1 .. MaxAttempts : a < MaxAttempts => Backoff(a) \in 0 .. LongestWait
<1>1. /\ TTL \in Nat /\ TTL > 0 /\ ReadTime \in Nat /\ MaxChecks \in Nat /\ MaxErrors \in Nat
      /\ Timeout \in Nat /\ MaxAttempts \in Nat /\ MaxAttempts > 0
  BY MetricsAssumption
<1>2. Horizon \in Nat /\ Horizon = TTL + ReadTime
  BY <1>1 DEF Horizon
<1>3. None \notin Results
  BY <1>2, MetricsAssumption DEF Results, Statuses
<1>4. MaxAttempts \in 1 .. MaxAttempts
  BY <1>1
<1>5. PICK n \in Nat \ {0} : n = Backoff(MaxAttempts)
  BY <1>4, BackoffsGrow
<1>6. LongestWait = n - 1
  BY <1>5 DEF LongestWait
<1>7. ASSUME NEW a \in 1 .. MaxAttempts, a < MaxAttempts
      PROVE  Backoff(a) \in 0 .. LongestWait
  <2>1. PICK m \in Nat \ {0} : m = Backoff(a)
    BY BackoffsGrow
  <2>2. m < n
    BY <1>4, <1>5, <1>7, <2>1, BackoffsGrow
  <2> QED BY <1>6, <2>1, <2>2
<1> QED BY <1>1, <1>2, <1>3, <1>5, <1>6, <1>7

LEMMA PeriodsAre ==
  ASSUME NEW kind
  PROVE  Len(Periods(kind)) \in {1, 3} /\ (kind = "uptime" => Len(Periods(kind)) = 3)
BY DEF Periods

(* What is stored is a check that was begun, and has a result.             *)
LEMMA StoredChecks ==
  ASSUME ChecksOK
  PROVE  /\ Begun \in Nat /\ Begun <= MaxChecks /\ DOMAIN checks = 1 .. Begun
         /\ Stored \subseteq 1 .. Begun /\ Stored \subseteq Checks
         /\ \A k \in Stored : checks[k] \in Results /\ checks[k].age \in 0 .. Horizon
<1>1. checks \in Seq(Results \cup {None}) /\ Begun = Len(checks) /\ Begun <= MaxChecks
  BY DEF ChecksOK, Begun
<1>2. /\ Begun \in Nat /\ DOMAIN checks = 1 .. Begun
      /\ \A k \in 1 .. Begun : checks[k] \in Results \cup {None}
  BY <1>1
<1>3. Stored \subseteq 1 .. Begun /\ \A k \in Stored : checks[k] \in Results
  BY <1>2 DEF Stored
<1>4. \A k \in Stored : checks[k].age \in 0 .. Horizon
  BY <1>3 DEF Results
<1>5. 1 .. Begun \subseteq Checks
  BY <1>1, <1>2, MetricsNumbers DEF Checks
<1> QED BY <1>1, <1>2, <1>3, <1>4, <1>5

LEMMA WithinGrows ==
  ASSUME ChecksOK, NEW seen, NEW m \in Int, NEW n \in Int, m <= n, Within(seen, m)
  PROVE  Within(seen, n)
<1>1. \A k \in Stored : checks[k].age \in Int
  BY StoredChecks, MetricsNumbers
<1> QED BY <1>1 DEF Within, Young

(* Nothing is stored.                                                      *)
LEMMA SameChecks ==
  ASSUME ChecksOK, Stored' = Stored, Begun' \in Nat, Begun <= Begun',
         \A k \in Stored : checks'[k] = checks[k]
  PROVE  /\ \A seen, n : Within(seen, n)' = Within(seen, n)
         /\ \A seen : Full(seen)' = Full(seen)
         /\ \A x : ReaderOK(x)' = ReaderOK(x)
         /\ \A x : WorkerOK(x) => WorkerOK(x)'
<1>1. \A n, k : Young(n, k)' = Young(n, k)
  BY DEF Young
<1>2. \A seen, n : Within(seen, n)' = Within(seen, n)
  BY <1>1 DEF Within
<1>3. \A seen : Full(seen)' = Full(seen)
  BY DEF Full
<1>4. \A x : Reads(x)' = Reads(x)
  BY <1>1, <1>2, <1>3 DEF Reads
<1>5. \A x : ReaderOK(x)' = ReaderOK(x)
  BY <1>4 DEF ReaderOK
<1>6. \A x : WorkerOK(x) => WorkerOK(x)'
  <2>1. Begun \in Nat /\ 1 .. Begun \subseteq 1 .. Begun'
    BY StoredChecks
  <2> QED BY <2>1 DEF WorkerOK
<1> QED BY <1>2, <1>3, <1>5, <1>6

(* The results in Redis stay as good as they were.                         *)
LEMMA SameCache ==
  ASSUME MetricsInv, UNCHANGED cache, Invalidating => Invalidating',
         \A seen, n : Within(seen, n)' = Within(seen, n),
         \A seen : Full(seen)' = Full(seen)
  PROVE  CacheOK'
<1>1. ASSUME NEW kind \in Kinds, NEW e, EntryOK(kind, e) PROVE EntryOK(kind, e)'
  BY <1>1 DEF EntryOK
<1> QED BY <1>1 DEF MetricsInv, CacheOK

(* A worker goes on, but for a removal, and stores nothing.                *)
LEMMA WorkerStep ==
  ASSUME MetricsInv, NEW w \in Workers, NEW x, workers' = [workers EXCEPT ![w] = x],
         WorkerOK(x), workers[w].pc # "invalidate",
         UNCHANGED <<checks, cache, readers>>, errors' \in 0 .. MaxErrors
  PROVE  MetricsInv'
<1>1. ChecksOK /\ ChecksOK' /\ Stored' = Stored /\ Begun' = Begun /\ Begun \in Nat
  BY StoredChecks DEF MetricsInv, ChecksOK, Stored, Begun
<1>2. /\ \A seen, n : Within(seen, n)' = Within(seen, n)
      /\ \A seen : Full(seen)' = Full(seen)
      /\ \A y : ReaderOK(y)' = ReaderOK(y)
      /\ \A y : WorkerOK(y) => WorkerOK(y)'
  BY <1>1, SameChecks
<1>3. /\ workers' \in [Workers -> Trials] /\ workers'[w] = x
      /\ \A v \in Workers : v # w => workers'[v] = workers[v]
  BY DEF MetricsInv, WorkersOK, WorkerOK
<1>4. WorkersOK'
  <2>1. ASSUME NEW v \in Workers, NEW y, y = workers'[v] PROVE WorkerOK(y)
    BY <1>3, <2>1 DEF MetricsInv, WorkersOK
  <2> QED BY <1>2, <1>3, <2>1 DEF WorkersOK
<1>5. ReadersOK'
  BY <1>2 DEF MetricsInv, ReadersOK
<1>6. CacheOK'
  <2>1. Invalidating => Invalidating'
    BY <1>3 DEF Invalidating
  <2> QED BY <1>2, <2>1, SameCache
<1> QED BY <1>1, <1>4, <1>5, <1>6 DEF MetricsInv

\* A worker's next state: its first attempt, its result, a back-off, the next
\* attempt, the removal.
Starting(n) == [Resting EXCEPT !.pc = "request", !.check = n, !.attempt = 1, !.left = Timeout]
Concluded(x, status, grounds) ==
    [x EXCEPT !.pc = "store", !.attempt = 0, !.wait = 0, !.left = 0, !.status = status,
              !.grounds = grounds]
BackingOff(x, n) == [x EXCEPT !.pc = "backoff", !.wait = n]
Retrying(x) == [x EXCEPT !.pc = "request", !.attempt = @ + 1]
Storing(x) == [x EXCEPT !.pc = "invalidate"]
Cut(x) == [x EXCEPT !.cancelled = TRUE]

\* Every back-off is twice the one before.
LEMMA BackoffsAre ==
  /\ Delay \in Nat \ {0} /\ Backoff(1) = Delay
  /\ \A a \in 1 .. MaxAttempts : Backoff(a) \in Nat /\ Backoff(a + 1) = 2 * Backoff(a)
BY BackoffsGrow, MetricsAssumption

LEMMA RestingOK == ASSUME ChecksOK PROVE WorkerOK(Resting) /\ Resting.pc = "idle"
<1>1. Resting \in Trials
  BY MetricsNumbers DEF Resting, Trials
<1> QED BY <1>1 DEF Resting, WorkerOK, Spread

LEMMA StartingOK ==
  ASSUME NEW n \in 1 .. MaxChecks
  PROVE  LET x == Starting(n)
         IN x \in Trials /\ x.pc = "request" /\ x.check = n /\ x.attempt = 1 /\ Spread(x)
<1>1. PICK x : x = [Resting EXCEPT !.pc = "request", !.check = n, !.attempt = 1, !.left = Timeout]
  OBVIOUS
<1>2. n \in 0 .. MaxChecks /\ 1 \in 0 .. MaxAttempts /\ 0 \in 0 .. LongestWait
      /\ Timeout \in 0 .. Timeout
  BY MetricsNumbers
<1>3. x \in Trials /\ x.pc = "request" /\ x.check = n /\ x.attempt = 1 /\ x.left = Timeout
  BY <1>1, <1>2 DEF Resting, Trials
<1>4. Timeout - x.left = 0 /\ Backoff(x.attempt) - Delay = 0
  BY <1>3, MetricsNumbers, BackoffsAre
<1>5. Spread(x)
  BY <1>3, <1>4 DEF Spread
<1> QED BY <1>1, <1>3, <1>5 DEF Starting

LEMMA ConcludedOK ==
  ASSUME NEW y, WorkerOK(y), y.pc # "idle", NEW status \in Statuses, NEW grounds \in BOOLEAN,
         grounds \/ y.cancelled
  PROVE  WorkerOK(Concluded(y, status, grounds))
<1>1. PICK x : x = [y EXCEPT !.pc = "store", !.attempt = 0, !.wait = 0, !.left = 0,
                      !.status = status, !.grounds = grounds]
  OBVIOUS
<1>2. y \in Trials /\ y.check \in 1 .. Begun
  BY DEF WorkerOK
<1>3. 0 \in 0 .. LongestWait /\ 0 \in 0 .. Timeout /\ 0 \in 0 .. MaxAttempts
  BY MetricsNumbers
<1>4. /\ x \in Trials /\ x.pc = "store" /\ x.check = y.check /\ x.status = status
      /\ x.grounds = grounds /\ x.cancelled = y.cancelled
  BY <1>1, <1>2, <1>3 DEF Trials
<1>5. Spread(x)
  BY <1>4 DEF Spread
<1> QED BY <1>1, <1>2, <1>4, <1>5 DEF Concluded, WorkerOK

LEMMA CutOK ==
  ASSUME NEW y, WorkerOK(y)
  PROVE  WorkerOK(Cut(y)) /\ Cut(y).pc = y.pc
<1>1. PICK x : x = [y EXCEPT !.cancelled = TRUE]
  OBVIOUS
<1>2. y \in Trials
  BY DEF WorkerOK
<1>3. /\ x \in Trials /\ x.pc = y.pc /\ x.check = y.check /\ x.attempt = y.attempt
      /\ x.wait = y.wait /\ x.left = y.left /\ x.status = y.status /\ x.cancelled = TRUE
  BY <1>1, <1>2 DEF Trials
<1>4. Spread(x)
  BY <1>3 DEF WorkerOK, Spread
<1> QED BY <1>1, <1>3, <1>4 DEF Cut, WorkerOK

LEMMA BackingOffOK ==
  ASSUME NEW y, WorkerOK(y), y.pc = "request", y.attempt # MaxAttempts
  PROVE  WorkerOK(BackingOff(y, Backoff(y.attempt)))
<1>1. PICK n : n = Backoff(y.attempt)
  OBVIOUS
<1>2. y.attempt \in 1 .. MaxAttempts /\ y.attempt < MaxAttempts /\ y \in Trials
      /\ y.check \in 1 .. Begun
  BY MetricsNumbers DEF WorkerOK, Trials
<1>3. n \in 0 .. LongestWait
  BY <1>1, <1>2, MetricsNumbers
<1>4. PICK x : x = [y EXCEPT !.pc = "backoff", !.wait = n]
  OBVIOUS
<1>5. x \in Trials /\ x.pc = "backoff" /\ x.check = y.check /\ x.attempt = y.attempt
      /\ x.left = y.left /\ x.wait = n
  BY <1>2, <1>3, <1>4 DEF Trials
<1>6. Timeout - y.left >= n - Delay
  BY <1>1 DEF WorkerOK, Spread
<1>7. Backoff(x.attempt + 1) = 2 * n
  BY <1>1, <1>2, <1>5, BackoffsAre
<1>8. Timeout - x.left + x.wait >= 2 * n - Delay
  <2>1. y.left \in Int /\ n \in Int /\ Delay \in Int /\ Timeout \in Int
    BY <1>1, <1>2, BackoffsAre, MetricsNumbers DEF Trials
  <2> QED BY <1>5, <1>6, <2>1
<1>9. Spread(x)
  BY <1>5, <1>7, <1>8 DEF Spread
<1>10. WorkerOK(x)
  BY <1>2, <1>5, <1>9 DEF WorkerOK
<1> QED BY <1>1, <1>4, <1>10 DEF BackingOff

LEMMA RetryingOK ==
  ASSUME NEW y, WorkerOK(y), y.pc = "backoff", y.wait = 0
  PROVE  WorkerOK(Retrying(y))
<1>1. y.attempt \in 0 .. MaxAttempts /\ y.attempt < MaxAttempts /\ y \in Trials
      /\ y.check \in 1 .. Begun /\ y.attempt > 0
  BY DEF WorkerOK, Trials
<1>2. y.attempt + 1 \in 0 .. MaxAttempts /\ y.attempt + 1 > 0
  BY <1>1, MetricsNumbers
<1>3. PICK x : x = [y EXCEPT !.pc = "request", !.attempt = @ + 1]
  OBVIOUS
<1>4. x \in Trials /\ x.pc = "request" /\ x.check = y.check /\ x.attempt = y.attempt + 1
      /\ x.left = y.left
  BY <1>1, <1>2, <1>3 DEF Trials
<1>5. Timeout - y.left + y.wait >= Backoff(y.attempt + 1) - Delay
  BY DEF WorkerOK, Spread
<1>6. Timeout - y.left + y.wait = Timeout - y.left
  BY <1>1, MetricsNumbers DEF Trials
<1>7. Spread(x)
  BY <1>4, <1>5, <1>6 DEF Spread
<1>8. WorkerOK(x)
  BY <1>1, <1>2, <1>4, <1>7 DEF WorkerOK
<1> QED BY <1>3, <1>8 DEF Retrying

LEMMA StoringOK ==
  ASSUME NEW y, WorkerOK(y), y.pc = "store"
  PROVE  WorkerOK(Storing(y)) /\ Storing(y).pc = "invalidate"
<1>1. y \in Trials /\ y.check \in 1 .. Begun
  BY DEF WorkerOK
<1>2. PICK x : x = [y EXCEPT !.pc = "invalidate"]
  OBVIOUS
<1>3. x \in Trials /\ x.pc = "invalidate" /\ x.check = y.check
  BY <1>1, <1>2 DEF Trials
<1>4. WorkerOK(x)
  BY <1>1, <1>3 DEF WorkerOK, Spread
<1> QED BY <1>2, <1>3, <1>4 DEF Storing

LEMMA MetricsFail ==
  ASSUME errors \in 0 .. MaxErrors, Fail \/ UNCHANGED errors
  PROVE  errors' \in 0 .. MaxErrors
BY MetricsNumbers DEF Fail

LEMMA WorkerIs ==
  ASSUME MetricsInv, NEW w \in Workers
  PROVE  workers \in [Workers -> Trials] /\ WorkerOK(workers[w]) /\ workers[w] \in Trials
BY DEF MetricsInv, WorkersOK

(* An attempt is answered, given up or put off, and the result is known.   *)
LEMMA AttemptStep ==
  ASSUME MetricsInv, NEW w \in Workers,
         Respond(w) \/ AttemptFails(w) \/ Expire(w) \/ Retry(w)
  PROVE  MetricsInv'
<1>1. /\ UNCHANGED <<checks, cache, readers, errors>>
      /\ workers[w].pc \in {"request", "backoff"}
  BY DEF Respond, AttemptFails, Expire, Retry
<1>2. PICK y : y = workers[w]
  OBVIOUS
<1>3. WorkerOK(y) /\ y \in Trials /\ workers \in [Workers -> Trials] /\ y.pc # "idle"
  BY <1>1, <1>2, WorkerIs
<1>4. errors' \in 0 .. MaxErrors
  BY <1>1 DEF MetricsInv
<1>5. ASSUME NEW status \in Statuses, NEW answered \in BOOLEAN, Conclude(w, status, answered),
             answered \/ Timeout - y.left >= Patience \/ y.cancelled
      PROVE  MetricsInv'
  <2>1. PICK grounds \in BOOLEAN : grounds = (answered \/ Timeout - y.left >= Patience)
    OBVIOUS
  <2>2. PICK x : x = Concluded(y, status, grounds)
    OBVIOUS
  <2>3. workers' = [workers EXCEPT ![w] = x]
    BY <1>2, <1>3, <1>5, <2>1, <2>2 DEF Conclude, Concluded
  <2>4. grounds \/ y.cancelled
    BY <1>5, <2>1
  <2>5. WorkerOK(x)
    BY <1>3, <2>2, <2>4, ConcludedOK
  <2>6. workers[w].pc # "invalidate"
    BY <1>1
  <2> QED BY <1>1, <1>4, <2>3, <2>5, <2>6, WorkerStep
<1>6. \A timedOut \in BOOLEAN : ClassifyError(timedOut) \in Statuses
  BY DEF ClassifyError, Statuses
<1>7. CASE Respond(w)
  <2>1. Answers \subseteq Statuses
    BY DEF Answers, Classify, Statuses
  <2> QED BY <1>5, <1>7, <2>1 DEF Respond
<1>8. CASE AttemptFails(w)
  <2>1. CASE LastAttempt(y.attempt)
    <3>1. y.pc = "request" /\ y.attempt = MaxAttempts
      BY <1>2, <1>8, <2>1 DEF AttemptFails, LastAttempt
    <3>2. Timeout - y.left >= Outage
      BY <1>3, <3>1 DEF WorkerOK, Spread, Outage
    <3>3. Timeout - y.left >= Patience
      <4>1. y.left \in Int /\ Timeout \in Int /\ Outage \in Int
        <5>1. MaxAttempts \in 1 .. MaxAttempts
          BY MetricsNumbers
        <5> QED BY <1>3, <5>1, BackoffsAre, MetricsNumbers DEF Trials, Outage
      <4> QED BY <3>2, <4>1 DEF Patience
    <3> QED BY <1>2, <1>5, <1>6, <1>8, <2>1, <3>3 DEF AttemptFails
  <2>2. CASE ~LastAttempt(y.attempt)
    <3>1. PICK x : x = BackingOff(y, Backoff(y.attempt))
      OBVIOUS
    <3>2. workers' = [workers EXCEPT ![w].pc = "backoff", ![w].wait = Backoff(y.attempt)]
      BY <1>2, <1>8, <2>2 DEF AttemptFails
    <3>3. workers' = [workers EXCEPT ![w] = x]
      BY <1>2, <1>3, <3>1, <3>2 DEF BackingOff
    <3>4. y.pc = "request" /\ y.attempt # MaxAttempts
      BY <1>2, <1>8, <2>2 DEF AttemptFails, LastAttempt
    <3> QED BY <1>1, <1>3, <1>4, <3>1, <3>3, <3>4, BackingOffOK, WorkerStep
  <2> QED BY <2>1, <2>2
<1>9. CASE Expire(w)
  <2>1. PICK timedOut \in BOOLEAN : Conclude(w, ClassifyError(timedOut), FALSE)
    BY <1>9 DEF Expire
  <2>2. y.left = 0 \/ y.cancelled
    BY <1>2, <1>9 DEF Expire, Over
  <2>3. y.left = 0 => Timeout - y.left >= Patience
    <3>1. MaxAttempts \in 1 .. MaxAttempts
      BY MetricsNumbers
    <3>2. Timeout \in Int /\ Outage \in Int
      BY <3>1, BackoffsAre, MetricsNumbers DEF Outage
    <3> QED BY <3>2 DEF Patience
  <2> QED BY <1>5, <1>6, <2>1, <2>2, <2>3
<1>10. CASE Retry(w)
  <2>1. PICK x : x = Retrying(y)
    OBVIOUS
  <2>2. workers' = [workers EXCEPT ![w].pc = "request", ![w].attempt = @ + 1]
    BY <1>10 DEF Retry
  <2>3. workers' = [workers EXCEPT ![w] = x]
    BY <1>2, <1>3, <2>1, <2>2 DEF Retrying
  <2> QED BY <1>1, <1>2, <1>3, <1>4, <1>10, <2>1, <2>3, RetryingOK, WorkerStep DEF Retry
<1> QED BY <1>7, <1>8, <1>9, <1>10

(* The context of a worker is done, wherever it is.                        *)
LEMMA CancelStep ==
  ASSUME MetricsInv, NEW w \in Workers, Cancel(w)
  PROVE  MetricsInv'
<1>1. PICK x : x = Cut(workers[w])
  OBVIOUS
<1>2. workers \in [Workers -> Trials] /\ WorkerOK(workers[w])
  BY WorkerIs
<1>3. workers' = [workers EXCEPT ![w] = x] /\ UNCHANGED <<checks, cache, readers, errors>>
  BY <1>1, <1>2 DEF Cancel, Cut
<1>4. WorkerOK(x) /\ x.pc = workers[w].pc
  BY <1>1, <1>2, CutOK
<1>5. ChecksOK /\ ChecksOK' /\ Stored' = Stored /\ Begun' = Begun /\ Begun \in Nat
  BY <1>3, StoredChecks DEF MetricsInv, ChecksOK, Stored, Begun
<1>6. /\ \A seen, n : Within(seen, n)' = Within(seen, n)
      /\ \A seen : Full(seen)' = Full(seen)
      /\ \A y : ReaderOK(y)' = ReaderOK(y)
      /\ \A y : WorkerOK(y) => WorkerOK(y)'
  BY <1>3, <1>5, SameChecks
<1>7. /\ workers' \in [Workers -> Trials]
      /\ \A v \in Workers : workers'[v] = IF v = w THEN x ELSE workers[v]
  BY <1>2, <1>3, <1>4 DEF WorkerOK
<1>8. WorkersOK'
  <2>1. ASSUME NEW v \in Workers, NEW z, z = workers'[v] PROVE WorkerOK(z)'
    BY <1>4, <1>6, <1>7, <2>1, WorkerIs
  <2> QED BY <1>7, <2>1 DEF WorkersOK
<1>9. ReadersOK'
  BY <1>3, <1>6 DEF MetricsInv, ReadersOK
<1>10. CacheOK'
  <2>1. Invalidating => Invalidating'
    BY <1>4, <1>7 DEF Invalidating
  <2> QED BY <1>3, <1>6, <2>1, SameCache
<1> QED BY <1>3, <1>5, <1>8, <1>9, <1>10 DEF MetricsInv

(* A check begins: its row is not there yet.                               *)
LEMMA ExecuteStep ==
  ASSUME MetricsInv, NEW w \in Workers, ExecuteCheck(w)
  PROVE  MetricsInv'
<1>1. /\ workers[w].pc = "idle" /\ Begun < MaxChecks /\ checks' = Append(checks, None)
      /\ UNCHANGED <<cache, readers, errors>>
  BY DEF ExecuteCheck
<1>2. PICK n : n = Begun + 1
  OBVIOUS
<1>3. PICK x : x = Starting(n)
  OBVIOUS
<1>4. ChecksOK /\ checks \in Seq(Results \cup {None}) /\ Begun = Len(checks) /\ Begun \in Nat
      /\ DOMAIN checks = 1 .. Begun
  BY StoredChecks DEF MetricsInv, ChecksOK, Begun
<1>5. /\ checks' \in Seq(Results \cup {None}) /\ Begun' = Begun + 1
      /\ checks'[Begun + 1] = None /\ \A k \in 1 .. Begun : checks'[k] = checks[k]
  BY <1>1, <1>4, AppendProperties DEF Begun
<1>6. ChecksOK' /\ DOMAIN checks' = 1 .. Begun + 1
  <2>1. Begun + 1 <= MaxChecks
    BY <1>1, <1>4, MetricsNumbers
  <2> QED BY <1>5, <2>1 DEF ChecksOK, Begun
<1>7. Stored' = Stored /\ \A k \in Stored : checks'[k] = checks[k]
  <2>1. \A k : k \in 1 .. Begun + 1 <=> k \in 1 .. Begun \/ k = Begun + 1
    BY <1>4
  <2> QED BY <1>4, <1>5, <1>6, <2>1 DEF Stored
<1>8. /\ \A seen, m : Within(seen, m)' = Within(seen, m)
      /\ \A seen : Full(seen)' = Full(seen)
      /\ \A y : ReaderOK(y)' = ReaderOK(y)
      /\ \A y : WorkerOK(y) => WorkerOK(y)'
  <2>1. Begun' \in Nat /\ Begun <= Begun'
    BY <1>4, <1>5
  <2> QED BY <1>4, <1>7, <2>1, SameChecks
<1>9. WorkerOK(x)' /\ x \in Trials
  <2>1. n \in 1 .. MaxChecks /\ n \in 1 .. Begun'
    BY <1>1, <1>2, <1>4, <1>5, MetricsNumbers
  <2>2. x \in Trials /\ x.pc = "request" /\ x.check = n /\ x.attempt = 1 /\ Spread(x)
    BY <1>3, <2>1, StartingOK
  <2> QED BY <2>1, <2>2 DEF WorkerOK
<1>10. workers' = [workers EXCEPT ![w] = x]
  BY <1>2, <1>3 DEF ExecuteCheck, Starting
<1>11. /\ workers' \in [Workers -> Trials] /\ workers'[w] = x
       /\ \A v \in Workers : v # w => workers'[v] = workers[v]
  BY <1>9, <1>10, WorkerIs
<1>12. WorkersOK'
  <2>1. ASSUME NEW v \in Workers, NEW y, y = workers'[v] PROVE WorkerOK(y)'
    <3>1. CASE v = w
      BY <1>9, <1>11, <2>1, <3>1
    <3>2. CASE v # w
      BY <1>8, <1>11, <2>1, <3>2, WorkerIs
    <3> QED BY <3>1, <3>2
  <2> QED BY <1>11, <2>1 DEF WorkersOK
<1>13. ReadersOK'
  BY <1>1, <1>8 DEF MetricsInv, ReadersOK
<1>14. CacheOK'
  <2>1. Invalidating => Invalidating'
    BY <1>1, <1>11 DEF Invalidating
  <2> QED BY <1>1, <1>8, <2>1, SameCache
<1> QED BY <1>1, <1>6, <1>12, <1>13, <1>14 DEF MetricsInv

LEMMA NoMonitorStep ==
  ASSUME MetricsInv, NEW w \in Workers, NoMonitor(w)
  PROVE  MetricsInv'
<1>1. PICK x : x = workers[w]
  OBVIOUS
<1>2. workers' = [workers EXCEPT ![w] = x] /\ WorkerOK(x)
  BY <1>1, WorkerIs DEF NoMonitor
<1>3. errors' \in 0 .. MaxErrors
  BY MetricsFail DEF NoMonitor, MetricsInv
<1> QED BY <1>2, <1>3, WorkerStep DEF NoMonitor

\* An entry is known to be short of a check.
Excused(e) == [e EXCEPT !.excused = TRUE]

LEMMA ExcusedOK ==
  ASSUME NEW e \in Entries
  PROVE  /\ Excused(e) \in Entries /\ Excused(e).seen = e.seen /\ Excused(e).left = e.left
         /\ Excused(e).excused = TRUE
<1>1. PICK x : x = [e EXCEPT !.excused = TRUE]
  OBVIOUS
<1>2. PICK S : S = Seq(SUBSET Checks)
  OBVIOUS
<1>3. x \in Entries /\ x.seen = e.seen /\ x.left = e.left /\ x.excused = TRUE
  BY <1>1, <1>2 DEF Entries
<1> QED BY <1>1, <1>3 DEF Excused

LEMMA ExcusedCache ==
  ASSUME MetricsInv, Excuse,
         \A kind \in Kinds : \A e : EntryOK(kind, e) => Within(e.seen, Horizon - e.left)'
  PROVE  CacheOK' /\ cache' \in [Kinds -> Entries \cup {None}]
<1>1. cache' = [k \in Kinds |-> IF cache[k] = None THEN None ELSE Excused(cache[k])]
  BY DEF Excuse, Excused
<1>2. ASSUME NEW kind \in Kinds, cache[kind] # None
      PROVE  \A e \in {cache'[kind]} : EntryOK(kind, e)' /\ e \in Entries
  <2>1. PICK d : d = cache[kind]
    OBVIOUS
  <2>2. EntryOK(kind, d) /\ d \in Entries
    BY <1>2, <2>1 DEF MetricsInv, CacheOK, EntryOK
  <2>3. PICK e : e = cache'[kind]
    OBVIOUS
  <2>4. e = Excused(d)
    BY <1>1, <1>2, <2>1, <2>3
  <2>5. e \in Entries /\ e.seen = d.seen /\ e.left = d.left /\ e.excused = TRUE
    BY <2>2, <2>4, ExcusedOK
  <2>6. Within(e.seen, Horizon - e.left)'
    BY <2>2, <2>5
  <2>7. EntryOK(kind, e)'
    BY <2>2, <2>5, <2>6 DEF EntryOK
  <2> QED BY <2>3, <2>5, <2>7
<1>3. \A kind \in Kinds : cache[kind] = None => cache'[kind] = None
  BY <1>1
<1>4. CacheOK'
  BY <1>2, <1>3 DEF CacheOK
<1> QED BY <1>1, <1>2, <1>3, <1>4

\* A reader is told that a check was stored meanwhile, or that none was.
Raced(x, b) == [x EXCEPT !.raced = b]

LEMMA RacedOK ==
  ASSUME NEW x \in Calls, NEW b \in BOOLEAN
  PROVE  LET y == Raced(x, b)
         IN  /\ y \in Calls /\ y.pc = x.pc /\ y.kind = x.kind /\ y.upto = x.upto
             /\ y.seen = x.seen /\ y.spent = x.spent /\ y.raced = b
<1>1. PICK y : y = [x EXCEPT !.raced = b]
  OBVIOUS
<1>2. PICK S, K : S = Seq(SUBSET Checks) /\ K = Kinds \cup {None}
  OBVIOUS
<1>3. /\ y \in Calls /\ y.pc = x.pc /\ y.kind = x.kind /\ y.upto = x.upto
      /\ y.seen = x.seen /\ y.spent = x.spent /\ y.raced = b
  BY <1>1, <1>2 DEF Calls
<1> QED BY <1>1, <1>3 DEF Raced

(* The row of a check is stored: what was read before has missed it.       *)
LEMMA InsertFacts ==
  ASSUME MetricsInv, NEW w \in Workers, Insert(w), workers[w].pc = "store"
  PROVE  /\ ChecksOK' /\ Begun' = Begun
         /\ \A seen, n : Within(seen, n) /\ n \in Nat => Within(seen, n)'
         /\ \A x : WorkerOK(x)' = WorkerOK(x)
         /\ ReadersOK'
<1>1. PICK y : y = workers[w]
  OBVIOUS
<1>2. WorkerOK(y) /\ y.status \in Statuses /\ y.check \in 1 .. Begun
  BY <1>1, WorkerIs DEF WorkerOK
<1>3. PICK z : z = [status |-> y.status, age |-> 0]
  OBVIOUS
<1>4. z \in Results /\ z.age = 0 /\ z # None
  BY <1>2, <1>3, MetricsNumbers DEF Results
<1>5. checks' = [checks EXCEPT ![y.check] = z]
  BY <1>1, <1>3 DEF Insert
<1>6. /\ ChecksOK /\ checks \in Seq(Results \cup {None}) /\ DOMAIN checks = 1 .. Begun
      /\ Begun = Len(checks) /\ Begun \in Nat
      /\ \A k \in Stored : checks[k].age \in Nat
  BY StoredChecks, MetricsNumbers DEF MetricsInv, ChecksOK, Begun
<1>7. /\ checks' \in Seq(Results \cup {None}) /\ Begun' = Begun /\ checks'[y.check] = z
      /\ \A k \in 1 .. Begun : k # y.check => checks'[k] = checks[k]
      /\ DOMAIN checks' = 1 .. Begun
  BY <1>2, <1>4, <1>5, <1>6, ExceptSeq DEF Begun
<1>8. ChecksOK'
  BY <1>6, <1>7 DEF ChecksOK
<1>9. Stored' = Stored \cup {y.check}
  BY <1>2, <1>4, <1>6, <1>7 DEF Stored
<1>10. \A n \in Nat : \A k : Young(n, k) => Young(n, k)'
  BY <1>4, <1>6, <1>7, <1>9 DEF Young, Stored
<1>11. \A seen, n : Within(seen, n) /\ n \in Nat => Within(seen, n)'
  BY <1>10 DEF Within
<1>12. \A x : WorkerOK(x)' = WorkerOK(x)
  BY <1>7 DEF WorkerOK
<1>13. ASSUME NEW r \in Readers
       PROVE  \A x \in {readers'[r]} : ReaderOK(x)' /\ x \in Calls
  <2>1. PICK u : u = readers[r]
    OBVIOUS
  <2>2. ReaderOK(u) /\ u \in Calls
    BY <2>1 DEF MetricsInv, ReadersOK
  <2>3. PICK b \in BOOLEAN : b <=> u.pc \in {"read", "fill"}
    OBVIOUS
  <2>4. PICK x : x = Raced(u, u.pc \in {"read", "fill"})
    OBVIOUS
  <2>5. x = readers'[r]
    BY <2>1, <2>4 DEF Insert, Raced
  <2>6. /\ x \in Calls /\ x.pc = u.pc /\ x.kind = u.kind /\ x.upto = u.upto
        /\ x.seen = u.seen /\ x.spent = u.spent /\ x.raced = b
    <3>1. x = Raced(u, b)
      BY <2>3, <2>4
    <3> QED BY <2>2, <3>1, RacedOK
  <2>7. CASE u.pc = "idle"
    BY <2>2, <2>5, <2>6, <2>7 DEF ReaderOK
  <2>8. CASE u.pc # "idle"
    <3>1. b = TRUE /\ u.spent \in Nat /\ Reads(u)
      <4>1. u.pc \in {"read", "fill"} /\ u.spent \in Nat /\ Reads(u)
        BY <2>2, <2>8, MetricsNumbers DEF Calls, ReaderOK
      <4> QED BY <2>3, <4>1
    <3>2. Within(u.seen, u.spent)' /\ \A k \in Stored' : k > u.upto => Young(u.spent, k)'
      <4>1. Within(u.seen, u.spent)'
        BY <1>11, <3>1 DEF Reads
      <4>2. ASSUME NEW k \in Stored', k > u.upto PROVE Young(u.spent, k)'
        <5>1. CASE k = y.check
          BY <1>4, <1>7, <3>1, <5>1 DEF Young
        <5>2. CASE k # y.check
          BY <1>9, <1>10, <3>1, <4>2, <5>2 DEF Reads
        <5> QED BY <5>1, <5>2
      <4> QED BY <4>1, <4>2
    <3>3. \A i \in DOMAIN u.seen : \A k \in u.seen[i] : k \in Stored' /\ k <= u.upto
      BY <1>9, <3>1 DEF Reads
    <3>4. Reads(x)'
      BY <2>6, <3>1, <3>2, <3>3 DEF Reads
    <3> QED BY <2>5, <2>6, <2>8, <3>4 DEF ReaderOK
  <2> QED BY <2>7, <2>8
<1>14. ReadersOK'
  <2>1. readers' = [r \in Readers |-> readers'[r]]
    BY DEF Insert
  <2> QED BY <1>13, <2>1 DEF ReadersOK
<1> QED BY <1>7, <1>8, <1>11, <1>12, <1>14

LEMMA CreateStep ==
  ASSUME MetricsInv, NEW w \in Workers, Create(w)
  PROVE  MetricsInv'
<1>1. workers[w].pc = "store"
  BY DEF Create
<1>2. PICK y : y = workers[w]
  OBVIOUS
<1>3. WorkerOK(y) /\ ChecksOK /\ y.pc = "store"
  BY <1>1, <1>2, WorkerIs DEF MetricsInv
<1>4. ASSUME NEW x, workers' = [workers EXCEPT ![w] = x], WorkerOK(x), Insert(w)
      PROVE  WorkersOK'
  <2>1. \A v : WorkerOK(v)' = WorkerOK(v)
    BY <1>1, <1>4, InsertFacts
  <2>2. \A v \in Workers : workers'[v] = IF v = w THEN x ELSE workers[v]
    BY <1>4, WorkerIs
  <2>3. workers' \in [Workers -> Trials]
    BY <1>4, WorkerIs DEF WorkerOK
  <2>4. ASSUME NEW v \in Workers, NEW z, z = workers'[v] PROVE WorkerOK(z)'
    BY <1>4, <2>1, <2>2, <2>4, WorkerIs
  <2> QED BY <2>3, <2>4 DEF WorkersOK
<1>5. ASSUME NEW kind \in Kinds, NEW e, EntryOK(kind, e), Insert(w)
      PROVE  Within(e.seen, Horizon - e.left)'
  <2>1. e.left \in 1 .. TTL
    BY <1>5 DEF EntryOK, Entries
  <2>2. Horizon - e.left \in Nat
    BY <2>1, MetricsNumbers
  <2>3. Within(e.seen, Horizon - e.left)
    BY <1>5 DEF EntryOK
  <2> QED BY <1>1, <1>5, <2>2, <2>3, InsertFacts
<1>6. CASE Insert(w) /\ Go(w, "invalidate") /\ UNCHANGED <<cache, errors>>
  <2>1. PICK x : x = Storing(y)
    OBVIOUS
  <2>2. workers' = [workers EXCEPT ![w] = x]
    BY <1>2, <1>6, <2>1 DEF Go, Storing
  <2>3. WorkerOK(x) /\ x.pc = "invalidate"
    BY <1>3, <2>1, StoringOK
  <2>4. WorkersOK'
    BY <1>4, <1>6, <2>2, <2>3
  <2>5. Invalidating'
    BY <2>2, <2>3, WorkerIs DEF Invalidating
  <2>6. ASSUME NEW kind \in Kinds, NEW e, EntryOK(kind, e) PROVE EntryOK(kind, e)'
    BY <1>5, <1>6, <2>5, <2>6 DEF EntryOK
  <2>7. CacheOK'
    BY <1>6, <2>6 DEF MetricsInv, CacheOK
  <2> QED BY <1>1, <1>6, <2>4, <2>7, InsertFacts DEF MetricsInv
<1>7. CASE Fail /\ Insert(w) /\ Go(w, "idle") /\ Excuse
  <2>1. PICK x : x = Resting
    OBVIOUS
  <2>2. workers' = [workers EXCEPT ![w] = x]
    BY <1>7, <2>1 DEF Go
  <2>3. WorkersOK'
    BY <1>3, <1>4, <1>7, <2>1, <2>2, RestingOK
  <2>4. CacheOK' /\ cache' \in [Kinds -> Entries \cup {None}]
    BY <1>5, <1>7, ExcusedCache
  <2>5. errors' \in 0 .. MaxErrors
    BY <1>7, MetricsFail DEF MetricsInv
  <2> QED BY <1>1, <1>7, <2>3, <2>4, <2>5, InsertFacts DEF MetricsInv
<1>8. CASE FailFor(w) /\ Go(w, "idle") /\ UNCHANGED <<checks, cache, readers>>
  <2>1. PICK x : x = Resting
    OBVIOUS
  <2>2. workers' = [workers EXCEPT ![w] = x]
    BY <1>8, <2>1 DEF Go
  <2>3. errors' \in 0 .. MaxErrors
    BY <1>8, MetricsFail DEF MetricsInv, FailFor
  <2> QED BY <1>1, <1>3, <1>8, <2>1, <2>2, <2>3, RestingOK, WorkerStep
<1> QED BY <1>6, <1>7, <1>8 DEF Create

(* The results are removed, or known to be short of the check.             *)
LEMMA InvalidateMetricsStep ==
  ASSUME MetricsInv, NEW w \in Workers, InvalidateMetricsCache(w)
  PROVE  MetricsInv'
<1>1. UNCHANGED <<checks, readers>> /\ Go(w, "idle")
  BY DEF InvalidateMetricsCache
<1>2. ChecksOK /\ ChecksOK' /\ Stored' = Stored /\ Begun' = Begun /\ Begun \in Nat
  BY <1>1, StoredChecks DEF MetricsInv, ChecksOK, Stored, Begun
<1>3. /\ \A seen, n : Within(seen, n)' = Within(seen, n)
      /\ \A seen : Full(seen)' = Full(seen)
      /\ \A y : ReaderOK(y)' = ReaderOK(y)
      /\ \A y : WorkerOK(y) => WorkerOK(y)'
  BY <1>1, <1>2, SameChecks
<1>4. PICK x : x = Resting
  OBVIOUS
<1>5. workers' = [workers EXCEPT ![w] = x] /\ WorkerOK(x) /\ x \in Trials
  BY <1>1, <1>2, <1>4, RestingOK DEF Go, WorkerOK
<1>6. WorkersOK'
  <2>1. /\ workers' \in [Workers -> Trials]
        /\ \A v \in Workers : workers'[v] = IF v = w THEN x ELSE workers[v]
    BY <1>5, WorkerIs
  <2>2. ASSUME NEW v \in Workers, NEW z, z = workers'[v] PROVE WorkerOK(z)'
    BY <1>3, <1>5, <2>1, <2>2, WorkerIs
  <2> QED BY <2>1, <2>2 DEF WorkersOK
<1>7. ReadersOK'
  BY <1>1, <1>3 DEF MetricsInv, ReadersOK
<1>8. CacheOK' /\ cache' \in [Kinds -> Entries \cup {None}] /\ errors' \in 0 .. MaxErrors
  <2>1. CASE /\ cache' = [k \in Kinds |-> IF k \in InvalidatedKeys THEN None ELSE cache[k]]
             /\ UNCHANGED errors
    <3>1. \A kind \in Kinds : cache'[kind] = None \/ (kind # "uptime" /\ cache'[kind] = cache[kind])
      BY <2>1 DEF InvalidatedKeys
    <3>2. ASSUME NEW kind \in Kinds, kind # "uptime", NEW e, EntryOK(kind, e)
          PROVE  EntryOK(kind, e)'
      BY <1>3, <3>2 DEF EntryOK
    <3>3. CacheOK'
      BY <3>1, <3>2 DEF MetricsInv, CacheOK
    <3> QED BY <2>1, <3>3 DEF MetricsInv
  <2>2. CASE FailFor(w) /\ Excuse
    <3>1. \A kind \in Kinds : \A e : EntryOK(kind, e) => Within(e.seen, Horizon - e.left)'
      BY <1>3 DEF EntryOK
    <3> QED BY <2>2, <3>1, ExcusedCache, MetricsFail DEF MetricsInv, FailFor
  <2> QED BY <2>1, <2>2 DEF InvalidateMetricsCache
<1> QED BY <1>2, <1>6, <1>7, <1>8 DEF MetricsInv

(* A reader goes on.                                                       *)
LEMMA ReaderStep ==
  ASSUME MetricsInv, NEW r \in Readers, NEW x, readers' = [readers EXCEPT ![r] = x],
         ReaderOK(x), UNCHANGED <<checks, workers>>, errors' \in 0 .. MaxErrors,
         \/ UNCHANGED cache
         \/ \E kind \in Kinds : \E e \in Entries :
              EntryOK(kind, e) /\ cache' = [cache EXCEPT ![kind] = e]
  PROVE  MetricsInv'
<1>1. ChecksOK /\ ChecksOK' /\ Stored' = Stored /\ Begun' = Begun /\ Begun \in Nat
  BY StoredChecks DEF MetricsInv, ChecksOK, Stored, Begun
<1>2. /\ \A seen, n : Within(seen, n)' = Within(seen, n)
      /\ \A seen : Full(seen)' = Full(seen)
      /\ \A y : ReaderOK(y)' = ReaderOK(y)
      /\ \A y : WorkerOK(y) => WorkerOK(y)'
  BY <1>1, SameChecks
<1>3. WorkersOK'
  BY <1>2 DEF MetricsInv, WorkersOK
<1>4. ReadersOK'
  <2>1. /\ readers' \in [Readers -> Calls]
        /\ \A q \in Readers : readers'[q] = IF q = r THEN x ELSE readers[q]
    BY DEF MetricsInv, ReadersOK, ReaderOK
  <2>2. ASSUME NEW q \in Readers, NEW z, z = readers'[q] PROVE ReaderOK(z)'
    <3>1. ReaderOK(z)
      BY <2>1, <2>2 DEF MetricsInv, ReadersOK
    <3> QED BY <1>2, <3>1
  <2> QED BY <2>1, <2>2 DEF ReadersOK
<1>5. \A kind \in Kinds : \A e : EntryOK(kind, e) => EntryOK(kind, e)'
  BY <1>2 DEF EntryOK, Invalidating
<1>6. CacheOK' /\ cache' \in [Kinds -> Entries \cup {None}]
  <2>1. CASE UNCHANGED cache
    BY <1>5, <2>1 DEF MetricsInv, CacheOK
  <2>2. CASE \E kind \in Kinds : \E e \in Entries :
               EntryOK(kind, e) /\ cache' = [cache EXCEPT ![kind] = e]
    <3>1. PICK kind \in Kinds, e \in Entries :
            EntryOK(kind, e) /\ cache' = [cache EXCEPT ![kind] = e]
      BY <2>2
    <3>2. /\ cache' \in [Kinds -> Entries \cup {None}]
          /\ \A k \in Kinds : cache'[k] = IF k = kind THEN e ELSE cache[k]
      BY <3>1 DEF MetricsInv
    <3>3. ASSUME NEW k \in Kinds, cache'[k] # None, NEW d, d = cache'[k] PROVE EntryOK(k, d)'
      BY <1>5, <3>1, <3>2, <3>3 DEF MetricsInv, CacheOK
    <3> QED BY <3>2, <3>3 DEF CacheOK
  <2> QED BY <2>1, <2>2
<1> QED BY <1>1, <1>3, <1>4, <1>6 DEF MetricsInv

LEMMA AwayOK == Away.pc = "idle" /\ ReaderOK(Away)
<1>1. Away \in Calls /\ Away.seen = <<>> /\ Away.pc = "idle"
  BY MetricsNumbers DEF Away, Calls
<1> QED BY <1>1 DEF ReaderOK

LEMMA ReaderIs ==
  ASSUME MetricsInv, NEW r \in Readers
  PROVE  ReaderOK(readers[r]) /\ readers[r] \in Calls /\ readers \in [Readers -> Calls]
BY DEF MetricsInv, ReadersOK

LEMMA GetStep ==
  ASSUME MetricsInv, NEW r \in Readers, NEW kind \in Kinds, Get(r, kind)
  PROVE  MetricsInv'
<1>1. PICK x : x = [Away EXCEPT !.pc = "read", !.kind = kind, !.upto = Begun]
  OBVIOUS
<1>2. ChecksOK /\ Begun \in 0 .. MaxChecks
  BY StoredChecks, MetricsNumbers DEF MetricsInv
<1>3. /\ x \in Calls /\ x.pc = "read" /\ x.kind = kind /\ x.upto = Begun /\ x.seen = <<>>
      /\ x.spent = 0 /\ x.raced = FALSE
  <2>1. PICK n \in 0 .. MaxChecks : n = Begun
    BY <1>2
  <2>2. x = [Away EXCEPT !.pc = "read", !.kind = kind, !.upto = n]
    BY <1>1, <2>1
  <2>3. <<>> \in Seq(SUBSET Checks) /\ 0 \in 0 .. ReadTime
    BY MetricsNumbers
  <2> QED BY <2>1, <2>2, <2>3 DEF Away, Calls
<1>4. Nested(<<>>) /\ Within(<<>>, 0) /\ Full(<<>>) /\ DOMAIN <<>> = {} /\ Len(<<>>) = 0
  BY DEF Nested, Within, Full
<1>5. \A k \in Stored : k <= Begun /\ ~(k > Begun)
  BY <1>2, StoredChecks
<1>6. Reads(x)
  <2>1. Len(x.seen) < Len(Periods(x.kind))
    <3>1. PICK m \in {1, 3} : m = Len(Periods(kind))
      BY PeriodsAre
    <3>2. Len(x.seen) = 0 /\ Len(Periods(x.kind)) = m
      BY <1>3, <1>4, <3>1
    <3> QED BY <3>2
  <2>2. Nested(x.seen) /\ Within(x.seen, x.spent) /\ Full(x.seen) /\ DOMAIN x.seen = {}
    BY <1>3, <1>4
  <2>3. \A k \in Stored : k <= x.upto /\ ~(k > x.upto)
    BY <1>3, <1>5
  <2> QED BY <1>3, <2>1, <2>2, <2>3 DEF Reads
<1>7. ReaderOK(x)
  BY <1>3, <1>6 DEF ReaderOK
<1>8. errors' \in 0 .. MaxErrors
  BY MetricsFail DEF Get, MetricsInv
<1>9. readers' = [readers EXCEPT ![r] = x] /\ UNCHANGED <<checks, cache, workers>>
  BY <1>1 DEF Get
<1> QED BY <1>7, <1>8, <1>9, ReaderStep

\* One more read has answered.
Answered(x, S, pc) == [x EXCEPT !.seen = Append(x.seen, S), !.pc = pc]

LEMMA AnsweredOK ==
  ASSUME NEW x \in Calls, NEW S \in SUBSET Checks, NEW pc \in {"read", "fill"}
  PROVE  LET y == Answered(x, S, pc)
         IN  /\ y \in Calls /\ y.pc = pc /\ y.kind = x.kind /\ y.upto = x.upto
             /\ y.seen = Append(x.seen, S) /\ y.spent = x.spent /\ y.raced = x.raced
<1>1. PICK s : s = Append(x.seen, S)
  OBVIOUS
<1>2. s \in Seq(SUBSET Checks)
  BY <1>1, AppendProperties DEF Calls
<1>3. PICK y : y = [x EXCEPT !.seen = s, !.pc = pc]
  OBVIOUS
<1>4. PICK Q, K : Q = Seq(SUBSET Checks) /\ K = Kinds \cup {None}
  OBVIOUS
<1>5. /\ y \in Calls /\ y.pc = pc /\ y.kind = x.kind /\ y.upto = x.upto
      /\ y.seen = s /\ y.spent = x.spent /\ y.raced = x.raced
  BY <1>2, <1>3, <1>4 DEF Calls
<1> QED BY <1>1, <1>3, <1>5 DEF Answered

(* A query finds all that is stored in its range, so all that the ones
   before it have found, and misses only what is stored later.             *)
LEMMA ReadStep ==
  ASSUME MetricsInv, NEW r \in Readers, Read(r)
  PROVE  MetricsInv'
<1>1. readers[r].pc = "read" /\ UNCHANGED <<checks, cache, workers, errors>>
  BY DEF Read
<1>2. PICK u : u = readers[r]
  OBVIOUS
<1>3. u \in Calls /\ Reads(u) /\ u.pc = "read"
  BY <1>1, <1>2, ReaderIs DEF ReaderOK
<1>4. PICK S : S = InRange(r)
  OBVIOUS
<1>5. S = {k \in Stored : k <= u.upto}
  BY <1>2, <1>4 DEF InRange
<1>6. ChecksOK /\ S \in SUBSET Checks /\ Stored \subseteq 1 .. Begun /\ Begun \in Nat
  BY <1>5, StoredChecks DEF MetricsInv
<1>7. PICK s : s = Append(u.seen, S)
  OBVIOUS
<1>8. PICK n \in Nat : n = Len(u.seen)
  BY <1>3 DEF Calls
<1>9. /\ Len(s) = n + 1 /\ DOMAIN s = 1 .. n + 1 /\ DOMAIN u.seen = 1 .. n
      /\ s[n + 1] = S /\ \A i \in 1 .. n : s[i] = u.seen[i]
  <2>1. u.seen \in Seq(SUBSET Checks)
    BY <1>3 DEF Calls
  <2>2. /\ s \in Seq(SUBSET Checks) /\ Len(s) = n + 1
        /\ s[n + 1] = S /\ \A i \in 1 .. n : s[i] = u.seen[i]
    BY <1>6, <1>7, <1>8, <2>1, AppendProperties
  <2> QED BY <1>8, <2>1, <2>2
<1>10. \A i \in 1 .. n : u.seen[i] \subseteq S
  BY <1>3, <1>5, <1>9 DEF Reads
<1>11. \A i \in DOMAIN s : i \in 1 .. n \/ i = n + 1
  BY <1>9
<1>12. Nested(s)
  <2>1. ASSUME NEW i \in DOMAIN s, NEW j \in DOMAIN s, i < j PROVE s[i] \subseteq s[j]
    <3>1. i \in 1 .. n
      BY <1>9, <2>1
    <3>2. CASE j = n + 1
      BY <1>9, <1>10, <3>1, <3>2
    <3>3. CASE j \in 1 .. n
      BY <1>3, <1>9, <2>1, <3>1, <3>3 DEF Reads, Nested
    <3> QED BY <1>11, <3>2, <3>3
  <2> QED BY <2>1 DEF Nested
<1>13. Within(s, u.spent)
  <2>1. ASSUME NEW i \in DOMAIN s, NEW k \in Checks, k \notin s[i] PROVE Young(u.spent, k)
    <3>1. CASE i = n + 1
      <4>1. k \in Stored => k > u.upto
        <5>1. u.upto \in Nat /\ (k \in Stored => k \in Nat)
          <6>1. u.upto \in 0 .. MaxChecks
            BY <1>3 DEF Calls
          <6>2. k \in Stored => k \in 1 .. Begun
            BY <1>6
          <6> QED BY <1>6, <6>1, <6>2, MetricsNumbers
        <5> QED BY <1>5, <1>9, <2>1, <3>1, <5>1
      <4> QED BY <1>3, <4>1 DEF Reads, Young
    <3>2. CASE i \in 1 .. n
      BY <1>3, <1>9, <2>1, <3>2 DEF Reads, Within
    <3> QED BY <1>11, <3>1, <3>2
  <2> QED BY <2>1 DEF Within
<1>14. \A i \in DOMAIN s : \A k \in s[i] : k \in Stored /\ k <= u.upto
  BY <1>3, <1>5, <1>9, <1>11 DEF Reads
<1>15. ~u.raced => Full(s)
  <2>1. ASSUME ~u.raced, NEW i \in DOMAIN s PROVE Stored \subseteq s[i]
    <3>1. CASE i = n + 1
      BY <1>3, <1>5, <1>9, <2>1, <3>1 DEF Reads
    <3>2. CASE i \in 1 .. n
      BY <1>3, <1>9, <2>1, <3>2 DEF Reads, Full
    <3> QED BY <1>11, <3>1, <3>2
  <2> QED BY <2>1 DEF Full
<1>16. PICK pc : pc = IF Len(s) = Len(Periods(u.kind)) THEN "fill" ELSE "read"
  OBVIOUS
<1>17. PICK x : x = Answered(u, S, pc)
  OBVIOUS
<1>18. /\ x \in Calls /\ x.pc = pc /\ x.kind = u.kind /\ x.upto = u.upto
       /\ x.seen = s /\ x.spent = u.spent /\ x.raced = u.raced
  <2>1. pc \in {"read", "fill"}
    BY <1>16
  <2> QED BY <1>3, <1>6, <1>7, <1>17, <2>1, AnsweredOK
<1>19. IF x.pc = "read" THEN Len(x.seen) < Len(Periods(x.kind))
                        ELSE Len(x.seen) = Len(Periods(x.kind))
  <2>1. n < Len(Periods(u.kind)) /\ Len(Periods(u.kind)) \in Nat
    BY <1>3, <1>8, PeriodsAre DEF Reads
  <2>2. PICK m \in Nat : m = Len(Periods(u.kind))
    BY <2>1
  <2> QED BY <1>9, <1>16, <1>18, <2>1, <2>2
<1>20. Reads(x)
  BY <1>3, <1>12, <1>13, <1>14, <1>15, <1>18, <1>19 DEF Reads
<1>21. ReaderOK(x)
  <2>1. x.pc # "idle"
    BY <1>16, <1>18
  <2> QED BY <1>18, <1>20, <2>1 DEF ReaderOK
<1>22. readers' = [readers EXCEPT ![r] = x]
  <2>1. readers' = [readers EXCEPT ![r].seen = s, ![r].pc = pc]
    BY <1>2, <1>4, <1>7, <1>16 DEF Read
  <2>2. x = [u EXCEPT !.seen = s, !.pc = pc]
    BY <1>7, <1>17 DEF Answered
  <2> QED BY <1>2, <2>1, <2>2, ReaderIs
<1> QED BY <1>1, <1>21, <1>22, ReaderStep DEF MetricsInv

LEMMA ReadFailsStep ==
  ASSUME MetricsInv, NEW r \in Readers, ReadFails(r)
  PROVE  MetricsInv'
<1>1. PICK x : x = Away
  OBVIOUS
<1>2. readers' = [readers EXCEPT ![r] = x] /\ UNCHANGED <<checks, cache, workers>>
  BY <1>1 DEF ReadFails
<1>3. errors' \in 0 .. MaxErrors
  BY MetricsFail DEF ReadFails, MetricsInv
<1> QED BY <1>1, <1>2, <1>3, AwayOK, ReaderStep

(* What was read is good for as long as the entry lives.                   *)
LEMMA FillMetricsStep ==
  ASSUME MetricsInv, NEW r \in Readers, Fill(r)
  PROVE  MetricsInv'
<1>1. PICK x : x = Away
  OBVIOUS
<1>2. readers' = [readers EXCEPT ![r] = x] /\ UNCHANGED <<checks, workers>>
      /\ readers[r].pc = "fill" /\ (Fail \/ UNCHANGED errors)
  BY <1>1 DEF Fill
<1>3. errors' \in 0 .. MaxErrors
  BY <1>2, MetricsFail DEF MetricsInv
<1>4. PICK u : u = readers[r]
  OBVIOUS
<1>5. u \in Calls /\ Reads(u) /\ u.pc = "fill" /\ ChecksOK
  BY <1>2, <1>4, ReaderIs DEF ReaderOK, MetricsInv
<1>6. PICK e : e = [seen |-> u.seen, left |-> TTL, excused |-> u.raced]
  OBVIOUS
<1>7. e \in Entries /\ e.seen = u.seen /\ e.left = TTL /\ e.excused = u.raced
  BY <1>5, <1>6, MetricsNumbers DEF Entries, Calls
<1>8. EntryOK(u.kind, e) /\ u.kind \in Kinds
  <2>1. u.spent \in 0 .. ReadTime /\ Horizon - TTL = ReadTime
    BY <1>5, MetricsNumbers DEF Calls
  <2>2. Within(u.seen, ReadTime)
    <3>1. u.spent \in Int /\ ReadTime \in Int /\ u.spent <= ReadTime
      BY <2>1, MetricsNumbers
    <3> QED BY <1>5, <3>1, WithinGrows DEF Reads
  <2> QED BY <1>5, <1>7, <2>1, <2>2 DEF EntryOK, Reads
<1>9. UNCHANGED cache \/ cache' = [cache EXCEPT ![u.kind] = e]
  BY <1>4, <1>6 DEF Fill, Lifetime
<1> QED BY <1>1, <1>2, <1>3, <1>7, <1>8, <1>9, AwayOK, ReaderStep

(* Time passes: what was missed grows older as fast as the reader that
   missed it, or as the entry loses life.                                  *)
LEMMA TickChecks ==
  ASSUME ChecksOK,
         checks' = [k \in DOMAIN checks |->
                      IF checks[k] = None \/ checks[k].age = Horizon THEN checks[k]
                      ELSE [checks[k] EXCEPT !.age = @ + 1]]
  PROVE  /\ ChecksOK' /\ Begun' = Begun /\ Stored' = Stored
         /\ \A n \in Int : \A k : Young(n, k) => Young(n + 1, k)'
<1>1. /\ checks \in Seq(Results \cup {None}) /\ DOMAIN checks = 1 .. Begun /\ Begun \in Nat
      /\ Begun = Len(checks) /\ Stored \subseteq 1 .. Begun
      /\ \A k \in Stored : checks[k] \in Results /\ checks[k].age \in 0 .. Horizon
  BY StoredChecks DEF ChecksOK, Begun
<1>2. ASSUME NEW k \in 1 .. Begun
      PROVE  /\ checks'[k] \in Results \cup {None} /\ (checks'[k] = None <=> checks[k] = None)
             /\ checks[k] # None => checks'[k].age <= checks[k].age + 1
  <2>1. PICK z : z = checks[k]
    OBVIOUS
  <2>2. PICK y : y = [z EXCEPT !.age = @ + 1]
    OBVIOUS
  <2>3. checks'[k] = IF z = None \/ z.age = Horizon THEN z ELSE y
    BY <1>1, <2>1, <2>2
  <2>4. CASE z = None \/ z.age = Horizon
    <3>1. z # None => z.age \in 0 .. Horizon
      BY <1>1, <1>2, <2>1 DEF Stored
    <3>2. z # None => z.age <= z.age + 1
      BY <3>1
    <3>3. z \in Results \cup {None}
      BY <1>1, <1>2, <2>1
    <3> QED BY <2>1, <2>3, <2>4, <3>2, <3>3
  <2>5. CASE z # None /\ z.age # Horizon
    <3>1. z \in Results
      BY <1>1, <1>2, <2>1, <2>5
    <3>2. z.age + 1 \in 0 .. Horizon /\ z.age + 1 <= z.age + 1
      BY <2>5, <3>1, MetricsNumbers DEF Results
    <3>3. y \in Results /\ y.age = z.age + 1
      BY <2>2, <3>1, <3>2 DEF Results
    <3>4. y # None
      BY <3>3, MetricsNumbers
    <3> QED BY <2>1, <2>3, <2>5, <3>2, <3>3, <3>4
  <2> QED BY <2>4, <2>5
<1>3. /\ checks' \in Seq(Results \cup {None}) /\ Begun' = Begun
      /\ DOMAIN checks' = 1 .. Begun
  <2>1. checks' \in [1 .. Begun -> Results \cup {None}]
    <3>1. checks' = [k \in 1 .. Begun |-> checks'[k]]
      BY <1>1
    <3> QED BY <1>2, <3>1
  <2> QED BY <1>1, <2>1 DEF Begun
<1>4. Stored' = Stored
  BY <1>1, <1>2, <1>3 DEF Stored
<1>5. ASSUME NEW n \in Int, NEW k, Young(n, k), k \in Stored
      PROVE  checks'[k].age <= n + 1
  <2>1. checks[k].age <= n /\ checks[k].age \in Int /\ k \in 1 .. Begun /\ checks[k] # None
    BY <1>1, <1>5, MetricsNumbers DEF Young, Stored
  <2>2. checks'[k].age <= checks[k].age + 1
    BY <1>2, <2>1
  <2>3. checks'[k].age \in Int
    <3>1. checks'[k] \in Results
      BY <1>2, <2>1
    <3> QED BY <3>1, MetricsNumbers DEF Results
  <2> QED BY <2>1, <2>2, <2>3
<1>6. \A n \in Int : \A k : Young(n, k) => Young(n + 1, k)'
  BY <1>4, <1>5 DEF Young
<1> QED BY <1>1, <1>3, <1>4, <1>6 DEF ChecksOK

\* A tick of a worker, of an entry and of a reader.
Waited(x, left, wait) == [x EXCEPT !.left = left, !.wait = wait]
Shorter(e) == [e EXCEPT !.left = @ - 1]
Spent(x, n) == [x EXCEPT !.spent = n]

LEMMA WaitedOK ==
  ASSUME NEW x, WorkerOK(x), NEW left \in 0 .. Timeout, NEW wait \in 0 .. LongestWait,
         x.pc = "request" => left = x.left - 1,
         x.pc = "backoff" => left = x.left - 1 /\ wait = x.wait - 1
  PROVE  /\ WorkerOK(Waited(x, left, wait)) /\ Waited(x, left, wait) \in Trials
         /\ Waited(x, left, wait).pc = x.pc
<1>1. x \in Trials
  BY DEF WorkerOK
<1>2. PICK y : y = [x EXCEPT !.left = left, !.wait = wait]
  OBVIOUS
<1>3. y \in Trials /\ y.pc = x.pc /\ y.check = x.check /\ y.attempt = x.attempt
      /\ y.status = x.status /\ y.left = left /\ y.wait = wait
      /\ y.grounds = x.grounds /\ y.cancelled = x.cancelled
  BY <1>1, <1>2 DEF Trials
<1>4. Spread(y)
  <2>1. Timeout \in Int /\ x.left \in Int /\ x.wait \in Int
    BY <1>1, MetricsNumbers DEF Trials
  <2>2. PICK n : n = Backoff(x.attempt) - Delay
    OBVIOUS
  <2>3. PICK m : m = Backoff(x.attempt + 1) - Delay
    OBVIOUS
  <2>4. CASE x.pc = "request"
    <3>1. x.attempt \in 1 .. MaxAttempts
      BY <1>1, <2>4 DEF WorkerOK, Trials
    <3>2. n \in Int
      BY <2>2, <3>1, BackoffsAre
    <3>3. Timeout - x.left >= n
      BY <2>2, <2>4 DEF WorkerOK, Spread
    <3>4. Timeout - y.left >= n
      BY <1>3, <2>1, <2>4, <3>2, <3>3
    <3> QED BY <1>3, <2>2, <2>4, <3>4 DEF Spread
  <2>5. CASE x.pc = "backoff"
    <3>1. Timeout - x.left + x.wait >= m
      BY <2>3, <2>5 DEF WorkerOK, Spread
    <3>2. Timeout - y.left + y.wait = Timeout - x.left + x.wait
      BY <1>3, <2>1, <2>5
    <3> QED BY <1>3, <2>3, <2>5, <3>1, <3>2 DEF Spread
  <2>6. CASE x.pc \notin {"request", "backoff"}
    BY <1>3, <2>6 DEF WorkerOK, Spread
  <2> QED BY <2>4, <2>5, <2>6
<1>5. WorkerOK(y)
  BY <1>3, <1>4 DEF WorkerOK
<1> QED BY <1>2, <1>3, <1>5 DEF Waited

LEMMA ShorterOK ==
  ASSUME NEW e \in Entries, e.left # 1
  PROVE  /\ Shorter(e) \in Entries /\ Shorter(e).seen = e.seen
         /\ Shorter(e).left = e.left - 1 /\ Shorter(e).excused = e.excused
<1>1. PICK x : x = [e EXCEPT !.left = @ - 1]
  OBVIOUS
<1>2. PICK S : S = Seq(SUBSET Checks)
  OBVIOUS
<1>3. e.left - 1 \in 1 .. TTL
  BY MetricsNumbers DEF Entries
<1>4. x \in Entries /\ x.seen = e.seen /\ x.left = e.left - 1 /\ x.excused = e.excused
  BY <1>1, <1>2, <1>3 DEF Entries
<1> QED BY <1>1, <1>4 DEF Shorter

LEMMA SpentOK ==
  ASSUME NEW x \in Calls, NEW n \in 0 .. ReadTime
  PROVE  LET y == Spent(x, n)
         IN  /\ y \in Calls /\ y.pc = x.pc /\ y.kind = x.kind /\ y.upto = x.upto
             /\ y.seen = x.seen /\ y.spent = n /\ y.raced = x.raced
<1>1. PICK y : y = [x EXCEPT !.spent = n]
  OBVIOUS
<1>2. PICK S, K : S = Seq(SUBSET Checks) /\ K = Kinds \cup {None}
  OBVIOUS
<1>3. /\ y \in Calls /\ y.pc = x.pc /\ y.kind = x.kind /\ y.upto = x.upto
      /\ y.seen = x.seen /\ y.spent = n /\ y.raced = x.raced
  BY <1>1, <1>2 DEF Calls
<1> QED BY <1>1, <1>3 DEF Spent

LEMMA MetricsTick ==
  ASSUME MetricsInv, Tick
  PROVE  MetricsInv'
<1>1. /\ ChecksOK' /\ Begun' = Begun /\ Stored' = Stored
      /\ \A n \in Int : \A k : Young(n, k) => Young(n + 1, k)'
  BY TickChecks DEF MetricsInv, Tick
<1>2. \A seen : \A n \in Int : Within(seen, n) => Within(seen, n + 1)'
  BY <1>1 DEF Within
<1>3. \A seen : Full(seen)' = Full(seen)
  BY <1>1 DEF Full
<1>4. ASSUME NEW w \in Workers
      PROVE  \A x \in {workers'[w]} : WorkerOK(x) /\ x \in Trials /\ x.pc = workers[w].pc
  <2>1. PICK y : y = workers[w]
    OBVIOUS
  <2>2. WorkerOK(y) /\ y \in Trials
    BY <2>1, WorkerIs
  <2>3. PICK left : left = IF y.pc \in {"request", "backoff"} THEN y.left - 1 ELSE y.left
    OBVIOUS
  <2>4. PICK wait : wait = IF y.pc = "backoff" THEN y.wait - 1 ELSE y.wait
    OBVIOUS
  <2>5. PICK x : x = Waited(y, left, wait)
    OBVIOUS
  <2>6. x = workers'[w]
    BY <2>1, <2>3, <2>4, <2>5 DEF Tick, Trying, Waited
  <2>7. left \in 0 .. Timeout /\ wait \in 0 .. LongestWait
    <3>1. ~Due(w)
      BY DEF Tick
    <3>2. y.left \in 0 .. Timeout /\ y.wait \in 0 .. LongestWait
      BY <2>2 DEF Trials
    <3>3. /\ y.pc \in {"request", "backoff"} => y.left # 0
          /\ y.pc = "backoff" => y.wait # 0
      BY <2>1, <3>1 DEF Due, Over
    <3> QED BY <2>3, <2>4, <3>2, <3>3, MetricsNumbers
  <2>8. WorkerOK(x) /\ x \in Trials /\ x.pc = y.pc
    BY <2>2, <2>3, <2>4, <2>5, <2>7, WaitedOK
  <2> QED BY <2>1, <2>6, <2>8
<1>5. WorkersOK'
  <2>1. workers' = [w \in Workers |-> workers'[w]]
    BY DEF Tick
  <2>2. workers' \in [Workers -> Trials]
    BY <1>4, <2>1
  <2>3. ASSUME NEW w \in Workers, NEW x, x = workers'[w] PROVE WorkerOK(x)'
    BY <1>1, <1>4, <2>3 DEF WorkerOK
  <2> QED BY <2>2, <2>3 DEF WorkersOK
<1>6. Invalidating' = Invalidating
  BY <1>4 DEF Invalidating
<1>7. ASSUME NEW r \in Readers
      PROVE  \A x \in {readers'[r]} : ReaderOK(x)' /\ x \in Calls
  <2>1. PICK u : u = readers[r]
    OBVIOUS
  <2>2. ReaderOK(u) /\ u \in Calls
    BY <2>1, ReaderIs
  <2>3. PICK n : n = IF u.pc = "idle" THEN 0 ELSE u.spent + 1
    OBVIOUS
  <2>4. PICK x : x = Spent(u, n)
    OBVIOUS
  <2>5. x = readers'[r]
    BY <2>1, <2>3, <2>4 DEF Tick, Spent
  <2>6. n \in 0 .. ReadTime
    <3>1. u.spent \in 0 .. ReadTime /\ (u.pc # "idle" => u.spent < ReadTime)
      BY <2>1, <2>2 DEF Tick, Calls
    <3> QED BY <2>3, <3>1, MetricsNumbers
  <2>7. /\ x \in Calls /\ x.pc = u.pc /\ x.kind = u.kind /\ x.upto = u.upto
        /\ x.seen = u.seen /\ x.spent = n /\ x.raced = u.raced
    BY <2>2, <2>4, <2>6, SpentOK
  <2>8. CASE u.pc = "idle"
    BY <2>2, <2>5, <2>7, <2>8 DEF ReaderOK
  <2>9. CASE u.pc # "idle"
    <3>1. Reads(u) /\ u.spent \in Int /\ n = u.spent + 1
      BY <2>2, <2>3, <2>9, MetricsNumbers DEF ReaderOK, Calls
    <3>2. Within(u.seen, n)'
      BY <1>2, <3>1 DEF Reads
    <3>3. \A k \in Stored' : k > u.upto => Young(n, k)'
      BY <1>1, <3>1 DEF Reads
    <3>4. Reads(x)'
      BY <1>1, <1>3, <2>7, <3>1, <3>2, <3>3 DEF Reads
    <3> QED BY <2>5, <2>7, <2>9, <3>4 DEF ReaderOK
  <2> QED BY <2>8, <2>9
<1>8. ReadersOK'
  <2>1. readers' = [r \in Readers |-> readers'[r]]
    BY DEF Tick
  <2> QED BY <1>7, <2>1 DEF ReadersOK
<1>9. ASSUME NEW kind \in Kinds, cache'[kind] # None
      PROVE  \A e \in {cache'[kind]} : EntryOK(kind, e)' /\ e \in Entries
  <2>1. PICK d : d = cache[kind]
    OBVIOUS
  <2>2. PICK e : e = cache'[kind]
    OBVIOUS
  <2>3. d # None /\ d.left # 1 /\ e = Shorter(d)
    BY <1>9, <2>1, <2>2 DEF Tick, Shorter
  <2>4. EntryOK(kind, d) /\ d \in Entries
    BY <2>1, <2>3 DEF MetricsInv, CacheOK, EntryOK
  <2>5. e \in Entries /\ e.seen = d.seen /\ e.left = d.left - 1 /\ e.excused = d.excused
    BY <2>3, <2>4, ShorterOK
  <2>6. Within(e.seen, Horizon - e.left)'
    <3>1. PICK n \in Int : n = Horizon - d.left
      BY <2>4, MetricsNumbers DEF Entries
    <3>2. Within(d.seen, n + 1)'
      BY <1>2, <2>4, <3>1 DEF EntryOK
    <3>3. d.left \in Int /\ Horizon \in Int
      BY <2>4, MetricsNumbers DEF Entries
    <3>4. Horizon - e.left = n + 1
      BY <2>5, <3>1, <3>3
    <3> QED BY <2>5, <3>2, <3>4
  <2>7. EntryOK(kind, e)'
    BY <1>3, <1>6, <2>4, <2>5, <2>6 DEF EntryOK
  <2> QED BY <2>2, <2>5, <2>7
<1>10. CacheOK' /\ cache' \in [Kinds -> Entries \cup {None}]
  <2>1. cache' = [k \in Kinds |-> cache'[k]]
    BY DEF Tick
  <2> QED BY <1>9, <2>1 DEF CacheOK
<1>11. errors' \in 0 .. MaxErrors
  BY DEF Tick, MetricsInv
<1> QED BY <1>1, <1>5, <1>8, <1>10, <1>11 DEF MetricsInv

LEMMA MetricsStart == Init => MetricsInv
<1> SUFFICES ASSUME Init PROVE MetricsInv
  OBVIOUS
<1>1. checks = <<>> /\ Begun = 0
  BY DEF Init, Begun
<1>2. ChecksOK
  BY <1>1, MetricsNumbers DEF ChecksOK
<1>3. CacheOK /\ cache \in [Kinds -> Entries \cup {None}]
  BY DEF Init, CacheOK
<1>4. WorkersOK
  <2>1. PICK x : x = Resting
    OBVIOUS
  <2>2. WorkerOK(x) /\ x \in Trials
    BY <1>2, <2>1, RestingOK DEF WorkerOK
  <2>3. workers = [w \in Workers |-> x]
    BY <2>1 DEF Init
  <2> QED BY <2>2, <2>3 DEF WorkersOK
<1>5. ReadersOK
  <2>1. PICK x : x = Away
    OBVIOUS
  <2>2. ReaderOK(x) /\ x \in Calls
    BY <2>1, AwayOK DEF ReaderOK
  <2>3. readers = [r \in Readers |-> x]
    BY <2>1 DEF Init
  <2> QED BY <2>2, <2>3 DEF ReadersOK
<1>6. errors \in 0 .. MaxErrors
  BY MetricsNumbers DEF Init
<1> QED BY <1>2, <1>3, <1>4, <1>5, <1>6 DEF MetricsInv

LEMMA MetricsStutter == MetricsInv /\ UNCHANGED vars => MetricsInv'
<1> SUFFICES ASSUME MetricsInv, UNCHANGED vars PROVE MetricsInv'
  OBVIOUS
<1>1. UNCHANGED <<checks, cache, workers, readers, errors>>
  BY DEF vars
<1>2. ChecksOK /\ ChecksOK' /\ Stored' = Stored /\ Begun' = Begun /\ Begun \in Nat
  BY <1>1, StoredChecks DEF MetricsInv, ChecksOK, Stored, Begun
<1>3. /\ \A seen, n : Within(seen, n)' = Within(seen, n)
      /\ \A seen : Full(seen)' = Full(seen)
      /\ \A x : ReaderOK(x)' = ReaderOK(x)
      /\ \A x : WorkerOK(x) => WorkerOK(x)'
  BY <1>1, <1>2, SameChecks
<1>4. CacheOK'
  <2>1. Invalidating => Invalidating'
    BY <1>1 DEF Invalidating
  <2> QED BY <1>1, <1>3, <2>1, SameCache
<1> QED BY <1>1, <1>2, <1>3, <1>4 DEF MetricsInv, ReadersOK, WorkersOK

LEMMA MetricsStep == MetricsInv /\ [Next]_vars => MetricsInv'
<1> SUFFICES ASSUME MetricsInv, [Next]_vars PROVE MetricsInv'
  OBVIOUS
<1>1. ASSUME NEW w \in Workers,
             \/ ExecuteCheck(w) \/ NoMonitor(w) \/ Respond(w) \/ AttemptFails(w)
             \/ Expire(w) \/ Retry(w) \/ Create(w) \/ InvalidateMetricsCache(w)
             \/ Cancel(w)
      PROVE  MetricsInv'
  BY <1>1, CancelStep, ExecuteStep, NoMonitorStep, AttemptStep, CreateStep, InvalidateMetricsStep
<1>2. ASSUME NEW r \in Readers,
             \/ \E kind \in Kinds : Get(r, kind)
             \/ Read(r) \/ ReadFails(r) \/ Fill(r)
      PROVE  MetricsInv'
  BY <1>2, GetStep, ReadStep, ReadFailsStep, FillMetricsStep
<1>3. CASE Tick
  BY <1>3, MetricsTick
<1>4. CASE UNCHANGED vars
  BY <1>4, MetricsStutter
<1> QED BY <1>1, <1>2, <1>3, <1>4 DEF Next

\* Whatever workers, readers and failures do: a cached metric misses only
\* checks younger than its own age and its reader's time, the longer of its
\* periods have all that the shorter ones have, and the uptime misses a check
\* at all only for one of the named reasons.
THEOREM MetricsInvariant == Spec => []MetricsInv
<1>1. Init => MetricsInv
  BY MetricsStart
<1>2. MetricsInv /\ [Next]_vars => MetricsInv'
  BY MetricsStep
<1> QED BY <1>1, <1>2, PTL DEF Spec

LEMMA MetricsTyped == MetricsInv => TypeOK
<1> SUFFICES ASSUME MetricsInv PROVE TypeOK
  OBVIOUS
<1>1. Begun <= MaxChecks /\ \A k \in DOMAIN checks : checks[k] = None \/ checks[k] \in Results
  BY DEF MetricsInv, ChecksOK
<1>2. \A kind \in Kinds : cache[kind] # None =>
         cache[kind] \in Entries /\ Len(cache[kind].seen) = Len(Periods(kind))
  BY DEF MetricsInv, CacheOK, EntryOK
<1>3. workers \in [Workers ->
         [pc : {"idle", "request", "backoff", "store", "invalidate"},
          check : 0 .. MaxChecks, attempt : 0 .. MaxAttempts,
          wait : 0 .. Backoff(MaxAttempts) - 1, left : 0 .. Timeout,
          status : Statuses \cup {None}, cancelled : BOOLEAN, grounds : BOOLEAN]]
  BY DEF MetricsInv, WorkersOK, Trials, LongestWait
<1>4. ASSUME NEW r \in Readers
      PROVE  /\ readers[r].pc \in {"idle", "read", "fill"}
             /\ readers[r].upto \in 0 .. MaxChecks
             /\ readers[r].seen \in Seq(SUBSET Checks)
             /\ readers[r].spent \in 0 .. ReadTime
  BY ReaderIs DEF Calls
<1> QED BY <1>1, <1>2, <1>3, <1>4 DEF TypeOK, MetricsInv

LEMMA MetricsFresh == MetricsInv => FreshMetrics
<1> SUFFICES ASSUME MetricsInv, NEW kind \in Kinds, cache[kind] # None,
                    NEW k \in Stored, NEW i \in DOMAIN cache[kind].seen,
                    checks[k].age = Horizon, k \notin cache[kind].seen[i]
             PROVE  FALSE
  BY DEF FreshMetrics
<1>1. PICK e : e = cache[kind]
  OBVIOUS
<1>2. EntryOK(kind, e)
  BY <1>1 DEF MetricsInv, CacheOK
<1>3. k \in Checks
  BY StoredChecks DEF MetricsInv
<1>4. Young(Horizon - e.left, k)
  BY <1>1, <1>2, <1>3 DEF EntryOK, Within
<1>5. Horizon <= Horizon - e.left
  BY <1>4 DEF Young
<1>6. e.left \in 1 .. TTL
  BY <1>2 DEF EntryOK, Entries
<1> QED BY <1>5, <1>6, MetricsNumbers

LEMMA MetricsRace == MetricsInv => UptimeNeedsARace
<1> SUFFICES ASSUME MetricsInv, NEW kind \in Kinds \cap {"uptime"}, cache[kind] # None
             PROVE  \/ cache[kind].excused
                    \/ \E w \in Workers : workers[w].pc = "invalidate"
                    \/ \A i \in DOMAIN cache[kind].seen : Stored \subseteq cache[kind].seen[i]
  BY DEF UptimeNeedsARace
<1>1. PICK e : e = cache[kind]
  OBVIOUS
<1>2. EntryOK(kind, e) /\ kind = "uptime"
  BY <1>1 DEF MetricsInv, CacheOK
<1> QED BY <1>1, <1>2 DEF EntryOK, Invalidating, Full

\* No metric served from Redis misses a check that was stored longer ago than
\* the life of a key and the time of a read, and the uptime misses none at
\* all but by a race, a failed removal or a lost reply: for any workers,
\* readers, failures, checks and times.
THEOREM MetricsStaySound == Spec => []MetricsAreSound
<1>1. MetricsInv => MetricsAreSound
  BY MetricsTyped, MetricsFresh, MetricsRace DEF MetricsAreSound
<1> QED BY <1>1, MetricsInvariant, PTL

LEMMA NestedNests ==
  ASSUME NEW seen, Nested(seen), seen \in Seq(SUBSET Checks), Len(seen) <= 3
  PROVE  \A i, j \in DOMAIN seen :
           Hours[Periods("uptime")[i]] < Hours[Periods("uptime")[j]] => seen[i] \subseteq seen[j]
<1> SUFFICES ASSUME NEW i \in DOMAIN seen, NEW j \in DOMAIN seen,
                    Hours[Periods("uptime")[i]] < Hours[Periods("uptime")[j]]
             PROVE  seen[i] \subseteq seen[j]
  OBVIOUS
<1>1. i \in {1, 2, 3} /\ j \in {1, 2, 3}
  OBVIOUS
<1>2. /\ Periods("uptime")[1] = "24h" /\ Periods("uptime")[2] = "7d"
      /\ Periods("uptime")[3] = "30d"
  BY DEF Periods
<1>3. Hours["24h"] = 24 /\ Hours["7d"] = 168 /\ Hours["30d"] = 720
  BY DEF Hours
<1>4. i < j
  BY <1>1, <1>2, <1>3
<1> QED BY <1>4 DEF Nested

\* Of the periods of the uptime, which are read one after the other while
\* workers store checks, a longer one has counted every check that a shorter
\* one has, in Redis and with every reader.
THEOREM PeriodsStayNested == Spec => []PeriodsNest
<1>1. ASSUME MetricsInv PROVE PeriodsNest
  <2> DEFINE Nest(seen) == \A i, j \in DOMAIN seen :
               Hours[Periods("uptime")[i]] < Hours[Periods("uptime")[j]] => seen[i] \subseteq seen[j]
  <2>1. Len(Periods("uptime")) = 3
    BY DEF Periods
  <2>2. ASSUME "uptime" \in Kinds, cache["uptime"] # None PROVE Nest(cache["uptime"].seen)
    <3>1. PICK e : e = cache["uptime"]
      OBVIOUS
    <3>2. EntryOK("uptime", e)
      BY <1>1, <2>2, <3>1 DEF MetricsInv, CacheOK
    <3>3. Nested(e.seen) /\ e \in Entries /\ Len(e.seen) = 3
      BY <2>1, <3>2 DEF EntryOK
    <3>4. e.seen \in Seq(SUBSET Checks)
      BY <3>3 DEF Entries
    <3>5. Len(e.seen) <= 3
      BY <3>3
    <3> QED BY <3>1, <3>3, <3>4, <3>5, NestedNests
  <2>3. ASSUME NEW r \in Readers, readers[r].kind = "uptime" PROVE Nest(readers[r].seen)
    <3>1. PICK x : x = readers[r]
      OBVIOUS
    <3>2. ReaderOK(x) /\ x \in Calls
      BY <1>1, <3>1, ReaderIs
    <3>3. CASE x.pc = "idle"
      <4>1. DOMAIN x.seen = {}
        BY <3>2, <3>3 DEF ReaderOK
      <4> QED BY <3>1, <4>1
    <3>4. CASE x.pc # "idle"
      <4>1. Reads(x) /\ x.seen \in Seq(SUBSET Checks) /\ x.kind = "uptime"
        BY <2>3, <3>1, <3>2, <3>4 DEF ReaderOK, Calls
      <4>2. Len(x.seen) <= 3
        <5>1. PICK n \in Nat : n = Len(x.seen)
          BY <4>1
        <5>2. n < 3 \/ n = 3
          BY <2>1, <4>1, <5>1 DEF Reads
        <5>3. n <= 3
          BY <5>2
        <5> QED BY <5>1, <5>3, Zenon
      <4> QED BY <3>1, <4>1, <4>2, NestedNests DEF Reads
    <3> QED BY <3>3, <3>4
  <2> QED BY <2>2, <2>3 DEF PeriodsNest
<1> QED BY <1>1, MetricsInvariant, PTL

\* No outage shorter than the sum of the back-offs calls a site down: without
\* an answer, a row is stored only by a worker whose attempts were as far apart,
\* or filled the Timeout.
THEOREM ShortOutagesForgiven == Spec => ShortOutagesAreForgiven
<1>1. ASSUME MetricsInv, [Next]_vars, NEW w \in Workers,
             Stored' # Stored, workers'[w] # workers[w]
      PROVE  workers[w].grounds
  <2>1. ASSUME NEW v \in Workers,
               \/ NoMonitor(v) \/ Respond(v) \/ AttemptFails(v) \/ Expire(v)
               \/ Retry(v) \/ InvalidateMetricsCache(v) \/ Cancel(v)
        PROVE  FALSE
    <3>1. UNCHANGED checks
      BY <2>1 DEF NoMonitor, Respond, AttemptFails, Expire, Retry, InvalidateMetricsCache, Cancel
    <3> QED BY <1>1, <3>1 DEF Stored
  <2>2. ASSUME NEW v \in Workers, ExecuteCheck(v) PROVE FALSE
    <3>1. ChecksOK /\ checks \in Seq(Results \cup {None}) /\ Begun = Len(checks)
          /\ Begun \in Nat /\ DOMAIN checks = 1 .. Begun
      BY <1>1, StoredChecks DEF MetricsInv, ChecksOK, Begun
    <3>2. /\ DOMAIN checks' = 1 .. Begun + 1 /\ checks'[Begun + 1] = None
          /\ \A k \in 1 .. Begun : checks'[k] = checks[k]
      BY <2>2, <3>1, AppendProperties DEF ExecuteCheck
    <3>3. \A k : k \in 1 .. Begun + 1 <=> k \in 1 .. Begun \/ k = Begun + 1
      BY <3>1
    <3>4. Stored' = Stored
      BY <3>1, <3>2, <3>3 DEF Stored
    <3> QED BY <1>1, <3>4
  <2>3. ASSUME NEW v \in Workers, Create(v) PROVE workers[w].grounds
    <3>1. PICK x : workers' = [workers EXCEPT ![v] = x]
      BY <2>3 DEF Create, Go
    <3>2. w = v
      BY <1>1, <3>1, WorkerIs
    <3>3. ~workers[w].cancelled \/ UNCHANGED checks
      BY <2>3, <3>2 DEF Create, Ongoing
    <3>4. ~workers[w].cancelled
      BY <1>1, <3>3 DEF Stored
    <3>5. workers[w].pc = "store" /\ WorkerOK(workers[w])
      BY <1>1, <2>3, <3>2, WorkerIs DEF Create
    <3> QED BY <3>4, <3>5 DEF WorkerOK, Spread
  <2>4. ASSUME NEW r \in Readers,
               (\E kind \in Kinds : Get(r, kind)) \/ Read(r) \/ ReadFails(r) \/ Fill(r)
        PROVE  FALSE
    <3>1. UNCHANGED workers
      BY <2>4 DEF Get, Read, ReadFails, Fill
    <3> QED BY <1>1, <3>1
  <2>5. CASE Tick
    <3>1. Stored' = Stored
      BY <1>1, <2>5, TickChecks DEF MetricsInv, Tick
    <3> QED BY <1>1, <3>1
  <2>6. CASE UNCHANGED vars
    BY <1>1, <2>6 DEF vars
  <2> QED BY <1>1, <2>1, <2>2, <2>3, <2>4, <2>5, <2>6 DEF Next
<1>2. MetricsInv /\ [Next]_vars =>
        \A w \in Workers : Stored' # Stored /\ workers'[w] # workers[w] => workers[w].grounds
  BY <1>1
<1> QED BY <1>2, MetricsInvariant, PTL DEF Spec, ShortOutagesAreForgiven

----------------------------------------------------------------------------
\* A weighted part of a distance is at most the distance, and grows with the
\* weight.
LEMMA PartBounded ==
    ASSUME NEW w \in 0 .. 100, NEW d \in Nat
    PROVE  (w * d) \div 100 \in 0 .. d
<1>1. w * d \in Nat  OBVIOUS
<1>2. w * d <= 100 * d  OBVIOUS
<1> QED  BY <1>1, <1>2

LEMMA PartGrows ==
    ASSUME NEW v \in 0 .. 100, NEW w \in 0 .. 100, NEW d \in Nat, v <= w
    PROVE  (v * d) \div 100 <= (w * d) \div 100
<1>1. v * d \in Nat /\ w * d \in Nat  OBVIOUS
<1>2. v * d <= w * d  OBVIOUS
<1> QED  BY <1>1, <1>2

\* The interpolated value lies between the two neighbours it is computed from.
LEMMA InterpolateBounded ==
    ASSUME NEW times, Sorted(times),
           NEW x \in 0 .. 100 * (Len(times) - 1)
    PROVE  LET lower == x \div 100 + 1 IN
           /\ lower \in 1 .. Len(times)
           /\ Interpolate(times, x) \in Nat
           /\ times[lower] <= Interpolate(times, x)
           /\ lower < Len(times) => Interpolate(times, x) <= times[lower + 1]
           /\ lower = Len(times) => Interpolate(times, x) = times[lower]
<1> DEFINE lower == x \div 100 + 1
           weight == x % 100
<1>1. /\ Len(times) \in Nat /\ Len(times) > 0
      /\ \A i \in 1 .. Len(times) : times[i] \in Nat
  BY DEF Sorted
<1>2. x \in Nat /\ x <= 100 * (Len(times) - 1)  BY <1>1
<1>3. /\ lower \in 1 .. Len(times) /\ weight \in 0 .. 99
      /\ x = 100 * (lower - 1) + weight
  BY <1>1, <1>2
<1>4. CASE weight = 0
  <2>1. Interpolate(times, x) = times[lower]  BY <1>4 DEF Interpolate
  <2>2. lower < Len(times) => times[lower] <= times[lower + 1]
    <3>1. lower < Len(times) => lower + 1 \in 1 .. Len(times) /\ lower <= lower + 1
      BY <1>1, <1>3
    <3> QED  BY <1>3, <3>1 DEF Sorted
  <2> QED  BY <1>1, <1>3, <2>1, <2>2
<1>5. CASE weight # 0
  <2>1. lower < Len(times)  BY <1>1, <1>2, <1>3, <1>5
  <2>2. lower + 1 \in 1 .. Len(times)  BY <1>1, <1>3, <2>1
  <2> DEFINE d == times[lower + 1] - times[lower]
  <2>3. d \in Nat  BY <1>1, <1>3, <2>2 DEF Sorted
  <2>4. (weight * d) \div 100 \in 0 .. d
    <3>1. weight \in 0 .. 100  BY <1>3
    <3> QED  BY <2>3, <3>1, PartBounded
  <2>5. Interpolate(times, x) = times[lower] + (weight * d) \div 100
    BY <1>5 DEF Interpolate
  <2>6. times[lower] \in Nat /\ times[lower + 1] \in Nat  BY <1>1, <1>3, <2>2
  <2>7. /\ Interpolate(times, x) \in Nat
        /\ times[lower] <= Interpolate(times, x)
        /\ Interpolate(times, x) <= times[lower + 1]
    <3> HIDE DEF lower, weight
    <3> QED  BY <2>3, <2>4, <2>5, <2>6
  <2> QED  BY <1>3, <2>1, <2>7
<1> QED  BY <1>4, <1>5

\* Going further into sorted times never gives a smaller value.
LEMMA InterpolateMonotone ==
    ASSUME NEW times, Sorted(times),
           NEW x \in 0 .. 100 * (Len(times) - 1),
           NEW y \in 0 .. 100 * (Len(times) - 1), x <= y
    PROVE  Interpolate(times, x) <= Interpolate(times, y)
<1> DEFINE lx == x \div 100 + 1
           ly == y \div 100 + 1
<1>1. /\ Len(times) \in Nat /\ Len(times) > 0
      /\ \A i \in 1 .. Len(times) : times[i] \in Nat
  BY DEF Sorted
<1>2. /\ lx \in 1 .. Len(times) /\ ly \in 1 .. Len(times)
      /\ Interpolate(times, x) \in Nat /\ Interpolate(times, y) \in Nat
      /\ times[ly] <= Interpolate(times, y)
      /\ lx < Len(times) => Interpolate(times, x) <= times[lx + 1]
  BY InterpolateBounded
<1>3. x \in Nat /\ y \in Nat /\ lx <= ly  BY <1>1
<1>4. CASE lx < ly
  <2>1. lx + 1 \in 1 .. Len(times) /\ lx + 1 <= ly /\ lx < Len(times)
    BY <1>1, <1>2, <1>4
  <2>2. times[lx + 1] <= times[ly]  BY <1>2, <2>1 DEF Sorted
  <2>3. times[lx + 1] \in Nat /\ times[ly] \in Nat  BY <1>1, <1>2, <2>1
  <2> HIDE DEF lx, ly
  <2> QED  BY <1>2, <2>1, <2>2, <2>3
<1>5. CASE lx = ly
  <2>1. /\ x % 100 \in 0 .. 99 /\ y % 100 \in 0 .. 99 /\ x % 100 <= y % 100
    BY <1>3, <1>5
  <2>2. CASE x % 100 = 0
    <3>1. Interpolate(times, x) = times[ly]  BY <1>5, <2>2 DEF Interpolate
    <3> QED  BY <1>2, <3>1
  <2>3. CASE x % 100 # 0
    <3>1. y % 100 # 0  BY <2>1, <2>3
    <3>2. y = 100 * (ly - 1) + (y % 100)  BY <1>3
    <3>3. ly + 1 \in 1 .. Len(times)  BY <1>1, <1>2, <2>1, <3>1, <3>2
    <3> DEFINE d == times[ly + 1] - times[ly]
    <3>4. times[ly] \in Nat /\ d \in Nat
      <4> HIDE DEF lx, ly
      <4>1. ly \in Nat /\ ly <= ly + 1  BY <1>2
      <4>2. times[ly] <= times[ly + 1]  BY <1>2, <3>3, <4>1 DEF Sorted
      <4>3. times[ly] \in Nat /\ times[ly + 1] \in Nat  BY <1>1, <1>2, <3>3
      <4> QED  BY <4>2, <4>3
    <3>5. Interpolate(times, x) = times[ly] + ((x % 100) * d) \div 100
      BY <1>5, <2>3 DEF Interpolate
    <3>6. Interpolate(times, y) = times[ly] + ((y % 100) * d) \div 100
      BY <3>1 DEF Interpolate
    <3>7. ((x % 100) * d) \div 100 <= ((y % 100) * d) \div 100
      <4>1. x % 100 \in 0 .. 100 /\ y % 100 \in 0 .. 100  BY <2>1
      <4> QED  BY <2>1, <3>4, <4>1, PartGrows
    <3>8. ((x % 100) * d) \div 100 \in 0 .. d /\ ((y % 100) * d) \div 100 \in 0 .. d
      <4>1. x % 100 \in 0 .. 100 /\ y % 100 \in 0 .. 100  BY <2>1
      <4> QED  BY <3>4, <4>1, PartBounded
    <3> HIDE DEF ly, lx, d
    <3> QED  BY <3>4, <3>5, <3>6, <3>7, <3>8
  <2> QED  BY <2>2, <2>3
<1> QED  BY <1>3, <1>4, <1>5

\* Whatever the times of a period, the page shows them in order: the 95th
\* percentile is no less than the shortest time and no more than the 99th,
\* and that no more than the longest.
THEOREM StatsOrdered ==
    ASSUME NEW times, Sorted(times)
    PROVE  /\ Stats(times).Min <= Stats(times).P95
           /\ Stats(times).P95 <= Stats(times).P99
           /\ Stats(times).P99 <= Stats(times).Max
<1> DEFINE n == Len(times) - 1
<1>1. n \in Nat /\ \A i \in 1 .. n + 1 : times[i] \in Nat  BY DEF Sorted
<1>2. /\ 0 \in 0 .. 100 * n /\ 95 * n \in 0 .. 100 * n /\ 99 * n \in 0 .. 100 * n
      /\ 100 * n \in 0 .. 100 * n /\ 0 <= 95 * n /\ 95 * n <= 99 * n /\ 99 * n <= 100 * n
  BY <1>1
<1>3. Interpolate(times, 0) = times[1]
  <2>1. 0 \div 100 + 1 = 1 /\ 0 % 100 = 0  OBVIOUS
  <2> QED  BY <2>1 DEF Interpolate
<1>4. Interpolate(times, 100 * n) = times[n + 1]
  <2>1. (100 * n) \div 100 + 1 = n + 1 /\ (100 * n) % 100 = 0  BY <1>1
  <2> QED  BY <2>1 DEF Interpolate
<1>5. n + 1 = Len(times)  BY DEF Sorted
<1>6. /\ Interpolate(times, 0) <= Interpolate(times, 95 * n)
      /\ Interpolate(times, 95 * n) <= Interpolate(times, 99 * n)
      /\ Interpolate(times, 99 * n) <= Interpolate(times, 100 * n)
  <2> HIDE DEF Interpolate
  <2> QED  BY <1>2, InterpolateMonotone
<1> HIDE DEF n
<1>7. Stats(times) = [Min |-> times[1], Max |-> times[n + 1],
         P95 |-> Interpolate(times, 95 * n), P99 |-> Interpolate(times, 99 * n)]
  BY <1>5 DEF Stats, CalculatePercentile, n
<1> QED  BY <1>3, <1>4, <1>6, <1>7
=============================================================================
