---------------------------- MODULE Degradation ----------------------------
(***************************************************************************)
(* Running without PostgreSQL or Redis (src/infrastructure/resilience):    *)
(* DegradationManager, which keeps one of four modes and probes both       *)
(* services, and the wrappers that ask it before every call and report     *)
(* every error to it: ResilientMonitorRepository, with a copy of monitors  *)
(* in the memory of the process, ResilientHealthCheckRepository and        *)
(* ResilientRedisClient.                                                   *)
(*                                                                         *)
(* A row is the number of the call that wrote it, or 0 when it was there   *)
(* before the process started.  Time goes by in periods                    *)
(* of the manager's ticker; a period goes by only when the manager is not  *)
(* probing.  MaxOutages and MaxWrites bound the run.                       *)
(***************************************************************************)
EXTENDS Integers

CONSTANTS
    Callers,
    Period, DBInterval, RedisInterval,   \* in units of 5 seconds
    Silent,       \* the services that may leave a call unanswered while down
    MaxOutages, MaxWrites, None

ASSUME DegradationAssumption ==
    /\ {Period, DBInterval, RedisInterval} \subseteq Nat \ {0}
    /\ {MaxOutages, MaxWrites} \subseteq Nat
    /\ Silent \subseteq {"database", "redis"}
    /\ None \notin Nat

VARIABLES
    mode,      \* DegradationManager.mode
    turn,      \* what the manager does: "wait", or a service it probes
    checked,   \* periods since each service was probed
    up,        \* the services that work
    reported,  \* the services whose last report was bad
    failed,    \* periods since the last bad report of each of them
    row,       \* the monitor in PostgreSQL, or None
    local,     \* the copy of it in the process, or None
    calls,     \* the call each caller is in
    writes, outages

manager == <<mode, turn, checked>>
world == <<up, outages>>
data == <<row, local, writes>>
vars == <<manager, world, data, failed, reported, calls>>

Services == {"database", "redis"}
Modes == {"normal", "redis_down", "database_down", "critical"}
Interval == [database |-> DBInterval, redis |-> RedisInterval]
\* A probe is made at the latest this many periods after the last.
Latest(s) == Interval[s] \div Period + 1

IsRedisAvailable == mode = "normal"
IsDatabaseAvailable == mode \in {"normal", "redis_down"}

\* Mutant of Down: a second failure does not make the mode critical.
DownOnce(s, m) ==
    IF m = "normal" THEN IF s = "redis" THEN "redis_down" ELSE "database_down"
    ELSE m

\* markDatabaseDown and SetDatabaseDown, markRedisDown and SetRedisDown.
Down(s, m) ==
    CASE m = "normal" -> IF s = "redis" THEN "redis_down" ELSE "database_down"
      [] m = "redis_down" /\ s = "database" -> "critical"
      [] m = "database_down" /\ s = "redis" -> "critical"
      [] OTHER -> m

\* markDatabaseUp and markRedisUp.
Up(s, m) ==
    CASE m = "critical" -> IF s = "redis" THEN "database_down" ELSE "redis_down"
      [] m = "redis_down" /\ s = "redis" -> "normal"
      [] m = "database_down" /\ s = "database" -> "normal"
      [] OTHER -> m

Idle == [pc |-> "idle", op |-> "get", copy |-> None, shared |-> FALSE]
Writers == {"create", "update", "delete"}
Readers == {"get", "list"}
Others == {"check", "cache", "queue"}
Ops == Writers \cup Readers \cup Others
Service(op) == IF op \in {"cache", "queue"} THEN "redis" ELSE "database"
Busy(c) == calls[c].pc # "idle"
Writing(c) == Busy(c) /\ calls[c].op \in Writers

\* The locks: CheckAndRecover holds dm.mu while it probes; a reader that is
\* about to log that it found nothing holds r.cacheMu.
Unlocked == turn = "wait"
CacheUnlocked == \A c \in Callers : calls[c].pc # "log"

Init ==
    /\ mode = "normal" /\ turn = "wait"
    /\ checked = [s \in Services |-> Latest(s)]
    /\ up = Services /\ outages = MaxOutages
    /\ reported = {} /\ failed = [s \in Services |-> 0]
    /\ row \in {None, 0} /\ local = None /\ writes = 0
    /\ calls = [c \in Callers |-> Idle]

----------------------------------------------------------------------------
\* Services stop and start.
Stop(s) ==
    /\ s \in up /\ outages > 0
    /\ up' = up \ {s} /\ outages' = outages - 1
    /\ UNCHANGED <<manager, data, failed, reported, calls>>

Start(s) ==
    /\ up' = up \cup {s} /\ up' # up
    /\ UNCHANGED <<manager, data, failed, reported, calls, outages>>

Bad(s) ==
    /\ mode' = Down(s, mode)
    /\ failed' = [failed EXCEPT ![s] = 0]
    /\ reported' = reported \cup {s}

Good(s) ==
    /\ mode' = Up(s, mode)
    /\ failed' = [failed EXCEPT ![s] = 0]
    /\ reported' = reported \ {s}

\* The ticker fires and CheckAndRecover takes the lock...
CheckAndRecover ==
    /\ turn = "wait" /\ turn' = "database"
    /\ checked' = [s \in Services |->
         IF checked[s] < Latest(s) THEN checked[s] + 1 ELSE Latest(s)]
    /\ failed' = [s \in Services |->
         IF s \in reported /\ failed[s] <= Latest(s) THEN failed[s] + 1 ELSE failed[s]]
    /\ UNCHANGED <<mode, world, data, reported, calls>>

\* Mutants of Probe: both services share the time of the last probe; only a
\* service that is known to be down is probed, and a critical mode is taken
\* for another one.
ProbeShared(s, next) ==
    /\ turn = s /\ turn' = next
    /\ \/ /\ checked[s] * Period >= Interval[s]
          /\ checked' = [t \in Services |-> 0]
          /\ IF s \in up THEN Good(s) ELSE Bad(s)
       \/ /\ checked[s] * Period <= Interval[s]
          /\ UNCHANGED <<mode, checked, failed, reported>>
    /\ UNCHANGED <<world, data, calls>>
ProbeKnown(s, next) ==
    /\ turn = s /\ turn' = next
    /\ IF mode = (IF s = "redis" THEN "redis_down" ELSE "database_down") /\ s \in up
       THEN Good(s)
       ELSE UNCHANGED <<mode, failed, reported>>
    /\ UNCHANGED <<checked, world, data, calls>>

\* ... and probes each service whose last probe is long enough ago.  One as
\* long ago as the interval may come out short: the ticker is not exact.
Probe(s, next) ==
    /\ turn = s /\ turn' = next
    /\ \/ /\ checked[s] * Period >= Interval[s]
          /\ checked' = [checked EXCEPT ![s] = 0]
          /\ IF s \in up THEN Good(s) ELSE Bad(s)
       \/ /\ checked[s] * Period <= Interval[s]
          /\ UNCHANGED <<mode, checked, failed, reported>>
    /\ UNCHANGED <<world, data, calls>>

ProbeDatabase == Probe("database", "redis")
ProbeRedis == Probe("redis", "wait")

----------------------------------------------------------------------------
\* A call of one of the wrappers: of the monitor repository, "check" for those
\* of the health check repository, "cache" and "queue" for those of the Redis
\* client.
\* "shared" is for the properties: a write is going on at the same time.
Begin(c, op) ==
    /\ ~Busy(c)
    /\ op = "create" => writes = 0
    /\ writes' = (IF op \in Writers THEN writes + 1 ELSE writes) /\ writes' <= MaxWrites
    /\ calls' = [d \in Callers |->
         IF d = c
         THEN [Idle EXCEPT !.pc = "ask", !.op = op,
                           !.copy = IF op \in {"create", "update"} THEN writes' ELSE None,
                           !.shared = \E o \in Callers \ {c} : Writing(o)]
         ELSE IF Busy(d) /\ op \in Writers THEN [calls[d] EXCEPT !.shared = TRUE]
              ELSE calls[d]]
    /\ UNCHANGED <<manager, world, row, local, failed, reported>>

\* The call goes on at pc, or it ends and is forgotten.
At(call, pc) == IF pc = "idle" THEN Idle ELSE [call EXCEPT !.pc = pc]
Go(c, pc) == calls' = [calls EXCEPT ![c] = At(@, pc)]
Fallback(op) == IF op \in Readers THEN "fallback" ELSE "idle"

\* Is the service available?  If not, reads of monitors fall back on the copy,
\* writes of monitors and of the queue are refused, health checks, caching and
\* invalidation are skipped without an error.
Ask(c) ==
    LET op == calls[c].op
        available == IF Service(op) = "redis" THEN IsRedisAvailable ELSE IsDatabaseAvailable
    IN  /\ calls[c].pc = "ask" /\ Unlocked
        /\ Go(c, IF available THEN "do" ELSE Fallback(op))
        /\ UNCHANGED <<manager, world, data, failed, reported>>

\* The monitor is not there: the error of the PostgreSQL repository is not
\* ErrMonitorNotFound, and counts as any other.
Missing(op) == op \in {"get", "update", "delete"} /\ row = None

Read(c) ==
    /\ calls[c].pc = "do" /\ calls[c].op \in Readers
    /\ "database" \in up /\ ~Missing(calls[c].op)
    /\ calls' = [calls EXCEPT ![c] = At([@ EXCEPT !.copy = row], "fill")]
    /\ UNCHANGED <<manager, world, data, failed, reported>>

\* What the others do to the services is left out.
Done(c, op) ==
    /\ calls[c].pc = "do" /\ calls[c].op = op /\ Service(op) \in up
    /\ Go(c, "idle")
    /\ UNCHANGED <<manager, world, data, failed, reported>>
UseChecks(c) == Done(c, "check")
UseCache(c) == Done(c, "cache")
UseQueue(c) == Done(c, "queue")

FailTo(c) ==
    LET op == calls[c].op
    IN  /\ calls[c].pc = "do"
        /\ Service(op) \notin up \/ Missing(op)
        /\ Go(c, "mark")
        /\ UNCHANGED <<manager, world, data, failed, reported>>

\* The write is made; its reply is lost if the service stops meanwhile.
Unwanted(copy) == IF copy = None THEN None ELSE [copy EXCEPT !.excused = TRUE]
Write(c) ==
    LET op == calls[c].op
    IN  /\ calls[c].pc = "do" /\ op \in Writers
        /\ "database" \in up /\ ~Missing(op)
        /\ row' = calls[c].copy
        /\ \/ Go(c, "fill") /\ UNCHANGED <<local, world>>
           \/ /\ outages > 0 /\ outages' = outages - 1
              /\ up' = up \ {"database"}
              /\ local' = Unwanted(local)
              /\ Go(c, "mark")
        /\ UNCHANGED <<manager, writes, failed, reported>>

\* Another instance writes the row.
WriteElsewhere ==
    /\ "database" \in up /\ row # None /\ writes < MaxWrites
    /\ writes' = writes + 1
    /\ row' \in {None, writes'}
    /\ local' = Unwanted(local)
    /\ calls' = [c \in Callers |->
         IF Busy(c) THEN [calls[c] EXCEPT !.shared = TRUE] ELSE calls[c]]
    /\ UNCHANGED <<manager, world, failed, reported>>

\* SetDatabaseDown, SetRedisDown: the error is reported, some time after.
Mark(c) ==
    /\ calls[c].pc = "mark" /\ Unlocked
    /\ Bad(Service(calls[c].op))
    /\ Go(c, Fallback(calls[c].op))
    /\ UNCHANGED <<turn, checked, world, data>>

\* Mutant of Fill: Delete leaves the copy.
FillOnly(c) ==
    /\ calls[c].pc = "fill" /\ CacheUnlocked
    /\ local' = IF calls[c].copy = None THEN local
                ELSE [v |-> calls[c].copy, excused |-> calls[c].shared]
    /\ Go(c, "idle")
    /\ UNCHANGED <<manager, world, row, writes, failed, reported>>

\* cacheMonitor, or the end of Delete.  A list without the monitor leaves the
\* copy as it is.
Fill(c) ==
    /\ calls[c].pc = "fill" /\ CacheUnlocked
    /\ local' = CASE calls[c].copy # None ->
                        [v |-> calls[c].copy, excused |-> calls[c].shared]
                  [] calls[c].op = "delete" -> None
                  [] OTHER -> local
    /\ Go(c, "idle")
    /\ UNCHANGED <<manager, world, row, writes, failed, reported>>

\* The copy, under r.cacheMu; the mode is logged when a monitor is not found
\* and when some are listed.
ReadLocal(c) ==
    /\ calls[c].pc = "fallback"
    /\ Go(c, IF (calls[c].op = "get") = (local = None) THEN "log" ELSE "idle")
    /\ UNCHANGED <<manager, world, data, failed, reported>>

\* Mutant of LogMode: under the lock of the copies, the manager is told too.
LogModeLocked(c) ==
    /\ calls[c].pc = "log" /\ Unlocked /\ CacheUnlocked
    /\ Go(c, "idle")
    /\ UNCHANGED <<manager, world, data, failed, reported>>

LogMode(c) ==
    /\ calls[c].pc = "log" /\ Unlocked
    /\ Go(c, "idle")
    /\ UNCHANGED <<manager, world, data, failed, reported>>

Manage == CheckAndRecover \/ ProbeDatabase \/ ProbeRedis
Step(c) == \/ Ask(c) \/ Read(c) \/ UseChecks(c) \/ UseCache(c) \/ UseQueue(c)
           \/ Write(c) \/ FailTo(c) \/ Mark(c) \/ Fill(c) \/ ReadLocal(c) \/ LogMode(c)
Outside == WriteElsewhere \/ \E s \in Services : Stop(s) \/ Start(s)
Next ==
    \/ Manage \/ Outside
    \/ \E c \in Callers :
         Step(c) \/ \E op \in Ops : Begin(c, op)
Spec == Init /\ [][Next]_vars

\* A probe gets the context of the loop, and a call that of its caller.  Neither
\* has a deadline here, so nothing says when one that is not answered ends.
Mute(s) == s \in Silent \ up
ProbeHangs == Mute(turn) /\ checked[turn] * Period >= Interval[turn]
CallHangs(c) == calls[c].pc = "do" /\ Mute(Service(calls[c].op))

\* Otherwise the ticker fires, the loop of Start runs, and so does every caller.
\* A lock that is taken again and again is still given to those who wait (Go's
\* RWMutex does not starve them), hence the strong fairness.
Fairness ==
    /\ WF_vars(Manage /\ ~ProbeHangs)
    /\ \A c \in Callers : SF_vars(Step(c) /\ ~CallHangs(c))
FairSpec == Spec /\ Fairness

----------------------------------------------------------------------------
Calls == [pc : {"idle", "ask", "do", "mark", "fill", "fallback", "log"},
          op : Ops,
          copy : 0 .. MaxWrites \cup {None}, shared : BOOLEAN]

\* Modes, ages and calls are what they are said to be.
TypeOK ==
    /\ mode \in Modes /\ turn \in {"wait"} \cup Services
    /\ up \subseteq Services /\ reported \subseteq Services
    /\ \A s \in Services : checked[s] \in 0 .. Latest(s) /\ failed[s] \in 0 .. Latest(s) + 1
    /\ row \in 0 .. MaxWrites \cup {None}
    /\ local \in [v : 0 .. MaxWrites, excused : BOOLEAN] \cup {None}
    /\ calls \in [Callers -> Calls]
    /\ writes \in 0 .. MaxWrites /\ outages \in 0 .. MaxOutages

\* The four modes are two independent facts: whether the last thing heard of
\* PostgreSQL was bad, and the same of Redis.  Reports of both come in any
\* order from callers and probes, and none is lost in another mode.
ModeIsReports ==
    /\ mode \in {"database_down", "critical"} <=> "database" \in reported
    /\ mode \in {"redis_down", "critical"} <=> "redis" \in reported

\* A late report of an old error can put down a service that works; but no
\* service counts as down for longer than an interval and a period of the
\* manager's rounds after the last failure of a call or of a probe.  (A probe
\* that hangs makes its round as long as it likes.)
DownIsShort == \A s \in reported : failed[s] <= Latest(s)

\* A copy in the process, which never expires, is wrong only if its reader ran
\* into a write, if the reply to a write was lost or another instance wrote,
\* or if the write has yet to reach the copies.
CopyNeedsARace ==
    local # None /\ local.v # row =>
        \/ local.excused
        \/ \E c \in Callers : calls[c].pc = "fill" /\ calls[c].op \in Writers

\* Once both services work for good, the mode is normal again and again (a
\* look for a monitor that does not exist puts the database down anew).
Recovers == <>[](up = Services) => []<>(mode = "normal")

\* Every call ends, though the manager holds its lock while it probes and
\* readers of the copy wait for that lock with another in their hands, unless
\* its own service never answers, or a probe of either service never ends:
\* that one stops the calls of both.
CallsReturn ==
    \A c \in Callers : []<>~Busy(c) \/ <>[]CallHangs(c) \/ <>[]ProbeHangs

\* The mode is what was last heard of each service, and not long ago.
ModesAreSound == TypeOK /\ ModeIsReports /\ DownIsShort
=============================================================================
