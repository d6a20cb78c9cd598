----------------------------- MODULE Retention -----------------------------
(***************************************************************************)
(* What becomes of old records: the hourly aggregation                     *)
(* (src/usecase/healthcheck_aggregation_service.go) and the clean-up       *)
(* (src/usecase/data_retention_service.go), each a service with a loop     *)
(* that its Start makes and its Stop ends, over the tables of              *)
(* src/infrastructure/postgres.                                            *)
(*                                                                         *)
(* There is one monitor; a check is the time of its row, and an aggregate  *)
(* the set of checks it has counted.  The clean-up has two constructors,   *)
(* and the program uses either: only one of them gives it the table of the *)
(* aggregates.  Time is absolute, as hours are, in a unit no run takes.    *)
(* Loops bounds the goroutines at a time; MaxTime, MaxChecks and MaxErrors *)
(* bound the rest.                                                         *)
(***************************************************************************)
EXTENDS Integers, FiniteSets

CONSTANTS
    Loops,
    Hour, Day, Threshold, Period,   \* Period: retentionPeriod
    MaxTime, MaxChecks, MaxErrors, None

ASSUME RetentionAssumption ==
    /\ {Hour, Day, Threshold, Period} \subseteq Nat \ {0}
    /\ Day % Hour = 0 /\ Threshold + Hour <= Period   \* 7 days and an hour, 90 days
    /\ {MaxTime, MaxChecks, MaxErrors} \subseteq Nat
    /\ None \notin {"aggregation", "cleanup"}

VARIABLES
    now,
    checks, alerts,   \* the times of their rows
    aggregates,       \* per hour: the checks its aggregate counts, {} if there is none
    withAggregates,   \* NewDataRetentionServiceWithAggregation made the clean-up
    services,         \* both service objects
    loops,            \* their goroutines
    cancelled,        \* the context of the process
    made,             \* the times of the checks of the last 90 days
    errors            \* failures left

tables == <<checks, alerts, aggregates, withAggregates>>
world == <<made, errors>>
vars == <<now, tables, services, loops, cancelled, world>>

Services == {"aggregation", "cleanup"}
Times == 0 .. MaxTime
Hours == {h \in Times : h % Hour = 0}
HourOf(t) == t - (t % Hour)
Age(s) == IF s = "aggregation" THEN Threshold ELSE Period

Stopped == [running |-> FALSE, closed |-> FALSE, due |-> 0, ticked |-> FALSE]
Ended == [of |-> None, pc |-> "ended", cutoff |-> None, found |-> {},
          ok |-> FALSE]
Alive(s) == {l \in Loops : loops[l].of = s}

\* A statement fails, or its context is cancelled.
Fail == \/ errors > 0 /\ errors' = errors - 1 /\ UNCHANGED made
        \/ cancelled /\ UNCHANGED world

Init ==
    /\ now = 0
    /\ checks = {} /\ alerts = {} /\ aggregates = [h \in Hours |-> {}]
    /\ withAggregates \in BOOLEAN
    /\ services = [s \in Services |-> Stopped]
    /\ loops = [l \in Loops |-> Ended]
    /\ cancelled = FALSE
    /\ made = {} /\ errors = MaxErrors

----------------------------------------------------------------------------
\* The loop of s that has a run before it; every run has its own cutoff.
Cutoff(s) == now - Age(s)
Run(s) == [Ended EXCEPT !.of = s, !.pc = "begin", !.cutoff = Cutoff(s)]

\* aggregationInterval and cleanupInterval.
IntervalLonger == 2 * Day
Interval == Day

\* StartAggregationScheduler, StartCleanupScheduler: a new ticker and a loop.
\* stopCh is made once, with the service.
MayStartAlways(s) == TRUE
MayStart(s) == ~services[s].running
Start(s) ==
    /\ MayStart(s) /\ ~cancelled
    /\ \E l \in Loops :
         /\ loops[l] = Ended
         /\ loops' = [loops EXCEPT ![l] = Run(s)]
    /\ services' = [services EXCEPT ![s] = [@ EXCEPT !.running = TRUE, !.due = Interval,
                                                     !.ticked = FALSE]]
    /\ UNCHANGED <<now, tables, cancelled, world>>

\* StopAggregationScheduler, StopCleanupScheduler.  Loops see the closed
\* channel when they wait.
Stop(s) ==
    /\ services[s].running /\ ~services[s].closed
    /\ services' = [services EXCEPT ![s] = [Stopped EXCEPT !.closed = TRUE]]
    /\ UNCHANGED <<now, tables, loops, cancelled, world>>

\* The process ends, at any moment: after its context, by a crash, or because
\* Stop closes the channel of a service that was stopped before.  It starts
\* from nothing.
Restart ==
    /\ services' = [s \in Services |-> Stopped]
    /\ loops' = [l \in Loops |-> Ended]
    /\ cancelled' = FALSE
    /\ UNCHANGED <<now, tables, world>>

\* The context of the process is cancelled: the process is about to end.
Cancel ==
    /\ ~cancelled /\ cancelled' = TRUE
    /\ UNCHANGED <<now, tables, services, loops, world>>

\* The select of aggregationLoop and cleanupLoop: any case that is ready.
Told(l) == loops[l].pc = "wait" /\ (cancelled \/ services[loops[l].of].closed)
Due(l) == loops[l].pc = "wait" /\ services[loops[l].of].ticked

Leave(l) ==
    /\ Told(l)
    /\ loops' = [loops EXCEPT ![l] = Ended]
    /\ UNCHANGED <<now, tables, services, cancelled, world>>

Again(l) ==
    /\ Due(l)
    /\ services' = [services EXCEPT ![loops[l].of].ticked = FALSE]
    /\ loops' = [loops EXCEPT ![l] = Run(loops[l].of)]
    /\ UNCHANGED <<now, tables, cancelled, world>>

Go(l, pc) == loops' = [loops EXCEPT ![l].pc = pc]
\* The run ends; an error is logged, and the loop waits for the next one.
EndRun(l, ok) ==
    loops' = [loops EXCEPT ![l] = [Ended EXCEPT !.of = loops[l].of, !.pc = "wait",
                                                !.ok = ok]]

----------------------------------------------------------------------------
\* RunAggregation lists the monitors.
List(l) ==
    /\ loops[l].pc = "begin" /\ loops[l].of = "aggregation"
    /\ \/ Go(l, "read") /\ UNCHANGED world
       \/ Fail /\ EndRun(l, FALSE)
    /\ UNCHANGED <<now, tables, services, cancelled>>

\* aggregateMonitorData: the hours from that of the cutoff that begin before
\* the cutoff.  There is one, or none when the cutoff is a full hour.
AggregatedHours(cutoff) == {h \in Hours : HourOf(cutoff) <= h /\ h < cutoff}

\* GetByDateRange has both bounds in the range, and wants a start.
RangeAcceptedAlways(start, end) == TRUE
RangeAccepted(start, end) == start # None
InRange(start, end) ==
    {t \in checks : (start = None \/ t >= start) /\ t <= end}

\* AggregateHour reads the checks of the hour; with none it has nothing to do.
Read(l) ==
    LET hours == AggregatedHours(loops[l].cutoff)
        found == UNION {InRange(h, h + Hour) : h \in hours}
    IN
    /\ loops[l].pc = "read"
    /\ \/ /\ loops' = [loops EXCEPT ![l].found = found,
                         ![l].pc = IF found = {} THEN "delete" ELSE "upsert"]
          /\ UNCHANGED world
       \/ hours # {} /\ Fail /\ EndRun(l, FALSE)
    /\ UNCHANGED <<now, tables, services, cancelled>>

\* AggregatedHealthCheckRepository.Create replaces the aggregate of the hour;
\* the reply may be lost.  An error leaves the originals alone.
Upsert(l) ==
    /\ loops[l].pc = "upsert"
    /\ \/ /\ aggregates' = [aggregates EXCEPT ![HourOf(loops[l].cutoff)] = loops[l].found]
          /\ \/ Go(l, "delete") /\ UNCHANGED world
             \/ Fail /\ EndRun(l, FALSE)
       \/ Fail /\ EndRun(l, FALSE) /\ UNCHANGED aggregates
    /\ UNCHANGED <<now, checks, alerts, withAggregates, services, cancelled>>

\* deleteAggregatedHealthChecks asks for the checks since the zero time, and
\* deletes only when it gets any.  Its errors are logged.
DeleteOriginals(l) ==
    LET cutoff == loops[l].cutoff
        some == RangeAccepted(None, cutoff) /\ InRange(None, cutoff) # {}
    IN
    /\ loops[l].pc = "delete"
    /\ \/ checks' = (IF some THEN {t \in checks : t >= cutoff} ELSE checks)
          /\ UNCHANGED world
       \/ Fail /\ UNCHANGED checks
    /\ EndRun(l, TRUE)
    /\ UNCHANGED <<now, alerts, aggregates, withAggregates, services, cancelled>>

----------------------------------------------------------------------------
\* RunCleanup: health checks, aggregates if it was given their repository,
\* and alerts, in this order, until one DELETE fails.
NextTable == [begin |-> IF withAggregates THEN "aggregates" ELSE "alerts",
              aggregates |-> "alerts", alerts |-> "wait"]

\* DeleteOlderThan on a table.
KeptBefore(times, cutoff) == {t \in times : t >= cutoff}

Clean(l) ==
    LET cutoff == loops[l].cutoff
        table == IF loops[l].pc = "begin" THEN "checks" ELSE loops[l].pc
    IN
    /\ loops[l].of = "cleanup" /\ loops[l].pc \in DOMAIN NextTable
    /\ \/ /\ checks' = IF table = "checks" THEN KeptBefore(checks, cutoff) ELSE checks
          /\ alerts' = IF table = "alerts" THEN KeptBefore(alerts, cutoff) ELSE alerts
          /\ aggregates' = IF table = "aggregates"
               THEN [h \in Hours |-> IF h \in KeptBefore(Hours, cutoff)
                                     THEN aggregates[h] ELSE {}]
               ELSE aggregates
          /\ IF table = "alerts" THEN EndRun(l, TRUE) ELSE Go(l, NextTable[loops[l].pc])
          /\ UNCHANGED world
       \/ Fail /\ EndRun(l, FALSE) /\ UNCHANGED <<checks, alerts, aggregates>>
    /\ UNCHANGED <<now, withAggregates, services, cancelled>>

----------------------------------------------------------------------------
\* The rest of the program stores a failed check and its alert.
Check ==
    /\ ~cancelled /\ now \notin made
    /\ Cardinality(made \cup checks \cup alerts) < MaxChecks
    /\ made' = made \cup {now} /\ checks' = checks \cup {now} /\ alerts' = alerts \cup {now}
    /\ UNCHANGED <<now, aggregates, withAggregates, services, loops, cancelled, errors>>

\* Tickers count the days; their channels hold one tick.
Tick ==
    /\ now < MaxTime /\ ~cancelled
    /\ \A l \in Loops : loops[l].pc \in {"wait", "ended"} /\ ~Told(l) /\ ~Due(l)
    /\ now' = now + 1
    /\ services' = [s \in Services |->
         IF ~services[s].running THEN services[s]
         ELSE IF services[s].due = 1
              THEN [services[s] EXCEPT !.due = Interval, !.ticked = TRUE]
              ELSE [services[s] EXCEPT !.due = @ - 1]]
    /\ made' = {t \in made : now' - t <= Period}
    /\ UNCHANGED <<tables, loops, cancelled, errors>>

Next ==
    \/ \E s \in Services : Start(s) \/ Stop(s)
    \/ \E l \in Loops : \/ Leave(l) \/ Again(l) \/ List(l) \/ Read(l) \/ Upsert(l)
                        \/ DeleteOriginals(l) \/ Clean(l)
    \/ Restart \/ Cancel \/ Check \/ Tick

Spec == Init /\ [][Next]_vars

----------------------------------------------------------------------------
\* The state has its type.
TypeOK ==
    /\ now \in Times
    /\ checks \subseteq Times /\ alerts \subseteq Times /\ made \subseteq Times
    /\ aggregates \in [Hours -> SUBSET Times] /\ withAggregates \in BOOLEAN
    /\ services \in [Services -> [running : BOOLEAN, closed : BOOLEAN,
                                  due : Nat, ticked : BOOLEAN]]
    /\ loops \in [Loops ->
         [of : Services \cup {None},
          pc : {"ended", "wait", "begin", "read", "upsert", "delete", "aggregates", "alerts"},
          cutoff : -Period .. MaxTime \cup {None}, found : SUBSET Times, ok : BOOLEAN]]
    /\ cancelled \in BOOLEAN /\ errors \in 0 .. MaxErrors

\* A check of the last 90 days is in its table or in an aggregate, and an
\* alert in its table, whatever the aggregation, the clean-up, overlapping
\* runs, failures and restarts did: "retain Health_Check history for at least
\* 90 days" (requirements.md:191).
NothingIsLost ==
    \A t \in made :
        t \in alerts /\ (t \in checks \/ \E h \in Hours : t \in aggregates[h])

\* The records that the clean-up has a repository for: the aggregates are
\* among them only when NewDataRetentionServiceWithAggregation made it.
Cleanable ==
    checks \cup alerts \cup {h \in Hours : withAggregates /\ aggregates[h] # {}}

\* While a clean-up loop waits after a run without error, no record that it
\* has a repository for is older than 90 days and the day between two runs:
\* the cutoff moves with the clock, through all ticks, restarts and
\* overlapping loops.
OldDataGoes ==
    \A l \in Alive("cleanup") :
        loops[l].pc = "wait" /\ loops[l].ok =>
            \A t \in Cleanable : now - t <= Period + Day

\* A service that was not told to end has one loop when it runs and none when
\* it does not.  After Stop its loop may be in a run still, and a Start then
\* makes another beside it, but never a third: loops of a service that is
\* stopped and started again do not pile up.
OneLoopEach ==
    \A s \in Services :
        LET loopsOf == Cardinality(Alive(s))
            wanted == IF services[s].running THEN 1 ELSE 0
        IN  /\ loopsOf <= wanted + (IF services[s].closed THEN 1 ELSE 0)
            /\ ~services[s].closed /\ ~cancelled => loopsOf = wanted

\* Data stay for as long as they should and no longer.
DataAreSound == TypeOK /\ NothingIsLost /\ OldDataGoes
=============================================================================
