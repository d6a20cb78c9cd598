---------------------------- MODULE MonitorStore ----------------------------
(***************************************************************************)
(* MonitorService (src/usecase/monitor_service.go) on top of               *)
(* CachedMonitorRepository and MonitorRepository                           *)
(* (src/infrastructure/postgres): a row in PostgreSQL and a copy of it in  *)
(* Redis that lives for five minutes.  Every call reads the monitor        *)
(* through the copy, and an update writes back the whole row it read.      *)
(*                                                                         *)
(* Rows and keys of different monitors do not meet, so there is one        *)
(* monitor.  A field of the row holds the number of the write that set it. *)
(* Times are ages, counted up to Horizon, and lifetimes left: there is no  *)
(* clock to bound.  CallTime bounds the time of one call, MaxWrites and    *)
(* MaxErrors bound the run.                                                *)
(***************************************************************************)
EXTENDS Integers, Sequences

CONSTANTS Callers, TTL, CallTime, MaxWrites, MaxErrors, None,
          Requests   \* the sets of fields that updates set

ASSUME StoreAssumption ==
    /\ {TTL, CallTime, MaxWrites, MaxErrors} \subseteq Nat
    /\ TTL > 0 /\ None \notin [config : Nat, enabled : Nat, on : BOOLEAN, v : Nat]
    /\ Requests \subseteq SUBSET {"config", "enabled"}

VARIABLES
    row,      \* the row of the monitor, or None
    key,      \* the copy in Redis, or None
    ages,     \* the ages of the writes so far
    planned,  \* a job was scheduled since the row was last enabled
    missed,   \* the last change of the row was made or scheduled in vain
    calls,    \* the call each caller is in
    errors    \* failures left

vars == <<row, key, ages, planned, missed, calls, errors>>

Horizon == TTL + 2 * CallTime   \* older writes are not told apart

Settable == {"config", "enabled"}   \* "config" stands for the URL, the interval...
Versions == 0 .. MaxWrites
Rows == [config : Versions, enabled : Versions,
         on : BOOLEAN, v : Versions]
Keys == [row : Rows, left : 1 .. TTL, excused : BOOLEAN]
Ops == {"create", "get", "update", "switch", "delete"}
Idle == [pc |-> "idle", op |-> "get", fields |-> {}, on |-> FALSE,
         copy |-> None, spent |-> 0, sure |-> FALSE, wants |-> FALSE,
         shared |-> FALSE, calm |-> FALSE]

Busy(c) == calls[c].pc # "idle"
Writing(c) == Busy(c) /\ calls[c].op # "get"
On(r) == r # None /\ r.on
Version == Len(ages)
\* How long ago r stopped being the row.
Age(r) == IF r.v = Version THEN 0 ELSE ages[r.v + 1]
Fail == errors > 0 /\ errors' = errors - 1
\* The call goes on at pc, or it ends and is forgotten.
At(call, pc) == IF pc = "idle" THEN Idle ELSE [call EXCEPT !.pc = pc]
Go(c, pc) == calls' = [calls EXCEPT ![c] = At(@, pc)]

Init ==
    /\ row = None /\ key = None /\ ages = <<>>
    /\ planned = FALSE /\ missed = FALSE
    /\ calls = [c \in Callers |-> Idle]
    /\ errors = MaxErrors

----------------------------------------------------------------------------
\* A call begins.  "shared" and "calm" are for the properties: a write is
\* going on at the same time; the last one is long past.
Enter(c, op, fields, on, pc) ==
    /\ ~Busy(c)
    /\ calls' = [d \in Callers |->
         IF d = c
         THEN [Idle EXCEPT !.pc = pc, !.op = op, !.fields = fields, !.on = on,
                 !.shared = \E o \in Callers \ {c} : Writing(o),
                 !.calm = op = "switch" /\ Version > 0 /\ ages[Version] >= TTL + CallTime]
         ELSE IF Busy(d) /\ op # "get"
              THEN [calls[d] EXCEPT !.shared = TRUE]
              ELSE calls[d]]
    /\ UNCHANGED <<row, key, ages, planned, missed, errors>>

\* The ID of a new monitor is new: it is created once.
CreateMonitor(c) ==
    /\ Version = 0 /\ \A d \in Callers : ~Writing(d)
    /\ \E on \in BOOLEAN : Enter(c, "create", Settable, on, "write")

GetMonitor(c) == Enter(c, "get", {}, FALSE, "lookup")

UpdateMonitor(c) ==
    \E fields \in Requests, on \in BOOLEAN :
        /\ on => "enabled" \in fields
        /\ Enter(c, "update", fields, on, "lookup")

DeleteMonitor(c) == Enter(c, "delete", {}, FALSE, "lookup")

\* EnableMonitor and DisableMonitor: a GetMonitor, then an UpdateMonitor.
SwitchMonitor(c) ==
    \E on \in BOOLEAN : Enter(c, "switch", {"enabled"}, on, "lookup")

----------------------------------------------------------------------------
\* What the call does with the monitor it has read.
Proceed(c, r) ==
    LET call == calls[c]
        next == CASE call.op = "get" -> "idle"
                  [] call.op = "switch" /\ ~call.sure ->
                       IF r.on = call.on THEN "idle" ELSE "lookup"
                  [] OTHER -> "write"
    IN  calls' = [calls EXCEPT ![c] =
                    At([call EXCEPT !.copy = IF next = "lookup" THEN None ELSE r,
                                    !.sure = (call.op = "switch")], next)]

\* GetJSON finds the copy, or nothing; an error counts as nothing.
Hit == key # None /\ UNCHANGED errors
Miss == \/ key = None /\ UNCHANGED errors
        \/ Fail

Lookup(c) ==
    /\ calls[c].pc = "lookup"
    /\ \/ Hit /\ Proceed(c, key.row)
       \/ Miss /\ Go(c, "load")
    /\ UNCHANGED <<row, key, ages, planned, missed>>

\* SELECT of the row.  (List does no more than that.)
Load(c) ==
    /\ calls[c].pc = "load"
    /\ \/ /\ row # None
          /\ calls' = [calls EXCEPT ![c] = At([@ EXCEPT !.copy = row], "fill")]
          /\ UNCHANGED errors
       \/ row = None /\ Go(c, "idle") /\ UNCHANGED errors
       \/ Fail /\ Go(c, "idle")
    /\ UNCHANGED <<row, key, ages, planned, missed>>

Last(call) == IF call.wants THEN "schedule" ELSE "idle"

\* SET and DEL, whose errors are dropped: an error may come with or without
\* effect.
SetJSON(copy) == \/ key' = copy /\ UNCHANGED errors
                 \/ Fail /\ key' \in {key, copy}
Unwanted == IF key = None THEN None ELSE [key EXCEPT !.excused = TRUE]
Del == \/ key' = None /\ UNCHANGED errors
       \/ Fail /\ key' = Unwanted

\* Mutant of CacheMonitor: the time to live is taken for another unit.
CacheMonitorLonger(call) ==
    [row |-> call.copy, left |-> 3 * TTL, excused |-> call.shared]

\* cacheMonitor, at the end of GetByID and of Create.
CacheMonitor(call) ==
    [row |-> call.copy, left |-> TTL, excused |-> call.shared]

Fill(c) ==
    /\ calls[c].pc = "fill"
    /\ SetJSON(CacheMonitor(calls[c]))
    /\ IF calls[c].op = "create"
       THEN calls' = [calls EXCEPT ![c] = At([@ EXCEPT !.copy = None], Last(@))]
       ELSE Proceed(c, calls[c].copy)
    /\ UNCHANGED <<row, ages, planned, missed>>

\* The validation of the monitor to be written fails.
Invalid(c) ==
    /\ calls[c].pc = "write" /\ calls[c].op \in {"create", "update"}
    /\ Go(c, "idle")
    /\ UNCHANGED <<row, key, ages, planned, missed, errors>>

\* Enabled, as it will be written.
Turned(call) == IF "enabled" \in call.fields THEN call.on ELSE call.copy.on

\* Mutants of Written: FALSE is taken for a field that was not given; fields
\* that were not given are written as zero.
WrittenUnlessFalse(call) ==
    LET v == Version + 1
        set(f) == IF call.op = "create" \/ f \in call.fields
                  THEN v ELSE call.copy[f]
    IN  [config |-> set("config"), enabled |-> set("enabled"), v |-> v,
         on |-> call.on \/ (call.op # "create" /\ call.copy.on)]
WrittenZero(call) ==
    LET v == Version + 1
        set(f) == IF call.op = "create" \/ f \in call.fields THEN v ELSE 0
    IN  [config |-> set("config"), enabled |-> set("enabled"), v |-> v,
         on |-> Turned(call)]

\* The row that INSERT and UPDATE write: all of it, from the copy read.
Written(call) ==
    LET v == Version + 1
        set(f) == IF call.op = "create" \/ f \in call.fields
                  THEN v ELSE call.copy[f]
    IN  [config |-> set("config"), enabled |-> set("enabled"), v |-> v,
         on |-> Turned(call)]

\* Mutant of WantsJob: the updates are made to the monitor that was read, which
\* is then compared with itself.
WantsJobAliased(call) ==
    /\ call.op # "delete" /\ Turned(call)
    /\ call.op = "create" \/ "config" \in call.fields

\* Whether CreateMonitor or UpdateMonitor will schedule a job: decided from the
\* copy the call read.
WantsJob(call) ==
    /\ call.op # "delete" /\ Turned(call)
    /\ call.op = "create" \/ ~call.copy.on \/ "config" \in call.fields

Commit(c, new, pc) ==
    /\ Version < MaxWrites
    /\ row' = new
    /\ ages' = Append(ages, 0)
    /\ planned' = (planned /\ On(row) /\ On(new))
    /\ missed' = /\ On(new) /\ ~planned'
                 /\ \/ missed \/ pc = "idle"
                    \/ calls[c].op # "create" /\ calls[c].copy # row
    /\ calls' = [calls EXCEPT ![c] =
          At([@ EXCEPT !.copy = IF pc = "fill" THEN new ELSE None,
                       !.fields = {}, !.wants = WantsJob(calls[c])], pc)]

\* INSERT, UPDATE or DELETE.  No row: an error.  A lost reply: the write is
\* made, and the call ends without invalidating the copy.
Write(c) ==
    LET call == calls[c]
        new == IF call.op = "delete" THEN None ELSE Written(call)
    IN  /\ call.pc = "write"
        /\ \/ /\ call.op = "create" \/ row # None
              /\ Commit(c, new, IF call.op = "create" THEN "fill" ELSE "invalidate")
              /\ UNCHANGED <<key, errors>>
           \/ /\ call.op # "create" /\ row = None
              /\ Go(c, "idle")
              /\ UNCHANGED <<row, key, ages, planned, missed, errors>>
           \/ /\ Fail /\ Go(c, "idle")
              /\ UNCHANGED <<row, key, ages, planned, missed>>
           \/ /\ call.op = "create" \/ row # None
              /\ Fail /\ Commit(c, new, "idle")
              /\ key' = Unwanted

\* Mutant of Invalidate: Delete leaves the copy to expire.
InvalidateUpdates(c) ==
    /\ calls[c].pc = "invalidate"
    /\ IF calls[c].op = "delete" THEN UNCHANGED <<key, errors>> ELSE Del
    /\ Go(c, Last(calls[c]))
    /\ UNCHANGED <<row, ages, planned, missed>>

\* invalidateCache, at the end of Update and Delete.
Invalidate(c) ==
    /\ calls[c].pc = "invalidate"
    /\ Del
    /\ Go(c, Last(calls[c]))
    /\ UNCHANGED <<row, ages, planned, missed>>

\* An error is dropped.  (Unscheduling does nothing: see JobPipeline.)
Schedule(c) ==
    /\ calls[c].pc = "schedule"
    /\ \/ planned' = On(row) /\ missed' = FALSE /\ UNCHANGED errors
       \/ Fail /\ missed' = (On(row) /\ ~planned) /\ UNCHANGED planned
    /\ Go(c, "idle")
    /\ UNCHANGED <<row, key, ages>>

\* Time passes; the copy expires.
Tick ==
    /\ Version > 0
    /\ \A c \in Callers : Busy(c) => calls[c].spent < CallTime
    /\ ages' = [v \in 1 .. Version |-> IF ages[v] < Horizon THEN ages[v] + 1 ELSE Horizon]
    /\ calls' = [c \in Callers |->
         IF Busy(c) THEN [calls[c] EXCEPT !.spent = @ + 1] ELSE calls[c]]
    /\ key' = IF key = None \/ key.left = 1 THEN None ELSE [key EXCEPT !.left = @ - 1]
    /\ UNCHANGED <<row, planned, missed, errors>>

Begin(c) == \/ CreateMonitor(c) \/ GetMonitor(c) \/ UpdateMonitor(c)
            \/ DeleteMonitor(c) \/ SwitchMonitor(c)
Step(c) == \/ Lookup(c) \/ Load(c) \/ Fill(c) \/ Invalid(c) \/ Write(c)
           \/ Invalidate(c) \/ Schedule(c)
Next == Tick \/ \E c \in Callers : Begin(c) \/ Step(c)
Spec == Init /\ [][Next]_vars

----------------------------------------------------------------------------
Calls == [pc : {"idle", "lookup", "load", "fill", "write",
                "invalidate", "schedule"},
          op : Ops, fields : SUBSET Settable, on : BOOLEAN,
          copy : Rows \cup {None}, spent : 0 .. CallTime,
          sure : BOOLEAN, wants : BOOLEAN, shared : BOOLEAN, calm : BOOLEAN]

\* Rows, copies and calls are what they are said to be; the row is the result
\* of the last write.
TypeOK ==
    /\ row \in Rows \cup {None} /\ key \in Keys \cup {None}
    /\ ages \in Seq(0 .. Horizon) /\ Version <= MaxWrites
    /\ planned \in BOOLEAN /\ missed \in BOOLEAN
    /\ calls \in [Callers -> Calls]
    /\ errors \in 0 .. MaxErrors
    /\ row # None => row.v = Version

\* Whatever races and fails, a monitor that GetByID finds in the cache was the
\* row less than five minutes and the time of one call ago (GetByID fills the
\* copy after its read, with no regard to writes in between).
FreshReads == key # None => Age(key.row) < TTL + CallTime

\* An old copy is there only because its reader ran into a write, or because
\* the reply to a write or the invalidation was lost: Update and Delete
\* invalidate on every path on which they know of the write.
StaleNeedsARace ==
    key # None /\ key.row # row =>
        key.excused \/ \E c \in Callers : calls[c].pc = "invalidate"

\* EnableMonitor and DisableMonitor trust a copy twice.  One that reports
\* success, that no other write ran into, and that began when the last write
\* was longer ago than a copy can live, has done what it says.
SwitchTakesEffect ==
    [][\A c \in Callers :
         /\ calls[c].pc \in {"lookup", "fill", "invalidate", "schedule"}
         /\ calls'[c].pc = "idle"   \* and not from "load" or "write": an error
         /\ calls[c].op = "switch" /\ calls[c].calm /\ ~calls[c].shared
         => row' # None /\ row'.on = calls[c].on]_vars

\* When no call is under way, an enabled monitor has been scheduled since it
\* was enabled, unless a reply or a scheduling failed or a write was decided
\* on an old copy: the decision compares the copy with the request.
EnabledIsPlanned ==
    On(row) /\ (\A c \in Callers : ~Busy(c)) => planned \/ missed

\* UpdateMonitor writes back the fields nobody asked it to change: it undoes
\* another write only with values that the row had less than a copy's life and
\* two calls ago.
UpdatesLoseOnlyRecent ==
    [][\A c \in Callers :
         calls'[c] # calls[c] /\ row' # row /\ row # None /\ row' # None =>
             \A f \in Settable : row'[f] < row[f] =>
                 /\ row'[f] = calls[c].copy[f]
                 /\ Age(calls[c].copy) < TTL + 2 * CallTime]_vars

\* What the cache answers: never older than a bound, and wrong only by a race.
CopiesAreSound == TypeOK /\ FreshReads /\ StaleNeedsARace

\* What a request reports as done: an update undoes no older one, and a
\* monitor that is switched is switched.
WritesTakeEffect == UpdatesLoseOnlyRecent /\ SwitchTakesEffect
=============================================================================
