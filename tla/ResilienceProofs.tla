-------------------------- MODULE ResilienceProofs --------------------------
(* Proofs about what keeps the system up when a service fails: the modes    *)
(* and the resilient wrappers of Degradation, for any number of callers,   *)
(* any intervals and any number of outages and of writes; and, at the end, *)
(* CircuitBreaker, for every number of callers and every threshold.        *)
EXTENDS Degradation, CircuitBreaker, TLAPS

-----------------------------------------------------------------------------
(* The types of the fields of the manager and of the calls.                *)
ManagerOK ==
    /\ mode \in Modes /\ turn \in {"wait"} \cup Services
    /\ checked \in [Services -> Nat] /\ failed \in [Services -> Nat]
    /\ \A s \in Services : checked[s] <= Latest(s) /\ failed[s] <= Latest(s) + 1
    /\ up \subseteq Services /\ reported \subseteq Services
    /\ outages \in 0 .. MaxOutages
Copies == [v : 0 .. MaxWrites, excused : BOOLEAN]
RowsOK ==
    /\ row \in 0 .. MaxWrites \cup {None}
    /\ local \in Copies \cup {None}
    /\ calls \in [Callers -> Calls]
    /\ writes \in 0 .. MaxWrites

(* The manager has looked at s since its ticker fired last.                *)
LookedAt(s) == turn = "wait" \/ (turn = "redis" /\ s = "database")
(* The last bad report is no older than the last probe, so that the probe   *)
(* that is due renews or withdraws it in time.                             *)
ReportsAge ==
    \A s \in reported :
        failed[s] <= checked[s] /\ (LookedAt(s) => failed[s] < Latest(s))

(* A call that is on its way together with a write knows of it, and what   *)
(* it is about to put into the copies is the row, or it knows of a write.  *)
WritesAreShared ==
    \A c, d \in Callers : c # d /\ Busy(c) /\ Writing(d) => calls[c].shared
FillIsRow ==
    \A c \in Callers : calls[c].pc = "fill" => calls[c].shared \/ calls[c].copy = row
WritersBring ==
    \A c \in Callers :
        /\ calls[c].op \in {"create", "update"} => calls[c].copy # None
        /\ calls[c].op = "delete" => calls[c].copy = None

ModesInv == ManagerOK /\ ModeIsReports /\ ReportsAge
CopiesInv == RowsOK /\ WritesAreShared /\ FillIsRow /\ WritersBring /\ CopyNeedsARace
DegradationInv == ModesInv /\ CopiesInv
(* Arithmetic of the intervals.                                            *)
LEMMA IntervalsOK ==
  /\ \A s \in Services : Interval[s] \in Nat \ {0} /\ Latest(s) \in Nat \ {0}
  /\ \A s \in Services, n \in Nat : n * Period <= Interval[s] => n < Latest(s)
<1>1. Period \in Nat \ {0} /\ DBInterval \in Nat \ {0} /\ RedisInterval \in Nat \ {0}
  BY DegradationAssumption
<1>2. \A s \in Services : Interval[s] \in Nat \ {0}
  BY <1>1 DEF Services, Interval
<1>3. ASSUME NEW a \in Nat \ {0}
      PROVE  a \div Period \in Nat /\ a = Period * (a \div Period) + (a % Period)
               /\ a % Period \in 0 .. (Period - 1)
  BY <1>1
<1>4. \A s \in Services : Latest(s) \in Nat \ {0}
  BY <1>2, <1>3 DEF Latest
<1>5. ASSUME NEW s \in Services, NEW n \in Nat, n * Period <= Interval[s]
      PROVE  n < Latest(s)
  <2>1. PICK q \in Nat : q = Interval[s] \div Period
    BY <1>2, <1>3
  <2>2. Interval[s] < Period * (q + 1)
    BY <1>1, <1>2, <1>3, <2>1
  <2>3. CASE n >= q + 1
    <3>1. n * Period >= Period * (q + 1)
      BY <1>1, <2>1, <2>3
    <3> QED BY <1>1, <1>2, <1>5, <2>1, <2>2, <3>1
  <2> QED BY <2>1, <2>3 DEF Latest
<1> QED BY <1>2, <1>4, <1>5

(* What an operation needs, and what a report makes of a mode, is defined. *)
LEMMA ServiceOf == \A op \in Ops : Service(op) \in Services
BY DEF Service, Services

LEMMA DownIsMode ==
  ASSUME NEW s \in Services, NEW m \in Modes
  PROVE  /\ Down(s, m) \in Modes
         /\ Up(s, m) \in Modes
BY DEF Down, Up, Services, Modes

-----------------------------------------------------------------------------
(* What happens to the manager: a report, good or bad, of a service; or    *)
(* its ticker fires; or it looks at a service and probes it or does not.   *)
LEMMA ReportKeepsModes ==
  ASSUME ManagerOK, ModeIsReports, NEW s \in Services, Bad(s) \/ Good(s)
  PROVE  /\ ModeIsReports'
         /\ mode' \in Modes /\ reported' \subseteq Services
         /\ failed' \in [Services -> Nat] /\ failed'[s] = 0
         /\ \A t \in Services \ {s} : failed'[t] = failed[t] /\ (t \in reported' <=> t \in reported)
<1>1. failed' = [failed EXCEPT ![s] = 0]
  BY DEF Bad, Good
<1>2. failed' \in [Services -> Nat] /\ failed'[s] = 0
         /\ \A t \in Services \ {s} : failed'[t] = failed[t]
  BY <1>1 DEF ManagerOK
<1>3. mode' \in Modes /\ reported' \subseteq Services
  BY DownIsMode DEF Bad, Good, ManagerOK
<1>4. ModeIsReports'
  BY DEF ModeIsReports, Bad, Good, ManagerOK, Down, Up, Modes, Services
<1>5. \A t \in Services \ {s} : t \in reported' <=> t \in reported
  BY DEF Bad, Good
<1> QED BY <1>2, <1>3, <1>4, <1>5

(* The ticker makes every report older by a period, and starts the probes  *)
(* that are due before a report has outlived them.                         *)
LEMMA TickKeepsModes ==
  ASSUME ModesInv, CheckAndRecover
  PROVE  ModesInv'
<1> USE DEF ModesInv, ManagerOK
<1>1. mode' = mode /\ reported' = reported /\ turn' = "database" /\ turn = "wait"
      /\ up' = up /\ outages' = outages
  BY DEF CheckAndRecover, world
<1>2. ASSUME NEW s \in Services
      PROVE  /\ checked'[s] \in Nat /\ failed'[s] \in Nat
             /\ checked'[s] <= Latest(s) /\ failed'[s] <= Latest(s) + 1
             /\ s \in reported => failed'[s] <= checked'[s]
  <2>1. PICK k \in Nat : k = checked[s]
    OBVIOUS
  <2>2. PICK f \in Nat : f = failed[s]
    OBVIOUS
  <2>3. PICK n \in Nat : n = Latest(s)
    BY IntervalsOK
  <2>4. k <= n /\ f <= n + 1 /\ (s \in reported => f <= k /\ f < n)
    BY <1>1, <2>1, <2>2, <2>3 DEF ReportsAge, LookedAt
  <2>5. checked'[s] = (IF k < n THEN k + 1 ELSE n)
    BY <2>1, <2>3 DEF CheckAndRecover
  <2>6. failed'[s] = (IF s \in reported /\ f <= n THEN f + 1 ELSE f)
    BY <2>2, <2>3 DEF CheckAndRecover
  <2> QED BY <2>3, <2>4, <2>5, <2>6
<1>3. checked' \in [Services -> Nat] /\ failed' \in [Services -> Nat]
  <2>1. checked' = [s \in Services |-> checked'[s]] /\ failed' = [s \in Services |-> failed'[s]]
    BY DEF CheckAndRecover
  <2> QED BY <1>2, <2>1
<1>4. ManagerOK'
  BY <1>1, <1>2, <1>3 DEF Services, Latest
<1>5. ModeIsReports'
  BY <1>1 DEF ModeIsReports
<1>6. ReportsAge'
  BY <1>1, <1>2 DEF ReportsAge, LookedAt, ManagerOK, Latest
<1> QED BY <1>4, <1>5, <1>6

(* A probe renews the report of its service or withdraws it.               *)
LEMMA ProbeKeepsModes ==
  ASSUME ModesInv, NEW s \in Services, NEW next,
         Probe(s, next), <<s, next>> \in {<<"database", "redis">>, <<"redis", "wait">>}
  PROVE  ModesInv'
<1> USE DEF ModesInv, ManagerOK
<1>1. turn = s /\ turn' = next /\ up' = up /\ outages' = outages
  BY DEF Probe, world
<1>2. turn' \in {"wait"} \cup Services
  BY <1>1 DEF Services
<1>3. \A t \in Services : LookedAt(t)' => t = s \/ LookedAt(t)
  BY <1>1 DEF LookedAt, Services
<1>4. CASE checked' = [checked EXCEPT ![s] = 0] /\ (Bad(s) \/ Good(s))
  <2>1. /\ ModeIsReports'
        /\ mode' \in Modes /\ reported' \subseteq Services
        /\ failed' \in [Services -> Nat] /\ failed'[s] = 0
        /\ \A t \in Services \ {s} :
              failed'[t] = failed[t] /\ (t \in reported' <=> t \in reported)
    BY <1>4, ReportKeepsModes
  <2>2. /\ checked' \in [Services -> Nat] /\ checked'[s] = 0
        /\ \A t \in Services \ {s} : checked'[t] = checked[t]
    BY <1>4
  <2>3. \A t \in Services : checked'[t] <= Latest(t) /\ failed'[t] <= Latest(t) + 1
    BY <2>1, <2>2, IntervalsOK
  <2>4. ManagerOK'
    BY <1>1, <1>2, <2>1, <2>2, <2>3 DEF Latest
  <2>5. ReportsAge'
    BY <1>3, <2>1, <2>2, IntervalsOK DEF ReportsAge, Latest
  <2> QED BY <2>1, <2>4, <2>5
<1>5. CASE /\ checked[s] * Period <= Interval[s]
           /\ UNCHANGED <<mode, checked, failed, reported>>
  <2>1. checked[s] < Latest(s)
    BY <1>5, IntervalsOK
  <2>2. s \in reported => failed[s] < Latest(s)
    <3>1. s \in reported => failed[s] <= checked[s]
      BY DEF ReportsAge
    <3>2. failed[s] \in Nat /\ checked[s] \in Nat /\ Latest(s) \in Nat
      BY IntervalsOK
    <3> QED BY <2>1, <3>1, <3>2
  <2>3. ReportsAge'
    BY <1>3, <1>5, <2>2 DEF ReportsAge, Latest
  <2>4. ManagerOK'
    BY <1>1, <1>2, <1>5 DEF Latest
  <2> QED BY <1>5, <2>3, <2>4 DEF ModeIsReports
<1> QED BY <1>4, <1>5 DEF Probe

(* A caller whose operation failed reports its service.                    *)
LEMMA MarkKeepsModes ==
  ASSUME ModesInv, RowsOK, NEW c \in Callers, Mark(c)
  PROVE  ModesInv'
<1> USE DEF ModesInv, ManagerOK
<1>1. PICK s \in Services : Bad(s)
  BY ServiceOf DEF Mark, RowsOK, Calls
<1>2. turn' = turn /\ checked' = checked /\ up' = up /\ outages' = outages
  BY DEF Mark, world
<1>3. /\ ModeIsReports'
      /\ mode' \in Modes /\ reported' \subseteq Services
      /\ failed' \in [Services -> Nat] /\ failed'[s] = 0
      /\ \A t \in Services \ {s} :
            failed'[t] = failed[t] /\ (t \in reported' <=> t \in reported)
  BY <1>1, ReportKeepsModes
<1>4. \A t \in Services : failed'[t] <= Latest(t) + 1
  BY <1>3, IntervalsOK
<1>5. ManagerOK'
  BY <1>2, <1>3, <1>4 DEF Latest
<1>6. ReportsAge'
  BY <1>2, <1>3, IntervalsOK DEF ReportsAge, Latest, LookedAt
<1> QED BY <1>3, <1>5, <1>6
Calling(c) ==
    \/ Ask(c) \/ Read(c) \/ UseChecks(c) \/ UseCache(c) \/ UseQueue(c)
    \/ Write(c) \/ FailTo(c) \/ Fill(c) \/ ReadLocal(c) \/ LogMode(c)
    \/ \E op \in Ops : Begin(c, op)

(* The steps of the manager and of its environment.                        *)
LEMMA ModesStep ==
  ASSUME ModesInv, RowsOK, [Next]_vars
  PROVE  ModesInv'
<1>1. CASE Manage
  BY <1>1, TickKeepsModes, ProbeKeepsModes DEF Manage, ProbeDatabase, ProbeRedis, Services
<1>2. ASSUME NEW c \in Callers, Mark(c) PROVE ModesInv'
  BY <1>2, MarkKeepsModes
<1>3. CASE /\ UNCHANGED <<manager, failed, reported>>
           /\ up' \subseteq Services /\ outages' \in 0 .. MaxOutages
  <2>1. ManagerOK'
    BY <1>3 DEF ModesInv, ManagerOK, manager, Latest
  <2> QED BY <1>3, <2>1 DEF ModesInv, manager, ModeIsReports, ReportsAge, LookedAt, Latest
<1>4. CASE Outside
  <2>1. UNCHANGED <<manager, failed, reported>>
    BY <1>4 DEF Outside, Stop, Start, WriteElsewhere
  <2>2. up' \subseteq Services /\ outages' \in 0 .. MaxOutages
    BY <1>4, DegradationAssumption
       DEF Outside, Stop, Start, WriteElsewhere, world, ModesInv, ManagerOK
  <2> QED BY <1>3, <2>1, <2>2
<1>5. ASSUME NEW c \in Callers, Calling(c) PROVE ModesInv'
  <2>1. UNCHANGED <<manager, failed, reported>>
    BY <1>5 DEF Calling, Ask, Read, UseChecks, UseCache, UseQueue, Done, Write, FailTo,
                Fill, ReadLocal, LogMode, Begin
  <2>2. up' \subseteq Services /\ outages' \in 0 .. MaxOutages
    <3>1. CASE Write(c)
      BY <3>1, DegradationAssumption DEF Write, world, ModesInv, ManagerOK
    <3>2. CASE ~Write(c)
      <4>1. UNCHANGED world
        BY <1>5, <3>2 DEF Calling, Ask, Read, UseChecks, UseCache, UseQueue, Done, FailTo,
                Fill, ReadLocal, LogMode, Begin
      <4> QED BY <4>1 DEF world, ModesInv, ManagerOK
    <3> QED BY <3>1, <3>2
  <2> QED BY <1>3, <2>1, <2>2
<1>6. CASE UNCHANGED vars
  BY <1>3, <1>6 DEF vars, world, ModesInv, ManagerOK
<1> QED BY <1>1, <1>2, <1>4, <1>5, <1>6 DEF Next, Step, Calling

-----------------------------------------------------------------------------
(* A call that moves on, and no other with it.                             *)
LEMMA AtOK ==
  ASSUME NEW call \in Calls,
         NEW place \in {"idle", "ask", "do", "mark", "fill", "fallback", "log"}
  PROVE  /\ At(call, place) \in Calls
         /\ At(call, place).pc = place
         /\ place # "idle" => /\ At(call, place).op = call.op
                              /\ At(call, place).copy = call.copy
                              /\ At(call, place).shared = call.shared
         /\ place = "idle" => At(call, place) = Idle
<1>1. Idle \in Calls /\ Idle.pc = "idle"
  BY DEF Idle, Calls, Ops, Readers, Writers
<1> QED BY <1>1 DEF At, Calls
(* A call that moves on without touching the row or the copies.            *)
LEMMA MoveKeepsCopies ==
  ASSUME CopiesInv, UNCHANGED data, NEW c \in Callers, NEW w \in Calls,
         calls' = [calls EXCEPT ![c] = w],
         \/ w = Idle
         \/ /\ Busy(c) /\ w.op = calls[c].op /\ w.shared = calls[c].shared
            /\ w.op \in Writers => w.copy = calls[c].copy
            /\ w.pc = "fill" => w.copy = row,
         calls[c].pc = "fill" => calls[c].op \notin Writers
  PROVE  CopiesInv'
<1> USE DEF CopiesInv
<1>1. row' = row /\ local' = local /\ writes' = writes
  BY DEF data
<1>2. /\ calls' \in [Callers -> Calls] /\ calls'[c] = w
      /\ \A d \in Callers \ {c} : calls'[d] = calls[d]
  BY DEF RowsOK
<1>3. RowsOK'
  BY <1>1, <1>2 DEF RowsOK
<1>4. /\ \A d \in Callers : Busy(d)' => Busy(d)
      /\ \A d \in Callers : Writing(d)' => Writing(d)
      /\ \A d \in Callers : Busy(d)' => calls'[d].shared = calls[d].shared
  BY <1>2 DEF Busy, Writing, Idle
<1>5. WritesAreShared'
  BY <1>4 DEF WritesAreShared
<1>6. FillIsRow'
  BY <1>1, <1>2 DEF FillIsRow, Idle
<1>7. WritersBring'
  BY <1>2 DEF WritersBring, Writers, Idle
<1>8. CopyNeedsARace'
  BY <1>1, <1>2 DEF CopyNeedsARace
<1> QED BY <1>3, <1>5, <1>6, <1>7, <1>8

LEMMA GoKeepsCopies ==
  ASSUME CopiesInv, UNCHANGED data, NEW c \in Callers,
         NEW place \in {"idle", "do", "mark", "fallback", "log"}, Go(c, place),
         Busy(c), calls[c].pc # "fill"
  PROVE  CopiesInv'
<1>1. calls[c] \in Calls
  BY DEF CopiesInv, RowsOK
<1>2. PICK w \in Calls : w = At(calls[c], place)
  BY <1>1, AtOK
<1>3. /\ w.pc = place
      /\ w = Idle \/ (w.op = calls[c].op /\ w.copy = calls[c].copy /\ w.shared = calls[c].shared)
  BY <1>1, <1>2, AtOK
<1>4. calls' = [calls EXCEPT ![c] = w]
  BY <1>2 DEF Go
<1> QED BY <1>3, <1>4, MoveKeepsCopies

(* A call begins; if it writes, all that are on their way hear of it.      *)
LEMMA BeginKeepsCopies ==
  ASSUME CopiesInv, NEW c \in Callers, NEW op \in Ops, Begin(c, op)
  PROVE  CopiesInv'
<1> USE DEF CopiesInv
<1>1. row' = row /\ local' = local
  BY DEF Begin
<1>2. writes' \in 0 .. MaxWrites
  <2>1. writes' = (IF op \in Writers THEN writes + 1 ELSE writes) /\ writes' <= MaxWrites
    BY DEF Begin
  <2> QED BY <2>1, DegradationAssumption DEF RowsOK
<1>3. PICK copy : copy = IF op \in {"create", "update"} THEN writes' ELSE None
  OBVIOUS
<1>4. copy \in 0 .. MaxWrites \cup {None}
  BY <1>2, <1>3
<1>5. PICK share \in BOOLEAN : share <=> \E o \in Callers \ {c} : Writing(o)
  <2>1. (\E o \in Callers \ {c} : Writing(o)) \in BOOLEAN
    OBVIOUS
  <2> QED BY <2>1
<1>6. calls'[c].pc = "ask" /\ calls'[c].op = op /\ calls'[c].copy = copy
      /\ (calls'[c].shared <=> share) /\ calls'[c] \in Calls
  <2>1. calls'[c] = [Idle EXCEPT !.pc = "ask", !.op = op, !.copy = copy,
                                 !.shared = \E o \in Callers \ {c} : Writing(o)]
    BY <1>3 DEF Begin
  <2>2. PICK e \in BOOLEAN : e = \E o \in Callers \ {c} : Writing(o)
    OBVIOUS
  <2>3. calls'[c] = [pc |-> "ask", op |-> op, copy |-> copy, shared |-> e]
    BY <2>1, <2>2 DEF Idle
  <2>4. [pc |-> "ask", op |-> op, copy |-> copy, shared |-> e] \in Calls
    BY <1>4 DEF Calls
  <2>5. e <=> share
    BY <1>5, <2>2, Zenon
  <2> QED BY <2>3, <2>4, <2>5
<1>7. ASSUME NEW d \in Callers \ {c}
      PROVE  /\ calls'[d] \in Calls /\ calls'[d].pc = calls[d].pc
             /\ calls'[d].op = calls[d].op /\ calls'[d].copy = calls[d].copy
             /\ calls[d].shared => calls'[d].shared
             /\ Busy(d) /\ op \in Writers => calls'[d].shared
  <2>1. calls[d] \in Calls
    BY DEF RowsOK
  <2>2. calls'[d] = IF Busy(d) /\ op \in Writers THEN [calls[d] EXCEPT !.shared = TRUE]
                    ELSE calls[d]
    BY DEF Begin
  <2>3. CASE Busy(d) /\ op \in Writers
    <3>1. calls'[d] = [calls[d] EXCEPT !.shared = TRUE]
      BY <2>2, <2>3
    <3> HIDE DEF CopiesInv
    <3> QED BY <2>1, <3>1 DEF Calls
  <2>4. CASE ~(Busy(d) /\ op \in Writers)
    BY <2>1, <2>2, <2>4
  <2> QED BY <2>3, <2>4
<1>8. calls' = [d \in Callers |-> calls'[d]]
  <2> HIDE DEF CopiesInv
  <2> QED BY DEF Begin
<1>9. RowsOK'
  <2>1. \A d \in Callers : calls'[d] \in Calls
    BY <1>6, <1>7
  <2>2. calls' \in [Callers -> Calls]
    BY <1>8, <2>1
  <2> QED BY <1>1, <1>2, <2>2 DEF RowsOK
<1>10. WritesAreShared'
  BY <1>5, <1>6, <1>7 DEF WritesAreShared, Busy, Writing
<1>11. FillIsRow'
  BY <1>1, <1>6, <1>7 DEF FillIsRow
<1>12. WritersBring'
  BY <1>2, <1>3, <1>6, <1>7, DegradationAssumption DEF WritersBring, Writers
<1>13. CopyNeedsARace'
  <2>1. \A d \in Callers : calls[d].pc = "fill" => calls'[d].pc = "fill" /\ calls'[d].op = calls[d].op
    BY <1>7 DEF Begin, Busy
  <2> QED BY <1>1, <2>1 DEF CopyNeedsARace
<1> QED BY <1>9, <1>10, <1>11, <1>12, <1>13

(* A copy that is left behind a write is excused.                          *)
LEMMA UnwantedOK ==
  ASSUME local \in Copies \cup {None}, local' = Unwanted(local)
  PROVE  /\ local' \in Copies \cup {None}
         /\ local' # None => local'.excused
BY DEF Unwanted, Copies
(* A row is written, or its service fails; and it is written by another    *)
(* replica.                                                                *)
LEMMA WriteKeepsCopies ==
  ASSUME CopiesInv, NEW c \in Callers, Write(c)
  PROVE  CopiesInv'
<1> USE DEF CopiesInv
<1>1. row' = calls[c].copy /\ writes' = writes /\ Busy(c) /\ Writing(c)
      /\ calls[c].pc = "do" /\ calls[c] \in Calls
  BY DEF Write, Busy, Writing, RowsOK
<1>2. PICK place \in {"fill", "mark"} :
         /\ Go(c, place)
         /\ \/ place = "fill" /\ local' = local
            \/ place = "mark" /\ local' = Unwanted(local)
  BY DEF Write
<1>3. PICK w \in Calls : w = At(calls[c], place)
  BY <1>1, AtOK
<1>4. w.pc = place /\ w.op = calls[c].op /\ w.copy = calls[c].copy /\ w.shared = calls[c].shared
  BY <1>1, <1>3, AtOK
<1>5. calls' = [calls EXCEPT ![c] = w]
  BY <1>2, <1>3 DEF Go
<1>6. /\ calls' \in [Callers -> Calls] /\ calls'[c] = w
      /\ \A d \in Callers \ {c} : calls'[d] = calls[d]
  BY <1>5 DEF RowsOK
<1>7. local' \in Copies \cup {None} /\ (place = "mark" /\ local' # None => local'.excused)
  BY <1>2, UnwantedOK DEF RowsOK
<1>8. RowsOK'
  BY <1>1, <1>6, <1>7 DEF RowsOK, Calls
<1>9. WritesAreShared'
  BY <1>1, <1>4, <1>6 DEF WritesAreShared, Busy, Writing
<1>10. FillIsRow'
  <2>1. \A d \in Callers \ {c} : calls[d].pc = "fill" => calls[d].shared
    BY <1>1 DEF WritesAreShared, Busy
  <2> QED BY <1>1, <1>4, <1>6, <2>1 DEF FillIsRow
<1>11. WritersBring'
  BY <1>4, <1>6 DEF WritersBring
<1>12. CopyNeedsARace'
  <2>1. CASE place = "fill"
    <3>1. calls'[c].pc = "fill" /\ calls'[c].op \in Writers
      BY <1>1, <1>4, <1>6, <2>1 DEF Writing
    <3> QED BY <3>1 DEF CopyNeedsARace
  <2>2. CASE place = "mark"
    BY <1>7, <2>2 DEF CopyNeedsARace
  <2> QED BY <2>1, <2>2
<1> QED BY <1>8, <1>9, <1>10, <1>11, <1>12

LEMMA WriteElsewhereKeepsCopies ==
  ASSUME CopiesInv, WriteElsewhere
  PROVE  CopiesInv'
<1> USE DEF CopiesInv
<1>1. writes' \in 0 .. MaxWrites /\ row' \in 0 .. MaxWrites \cup {None}
  BY DegradationAssumption DEF WriteElsewhere, RowsOK
<1>2. local' \in Copies \cup {None} /\ (local' # None => local'.excused)
  BY UnwantedOK DEF WriteElsewhere, RowsOK
<1>3. ASSUME NEW c \in Callers
      PROVE  /\ calls'[c] \in Calls /\ calls'[c].pc = calls[c].pc
             /\ calls'[c].op = calls[c].op /\ calls'[c].copy = calls[c].copy
             /\ Busy(c) => calls'[c].shared
  <2>1. calls[c] \in Calls
    BY DEF RowsOK
  <2>2. calls'[c] = IF Busy(c) THEN [calls[c] EXCEPT !.shared = TRUE] ELSE calls[c]
    BY DEF WriteElsewhere
  <2>3. CASE Busy(c)
    <3>1. calls'[c] = [calls[c] EXCEPT !.shared = TRUE]
      BY <2>2, <2>3
    <3> HIDE DEF CopiesInv
    <3> QED BY <2>1, <3>1 DEF Calls
  <2>4. CASE ~Busy(c)
    BY <2>1, <2>2, <2>4
  <2> QED BY <2>3, <2>4
<1>4. calls' \in [Callers -> Calls]
  <2>1. calls' = [c \in Callers |-> calls'[c]]
    BY DEF WriteElsewhere
  <2> QED BY <1>3, <2>1
<1>5. RowsOK'
  BY <1>1, <1>2, <1>4 DEF RowsOK
<1>6. WritesAreShared' /\ FillIsRow'
  BY <1>3 DEF WritesAreShared, FillIsRow, Busy, Writing
<1>7. WritersBring'
  BY <1>3 DEF WritersBring
<1>8. CopyNeedsARace'
  BY <1>2 DEF CopyNeedsARace
<1> QED BY <1>5, <1>6, <1>7, <1>8

(* A call puts what it brings into the copy, or drops the copy.            *)
LEMMA FillKeepsCopies ==
  ASSUME CopiesInv, NEW c \in Callers, Fill(c)
  PROVE  CopiesInv'
<1> USE DEF CopiesInv
<1>1. row' = row /\ writes' = writes /\ calls[c].pc = "fill" /\ calls[c] \in Calls
  BY DEF Fill, RowsOK
<1>2. calls' = [calls EXCEPT ![c] = Idle]
  BY DEF Fill, Go, At
<1>3. Idle \in Calls
  BY DEF Idle, Calls, Ops, Readers, Writers
<1>4. /\ calls' \in [Callers -> Calls] /\ calls'[c] = Idle
      /\ \A d \in Callers \ {c} : calls'[d] = calls[d]
  BY <1>2, <1>3 DEF RowsOK
<1>5. PICK copied : copied = [v |-> calls[c].copy, excused |-> calls[c].shared]
  OBVIOUS
<1>6. local' = CASE calls[c].copy # None -> copied
                  [] calls[c].op = "delete" -> None
                  [] OTHER -> local
  BY <1>5 DEF Fill
<1>7. local' \in Copies \cup {None} /\ CopyNeedsARace'
  <2>1. CASE calls[c].copy # None
    <3>1. copied \in Copies
      BY <1>1, <1>5, <2>1 DEF Copies, Calls
    <3>2. local' = copied
      BY <1>6, <2>1 DEF WritersBring
    <3>3. copied.v = row \/ copied.excused
      BY <1>1, <1>5 DEF FillIsRow
    <3> QED BY <1>1, <3>1, <3>2, <3>3 DEF CopyNeedsARace
  <2>2. CASE calls[c].copy = None /\ calls[c].op = "delete"
    <3>1. local' = None
      BY <1>6, <2>2
    <3> QED BY <3>1 DEF CopyNeedsARace
  <2>3. CASE calls[c].copy = None /\ calls[c].op # "delete"
    <3>1. local' = local
      BY <1>6, <2>3
    <3>2. calls[c].op \notin Writers
      BY <2>3 DEF WritersBring, Writers
    <3> QED BY <1>1, <1>4, <3>1, <3>2 DEF CopyNeedsARace, RowsOK
  <2> QED BY <2>1, <2>2, <2>3
<1>8. RowsOK'
  BY <1>1, <1>4, <1>7 DEF RowsOK
<1>9. WritesAreShared' /\ FillIsRow' /\ WritersBring'
  BY <1>1, <1>4 DEF WritesAreShared, FillIsRow, WritersBring, Busy, Writing, Idle
<1> QED BY <1>7, <1>8, <1>9

(* The row and its copies change in no other step.                         *)
LEMMA CopiesStep ==
  ASSUME CopiesInv, [Next]_vars
  PROVE  CopiesInv'
<1>1. ASSUME UNCHANGED <<row, local, calls, writes>> PROVE CopiesInv'
  <2>1. row' = row /\ local' = local /\ calls' = calls /\ writes' = writes
    BY <1>1
  <2> QED BY <2>1 DEF CopiesInv, RowsOK, WritesAreShared, FillIsRow, WritersBring,
                      CopyNeedsARace, Busy, Writing
<1>2. CASE Manage \/ UNCHANGED vars \/ \E s \in Services : Stop(s) \/ Start(s)
  BY <1>1, <1>2 DEF Manage, CheckAndRecover, ProbeDatabase, ProbeRedis, Probe, Stop, Start,
                    data, vars
<1>3. CASE WriteElsewhere
  BY <1>3, WriteElsewhereKeepsCopies
<1>4. ASSUME NEW c \in Callers, NEW op \in Ops, Begin(c, op) PROVE CopiesInv'
  BY <1>4, BeginKeepsCopies
<1>5. ASSUME NEW c \in Callers, Read(c) PROVE CopiesInv'
  <2>1. calls[c] \in Calls /\ row \in 0 .. MaxWrites \cup {None} /\ Busy(c)
        /\ calls[c].pc = "do" /\ calls[c].op \in Readers /\ UNCHANGED data
    BY <1>5 DEF CopiesInv, RowsOK, Read, Busy
  <2>2. PICK v \in Calls : v = [calls[c] EXCEPT !.copy = row]
    BY <2>1 DEF Calls
  <2>3. v.op = calls[c].op /\ v.shared = calls[c].shared /\ v.copy = row
    BY <2>1, <2>2 DEF Calls
  <2>4. PICK w \in Calls : w = At(v, "fill")
    BY AtOK
  <2>5. w.pc = "fill" /\ w.op = v.op /\ w.copy = v.copy /\ w.shared = v.shared
    BY <2>4, AtOK
  <2>6. calls' = [calls EXCEPT ![c] = w]
    BY <1>5, <2>2, <2>4 DEF Read
  <2>7. w.op \notin Writers
    BY <2>1, <2>3, <2>5 DEF Readers, Writers
  <2> QED BY <2>1, <2>3, <2>5, <2>6, <2>7, MoveKeepsCopies
<1>6. ASSUME NEW c \in Callers, Write(c) \/ Fill(c) PROVE CopiesInv'
  BY <1>6, WriteKeepsCopies, FillKeepsCopies
<1>7. ASSUME NEW c \in Callers,
             \/ Ask(c) \/ UseChecks(c) \/ UseCache(c) \/ UseQueue(c)
             \/ FailTo(c) \/ Mark(c) \/ ReadLocal(c) \/ LogMode(c)
      PROVE  CopiesInv'
  <2>1. PICK place \in {"idle", "do", "mark", "fallback", "log"} : Go(c, place)
    BY <1>7 DEF Ask, UseChecks, UseCache, UseQueue, Done, FailTo, Mark, ReadLocal, LogMode,
                Fallback
  <2>2. UNCHANGED data /\ Busy(c) /\ calls[c].pc # "fill"
    BY <1>7 DEF Ask, UseChecks, UseCache, UseQueue, Done, FailTo, Mark, ReadLocal, LogMode,
                Busy
  <2> QED BY <2>1, <2>2, GoKeepsCopies
<1> QED BY <1>2, <1>3, <1>4, <1>5, <1>6, <1>7 DEF Next, Outside, Step

LEMMA StartOfDegradation == Init => DegradationInv
<1> SUFFICES ASSUME Init PROVE DegradationInv
  OBVIOUS
<1>1. ManagerOK
  BY IntervalsOK, DegradationAssumption DEF Init, ManagerOK, Modes
<1>2. Idle \in Calls /\ 0 \in 0 .. MaxWrites
  BY DegradationAssumption DEF Idle, Calls, Ops, Readers, Writers
<1>3. RowsOK
  BY <1>2 DEF Init, RowsOK
<1>4. ModeIsReports /\ ReportsAge
  BY DEF Init, ModeIsReports, ReportsAge
<1>5. WritesAreShared /\ FillIsRow /\ WritersBring /\ CopyNeedsARace
  BY DEF Init, WritesAreShared, FillIsRow, WritersBring, CopyNeedsARace, Busy, Idle
<1> QED BY <1>1, <1>3, <1>4, <1>5 DEF DegradationInv, ModesInv, CopiesInv

(* The inductive invariant of the manager and of the copies: the mode is   *)
(* the set of the services with a bad report, a bad report is no older     *)
(* than the last probe, and a call that is on its way together with a      *)
(* write knows of it.                                                      *)
THEOREM DegradationIsInductive == Spec => []DegradationInv
<1>1. DegradationInv /\ [Next]_vars => DegradationInv'
  BY ModesStep, CopiesStep DEF DegradationInv, CopiesInv
<1> QED BY <1>1, StartOfDegradation, PTL DEF Spec

(* The mode of the manager is the last report of each service, in whatever *)
(* order callers and probes report; and no service counts as down for      *)
(* longer than the time to its next probe.                                 *)
THEOREM ModesAreReports == Spec => []ModesAreSound
<1>1. DegradationInv => ModesAreSound
  <2> SUFFICES ASSUME DegradationInv PROVE ModesAreSound
    OBVIOUS
  <2> USE DEF DegradationInv, ModesInv, ManagerOK, CopiesInv, RowsOK
  <2>1. TypeOK
    BY IntervalsOK DEF TypeOK, Copies
  <2>2. DownIsShort
    BY IntervalsOK DEF DownIsShort, ReportsAge
  <2> QED BY <2>1, <2>2 DEF ModesAreSound
<1> QED BY <1>1, DegradationIsInductive, PTL

(* A copy of a monitor is wrong only through a race with a write, a lost   *)
(* reply, or a write that is about to reach it: for any number of callers. *)
THEOREM WrongCopiesNeedRaces == Spec => []CopyNeedsARace
<1>1. DegradationInv => CopyNeedsARace
  BY DEF DegradationInv, CopiesInv
<1> QED BY <1>1, DegradationIsInductive, PTL

-----------------------------------------------------------------------------
(* The circuit breaker of an alert channel: a specification of its own,    *)
(* without variables in common with the above.                             *)

(* A counter that is capped stays below its cap and counts until there.    *)
LEMMA CappedRange ==
  ASSUME NEW n \in Nat, NEW cap \in Nat
  PROVE  /\ Capped(n, cap) \in 0..cap
         /\ n < cap => Capped(n, cap) = n
         /\ n >= cap => Capped(n, cap) = cap
BY DEF Capped

(* The fields of the breaker and its callers stay in their ranges: a       *)
(* counter that reaches its threshold is reset by the step that acts on it *)
(* (recordSuccess, recordFailure).                                         *)
THEOREM BreakerTypes == BreakerSpec => []BreakerTypeOK
<1>1. InitBreaker => BreakerTypeOK
  BY BreakerAssumption DEF InitBreaker, BreakerTypeOK
<1>2. BreakerTypeOK /\ [BreakerNext]_breakerVars => BreakerTypeOK'
  <2> SUFFICES ASSUME BreakerTypeOK, [BreakerNext]_breakerVars PROVE BreakerTypeOK'
    OBVIOUS
  <2> USE BreakerAssumption DEF BreakerTypeOK
  <2>1. ASSUME NEW c \in Senders, CanExecute(c) \/ Recheck(c) PROVE BreakerTypeOK'
    BY <2>1 DEF CanExecute, Recheck, Admit
  <2>2. ASSUME NEW c \in Senders, ReleaseReadLock(c) \/ HalfOpen(c) PROVE BreakerTypeOK'
    BY <2>2 DEF ReleaseReadLock, HalfOpen
  <2>3. ASSUME NEW c \in Senders, RecordSuccess(c) PROVE BreakerTypeOK'
    BY <2>3 DEF RecordSuccess, Capped
  <2>4. ASSUME NEW c \in Senders, RecordFailure(c) PROVE BreakerTypeOK'
    BY <2>4 DEF RecordFailure, Capped
  <2>5. CASE Reset
    BY <2>5 DEF Reset
  <2>6. CASE Tick
    BY <2>6 DEF Tick, Running, Capped
  <2>7. CASE UNCHANGED breakerVars
    BY <2>7 DEF breakerVars
  <2> QED BY <2>1, <2>2, <2>3, <2>4, <2>5, <2>6, <2>7 DEF BreakerNext, Execute
<1> QED BY <1>1, <1>2, PTL DEF BreakerSpec

-----------------------------------------------------------------------------
(* What the counters of the breaker count: in a closed circuit the         *)
(* failures in a row, in a half-open one the successes in a row.           *)
Counts ==
  /\ state = "closed" => failureCount = losses /\ losses < MaxFailures
  /\ state = "half-open" => successCount = wins

(* Each step that counts a failure or a success acts on its threshold.     *)
LEMMA CountsStep ==
  ASSUME BreakerTypeOK, Counts, [BreakerNext]_breakerVars
  PROVE  Counts'
<1> USE BreakerAssumption DEF BreakerTypeOK, Counts
<1>1. ASSUME NEW c \in Senders, CanExecute(c) \/ Recheck(c) \/ ReleaseReadLock(c)
      PROVE  Counts'
  BY <1>1 DEF CanExecute, Recheck, Admit, ReleaseReadLock
<1>2. ASSUME NEW c \in Senders, HalfOpen(c) PROVE Counts'
  BY <1>2 DEF HalfOpen
<1>3. ASSUME NEW c \in Senders, RecordSuccess(c) PROVE Counts'
  BY <1>3 DEF RecordSuccess, Capped
<1>4. ASSUME NEW c \in Senders, RecordFailure(c) PROVE Counts'
  BY <1>4 DEF RecordFailure, Capped
<1>5. CASE Reset
  BY <1>5 DEF Reset
<1>6. CASE Tick \/ UNCHANGED breakerVars
  BY <1>6 DEF Tick, breakerVars
<1> QED BY <1>1, <1>2, <1>3, <1>4, <1>5, <1>6 DEF BreakerNext, Execute

(* The counters are the failures and the successes in a row, and a closed  *)
(* circuit has had fewer failures in a row than would open it.             *)
THEOREM CountersCount == BreakerSpec => []Counts
<1>1. InitBreaker => Counts
  BY BreakerAssumption DEF InitBreaker, Counts
<1>2. BreakerTypeOK /\ Counts /\ [BreakerNext]_breakerVars => Counts'
  BY CountsStep
<1> QED BY <1>1, <1>2, BreakerTypes, PTL DEF BreakerSpec

(* MaxFailures failures in a row, of any callers, have opened the circuit. *)
THEOREM CircuitOpensInTime == BreakerSpec => []OpensInTime
<1>1. Counts => OpensInTime
  BY DEF Counts, OpensInTime
<1> QED BY <1>1, CountersCount, PTL

(* And nothing less opens a closed circuit.                                *)
THEOREM CircuitOpensForCause == BreakerSpec => OpensForCause
<1>1. ASSUME BreakerTypeOK, Counts, [BreakerNext]_breakerVars
      PROVE  [state = "closed" /\ state' = "open" => losses' = MaxFailures]_breakerVars
  <2> SUFFICES ASSUME BreakerNext, state = "closed", state' = "open"
               PROVE  losses' = MaxFailures
    BY <1>1
  <2>1. PICK c \in Senders : RecordFailure(c)
    BY DEF BreakerNext, Execute, CanExecute, Admit, ReleaseReadLock,
           HalfOpen, Recheck, RecordSuccess, Reset, Tick
  <2>2. failureCount + 1 >= MaxFailures /\ losses' = Capped(losses + 1, MaxFailures)
    BY <2>1 DEF RecordFailure
  <2> QED BY <1>1, <2>2, CappedRange, BreakerAssumption DEF BreakerTypeOK, Counts
<1> QED BY <1>1, BreakerTypes, CountersCount, PTL DEF BreakerSpec, OpensForCause

(* But for a Reset, a half-open circuit closes after SuccessThreshold      *)
(* successes in a row.                                                     *)
THEOREM CircuitClosesForCause == BreakerSpec => ClosesForCause
<1>1. ASSUME BreakerTypeOK, Counts, [BreakerNext]_breakerVars
      PROVE  [state = "half-open" /\ state' = "closed" =>
                wins' = SuccessThreshold \/ Reset]_breakerVars
  <2> SUFFICES ASSUME BreakerNext, state = "half-open", state' = "closed", ~Reset
               PROVE  wins' = SuccessThreshold
    BY <1>1
  <2>1. PICK c \in Senders : RecordSuccess(c)
    BY DEF BreakerNext, Execute, CanExecute, Admit, ReleaseReadLock,
           HalfOpen, Recheck, RecordFailure, Tick
  <2>2. successCount + 1 >= SuccessThreshold /\ wins' = Capped(wins + 1, SuccessThreshold)
    BY <1>1, <2>1 DEF RecordSuccess, BreakerTypeOK
  <2> QED BY <1>1, <2>2, CappedRange, BreakerAssumption DEF BreakerTypeOK, Counts
<1> QED BY <1>1, BreakerTypes, CountersCount, PTL DEF BreakerSpec, ClosesForCause

(* Both changes have their cause, for any number of callers and any        *)
(* thresholds.                                                             *)
THEOREM CircuitChangesForCause == BreakerSpec => ChangesForCause
BY CircuitOpensForCause, CircuitClosesForCause DEF ChangesForCause

-----------------------------------------------------------------------------
(* No call is admitted while the circuit stays open.                       *)
LEMMA QuietStep ==
  ASSUME BreakerTypeOK, QuietWhileOpen, [BreakerNext]_breakerVars
  PROVE  QuietWhileOpen'
<1> USE BreakerAssumption DEF BreakerTypeOK, QuietWhileOpen, Running
<1>1. ASSUME NEW c \in Senders, CanExecute(c) \/ Recheck(c) PROVE QuietWhileOpen'
  BY <1>1 DEF CanExecute, Recheck, Admit
<1>2. ASSUME NEW c \in Senders, HalfOpen(c) \/ ReleaseReadLock(c) PROVE QuietWhileOpen'
  BY <1>2 DEF HalfOpen, ReleaseReadLock
<1>3. ASSUME NEW c \in Senders, RecordSuccess(c) PROVE QuietWhileOpen'
  BY <1>3 DEF RecordSuccess
<1>4. ASSUME NEW c \in Senders, RecordFailure(c) PROVE QuietWhileOpen'
  BY <1>4 DEF RecordFailure
<1>5. CASE Reset \/ UNCHANGED breakerVars
  BY <1>5 DEF Reset, breakerVars
<1>6. CASE Tick
  BY <1>6 DEF Tick, Capped
<1> QED BY <1>1, <1>2, <1>3, <1>4, <1>5, <1>6 DEF BreakerNext, Execute

(* No call in progress in an open circuit began after its last failure,    *)
(* however canExecute is interleaved between its locks.                    *)
THEOREM OpenCircuitIsQuiet == BreakerSpec => []QuietWhileOpen
<1>1. InitBreaker => QuietWhileOpen
  BY DEF InitBreaker, QuietWhileOpen
<1>2. BreakerTypeOK /\ QuietWhileOpen /\ [BreakerNext]_breakerVars => QuietWhileOpen'
  BY QuietStep
<1> QED BY <1>1, <1>2, BreakerTypes, PTL DEF BreakerSpec

(* A half-open circuit hears only its probes, and calls of an earlier      *)
(* phase that have been running for the whole timeout: when the circuit is *)
(* half-opened it has been quiet for that long.                            *)
THEOREM HalfOpenCallsAreProbes == BreakerSpec => []OnlyProbes
<1>1. InitBreaker => OnlyProbes
  BY DEF InitBreaker, OnlyProbes
<1>2. BreakerTypeOK /\ QuietWhileOpen /\ OnlyProbes /\ [BreakerNext]_breakerVars => OnlyProbes'
  <2> SUFFICES ASSUME BreakerTypeOK, QuietWhileOpen, OnlyProbes, [BreakerNext]_breakerVars
               PROVE  OnlyProbes'
    OBVIOUS
  <2> USE BreakerAssumption DEF BreakerTypeOK, OnlyProbes, Running
  <2>1. ASSUME NEW c \in Senders, CanExecute(c) \/ Recheck(c) PROVE OnlyProbes'
    BY <2>1 DEF CanExecute, Recheck, Admit
  <2>2. ASSUME NEW c \in Senders, HalfOpen(c) PROVE OnlyProbes'
    <3>1. CASE state = "open" /\ age >= Timeout
      <4>1. \A d \in Senders : Running(d) => elapsed[d] >= Timeout
        BY <3>1 DEF QuietWhileOpen
      <4> QED BY <2>2, <4>1 DEF HalfOpen
    <3>2. CASE ~(state = "open" /\ age >= Timeout)
      BY <2>2, <3>2 DEF HalfOpen
    <3> QED BY <3>1, <3>2
  <2>3. ASSUME NEW c \in Senders, ReleaseReadLock(c) PROVE OnlyProbes'
    BY <2>3 DEF ReleaseReadLock
  <2>4. ASSUME NEW c \in Senders, RecordSuccess(c) \/ RecordFailure(c) PROVE OnlyProbes'
    BY <2>4 DEF RecordSuccess, RecordFailure
  <2>5. CASE Reset \/ UNCHANGED breakerVars
    BY <2>5 DEF Reset, breakerVars
  <2>6. CASE Tick
    <3>1. \A c \in Senders : elapsed[c] >= Timeout => elapsed'[c] >= Timeout
      BY <2>6 DEF Tick, Capped
    <3> QED BY <2>6, <3>1 DEF Tick
  <2> QED BY <2>1, <2>2, <2>3, <2>4, <2>5, <2>6 DEF BreakerNext, Execute
<1> QED BY <1>1, <1>2, BreakerTypes, OpenCircuitIsQuiet, PTL DEF BreakerSpec
=============================================================================
