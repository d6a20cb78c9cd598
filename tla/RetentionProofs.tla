--------------------------- MODULE RetentionProofs ---------------------------
(***************************************************************************)
(* What the run of MCRetention checks on two loops and a few hours, for    *)
(* every number of loops, every period and every time: nothing of the last *)
(* 90 days is lost, old records go, and no loop is left over.              *)
(***************************************************************************)
EXTENDS Retention, FiniteSetTheorems, TLAPS

Places == {"ended", "wait", "begin", "read", "upsert", "delete", "aggregates", "alerts"}
Service == [running : BOOLEAN, closed : BOOLEAN, due : 0 .. Day, ticked : BOOLEAN]
Loop == [of : Services \cup {None}, pc : Places, cutoff : (-Period .. MaxTime) \cup {None},
         found : SUBSET Times, ok : BOOLEAN]

Types ==
    /\ now \in Times
    /\ checks \in SUBSET Times /\ alerts \in SUBSET Times
    /\ aggregates \in [Hours -> SUBSET Times] /\ withAggregates \in BOOLEAN
    /\ services \in [Services -> Service] /\ loops \in [Loops -> Loop]
    /\ cancelled \in BOOLEAN /\ errors \in 0 .. MaxErrors

\* A loop that is in a run has the cutoff of this moment: time waits for it.
Dated ==
    \A l \in Loops :
        /\ loops[l].pc = "ended" <=> loops[l].of = None
        /\ loops[l].pc \in {"read", "upsert", "delete"} => loops[l].of = "aggregation"
        /\ loops[l].pc \in {"aggregates", "alerts"} => loops[l].of = "cleanup"
        /\ loops[l].pc \notin {"ended", "wait"} => loops[l].cutoff = now - Age(loops[l].of)

\* The records of the last 90 days are in their tables: DeleteOriginals finds
\* nothing to delete, and Clean spares them.
Kept == /\ made \in SUBSET (checks \cap alerts)
        /\ \A t \in made : now - t <= Period

\* A service that is not told to end has the one loop of its Start, and its
\* ticker runs.
Lives ==
    \A s \in Services :
        /\ services[s].running => services[s].due > 0
        /\ ~services[s].closed /\ services[s].running = FALSE => Alive(s) = {}
        /\ ~services[s].closed /\ services[s].running /\ ~cancelled =>
             \E l \in Loops : Alive(s) = {l}
        /\ ~services[s].closed \/ ~services[s].running =>
             Alive(s) = {} \/ \E l \in Loops : Alive(s) = {l}
        /\ services[s].closed /\ services[s].running =>
             \E k, l \in Loops : Alive(s) \in SUBSET {k, l}

\* How long ago the last clean-up was, at most.
Elapsed ==
    IF services["cleanup"].closed \/ cancelled \/ services["cleanup"].ticked
    THEN Day ELSE Day - services["cleanup"].due

\* How far a clean-up has come; new records are younger than what it deletes.
Filled == {h \in Hours : withAggregates /\ aggregates[h] # {}}
NoneIsOld == \A t \in checks \cup alerts \cup Filled : now - t <= Period + Elapsed
Cleaned ==
    \A l \in Loops : loops[l].of = "cleanup" =>
        /\ loops[l].pc \in {"aggregates", "alerts"} => \A t \in checks : now - t <= Period
        /\ loops[l].pc = "alerts" => \A h \in Filled : now - h <= Period
        /\ loops[l].pc = "wait" /\ loops[l].ok => NoneIsOld

RetentionInv == Types /\ Dated /\ Kept /\ Lives /\ Cleaned

----------------------------------------------------------------------------
LEMMA Numbers ==
  /\ Hour \in Nat \ {0} /\ Day \in Nat \ {0} /\ Threshold \in Nat \ {0} /\ Period \in Nat \ {0}
  /\ Threshold + Hour <= Period
  /\ MaxTime \in Nat /\ MaxErrors \in Nat
  /\ None \notin Services /\ Interval = Day
  /\ Times \in SUBSET Nat /\ \A t \in Times : t <= MaxTime
  /\ Hours \in SUBSET Times
  /\ \A s \in Services : Age(s) \in Nat \ {0} /\ Age(s) <= Period
BY RetentionAssumption DEF Services, Interval, Times, Hours, Age

(* An hour that the aggregation fills is younger than what is cleaned up.  *)
LEMMA AggregatedIsYoung ==
  ASSUME NEW t \in Nat
  PROVE  t - HourOf(t - Threshold) <= Period
<1>1. PICK x \in Int : x = t - Threshold
  BY Numbers
<1>2. x % Hour \in Int /\ x % Hour < Hour
  BY Numbers
<1>3. PICK m \in Int : m = x % Hour /\ m < Hour
  BY <1>2
<1> QED BY <1>1, <1>3, Numbers DEF HourOf

(* One loop moves; its service does not change.                            *)
Moves(l, x) == loops' = [loops EXCEPT ![l] = x]

LEMMA MoveStep ==
  ASSUME Types, NEW l \in Loops, NEW x \in Loop, Moves(l, x)
  PROVE  /\ loops' \in [Loops -> Loop] /\ loops'[l] = x
         /\ \A k \in Loops : k # l => loops'[k] = loops[k]
BY DEF Types, Moves

LEMMA RunStep ==
  ASSUME Types, NEW l \in Loops, NEW s \in Services, Moves(l, Run(s))
  PROVE  /\ loops' \in [Loops -> Loop]
         /\ loops'[l].of = s /\ loops'[l].pc = "begin" /\ loops'[l].cutoff = now - Age(s)
         /\ \A k \in Loops : k # l => loops'[k] = loops[k]
<1>1. PICK x : x = Run(s)
  OBVIOUS
<1>2. PICK c : c = now - Age(s)
  OBVIOUS
<1>3. c \in -Period .. MaxTime
  BY <1>2, Numbers DEF Types
<1>4. x = [of |-> s, pc |-> "begin", cutoff |-> c, found |-> {}, ok |-> FALSE]
  BY <1>1, <1>2 DEF Run, Ended, Cutoff
<1>5. x \in Loop
  BY <1>3, <1>4 DEF Loop, Places
<1> QED BY <1>1, <1>2, <1>4, <1>5, MoveStep

LEMMA GoStep ==
  ASSUME Types, NEW l \in Loops, NEW pc \in Places, Go(l, pc)
  PROVE  /\ loops' \in [Loops -> Loop]
         /\ loops'[l].of = loops[l].of /\ loops'[l].pc = pc
         /\ loops'[l].cutoff = loops[l].cutoff /\ loops'[l].ok = loops[l].ok
         /\ \A k \in Loops : k # l => loops'[k] = loops[k]
<1>1. loops \in [Loops -> Loop] /\ loops[l] \in Loop
  BY DEF Types
<1>2. PICK x : x = [loops[l] EXCEPT !.pc = pc]
  OBVIOUS
<1>3. /\ x \in Loop /\ x.of = loops[l].of /\ x.pc = pc /\ x.cutoff = loops[l].cutoff
      /\ x.ok = loops[l].ok
  <2> HIDE DEF Places
  <2> QED BY <1>1, <1>2 DEF Loop
<1>4. Moves(l, x)
  BY <1>1, <1>2 DEF Moves, Go
<1> QED BY <1>3, <1>4, MoveStep

LEMMA EndRunStep ==
  ASSUME Types, NEW l \in Loops, NEW ok \in BOOLEAN, EndRun(l, ok)
  PROVE  /\ loops' \in [Loops -> Loop]
         /\ loops'[l].of = loops[l].of /\ loops'[l].pc = "wait" /\ loops'[l].ok = ok
         /\ \A k \in Loops : k # l => loops'[k] = loops[k]
<1>1. loops[l].of \in Services \cup {None}
  BY DEF Types, Loop
<1>2. PICK x : x = [Ended EXCEPT !.of = loops[l].of, !.pc = "wait", !.ok = ok]
  OBVIOUS
<1>3. x = [of |-> loops[l].of, pc |-> "wait", cutoff |-> None, found |-> {}, ok |-> ok]
  BY <1>2 DEF Ended
<1>4. x \in Loop
  BY <1>1, <1>3 DEF Loop, Places
<1>5. Moves(l, x)
  BY <1>2 DEF Moves, EndRun
<1> QED BY <1>3, <1>4, <1>5, MoveStep

LEMMA LeaveStep ==
  ASSUME Types, NEW l \in Loops, Moves(l, Ended)
  PROVE  /\ loops' \in [Loops -> Loop]
         /\ loops'[l].of = None /\ loops'[l].pc = "ended"
         /\ \A k \in Loops : k # l => loops'[k] = loops[k]
<1>1. Ended.of = None /\ Ended.pc = "ended" /\ Ended \in Loop
  BY DEF Ended, Loop, Places
<1> QED BY <1>1, MoveStep

LEMMA FailStep ==
  ASSUME Types, Fail \/ UNCHANGED world
  PROVE  made' = made /\ errors' \in 0 .. MaxErrors
BY Numbers DEF Types, Fail, world

----------------------------------------------------------------------------
(* A step of a run: records may go that are old enough, and those that     *)
(* come are young.                                                         *)
Running(l) == List(l) \/ Read(l) \/ Upsert(l) \/ DeleteOriginals(l) \/ Clean(l)

RunOf(l) ==
    /\ UNCHANGED <<now, withAggregates, services, cancelled, made>>
    /\ errors' \in 0 .. MaxErrors
    /\ loops' \in [Loops -> Loop] /\ loops'[l].of = loops[l].of
    /\ loops[l].of \in Services /\ loops'[l].pc \notin {"ended"}
    /\ loops'[l].pc # "wait" => loops'[l].cutoff = loops[l].cutoff
    /\ loops[l].cutoff = now - Age(loops[l].of)
    /\ \A k \in Loops : k # l => loops'[k] = loops[k]
    /\ aggregates' \in [Hours -> SUBSET Times]
    /\ checks' \in SUBSET checks /\ alerts' \in SUBSET alerts
    /\ \A t \in checks : now - t <= Period => t \in checks'
    /\ \A t \in alerts : now - t <= Period => t \in alerts'
    /\ \A h \in Filled' : h \in Filled \/ now - h <= Period

LEMMA AggregationStep ==
  ASSUME RetentionInv, NEW l \in Loops, List(l) \/ Read(l) \/ Upsert(l) \/ DeleteOriginals(l)
  PROVE  /\ RunOf(l) /\ loops[l].of = "aggregation"
         /\ loops'[l].pc \notin {"aggregates", "alerts", "begin"}
<1>0. /\ Types /\ now \in Nat /\ "aggregation" \in Services
      /\ Age("aggregation") = Threshold
      /\ loops[l].pc \in {"begin", "read", "upsert", "delete"} =>
           loops[l].cutoff = now - Age(loops[l].of)
      /\ loops[l].pc \in {"read", "upsert", "delete"} => loops[l].of = "aggregation"
      /\ \A t \in checks : t \in checks
  BY Numbers DEF RetentionInv, Types, Dated, Services, Age
<1>1. CASE List(l)
  <2>1. /\ loops[l].pc = "begin" /\ loops[l].of = "aggregation"
        /\ UNCHANGED <<now, tables, services, cancelled>>
        /\ \/ Go(l, "read") /\ UNCHANGED world
           \/ Fail /\ EndRun(l, FALSE)
    BY <1>1 DEF List
  <2>2. UNCHANGED <<checks, alerts, aggregates, withAggregates>> /\ Filled' = Filled
    BY <2>1 DEF tables, Filled
  <2> QED BY <1>0, <2>1, <2>2, GoStep, EndRunStep, FailStep DEF RunOf, Places, Types
<1>2. CASE Read(l)
  <2> DEFINE found == UNION {InRange(h, h + Hour) : h \in AggregatedHours(loops[l].cutoff)}
             pc == IF found = {} THEN "delete" ELSE "upsert"
  <2>1. /\ loops[l].pc = "read" /\ UNCHANGED <<now, tables, services, cancelled>>
        /\ \/ /\ loops' = [loops EXCEPT ![l].found = found, ![l].pc = pc]
              /\ UNCHANGED world
           \/ Fail /\ EndRun(l, FALSE)
    BY <1>2 DEF Read
  <2>2. UNCHANGED <<checks, alerts, aggregates, withAggregates>> /\ Filled' = Filled
    BY <2>1 DEF tables, Filled
  <2>3. CASE Fail /\ EndRun(l, FALSE)
    BY <1>0, <2>1, <2>2, <2>3, EndRunStep, FailStep DEF RunOf, Types
  <2>4. CASE loops' = [loops EXCEPT ![l].found = found, ![l].pc = pc] /\ UNCHANGED world
    <3>1. found \in SUBSET Times /\ pc \in {"delete", "upsert"}
      BY <1>0 DEF InRange, Types
    <3>2. loops \in [Loops -> Loop] /\ loops[l] \in Loop
      BY <1>0 DEF Types
    <3> HIDE DEF found, pc
    <3>3. PICK x : x = [loops[l] EXCEPT !.found = found, !.pc = pc]
      OBVIOUS
    <3>4. x \in Loop /\ x.of = loops[l].of /\ x.pc = pc /\ x.cutoff = loops[l].cutoff
      <4>1. pc \in Places
        BY <3>1 DEF Places
      <4> HIDE DEF Places
      <4> QED BY <3>1, <3>2, <3>3, <4>1 DEF Loop
    <3>5. Moves(l, x)
      BY <2>4, <3>2, <3>3 DEF Moves
    <3> QED BY <1>0, <2>1, <2>2, <2>4, <3>1, <3>4, <3>5, MoveStep, FailStep DEF RunOf, Types
  <2> QED BY <2>1, <2>3, <2>4
<1>3. CASE Upsert(l)
  <2>1. /\ loops[l].pc = "upsert"
        /\ UNCHANGED <<now, checks, alerts, withAggregates, services, cancelled>>
        /\ (Go(l, "delete") /\ UNCHANGED world) \/ (Fail /\ EndRun(l, FALSE))
        /\ \/ aggregates' = [aggregates EXCEPT ![HourOf(loops[l].cutoff)] = loops[l].found]
           \/ UNCHANGED aggregates
    BY <1>3 DEF Upsert
  <2>2. /\ aggregates' \in [Hours -> SUBSET Times]
        /\ \A h \in Hours : aggregates'[h] = aggregates[h] \/ h = HourOf(loops[l].cutoff)
    BY <1>0, <2>1 DEF Types, Loop
  <2>3. now - HourOf(loops[l].cutoff) <= Period
    <3>1. loops[l].cutoff = now - Threshold
      BY <1>0, <2>1
    <3> QED BY <1>0, <3>1, AggregatedIsYoung
  <2>4. \A h \in Filled' : h \in Filled \/ now - h <= Period
    BY <2>1, <2>2, <2>3 DEF Filled
  <2> QED BY <1>0, <2>1, <2>2, <2>4, GoStep, EndRunStep, FailStep DEF RunOf, Places, Types
<1>4. CASE DeleteOriginals(l)
  <2>1. /\ loops[l].pc = "delete" /\ EndRun(l, TRUE) /\ (Fail \/ UNCHANGED world)
        /\ UNCHANGED <<now, checks, alerts, aggregates, withAggregates, services, cancelled>>
    BY <1>4 DEF DeleteOriginals, RangeAccepted
  <2>2. Filled' = Filled
    BY <2>1 DEF Filled
  <2> QED BY <1>0, <2>1, <2>2, EndRunStep, FailStep DEF RunOf, Types
<1> QED BY <1>1, <1>2, <1>3, <1>4

LEMMA CleanStep ==
  ASSUME RetentionInv, NEW l \in Loops, Clean(l)
  PROVE  /\ RunOf(l) /\ loops[l].of = "cleanup" /\ loops'[l].pc \in {"aggregates", "alerts", "wait"}
         /\ loops'[l].pc \in {"aggregates", "alerts"} => \A t \in checks' : now - t <= Period
         /\ loops'[l].pc = "alerts" => \A h \in Filled' : now - h <= Period
         /\ loops'[l].pc = "wait" /\ loops'[l].ok =>
              \A t \in checks' \cup alerts' \cup Filled' : now - t <= Period
<1> DEFINE cutoff == loops[l].cutoff
           table == IF loops[l].pc = "begin" THEN "checks" ELSE loops[l].pc
           young == now - Period
<1>0. /\ Types /\ now \in Nat /\ "cleanup" \in Services /\ Age("cleanup") = Period
      /\ loops[l].of = "cleanup" /\ loops[l].pc \in {"begin", "aggregates", "alerts"}
      /\ cutoff = young /\ cutoff = now - Age(loops[l].of)
  BY Numbers DEF RetentionInv, Types, Dated, Services, Age, Clean, NextTable
<1>1. /\ loops[l].pc \in {"aggregates", "alerts"} => \A t \in checks : now - t <= Period
      /\ loops[l].pc = "alerts" => \A h \in Filled : now - h <= Period
  BY <1>0 DEF RetentionInv, Cleaned
<1>2. UNCHANGED <<now, withAggregates, services, cancelled>>
  BY DEF Clean
<1>3. CASE Fail /\ EndRun(l, FALSE) /\ UNCHANGED <<checks, alerts, aggregates>>
  <2>1. UNCHANGED <<checks, alerts, aggregates, withAggregates>> /\ Filled' = Filled
    BY <1>2, <1>3 DEF Filled
  <2> QED BY <1>0, <1>2, <1>3, <2>1, EndRunStep, FailStep DEF RunOf, Types
<1>4. CASE /\ checks' = IF table = "checks" THEN KeptBefore(checks, cutoff) ELSE checks
           /\ alerts' = IF table = "alerts" THEN KeptBefore(alerts, cutoff) ELSE alerts
           /\ aggregates' = IF table = "aggregates"
                THEN [h \in Hours |-> IF h \in KeptBefore(Hours, cutoff)
                                      THEN aggregates[h] ELSE {}]
                ELSE aggregates
           /\ IF table = "alerts" THEN EndRun(l, TRUE) ELSE Go(l, NextTable[loops[l].pc])
           /\ UNCHANGED world
  <2>1. \A t \in Times : t >= cutoff <=> now - t <= Period
    BY <1>0, Numbers
  <2>2. checks \in SUBSET Times /\ alerts \in SUBSET Times /\ aggregates \in [Hours -> SUBSET Times]
    BY <1>0 DEF Types
  <2>3. /\ checks' \in SUBSET checks
        /\ \A t \in checks : now - t <= Period => t \in checks'
        /\ loops[l].pc = "begin" => \A t \in checks' : now - t <= Period
    BY <1>4, <2>1, <2>2 DEF KeptBefore
  <2>4. /\ alerts' \in SUBSET alerts
        /\ \A t \in alerts : now - t <= Period => t \in alerts'
        /\ loops[l].pc = "alerts" => \A t \in alerts' : now - t <= Period
    BY <1>4, <2>1, <2>2 DEF KeptBefore
  <2>5. /\ aggregates' \in [Hours -> SUBSET Times] /\ Filled' \in SUBSET Filled
        /\ loops[l].pc = "aggregates" => \A h \in Filled' : now - h <= Period
    <3>1. CASE table = "aggregates"
      <4>1. aggregates' = [h \in Hours |-> IF h \in KeptBefore(Hours, cutoff)
                                           THEN aggregates[h] ELSE {}]
        BY <1>4, <3>1
      <4>2. aggregates' \in [Hours -> SUBSET Times]
        BY <2>2, <4>1
      <4>3. \A h \in Filled' : h \in Hours /\ h >= cutoff /\ withAggregates /\ aggregates[h] # {}
        BY <1>2, <4>1 DEF Filled, KeptBefore
      <4> QED BY <2>1, <4>2, <4>3, Numbers DEF Filled
    <3>2. CASE table # "aggregates"
      BY <1>2, <1>4, <2>2, <3>2 DEF Filled
    <3> QED BY <3>1, <3>2
  <2>6. CASE loops[l].pc = "alerts"
    <3>1. EndRun(l, TRUE)
      BY <1>4, <2>6
    <3>2. \A t \in checks' \cup alerts' \cup Filled' : now - t <= Period
      BY <1>1, <2>3, <2>4, <2>5, <2>6
    <3>3. made' = made /\ errors' \in 0 .. MaxErrors
      BY <1>0, <1>4, FailStep
    <3> QED BY <1>0, <1>2, <2>3, <2>4, <2>5, <3>1, <3>2, <3>3, EndRunStep DEF RunOf
  <2>7. CASE loops[l].pc # "alerts"
    <3>1. PICK pc \in {"aggregates", "alerts"} :
            /\ pc = NextTable[loops[l].pc]
            /\ pc = "aggregates" <=> withAggregates /\ loops[l].pc = "begin"
            /\ withAggregates \in BOOLEAN
      BY <1>0, <2>7 DEF NextTable, Types
    <3>2. Go(l, pc) /\ pc \in Places
      BY <1>0, <1>4, <2>7, <3>1 DEF Places
    <3>3. made' = made /\ errors' \in 0 .. MaxErrors
      BY <1>0, <1>4, FailStep
    <3>4. /\ loops' \in [Loops -> Loop]
          /\ loops'[l].of = loops[l].of /\ loops'[l].pc = pc
          /\ loops'[l].cutoff = loops[l].cutoff
          /\ \A k \in Loops : k # l => loops'[k] = loops[k]
      BY <1>0, <3>2, GoStep
    <3>5. RunOf(l)
      BY <1>0, <1>2, <2>3, <2>4, <2>5, <3>3, <3>4 DEF RunOf
    <3>6. /\ \A t \in checks' : now - t <= Period
          /\ pc = "alerts" => \A h \in Filled' : now - h <= Period
      <4>1. ~withAggregates => Filled' = {}
        BY <1>2 DEF Filled
      <4> QED BY <1>0, <1>1, <2>3, <2>5, <2>7, <3>1, <4>1
    <3> QED BY <1>0, <3>4, <3>5, <3>6
  <2> QED BY <2>6, <2>7
<1> QED BY <1>3, <1>4 DEF Clean

LEMMA ElapsedType ==
  ASSUME Types
  PROVE  Elapsed \in Nat /\ Elapsed <= Day /\ services["cleanup"] \in Service
<1>1. services["cleanup"] \in Service /\ services["cleanup"].due \in 0 .. Day
  BY DEF Types, Service, Services
<1> QED BY <1>1, Numbers DEF Elapsed

(* Such a step keeps the invariant, whatever the other loops are doing.    *)
LEMMA RunningStep ==
  ASSUME RetentionInv, NEW l \in Loops, Running(l)
  PROVE  RetentionInv'
<1>1. RunOf(l)
  BY AggregationStep, CleanStep DEF Running
<1>2. Types /\ Dated /\ Kept /\ Lives /\ Cleaned /\ now \in Nat
  BY Numbers DEF RetentionInv, Types
<1>3. Types'
  BY <1>1, <1>2 DEF RunOf, Types
<1>4. Dated'
  <2>1. /\ loops'[l].of \in Services /\ loops'[l].pc # "ended"
        /\ loops'[l].pc # "wait" => loops'[l].cutoff = now - Age(loops'[l].of)
        /\ now' = now /\ \A k \in Loops : k # l => loops'[k] = loops[k]
    BY <1>1 DEF RunOf
  <2>2. /\ loops'[l].pc \in {"read", "upsert", "delete"} => loops'[l].of = "aggregation"
        /\ loops'[l].pc \in {"aggregates", "alerts"} => loops'[l].of = "cleanup"
    BY AggregationStep, CleanStep DEF Running, RunOf
  <2> QED BY <1>2, <2>1, <2>2, Numbers DEF Dated
<1>5. Kept'
  BY <1>1, <1>2 DEF RunOf, Kept
<1>6. Lives'
  <2>1. \A s \in Services : Alive(s)' = Alive(s)
    BY <1>1 DEF RunOf, Alive
  <2> QED BY <1>1, <1>2, <2>1 DEF RunOf, Lives
<1>7. Cleaned'
  <2>1. Elapsed \in Nat /\ Elapsed' = Elapsed /\ Period \in Nat
    <3>1. Elapsed' = Elapsed
      BY <1>1 DEF RunOf, Elapsed
    <3> QED BY <1>2, <3>1, ElapsedType, Numbers
  <2>2. /\ now' = now
        /\ \A t \in checks' : t \in checks
        /\ \A t \in alerts' : t \in alerts
        /\ \A h \in Filled' : h \in Filled \/ now - h <= Period
        /\ \A t \in checks \cup alerts \cup Filled \cup Filled' : now - t \in Int
    BY <1>1, <1>2, Numbers DEF RunOf, Types, Filled
  <2>3. ASSUME \A t \in checks' \cup alerts' \cup Filled' : now - t <= Period
        PROVE  NoneIsOld'
    BY <2>1, <2>2, <2>3 DEF NoneIsOld
  <2>4. ASSUME NoneIsOld PROVE NoneIsOld'
    BY <2>1, <2>2, <2>4 DEF NoneIsOld
  <2>5. ASSUME NEW k \in Loops, k # l, loops'[k].of = "cleanup"
        PROVE  /\ loops'[k].pc \in {"aggregates", "alerts"} => \A t \in checks' : now' - t <= Period
               /\ loops'[k].pc = "alerts" => \A h \in Filled' : now' - h <= Period
               /\ loops'[k].pc = "wait" /\ loops'[k].ok => NoneIsOld'
    <3>1. loops'[k] = loops[k]
      BY <1>1, <2>5 DEF RunOf
    <3> QED BY <1>2, <2>2, <2>4, <2>5, <3>1 DEF Cleaned
  <2>6. ASSUME loops'[l].of = "cleanup"
        PROVE  /\ loops'[l].pc \in {"aggregates", "alerts"} => \A t \in checks' : now' - t <= Period
               /\ loops'[l].pc = "alerts" => \A h \in Filled' : now' - h <= Period
               /\ loops'[l].pc = "wait" /\ loops'[l].ok => NoneIsOld'
    <3>1. Clean(l)
      <4>1. loops[l].of = "cleanup"
        BY <1>1, <2>6 DEF RunOf
      <4> QED BY <4>1, AggregationStep DEF Running
    <3> QED BY <2>2, <2>3, <3>1, CleanStep
  <2> QED BY <2>5, <2>6 DEF Cleaned
<1> QED BY <1>3, <1>4, <1>5, <1>6, <1>7 DEF RetentionInv

----------------------------------------------------------------------------
(* Service records, one field or all of them changed.                      *)
Turns(s, x) == services' = [services EXCEPT ![s] = x]

LEMMA TurnStep ==
  ASSUME Types, NEW s \in Services, NEW x \in Service, Turns(s, x)
  PROVE  /\ services' \in [Services -> Service] /\ services'[s] = x
         /\ \A z \in Services : z # s => services'[z] = services[z]
BY DEF Types, Turns

LEMMA StartStep ==
  ASSUME RetentionInv, NEW s \in Services, Start(s)
  PROVE  RetentionInv'
<1>1. Types /\ Dated /\ Kept /\ Lives /\ Cleaned
  BY DEF RetentionInv
<1>2. /\ ~services[s].running /\ ~cancelled
      /\ services' = [services EXCEPT ![s] = [services[s] EXCEPT !.running = TRUE,
                                                !.due = Interval, !.ticked = FALSE]]
      /\ UNCHANGED <<now, checks, alerts, aggregates, withAggregates, cancelled, made, errors>>
  BY <1>1 DEF Start, MayStart, Types, tables, world
<1>3. PICK l \in Loops : loops[l] = Ended /\ Moves(l, Run(s))
  BY DEF Start, Moves
<1>4. /\ loops' \in [Loops -> Loop]
      /\ loops'[l].of = s /\ loops'[l].pc = "begin" /\ loops'[l].cutoff = now - Age(s)
      /\ \A k \in Loops : k # l => loops'[k] = loops[k]
  BY <1>1, <1>3, RunStep
<1>5. PICK x : x = [services[s] EXCEPT !.running = TRUE, !.due = Interval, !.ticked = FALSE]
  OBVIOUS
<1>6. /\ x \in Service /\ x.running /\ x.due = Day /\ ~x.ticked
      /\ x.closed = services[s].closed
  <2>1. services[s] \in Service
    BY <1>1 DEF Types
  <2>2. PICK v \in Service : v = services[s]
    BY <2>1
  <2>3. PICK d \in 0 .. Day : d = Interval /\ d = Day
    BY Numbers
  <2>4. x = [v EXCEPT !.running = TRUE, !.due = d, !.ticked = FALSE]
    BY <1>5, <2>2, <2>3
  <2>5. x = [running |-> TRUE, closed |-> v.closed, due |-> d, ticked |-> FALSE]
    BY <2>4 DEF Service
  <2> QED BY <2>2, <2>3, <2>5 DEF Service
<1>7. /\ services' \in [Services -> Service] /\ services'[s] = x
      /\ \A z \in Services : z # s => services'[z] = services[z]
  <2>1. Turns(s, x)
    BY <1>2, <1>5 DEF Turns
  <2> QED BY <1>1, <1>6, <2>1, TurnStep
<1>8. Types'
  BY <1>1, <1>2, <1>4, <1>7 DEF Types
<1>9. Dated'
  <2>1. s # None
    BY Numbers
  <2> QED BY <1>1, <1>2, <1>4, <2>1 DEF Dated
<1>10. Kept'
  BY <1>1, <1>2 DEF Kept
<1>11. loops[l].of = None
  BY <1>3 DEF Ended
<1>12. Lives'
  <2>1. ASSUME NEW z \in Services, z # s PROVE Alive(z)' = Alive(z)
    BY <1>4, <1>11, <2>1, Numbers DEF Alive
  <2>2. ASSUME ~services[s].closed PROVE Alive(s)' = {l}
    <3>1. Alive(s) = {}
      BY <1>1, <1>2, <2>2 DEF Lives, Types, Service
    <3> QED BY <1>4, <3>1 DEF Alive
  <2>5. \E k \in Loops : Alive(s)' \in SUBSET {k, l}
    <3>1. Alive(s) = {} \/ \E k \in Loops : Alive(s) = {k}
      BY <1>1, <1>2 DEF Lives
    <3>2. Alive(s)' \in SUBSET (Alive(s) \cup {l})
      BY <1>4 DEF Alive
    <3> QED BY <1>3, <3>1, <3>2
  <2>3. /\ services'[s].running /\ services'[s].due > 0 /\ ~cancelled'
        /\ services'[s].closed = services[s].closed
    BY <1>2, <1>6, <1>7, Numbers
  <2>4. ASSUME NEW z \in Services, z # s
        PROVE  Alive(z)' = Alive(z) /\ services'[z] = services[z] /\ cancelled' = cancelled
    BY <1>2, <1>7, <2>1, <2>4
  <2>6. services[s].closed \in BOOLEAN
    BY <1>1 DEF Types, Service
  <2> QED BY <1>1, <1>3, <2>2, <2>3, <2>4, <2>5, <2>6 DEF Lives
<1>13. Cleaned'
  <2>1. UNCHANGED <<now, checks, alerts, Filled>>
    BY <1>2 DEF Filled
  <2>2. ASSUME NEW k \in Loops, k # l, loops[k].of = "cleanup", NoneIsOld
        PROVE  NoneIsOld'
    <3>1. Elapsed' = Elapsed
      <4>1. CASE s = "cleanup"
        <5>1. services[s].closed
          <6>1. k \in Alive("cleanup")
            BY <2>2 DEF Alive
          <6> QED BY <1>1, <1>2, <4>1, <6>1 DEF Lives, Types, Service
        <5> QED BY <1>6, <1>7, <4>1, <5>1 DEF Elapsed
      <4>2. CASE s # "cleanup"
        <5>1. services'["cleanup"] = services["cleanup"]
          BY <1>7, <4>2 DEF Services
        <5>2. /\ services'["cleanup"].closed = services["cleanup"].closed
              /\ services'["cleanup"].ticked = services["cleanup"].ticked
              /\ services'["cleanup"].due = services["cleanup"].due
              /\ cancelled' = cancelled
          BY <1>2, <5>1
        <5> QED BY <5>2 DEF Elapsed
      <4> QED BY <4>1, <4>2
    <3> QED BY <2>1, <2>2, <3>1 DEF NoneIsOld
  <2> QED BY <1>1, <1>4, <2>1, <2>2 DEF Cleaned
<1> QED BY <1>8, <1>9, <1>10, <1>12, <1>13 DEF RetentionInv

LEMMA StopStep ==
  ASSUME RetentionInv, NEW s \in Services, Stop(s)
  PROVE  RetentionInv'
<1>1. Types /\ Dated /\ Kept /\ Lives /\ Cleaned
  BY DEF RetentionInv
<1>2. PICK x : x = [Stopped EXCEPT !.closed = TRUE]
  OBVIOUS
<1>3. x = [running |-> FALSE, closed |-> TRUE, due |-> 0, ticked |-> FALSE]
  BY <1>2 DEF Stopped
<1>4. x \in Service /\ x.closed
  BY <1>3, Numbers DEF Service
<1>5. /\ Turns(s, x) /\ services[s].running /\ ~services[s].closed
      /\ UNCHANGED <<now, checks, alerts, aggregates, withAggregates, loops, cancelled, made,
                     errors>>
  BY <1>2 DEF Stop, Turns, tables, world
<1>6. /\ services' \in [Services -> Service] /\ services'[s] = x
      /\ \A z \in Services : z # s => services'[z] = services[z]
  BY <1>1, <1>4, <1>5, TurnStep
<1>7. Types' /\ Dated' /\ Kept'
  BY <1>1, <1>5, <1>6 DEF Types, Dated, Kept
<1>8. Lives'
  <2>1. \A z \in Services : Alive(z)' = Alive(z)
    BY <1>5 DEF Alive
  <2>2. ~services'[s].running /\ services'[s].closed
    BY <1>3, <1>6
  <2>3. cancelled' = cancelled /\ \A z \in Services : z # s => services'[z] = services[z]
    BY <1>5, <1>6
  <2> QED BY <1>1, <1>5, <2>1, <2>2, <2>3 DEF Lives
<1>9. Cleaned'
  <2>1. Elapsed <= Elapsed' /\ Elapsed \in Nat /\ Elapsed' \in Nat
    <3>1. services'["cleanup"] = services["cleanup"] \/ services'["cleanup"].closed
      BY <1>4, <1>6 DEF Services
    <3>2. Types'
      BY <1>7
    <3>3. Elapsed' = Elapsed \/ Elapsed' = Day
      BY <1>5, <3>1 DEF Elapsed
    <3> QED BY <1>1, <3>2, <3>3, ElapsedType, Numbers
  <2>2. NoneIsOld => NoneIsOld'
    <3>1. UNCHANGED <<now, checks, alerts, Filled>>
      BY <1>5 DEF Filled
    <3>2. \A t \in checks \cup alerts \cup Filled : now - t \in Int
      BY <1>1, Numbers DEF Types, Filled
    <3> QED BY <2>1, <3>1, <3>2, Numbers DEF NoneIsOld
  <2> QED BY <1>1, <1>5, <2>2 DEF Cleaned, Filled
<1> QED BY <1>7, <1>8, <1>9 DEF RetentionInv

LEMMA CancelStep ==
  ASSUME RetentionInv, Cancel
  PROVE  RetentionInv'
<1>1. Types /\ Dated /\ Kept /\ Lives /\ Cleaned
  BY DEF RetentionInv
<1>2. /\ cancelled' = TRUE
      /\ UNCHANGED <<now, checks, alerts, aggregates, withAggregates, services, loops, made, errors>>
  BY DEF Cancel, tables, world
<1>3. Types' /\ Dated' /\ Kept' /\ UNCHANGED Filled
  BY <1>1, <1>2 DEF Types, Dated, Kept, Filled
<1>4. Lives'
  <2>1. \A z \in Services : Alive(z)' = Alive(z)
    BY <1>2 DEF Alive
  <2> QED BY <1>1, <1>2, <2>1 DEF Lives
<1>5. NoneIsOld => NoneIsOld'
  <2>1. Elapsed' = Day
    BY <1>2 DEF Elapsed
  <2>2. Elapsed \in Nat /\ Elapsed <= Day
    BY <1>1, ElapsedType
  <2>3. \A t \in checks \cup alerts \cup Filled : now - t \in Int
    BY <1>1, Numbers DEF Types, Filled
  <2> QED BY <1>2, <1>3, <2>1, <2>2, <2>3, Numbers DEF NoneIsOld
<1>6. Cleaned'
  BY <1>1, <1>2, <1>3, <1>5 DEF Cleaned
<1> QED BY <1>3, <1>4, <1>6 DEF RetentionInv

LEMMA RestartStep ==
  ASSUME RetentionInv, Restart
  PROVE  RetentionInv'
<1>1. Types /\ Kept
  BY DEF RetentionInv
<1>2. /\ services' = [s \in Services |-> Stopped] /\ loops' = [l \in Loops |-> Ended]
      /\ cancelled' = FALSE
      /\ UNCHANGED <<now, checks, alerts, aggregates, withAggregates, made, errors>>
  BY <1>1, Numbers DEF Restart, tables, world, Types
<1>3. Stopped \in Service /\ ~Stopped.running
  BY Numbers DEF Stopped, Service
<1>4. Ended \in Loop /\ Ended.of = None /\ Ended.pc = "ended"
  BY DEF Ended, Loop, Places
<1>5. \A l \in Loops : loops'[l].of = None /\ loops'[l].pc = "ended"
  BY <1>2, <1>4
<1>6. Types'
  BY <1>1, <1>2, <1>3, <1>4 DEF Types
<1>7. Dated' /\ Kept'
  BY <1>1, <1>2, <1>5 DEF Dated, Kept
<1>8. Lives'
  <2>1. \A s \in Services : Alive(s)' = {}
    BY <1>5, Numbers DEF Alive
  <2>2. \A s \in Services : ~services'[s].running
    BY <1>2, <1>3
  <2> QED BY <2>1, <2>2 DEF Lives
<1>9. Cleaned'
  <2>1. None # "cleanup"
    BY Numbers DEF Services
  <2> QED BY <1>5, <2>1 DEF Cleaned
<1> QED BY <1>6, <1>7, <1>8, <1>9 DEF RetentionInv

LEMMA LeavesStep ==
  ASSUME RetentionInv, NEW l \in Loops, Leave(l)
  PROVE  RetentionInv'
<1>1. Types /\ Dated /\ Kept /\ Lives /\ Cleaned
  BY DEF RetentionInv
<1>2. /\ loops[l].pc = "wait" /\ (cancelled \/ services[loops[l].of].closed) /\ Moves(l, Ended)
      /\ UNCHANGED <<now, checks, alerts, aggregates, withAggregates, services, cancelled, made, errors>>
  BY DEF Leave, Told, Moves, tables, world
<1>3. /\ loops' \in [Loops -> Loop]
      /\ loops'[l].of = None /\ loops'[l].pc = "ended"
      /\ \A k \in Loops : k # l => loops'[k] = loops[k]
  BY <1>1, <1>2, LeaveStep
<1>4. loops[l].of \in Services
  BY <1>1, <1>2 DEF Types, Loop, Dated
<1>5. Types' /\ Dated' /\ Kept'
  BY <1>1, <1>2, <1>3 DEF Types, Dated, Kept
<1>6. Lives'
  <2>1. ASSUME NEW s \in Services, s # loops[l].of PROVE Alive(s)' = Alive(s)
    BY <1>3, <2>1, Numbers DEF Alive
  <2>2. \A s \in Services : Alive(s)' \in SUBSET Alive(s)
    BY <1>3, Numbers DEF Alive
  <2>3. l \in Alive(loops[l].of)
    BY DEF Alive
  <2> QED BY <1>1, <1>2, <1>4, <2>1, <2>2, <2>3 DEF Lives
<1>7. Cleaned'
  <2>1. NoneIsOld' <=> NoneIsOld
    BY <1>2 DEF NoneIsOld, Elapsed, Filled
  <2>2. None # "cleanup" /\ Filled' = Filled
    BY <1>2, Numbers DEF Services, Filled
  <2> QED BY <1>1, <1>2, <1>3, <2>1, <2>2 DEF Cleaned
<1> QED BY <1>5, <1>6, <1>7 DEF RetentionInv

LEMMA AgainStep ==
  ASSUME RetentionInv, NEW l \in Loops, Again(l)
  PROVE  RetentionInv'
<1>1. Types /\ Dated /\ Kept /\ Lives /\ Cleaned
  BY DEF RetentionInv
<1>2. PICK s : s = loops[l].of
  OBVIOUS
<1>3. /\ loops[l].pc = "wait" /\ services[s].ticked
      /\ services' = [services EXCEPT ![s].ticked = FALSE] /\ Moves(l, Run(s))
      /\ UNCHANGED <<now, checks, alerts, aggregates, withAggregates, cancelled, made, errors>>
  BY <1>2 DEF Again, Due, Moves, tables, world
<1>4. s \in Services
  BY <1>1, <1>2, <1>3 DEF Types, Loop, Dated
<1>5. /\ loops' \in [Loops -> Loop]
      /\ loops'[l].of = s /\ loops'[l].pc = "begin" /\ loops'[l].cutoff = now - Age(s)
      /\ \A k \in Loops : k # l => loops'[k] = loops[k]
  BY <1>1, <1>3, <1>4, RunStep
<1>6. PICK v \in Service : v = services[s]
  BY <1>1, <1>4 DEF Types
<1>7. PICK x : x = [v EXCEPT !.ticked = FALSE]
  OBVIOUS
<1>8. /\ x \in Service /\ x.running = v.running /\ x.due = v.due /\ ~x.ticked
      /\ x.closed = v.closed
  BY <1>7 DEF Service
<1>9. /\ services' \in [Services -> Service] /\ services'[s] = x
      /\ \A z \in Services : z # s => services'[z] = services[z]
  <2>1. Turns(s, x)
    BY <1>1, <1>3, <1>4, <1>6, <1>7 DEF Turns, Types
  <2> QED BY <1>1, <1>4, <1>8, <2>1, TurnStep
<1>10. Types' /\ Kept'
  BY <1>1, <1>3, <1>5, <1>9 DEF Types, Kept
<1>11. Dated'
  <2>1. s # None
    BY <1>4, Numbers
  <2> QED BY <1>1, <1>3, <1>5, <2>1 DEF Dated
<1>12. \A z \in Services : /\ services'[z].running = services[z].running
                           /\ services'[z].closed = services[z].closed
                           /\ services'[z].due = services[z].due
                           /\ z # s => services'[z] = services[z]
  BY <1>6, <1>8, <1>9
<1>13. Lives'
  <2>1. \A z \in Services : Alive(z)' = Alive(z)
    BY <1>2, <1>5 DEF Alive
  <2> QED BY <1>1, <1>3, <1>12, <2>1 DEF Lives
<1>14. Cleaned'
  <2>1. UNCHANGED <<now, checks, alerts, Filled>>
    BY <1>3 DEF Filled
  <2>2. ASSUME NEW k \in Loops, k # l, loops[k].of = "cleanup", NoneIsOld
        PROVE  NoneIsOld'
    <3>1. Elapsed' = Elapsed
      <4>1. CASE s = "cleanup"
        <5>1. services[s].closed \/ cancelled
          <6>1. k \in Alive(s) /\ l \in Alive(s)
            BY <1>2, <2>2, <4>1 DEF Alive
          <6>2. services[s].running \in BOOLEAN /\ cancelled \in BOOLEAN
            BY <1>1, <1>4 DEF Types, Service
          <6> QED BY <1>1, <1>4, <2>2, <6>1, <6>2 DEF Lives
        <5>2. services'[s].closed \/ cancelled'
          BY <1>3, <1>4, <1>12, <5>1
        <5> QED BY <4>1, <5>1, <5>2 DEF Elapsed
      <4>2. CASE s # "cleanup"
        <5>1. services'["cleanup"] = services["cleanup"]
          BY <1>9, <4>2 DEF Services
        <5>2. /\ services'["cleanup"].closed = services["cleanup"].closed
              /\ services'["cleanup"].ticked = services["cleanup"].ticked
              /\ services'["cleanup"].due = services["cleanup"].due
              /\ cancelled' = cancelled
          BY <1>3, <5>1
        <5> QED BY <5>2 DEF Elapsed
      <4> QED BY <4>1, <4>2
    <3> QED BY <2>1, <2>2, <3>1 DEF NoneIsOld
  <2> QED BY <1>1, <1>5, <2>1, <2>2 DEF Cleaned
<1> QED BY <1>10, <1>11, <1>13, <1>14 DEF RetentionInv

LEMMA CheckStep ==
  ASSUME RetentionInv, Check
  PROVE  RetentionInv'
<1>1. Types /\ Dated /\ Kept /\ Lives /\ Cleaned /\ now \in Nat
  BY Numbers DEF RetentionInv, Types
<1>2. /\ made' = made \cup {now} /\ checks' = checks \cup {now} /\ alerts' = alerts \cup {now}
      /\ UNCHANGED <<now, aggregates, withAggregates, services, loops, cancelled, errors>>
  BY DEF Check
<1>3. now - now <= Period /\ now - now <= Period + Elapsed
  BY <1>1, ElapsedType, Numbers
<1>4. Types' /\ Dated' /\ Kept'
  BY <1>1, <1>2, <1>3 DEF Types, Dated, Kept
<1>5. Lives'
  BY <1>1, <1>2 DEF Lives, Alive
<1>6. Filled' = Filled /\ Elapsed' = Elapsed
  BY <1>2 DEF Filled, Elapsed
<1>7. NoneIsOld => NoneIsOld'
  BY <1>2, <1>3, <1>6 DEF NoneIsOld
<1>8. Cleaned'
  BY <1>1, <1>2, <1>3, <1>6, <1>7 DEF Cleaned
<1> QED BY <1>4, <1>5, <1>8 DEF RetentionInv

(* A day after the last clean-up its ticker has ticked, and the loop that  *)
(* waits for it takes the tick before time goes on.                        *)
LEMMA TickStep ==
  ASSUME RetentionInv, Tick
  PROVE  RetentionInv'
<1>1. /\ Types /\ Dated /\ Kept /\ Lives /\ Cleaned /\ now \in Nat
  BY Numbers DEF RetentionInv, Types
<1>2. /\ now < MaxTime /\ ~cancelled /\ now' = now + 1
      /\ \A l \in Loops : loops[l].pc \in {"wait", "ended"} /\ ~Told(l) /\ ~Due(l)
      /\ UNCHANGED <<checks, alerts, aggregates, withAggregates, loops, cancelled, errors>>
      /\ made' = {t \in made : now' - t <= Period}
  BY DEF Tick, tables
<1>3. ASSUME NEW s \in Services
      PROVE  /\ services'[s] \in Service
             /\ services'[s].running = services[s].running
             /\ services'[s].closed = services[s].closed
             /\ services[s].running =>
                  /\ services'[s].due > 0
                  /\ \/ services[s].due = 1 /\ services'[s].ticked
                     \/ /\ services'[s].due = services[s].due - 1
                        /\ services'[s].ticked = services[s].ticked
  <2>1. PICK v \in Service : v = services[s]
    BY <1>1 DEF Types
  <2>2. PICK d \in 0 .. Day : d = Interval /\ d = Day /\ d > 0
    BY Numbers
  <2>3. services'[s] = IF ~v.running THEN v
                       ELSE IF v.due = 1 THEN [v EXCEPT !.due = d, !.ticked = TRUE]
                       ELSE [v EXCEPT !.due = v.due - 1]
    BY <2>1, <2>2 DEF Tick
  <2>4. v.running => v.due \in 1 .. Day
    BY <1>1, <2>1, Numbers DEF Lives, Service
  <2>5. CASE ~v.running
    BY <2>1, <2>3, <2>5
  <2>6. CASE v.running /\ v.due = 1
    <3>1. services'[s] = [v EXCEPT !.due = d, !.ticked = TRUE]
      BY <2>3, <2>6
    <3> QED BY <2>1, <2>2, <2>6, <3>1 DEF Service
  <2>7. CASE v.running /\ v.due # 1
    <3>1. PICK e \in 0 .. Day : e = v.due - 1 /\ e > 0
      BY <2>4, <2>7, Numbers
    <3>2. services'[s] = [v EXCEPT !.due = e]
      BY <2>3, <2>7, <3>1
    <3> QED BY <2>1, <2>7, <3>1, <3>2 DEF Service
  <2> QED BY <2>5, <2>6, <2>7
<1>4. Types'
  <2>1. services' \in [Services -> Service]
    <3>1. services' = [s \in Services |-> services'[s]]
      BY DEF Tick
    <3> QED BY <1>3, <3>1
  <2>2. now' \in Times
    BY <1>1, <1>2, Numbers DEF Times
  <2> QED BY <1>1, <1>2, <2>1, <2>2 DEF Types
<1>5. Dated'
  <2>1. \A l \in Loops : loops[l].pc \in {"wait", "ended"}
    BY <1>2
  <2> QED BY <1>1, <1>2, <2>1 DEF Dated
<1>6. Kept'
  BY <1>1, <1>2 DEF Kept
<1>7. Lives'
  <2>1. \A s \in Services : Alive(s)' = Alive(s)
    BY <1>2 DEF Alive
  <2> QED BY <1>1, <1>2, <1>3, <2>1 DEF Lives
<1>8. ASSUME NEW l \in Loops, loops[l].of = "cleanup", loops[l].pc = "wait", NoneIsOld
      PROVE  NoneIsOld'
  <2>1. "cleanup" \in Services /\ ~services["cleanup"].closed /\ ~services["cleanup"].ticked
    BY <1>2, <1>8 DEF Told, Due, Services
  <2>2. services["cleanup"].running
    <3>1. l \in Alive("cleanup")
      BY <1>8 DEF Alive
    <3> QED BY <1>1, <2>1, <3>1 DEF Lives, Types, Service
  <2>3. Elapsed = Day - services["cleanup"].due
    BY <1>2, <2>1 DEF Elapsed
  <2>4. Elapsed' = Elapsed + 1
    <3>1. /\ ~services'["cleanup"].closed /\ ~cancelled'
          /\ services["cleanup"].due \in Nat
      BY <1>1, <1>2, <1>3, <2>1, ElapsedType DEF Service
    <3>2. CASE services["cleanup"].due = 1 /\ services'["cleanup"].ticked
      BY <2>3, <3>1, <3>2, Numbers DEF Elapsed
    <3>3. CASE /\ services'["cleanup"].due = services["cleanup"].due - 1
               /\ services'["cleanup"].ticked = services["cleanup"].ticked
      BY <2>1, <2>3, <3>1, <3>3, Numbers DEF Elapsed
    <3> QED BY <1>3, <2>1, <2>2, <3>2, <3>3
  <2>5. \A t \in checks \cup alerts \cup Filled : t \in Int
    BY <1>1, Numbers DEF Types, Filled
  <2>6. Elapsed \in Nat /\ UNCHANGED <<checks, alerts, Filled>>
    BY <1>1, <1>2, ElapsedType DEF Filled
  <2> QED BY <1>1, <1>2, <1>8, <2>4, <2>5, <2>6, Numbers DEF NoneIsOld
<1>9. Cleaned'
  <2>1. \A l \in Loops : loops[l].pc \in {"wait", "ended"} /\ loops'[l] = loops[l]
    BY <1>2
  <2> QED BY <1>1, <1>8, <2>1 DEF Cleaned
<1> QED BY <1>4, <1>5, <1>6, <1>7, <1>9 DEF RetentionInv

----------------------------------------------------------------------------
(* Every step keeps the tables, the loops and the clock in step: the       *)
(* inductive invariant.                                                    *)
THEOREM RetentionInvariant == Spec => []RetentionInv
<1>1. Init => RetentionInv
  <2> SUFFICES ASSUME Init PROVE RetentionInv
    OBVIOUS
  <2>1. /\ now = 0 /\ checks = {} /\ alerts = {} /\ made = {} /\ cancelled = FALSE
        /\ aggregates = [h \in Hours |-> {}] /\ withAggregates \in BOOLEAN
        /\ services = [s \in Services |-> Stopped]
        /\ loops = [l \in Loops |-> Ended] /\ errors = MaxErrors
    BY DEF Init
  <2>2. Stopped \in Service /\ ~Stopped.running
    BY Numbers DEF Stopped, Service
  <2>3. Ended \in Loop /\ Ended.of = None /\ Ended.pc = "ended"
    BY DEF Ended, Loop, Places
  <2>4. Types
    <3>1. /\ services \in [Services -> Service] /\ loops \in [Loops -> Loop]
          /\ aggregates \in [Hours -> SUBSET Times]
      BY <2>1, <2>2, <2>3
    <3>2. now \in Times /\ errors \in 0 .. MaxErrors
      BY <2>1, Numbers DEF Times
    <3> QED BY <2>1, <3>1, <3>2 DEF Types
  <2>5. \A l \in Loops : loops[l].of = None /\ loops[l].pc = "ended"
    BY <2>1, <2>3
  <2>6. Dated /\ Kept
    BY <2>1, <2>5 DEF Dated, Kept
  <2>7. Lives
    <3>1. \A s \in Services : Alive(s) = {}
      BY <2>5, Numbers DEF Alive
    <3>2. \A s \in Services : ~services[s].running
      BY <2>1, <2>2
    <3> QED BY <3>1, <3>2 DEF Lives
  <2>8. Cleaned
    <3>1. None # "cleanup"
      BY Numbers DEF Services
    <3> QED BY <2>5, <3>1 DEF Cleaned
  <2> QED BY <2>4, <2>6, <2>7, <2>8 DEF RetentionInv
<1>2. RetentionInv /\ [Next]_vars => RetentionInv'
  <2> SUFFICES ASSUME RetentionInv, [Next]_vars PROVE RetentionInv'
    OBVIOUS
  <2>1. ASSUME NEW s \in Services, Start(s) \/ Stop(s) PROVE RetentionInv'
    BY <2>1, StartStep, StopStep
  <2>2. ASSUME NEW l \in Loops, Leave(l) \/ Again(l) \/ Running(l) PROVE RetentionInv'
    BY <2>2, LeavesStep, AgainStep, RunningStep
  <2>3. CASE Restart \/ Cancel \/ Check \/ Tick
    BY <2>3, RestartStep, CancelStep, CheckStep, TickStep
  <2>4. CASE UNCHANGED vars
    <3>1. /\ UNCHANGED <<now, checks, alerts, aggregates, withAggregates, services, loops, cancelled>>
          /\ UNCHANGED <<made, errors>>
      BY <2>4 DEF vars, tables, world
    <3>2. Types /\ Dated /\ Kept /\ Lives /\ Cleaned
      BY DEF RetentionInv
    <3>3. Types' /\ Dated' /\ Kept'
      BY <3>1, <3>2 DEF Types, Dated, Kept
    <3>4. Lives' /\ Cleaned'
      BY <3>1, <3>2 DEF Lives, Alive, Cleaned, NoneIsOld, Elapsed, Filled
    <3> QED BY <3>3, <3>4 DEF RetentionInv
  <2> QED BY <2>1, <2>2, <2>3, <2>4 DEF Next, Running
<1> QED BY <1>1, <1>2, PTL DEF Spec

(* No check or alert of the last 90 days is lost, and once a clean-up has  *)
(* gone well nothing is older than that and the day until the next,        *)
(* whatever overlaps, fails, stops or restarts: DataAreSound.              *)
THEOREM DataStaySound == Spec => []DataAreSound
<1>1. RetentionInv => DataAreSound
  <2> SUFFICES ASSUME RetentionInv PROVE DataAreSound
    OBVIOUS
  <2>1. Types /\ Kept /\ Cleaned
    BY DEF RetentionInv
  <2>2. TypeOK
    BY <2>1 DEF Types, Kept, TypeOK, Service, Loop, Places
  <2>3. NothingIsLost
    BY <2>1 DEF Kept, NothingIsLost
  <2>4. OldDataGoes
    <3> SUFFICES ASSUME NEW l \in Alive("cleanup"), loops[l].pc = "wait", loops[l].ok,
                        NEW t \in checks \cup alerts \cup Filled
                 PROVE  now - t <= Period + Day
      BY DEF OldDataGoes, Cleanable, Filled
    <3>1. NoneIsOld
      BY <2>1 DEF Cleaned, Alive
    <3>2. t \in Int /\ now \in Int
      BY <2>1, Numbers DEF Types, Filled
    <3> QED BY <2>1, <3>1, <3>2, ElapsedType, Numbers DEF NoneIsOld
  <2> QED BY <2>2, <2>3, <2>4 DEF DataAreSound
<1> QED BY <1>1, RetentionInvariant, PTL

(* However Start and Stop follow each other, a service that was not told   *)
(* to end has one loop when it runs and none when it does not, and one     *)
(* that was told to has at most one loop more: OneLoopEach.                *)
THEOREM LoopsAreSingle == Spec => []OneLoopEach
<1>1. RetentionInv => OneLoopEach
  <2> SUFFICES ASSUME RetentionInv, NEW s \in Services
               PROVE  LET loopsOf == Cardinality(Alive(s))
                          wanted == IF services[s].running THEN 1 ELSE 0
                      IN  /\ loopsOf <= wanted + (IF services[s].closed THEN 1 ELSE 0)
                          /\ ~services[s].closed /\ ~cancelled => loopsOf = wanted
    BY DEF OneLoopEach
  <2>1. /\ services[s].running \in BOOLEAN /\ services[s].closed \in BOOLEAN
        /\ ~services[s].closed /\ ~services[s].running => Alive(s) = {}
        /\ ~services[s].closed /\ services[s].running /\ ~cancelled =>
             \E l \in Loops : Alive(s) = {l}
        /\ ~services[s].closed \/ ~services[s].running =>
             Alive(s) = {} \/ \E l \in Loops : Alive(s) = {l}
        /\ services[s].closed /\ services[s].running =>
             \E k, l \in Loops : Alive(s) \in SUBSET {k, l}
    BY DEF RetentionInv, Types, Service, Lives
  <2>2. Cardinality({}) = 0 /\ \A l \in Loops : Cardinality({l}) = 1
    BY FS_Singleton, FS_EmptySet
  <2>3. ASSUME NEW k, NEW l PROVE IsFiniteSet({k, l}) /\ Cardinality({k, l}) <= 2
    <3>1. IsFiniteSet({k}) /\ Cardinality({k}) = 1 /\ {k, l} = {k} \cup {l}
      BY FS_Singleton
    <3> QED BY <3>1, FS_AddElement
  <2>4. ASSUME services[s].closed, services[s].running PROVE Cardinality(Alive(s)) <= 2
    <3>1. PICK k, l \in Loops : Alive(s) \in SUBSET {k, l}
      BY <2>1, <2>4
    <3>2. IsFiniteSet({k, l}) /\ Cardinality({k, l}) <= 2
      BY <2>3
    <3>3. IsFiniteSet(Alive(s)) /\ Cardinality(Alive(s)) <= Cardinality({k, l})
      BY <3>1, <3>2, FS_Subset
    <3>4. Cardinality(Alive(s)) \in Nat /\ Cardinality({k, l}) \in Nat
      BY <3>2, <3>3, FS_CardinalityType
    <3> QED BY <3>2, <3>3, <3>4
  <2>5. ASSUME ~services[s].closed \/ ~services[s].running
        PROVE  Cardinality(Alive(s)) = 0 \/ Cardinality(Alive(s)) = 1
    BY <2>1, <2>2, <2>5
  <2>6. CASE services[s].closed /\ services[s].running
    BY <2>4, <2>6
  <2>7. CASE services[s].closed /\ ~services[s].running
    BY <2>5, <2>7
  <2>8. CASE ~services[s].closed /\ services[s].running
    <3>1. ~cancelled => Cardinality(Alive(s)) = 1
      BY <2>1, <2>2, <2>8
    <3> QED BY <2>5, <2>8, <3>1
  <2>9. CASE ~services[s].closed /\ ~services[s].running
    <3>1. Cardinality(Alive(s)) = 0
      BY <2>1, <2>2, <2>9
    <3> QED BY <2>9, <3>1
  <2> QED BY <2>1, <2>6, <2>7, <2>8, <2>9
<1> QED BY <1>1, RetentionInvariant, PTL
=============================================================================
