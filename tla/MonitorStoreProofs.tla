------------------------- MODULE MonitorStoreProofs -------------------------
(***************************************************************************)
(* What the run of MCMonitorStore checks on two callers and three writes,  *)
(* for any number of them: how old and how wrong the copies of a monitor   *)
(* can be, that an enabled monitor is scheduled, and that a write has      *)
(* taken effect when it is reported.                                       *)
(***************************************************************************)
EXTENDS MonitorStore, SequenceTheorems, TLAPS

\* A row that was written: the last one is the row itself.
Past(r) ==
    /\ r \in Rows /\ r.config <= r.v /\ r.enabled <= r.v /\ r.v \in 1 .. Version
    /\ r.v = Version => r = row

AgesOK ==
    /\ ages \in Seq(0 .. Horizon) /\ Version <= MaxWrites
    /\ \A i, j \in 1 .. Version : i <= j => ages[j] <= ages[i]

RowOK ==
    /\ row # None => /\ row \in Rows /\ row.config <= row.v /\ row.enabled <= row.v
                     /\ row.v = Version /\ Version > 0
    /\ Version = 0 => row = None /\ key = None

\* A copy was the row for as long as it may live after the call that read it,
\* and another row only with an excuse.
KeyFits(k) ==
    /\ k \in Keys /\ Past(k.row)
    /\ Age(k.row) + k.left <= TTL + CallTime
    /\ k.row # row => k.excused \/ \E c \in Callers : calls[c].pc = "invalidate"
KeyOK == key # None => \A k \in {key} : KeyFits(k)

\* What the call x has read and is about to do.
Reading == {"lookup", "load", "fill", "write"}
CallOK(x) ==
    /\ x \in Calls
    /\ x.copy # None => Past(x.copy)
    /\ x.pc = "fill" => /\ x.copy # None /\ Age(x.copy) <= x.spent
                        /\ x.copy = row \/ x.shared
    /\ x.pc = "write" /\ x.op # "create" =>
         x.copy # None /\ Age(x.copy) < TTL + CallTime + x.spent
    /\ x.pc = "write" /\ x.op = "create" => Version = 0
    /\ x.op = "create" => x.pc \in {"write", "fill", "schedule"}
    /\ x.pc \in {"write", "invalidate", "schedule"} => x.op # "get"
    /\ (x.op = "switch" /\ x.pc \in Reading) \/ (x.op = "create" /\ x.pc = "write") =>
         "enabled" \in x.fields

\* A switch that no write ran into, in a calm.
Settled(x) ==
    x.op = "switch" /\ x.calm /\ ~x.shared =>
        /\ x.pc \in Reading => Version > 0 /\ ages[Version] >= TTL + CallTime
        /\ x.pc \in {"invalidate", "schedule"} => row # None /\ row.on = x.on

\* Every call knows of the writes that are under way with it.
Seen ==
    \A c, d \in Callers : c # d =>
        /\ Busy(c) /\ Writing(d) => calls[c].shared
        /\ ~(calls[c].op = "create" /\ calls[d].op = "create")

\* An enabled monitor without a job will get one, or it is known why not.
Pending(x) ==
    /\ x.wants
    /\ x.pc \in {"invalidate", "schedule"} \/ (x.pc = "fill" /\ x.op = "create")
PlanOK == On(row) /\ ~planned /\ ~missed => \E c \in Callers : Pending(calls[c])

CallsOK ==
    /\ calls \in [Callers -> Calls]
    /\ \A c \in Callers : \A x \in {calls[c]} : CallOK(x) /\ Settled(x)

StoreInv ==
    /\ AgesOK /\ RowOK /\ KeyOK /\ CallsOK /\ Seen /\ PlanOK
    /\ planned \in BOOLEAN /\ missed \in BOOLEAN /\ errors \in 0 .. MaxErrors

----------------------------------------------------------------------------
LEMMA Numbers ==
  /\ TTL \in Nat /\ TTL > 0 /\ CallTime \in Nat /\ MaxWrites \in Nat /\ MaxErrors \in Nat
  /\ Horizon \in Nat /\ Horizon = TTL + 2 * CallTime /\ None \notin Rows
<1>1. Rows \in SUBSET [config : Nat, enabled : Nat, on : BOOLEAN, v : Nat]
  BY StoreAssumption DEF Rows, Versions
<1>2. TTL \in Nat /\ CallTime \in Nat /\ MaxWrites \in Nat /\ MaxErrors \in Nat
  BY StoreAssumption
<1> QED BY <1>1, <1>2, StoreAssumption DEF Horizon

LEMMA AgeType ==
  ASSUME AgesOK, NEW r, Past(r)
  PROVE  /\ Age(r) \in 0 .. Horizon /\ Version \in Nat
         /\ r.v = Version => Age(r) = 0
         /\ r.v # Version => Age(r) >= ages[Version] /\ Age(r) = ages[r.v + 1]
                               /\ r.v + 1 \in 1 .. Version
<1>1. ages \in Seq(0 .. Horizon) /\ Version = Len(ages) /\ Horizon \in Nat
  BY Numbers DEF AgesOK, Version
<1>2. /\ Version \in Nat /\ r.v \in 1 .. Version
      /\ \A i \in 1 .. Version : ages[i] \in 0 .. Horizon
  BY <1>1 DEF Past
<1>3. CASE r.v = Version
  BY <1>1, <1>2, <1>3 DEF Age
<1>4. CASE r.v # Version
  <2>1. r.v + 1 \in 1 .. Version /\ Version \in 1 .. Version /\ r.v + 1 <= Version
    BY <1>2, <1>4
  <2>2. Age(r) = ages[r.v + 1]
    BY <1>4 DEF Age
  <2>3. ages[Version] <= ages[r.v + 1]
    BY <2>1 DEF AgesOK
  <2> QED BY <1>2, <1>4, <2>1, <2>2, <2>3
<1> QED BY <1>3, <1>4

(* A row is as old as it was while nothing is written.                     *)
LEMMA Quiet ==
  ASSUME UNCHANGED <<row, ages>>
  PROVE  /\ Version' = Version /\ AgesOK' = AgesOK
         /\ \A r : Past(r)' = Past(r) /\ Age(r)' = Age(r)
         /\ \A x : CallOK(x)' = CallOK(x) /\ Settled(x)' = Settled(x)
<1>1. Version' = Version
  BY DEF Version
<1>2. AgesOK' = AgesOK
  BY <1>1 DEF AgesOK
<1>3. \A r : Past(r)' = Past(r) /\ Age(r)' = Age(r)
  BY <1>1 DEF Past, Age
<1>4. \A x : CallOK(x)' = CallOK(x) /\ Settled(x)' = Settled(x)
  BY <1>1, <1>3 DEF CallOK, Settled
<1> QED BY <1>1, <1>2, <1>3, <1>4

Pcs == {"idle", "lookup", "load", "fill", "write", "invalidate", "schedule"}

LEMMA IdleOK == Idle.pc = "idle" /\ Idle.copy = None /\ CallOK(Idle) /\ Settled(Idle) /\ ~Pending(Idle)
<1>1. /\ Idle.pc = "idle" /\ Idle.op = "get" /\ Idle.fields = {} /\ Idle.on = FALSE
      /\ Idle.copy = None /\ Idle.spent = 0 /\ Idle.sure = FALSE /\ Idle.wants = FALSE
      /\ Idle.shared = FALSE /\ Idle.calm = FALSE
  BY DEF Idle
<1>2. Idle \in Calls
  BY Numbers DEF Idle, Calls, Ops
<1> QED BY <1>1, <1>2 DEF CallOK, Settled, Pending, Reading

(* The call goes on.                                                       *)
LEMMA AtStep ==
  ASSUME NEW w \in Calls, NEW pc \in Pcs, pc # "idle"
  PROVE  /\ At(w, "idle") = Idle
         /\ At(w, pc) \in Calls /\ At(w, pc).pc = pc /\ At(w, pc).op = w.op
         /\ At(w, pc).fields = w.fields /\ At(w, pc).on = w.on /\ At(w, pc).copy = w.copy
         /\ At(w, pc).spent = w.spent /\ At(w, pc).sure = w.sure /\ At(w, pc).wants = w.wants
         /\ At(w, pc).shared = w.shared /\ At(w, pc).calm = w.calm
<1>1. At(w, "idle") = Idle
  BY DEF At
<1>2. PICK x : x = [w EXCEPT !.pc = pc]
  OBVIOUS
<1>3. x = At(w, pc)
  BY <1>2 DEF At
<1>4. /\ x \in Calls /\ x.pc = pc /\ x.op = w.op
      /\ x.fields = w.fields /\ x.on = w.on /\ x.copy = w.copy
      /\ x.spent = w.spent /\ x.sure = w.sure /\ x.wants = w.wants
      /\ x.shared = w.shared /\ x.calm = w.calm
  <2>1. pc \in {"idle", "lookup", "load", "fill", "write", "invalidate", "schedule"}
    BY DEF Pcs
  <2> HIDE DEF Rows
  <2> QED BY <1>2, <2>1 DEF Calls
<1> QED BY <1>1, <1>3, <1>4

\* What the call has read is put down.
Put(w, r, b) == [w EXCEPT !.copy = r, !.sure = b]

LEMMA CopyStep ==
  ASSUME NEW w \in Calls, NEW r \in Rows \cup {None}, NEW b \in BOOLEAN
  PROVE  LET x == Put(w, r, b)
         IN  /\ x \in Calls /\ x.pc = w.pc /\ x.op = w.op
             /\ x.fields = w.fields /\ x.on = w.on /\ x.copy = r
             /\ x.spent = w.spent /\ x.sure = b /\ x.wants = w.wants
             /\ x.shared = w.shared /\ x.calm = w.calm
<1>1. PICK x : x = [w EXCEPT !.copy = r, !.sure = b]
  OBVIOUS
<1>2. PICK R : R = Rows \cup {None}
  OBVIOUS
<1>3. /\ x \in Calls /\ x.pc = w.pc /\ x.op = w.op
      /\ x.fields = w.fields /\ x.on = w.on /\ x.copy = r
      /\ x.spent = w.spent /\ x.sure = b /\ x.wants = w.wants
      /\ x.shared = w.shared /\ x.calm = w.calm
  BY <1>1, <1>2 DEF Calls
<1> QED BY <1>1, <1>3 DEF Put

LEMMA PutCopy ==
  ASSUME NEW w \in Calls, NEW r
  PROVE  Put(w, r, w.sure) = [w EXCEPT !.copy = r]
<1>1. PICK R, S : R = Rows /\ S = SUBSET Settable
  OBVIOUS
<1> QED BY <1>1 DEF Put, Calls

(* The copy is left alone, or dropped, or known to be wrong.               *)
LEMMA KeyExcused ==
  ASSUME key # None, key \in Keys
  PROVE  /\ Unwanted \in Keys /\ Unwanted.row = key.row /\ Unwanted.left = key.left
         /\ Unwanted.excused = TRUE
<1>1. PICK R : R = Rows
  OBVIOUS
<1>2. PICK x : x = [key EXCEPT !.excused = TRUE]
  OBVIOUS
<1>3. x \in Keys /\ x.row = key.row /\ x.left = key.left /\ x.excused = TRUE
  BY <1>1, <1>2 DEF Keys
<1>4. Unwanted = x
  BY <1>2 DEF Unwanted
<1> QED BY <1>3, <1>4

LEMMA KeyKept ==
  ASSUME StoreInv, UNCHANGED <<row, ages>>,
         \/ key' = None \/ key' = Unwanted
         \/ key' = key /\ \A c \in Callers :
                            calls[c].pc = "invalidate" => calls'[c].pc = "invalidate"
  PROVE  KeyOK' /\ (Version' = 0 => key' = None)
<1>1. /\ Version' = Version
      /\ \A r : Past(r)' = Past(r) /\ Age(r)' = Age(r)
  BY Quiet
<1>2. Version' = 0 => key' = None
  BY <1>1 DEF StoreInv, RowOK, Unwanted
<1>3. ASSUME key # None, key' # None PROVE KeyOK'
  <2>1. PICK k : k = key
    OBVIOUS
  <2>2. KeyFits(k) /\ k \in Keys
    BY <1>3, <2>1 DEF StoreInv, KeyOK, KeyFits
  <2>3. PICK m : m = key'
    OBVIOUS
  <2>4. m \in Keys /\ m.row = k.row /\ m.left = k.left /\ (m.excused \/ m = k)
    BY <1>3, <2>1, <2>2, <2>3, KeyExcused
  <2>5. Past(m.row)' /\ Age(m.row)' + m.left <= TTL + CallTime
    BY <1>1, <2>2, <2>4 DEF KeyFits
  <2>6. m.row # row => m.excused \/ \E c \in Callers : calls'[c].pc = "invalidate"
    <3>1. CASE m = Unwanted
      BY <1>3, <3>1, <2>1, <2>2, KeyExcused
    <3>2. CASE m # Unwanted
      BY <3>2, <1>3, <2>1, <2>2, <2>3, <2>4 DEF KeyFits
    <3> QED BY <3>1, <3>2
  <2>7. KeyFits(m)'
    BY <2>4, <2>5, <2>6 DEF KeyFits
  <2> QED BY <2>3, <2>7 DEF KeyOK
<1>4. CASE key = None
  BY <1>4 DEF Unwanted, KeyOK
<1> QED BY <1>2, <1>3, <1>4 DEF KeyOK

(* One call goes on while no row is written.                               *)
LEMMA QuietStep ==
  ASSUME StoreInv, NEW c \in Callers, NEW x,
         calls' = [calls EXCEPT ![c] = x], UNCHANGED <<row, ages>>,
         CallOK(x), Settled(x),
         \/ x = Idle
         \/ Busy(c) /\ x.op = calls[c].op /\ x.shared = calls[c].shared,
         KeyOK' /\ (Version' = 0 => key' = None), PlanOK',
         planned' \in BOOLEAN, missed' \in BOOLEAN, errors' \in 0 .. MaxErrors
  PROVE  StoreInv'
<1>1. /\ AgesOK' /\ Version' = Version
      /\ \A r : Past(r)' = Past(r) /\ Age(r)' = Age(r)
      /\ \A y : CallOK(y)' = CallOK(y) /\ Settled(y)' = Settled(y)
  BY Quiet DEF StoreInv
<1>2. RowOK'
  BY <1>1 DEF StoreInv, RowOK
<1>3. /\ \A d \in Callers \ {c} : calls'[d] = calls[d]
      /\ calls'[c] = x /\ calls' \in [Callers -> Calls]
  BY DEF StoreInv, CallsOK, CallOK
<1>4. CallsOK'
  <2>1. ASSUME NEW d \in Callers, NEW y \in {calls'[d]} PROVE CallOK(y) /\ Settled(y)
    <3>1. CASE d = c
      BY <3>1, <2>1, <1>3
    <3>2. CASE d # c
      BY <3>2, <2>1, <1>3 DEF StoreInv, CallsOK
    <3> QED BY <3>1, <3>2
  <2>2. \A d \in Callers : \A y \in {calls'[d]} : CallOK(y)' /\ Settled(y)'
    BY <2>1, <1>1
  <2> QED BY <1>3, <2>2 DEF CallsOK
<1>5. Seen'
  <2>1. Idle.pc = "idle" /\ Idle.op = "get"
    BY DEF Idle
  <2>2. ASSUME NEW d \in Callers, NEW e \in Callers, d # e
        PROVE  /\ Busy(d)' /\ Writing(e)' => calls'[d].shared
               /\ ~(calls'[d].op = "create" /\ calls'[e].op = "create")
    <3>1. \A f \in Callers : calls'[f].op = "create" => calls[f].op = "create"
      BY <1>3, <2>1
    <3>2. \A f \in Callers : Busy(f)' => Busy(f) /\ calls'[f].shared = calls[f].shared
                                                 /\ calls'[f].op = calls[f].op
      BY <1>3, <2>1 DEF Busy
    <3> QED BY <2>2, <3>1, <3>2 DEF StoreInv, Seen, Writing
  <2> QED BY <2>2 DEF Seen
<1> QED BY <1>1, <1>2, <1>4, <1>5 DEF StoreInv

LEMMA PlanKept ==
  ASSUME StoreInv, NEW c \in Callers, NEW x,
         calls' = [calls EXCEPT ![c] = x], UNCHANGED <<row, planned, missed>>,
         Pending(calls[c]) => Pending(x)
  PROVE  PlanOK' /\ planned' \in BOOLEAN /\ missed' \in BOOLEAN
<1>1. ASSUME On(row)', ~planned', ~missed'
      PROVE  \E d \in Callers : Pending(calls'[d])
  <2>1. PICK d \in Callers : Pending(calls[d])
    BY <1>1 DEF StoreInv, PlanOK, On
  <2>2. Pending(calls'[d])
    BY <2>1 DEF StoreInv, CallsOK
  <2> QED BY <2>2
<1>2. PlanOK'
  BY <1>1 DEF PlanOK, Pending
<1> QED BY <1>2 DEF StoreInv

(* A call that has nothing left to do, or whose outcome is an error.       *)
LEMMA EndStep ==
  ASSUME StoreInv, NEW c \in Callers, Go(c, "idle"), UNCHANGED <<row, ages>>,
         KeyOK' /\ (Version' = 0 => key' = None), PlanOK',
         planned' \in BOOLEAN, missed' \in BOOLEAN, errors' \in 0 .. MaxErrors
  PROVE  StoreInv'
<1>1. PICK x : x = Idle
  OBVIOUS
<1>2. calls' = [calls EXCEPT ![c] = x]
  BY <1>1 DEF Go, At
<1>3. CallOK(x) /\ Settled(x)
  BY <1>1, IdleOK
<1> QED BY <1>1, <1>2, <1>3, QuietStep

(* What is known of the call of c.                                         *)
LEMMA CallIs ==
  ASSUME StoreInv, NEW c \in Callers
  PROVE  calls[c] \in Calls /\ CallOK(calls[c]) /\ Settled(calls[c])
         /\ calls \in [Callers -> Calls]
BY DEF StoreInv, CallsOK

LEMMA FailType ==
  ASSUME errors \in 0 .. MaxErrors, Fail \/ UNCHANGED errors
  PROVE  errors' \in 0 .. MaxErrors
BY Numbers DEF Fail

(* The caller goes on with a row that the monitor had lately.              *)
LEMMA ProceedStep ==
  ASSUME StoreInv, NEW c \in Callers, NEW r, Proceed(c, r), UNCHANGED <<row, ages, planned, missed>>,
         calls[c].pc \in {"lookup", "fill"}, calls[c].op # "create",
         Past(r), Age(r) < TTL + CallTime + calls[c].spent,
         KeyOK' /\ (Version' = 0 => key' = None), Fail \/ UNCHANGED errors
  PROVE  StoreInv'
<1>1. PICK w : w = calls[c]
  OBVIOUS
<1>2. w \in Calls /\ CallOK(w) /\ Settled(w) /\ w.pc \in {"lookup", "fill"} /\ w.op # "create"
  BY <1>1, CallIs
<1>3. PICK next : next = CASE w.op = "get" -> "idle"
                           [] w.op = "switch" /\ ~w.sure ->
                                IF r.on = w.on THEN "idle" ELSE "lookup"
                           [] OTHER -> "write"
  OBVIOUS
<1>4. /\ next \in {"idle", "lookup", "write"}
      /\ next = "lookup" => w.op = "switch"
      /\ next = "write" => w.op # "get"
  BY <1>3
<1>5. PICK copy : copy = IF next = "lookup" THEN None ELSE r
  OBVIOUS
<1>6. copy \in Rows \cup {None} /\ (copy # None => Past(copy))
  BY <1>5 DEF Past
<1>7. PICK y : y = [w EXCEPT !.copy = copy, !.sure = (w.op = "switch")]
  OBVIOUS
<1>8. /\ y \in Calls /\ y.pc = w.pc /\ y.op = w.op /\ y.fields = w.fields /\ y.on = w.on
      /\ y.copy = copy /\ y.spent = w.spent /\ y.wants = w.wants
      /\ y.shared = w.shared /\ y.calm = w.calm
  <2>1. PICK b \in BOOLEAN : b = (w.op = "switch")
    OBVIOUS
  <2>2. y = Put(w, copy, b)
    BY <1>7, <2>1 DEF Put
  <2> QED BY <1>2, <1>6, <2>2, CopyStep
<1>9. PICK x : x = At(y, next)
  OBVIOUS
<1>10. calls' = [calls EXCEPT ![c] = x]
  <2>1. x = At([w EXCEPT !.copy = IF next = "lookup" THEN None ELSE r,
                         !.sure = (w.op = "switch")], next)
    BY <1>5, <1>7, <1>9
  <2> QED BY <1>1, <1>3, <2>1 DEF Proceed
<1>11. errors' \in 0 .. MaxErrors /\ ~Pending(w)
  BY <1>2, FailType DEF StoreInv, Pending
<1>12. PlanOK' /\ planned' \in BOOLEAN /\ missed' \in BOOLEAN
  BY <1>1, <1>10, <1>11, PlanKept
<1>13. CASE next = "idle"
  <2>1. x = Idle
    BY <1>9, <1>13 DEF At
  <2> QED BY <2>1, <1>10, <1>11, <1>12, IdleOK, QuietStep
<1>14. CASE next # "idle"
  <2>1. next \in Pcs
    BY <1>4 DEF Pcs
  <2>2. /\ x \in Calls /\ x.pc = next /\ x.op = w.op /\ x.fields = w.fields /\ x.on = w.on
        /\ x.copy = copy /\ x.spent = w.spent /\ x.wants = w.wants
        /\ x.shared = w.shared /\ x.calm = w.calm
    BY <1>8, <1>9, <1>14, <2>1, AtStep
  <2>3. next = "write" => copy # None /\ Age(copy) < TTL + CallTime + w.spent
    <3>1. r # None
      BY Numbers DEF Past
    <3>2. w.spent = calls[c].spent
      BY <1>1
    <3> QED BY <1>5, <3>1, <3>2
  <2>4. CallOK(x)
    BY <1>2, <1>4, <1>6, <1>14, <2>2, <2>3 DEF CallOK, Reading
  <2>5. Settled(x)
    BY <1>2, <1>4, <1>14, <2>2 DEF Settled, Reading
  <2>6. Busy(c)
    BY <1>1, <1>2 DEF Busy
  <2> QED BY <1>1, <1>10, <1>11, <1>12, <2>2, <2>4, <2>5, <2>6, QuietStep
<1> QED BY <1>13, <1>14

LEMMA LookupStep ==
  ASSUME StoreInv, NEW c \in Callers, Lookup(c)
  PROVE  StoreInv'
<1>1. calls[c].pc = "lookup" /\ UNCHANGED <<row, key, ages, planned, missed>>
  BY DEF Lookup
<1>2. /\ calls[c] \in Calls /\ CallOK(calls[c]) /\ Settled(calls[c])
      /\ calls[c].op # "create" /\ calls[c].spent \in Nat
  BY <1>1, CallIs, Numbers DEF CallOK, Calls
<1>3. ASSUME \A d \in Callers : d # c => calls'[d] = calls[d]
      PROVE  KeyOK' /\ (Version' = 0 => key' = None)
  BY <1>1, <1>3, KeyKept
<1>4. CASE Hit /\ Proceed(c, key.row)
  <2>1. PICK r : r = key.row
    OBVIOUS
  <2>2. Past(r) /\ Age(r) < TTL + CallTime
    <3>1. KeyFits(key)
      BY <1>4 DEF Hit, StoreInv, KeyOK
    <3>2. Past(r) /\ Age(r) + key.left <= TTL + CallTime /\ key.left \in 1 .. TTL
      BY <2>1, <3>1 DEF KeyFits, Keys
    <3>3. Age(r) \in Nat
      BY <3>2, AgeType, Numbers DEF StoreInv
    <3> QED BY <3>2, <3>3, Numbers
  <2>3. Age(r) < TTL + CallTime + calls[c].spent
    <3>1. Age(r) \in Nat
      BY <2>2, AgeType, Numbers DEF StoreInv
    <3> QED BY <1>2, <2>2, <3>1, Numbers
  <2>4. \A d \in Callers : d # c => calls'[d] = calls[d]
    BY <1>4, CallIs DEF Proceed
  <2> QED BY <1>1, <1>2, <1>3, <1>4, <2>1, <2>2, <2>3, <2>4, ProceedStep DEF Hit
<1>5. CASE Miss /\ Go(c, "load")
  <2>1. PICK w : w = calls[c]
    OBVIOUS
  <2>2. PICK x : x = At(w, "load")
    OBVIOUS
  <2>3. calls' = [calls EXCEPT ![c] = x]
    BY <1>5, <2>1, <2>2 DEF Go
  <2>4. /\ x \in Calls /\ x.pc = "load" /\ x.op = w.op /\ x.fields = w.fields /\ x.on = w.on
        /\ x.copy = w.copy /\ x.spent = w.spent /\ x.wants = w.wants
        /\ x.shared = w.shared /\ x.calm = w.calm
    BY <1>2, <2>1, <2>2, AtStep DEF Pcs
  <2>5. CallOK(x)
    BY <1>1, <1>2, <2>1, <2>4 DEF CallOK, Reading
  <2>6. Settled(x) /\ Busy(c) /\ ~Pending(w)
    BY <1>1, <1>2, <2>1, <2>4 DEF Settled, Reading, Busy, Pending
  <2>7. errors' \in 0 .. MaxErrors
    BY <1>5, FailType DEF StoreInv, Miss
  <2>8. PlanOK' /\ planned' \in BOOLEAN /\ missed' \in BOOLEAN
    BY <1>1, <2>1, <2>3, <2>6, PlanKept
  <2>9. \A d \in Callers : d # c => calls'[d] = calls[d]
    BY <2>3, CallIs
  <2> QED BY <1>1, <1>3, <2>1, <2>3, <2>4, <2>5, <2>6, <2>7, <2>8, <2>9, QuietStep
<1> QED BY <1>4, <1>5 DEF Lookup

LEMMA LoadStep ==
  ASSUME StoreInv, NEW c \in Callers, Load(c)
  PROVE  StoreInv'
<1>1. calls[c].pc = "load" /\ UNCHANGED <<row, key, ages, planned, missed>>
  BY DEF Load
<1>2. calls[c] \in Calls /\ CallOK(calls[c]) /\ Settled(calls[c])
  BY CallIs
<1>3. errors' \in 0 .. MaxErrors
  BY FailType DEF StoreInv, Load
<1>4. ASSUME NEW x, calls' = [calls EXCEPT ![c] = x]
      PROVE  /\ KeyOK' /\ (Version' = 0 => key' = None)
             /\ PlanOK' /\ planned' \in BOOLEAN /\ missed' \in BOOLEAN
  <2>1. \A d \in Callers : d # c => calls'[d] = calls[d]
    BY <1>4, CallIs
  <2>2. ~Pending(calls[c])
    BY <1>1 DEF Pending
  <2> QED BY <1>1, <1>4, <2>1, <2>2, KeyKept, PlanKept
<1>5. CASE Go(c, "idle")
  <2>1. PICK x : x = Idle
    OBVIOUS
  <2>2. calls' = [calls EXCEPT ![c] = x]
    BY <1>5, <2>1 DEF Go, At
  <2> QED BY <1>1, <1>3, <1>4, <1>5, <2>2, EndStep
<1>6. CASE row # None /\ calls' = [calls EXCEPT ![c] = At([@ EXCEPT !.copy = row], "fill")]
  <2>1. PICK w : w = calls[c]
    OBVIOUS
  <2>2. PICK r : r = row
    OBVIOUS
  <2>3. Past(r) /\ Age(r) = 0 /\ r \in Rows /\ r # None
    <3>1. AgesOK /\ RowOK
      BY DEF StoreInv
    <3>2. Past(r)
      <4>1. Version \in Nat
        BY <3>1 DEF AgesOK, Version
      <4> QED BY <1>6, <2>2, <3>1, <4>1 DEF RowOK, Past
    <3>3. r.v = Version
      BY <1>6, <2>2, <3>1 DEF RowOK
    <3> QED BY <1>6, <2>2, <3>1, <3>2, <3>3, AgeType DEF Past
  <2>4. PICK y : y = Put(w, r, w.sure)
    OBVIOUS
  <2>5. PICK x : x = At(y, "fill")
    OBVIOUS
  <2>6. calls' = [calls EXCEPT ![c] = x]
    <3>1. y = [w EXCEPT !.copy = r]
      BY <1>2, <2>1, <2>4, PutCopy
    <3> QED BY <1>6, <2>1, <2>2, <2>5, <3>1
  <2>7. /\ x \in Calls /\ x.pc = "fill" /\ x.op = w.op /\ x.fields = w.fields
        /\ x.copy = r /\ x.spent = w.spent /\ x.shared = w.shared /\ x.calm = w.calm
    <3>1. w.sure \in BOOLEAN /\ "fill" \in Pcs /\ "fill" # "idle"
      BY <1>2, <2>1 DEF Calls, Pcs
    <3>2. /\ y \in Calls /\ y.op = w.op /\ y.fields = w.fields
          /\ y.copy = r /\ y.spent = w.spent /\ y.shared = w.shared /\ y.calm = w.calm
      BY <1>2, <2>1, <2>3, <2>4, <3>1, CopyStep
    <3> QED BY <2>5, <3>1, <3>2, AtStep
  <2>8. CallOK(x)
    <3>1. w.spent \in Nat
      BY <1>2, <2>1, Numbers DEF Calls
    <3> QED BY <1>1, <1>2, <2>1, <2>2, <2>3, <2>7, <3>1 DEF CallOK, Reading
  <2>9. Settled(x) /\ Busy(c)
    BY <1>1, <1>2, <2>1, <2>7 DEF Settled, Reading, Busy
  <2> QED BY <1>1, <1>3, <1>4, <2>1, <2>6, <2>7, <2>8, <2>9, QuietStep
<1> QED BY <1>5, <1>6 DEF Load

LEMMA FillStep ==
  ASSUME StoreInv, NEW c \in Callers, Fill(c)
  PROVE  StoreInv'
<1>1. calls[c].pc = "fill" /\ UNCHANGED <<row, ages, planned, missed>>
  BY DEF Fill
<1>2. PICK w : w = calls[c]
  OBVIOUS
<1>3. /\ w \in Calls /\ CallOK(w) /\ Settled(w) /\ w.pc = "fill" /\ Past(w.copy)
      /\ Age(w.copy) <= w.spent /\ w.spent \in 0 .. CallTime
      /\ (w.copy = row \/ w.shared) /\ w.shared \in BOOLEAN /\ w.copy \in Rows
  BY <1>1, <1>2, CallIs DEF CallOK, Calls, Past
<1>4. errors' \in 0 .. MaxErrors /\ (Fail \/ UNCHANGED errors)
  BY FailType DEF StoreInv, Fill, SetJSON
<1>5. Age(w.copy) \in Nat /\ AgesOK
  BY <1>3, AgeType, Numbers DEF StoreInv
<1>6. ASSUME \A d \in Callers : d # c => calls'[d] = calls[d]
      PROVE  KeyOK' /\ (Version' = 0 => key' = None)
  <2>1. PICK k : k = CacheMonitor(w)
    OBVIOUS
  <2>2. CASE key' = k
    <3>1. k \in Keys /\ k.row = w.copy /\ k.left = TTL /\ k.excused = w.shared
      BY <1>3, <2>1, Numbers DEF CacheMonitor, Keys
    <3>2. Past(k.row)' /\ Age(k.row)' + k.left <= TTL + CallTime /\ Version' > 0
      <4>1. Past(k.row) /\ Age(k.row) + k.left <= TTL + CallTime
        BY <1>3, <1>5, <3>1, Numbers
      <4>2. Version \in Nat /\ Version > 0
        BY <4>1, <1>5 DEF Past, AgesOK, Version
      <4> QED BY <1>1, <4>1, <4>2, Quiet
    <3>3. k.row # row => k.excused
      BY <1>3, <3>1
    <3>4. KeyFits(k)'
      BY <1>1, <3>1, <3>2, <3>3 DEF KeyFits
    <3>5. Version' # 0
      BY <3>2
    <3> QED BY <2>2, <3>4, <3>5 DEF KeyOK
  <2>3. CASE key' = key
    BY <1>1, <1>6, <2>3, KeyKept
  <2> QED BY <1>2, <2>1, <2>2, <2>3 DEF Fill, SetJSON
<1>7. CASE w.op # "create"
  <2>1. Proceed(c, w.copy)
    BY <1>2, <1>7 DEF Fill
  <2>2. Age(w.copy) < TTL + CallTime + w.spent
    BY <1>3, <1>5, Numbers
  <2>3. \A d \in Callers : d # c => calls'[d] = calls[d]
    BY <2>1, CallIs DEF Proceed
  <2>4. PICK r : r = w.copy
    OBVIOUS
  <2> QED BY <1>1, <1>2, <1>3, <1>4, <1>6, <1>7, <2>1, <2>2, <2>3, <2>4, ProceedStep
<1>8. CASE w.op = "create"
  <2>1. PICK y : y = Put(w, None, w.sure)
    OBVIOUS
  <2>2. PICK x : x = At(y, Last(w))
    OBVIOUS
  <2>3. calls' = [calls EXCEPT ![c] = x]
    <3>1. y = [w EXCEPT !.copy = None]
      BY <1>3, <2>1, PutCopy
    <3> QED BY <1>2, <1>8, <2>2, <3>1 DEF Fill
  <2>4. KeyOK' /\ (Version' = 0 => key' = None)
    BY <2>3, <1>6, CallIs
  <2>5. CASE w.wants
    <3>1. Last(w) = "schedule" /\ "schedule" \in Pcs /\ "schedule" # "idle" /\ w.sure \in BOOLEAN
      BY <1>3, <2>5 DEF Last, Pcs, Calls
    <3>2. /\ y \in Calls /\ y.op = w.op /\ y.fields = w.fields /\ y.copy = None
          /\ y.spent = w.spent /\ y.shared = w.shared /\ y.wants = w.wants
      <4>1. PICK b \in BOOLEAN : b = w.sure
        BY <3>1
      <4>2. y = Put(w, None, b) /\ None \in Rows \cup {None} /\ w \in Calls
        BY <1>3, <2>1, <4>1
      <4> QED BY <4>2, CopyStep
    <3>3. /\ x \in Calls /\ x.pc = "schedule" /\ x.op = w.op /\ x.fields = w.fields
          /\ x.copy = None /\ x.spent = w.spent /\ x.shared = w.shared /\ x.wants = w.wants
      BY <2>2, <3>1, <3>2, AtStep
    <3>4. CallOK(x) /\ Settled(x) /\ Pending(x) /\ Busy(c)
      BY <1>1, <1>8, <2>5, <3>3 DEF CallOK, Reading, Settled, Pending, Busy
    <3>5. PlanOK' /\ planned' \in BOOLEAN /\ missed' \in BOOLEAN
      BY <1>1, <2>3, <3>4, PlanKept
    <3> QED BY <1>1, <1>2, <1>4, <2>3, <2>4, <3>3, <3>4, <3>5, QuietStep
  <2>6. CASE ~w.wants
    <3>1. x = Idle
      BY <2>2, <2>6 DEF Last, At
    <3>2. ~Pending(calls[c])
      BY <1>2, <2>6 DEF Pending
    <3>3. PlanOK' /\ planned' \in BOOLEAN /\ missed' \in BOOLEAN
      BY <1>1, <2>3, <3>2, PlanKept
    <3> QED BY <1>1, <1>4, <2>3, <2>4, <3>1, <3>3, IdleOK, QuietStep
  <2> QED BY <2>5, <2>6
<1> QED BY <1>7, <1>8

LEMMA InvalidStep ==
  ASSUME StoreInv, NEW c \in Callers, Invalid(c)
  PROVE  StoreInv'
<1>1. /\ calls[c].pc = "write" /\ Go(c, "idle")
      /\ UNCHANGED <<row, key, ages, planned, missed, errors>>
  BY DEF Invalid
<1>2. PICK x : x = Idle
  OBVIOUS
<1>3. calls' = [calls EXCEPT ![c] = x]
  BY <1>1, <1>2 DEF Go, At
<1>4. ~Pending(calls[c]) /\ \A d \in Callers : d # c => calls'[d] = calls[d]
  BY <1>1, <1>3, CallIs DEF Pending
<1>5. KeyOK' /\ (Version' = 0 => key' = None)
  BY <1>1, <1>4, KeyKept
<1>6. PlanOK' /\ planned' \in BOOLEAN /\ missed' \in BOOLEAN
  BY <1>1, <1>3, <1>4, PlanKept
<1> QED BY <1>1, <1>5, <1>6, EndStep DEF StoreInv

LEMMA InvalidateStep ==
  ASSUME StoreInv, NEW c \in Callers, Invalidate(c)
  PROVE  StoreInv'
<1>1. /\ calls[c].pc = "invalidate" /\ Go(c, Last(calls[c]))
      /\ UNCHANGED <<row, ages, planned, missed>> /\ (key' = None \/ key' = Unwanted)
      /\ Fail \/ UNCHANGED errors
  BY DEF Invalidate, Del
<1>2. PICK w : w = calls[c]
  OBVIOUS
<1>3. PICK x : x = At(w, Last(w))
  OBVIOUS
<1>4. calls' = [calls EXCEPT ![c] = x]
  BY <1>1, <1>2, <1>3 DEF Go
<1>5. KeyOK' /\ (Version' = 0 => key' = None) /\ errors' \in 0 .. MaxErrors
  BY <1>1, KeyKept, FailType DEF StoreInv
<1>6. w \in Calls /\ CallOK(w) /\ Settled(w) /\ w.pc = "invalidate"
  BY <1>1, <1>2, CallIs
<1>7. CASE w.wants
  <2>1. Last(w) = "schedule" /\ "schedule" \in Pcs /\ "schedule" # "idle"
    BY <1>7 DEF Last, Pcs
  <2>2. /\ x \in Calls /\ x.pc = "schedule" /\ x.op = w.op /\ x.fields = w.fields
        /\ x.on = w.on /\ x.copy = w.copy /\ x.spent = w.spent /\ x.shared = w.shared
        /\ x.wants = w.wants /\ x.calm = w.calm
    BY <1>3, <1>6, <2>1, AtStep
  <2>3. CallOK(x) /\ Settled(x) /\ Pending(x) /\ Busy(c)
    BY <1>1, <1>6, <1>7, <2>2 DEF CallOK, Reading, Settled, Pending, Busy
  <2>4. PlanOK' /\ planned' \in BOOLEAN /\ missed' \in BOOLEAN
    BY <1>1, <1>4, <2>3, PlanKept
  <2> QED BY <1>1, <1>2, <1>4, <1>5, <2>2, <2>3, <2>4, QuietStep
<1>8. CASE ~w.wants
  <2>1. x = Idle
    BY <1>3, <1>8 DEF Last, At
  <2>2. ~Pending(calls[c])
    BY <1>2, <1>8 DEF Pending
  <2>3. PlanOK' /\ planned' \in BOOLEAN /\ missed' \in BOOLEAN
    BY <1>1, <1>4, <2>2, PlanKept
  <2> QED BY <1>1, <1>4, <1>5, <2>1, <2>3, IdleOK, QuietStep
<1> QED BY <1>7, <1>8

LEMMA ScheduleStep ==
  ASSUME StoreInv, NEW c \in Callers, Schedule(c)
  PROVE  StoreInv'
<1>1. calls[c].pc = "schedule" /\ Go(c, "idle") /\ UNCHANGED <<row, key, ages>>
  BY DEF Schedule
<1>2. errors' \in 0 .. MaxErrors
  BY FailType DEF StoreInv, Schedule
<1>3. \A d \in Callers : d # c => calls'[d] = calls[d]
  BY <1>1, CallIs DEF Go
<1>4. KeyOK' /\ (Version' = 0 => key' = None)
  BY <1>1, <1>3, KeyKept
<1>5. On(row)' = On(row) /\ On(row) \in BOOLEAN
  BY <1>1 DEF On, StoreInv, RowOK, Rows
<1>6. planned' \in BOOLEAN /\ missed' \in BOOLEAN /\ ~(On(row) /\ ~planned' /\ ~missed')
  <2>1. CASE planned' = On(row) /\ missed' = FALSE
    BY <1>5, <2>1
  <2>2. CASE missed' = (On(row) /\ ~planned) /\ UNCHANGED planned
    BY <1>5, <2>2 DEF StoreInv
  <2> QED BY <2>1, <2>2 DEF Schedule
<1>7. PlanOK'
  BY <1>5, <1>6 DEF PlanOK
<1> QED BY <1>1, <1>2, <1>4, <1>6, <1>7, EndStep

\* A write begins while the call w is under way.
Sharing(w) == [w EXCEPT !.shared = TRUE]

LEMMA SharingStep ==
  ASSUME NEW w \in Calls
  PROVE  LET x == Sharing(w)
         IN  /\ x \in Calls /\ x.pc = w.pc /\ x.op = w.op
             /\ x.fields = w.fields /\ x.on = w.on /\ x.copy = w.copy
             /\ x.spent = w.spent /\ x.sure = w.sure /\ x.wants = w.wants
             /\ x.shared = TRUE /\ x.calm = w.calm
<1>1. PICK x : x = [w EXCEPT !.shared = TRUE]
  OBVIOUS
<1>2. PICK R : R = Rows \cup {None}
  OBVIOUS
<1>3. /\ x \in Calls /\ x.pc = w.pc /\ x.op = w.op
      /\ x.fields = w.fields /\ x.on = w.on /\ x.copy = w.copy
      /\ x.spent = w.spent /\ x.sure = w.sure /\ x.wants = w.wants
      /\ x.shared = TRUE /\ x.calm = w.calm
  BY <1>1, <1>2 DEF Calls
<1> QED BY <1>1, <1>3 DEF Sharing

(* A call begins: the writes under way and the call know of each other.    *)
LEMMA EnterStep ==
  ASSUME StoreInv, NEW c \in Callers, NEW op \in Ops, NEW fields \in SUBSET Settable,
         NEW on \in BOOLEAN, NEW pc, Enter(c, op, fields, on, pc),
         \/ /\ op = "create" /\ pc = "write" /\ Version = 0 /\ fields = Settable
            /\ \A d \in Callers : ~Writing(d)
         \/ op # "create" /\ pc = "lookup",
         op = "switch" => "enabled" \in fields
  PROVE  StoreInv'
<1>1. ~Busy(c) /\ UNCHANGED <<row, key, ages, planned, missed, errors>>
  BY DEF Enter
<1>2. PICK shared \in BOOLEAN : shared = \E o \in Callers \ {c} : Writing(o)
  OBVIOUS
<1>3. PICK calm \in BOOLEAN :
        calm = (op = "switch" /\ Version > 0 /\ ages[Version] >= TTL + CallTime)
  OBVIOUS
<1>4. PICK x : x = [Idle EXCEPT !.pc = pc, !.op = op, !.fields = fields, !.on = on,
                      !.shared = shared, !.calm = calm]
  OBVIOUS
<1>5. /\ x \in Calls /\ x.pc = pc /\ x.op = op /\ x.fields = fields /\ x.on = on
      /\ x.copy = None /\ x.spent = 0 /\ x.wants = FALSE /\ x.shared = shared /\ x.calm = calm
  <2>1. PICK R : R = Rows \cup {None} /\ None \in R
    OBVIOUS
  <2>2. pc \in {"lookup", "write"} /\ 0 \in 0 .. CallTime
    BY Numbers
  <2> QED BY <1>4, <2>1, <2>2 DEF Idle, Calls
<1>6. CallOK(x) /\ Settled(x)
  BY <1>3, <1>5 DEF CallOK, Settled, Reading, Settable
<1>7. /\ calls' \in [Callers -> Calls] /\ calls'[c] = x
      /\ \A d \in Callers : d # c => calls'[d] = IF Busy(d) /\ op # "get" THEN Sharing(calls[d])
                                                  ELSE calls[d]
  <2>1. calls' = [d \in Callers |->
          IF d = c THEN x
          ELSE IF Busy(d) /\ op # "get" THEN Sharing(calls[d]) ELSE calls[d]]
    BY <1>2, <1>3, <1>4 DEF Enter, Sharing
  <2>2. ASSUME NEW d \in Callers
        PROVE  (IF d = c THEN x
                ELSE IF Busy(d) /\ op # "get" THEN Sharing(calls[d]) ELSE calls[d]) \in Calls
    BY <1>5, CallIs, SharingStep
  <2> QED BY <2>1, <2>2
<1>8. ASSUME NEW d \in Callers, d # c
      PROVE  /\ CallOK(calls'[d]) /\ Settled(calls'[d])
             /\ calls'[d].pc = calls[d].pc /\ calls'[d].op = calls[d].op
             /\ Pending(calls'[d]) = Pending(calls[d])
             /\ calls[d].shared \/ (Busy(d) /\ op # "get") => calls'[d].shared
  <2>1. PICK w : w = calls[d]
    OBVIOUS
  <2>2. w \in Calls /\ CallOK(w) /\ Settled(w)
    BY <2>1, CallIs
  <2>3. CASE Busy(d) /\ op # "get"
    <3>1. PICK y : y = Sharing(w)
      OBVIOUS
    <3>2. /\ y \in Calls /\ y.pc = w.pc /\ y.op = w.op /\ y.fields = w.fields /\ y.on = w.on
          /\ y.copy = w.copy /\ y.spent = w.spent /\ y.wants = w.wants
          /\ y.shared = TRUE /\ y.calm = w.calm
      BY <2>2, <3>1, SharingStep
    <3>3. CallOK(y) /\ Settled(y) /\ Pending(y) = Pending(w)
      BY <2>2, <3>2 DEF CallOK, Settled, Pending
    <3>4. calls'[d] = y
      BY <1>7, <1>8, <2>1, <2>3, <3>1
    <3> QED BY <2>1, <3>2, <3>3, <3>4
  <2>4. CASE ~(Busy(d) /\ op # "get")
    BY <1>7, <1>8, <2>1, <2>2, <2>4
  <2> QED BY <2>3, <2>4
<1>9. /\ AgesOK' /\ Version' = Version
      /\ \A y : CallOK(y)' = CallOK(y) /\ Settled(y)' = Settled(y)
  BY <1>1, Quiet DEF StoreInv
<1>10. CallsOK'
  <2>1. \A d \in Callers : \A y \in {calls'[d]} : CallOK(y) /\ Settled(y)
    BY <1>6, <1>7, <1>8
  <2>2. \A d \in Callers : \A y \in {calls'[d]} : CallOK(y)' /\ Settled(y)'
    BY <2>1, <1>9
  <2> QED BY <1>7, <2>2 DEF CallsOK
<1>11. Seen'
  <2>1. ASSUME NEW d \in Callers, NEW e \in Callers, d # e
        PROVE  /\ Busy(d)' /\ Writing(e)' => calls'[d].shared
               /\ ~(calls'[d].op = "create" /\ calls'[e].op = "create")
    <3>1. ~Busy(c) /\ calls'[c].op = op /\ calls'[c].shared = shared
      BY <1>1, <1>5, <1>7
    <3>2. \A f \in Callers : f # c => /\ Busy(f)' = Busy(f) /\ Writing(f)' = Writing(f)
                                      /\ calls'[f].op = calls[f].op
      BY <1>8 DEF Busy, Writing
    <3>3. \A f \in Callers : calls[f].op = "create" => Writing(f)
      BY CallIs DEF CallOK, Writing, Busy
    <3>4. Busy(d)' /\ Writing(e)' => calls'[d].shared
      <4>1. CASE d = c
        BY <4>1, <1>2, <2>1, <3>1, <3>2
      <4>2. CASE e = c
        BY <4>2, <1>8, <2>1, <3>1, <3>2 DEF Writing
      <4>3. CASE d # c /\ e # c
        BY <4>3, <1>8, <2>1, <3>2 DEF StoreInv, Seen
      <4> QED BY <4>1, <4>2, <4>3
    <3>5. ~(calls'[d].op = "create" /\ calls'[e].op = "create")
      BY <2>1, <3>1, <3>2, <3>3 DEF StoreInv, Seen
    <3> QED BY <3>4, <3>5
  <2> QED BY <2>1 DEF Seen
<1>12. KeyOK' /\ (Version' = 0 => key' = None)
  <2>1. \A d \in Callers : calls[d].pc = "invalidate" => calls'[d].pc = "invalidate"
    BY <1>1, <1>8 DEF Busy
  <2> QED BY <1>1, <2>1, KeyKept
<1>13. PlanOK'
  <2>1. ASSUME On(row)', ~planned', ~missed'
        PROVE  \E d \in Callers : Pending(calls'[d])
    <3>1. PICK d \in Callers : Pending(calls[d])
      BY <1>1, <2>1 DEF StoreInv, PlanOK, On
    <3>2. d # c
      BY <1>1, <3>1 DEF Busy, Pending
    <3> QED BY <1>8, <3>1, <3>2
  <2> QED BY <2>1 DEF PlanOK, Pending
<1>14. RowOK'
  BY <1>1, <1>9, <1>12 DEF StoreInv, RowOK
<1> QED BY <1>1, <1>9, <1>10, <1>11, <1>12, <1>13, <1>14 DEF StoreInv

LEMMA BeginStep ==
  ASSUME StoreInv, NEW c \in Callers, Begin(c)
  PROVE  StoreInv'
<1>1. {} \in SUBSET Settable /\ {"enabled"} \in SUBSET Settable /\ Requests \subseteq SUBSET Settable
  BY StoreAssumption DEF Settable
<1>2. CASE CreateMonitor(c)
  <2>1. PICK on \in BOOLEAN : Enter(c, "create", Settable, on, "write")
    BY <1>2 DEF CreateMonitor
  <2> QED BY <1>2, <2>1, EnterStep DEF CreateMonitor, Ops
<1>3. CASE GetMonitor(c)
  BY <1>1, <1>3, EnterStep DEF GetMonitor, Ops
<1>4. CASE UpdateMonitor(c)
  <2>1. PICK fields \in Requests, on \in BOOLEAN : Enter(c, "update", fields, on, "lookup")
    BY <1>4 DEF UpdateMonitor
  <2>2. fields \in SUBSET Settable
    BY <1>1
  <2> QED BY <2>1, <2>2, EnterStep DEF Ops
<1>5. CASE DeleteMonitor(c)
  BY <1>1, <1>5, EnterStep DEF DeleteMonitor, Ops
<1>6. CASE SwitchMonitor(c)
  <2>1. PICK on \in BOOLEAN : Enter(c, "switch", {"enabled"}, on, "lookup")
    BY <1>6 DEF SwitchMonitor
  <2> QED BY <1>1, <2>1, EnterStep DEF Ops
<1> QED BY <1>2, <1>3, <1>4, <1>5, <1>6 DEF Begin

(* A write makes the row one write older, and no row of the past any older
   than it was.                                                            *)
LEMMA CommitAges ==
  ASSUME AgesOK, Version < MaxWrites, ages' = Append(ages, 0)
  PROVE  /\ AgesOK' /\ Version' = Version + 1 /\ Version \in Nat
         /\ \A r : Past(r) => Past(r)' /\ Age(r)' = Age(r)
<1>1. /\ ages \in Seq(0 .. Horizon) /\ Version = Len(ages) /\ Version \in Nat
      /\ 0 \in 0 .. Horizon
  BY Numbers DEF AgesOK, Version
<1>2. /\ ages' \in Seq(0 .. Horizon) /\ Version' = Version + 1 /\ ages'[Version + 1] = 0
      /\ \A i \in 1 .. Version : ages'[i] = ages[i]
  BY <1>1, AppendProperties DEF Version
<1>3. AgesOK'
  <2>1. ASSUME NEW i \in 1 .. Version + 1, NEW j \in 1 .. Version + 1, i <= j
        PROVE  ages'[j] <= ages'[i]
    <3>1. \A k \in 1 .. Version + 1 : ages'[k] \in 0 .. Horizon
      BY <1>1, <1>2, ElementOfSeq DEF Version
    <3>2. CASE j = Version + 1
      <4>1. PICK n \in 0 .. Horizon : n = ages'[i]
        BY <3>1
      <4>2. ages'[j] = 0
        BY <3>2, <1>2
      <4>3. 0 <= n
        BY Numbers
      <4> QED BY <4>1, <4>2, <4>3
    <3>3. CASE j # Version + 1
      <4>1. i \in 1 .. Version /\ j \in 1 .. Version
        BY <1>1, <2>1, <3>3
      <4> QED BY <4>1, <1>2, <2>1 DEF AgesOK
    <3> QED BY <3>2, <3>3
  <2>2. Version' <= MaxWrites
    BY <1>1, <1>2, Numbers
  <2> QED BY <1>2, <2>1, <2>2 DEF AgesOK
<1>4. ASSUME NEW r, Past(r)
      PROVE  Past(r)' /\ Age(r)' = Age(r)
  <2>1. r.v \in 1 .. Version /\ r.v \in 1 .. Version + 1 /\ r.v # Version + 1
    BY <1>1, <1>4 DEF Past
  <2>2. Past(r)'
    BY <1>2, <1>4, <2>1 DEF Past
  <2>3. Age(r)' = ages'[r.v + 1]
    BY <1>2, <2>1 DEF Age
  <2>4. CASE r.v = Version
    <3>1. Age(r) = 0
      BY <2>4 DEF Age
    <3> QED BY <1>2, <2>2, <2>3, <2>4, <3>1
  <2>5. CASE r.v # Version
    <3>1. r.v + 1 \in 1 .. Version
      BY <1>1, <2>1, <2>5
    <3>2. Age(r) = ages[r.v + 1]
      BY <2>5 DEF Age
    <3> QED BY <1>2, <2>2, <2>3, <3>1, <3>2
  <2> QED BY <2>2, <2>4, <2>5
<1> QED BY <1>1, <1>2, <1>3, <1>4

(* What is written: a row of the next version, with the enabled flag asked
   for.                                                                    *)
LEMMA WrittenRow ==
  ASSUME StoreInv, NEW c \in Callers, NEW w, w = calls[c], w.pc = "write",
         w.op # "delete", Version < MaxWrites
  PROVE  /\ Written(w) \in Rows /\ Written(w).v = Version + 1
         /\ Written(w).config <= Version + 1 /\ Written(w).enabled <= Version + 1
         /\ Written(w).on = Turned(w) /\ ("enabled" \in w.fields => Turned(w) = w.on)
         /\ \A f \in Settable : /\ Written(w)[f] \in Nat
                                /\ \/ Written(w)[f] = Version + 1
                                   \/ w.op # "create" /\ Written(w)[f] = w.copy[f]
<1>1. w \in Calls /\ CallOK(w) /\ Version \in Nat /\ Version + 1 \in Versions
  BY CallIs, Numbers DEF StoreInv, AgesOK, Version, Versions
<1>2. w.on \in BOOLEAN
  BY <1>1 DEF Calls
<1>3. w.op # "create" => /\ w.copy.config \in Versions /\ w.copy.config <= Version
                         /\ w.copy.enabled \in Versions /\ w.copy.enabled <= Version
                         /\ w.copy.on \in BOOLEAN
  BY <1>1, Numbers DEF CallOK, Past, Rows, Versions
<1>4. Turned(w) \in BOOLEAN
  BY <1>1, <1>2, <1>3 DEF Turned, CallOK, Settable
<1>5. PICK a, b : /\ a = IF w.op = "create" \/ "config" \in w.fields
                         THEN Version + 1 ELSE w.copy.config
                  /\ b = IF w.op = "create" \/ "enabled" \in w.fields
                         THEN Version + 1 ELSE w.copy.enabled
  OBVIOUS
<1>6. PICK new : new = [config |-> a, enabled |-> b, v |-> Version + 1, on |-> Turned(w)]
  OBVIOUS
<1>7. new = Written(w)
  BY <1>5, <1>6 DEF Written
<1>8. /\ a \in Versions /\ a <= Version + 1 /\ b \in Versions /\ b <= Version + 1
      /\ a = Version + 1 \/ (w.op # "create" /\ a = w.copy.config)
      /\ b = Version + 1 \/ (w.op # "create" /\ b = w.copy.enabled)
  <2>1. /\ Version + 1 \in Versions /\ Version + 1 <= Version + 1
        /\ \A n \in Versions : n <= Version => n <= Version + 1
    BY <1>1, Numbers DEF Versions
  <2>2. CASE w.op = "create"
    BY <1>5, <2>1, <2>2
  <2>3. CASE w.op # "create"
    BY <1>3, <1>5, <2>1, <2>3
  <2> QED BY <2>2, <2>3
<1>9. /\ new.config = a /\ new.enabled = b /\ new.v = Version + 1 /\ new.on = Turned(w)
      /\ new \in Rows
  BY <1>1, <1>4, <1>6, <1>8 DEF Rows
<1>10. "enabled" \in w.fields => Turned(w) = w.on
  BY DEF Turned
<1>11. \A f \in Settable : /\ new[f] \in Nat
                           /\ new[f] = Version + 1 \/ (w.op # "create" /\ new[f] = w.copy[f])
  BY <1>8, <1>9, Numbers DEF Settable, Versions
<1> QED BY <1>7, <1>8, <1>9, <1>10, <1>11

\* The call w has made its write.
Wrote(w, r, b) == [w EXCEPT !.copy = r, !.fields = {}, !.wants = b]

LEMMA WroteStep ==
  ASSUME NEW w \in Calls, NEW r \in Rows \cup {None}, NEW b \in BOOLEAN
  PROVE  LET x == Wrote(w, r, b)
         IN  /\ x \in Calls /\ x.pc = w.pc /\ x.op = w.op
             /\ x.fields = {} /\ x.on = w.on /\ x.copy = r
             /\ x.spent = w.spent /\ x.sure = w.sure /\ x.wants = b
             /\ x.shared = w.shared /\ x.calm = w.calm
<1>1. PICK x : x = [w EXCEPT !.copy = r, !.fields = {}, !.wants = b]
  OBVIOUS
<1>2. PICK R : R = Rows \cup {None}
  OBVIOUS
<1>3. /\ x \in Calls /\ x.pc = w.pc /\ x.op = w.op
      /\ x.fields = {} /\ x.on = w.on /\ x.copy = r
      /\ x.spent = w.spent /\ x.sure = w.sure /\ x.wants = b
      /\ x.shared = w.shared /\ x.calm = w.calm
  BY <1>1, <1>2 DEF Calls
<1> QED BY <1>1, <1>3 DEF Wrote

(* The write of c: every call that is under way with it knows of it, and
   the copy is about to be invalidated or known to be wrong.               *)
LEMMA CommitStep ==
  ASSUME StoreInv, NEW c \in Callers, NEW w, w = calls[c], w.pc = "write",
         w.op = "create" \/ row # None,
         NEW new, new = IF w.op = "delete" THEN None ELSE Written(w),
         NEW pc, Commit(c, new, pc),
         \/ /\ pc = IF w.op = "create" THEN "fill" ELSE "invalidate"
            /\ UNCHANGED <<key, errors>>
         \/ pc = "idle" /\ key' = Unwanted /\ Fail
  PROVE  StoreInv'
<1>1. /\ Version < MaxWrites /\ row' = new /\ ages' = Append(ages, 0)
      /\ planned' = (planned /\ On(row) /\ On(new))
      /\ missed' = (/\ On(new) /\ ~planned'
                    /\ \/ missed \/ pc = "idle"
                       \/ calls[c].op # "create" /\ calls[c].copy # row)
  BY DEF Commit
<1>2. /\ AgesOK' /\ Version' = Version + 1 /\ Version \in Nat
      /\ \A r : Past(r) => Past(r)' /\ Age(r)' = Age(r)
  BY <1>1, CommitAges DEF StoreInv
<1>3. w \in Calls /\ CallOK(w) /\ Settled(w) /\ calls \in [Callers -> Calls]
  BY CallIs
<1>4. new # None => /\ w.op # "delete" /\ new \in Rows /\ new.v = Version + 1
                    /\ new.config <= Version + 1 /\ new.enabled <= Version + 1
                    /\ new.on = Turned(w) /\ ("enabled" \in w.fields => Turned(w) = w.on)
  BY <1>1, WrittenRow
<1>5. w.op # "delete" => new # None
  BY <1>1, WrittenRow, Numbers
<1>6. RowOK'
  BY <1>1, <1>2, <1>4 DEF RowOK
<1>7. new # None => Past(new)' /\ Age(new)' = 0
  <2>1. ASSUME new # None PROVE Past(new)'
    BY <1>1, <1>2, <1>4, <2>1 DEF Past
  <2>2. ASSUME new # None PROVE Age(new)' = 0
    BY <1>2, <1>4, <2>2 DEF Age
  <2> QED BY <2>1, <2>2
<1>8. PICK r : r = IF pc = "fill" THEN new ELSE None
  OBVIOUS
<1>9. PICK b \in BOOLEAN : b = WantsJob(w)
  BY DEF WantsJob
<1>10. PICK x : x = At(Wrote(w, r, b), pc)
  OBVIOUS
<1>11. calls' = [calls EXCEPT ![c] = x]
  BY <1>8, <1>9, <1>10 DEF Commit, Wrote
<1>12. \/ pc = "idle" /\ x = Idle
       \/ /\ pc = IF w.op = "create" THEN "fill" ELSE "invalidate"
          /\ x \in Calls /\ x.pc = pc /\ x.op = w.op /\ x.fields = {}
          /\ x.on = w.on /\ x.copy = r /\ x.spent = w.spent
          /\ x.wants = b /\ x.shared = w.shared /\ x.calm = w.calm
  <2>1. CASE pc = "idle"
    BY <1>10, <2>1 DEF At
  <2>2. CASE pc # "idle"
    <3>1. pc = IF w.op = "create" THEN "fill" ELSE "invalidate"
      BY <2>2
    <3>2. pc \in Pcs
      BY <3>1 DEF Pcs
    <3>3. r \in Rows \cup {None}
      BY <1>4, <1>8
    <3>4. PICK y : y = Wrote(w, r, b)
      OBVIOUS
    <3>5. /\ y \in Calls /\ y.op = w.op /\ y.fields = {} /\ y.on = w.on /\ y.copy = r
          /\ y.spent = w.spent /\ y.wants = b /\ y.shared = w.shared /\ y.calm = w.calm
      BY <1>3, <3>3, <3>4, WroteStep
    <3> QED BY <1>10, <2>2, <3>1, <3>2, <3>4, <3>5, AtStep
  <2> QED BY <2>1, <2>2
<1>13. CallOK(x)' /\ Settled(x)'
  <2>1. CASE x = Idle
    BY <2>1, IdleOK DEF CallOK, Settled, Reading
  <2>2. CASE x # Idle
    <3>1. w.op # "get" /\ w.spent \in Nat
      BY <1>3, Numbers DEF CallOK, Calls
    <3>2. x.pc = "fill" => w.op = "create" /\ x.copy = new /\ new # None
      BY <1>5, <1>8, <1>12, <2>2
    <3>3. x.pc \in {"fill", "invalidate"} /\ (x.copy # None => x.copy = new)
      BY <1>8, <1>12, <2>2
    <3>4. CallOK(x)'
      BY <1>1, <1>7, <1>12, <2>2, <3>1, <3>2, <3>3 DEF CallOK, Reading
    <3>5. x.op = "switch" => row' # None /\ row'.on = x.on
      BY <1>1, <1>3, <1>4, <1>5, <1>12, <2>2 DEF CallOK, Reading
    <3>6. Settled(x)'
      BY <1>12, <2>2, <3>2, <3>3, <3>5 DEF Settled, Reading
    <3> QED BY <3>4, <3>6
  <2> QED BY <2>1, <2>2
<1>14. ASSUME NEW d \in Callers, d # c, NEW y, y = calls[d]
       PROVE  CallOK(y)' /\ Settled(y)' /\ y \in Calls
  <2>1. CallOK(y) /\ Settled(y) /\ y \in Calls
    BY <1>14, CallIs
  <2>2. y.pc # "idle" => y.shared
    <3>1. Writing(c)
      BY <1>3 DEF Writing, Busy, CallOK
    <3> QED BY <1>14, <3>1 DEF StoreInv, Seen, Busy
  <2>3. ~(y.pc = "write" /\ y.op = "create")
    <3>1. ASSUME y.pc = "write" /\ y.op = "create" PROVE FALSE
      <4>1. Version = 0
        BY <2>1, <3>1 DEF CallOK
      <4>2. w.op = "create"
        BY <4>1 DEF StoreInv, RowOK
      <4> QED BY <1>14, <3>1, <4>2 DEF StoreInv, Seen
    <3> QED BY <3>1
  <2>4. CallOK(y)'
    BY <1>2, <2>1, <2>2, <2>3 DEF CallOK
  <2>5. Settled(y)'
    BY <2>2 DEF Settled, Reading
  <2> QED BY <2>1, <2>4, <2>5
<1>15. /\ calls' \in [Callers -> Calls] /\ calls'[c] = x
       /\ \A d \in Callers : d # c => calls'[d] = calls[d]
  BY <1>3, <1>11, <1>13 DEF CallOK
<1>16. CallsOK'
  <2>1. ASSUME NEW d \in Callers, NEW y, y = calls'[d] PROVE CallOK(y)' /\ Settled(y)'
    <3>1. CASE d = c
      BY <1>13, <1>15, <2>1, <3>1
    <3>2. CASE d # c
      BY <1>14, <1>15, <2>1, <3>2
    <3> QED BY <3>1, <3>2
  <2> QED BY <1>15, <2>1 DEF CallsOK
<1>17. Seen'
  <2>1. Idle.pc = "idle" /\ Idle.op = "get"
    BY DEF Idle
  <2>2. Busy(c)
    BY DEF Busy
  <2>3. ASSUME NEW d \in Callers, NEW e \in Callers, d # e
        PROVE  /\ Busy(d)' /\ Writing(e)' => calls'[d].shared
               /\ ~(calls'[d].op = "create" /\ calls'[e].op = "create")
    <3>1. \A f \in Callers : calls'[f].op = "create" => calls[f].op = "create"
      BY <1>12, <1>15, <2>1
    <3>2. \A f \in Callers : Busy(f)' => Busy(f) /\ calls'[f].shared = calls[f].shared
                                                 /\ calls'[f].op = calls[f].op
      BY <1>12, <1>15, <2>1, <2>2 DEF Busy
    <3> QED BY <2>3, <3>1, <3>2 DEF StoreInv, Seen, Writing
  <2> QED BY <2>3 DEF Seen
<1>18. KeyOK'
  <2>1. ASSUME key' # None PROVE KeyOK'
    <3>1. key # None /\ \A k \in {key} : KeyFits(k)
      BY <2>1 DEF Unwanted, StoreInv, KeyOK
    <3>2. PICK k : k = key
      OBVIOUS
    <3>3. KeyFits(k) /\ k \in Keys
      BY <3>1, <3>2 DEF KeyFits
    <3>4. PICK m : m = key'
      OBVIOUS
    <3>5. m \in Keys /\ m.row = k.row /\ m.left = k.left
      BY <3>1, <3>2, <3>3, <3>4, KeyExcused
    <3>6. Past(m.row)' /\ Age(m.row)' + m.left <= TTL + CallTime
      BY <1>2, <3>3, <3>5 DEF KeyFits
    <3>7. m.excused \/ calls'[c].pc = "invalidate"
      <4>1. CASE pc = "idle"
        BY <3>1, <3>2, <3>3, <3>4, <4>1, KeyExcused
      <4>2. CASE pc # "idle"
        <5>1. w.op # "create"
          BY <1>3, <3>1 DEF CallOK, StoreInv, RowOK
        <5> QED BY <1>12, <1>15, <4>2, <5>1
      <4> QED BY <4>1, <4>2
    <3>8. KeyFits(m)'
      BY <3>5, <3>6, <3>7 DEF KeyFits
    <3> QED BY <3>4, <3>8 DEF KeyOK
  <2> QED BY <2>1 DEF KeyOK
<1>19. PlanOK'
  <2>1. ASSUME On(row)', ~planned', ~missed'
        PROVE  \E d \in Callers : Pending(calls'[d])
    <3>1. /\ On(new) /\ new # None /\ new.on /\ pc # "idle" /\ ~missed
          /\ w.op = "create" \/ w.copy = row
      BY <1>1, <2>1 DEF On
    <3>2. CASE WantsJob(w)
      <4>1. x.wants /\ (x.pc = "invalidate" \/ (x.pc = "fill" /\ x.op = "create"))
        BY <1>9, <1>12, <3>1, <3>2
      <4> QED BY <1>15, <4>1 DEF Pending
    <3>3. CASE ~WantsJob(w)
      <4>1. w.op # "delete" /\ Turned(w)
        BY <1>4, <3>1
      <4>2. w.op # "create" /\ w.copy.on /\ w.copy = row
        BY <3>1, <3>3, <4>1 DEF WantsJob
      <4>3. On(row) /\ ~planned
        BY <1>1, <2>1, <3>1, <4>2 DEF On
      <4>4. PICK d \in Callers : Pending(calls[d])
        BY <3>1, <4>3 DEF StoreInv, PlanOK
      <4>5. d # c
        BY <4>4 DEF Pending
      <4> QED BY <1>15, <4>4, <4>5
    <3> QED BY <3>2, <3>3
  <2> QED BY <2>1 DEF PlanOK, Pending
<1>20. planned' \in BOOLEAN /\ missed' \in BOOLEAN /\ errors' \in 0 .. MaxErrors
  <2>1. errors' \in 0 .. MaxErrors
    BY FailType DEF StoreInv
  <2> QED BY <1>1, <2>1
<1> QED BY <1>2, <1>6, <1>16, <1>17, <1>18, <1>19, <1>20 DEF StoreInv

LEMMA WriteStep ==
  ASSUME StoreInv, NEW c \in Callers, Write(c)
  PROVE  StoreInv'
<1>1. PICK w : w = calls[c]
  OBVIOUS
<1>2. PICK new : new = IF w.op = "delete" THEN None ELSE Written(w)
  OBVIOUS
<1>3. PICK pc : pc = IF w.op = "create" THEN "fill" ELSE "invalidate"
  OBVIOUS
<1>4. w.pc = "write" /\ ~Pending(calls[c])
  BY <1>1 DEF Write, Pending
<1>5. CASE (w.op = "create" \/ row # None) /\ Commit(c, new, pc) /\ UNCHANGED <<key, errors>>
  BY <1>1, <1>2, <1>3, <1>4, <1>5, CommitStep
<1>6. CASE /\ Go(c, "idle") /\ UNCHANGED <<row, key, ages, planned, missed>>
           /\ Fail \/ UNCHANGED errors
  <2>1. PICK x : x = Idle
    OBVIOUS
  <2>2. calls' = [calls EXCEPT ![c] = x]
    BY <1>6, <2>1 DEF Go, At
  <2>3. \A d \in Callers : d # c => calls'[d] = calls[d]
    BY <2>2, CallIs
  <2>4. KeyOK' /\ (Version' = 0 => key' = None)
    BY <1>1, <1>4, <1>6, <2>3, KeyKept
  <2>5. PlanOK' /\ planned' \in BOOLEAN /\ missed' \in BOOLEAN
    BY <1>4, <1>6, <2>2, PlanKept
  <2>6. errors' \in 0 .. MaxErrors
    BY <1>6, FailType DEF StoreInv
  <2> QED BY <1>6, <2>4, <2>5, <2>6, EndStep
<1>7. CASE (w.op = "create" \/ row # None) /\ Fail /\ Commit(c, new, "idle") /\ key' = Unwanted
  BY <1>1, <1>2, <1>4, <1>7, CommitStep
<1> QED BY <1>1, <1>2, <1>3, <1>5, <1>6, <1>7 DEF Write

(* Time passes: what was read grows old as fast as the call that read it,
   and the copy has as much less to live.                                  *)
LEMMA TickAges ==
  ASSUME AgesOK, Version > 0,
         ages' = [v \in 1 .. Version |-> IF ages[v] < Horizon THEN ages[v] + 1 ELSE Horizon],
         UNCHANGED row
  PROVE  /\ AgesOK' /\ Version' = Version /\ ages'[Version] >= ages[Version]
         /\ \A r : Past(r) => Past(r)' /\ Age(r)' \in 0 .. Age(r) + 1
<1>1. /\ ages \in Seq(0 .. Horizon) /\ Version = Len(ages) /\ Version \in Nat
      /\ Horizon \in Nat
  BY Numbers DEF AgesOK, Version
<1>2. \A v \in 1 .. Version : ages[v] \in 0 .. Horizon
  BY <1>1 DEF Version
<1>3. /\ ages' \in [1 .. Version -> 0 .. Horizon]
      /\ \A v \in 1 .. Version : ages'[v] = IF ages[v] < Horizon THEN ages[v] + 1 ELSE Horizon
  BY <1>1, <1>2
<1>4. ages' \in Seq(0 .. Horizon) /\ Version' = Version
  BY <1>1, <1>3 DEF Version
<1>5. \A v \in 1 .. Version : ages'[v] \in ages[v] .. ages[v] + 1
  BY <1>1, <1>2, <1>3
<1>6. AgesOK'
  <2>1. ASSUME NEW i \in 1 .. Version, NEW j \in 1 .. Version, i <= j
        PROVE  ages'[j] <= ages'[i]
    <3>1. ages[j] <= ages[i] /\ ages[i] \in 0 .. Horizon /\ ages[j] \in 0 .. Horizon
      BY <1>2, <2>1 DEF AgesOK
    <3>2. PICK a, b : a = ages[i] /\ b = ages[j]
      OBVIOUS
    <3>3. /\ ages'[i] = IF a < Horizon THEN a + 1 ELSE Horizon
          /\ ages'[j] = IF b < Horizon THEN b + 1 ELSE Horizon
      BY <1>3, <3>2
    <3> QED BY <1>1, <3>1, <3>2, <3>3
  <2> QED BY <1>4, <2>1 DEF AgesOK
<1>7. ASSUME NEW r, Past(r)
      PROVE  Past(r)' /\ Age(r)' \in 0 .. Age(r) + 1
  <2>1. Past(r)'
    BY <1>4, <1>7 DEF Past
  <2>2. CASE r.v = Version
    <3>1. Age(r) = 0 /\ Age(r)' = 0
      BY <1>4, <2>2 DEF Age
    <3> QED BY <2>1, <3>1
  <2>3. CASE r.v # Version
    <3>1. r.v + 1 \in 1 .. Version /\ Age(r) = ages[r.v + 1]
      BY <1>7, <2>3, AgeType
    <3>2. Age(r)' = ages'[r.v + 1]
      BY <1>4, <2>3 DEF Age
    <3>3. PICK n : n = r.v + 1
      OBVIOUS
    <3>4. ages'[n] \in ages[n] .. ages[n] + 1 /\ ages[n] \in Nat
      BY <1>2, <1>5, <3>1, <3>3, Numbers
    <3> QED BY <2>1, <3>1, <3>2, <3>3, <3>4
  <2> QED BY <2>2, <2>3
<1>8. ages'[Version] >= ages[Version]
  <2>1. PICK n \in 1 .. Version : n = Version
    BY <1>1
  <2>2. ages'[n] \in ages[n] .. ages[n] + 1 /\ ages[n] \in Nat
    BY <1>2, <1>5, Numbers
  <2> QED BY <2>1, <2>2
<1> QED BY <1>4, <1>6, <1>7, <1>8

\* The call w has gone on for one unit more.
Longer(w) == [w EXCEPT !.spent = @ + 1]

LEMMA LongerStep ==
  ASSUME NEW w \in Calls, w.spent < CallTime
  PROVE  LET x == Longer(w)
         IN  /\ x \in Calls /\ x.pc = w.pc /\ x.op = w.op
             /\ x.fields = w.fields /\ x.on = w.on /\ x.copy = w.copy
             /\ x.spent = w.spent + 1 /\ x.sure = w.sure /\ x.wants = w.wants
             /\ x.shared = w.shared /\ x.calm = w.calm
<1>1. PICK x : x = [w EXCEPT !.spent = @ + 1]
  OBVIOUS
<1>2. PICK R : R = Rows \cup {None}
  OBVIOUS
<1>3. w.spent \in 0 .. CallTime /\ w.spent + 1 \in 0 .. CallTime
  BY Numbers DEF Calls
<1>4. /\ x \in Calls /\ x.pc = w.pc /\ x.op = w.op
      /\ x.fields = w.fields /\ x.on = w.on /\ x.copy = w.copy
      /\ x.spent = w.spent + 1 /\ x.sure = w.sure /\ x.wants = w.wants
      /\ x.shared = w.shared /\ x.calm = w.calm
  BY <1>1, <1>2, <1>3 DEF Calls
<1> QED BY <1>1, <1>4 DEF Longer

LEMMA TickStep ==
  ASSUME StoreInv, Tick
  PROVE  StoreInv'
<1>1. /\ Version > 0 /\ UNCHANGED <<row, planned, missed, errors>>
      /\ ages' = [v \in 1 .. Version |-> IF ages[v] < Horizon THEN ages[v] + 1 ELSE Horizon]
      /\ key' = IF key = None \/ key.left = 1 THEN None ELSE [key EXCEPT !.left = @ - 1]
  BY DEF Tick
<1>2. /\ AgesOK' /\ Version' = Version /\ ages'[Version] >= ages[Version]
      /\ \A r : Past(r) => Past(r)' /\ Age(r)' \in 0 .. Age(r) + 1
  BY <1>1, TickAges DEF StoreInv
<1>3. AgesOK /\ Version \in Nat /\ \A r : Past(r) => Age(r) \in Nat
  BY AgeType, Numbers DEF StoreInv, AgesOK, Version
<1>4. ASSUME NEW d \in Callers
      PROVE  /\ calls'[d] = IF Busy(d) THEN Longer(calls[d]) ELSE calls[d]
             /\ calls'[d] \in Calls /\ calls'[d].pc = calls[d].pc /\ calls'[d].op = calls[d].op
             /\ calls'[d].shared = calls[d].shared /\ calls'[d].wants = calls[d].wants
             /\ \A x : x = calls'[d] => CallOK(x)' /\ Settled(x)'
  <2>1. calls'[d] = IF Busy(d) THEN Longer(calls[d]) ELSE calls[d]
    BY DEF Tick, Longer
  <2>2. PICK w : w = calls[d]
    OBVIOUS
  <2>3. w \in Calls /\ CallOK(w) /\ Settled(w) /\ (Busy(d) => w.spent < CallTime)
    BY <2>2, CallIs DEF Tick
  <2>4. PICK x : x = calls'[d]
    OBVIOUS
  <2>5. /\ x \in Calls /\ x.pc = w.pc /\ x.op = w.op /\ x.fields = w.fields /\ x.on = w.on
        /\ x.copy = w.copy /\ x.wants = w.wants /\ x.shared = w.shared /\ x.calm = w.calm
        /\ x.pc # "idle" => x.spent = w.spent + 1
    BY <2>1, <2>2, <2>3, <2>4, LongerStep DEF Busy
  <2>6. w.spent \in Nat /\ TTL + CallTime \in Nat
    BY <2>3, Numbers DEF Calls
  <2>7. x.copy # None => /\ Past(x.copy)' /\ Age(x.copy)' \in 0 .. Age(w.copy) + 1
                         /\ Age(w.copy) \in Nat
    BY <1>2, <1>3, <2>3, <2>5 DEF CallOK
  <2>8. x.pc = "fill" => /\ x.copy # None /\ Age(x.copy)' <= x.spent
                         /\ x.copy = row' \/ x.shared
    BY <1>1, <2>3, <2>5, <2>6, <2>7 DEF CallOK
  <2>9. x.pc = "write" /\ x.op # "create" =>
          x.copy # None /\ Age(x.copy)' < TTL + CallTime + x.spent
    BY <2>3, <2>5, <2>6, <2>7 DEF CallOK
  <2>10. CallOK(x)'
    BY <1>2, <2>3, <2>5, <2>7, <2>8, <2>9 DEF CallOK
  <2>11. Settled(x)'
    <3>1. ages'[Version] \in Nat /\ ages[Version] \in Nat
      <4>1. \A n \in 1 .. Version : ages[n] \in Nat /\ ages'[n] \in Nat
        BY <1>2, <1>3, Numbers DEF AgesOK, Version
      <4>2. Version \in 1 .. Version
        BY <1>1, <1>3
      <4> QED BY <4>1, <4>2
    <3>2. PICK n, m : n = ages[Version] /\ m = ages'[Version]
      OBVIOUS
    <3>3. n >= TTL + CallTime => m >= TTL + CallTime
      BY <1>2, <2>6, <3>1, <3>2
    <3> QED BY <1>1, <1>2, <2>3, <2>5, <3>2, <3>3 DEF Settled
  <2> QED BY <2>1, <2>2, <2>4, <2>5, <2>10, <2>11
<1>5. CallsOK'
  <2>1. calls' \in [Callers -> Calls]
    <3>1. calls' = [d \in Callers |-> calls'[d]]
      BY DEF Tick
    <3> QED BY <1>4, <3>1
  <2>2. ASSUME NEW d \in Callers, NEW y, y = calls'[d] PROVE CallOK(y)' /\ Settled(y)'
    BY <1>4, <2>2
  <2> QED BY <2>1, <2>2 DEF CallsOK
<1>6. Seen'
  BY <1>4 DEF StoreInv, Seen, Busy, Writing
<1>7. KeyOK'
  <2>1. ASSUME key' # None PROVE KeyOK'
    <3>1. key # None /\ key.left # 1 /\ key' = [key EXCEPT !.left = @ - 1]
      BY <1>1, <2>1
    <3>2. PICK k : k = key
      OBVIOUS
    <3>3. KeyFits(k) /\ k \in Keys
      BY <3>1, <3>2 DEF StoreInv, KeyOK, KeyFits
    <3>4. PICK m : m = [k EXCEPT !.left = @ - 1]
      OBVIOUS
    <3>5. m \in Keys /\ m.row = k.row /\ m.left = k.left - 1 /\ m.excused = k.excused
      <4>1. k.left \in 1 .. TTL /\ k.left - 1 \in 1 .. TTL
        BY <3>1, <3>2, <3>3, Numbers DEF Keys
      <4>2. PICK R : R = Rows
        OBVIOUS
      <4> QED BY <3>3, <3>4, <4>1, <4>2 DEF Keys
    <3>6. Past(m.row)' /\ Age(m.row)' + m.left <= TTL + CallTime
      <4>1. Past(k.row) /\ Age(k.row) + k.left <= TTL + CallTime /\ k.left \in 1 .. TTL
        BY <3>3 DEF KeyFits, Keys
      <4>2. Past(k.row)' /\ Age(k.row)' \in 0 .. Age(k.row) + 1 /\ Age(k.row) \in Nat
        BY <1>2, <1>3, <4>1
      <4>3. Age(m.row)' = Age(k.row)'
        BY <3>5 DEF Age
      <4>4. Past(m.row)'
        BY <3>5, <4>2 DEF Past
      <4> QED BY <3>5, <4>1, <4>2, <4>3, <4>4, Numbers
    <3>7. m.row # row' => m.excused \/ \E d \in Callers : calls'[d].pc = "invalidate"
      BY <1>1, <1>4, <3>3, <3>5 DEF KeyFits
    <3>8. KeyFits(m)'
      BY <3>5, <3>6, <3>7 DEF KeyFits
    <3> QED BY <3>1, <3>2, <3>4, <3>8 DEF KeyOK
  <2> QED BY <2>1 DEF KeyOK
<1>8. PlanOK'
  BY <1>1, <1>4 DEF StoreInv, PlanOK, Pending, On
<1>9. RowOK'
  BY <1>1, <1>2, <1>3 DEF StoreInv, RowOK
<1> QED BY <1>1, <1>2, <1>5, <1>6, <1>7, <1>8, <1>9 DEF StoreInv

LEMMA StoreStart == Init => StoreInv
<1> SUFFICES ASSUME Init PROVE StoreInv
  OBVIOUS
<1>1. ages = <<>> /\ Version = 0 /\ row = None /\ key = None
  BY EmptySeq DEF Init, Version
<1>2. AgesOK /\ RowOK /\ KeyOK
  BY <1>1, Numbers DEF AgesOK, RowOK, KeyOK
<1>3. \A c \in Callers : calls[c] = Idle /\ ~Busy(c)
  BY IdleOK DEF Init, Busy
<1>4. CallsOK
  BY <1>3, IdleOK DEF Init, CallsOK, CallOK
<1>5. Seen
  BY <1>3, IdleOK DEF Seen, Idle
<1>6. PlanOK
  BY <1>1 DEF PlanOK, On
<1>7. planned \in BOOLEAN /\ missed \in BOOLEAN
  BY DEF Init
<1>8. errors \in 0 .. MaxErrors
  BY Numbers DEF Init
<1> QED BY <1>2, <1>4, <1>5, <1>6, <1>7, <1>8 DEF StoreInv

LEMMA StoreStep == StoreInv /\ [Next]_vars => StoreInv'
<1> SUFFICES ASSUME StoreInv, [Next]_vars PROVE StoreInv'
  OBVIOUS
<1>1. CASE Tick
  BY <1>1, TickStep
<1>2. ASSUME NEW c \in Callers, Begin(c) PROVE StoreInv'
  BY <1>2, BeginStep
<1>3. ASSUME NEW c \in Callers, Step(c) PROVE StoreInv'
  BY <1>3, LookupStep, LoadStep, FillStep, InvalidStep, WriteStep, InvalidateStep,
     ScheduleStep DEF Step
<1>4. CASE UNCHANGED vars
  <2>1. UNCHANGED <<row, key, ages, planned, missed, calls, errors>>
    BY <1>4 DEF vars
  <2>2. /\ AgesOK' /\ Version' = Version
        /\ \A r : Past(r)' = Past(r) /\ Age(r)' = Age(r)
        /\ \A y : CallOK(y)' = CallOK(y) /\ Settled(y)' = Settled(y)
    BY <2>1, Quiet DEF StoreInv
  <2>3. KeyOK'
    BY <2>1, KeyKept
  <2> QED BY <2>1, <2>2, <2>3 DEF StoreInv, RowOK, CallsOK, Seen, Busy, Writing, PlanOK, On, Pending
<1> QED BY <1>1, <1>2, <1>3, <1>4 DEF Next

(* The inductive invariant: what every call that is under way has read, and
   what it knows of the writes that ran into it.                           *)
THEOREM StoreInvariant == Spec => []StoreInv
<1>1. Init => StoreInv
  BY StoreStart
<1>2. StoreInv /\ [Next]_vars => StoreInv'
  BY StoreStep
<1> QED BY <1>1, <1>2, PTL DEF Spec

LEMMA StoreTyped == StoreInv => TypeOK
<1> SUFFICES ASSUME StoreInv PROVE TypeOK
  OBVIOUS
<1>1. row \in Rows \cup {None} /\ (row # None => row.v = Version)
  BY DEF StoreInv, RowOK
<1>2. key \in Keys \cup {None}
  BY DEF StoreInv, KeyOK, KeyFits
<1> QED BY <1>1, <1>2 DEF StoreInv, AgesOK, CallsOK, TypeOK

(* Whatever races and fails, a monitor found in the cache was the row less
   than the life of a copy and one call ago, and another row is there only
   because a write ran into the reader, or its reply or its invalidation
   was lost (GetByID, Update and Delete of CachedMonitorRepository).       *)
THEOREM CopiesStaySound == Spec => []CopiesAreSound
<1>1. StoreInv => CopiesAreSound
  <2> SUFFICES ASSUME StoreInv PROVE CopiesAreSound
    OBVIOUS
  <2>1. ASSUME key # None
        PROVE  /\ Age(key.row) < TTL + CallTime
               /\ key.row # row => key.excused \/ \E c \in Callers : calls[c].pc = "invalidate"
    <3>1. KeyFits(key)
      BY <2>1 DEF StoreInv, KeyOK
    <3>2. Age(key.row) \in Nat /\ key.left \in 1 .. TTL
      BY <3>1, AgeType, Numbers DEF StoreInv, KeyFits, Keys
    <3> QED BY <3>1, <3>2, Numbers DEF KeyFits
  <2> QED BY <2>1, StoreTyped DEF CopiesAreSound, FreshReads, StaleNeedsARace
<1> QED BY <1>1, StoreInvariant, PTL

(* Between the calls, an enabled monitor has been scheduled since it was
   enabled, unless the scheduling or a reply failed or a write was decided
   on an old copy (CreateMonitor and UpdateMonitor of MonitorService).     *)
THEOREM EnabledStaysPlanned == Spec => []EnabledIsPlanned
<1>1. StoreInv => EnabledIsPlanned
  BY DEF StoreInv, PlanOK, EnabledIsPlanned, Pending, Busy
<1> QED BY <1>1, StoreInvariant, PTL

----------------------------------------------------------------------------
(* Only a write changes the row, and only the call that makes it.          *)
LEMMA WritesAlone ==
  ASSUME StoreInv, [Next]_vars, row' # row
  PROVE  \E c \in Callers, pc \in Pcs :
           \A w \in {calls[c]} :
             /\ w.pc = "write" /\ \A d \in Callers : d # c => calls'[d] = calls[d]
             /\ Version < MaxWrites
             /\ row' = IF w.op = "delete" THEN None ELSE Written(w)
<1>1. PICK c \in Callers : Write(c)
  <2>1. PICK c \in Callers : Begin(c) \/ Step(c)
    BY DEF Next, Tick, vars
  <2>2. ~Begin(c)
    BY DEF Begin, CreateMonitor, GetMonitor, UpdateMonitor, DeleteMonitor, SwitchMonitor, Enter
  <2> QED BY <2>1, <2>2 DEF Step, Lookup, Load, Fill, Invalid, Invalidate, Schedule
<1>2. PICK w : w = calls[c]
  OBVIOUS
<1>3. PICK new : new = IF w.op = "delete" THEN None ELSE Written(w)
  OBVIOUS
<1>4. PICK pc \in Pcs : Commit(c, new, pc) /\ w.pc = "write"
  BY <1>1, <1>2, <1>3 DEF Write, Pcs
<1>5. \A d \in Callers : d # c => calls'[d] = calls[d]
  BY <1>4, CallIs DEF Commit
<1>6. Version < MaxWrites /\ row' = new
  BY <1>4 DEF Commit
<1> QED BY <1>2, <1>3, <1>4, <1>5, <1>6

LEMMA UndoesOnlyRecent ==
  ASSUME StoreInv, [Next]_vars, NEW c \in Callers, calls'[c] # calls[c],
         row' # row, row # None, row' # None, NEW f \in Settable, row'[f] < row[f]
  PROVE  row'[f] = calls[c].copy[f] /\ Age(calls[c].copy) < TTL + 2 * CallTime
<1>1. PICK w : w = calls[c]
  OBVIOUS
<1>2. /\ w.pc = "write" /\ Version < MaxWrites
      /\ row' = IF w.op = "delete" THEN None ELSE Written(w)
  BY <1>1, WritesAlone
<1>3. w.op # "delete" /\ row' = Written(w)
  BY <1>2
<1>4. PICK new : new = Written(w)
  OBVIOUS
<1>5. /\ new[f] \in Nat
      /\ \/ new[f] = Version + 1
         \/ w.op # "create" /\ new[f] = w.copy[f]
  BY <1>1, <1>2, <1>3, <1>4, WrittenRow
<1>6. row[f] \in Nat /\ row[f] <= Version /\ Version \in Nat
  <2>1. row \in Rows /\ row.config <= Version /\ row.enabled <= Version
    BY DEF StoreInv, RowOK
  <2>2. row.config \in Nat /\ row.enabled \in Nat
    BY <2>1, Numbers DEF Rows, Versions
  <2>3. f = "config" \/ f = "enabled"
    BY DEF Settable
  <2>4. Version \in Nat
    BY DEF StoreInv, AgesOK, Version
  <2> QED BY <2>1, <2>2, <2>3, <2>4
<1>7. new[f] < row[f]
  BY <1>3, <1>4
<1>8. w.op # "create" /\ new[f] = w.copy[f]
  BY <1>5, <1>6, <1>7
<1>9. /\ w \in Calls /\ w.copy # None /\ Past(w.copy)
      /\ Age(w.copy) < TTL + CallTime + w.spent
  BY <1>1, <1>2, <1>8, CallIs DEF CallOK
<1>10. Age(w.copy) \in Nat /\ w.spent \in 0 .. CallTime
  BY <1>9, AgeType, Numbers DEF StoreInv, Calls
<1>11. Age(w.copy) < TTL + 2 * CallTime
  BY <1>9, <1>10, Numbers
<1> QED BY <1>1, <1>3, <1>4, <1>8, <1>11

(* The rows that a settled switch can have read are the row.               *)
LEMMA SettledReads ==
  ASSUME StoreInv, NEW w, Settled(w), w.op = "switch", w.calm, ~w.shared, w.pc \in Reading,
         NEW r, Past(r), Age(r) < TTL + CallTime
  PROVE  r = row
<1>1. Version > 0 /\ ages[Version] >= TTL + CallTime
  BY DEF Settled
<1>2. CASE r.v # Version
  <2>1. Age(r) >= ages[Version] /\ Age(r) \in Nat
    BY <1>2, AgeType, Numbers DEF StoreInv
  <2>2. ages[Version] \in Nat
    <3>1. \A n \in 1 .. Version : ages[n] \in Nat
      BY Numbers DEF StoreInv, AgesOK, Version
    <3>2. Version \in 1 .. Version
      BY <1>1 DEF StoreInv, AgesOK, Version
    <3> QED BY <3>1, <3>2
  <2>3. PICK n, m : n = ages[Version] /\ m = Age(r)
    OBVIOUS
  <2> QED BY <1>1, <2>1, <2>2, <2>3, Numbers
<1> QED BY <1>2 DEF Past

LEMMA SwitchIsDone ==
  ASSUME StoreInv, [Next]_vars, NEW c \in Callers,
         calls[c].pc \in {"lookup", "fill", "invalidate", "schedule"},
         calls'[c].pc = "idle",
         calls[c].op = "switch", calls[c].calm, ~calls[c].shared
  PROVE  row' # None /\ row'.on = calls[c].on
<1>1. PICK w : w = calls[c]
  OBVIOUS
<1>2. w \in Calls /\ CallOK(w) /\ Settled(w) /\ calls \in [Callers -> Calls]
  BY <1>1, CallIs
<1>3. Step(c)
  <2>1. ~Tick
    <3>1. ASSUME Tick PROVE calls'[c].pc = w.pc
      <4>1. calls'[c] = IF Busy(c) THEN Longer(w) ELSE w
        BY <1>1, <3>1 DEF Tick, Longer
      <4>2. Busy(c) => w.spent < CallTime
        BY <1>1, <3>1 DEF Tick
      <4> QED BY <1>2, <4>1, <4>2, LongerStep
    <3> QED BY <1>1, <3>1
  <2>2. ~UNCHANGED vars
    BY DEF vars
  <2>3. ASSUME NEW d \in Callers, Begin(d) PROVE FALSE
    <3>1. PICK op, fields, on, pc : Enter(d, op, fields, on, pc)
      BY <2>3 DEF Begin, CreateMonitor, GetMonitor, UpdateMonitor, DeleteMonitor, SwitchMonitor
    <3>2. d # c
      BY <3>1 DEF Enter, Busy
    <3>3. calls'[c] = IF Busy(c) /\ op # "get" THEN Sharing(w) ELSE w
      BY <1>1, <3>1, <3>2 DEF Enter, Sharing
    <3> QED BY <1>1, <1>2, <3>3, SharingStep
  <2>4. ASSUME NEW d \in Callers, Step(d), d # c PROVE calls'[c] = calls[c]
    BY <1>2, <2>4 DEF Step, Lookup, Load, Fill, Invalid, Invalidate, Schedule, Write,
                      Proceed, Go, Commit
  <2> QED BY <2>1, <2>2, <2>3, <2>4 DEF Next
<1>4. ASSUME NEW r, Proceed(c, r) PROVE r.on = w.on
  <2>1. PICK next : next = CASE w.op = "get" -> "idle"
                             [] w.op = "switch" /\ ~w.sure ->
                                  IF r.on = w.on THEN "idle" ELSE "lookup"
                             [] OTHER -> "write"
    OBVIOUS
  <2>2. PICK y : y = [w EXCEPT !.copy = IF next = "lookup" THEN None ELSE r,
                               !.sure = (w.op = "switch")]
    OBVIOUS
  <2>3. calls'[c] = At(y, next)
    BY <1>1, <1>2, <1>4, <2>1, <2>2 DEF Proceed
  <2>4. next # "idle" => At(y, next).pc = next
    BY <2>2 DEF At, Calls
  <2> QED BY <1>1, <2>1, <2>3, <2>4
<1>5. CASE Lookup(c) \/ Fill(c)
  <2>1. UNCHANGED row
    BY <1>5 DEF Lookup, Fill
  <2>2. PICK r : Proceed(c, r) /\ r = row /\ Past(r)
    <3>1. CASE Lookup(c)
      <4>1. ~Go(c, "load")
        BY <1>1, <1>2, AtStep DEF Go, Pcs
      <4>2. key # None /\ Proceed(c, key.row)
        BY <3>1, <4>1 DEF Lookup, Hit
      <4>3. KeyFits(key)
        BY <4>2 DEF StoreInv, KeyOK
      <4>4. PICK r : r = key.row
        OBVIOUS
      <4>5. Past(r) /\ Age(r) + key.left <= TTL + CallTime /\ key.left \in 1 .. TTL
        BY <4>3, <4>4 DEF KeyFits, Keys
      <4>6. Age(r) \in Nat
        BY <4>5, AgeType, Numbers DEF StoreInv
      <4>7. Age(r) < TTL + CallTime
        BY <4>5, <4>6, Numbers
      <4>8. r = row
        BY <1>1, <1>2, <3>1, <4>5, <4>7, SettledReads DEF Lookup, Reading
      <4> QED BY <4>2, <4>4, <4>5, <4>8
    <3>2. CASE Fill(c)
      <4>1. w.copy = row /\ Past(w.copy)
        BY <1>1, <1>2, <3>2 DEF Fill, CallOK
      <4>2. Proceed(c, w.copy)
        BY <1>1, <3>2 DEF Fill
      <4> QED BY <4>1, <4>2
    <3> QED BY <1>5, <3>1, <3>2
  <2>3. r # None
    BY <2>2, Numbers DEF Past
  <2> QED BY <1>1, <1>4, <2>1, <2>2, <2>3
<1>6. CASE Invalidate(c) \/ Schedule(c)
  <2>1. UNCHANGED row /\ w.pc \in {"invalidate", "schedule"}
    BY <1>1, <1>6 DEF Invalidate, Schedule
  <2> QED BY <1>1, <1>2, <2>1 DEF Settled
<1> QED BY <1>3, <1>5, <1>6 DEF Step, Load, Invalid, Write

(* An update undoes another write only with values that the row had lately,
   and a switch that nothing ran into has done what it says
   (UpdateMonitor, EnableMonitor and DisableMonitor of MonitorService).    *)
THEOREM WritesTake == Spec => WritesTakeEffect
<1>1. StoreInv /\ [Next]_vars =>
        [\A c \in Callers :
           calls'[c] # calls[c] /\ row' # row /\ row # None /\ row' # None =>
             \A f \in Settable : row'[f] < row[f] =>
                 /\ row'[f] = calls[c].copy[f]
                 /\ Age(calls[c].copy) < TTL + 2 * CallTime]_vars
  BY UndoesOnlyRecent
<1>2. StoreInv /\ [Next]_vars =>
        [\A c \in Callers :
           /\ calls[c].pc \in {"lookup", "fill", "invalidate", "schedule"}
           /\ calls'[c].pc = "idle"
           /\ calls[c].op = "switch" /\ calls[c].calm /\ ~calls[c].shared
           => row' # None /\ row'.on = calls[c].on]_vars
  BY SwitchIsDone
<1>3. Spec => UpdatesLoseOnlyRecent
  BY <1>1, StoreInvariant, PTL DEF Spec, UpdatesLoseOnlyRecent
<1>4. Spec => SwitchTakesEffect
  BY <1>2, StoreInvariant, PTL DEF Spec, SwitchTakesEffect
<1> QED BY <1>3, <1>4 DEF WritesTakeEffect
=============================================================================
