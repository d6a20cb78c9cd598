------------------------- MODULE NotificationProofs -------------------------
(* Proofs about what is sent out: AlertService and the Delivery it extends, *)
(* for any number of concurrent calls, any channels, and any windows and   *)
(* failures; and, at the end, WebSocketHub, for every number of            *)
(* connections and every capacity of the channels.                         *)
EXTENDS AlertService, WebSocketHub, TLAPS

-----------------------------------------------------------------------------
(* A delivery to one channel: the recipient has at most one copy for every *)
(* attempt that is over, and every copy but that of a success was lost.    *)
Stages == {"off", "queued", "sending", "backoff", "ok", "failed"}
Tables ==
  /\ service \in [Senders -> {"fanout", "resilient"}]
  /\ cancelled \in SUBSET Senders
  /\ stage \in [Senders -> [Ids -> Stages]]
  /\ attempt \in [Senders -> [Ids -> Nat]]
  /\ copies \in [Senders -> [Ids -> Nat]]
  /\ lost \in [Senders -> [Ids -> Nat]]
ChannelOK(kind, st, tries, got, gone) ==
  /\ tries <= Attempts /\ got <= tries /\ gone <= tries
  /\ st \in {"off", "queued"} => tries = 0
  /\ st \in {"sending", "backoff"} => tries > 0 /\ got < tries /\ gone < tries
  /\ IF kind = "email" THEN gone = 0 /\ got <= (IF st = "ok" THEN 1 ELSE 0)
     ELSE got = gone + (IF st = "ok" THEN 1 ELSE 0)
DeliveryInv ==
  /\ Tables
  /\ \A s \in Senders, i \in Ids :
       ChannelOK(Channels[i], stage[s][i], attempt[s][i], copies[s][i], lost[s][i])

(* The alerts that were built, and the calls that have one to store.       *)
AlertsInv ==
  /\ now \in Time /\ limited \in BOOLEAN /\ issued \in Nat
  /\ alerts \subseteq Drafts
  /\ alerts # {} => \E a \in alerts : \A b \in alerts : b.no <= a.no
  /\ checks \in 0..MaxChecks /\ sends \in 0..MaxSends /\ errors \in 0..MaxErrors
Places == {"idle", "check", "set", "last", "store", "clear", "ssl", "sslset",
           "readback", "deliver"}
Calls == [pc : Places, op : {"process", "generate", "deliver"},
          check : [ok : BOOLEAN, days : DaysUntil \union {Null}],
          draft : Drafts \union {Null}, asked : Time, raced : BOOLEAN]
CallOK(w) ==
  /\ w \in Calls
  /\ w.asked <= now
  /\ w.pc = "store" => w.draft \in Drafts
  /\ w.pc = "readback" => alerts # {}
  /\ w.pc = "sslset" => w.check.days \in Alertable

(* The limit for downtimes and what it was set for: it holds the whole     *)
(* seconds of the time the alert was asked for, stays for a window from    *)
(* then, and a call that is about to set it anew, and has not been         *)
(* overtaken, asked for it a window later.                                 *)
LimitInv ==
  /\ limit = Null \/ limit \in [value : Time, expires : Nat]
  /\ grant \in [at : Time \union {Null}, no : Nat] /\ spoilt \in BOOLEAN
  /\ grant.at # Null => grant.at <= now
  /\ limit # Null =>
       /\ grant.at # Null
       /\ limit.value = (grant.at \div Second) * Second
       /\ limit.expires >= grant.at + Window
  /\ limit = Null /\ grant.at # Null => now - grant.at >= Window
Spaced(w) ==
  w.pc = "set" /\ ~w.raced /\ grant.at # Null => w.asked - grant.at > Window - Second

(* The same of the limits of the certificate, one for each level.          *)
SSLLimitOK(l, g) ==
  /\ l \in Nat \union {Null} /\ g \in Time \union {Null}
  /\ g # Null =>
       /\ g <= now
       /\ IF l = Null THEN now - g >= Day ELSE l >= g + Day
SSLInv ==
  /\ sslLimit \in [Alertable -> Nat \union {Null}]
  /\ sslGrant \in [Alertable -> Time \union {Null}]
  /\ \A d \in Alertable : SSLLimitOK(sslLimit[d], sslGrant[d])
SSLSpaced(w) ==
  w.pc = "sslset" /\ ~w.raced /\ sslGrant[w.check.days] # Null
    => w.asked - sslGrant[w.check.days] >= Day

CallersInv ==
  /\ caller \in [Senders -> Calls]
  /\ \A c \in Senders : CallOK(caller[c]) /\ Spaced(caller[c]) /\ SSLSpaced(caller[c])

AlertInv == DeliveryInv /\ AlertsInv /\ LimitInv /\ SSLInv /\ CallersInv /\ LimitIsBacked
(* A table of the deliveries that changes in one cell.                     *)
Same(f, g, s, i) == \A t \in Senders, j \in Ids : t # s \/ j # i => g[t][j] = f[t][j]

Updated(f, s, i, v) == [f EXCEPT ![s][i] = v]

(* One cell of a table of stages, or of numbers, is given another value.   *)
LEMMA StageCell ==
  ASSUME NEW f \in [Senders -> [Ids -> Stages]],
         NEW s \in Senders, NEW i \in Ids, NEW v \in Stages
  PROVE  /\ Updated(f, s, i, v) \in [Senders -> [Ids -> Stages]]
         /\ Updated(f, s, i, v)[s][i] = v
         /\ Same(f, Updated(f, s, i, v), s, i)
<1>1. PICK r : r = [f[s] EXCEPT ![i] = v]
  OBVIOUS
<1>2. r \in [Ids -> Stages] /\ r[i] = v /\ \A j \in Ids \ {i} : r[j] = f[s][j]
  BY <1>1
<1>3. PICK g : g = Updated(f, s, i, v)
  OBVIOUS
<1>4. g = [f EXCEPT ![s] = r]
  BY <1>1, <1>3 DEF Updated
<1>5. g \in [Senders -> [Ids -> Stages]] /\ g[s] = r /\ \A t \in Senders \ {s} : g[t] = f[t]
  BY <1>2, <1>4
<1> QED BY <1>2, <1>3, <1>5 DEF Same

Numbers == Nat

LEMMA NumberCell ==
  ASSUME NEW f \in [Senders -> [Ids -> Numbers]],
         NEW s \in Senders, NEW i \in Ids, NEW v \in Numbers
  PROVE  /\ Updated(f, s, i, v) \in [Senders -> [Ids -> Numbers]]
         /\ Updated(f, s, i, v)[s][i] = v
         /\ Same(f, Updated(f, s, i, v), s, i)
<1>1. PICK r : r = [f[s] EXCEPT ![i] = v]
  OBVIOUS
<1>2. r \in [Ids -> Numbers] /\ r[i] = v /\ \A j \in Ids \ {i} : r[j] = f[s][j]
  BY <1>1
<1>3. PICK g : g = Updated(f, s, i, v)
  OBVIOUS
<1>4. g = [f EXCEPT ![s] = r]
  BY <1>1, <1>3 DEF Updated
<1>5. g \in [Senders -> [Ids -> Numbers]] /\ g[s] = r /\ \A t \in Senders \ {s} : g[t] = f[t]
  BY <1>2, <1>4
<1> QED BY <1>2, <1>3, <1>5 DEF Same

LEMMA NoCell == \A f, s, i : Same(f, f, s, i)
BY DEF Same

(* Become changes one cell of the stages.                                  *)
LEMMA BecomeOK ==
  ASSUME Tables, NEW s \in Senders, NEW i \in Ids, NEW st \in Stages, Become(s, i, st)
  PROVE  /\ stage' \in [Senders -> [Ids -> Stages]] /\ stage'[s][i] = st
         /\ Same(stage, stage', s, i)
<1>1. stage' = Updated(stage, s, i, st) /\ stage \in [Senders -> [Ids -> Stages]]
  BY DEF Become, Tables, Updated
<1> QED BY <1>1, StageCell

LEMMA NumbersAreNat ==
  \A f : f \in [Senders -> [Ids -> Nat]] <=> f \in [Senders -> [Ids -> Numbers]]
BY DEF Numbers

(* A counter of one delivery goes up by one.                               *)
LEMMA CountOK ==
  ASSUME NEW f \in [Senders -> [Ids -> Nat]], NEW g, NEW s \in Senders, NEW i \in Ids,
         g = [f EXCEPT ![s][i] = @ + 1]
  PROVE  /\ g \in [Senders -> [Ids -> Nat]] /\ g[s][i] = f[s][i] + 1
         /\ Same(f, g, s, i)
<1>1. f \in [Senders -> [Ids -> Numbers]]
  BY NumbersAreNat
<1>2. ASSUME NEW v \in Numbers
      PROVE  LET h == Updated(f, s, i, v)
             IN  /\ h \in [Senders -> [Ids -> Numbers]] /\ h[s][i] = v
                 /\ Same(f, h, s, i)
  BY <1>1, NumberCell
<1>3. g = Updated(f, s, i, f[s][i] + 1) /\ f[s][i] + 1 \in Numbers
  BY DEF Updated, Numbers
<1>4. g \in [Senders -> [Ids -> Numbers]] /\ g[s][i] = f[s][i] + 1 /\ Same(f, g, s, i)
  BY <1>2, <1>3
<1> QED BY <1>4, NumbersAreNat

(* A step of one channel: what it does to the five tables in its cell, and *)
(* that it does nothing to the others.                                     *)
Cells(s, i) ==
  /\ service' = service /\ cancelled' = cancelled
  /\ stage' \in [Senders -> [Ids -> Stages]] /\ Same(stage, stage', s, i)
  /\ attempt' \in [Senders -> [Ids -> Nat]] /\ Same(attempt, attempt', s, i)
  /\ copies' \in [Senders -> [Ids -> Nat]] /\ Same(copies, copies', s, i)
  /\ lost' \in [Senders -> [Ids -> Nat]] /\ Same(lost, lost', s, i)
  /\ ChannelOK(Channels[i], stage'[s][i], attempt'[s][i], copies'[s][i], lost'[s][i])

LEMMA CellsKeepDelivery ==
  ASSUME DeliveryInv, NEW s \in Senders, NEW i \in Ids, Cells(s, i)
  PROVE  DeliveryInv'
<1>1. Tables'
  BY DEF DeliveryInv, Tables, Cells
<1>2. ASSUME NEW t \in Senders, NEW j \in Ids
      PROVE  ChannelOK(Channels[j], stage'[t][j], attempt'[t][j], copies'[t][j], lost'[t][j])
  <2>1. CASE t = s /\ j = i
    BY <2>1 DEF Cells
  <2>2. CASE t # s \/ j # i
    <3>1. /\ stage'[t][j] = stage[t][j] /\ attempt'[t][j] = attempt[t][j]
          /\ copies'[t][j] = copies[t][j] /\ lost'[t][j] = lost[t][j]
      BY <2>2 DEF Cells, Same
    <3>2. ChannelOK(Channels[j], stage[t][j], attempt[t][j], copies[t][j], lost[t][j])
      BY DEF DeliveryInv
    <3> QED BY <3>1, <3>2
  <2> QED BY <2>1, <2>2
<1> QED BY <1>1, <1>2 DEF DeliveryInv

(* What the cell of a channel holds before its step.                       *)
LEMMA CellOK ==
  ASSUME DeliveryInv, NEW s \in Senders, NEW i \in Ids
  PROVE  /\ stage[s][i] \in Stages
         /\ attempt[s][i] \in Nat /\ copies[s][i] \in Nat /\ lost[s][i] \in Nat
         /\ ChannelOK(Channels[i], stage[s][i], attempt[s][i], copies[s][i], lost[s][i])
BY DEF DeliveryInv, Tables

(* After a failed attempt the adapter waits to try again, or gives up.     *)
LEMMA GiveUpOrRetryOK ==
  ASSUME DeliveryInv, NEW s \in Senders, NEW i \in Ids, stage[s][i] = "sending",
         GiveUpOrRetry(s, i)
  PROVE  /\ stage' \in [Senders -> [Ids -> Stages]] /\ Same(stage, stage', s, i)
         /\ attempt' \in [Senders -> [Ids -> Nat]] /\ Same(attempt, attempt', s, i)
         /\ \/ /\ stage'[s][i] = "backoff" /\ attempt'[s][i] = attempt[s][i] + 1
               /\ attempt[s][i] < Attempts
            \/ stage'[s][i] = "failed" /\ attempt'[s][i] = attempt[s][i]
<1>1. Tables
  BY DEF DeliveryInv
<1>2. CASE attempt[s][i] < Attempts
  <2>1. Become(s, i, "backoff") /\ attempt' = [attempt EXCEPT ![s][i] = @ + 1]
    BY <1>2 DEF GiveUpOrRetry
  <2> QED BY <1>1, <1>2, <2>1, BecomeOK, CountOK DEF Tables, Stages
<1>3. CASE ~(attempt[s][i] < Attempts)
  <2>1. Become(s, i, "failed") /\ attempt' = attempt
    BY <1>3 DEF GiveUpOrRetry
  <2> QED BY <1>1, <2>1, BecomeOK, NoCell DEF Tables, Stages
<1> QED BY <1>2, <1>3

(* Every step of sending to a channel keeps what is known of the cell of   *)
(* that channel, in either service and for each kind of channel.           *)
LEMMA SendKeepsDelivery ==
  ASSUME DeliveryInv, NEW s \in Senders, NEW i \in Ids, Send(s, i)
  PROVE  DeliveryInv'
<1>1. Tables /\ Attempts \in Nat \ {0}
  BY DeliveryAssumption DEF DeliveryInv
<1>2. PICK kind : kind = Channels[i]
  OBVIOUS
<1>3. PICK tries \in Nat, got \in Nat, gone \in Nat :
        tries = attempt[s][i] /\ got = copies[s][i] /\ gone = lost[s][i]
  BY CellOK
<1>4. ChannelOK(kind, stage[s][i], tries, got, gone)
  BY <1>2, <1>3, CellOK
<1>5. CASE SendChannel(s, i)
  <2>1. /\ stage[s][i] = "queued" /\ service' = service /\ cancelled' = cancelled
        /\ copies' = copies /\ lost' = lost
        /\ \/ Become(s, i, "sending") /\ attempt' = [attempt EXCEPT ![s][i] = 1]
           \/ Become(s, i, "failed") /\ attempt' = attempt
    BY <1>5 DEF SendChannel
  <2>2. tries = 0 /\ got = 0 /\ gone = 0
    BY <1>3, <1>4, <2>1 DEF ChannelOK
  <2>3. CASE Become(s, i, "sending") /\ attempt' = [attempt EXCEPT ![s][i] = 1]
    <3>1. /\ stage' \in [Senders -> [Ids -> Stages]] /\ stage'[s][i] = "sending"
          /\ Same(stage, stage', s, i)
      BY <1>1, <2>3, BecomeOK DEF Stages
    <3>2. /\ attempt' \in [Senders -> [Ids -> Nat]] /\ attempt'[s][i] = 1
          /\ Same(attempt, attempt', s, i)
      <4>1. attempt' = Updated(attempt, s, i, 1)
        BY <2>3 DEF Updated
      <4>2. 1 \in Numbers /\ attempt \in [Senders -> [Ids -> Numbers]]
        BY <1>1 DEF Tables, Numbers
      <4>3. /\ attempt' \in [Senders -> [Ids -> Numbers]] /\ attempt'[s][i] = 1
            /\ Same(attempt, attempt', s, i)
        BY <4>1, <4>2, NumberCell
      <4> QED BY <4>3 DEF Numbers
    <3>3. ChannelOK(kind, "sending", 1, got, gone)
      BY <1>1, <2>2 DEF ChannelOK
    <3> QED BY <1>1, <1>2, <1>3, <2>1, <3>1, <3>2, <3>3, NoCell, CellsKeepDelivery
            DEF Cells, Tables
  <2>4. CASE Become(s, i, "failed") /\ attempt' = attempt
    <3>1. /\ stage' \in [Senders -> [Ids -> Stages]] /\ stage'[s][i] = "failed"
          /\ Same(stage, stage', s, i)
      BY <1>1, <2>4, BecomeOK DEF Stages
    <3>2. ChannelOK(kind, "failed", tries, got, gone)
      BY <1>1, <2>2 DEF ChannelOK
    <3> QED BY <1>1, <1>2, <1>3, <2>1, <2>4, <3>1, <3>2, NoCell, CellsKeepDelivery
            DEF Cells, Tables
  <2> QED BY <2>1, <2>3, <2>4
<1>6. CASE Backoff(s, i)
  <2>1. /\ stage[s][i] = "backoff"
        /\ UNCHANGED <<service, attempt, cancelled, copies, lost>>
    BY <1>6 DEF Backoff
  <2>2. PICK st \in {"sending", "failed"} : Become(s, i, st)
    BY <1>6 DEF Backoff
  <2>3. /\ stage' \in [Senders -> [Ids -> Stages]] /\ stage'[s][i] = st
        /\ Same(stage, stage', s, i)
    BY <1>1, <2>2, BecomeOK DEF Stages
  <2>4. ChannelOK(kind, st, tries, got, gone)
    BY <1>3, <1>4, <2>1 DEF ChannelOK
  <2> QED BY <1>1, <1>2, <1>3, <2>1, <2>3, <2>4, NoCell, CellsKeepDelivery
          DEF Cells, Tables
<1>7. ASSUME stage[s][i] = "sending", UNCHANGED <<service, cancelled>>,
             copies' \in [Senders -> [Ids -> Nat]], Same(copies, copies', s, i),
             lost' \in [Senders -> [Ids -> Nat]], Same(lost, lost', s, i),
             copies'[s][i] \in {got, got + 1}, lost'[s][i] \in {gone, gone + 1},
             \/ /\ Become(s, i, "ok") /\ attempt' = attempt
                /\ ChannelOK(kind, "ok", tries, copies'[s][i], lost'[s][i])
             \/ /\ GiveUpOrRetry(s, i)
                /\ IF kind = "email" THEN copies'[s][i] = 0 /\ lost'[s][i] = 0
                   ELSE copies'[s][i] = lost'[s][i]
      PROVE  DeliveryInv'
  <2>1. CASE /\ Become(s, i, "ok") /\ attempt' = attempt
             /\ ChannelOK(kind, "ok", tries, copies'[s][i], lost'[s][i])
    <3>1. /\ stage' \in [Senders -> [Ids -> Stages]] /\ stage'[s][i] = "ok"
          /\ Same(stage, stage', s, i)
      BY <1>1, <1>7, <2>1, BecomeOK DEF Stages
    <3> QED BY <1>1, <1>2, <1>3, <1>7, <2>1, <3>1, NoCell, CellsKeepDelivery
            DEF Cells, Tables
  <2>2. CASE /\ GiveUpOrRetry(s, i)
             /\ IF kind = "email" THEN copies'[s][i] = 0 /\ lost'[s][i] = 0
                ELSE copies'[s][i] = lost'[s][i]
    <3>1. /\ stage' \in [Senders -> [Ids -> Stages]] /\ Same(stage, stage', s, i)
          /\ attempt' \in [Senders -> [Ids -> Nat]] /\ Same(attempt, attempt', s, i)
          /\ \/ /\ stage'[s][i] = "backoff" /\ attempt'[s][i] = tries + 1
                /\ tries < Attempts
             \/ stage'[s][i] = "failed" /\ attempt'[s][i] = tries
      BY <1>3, <1>7, <2>2, GiveUpOrRetryOK
    <3>2. ChannelOK(kind, stage'[s][i], attempt'[s][i], copies'[s][i], lost'[s][i])
      BY <1>1, <1>3, <1>4, <1>7, <2>2, <3>1 DEF ChannelOK
    <3> QED BY <1>2, <1>7, <3>1, <3>2, CellsKeepDelivery DEF Cells
  <2> QED BY <1>7, <2>1, <2>2
<1>10. stage[s][i] = "sending" =>
         /\ IF kind = "email" THEN got = 0 /\ gone = 0 ELSE got = gone
         /\ got < tries /\ gone < tries /\ tries <= Attempts
  BY <1>3, <1>4 DEF ChannelOK
<1>8. CASE sendWebhook(s, i) \/ sendMessage(s, i)
  <2>1. stage[s][i] = "sending" /\ UNCHANGED <<service, cancelled>> /\ kind # "email"
        /\ Request(s, i)
    BY <1>2, <1>8 DEF sendWebhook, sendMessage
  <2>2. CASE /\ copies' = [copies EXCEPT ![s][i] = @ + 1]
             /\ Become(s, i, "ok") /\ UNCHANGED <<attempt, lost>>
    <3>1. /\ copies' \in [Senders -> [Ids -> Nat]] /\ copies'[s][i] = got + 1
          /\ Same(copies, copies', s, i)
      BY <1>1, <1>3, <2>2, CountOK DEF Tables
    <3>2. /\ lost' \in [Senders -> [Ids -> Nat]] /\ lost'[s][i] = gone
          /\ Same(lost, lost', s, i)
      BY <1>1, <1>3, <2>2, NoCell DEF Tables
    <3>3. ChannelOK(kind, "ok", tries, got + 1, gone)
      BY <1>3, <1>10, <2>1 DEF ChannelOK
    <3> QED BY <1>7, <2>1, <2>2, <3>1, <3>2, <3>3
  <2>3. CASE GiveUpOrRetry(s, i) /\ UNCHANGED <<copies, lost>>
    <3>1. /\ copies' \in [Senders -> [Ids -> Nat]] /\ copies'[s][i] = got
          /\ Same(copies, copies', s, i)
          /\ lost' \in [Senders -> [Ids -> Nat]] /\ lost'[s][i] = gone
          /\ Same(lost, lost', s, i)
      BY <1>1, <1>3, <2>3, NoCell DEF Tables
    <3> QED BY <1>7, <1>10, <2>1, <2>3, <3>1
  <2>4. CASE /\ copies' = [copies EXCEPT ![s][i] = @ + 1]
             /\ lost' = [lost EXCEPT ![s][i] = @ + 1]
             /\ GiveUpOrRetry(s, i)
    <3>1. /\ copies' \in [Senders -> [Ids -> Nat]] /\ copies'[s][i] = got + 1
          /\ Same(copies, copies', s, i)
          /\ lost' \in [Senders -> [Ids -> Nat]] /\ lost'[s][i] = gone + 1
          /\ Same(lost, lost', s, i)
      BY <1>1, <1>3, <2>4, CountOK DEF Tables
    <3> QED BY <1>7, <1>10, <2>1, <2>4, <3>1
  <2> QED BY <2>1, <2>2, <2>3, <2>4 DEF Request
<1>9. CASE sendEmail(s, i)
  <2>1. stage[s][i] = "sending" /\ UNCHANGED <<service, cancelled, lost>> /\ kind = "email"
    BY <1>2, <1>9 DEF sendEmail
  <2>2. /\ lost' \in [Senders -> [Ids -> Nat]] /\ lost'[s][i] = gone
        /\ Same(lost, lost', s, i)
    BY <1>1, <1>3, <2>1, NoCell DEF Tables
  <2>3. gone = 0 /\ got = 0
    BY <1>3, <1>4, <2>1 DEF ChannelOK
  <2>4. CASE /\ copies' = [copies EXCEPT ![s][i] = @ + 1]
             /\ Become(s, i, "ok") /\ UNCHANGED attempt
    <3>1. /\ copies' \in [Senders -> [Ids -> Nat]] /\ copies'[s][i] = got + 1
          /\ Same(copies, copies', s, i)
      BY <1>1, <1>3, <2>4, CountOK DEF Tables
    <3>2. ChannelOK(kind, "ok", tries, 1, 0)
      BY <1>3, <1>10, <2>1 DEF ChannelOK
    <3> QED BY <1>7, <2>1, <2>2, <2>3, <2>4, <3>1, <3>2
  <2>5. ASSUME UNCHANGED copies
        PROVE  /\ copies' \in [Senders -> [Ids -> Nat]] /\ copies'[s][i] = got
               /\ Same(copies, copies', s, i)
    BY <1>1, <1>3, <2>5, NoCell DEF Tables
  <2>6. CASE Become(s, i, "ok") /\ UNCHANGED <<attempt, copies>>
    <3>1. ChannelOK(kind, "ok", tries, 0, 0)
      BY <1>3, <1>10, <2>1 DEF ChannelOK
    <3> QED BY <1>7, <2>1, <2>2, <2>3, <2>5, <2>6, <3>1
  <2>7. CASE GiveUpOrRetry(s, i) /\ UNCHANGED copies
    BY <1>7, <2>1, <2>2, <2>3, <2>5, <2>7
  <2> QED BY <1>9, <2>4, <2>6, <2>7 DEF sendEmail
<1> QED BY <1>5, <1>6, <1>8, <1>9 DEF Send
(* The calls of a delivery: it starts, its context is done, it is over.    *)
LEMMA RowOK ==
  ASSUME DeliveryInv, NEW s \in Senders, NEW st \in {"off", "queued"},
         service' \in [Senders -> {"fanout", "resilient"}], cancelled' \in SUBSET Senders,
         stage' = [stage EXCEPT ![s] = [i \in Ids |-> st]],
         attempt' = [attempt EXCEPT ![s] = [i \in Ids |-> 0]],
         copies' = [copies EXCEPT ![s] = [i \in Ids |-> 0]],
         lost' = [lost EXCEPT ![s] = [i \in Ids |-> 0]]
  PROVE  DeliveryInv'
<1>1. PICK row \in [Ids -> Stages] : row = [i \in Ids |-> st]
  BY DEF Stages
<1>2. PICK zeros \in [Ids -> Nat] : zeros = [i \in Ids |-> 0]
  OBVIOUS
<1>3. /\ stage' = [stage EXCEPT ![s] = row] /\ attempt' = [attempt EXCEPT ![s] = zeros]
      /\ copies' = [copies EXCEPT ![s] = zeros] /\ lost' = [lost EXCEPT ![s] = zeros]
  BY <1>1, <1>2
<1>4. Tables'
  BY <1>3 DEF DeliveryInv, Tables
<1>5. ASSUME NEW t \in Senders, NEW j \in Ids
      PROVE  ChannelOK(Channels[j], stage'[t][j], attempt'[t][j], copies'[t][j], lost'[t][j])
  <2>1. CASE t = s
    <3>1. stage'[t] = row /\ attempt'[t] = zeros /\ copies'[t] = zeros /\ lost'[t] = zeros
      BY <1>3, <2>1 DEF DeliveryInv, Tables
    <3>2. stage'[t][j] = st /\ attempt'[t][j] = 0 /\ copies'[t][j] = 0 /\ lost'[t][j] = 0
      BY <1>1, <1>2, <3>1
    <3>3. ChannelOK(Channels[j], st, 0, 0, 0)
      BY DeliveryAssumption DEF ChannelOK
    <3> QED BY <3>2, <3>3
  <2>2. CASE t # s
    <3>1. /\ stage'[t] = stage[t] /\ attempt'[t] = attempt[t]
          /\ copies'[t] = copies[t] /\ lost'[t] = lost[t]
      BY <1>3, <2>2 DEF DeliveryInv, Tables
    <3>2. ChannelOK(Channels[j], stage[t][j], attempt[t][j], copies[t][j], lost[t][j])
      BY CellOK
    <3> QED BY <3>1, <3>2
  <2> QED BY <2>1, <2>2
<1> QED BY <1>4, <1>5 DEF DeliveryInv

(* A new delivery has all its channels queued; a forgotten one has none.   *)
LEMMA StartKeepsDelivery ==
  ASSUME DeliveryInv, NEW s \in Senders, NEW svc \in {"fanout", "resilient"},
         DeliverAlert(s, svc)
  PROVE  DeliveryInv'
<1>1. service' \in [Senders -> {"fanout", "resilient"}] /\ cancelled' \in SUBSET Senders
  BY DEF DeliverAlert, DeliveryInv, Tables
<1> QED BY <1>1, RowOK DEF DeliverAlert

LEMMA ForgetKeepsDelivery ==
  ASSUME DeliveryInv, NEW s \in Senders, Forget(s)
  PROVE  DeliveryInv'
<1>1. service' \in [Senders -> {"fanout", "resilient"}] /\ cancelled' \in SUBSET Senders
  BY DEF Forget, DeliveryInv, Tables
<1> QED BY <1>1, RowOK DEF Forget

LEMMA NothingDelivered == DeliveryInv /\ UNCHANGED deliveryVars => DeliveryInv'
BY DEF deliveryVars, DeliveryInv, Tables, ChannelOK

LEMMA CancelKeepsDelivery ==
  ASSUME DeliveryInv, NEW s \in Senders, Cancel(s)
  PROVE  DeliveryInv'
<1>1. cancelled' \in SUBSET Senders /\ UNCHANGED <<service, stage, attempt, copies, lost>>
  BY DEF Cancel, DeliveryInv, Tables
<1> QED BY <1>1 DEF DeliveryInv, Tables, ChannelOK

(* The steps of the alert service reach a delivery only through the        *)
(* operations of Delivery.                                                 *)
LEMMA DeliveryStep ==
  ASSUME DeliveryInv, [Next]_vars
  PROVE  DeliveryInv'
<1>1. CASE UNCHANGED deliveryVars
  BY <1>1, NothingDelivered
<1>2. ASSUME NEW c \in Senders, ReadBack(c) \/ DeliverResiliently(c) PROVE DeliveryInv'
  BY <1>1, <1>2, StartKeepsDelivery DEF ReadBack, DeliverResiliently
<1>3. ASSUME NEW c \in Senders, EndDelivery(c) PROVE DeliveryInv'
  BY <1>3, ForgetKeepsDelivery DEF EndDelivery
<1>4. ASSUME NEW c \in Senders, NEW i \in Ids, Delivering(c, i) PROVE DeliveryInv'
  BY <1>4, SendKeepsDelivery DEF Delivering
<1>5. ASSUME NEW c \in Senders, CancelCall(c) PROVE DeliveryInv'
  BY <1>5, CancelKeepsDelivery DEF CancelCall
<1>6. ASSUME NEW c \in Senders,
             \/ ProcessHealthCheckAlerts(c) \/ Generate(c) \/ CheckDowntimeAlert(c)
             \/ SetDowntimeAlert(c) \/ GetLastDowntimeAlert(c) \/ Create(c)
             \/ ClearDowntimeAlert(c) \/ CheckSSLAlert(c) \/ SetSSLAlert(c)
      PROVE  DeliveryInv'
  <2>1. UNCHANGED deliveryVars
    BY <1>6 DEF ProcessHealthCheckAlerts, Generate, CheckDowntimeAlert, SetDowntimeAlert,
                GetLastDowntimeAlert, Create, ClearDowntimeAlert, CheckSSLAlert, SetSSLAlert
  <2> QED BY <1>1, <2>1
<1>7. CASE Tick \/ UNCHANGED vars
  BY <1>1, <1>7 DEF Tick, vars
<1> QED BY <1>2, <1>3, <1>4, <1>5, <1>6, <1>7 DEF Next, Step

LEMMA DeliveryInit == Init => DeliveryInv
<1> SUFFICES ASSUME Init PROVE DeliveryInv
  OBVIOUS
<1>1. InitDelivery
  BY DEF Init
<1>2. Tables
  BY <1>1 DEF InitDelivery, Tables, Stages
<1>3. ASSUME NEW s \in Senders, NEW i \in Ids
      PROVE  ChannelOK(Channels[i], stage[s][i], attempt[s][i], copies[s][i], lost[s][i])
  <2>1. stage[s][i] = "off" /\ attempt[s][i] = 0 /\ copies[s][i] = 0 /\ lost[s][i] = 0
    BY <1>1 DEF InitDelivery
  <2>2. ChannelOK(Channels[i], "off", 0, 0, 0)
    BY DeliveryAssumption DEF ChannelOK
  <2> QED BY <2>1, <2>2
<1> QED BY <1>2, <1>3 DEF DeliveryInv

(* The inductive invariant of the deliveries: each channel has had at most *)
(* as many requests as attempts, and its recipient one copy for every      *)
(* request that was served, whatever the service, the kind of channel and  *)
(* the failures.                                                           *)
THEOREM DeliveryIsInductive == Spec => []DeliveryInv
<1>1. DeliveryInv /\ [Next]_vars => DeliveryInv'
  BY DeliveryStep
<1> QED BY <1>1, DeliveryInit, PTL DEF Spec

(* What a channel reports is what its recipient has seen, for any number   *)
(* of attempts, of channels and of concurrent deliveries.                  *)
THEOREM ReportsAreTrue == Spec => []ReportsMatchRecipients
<1>1. DeliveryInv => ReportsMatchRecipients
  BY DEF DeliveryInv, ReportsMatchRecipients, ChannelOK
<1> QED BY <1>1, DeliveryIsInductive, PTL
-----------------------------------------------------------------------------
(* The records of the calls.                                               *)
LEMMA ConstantsOK ==
  /\ Second \in Nat \ {0} /\ Window \in Nat /\ Day \in Nat /\ MaxTime \in Nat
  /\ Null \notin Int /\ Null \notin [value : Nat, expires : Nat]
  /\ 0 \in Time /\ Time \subseteq Nat
  /\ Alertable \subseteq DaysUntil
BY AlertAssumption DEF Time, Alertable

LEMMA IdleOK == Idle \in Calls /\ Idle.pc = "idle"
BY ConstantsOK DEF Idle, Calls, Places

(* What the alerts and the calls are made of.                              *)
LEMMA ContentsOK ==
  /\ {DowntimeAlert, RecoveryAlert, PerformanceAlert} \subseteq Contents
  /\ \A d \in Alertable : SSLAlert(d) \in Contents
BY DEF Contents

(* A call moves on, notes the time it asks for an alert, or has one built. *)
LEMMA MovedOK ==
  ASSUME NEW w \in Calls, NEW p \in Places
  PROVE  LET v == [w EXCEPT !.pc = p]
         IN  /\ v \in Calls /\ v.pc = p /\ v.op = w.op /\ v.check = w.check
             /\ v.draft = w.draft /\ v.asked = w.asked /\ v.raced = w.raced
BY DEF Calls

LEMMA AskingOK ==
  ASSUME NEW w \in Calls, NEW p \in Places, now \in Time
  PROVE  LET v == [w EXCEPT !.pc = p, !.asked = now, !.raced = FALSE]
         IN  /\ v \in Calls /\ v.pc = p /\ v.op = w.op /\ v.check = w.check
             /\ v.draft = w.draft /\ v.asked = now /\ ~v.raced
BY DEF Calls

LEMMA BuiltOK ==
  ASSUME NEW w \in Calls, NEW content \in Contents, AlertsInv
  PROVE  /\ Built(w, content) \in Calls /\ Built(w, content).pc = "store"
         /\ Built(w, content).draft \in Drafts /\ Built(w, content).draft.no = issued + 1
         /\ Built(w, content).asked = 0
<1>1. PICK d : d = [no |-> issued + 1, at |-> now, alert |-> content]
  OBVIOUS
<1>2. d \in Drafts /\ d.no = issued + 1
  BY <1>1 DEF AlertsInv, Drafts
<1>3. Built(w, content) = [w EXCEPT !.pc = "store", !.asked = 0, !.raced = FALSE, !.draft = d]
  BY <1>1 DEF Built
<1> QED BY <1>2, <1>3, ConstantsOK DEF Calls, Places

(* Two states of one call that differ at most in what overtook it.         *)
Alike(v, w) ==
  /\ v.pc = w.pc /\ v.op = w.op /\ v.check = w.check
  /\ v.draft = w.draft /\ v.asked = w.asked

(* A call that is overtaken changes in nothing but its flag.               *)
LEMMA FlaggedOK ==
  ASSUME NEW w \in Calls, NEW b \in BOOLEAN
  PROVE  LET v == [w EXCEPT !.raced = b]
         IN  v \in Calls /\ v.raced = b /\ Alike(v, w) /\ (b = w.raced => v = w)
BY DEF Calls, Alike

LEMMA RacedOK ==
  ASSUME NEW set \in [Senders -> Calls], NEW c \in Senders, NEW r, r = Raced(set, c)
  PROVE  /\ r \in [Senders -> Calls] /\ r[c] = set[c]
         /\ \A d \in Senders \ {c} :
              Alike(r[d], set[d]) /\ (set[d].pc # "idle" => r[d].raced)
<1>1. ASSUME NEW d \in Senders
      PROVE  /\ r[d] \in Calls /\ Alike(r[d], set[d])
             /\ d = c => r[d] = set[d]
             /\ d # c /\ set[d].pc # "idle" => r[d].raced
  <2>1. PICK w \in Calls : w = set[d]
    OBVIOUS
  <2>2. PICK b \in BOOLEAN : b = (w.raced \/ (d # c /\ w.pc # "idle"))
    OBVIOUS
  <2>3. r[d] = [w EXCEPT !.raced = b]
    BY <2>1, <2>2 DEF Raced
  <2>4. r[d] \in Calls /\ r[d].raced = b /\ Alike(r[d], w) /\ (b = w.raced => r[d] = w)
    BY <2>3, FlaggedOK
  <2>5. w.raced \in BOOLEAN
    BY DEF Calls
  <2>6. d = c => b = w.raced
    BY <2>2, <2>5
  <2>7. d # c /\ w.pc # "idle" => b
    BY <2>2
  <2> QED BY <2>1, <2>4, <2>6, <2>7
<1>2. r = [d \in Senders |-> r[d]]
  BY DEF Raced
<1> QED BY <1>1, <1>2
(* A step of one call, seen from the others: it leaves them alone, or they *)
(* are overtaken.                                                          *)
Follows(d) ==
  /\ Alike(caller'[d], caller[d])
  /\ \/ caller[d].pc = "idle" \/ caller'[d].raced
     \/ /\ caller'[d].raced = caller[d].raced
        /\ grant'.at \in {Null, grant.at} /\ sslGrant' = sslGrant
Later == now' \in Time /\ now <= now' /\ alerts \subseteq alerts'

(* A call that only follows keeps its part of the invariant.               *)
LEMMA FollowersOK ==
  ASSUME CallersInv, AlertsInv, Later, caller' \in [Senders -> Calls],
         NEW d \in Senders, Follows(d)
  PROVE  CallOK(caller[d])' /\ Spaced(caller[d])' /\ SSLSpaced(caller[d])'
<1>1. CallOK(caller[d]) /\ Spaced(caller[d]) /\ SSLSpaced(caller[d])
  BY DEF CallersInv
<1>2. caller[d] \in Calls /\ caller'[d] \in Calls /\ caller[d].asked \in Nat /\ now \in Nat
  BY ConstantsOK DEF CallersInv, AlertsInv, Calls
<1>3. CallOK(caller[d])'
  BY <1>1, <1>2, ConstantsOK DEF CallOK, Follows, Alike, Later
<1>4. Spaced(caller[d])'
  BY <1>1 DEF Spaced, Follows, Alike
<1>5. SSLSpaced(caller[d])'
  BY <1>1 DEF SSLSpaced, Follows, Alike
<1> QED BY <1>3, <1>4, <1>5

LEMMA CallersTurn ==
  ASSUME CallersInv, AlertsInv, Later, caller' \in [Senders -> Calls], NEW c \in Senders,
         CallOK(caller[c])', Spaced(caller[c])', SSLSpaced(caller[c])',
         \A d \in Senders \ {c} : Follows(d)
  PROVE  CallersInv'
<1>1. \A d \in Senders : CallOK(caller[d])' /\ Spaced(caller[d])' /\ SSLSpaced(caller[d])'
  BY FollowersOK
<1> QED BY <1>1 DEF CallersInv

(* The call c goes on as w, and the others are left alone.                 *)
LEMMA QuietTurn ==
  ASSUME CallersInv, AlertsInv, Later, NEW c \in Senders, NEW w \in Calls,
         caller' = [caller EXCEPT ![c] = w],
         grant'.at \in {Null, grant.at}, sslGrant' = sslGrant,
         CallOK(w)', Spaced(w)', SSLSpaced(w)'
  PROVE  CallersInv'
<1>1. /\ caller' \in [Senders -> Calls] /\ caller'[c] = w
      /\ \A d \in Senders \ {c} : caller'[d] = caller[d]
  BY DEF CallersInv
<1>2. \A d \in Senders \ {c} : Follows(d)
  BY <1>1 DEF Follows, Alike
<1>3. CallOK(caller[c])' /\ Spaced(caller[c])' /\ SSLSpaced(caller[c])'
  BY <1>1 DEF CallOK, Spaced, SSLSpaced
<1> QED BY <1>1, <1>2, <1>3, CallersTurn

(* A step after which the call holds nothing.                              *)
LEMMA PlainTurn ==
  ASSUME CallersInv, AlertsInv, Later, NEW c \in Senders, NEW w \in Calls,
         caller' = [caller EXCEPT ![c] = w],
         grant'.at \in {Null, grant.at}, sslGrant' = sslGrant,
         w.asked = 0 \/ w.asked = caller[c].asked,
         w.pc \notin {"set", "sslset"},
         w.pc = "store" => w.draft \in Drafts,
         w.pc = "readback" => alerts' # {}
  PROVE  CallersInv'
<1>1. w.asked <= now'
  <2>1. caller[c].asked <= now /\ caller[c].asked \in Nat /\ now \in Nat /\ now' \in Nat
    BY ConstantsOK DEF CallersInv, CallOK, AlertsInv, Later, Calls
  <2> QED BY <2>1 DEF Later
<1>2. CallOK(w)' /\ Spaced(w)' /\ SSLSpaced(w)'
  BY <1>1 DEF CallOK, Spaced, SSLSpaced
<1> QED BY <1>2, QuietTurn

(* The ways in which one call moves and the others follow: it returns, it  *)
(* goes on, it has an alert built.                                         *)
LEMMA ReturnTurn ==
  ASSUME CallersInv, AlertsInv, Later, NEW c \in Senders, Return(c),
         grant'.at \in {Null, grant.at}, sslGrant' = sslGrant
  PROVE  CallersInv'
<1>1. Idle \in Calls /\ Idle.pc = "idle" /\ Idle.asked = 0
  BY IdleOK DEF Idle
<1> QED BY <1>1, PlainTurn DEF Return

LEMMA GotoTurn ==
  ASSUME CallersInv, AlertsInv, Later, NEW c \in Senders,
         NEW p \in {"check", "last", "clear", "ssl", "deliver"}, Goto(c, p),
         grant'.at \in {Null, grant.at}, sslGrant' = sslGrant
  PROVE  CallersInv'
<1>1. PICK w : w = [caller[c] EXCEPT !.pc = p]
  OBVIOUS
<1>2. caller[c] \in Calls /\ p \in Places
  BY DEF CallersInv, Places
<1>3. w \in Calls /\ w.pc = p /\ w.asked = caller[c].asked
  BY <1>1, <1>2, MovedOK
<1>4. caller' = [caller EXCEPT ![c] = w]
  BY <1>1 DEF Goto
<1> QED BY <1>3, <1>4, PlainTurn

LEMMA BuildTurn ==
  ASSUME CallersInv, AlertsInv, Later, NEW c \in Senders, NEW v \in Calls,
         NEW content \in Contents,
         caller' = [caller EXCEPT ![c] = Built(v, content)],
         grant'.at \in {Null, grant.at}, sslGrant' = sslGrant
  PROVE  CallersInv'
<1>1. PICK w : w = Built(v, content)
  OBVIOUS
<1> QED BY <1>1, BuiltOK, PlainTurn
-----------------------------------------------------------------------------
(* The counters of the model and the rows of the table.                    *)
LEMMA AlertsStep ==
  ASSUME AlertsInv, CallersInv, [Next]_vars
  PROVE  AlertsInv'
<1> USE DEF Next, Step, ProcessHealthCheckAlerts, Generate, CheckDowntimeAlert,
        SetDowntimeAlert, GetLastDowntimeAlert, Create, ClearDowntimeAlert, CheckSSLAlert,
        SetSSLAlert, SetSSLLimit, Build, ReadBack, DeliverResiliently, EndDelivery,
        Delivering, CancelCall, Tick, vars
<1>1. limited' = limited
  OBVIOUS
<1>2. issued' \in {issued, issued + 1}
  OBVIOUS
<1>3. now' = now \/ (now < MaxTime /\ now' = now + 1)
  OBVIOUS
<1>4. checks' = checks \/ (checks < MaxChecks /\ checks' = checks + 1)
  OBVIOUS
<1>5. sends' = sends \/ (sends < MaxSends /\ sends' = sends + 1)
  OBVIOUS
<1>6. errors' = errors \/ Fail
  OBVIOUS
<1>7. alerts' = alerts \/ \E c \in Senders : At(c, "store") /\ Stored(c)
  OBVIOUS
<1> HIDE DEF Next, Step, ProcessHealthCheckAlerts, Generate, CheckDowntimeAlert,
        SetDowntimeAlert, GetLastDowntimeAlert, Create, ClearDowntimeAlert, CheckSSLAlert,
        SetSSLAlert, SetSSLLimit, Build, ReadBack, DeliverResiliently, EndDelivery,
        Delivering, CancelCall, Tick, vars
<1>8. /\ alerts' \subseteq Drafts
      /\ alerts' # {} => \E a \in alerts' : \A b \in alerts' : b.no <= a.no
  <2>1. CASE alerts' = alerts
    BY <2>1 DEF AlertsInv
  <2>2. ASSUME NEW c \in Senders, At(c, "store"), Stored(c)
        PROVE  /\ alerts' \subseteq Drafts
               /\ \E a \in alerts' : \A b \in alerts' : b.no <= a.no
    <3>1. PICK d \in Drafts : d = caller[c].draft
      BY <2>2 DEF CallersInv, CallOK, At
    <3>2. alerts' = alerts \union {d}
      BY <2>2, <3>1 DEF Stored
    <3>3. \A a \in Drafts : a.no \in Nat
      BY DEF Drafts
    <3>4. CASE alerts = {}
      <4>1. \A b \in alerts' : b.no <= d.no
        BY <3>2, <3>3, <3>4
      <4> QED BY <3>2, <3>4, <4>1
    <3>5. CASE alerts # {}
      <4>1. PICK a \in alerts : \A b \in alerts : b.no <= a.no
        BY <3>5 DEF AlertsInv
      <4>2. a \in Drafts /\ \A b \in alerts : b \in Drafts
        BY DEF AlertsInv
      <4>3. CASE d.no <= a.no
        BY <3>2, <4>1, <4>2, <4>3 DEF AlertsInv
      <4>4. CASE ~(d.no <= a.no)
        <5>1. \A b \in alerts' : b.no <= d.no
          BY <3>2, <3>3, <4>1, <4>2, <4>4
        <5> QED BY <3>2, <4>2, <5>1 DEF AlertsInv
      <4> QED BY <4>3, <4>4
    <3> QED BY <3>2, <3>4, <3>5 DEF AlertsInv
  <2> QED BY <1>7, <2>1, <2>2
<1>9. now' \in Time /\ issued' \in Nat
  BY <1>2, <1>3, ConstantsOK DEF AlertsInv, Time
<1>10. checks' \in 0..MaxChecks /\ sends' \in 0..MaxSends
  BY <1>4, <1>5, AlertAssumption DEF AlertsInv
<1>11. errors' \in 0..MaxErrors
  BY <1>6, AlertAssumption DEF AlertsInv, Fail
<1> QED BY <1>1, <1>8, <1>9, <1>10, <1>11 DEF AlertsInv

(* No step turns the clock back or removes an alert.                       *)
LEMMA TimeIsLater ==
  ASSUME AlertsInv, [Next]_vars, AlertsInv'
  PROVE  Later
<1> USE DEF Next, Step, ProcessHealthCheckAlerts, Generate, CheckDowntimeAlert,
        SetDowntimeAlert, GetLastDowntimeAlert, Create, Stored, ClearDowntimeAlert,
        CheckSSLAlert, SetSSLAlert, SetSSLLimit, Build, ReadBack, DeliverResiliently,
        EndDelivery, Delivering, CancelCall, Tick, vars
<1>1. now' = now \/ now' = now + 1
  OBVIOUS
<1>2. alerts \subseteq alerts'
  OBVIOUS
<1> HIDE DEF Next, vars
<1> QED BY <1>1, <1>2, ConstantsOK DEF AlertsInv, Later
-----------------------------------------------------------------------------
(* The limit of downtimes.                                                 *)
LEMMA SecondsOK ==
  ASSUME NEW t \in Nat
  PROVE  LET s == (t \div Second) * Second IN s \in 0..t /\ t - s < Second
<1>1. Second \in Nat \ {0}
  BY ConstantsOK
<1>2. PICK q \in Nat, r \in 0..(Second - 1) : q = t \div Second /\ t = Second * q + r
  BY <1>1
<1>3. q * Second = Second * q /\ Second * q \in Nat
  BY <1>1
<1>4. q * Second = t - r
  BY <1>1, <1>2, <1>3
<1> QED BY <1>1, <1>2, <1>3, <1>4

(* The limit for downtimes is set for a window, cleared by a recovery, and *)
(* expires when its window is over, and not before.                        *)
LEMMA SetKeepsLimit ==
  ASSUME LimitInv, AlertsInv, CallersInv, NEW c \in Senders,
         At(c, "set"), WriteLimit(c, Window), NEW failed \in BOOLEAN, Grant(c, failed),
         now' = now
  PROVE  LimitInv' /\ limit' # Null
<1>1. PICK t \in Nat : t = caller[c].asked /\ t \in Time /\ t <= now
  BY ConstantsOK DEF CallersInv, CallOK, Calls
<1>2. PICK s \in 0..t : s = (t \div Second) * Second /\ t - s < Second
  BY <1>1, SecondsOK
<1>3. now \in Time /\ now \in Nat /\ s \in Time /\ now + Window \in Nat
  BY <1>1, <1>2, ConstantsOK DEF AlertsInv, Time
<1>4. limit' = [value |-> s, expires |-> now + Window]
  BY <1>1, <1>2 DEF WriteLimit
<1>5. limit' # Null
  BY <1>3, <1>4, ConstantsOK
<1>6. /\ grant'.at = t /\ spoilt' \in BOOLEAN /\ grant' \in [at : Time \union {Null}, no : Nat]
  BY <1>1 DEF Grant, AlertsInv
<1>7. limit' \in [value : Time, expires : Nat] /\ limit'.value = s
      /\ limit'.expires = now + Window
  BY <1>3, <1>4
<1>8. t # Null
  BY ConstantsOK
<1> QED BY <1>1, <1>2, <1>3, <1>5, <1>6, <1>7, <1>8, ConstantsOK DEF LimitInv

LEMMA ClearKeepsLimit ==
  ASSUME LimitInv, limit' = Null, grant' = [grant EXCEPT !.at = Null],
         now' = now, spoilt' = spoilt
  PROVE  LimitInv'
<1>1. grant'.at = Null /\ grant' \in [at : Time \union {Null}, no : Nat]
  BY DEF LimitInv
<1> QED BY <1>1 DEF LimitInv

LEMMA TickKeepsLimit ==
  ASSUME LimitInv, AlertsInv, Tick
  PROVE  LimitInv'
<1>1. now' = now + 1 /\ now \in Nat /\ now' \in Nat /\ UNCHANGED <<grant, spoilt>>
  BY ConstantsOK DEF Tick, history, AlertsInv
<1>2. grant.at # Null => grant.at \in Nat
  BY ConstantsOK DEF LimitInv
<1>3. CASE limit = Null
  <2>1. limit' = Null
    BY <1>3 DEF Tick
  <2> QED BY <1>1, <1>2, <1>3, <2>1, ConstantsOK DEF LimitInv
<1>4. CASE limit # Null
  <2>1. limit.expires \in Nat /\ limit.expires # Null
    BY <1>4, ConstantsOK DEF LimitInv
  <2>2. limit' = IF limit.expires <= now' THEN Null ELSE limit
    BY <1>4, <2>1 DEF Tick, Expired
  <2>3. CASE limit.expires <= now'
    BY <1>1, <1>2, <1>4, <2>1, <2>2, <2>3, ConstantsOK DEF LimitInv
  <2>4. CASE ~(limit.expires <= now')
    BY <1>1, <1>2, <1>4, <2>1, <2>2, <2>4, ConstantsOK DEF LimitInv
  <2> QED BY <2>3, <2>4
<1> QED BY <1>3, <1>4

(* No other step touches it.                                               *)
LEMMA LimitStep ==
  ASSUME LimitInv, AlertsInv, CallersInv, [Next]_vars
  PROVE  LimitInv'
<1>1. CASE UNCHANGED <<limit, grant, spoilt, now>>
  BY <1>1 DEF LimitInv
<1>2. ASSUME NEW c \in Senders, SetDowntimeAlert(c) PROVE LimitInv'
  BY <1>1, <1>2, SetKeepsLimit DEF SetDowntimeAlert
<1>3. ASSUME NEW c \in Senders, ClearDowntimeAlert(c) PROVE LimitInv'
  BY <1>1, <1>3, ClearKeepsLimit DEF ClearDowntimeAlert
<1>4. ASSUME NEW c \in Senders, Create(c) PROVE LimitInv'
  <2>1. UNCHANGED <<limit, grant, now>>
    BY <1>4 DEF Create, keys
  <2>2. spoilt' \in BOOLEAN
    BY <1>4 DEF Create, LimitInv
  <2> QED BY <2>1, <2>2 DEF LimitInv
<1>5. ASSUME NEW c \in Senders,
             \/ ProcessHealthCheckAlerts(c) \/ Generate(c) \/ DeliverResiliently(c)
             \/ CheckDowntimeAlert(c) \/ GetLastDowntimeAlert(c) \/ CheckSSLAlert(c)
             \/ SetSSLAlert(c) \/ ReadBack(c) \/ EndDelivery(c) \/ CancelCall(c)
             \/ \E i \in Ids : Delivering(c, i)
      PROVE  LimitInv'
  <2>1. UNCHANGED <<limit, grant, spoilt, now>>
    BY <1>5 DEF ProcessHealthCheckAlerts, Generate, DeliverResiliently, CheckDowntimeAlert,
         GetLastDowntimeAlert, CheckSSLAlert, SetSSLAlert, ReadBack, EndDelivery, CancelCall,
         Delivering, keys, history
  <2> QED BY <1>1, <2>1
<1>6. CASE Tick
  BY <1>6, TickKeepsLimit
<1>7. CASE UNCHANGED vars
  BY <1>1, <1>7 DEF vars, keys, history
<1> QED BY <1>2, <1>3, <1>4, <1>5, <1>6, <1>7 DEF Next, Step
-----------------------------------------------------------------------------
(* The limits of the certificate.                                          *)
LEMMA SetKeepsSSL ==
  ASSUME SSLInv, AlertsInv, NEW e \in Alertable,
         sslLimit' = [sslLimit EXCEPT ![e] = now + Day],
         sslGrant' = [sslGrant EXCEPT ![e] = now] \/ sslGrant' = sslGrant,
         now' = now
  PROVE  SSLInv'
<1>1. now \in Time /\ now \in Nat /\ now + Day \in Nat /\ Day \in Nat
  BY ConstantsOK DEF AlertsInv
<1>2. /\ sslLimit' \in [Alertable -> Nat \union {Null}] /\ sslLimit'[e] = now + Day
      /\ \A d \in Alertable \ {e} : sslLimit'[d] = sslLimit[d]
  BY <1>1 DEF SSLInv
<1>3. /\ sslGrant' \in [Alertable -> Time \union {Null}] /\ sslGrant'[e] \in {now, sslGrant[e]}
      /\ \A d \in Alertable \ {e} : sslGrant'[d] = sslGrant[d]
  BY <1>1 DEF SSLInv
<1>4. ASSUME NEW d \in Alertable PROVE SSLLimitOK(sslLimit[d], sslGrant[d])'
  <2>1. SSLLimitOK(sslLimit[d], sslGrant[d])
    BY DEF SSLInv
  <2>2. CASE d # e
    BY <1>2, <1>3, <2>1, <2>2 DEF SSLLimitOK
  <2>3. CASE d = e
    <3>1. sslLimit'[d] \in Nat /\ sslLimit'[d] # Null
      BY <1>1, <1>2, <2>3, ConstantsOK
    <3>2. PICK g \in Time \union {Null} : g = sslGrant'[d]
      BY <1>3
    <3>3. g # Null => g \in Nat /\ g <= now
      BY <1>1, <1>3, <2>1, <2>3, <3>2, ConstantsOK DEF SSLLimitOK
    <3> QED BY <1>1, <1>2, <2>3, <3>1, <3>2, <3>3 DEF SSLLimitOK
  <2> QED BY <2>2, <2>3
<1> QED BY <1>2, <1>3, <1>4 DEF SSLInv

LEMMA TickKeepsSSL ==
  ASSUME SSLInv, AlertsInv, Tick
  PROVE  SSLInv'
<1>1. now' = now + 1 /\ now \in Nat /\ now' \in Nat /\ sslGrant' = sslGrant /\ Day \in Nat
  BY ConstantsOK DEF Tick, history, AlertsInv
<1>2. ASSUME NEW d \in Alertable
      PROVE  sslLimit'[d] \in Nat \union {Null} /\ SSLLimitOK(sslLimit[d], sslGrant[d])'
  <2>1. SSLLimitOK(sslLimit[d], sslGrant[d])
    BY DEF SSLInv
  <2>2. sslLimit'[d] = IF Expired(sslLimit[d]) THEN Null ELSE sslLimit[d]
    BY DEF Tick
  <2>3. PICK l \in Nat \union {Null}, g \in Time \union {Null} :
          l = sslLimit[d] /\ g = sslGrant[d]
    BY <2>1 DEF SSLLimitOK
  <2>4. l # Null => l \in Nat
    OBVIOUS
  <2>5. g # Null => g \in Nat
    BY ConstantsOK
  <2>6. CASE Expired(l)
    <3>1. l # Null /\ l <= now'
      BY <2>6 DEF Expired
    <3> QED BY <1>1, <2>1, <2>2, <2>3, <2>4, <2>5, <2>6, <3>1 DEF SSLLimitOK
  <2>7. CASE ~Expired(l)
    BY <1>1, <2>1, <2>2, <2>3, <2>4, <2>5, <2>7 DEF SSLLimitOK
  <2> QED BY <2>6, <2>7
<1>3. sslLimit' = [d \in Alertable |-> sslLimit'[d]]
  BY DEF Tick
<1>4. sslLimit' \in [Alertable -> Nat \union {Null}]
  BY <1>2, <1>3
<1> QED BY <1>1, <1>2, <1>4 DEF SSLInv

(* The same holds of the limits of the certificate.                        *)
LEMMA SSLStep ==
  ASSUME SSLInv, AlertsInv, CallersInv, [Next]_vars
  PROVE  SSLInv'
<1>1. CASE UNCHANGED <<sslLimit, sslGrant, now>>
  BY <1>1 DEF SSLInv, SSLLimitOK
<1>2. ASSUME NEW c \in Senders, SetSSLAlert(c) PROVE SSLInv'
  <2>1. PICK e \in Alertable : e = caller[c].check.days
    BY <1>2 DEF SetSSLAlert, At, CallersInv, CallOK
  <2>2. now' = now
    BY <1>2 DEF SetSSLAlert
  <2>3. CASE SetSSLLimit(c, Day)
    BY <2>1, <2>2, <2>3, SetKeepsSSL DEF SetSSLLimit
  <2>4. CASE /\ UNCHANGED sslGrant
             /\ sslLimit' = [sslLimit EXCEPT ![caller[c].check.days] = now + Day]
    BY <2>1, <2>2, <2>4, SetKeepsSSL
  <2>5. CASE UNCHANGED <<sslGrant, sslLimit>>
    BY <1>1, <2>2, <2>5
  <2> QED BY <1>2, <2>3, <2>4, <2>5 DEF SetSSLAlert
<1>3. ASSUME NEW c \in Senders,
             \/ ProcessHealthCheckAlerts(c) \/ Generate(c) \/ DeliverResiliently(c)
             \/ CheckDowntimeAlert(c) \/ SetDowntimeAlert(c) \/ GetLastDowntimeAlert(c)
             \/ Create(c) \/ ClearDowntimeAlert(c) \/ CheckSSLAlert(c) \/ ReadBack(c)
             \/ EndDelivery(c) \/ CancelCall(c) \/ \E i \in Ids : Delivering(c, i)
      PROVE  SSLInv'
  <2>1. UNCHANGED <<sslLimit, sslGrant, now>>
    BY <1>3 DEF ProcessHealthCheckAlerts, Generate, DeliverResiliently, CheckDowntimeAlert,
         SetDowntimeAlert, GetLastDowntimeAlert, Create, ClearDowntimeAlert, CheckSSLAlert,
         ReadBack, EndDelivery, CancelCall, Delivering, keys, history
  <2> QED BY <1>1, <2>1
<1>4. CASE Tick
  BY <1>4, TickKeepsSSL
<1>5. CASE UNCHANGED vars
  BY <1>1, <1>5 DEF vars, keys, history
<1> QED BY <1>2, <1>3, <1>4, <1>5 DEF Next, Step

-----------------------------------------------------------------------------
(* The alert a limit was set for: a call that is to store it keeps it      *)
(* until it is in the table, or the store failed.                          *)
LEMMA OvertakingTurn ==
  ASSUME CallersInv, NEW d \in Senders, NEW w \in Calls,
         caller' = Raced([caller EXCEPT ![d] = w], d)
  PROVE  /\ caller' \in [Senders -> Calls] /\ caller'[d] = w
         /\ \A c \in Senders \ {d} :
              Alike(caller'[c], caller[c]) /\ (caller[c].pc # "idle" => caller'[c].raced)
<1>1. PICK set \in [Senders -> Calls] : set = [caller EXCEPT ![d] = w]
  BY DEF CallersInv
<1>2. set[d] = w /\ \A c \in Senders \ {d} : set[c] = caller[c]
  BY <1>1 DEF CallersInv
<1> QED BY <1>1, <1>2, RacedOK

(* A step of one call leaves every other where it is.                      *)
LEMMA OthersRemain ==
  ASSUME CallersInv, AlertsInv, NEW d \in Senders,
         \/ ProcessHealthCheckAlerts(d) \/ Generate(d) \/ DeliverResiliently(d) \/ Step(d)
  PROVE  \A c \in Senders \ {d} : Alike(caller'[c], caller[c])
<1>1. caller \in [Senders -> Calls] /\ caller[d] \in Calls
  BY DEF CallersInv
<1>2. CASE \A c \in Senders \ {d} : caller'[c] = caller[c]
  BY <1>2 DEF Alike
<1>3. CASE ProcessHealthCheckAlerts(d)
  BY <1>1, <1>2, <1>3 DEF ProcessHealthCheckAlerts
<1>4. CASE Generate(d) \/ DeliverResiliently(d)
  BY <1>1, <1>2, <1>4 DEF Generate, DeliverResiliently
<1>5. CASE CheckDowntimeAlert(d)
  BY <1>1, <1>2, <1>5 DEF CheckDowntimeAlert, Return, Asking
<1>6. CASE GetLastDowntimeAlert(d)
  BY <1>1, <1>2, <1>6 DEF GetLastDowntimeAlert, Return, Build, Goto
<1>7. CASE Create(d)
  BY <1>1, <1>2, <1>7 DEF Create, Return
<1>8. CASE ClearDowntimeAlert(d)
  BY <1>1, <1>2, <1>8 DEF ClearDowntimeAlert, Goto
<1>9. CASE CheckSSLAlert(d)
  BY <1>1, <1>2, <1>9 DEF CheckSSLAlert, Return, Build, Asking
<1>10. CASE ReadBack(d) \/ EndDelivery(d)
  BY <1>1, <1>2, <1>10 DEF ReadBack, EndDelivery, Return
<1>11. CASE SetDowntimeAlert(d)
  <2>1. PICK w \in Calls : w = Built(caller[d], DowntimeAlert)
    BY <1>1, BuiltOK, ContentsOK
  <2>2. \/ caller' = Raced([caller EXCEPT ![d] = w], d)
        \/ caller' = Raced([caller EXCEPT ![d] = Idle], d)
        \/ Return(d)
    BY <1>11, <2>1 DEF SetDowntimeAlert
  <2>3. CASE Return(d)
    BY <1>1, <1>2, <2>3 DEF Return
  <2> QED BY <2>2, <2>3, OvertakingTurn, IdleOK
<1>12. CASE SetSSLAlert(d)
  <2>1. caller[d].check.days \in Alertable
    BY <1>12 DEF SetSSLAlert, At, CallersInv, CallOK
  <2>2. PICK w \in Calls : w = Built(caller[d], SSLAlert(caller[d].check.days))
    BY <1>1, <2>1, BuiltOK, ContentsOK
  <2>3. caller' = Raced([caller EXCEPT ![d] = w], d) \/ Return(d)
    BY <1>12, <2>2 DEF SetSSLAlert, SetSSLLimit
  <2>4. CASE Return(d)
    BY <1>1, <1>2, <2>4 DEF Return
  <2> QED BY <2>3, <2>4, OvertakingTurn
<1> QED BY <1>3, <1>4, <1>5, <1>6, <1>7, <1>8, <1>9, <1>10, <1>11, <1>12 DEF Step
(* A limit stands for an alert that a call is about to store, that is      *)
(* stored, or that was spoilt.                                             *)
LEMMA BackedStep ==
  ASSUME LimitIsBacked, CallersInv, AlertsInv, [Next]_vars
  PROVE  LimitIsBacked'
<1>1. ASSUME limit' # Null => limit # Null, grant'.no = grant.no,
             spoilt => spoilt', alerts \subseteq alerts',
             \A c \in Senders : At(c, "store") /\ caller[c].draft.no = grant.no =>
               \/ spoilt'
               \/ \E a \in alerts' : a.no = grant.no
               \/ caller'[c].pc = "store" /\ caller'[c].draft = caller[c].draft
      PROVE  LimitIsBacked'
  BY <1>1 DEF LimitIsBacked, At
<1>2. ASSUME limit' # Null => limit # Null, grant'.no = grant.no, spoilt' = spoilt,
             alerts' = alerts,
             \A c \in Senders : At(c, "store") => Alike(caller'[c], caller[c])
      PROVE  LimitIsBacked'
  BY <1>1, <1>2 DEF Alike, At
<1>3. ASSUME NEW d \in Senders, SetDowntimeAlert(d) PROVE LimitIsBacked'
  <2>1. At(d, "set") /\ alerts' = alerts
    BY <1>3 DEF SetDowntimeAlert
  <2>2. CASE Grant(d, TRUE)
    BY <2>2 DEF Grant, LimitIsBacked
  <2>3. CASE Grant(d, FALSE) /\ caller' = Raced([caller EXCEPT ![d] = Built(@, DowntimeAlert)], d)
    <3>1. PICK w \in Calls : w = Built(caller[d], DowntimeAlert)
      BY BuiltOK, ContentsOK DEF CallersInv
    <3>2. w.pc = "store" /\ w.draft.no = issued + 1
      BY <3>1, BuiltOK, ContentsOK DEF CallersInv
    <3>3. caller'[d] = w
      BY <2>3, <3>1, OvertakingTurn
    <3>4. grant'.no = issued + 1
      BY <2>3 DEF Grant
    <3> QED BY <3>2, <3>3, <3>4 DEF LimitIsBacked, At
  <2>4. CASE UNCHANGED <<limit, spoilt, grant>>
    <3>1. \A c \in Senders \ {d} : Alike(caller'[c], caller[c])
      BY <1>3, OthersRemain DEF Step
    <3> QED BY <1>2, <2>1, <2>4, <3>1 DEF At
  <2> QED BY <1>3, <2>2, <2>3, <2>4 DEF SetDowntimeAlert
<1>4. ASSUME NEW d \in Senders, Create(d) PROVE LimitIsBacked'
  <2>1. limit' = limit /\ grant' = grant /\ At(d, "store")
    BY <1>4 DEF Create, keys
  <2>2. \A c \in Senders \ {d} : Alike(caller'[c], caller[c])
    BY <1>4, OthersRemain DEF Step
  <2>3. /\ spoilt => spoilt'
        /\ alerts \subseteq alerts'
        /\ spoilt' \/ Stored(d) \/ caller[d].draft.no # grant.no
    <3>1. PICK b : b <=> (spoilt \/ caller[d].draft.no = grant.no)
      OBVIOUS
    <3>2. (Stored(d) /\ spoilt' = spoilt) \/ ((Stored(d) \/ UNCHANGED alerts) /\ (spoilt' <=> b))
      BY <1>4, <3>1, Zenon DEF Create
    <3>3. alerts \subseteq alerts'
      BY <3>2 DEF Stored
    <3> QED BY <3>1, <3>2, <3>3
  <2>4. Stored(d) => caller[d].draft \in alerts'
    BY DEF Stored
  <2> QED BY <1>1, <2>1, <2>2, <2>3, <2>4 DEF Alike, At
<1>5. ASSUME NEW d \in Senders, ClearDowntimeAlert(d) PROVE LimitIsBacked'
  <2>1. \A c \in Senders \ {d} : Alike(caller'[c], caller[c])
    BY <1>5, OthersRemain DEF Step
  <2>2. CASE limit' = Null
    BY <2>2 DEF LimitIsBacked
  <2>3. CASE UNCHANGED <<limit, grant>>
    BY <1>2, <1>5, <2>1, <2>3 DEF ClearDowntimeAlert, At
  <2> QED BY <1>5, <2>2, <2>3 DEF ClearDowntimeAlert
<1>6. ASSUME NEW d \in Senders,
             \/ ProcessHealthCheckAlerts(d) \/ Generate(d) \/ DeliverResiliently(d)
             \/ CheckDowntimeAlert(d) \/ GetLastDowntimeAlert(d) \/ CheckSSLAlert(d)
             \/ SetSSLAlert(d) \/ ReadBack(d) \/ EndDelivery(d)
      PROVE  LimitIsBacked'
  <2>1. \A c \in Senders \ {d} : Alike(caller'[c], caller[c])
    BY <1>6, OthersRemain DEF Step
  <2>2. ~At(d, "store") /\ UNCHANGED <<limit, grant, spoilt, alerts>>
    BY <1>6 DEF ProcessHealthCheckAlerts, Generate, DeliverResiliently, CheckDowntimeAlert,
         GetLastDowntimeAlert, CheckSSLAlert, SetSSLAlert, ReadBack, EndDelivery, keys,
         history, At
  <2> QED BY <1>2, <2>1, <2>2
<1>7. ASSUME \/ \E d \in Senders : CancelCall(d) \/ \E i \in Ids : Delivering(d, i)
             \/ Tick \/ UNCHANGED vars
      PROVE  LimitIsBacked'
  <2>1. UNCHANGED <<caller, grant, spoilt, alerts>>
    BY <1>7 DEF CancelCall, Delivering, Tick, vars, history
  <2>2. limit' # Null => limit # Null
    BY <1>7 DEF CancelCall, Delivering, Tick, vars, keys
  <2> QED BY <1>2, <2>1, <2>2 DEF Alike
<1> QED BY <1>3, <1>4, <1>5, <1>6, <1>7 DEF Next, Step

-----------------------------------------------------------------------------
(* The calls, one lemma for each step that does more than move on.         *)
LEMMA ProcessTurn ==
  ASSUME CallersInv, AlertsInv, Later, NEW c \in Senders, ProcessHealthCheckAlerts(c)
  PROVE  CallersInv'
<1>1. grant' = grant /\ sslGrant' = sslGrant
  BY DEF ProcessHealthCheckAlerts, history
<1>2. PICK ok \in BOOLEAN, days \in DaysUntil \union {Null} :
        LET w == [Idle EXCEPT !.check = [ok |-> ok, days |-> days]]
        IN  \/ caller' = [caller EXCEPT ![c] = Built(w, DowntimeAlert)]
            \/ caller' = [caller EXCEPT ![c] = [w EXCEPT !.pc = IF ok THEN "last" ELSE "check"]]
  BY DEF ProcessHealthCheckAlerts
<1>3. PICK w : w = [Idle EXCEPT !.check = [ok |-> ok, days |-> days]]
  OBVIOUS
<1>4. w \in Calls /\ w.asked = 0
  BY <1>3, IdleOK DEF Calls, Idle
<1>5. CASE caller' = [caller EXCEPT ![c] = Built(w, DowntimeAlert)]
  BY <1>1, <1>4, <1>5, BuildTurn, ContentsOK
<1>6. CASE caller' = [caller EXCEPT ![c] = [w EXCEPT !.pc = IF ok THEN "last" ELSE "check"]]
  <2>1. PICK p \in {"last", "check"} : p = IF ok THEN "last" ELSE "check"
    OBVIOUS
  <2>2. p \in Places
    BY DEF Places
  <2>3. PICK v \in Calls : v = [w EXCEPT !.pc = p]
    BY <1>4, <2>2, MovedOK
  <2>4. v.pc = p /\ v.asked = 0
    BY <1>4, <2>2, <2>3, MovedOK
  <2>5. caller' = [caller EXCEPT ![c] = v]
    BY <1>6, <2>1, <2>3
  <2> QED BY <1>1, <2>4, <2>5, PlainTurn
<1> QED BY <1>2, <1>3, <1>5, <1>6

(* Each operation of a call keeps what is known of the calls.              *)
LEMMA GenerateTurn ==
  ASSUME CallersInv, AlertsInv, Later, NEW c \in Senders, Generate(c)
  PROVE  CallersInv'
<1>1. grant' = grant /\ sslGrant' = sslGrant
  BY DEF Generate, history
<1>2. PICK o \in {"generate", "deliver"}, content \in Contents :
        caller' = [caller EXCEPT ![c] = Built([Idle EXCEPT !.op = o], content)]
  BY DirectAssumption DEF Generate
<1>3. PICK w \in Calls : w = [Idle EXCEPT !.op = o]
  BY IdleOK DEF Calls
<1> QED BY <1>1, <1>2, <1>3, BuildTurn

LEMMA DeliverTurn ==
  ASSUME CallersInv, AlertsInv, Later, NEW c \in Senders,
         ReadBack(c) \/ DeliverResiliently(c)
  PROVE  CallersInv'
<1>1. grant' = grant /\ sslGrant' = sslGrant
  BY DEF ReadBack, DeliverResiliently, history
<1>2. CASE Return(c)
  BY <1>1, <1>2, ReturnTurn
<1>3. ASSUME NEW v \in Calls, NEW a \in alerts, NEW w,
             w = [v EXCEPT !.pc = "deliver", !.draft = a],
             v.asked = 0 \/ v.asked = caller[c].asked,
             caller' = [caller EXCEPT ![c] = w]
      PROVE  CallersInv'
  <2>1. a \in Drafts
    BY DEF AlertsInv
  <2>2. w \in Calls /\ w.pc = "deliver" /\ w.asked = v.asked
    BY <1>3, <2>1 DEF Calls, Places
  <2> QED BY <1>1, <1>3, <2>2, PlainTurn
<1>4. CASE /\ At(c, "readback")
           /\ caller' = [caller EXCEPT ![c].pc = "deliver", ![c].draft = Newest(alerts)]
  <2>1. alerts # {}
    BY <1>4 DEF CallersInv, CallOK, At
  <2>2. PICK a \in alerts : a = Newest(alerts)
    BY <2>1 DEF AlertsInv, Newest
  <2>3. PICK v \in Calls : v = caller[c]
    BY DEF CallersInv
  <2>4. PICK w : w = [v EXCEPT !.pc = "deliver", !.draft = a]
    OBVIOUS
  <2>5. caller' = [caller EXCEPT ![c] = w]
    BY <1>4, <2>2, <2>3, <2>4 DEF CallersInv
  <2> QED BY <1>3, <2>3, <2>4, <2>5
<1>5. ASSUME NEW a \in alerts,
             caller' = [caller EXCEPT ![c] =
                         [Idle EXCEPT !.pc = "deliver", !.op = "deliver", !.draft = a]]
      PROVE  CallersInv'
  <2>1. PICK v : v = [Idle EXCEPT !.op = "deliver"]
    OBVIOUS
  <2>2. v \in Calls /\ v.asked = 0
    BY <2>1, IdleOK DEF Calls, Idle
  <2>3. PICK w : w = [v EXCEPT !.pc = "deliver", !.draft = a]
    OBVIOUS
  <2>4. caller' = [caller EXCEPT ![c] = w]
    BY <1>5, <2>1, <2>3 DEF Idle
  <2> QED BY <1>3, <2>2, <2>3, <2>4
<1> QED BY <1>2, <1>4, <1>5 DEF ReadBack, DeliverResiliently
(* It asked for the limit, found none in force, and the alert the limit    *)
(* was last set for is a window old, less the fraction of a second.        *)
LEMMA CheckTurn ==
  ASSUME CallersInv, AlertsInv, LimitInv, Later, NEW c \in Senders, CheckDowntimeAlert(c)
  PROVE  CallersInv'
<1>1. grant' = grant /\ sslGrant' = sslGrant /\ now' = now
  BY DEF CheckDowntimeAlert, history
<1>2. CASE Return(c)
  BY <1>1, <1>2, ReturnTurn
<1>3. CASE /\ limit = Null \/ (limit # Null /\ now - limit.value >= Window)
           /\ Asking(c, "set")
  <2>1. PICK w : w = [caller[c] EXCEPT !.pc = "set", !.asked = now, !.raced = FALSE]
    OBVIOUS
  <2>2. caller[c] \in Calls /\ "set" \in Places /\ now \in Time
    BY DEF CallersInv, Places, AlertsInv
  <2>3. w \in Calls /\ w.pc = "set" /\ w.asked = now
    BY <2>1, <2>2, AskingOK
  <2>4. caller' = [caller EXCEPT ![c] = w]
    BY <1>3, <2>1 DEF Asking, CallersInv
  <2>5. PICK g \in Time \union {Null} : g = grant.at
    BY DEF LimitInv
  <2>6. ASSUME g # Null PROVE now - g > Window - Second
    <3>1. g \in Nat /\ now \in Nat
      BY <2>2, <2>6, ConstantsOK
    <3>2. CASE limit = Null
      BY <2>5, <2>6, <3>1, <3>2, ConstantsOK DEF LimitInv
    <3>3. CASE limit # Null /\ now - limit.value >= Window
      <4>1. limit.value = (g \div Second) * Second
        BY <2>5, <3>3 DEF LimitInv
      <4>2. PICK s \in 0..g : s = (g \div Second) * Second /\ g - s < Second
        BY <3>1, SecondsOK
      <4> QED BY <3>1, <3>3, <4>1, <4>2, ConstantsOK
    <3> QED BY <1>3, <3>2, <3>3
  <2>7. Spaced(w)'
    BY <1>1, <2>3, <2>5, <2>6 DEF Spaced
  <2>8. CallOK(w)' /\ SSLSpaced(w)'
    BY <1>1, <2>2, <2>3, ConstantsOK DEF CallOK, SSLSpaced
  <2> QED BY <1>1, <2>3, <2>4, <2>7, <2>8, QuietTurn
<1> QED BY <1>2, <1>3 DEF CheckDowntimeAlert

(* An alert is built and every other call is overtaken.                    *)
LEMMA OvertakingKeeps ==
  ASSUME CallersInv, AlertsInv, Later, NEW c \in Senders, NEW w \in Calls,
         caller' = Raced([caller EXCEPT ![c] = w], c),
         w.asked = 0, w.pc \in {"idle", "store"}, w.pc = "store" => w.draft \in Drafts
  PROVE  CallersInv'
<1>1. /\ caller' \in [Senders -> Calls] /\ caller'[c] = w
      /\ \A d \in Senders \ {c} :
           Alike(caller'[d], caller[d]) /\ (caller[d].pc # "idle" => caller'[d].raced)
  BY OvertakingTurn
<1>2. \A d \in Senders \ {c} : Follows(d)
  BY <1>1 DEF Follows
<1>3. now' \in Nat
  BY ConstantsOK DEF Later
<1>4. CallOK(w)' /\ Spaced(w)' /\ SSLSpaced(w)'
  BY <1>3 DEF CallOK, Spaced, SSLSpaced
<1>5. CallOK(caller[c])' /\ Spaced(caller[c])' /\ SSLSpaced(caller[c])'
  BY <1>1, <1>4 DEF CallOK, Spaced, SSLSpaced
<1> QED BY <1>1, <1>2, <1>5, CallersTurn

LEMMA SetTurn ==
  ASSUME CallersInv, AlertsInv, Later, NEW c \in Senders, SetDowntimeAlert(c)
  PROVE  CallersInv'
<1>1. sslGrant' = sslGrant
  BY DEF SetDowntimeAlert
<1>2. CASE caller' = Raced([caller EXCEPT ![c] = Built(@, DowntimeAlert)], c)
  <2>1. PICK w : w = Built(caller[c], DowntimeAlert)
    OBVIOUS
  <2>2. w \in Calls /\ w.pc = "store" /\ w.draft \in Drafts /\ w.asked = 0
    BY <2>1, BuiltOK, ContentsOK DEF CallersInv
  <2>3. caller' = Raced([caller EXCEPT ![c] = w], c)
    BY <1>2, <2>1
  <2> QED BY <2>2, <2>3, OvertakingKeeps
<1>3. CASE caller' = Raced([caller EXCEPT ![c] = Idle], c)
  <2>1. Idle \in Calls /\ Idle.pc = "idle" /\ Idle.asked = 0
    BY IdleOK DEF Idle
  <2> QED BY <1>3, <2>1, OvertakingKeeps
<1>4. CASE Return(c) /\ UNCHANGED grant
  BY <1>1, <1>4, ReturnTurn
<1> QED BY <1>2, <1>3, <1>4 DEF SetDowntimeAlert

LEMMA LastTurn ==
  ASSUME CallersInv, AlertsInv, Later, NEW c \in Senders, GetLastDowntimeAlert(c)
  PROVE  CallersInv'
<1>1. grant' = grant /\ sslGrant' = sslGrant
  BY DEF GetLastDowntimeAlert, history
<1>2. CASE Build(c, RecoveryAlert)
  <2>1. caller' = [caller EXCEPT ![c] = Built(caller[c], RecoveryAlert)]
    BY <1>2 DEF Build
  <2> QED BY <1>1, <2>1, BuildTurn, ContentsOK DEF CallersInv
<1> QED BY <1>1, <1>2, ReturnTurn, GotoTurn DEF GetLastDowntimeAlert

LEMMA CreateTurn ==
  ASSUME CallersInv, AlertsInv, Later, NEW c \in Senders, Create(c)
  PROVE  CallersInv'
<1>1. grant' = grant /\ sslGrant' = sslGrant
  BY DEF Create
<1>2. CASE Return(c)
  BY <1>1, <1>2, ReturnTurn
<1>3. CASE Stored(c) /\ caller' = [caller EXCEPT ![c] = AfterStore(c)]
  <2>1. PICK v \in Calls : v = caller[c]
    BY DEF CallersInv
  <2>2. PICK w : w = AfterStore(c)
    OBVIOUS
  <2>3. PICK p \in Places : p = IF v.draft.alert = RecoveryAlert /\ limited THEN "clear" ELSE "ssl"
    BY DEF Places
  <2>4. p \notin {"set", "sslset", "store", "readback"}
    BY <2>3
  <2>5. \/ w = [v EXCEPT !.pc = "readback"]
        \/ w = [v EXCEPT !.draft = Null, !.pc = p]
        \/ w = Idle
    BY <2>1, <2>2, <2>3 DEF AfterStore
  <2>6. w \in Calls /\ (w.asked = 0 \/ w.asked = v.asked) /\ w.pc \in {"readback", "idle", p}
    <3>1. CASE w = [v EXCEPT !.pc = "readback"]
      BY <3>1, MovedOK DEF Places
    <3>2. CASE w = [v EXCEPT !.draft = Null, !.pc = p]
      BY <3>2 DEF Calls
    <3>3. CASE w = Idle
      BY <3>3, IdleOK DEF Idle
    <3> QED BY <2>5, <3>1, <3>2, <3>3
  <2>7. alerts' # {}
    BY <1>3 DEF Stored
  <2>8. caller' = [caller EXCEPT ![c] = w]
    BY <1>3, <2>2
  <2> QED BY <1>1, <2>1, <2>4, <2>6, <2>7, <2>8, PlainTurn
<1> QED BY <1>2, <1>3 DEF Create

LEMMA ClearTurn ==
  ASSUME CallersInv, AlertsInv, LimitInv, Later, NEW c \in Senders, ClearDowntimeAlert(c)
  PROVE  CallersInv'
<1>1. grant'.at \in {Null, grant.at} /\ sslGrant' = sslGrant
  BY DEF ClearDowntimeAlert, LimitInv
<1> QED BY <1>1, GotoTurn DEF ClearDowntimeAlert

LEMMA CheckSSLTurn ==
  ASSUME CallersInv, AlertsInv, SSLInv, Later, NEW c \in Senders, CheckSSLAlert(c)
  PROVE  CallersInv'
<1>1. grant' = grant /\ sslGrant' = sslGrant /\ now' = now
  BY DEF CheckSSLAlert, history
<1>2. PICK e : e = caller[c].check.days
  OBVIOUS
<1>3. CASE Return(c)
  BY <1>1, <1>3, ReturnTurn
<1>4. CASE e \in Alertable /\ Build(c, SSLAlert(e))
  <2>1. caller' = [caller EXCEPT ![c] = Built(caller[c], SSLAlert(e))]
    BY <1>4 DEF Build
  <2> QED BY <1>1, <1>4, <2>1, BuildTurn, ContentsOK DEF CallersInv
<1>5. CASE e \in Alertable /\ sslLimit[e] = Null /\ Asking(c, "sslset")
  <2>1. PICK w : w = [caller[c] EXCEPT !.pc = "sslset", !.asked = now, !.raced = FALSE]
    OBVIOUS
  <2>2. caller[c] \in Calls /\ "sslset" \in Places /\ now \in Time
    BY DEF CallersInv, Places, AlertsInv
  <2>3. w \in Calls /\ w.pc = "sslset" /\ w.asked = now /\ w.check.days = e
    BY <1>2, <2>1, <2>2, AskingOK
  <2>4. caller' = [caller EXCEPT ![c] = w]
    BY <1>5, <2>1 DEF Asking, CallersInv
  <2>5. SSLLimitOK(sslLimit[e], sslGrant[e])
    BY <1>5 DEF SSLInv
  <2>6. sslGrant[e] # Null => now - sslGrant[e] >= Day
    BY <1>5, <2>5 DEF SSLLimitOK
  <2>7. SSLSpaced(w)'
    BY <1>1, <2>3, <2>6 DEF SSLSpaced
  <2>8. CallOK(w)' /\ Spaced(w)'
    BY <1>1, <1>5, <2>2, <2>3, ConstantsOK DEF CallOK, Spaced
  <2> QED BY <1>1, <2>3, <2>4, <2>7, <2>8, QuietTurn
<1> QED BY <1>2, <1>3, <1>4, <1>5 DEF CheckSSLAlert

LEMMA SetSSLTurn ==
  ASSUME CallersInv, AlertsInv, Later, NEW c \in Senders, SetSSLAlert(c)
  PROVE  CallersInv'
<1>1. grant' = grant
  BY DEF SetSSLAlert
<1>2. PICK e \in Alertable : e = caller[c].check.days
  BY DEF SetSSLAlert, At, CallersInv, CallOK
<1>3. CASE SetSSLLimit(c, Day)
  <2>1. PICK w : w = Built(caller[c], SSLAlert(e))
    OBVIOUS
  <2>2. w \in Calls /\ w.pc = "store" /\ w.draft \in Drafts /\ w.asked = 0
    BY <2>1, BuiltOK, ContentsOK DEF CallersInv
  <2>3. caller' = Raced([caller EXCEPT ![c] = w], c)
    BY <1>2, <1>3, <2>1 DEF SetSSLLimit
  <2> QED BY <2>2, <2>3, OvertakingKeeps
<1>4. CASE Return(c) /\ UNCHANGED sslGrant
  BY <1>1, <1>4, ReturnTurn
<1> QED BY <1>3, <1>4 DEF SetSSLAlert

LEMMA NoTurn ==
  ASSUME CallersInv, AlertsInv, Later, caller' = caller, grant' = grant, sslGrant' = sslGrant
  PROVE  CallersInv'
<1>1. caller' \in [Senders -> Calls] /\ \A d \in Senders : Follows(d)
  BY DEF CallersInv, Follows, Alike
<1>2. \A d \in Senders : CallOK(caller[d])' /\ Spaced(caller[d])' /\ SSLSpaced(caller[d])'
  BY <1>1, FollowersOK
<1> QED BY <1>1, <1>2 DEF CallersInv

(* What is known of the calls is kept by every step of any of them.        *)
LEMMA CallersStep ==
  ASSUME CallersInv, AlertsInv, LimitInv, SSLInv, AlertsInv', [Next]_vars
  PROVE  CallersInv'
<1>1. Later
  BY TimeIsLater
<1>2. ASSUME NEW c \in Senders, EndDelivery(c) PROVE CallersInv'
  <2>1. grant' = grant /\ sslGrant' = sslGrant
    BY <1>2 DEF EndDelivery, history
  <2> QED BY <1>1, <1>2, <2>1, ReturnTurn DEF EndDelivery
<1>3. ASSUME \/ \E d \in Senders : CancelCall(d) \/ \E i \in Ids : Delivering(d, i)
             \/ Tick \/ UNCHANGED vars
      PROVE  CallersInv'
  <2>1. caller' = caller /\ grant' = grant /\ sslGrant' = sslGrant
    BY <1>3 DEF CancelCall, Delivering, Tick, vars, history
  <2> QED BY <1>1, <2>1, NoTurn
<1> QED BY <1>1, <1>2, <1>3, ProcessTurn, GenerateTurn, DeliverTurn, CheckTurn, SetTurn,
           LastTurn, CreateTurn, ClearTurn, CheckSSLTurn, SetSSLTurn DEF Next, Step
-----------------------------------------------------------------------------
LEMMA AlertInit == Init => AlertInv
<1> SUFFICES ASSUME Init PROVE AlertInv
  OBVIOUS
<1>1. AlertsInv
  BY AlertAssumption, ConstantsOK DEF Init, AlertsInv
<1>2. LimitInv
  BY ConstantsOK DEF Init, LimitInv
<1>3. SSLInv
  BY DEF Init, SSLInv, SSLLimitOK
<1>4. CallersInv
  <2>1. Idle \in Calls /\ Idle.pc = "idle" /\ Idle.asked = 0
    BY IdleOK DEF Idle
  <2>2. CallOK(Idle) /\ Spaced(Idle) /\ SSLSpaced(Idle)
    BY <2>1 DEF Init, CallOK, Spaced, SSLSpaced
  <2> QED BY <2>1, <2>2 DEF Init, CallersInv
<1>5. LimitIsBacked
  BY DEF Init, LimitIsBacked
<1> QED BY <1>1, <1>2, <1>3, <1>4, <1>5, DeliveryInit DEF AlertInv

(* The invariant, part by part.                                            *)
THEOREM AlertsAreInductive == Spec => []AlertInv
<1>1. AlertInv /\ [Next]_vars => AlertInv'
  <2> SUFFICES ASSUME AlertInv, [Next]_vars PROVE AlertInv'
    OBVIOUS
  <2>1. AlertsInv'
    BY AlertsStep DEF AlertInv
  <2> QED BY <2>1, DeliveryStep, LimitStep, SSLStep, CallersStep, BackedStep DEF AlertInv
<1> QED BY <1>1, AlertInit, PTL DEF Spec

(* A limit that is in force stands for an alert that is stored or about to *)
(* be, unless a command failed just then.                                  *)
THEOREM LimitsStandForAlerts == Spec => []LimitsAreSound
<1>1. AlertInv => LimitsAreSound
  <2> SUFFICES ASSUME AlertInv PROVE LimitsAreSound
    OBVIOUS
  <2>1. DeliveryTypeOK
    <3>1. \A s \in Senders, i \in Ids :
            /\ attempt[s][i] \in 0..Attempts
            /\ copies[s][i] \in 0..Attempts /\ lost[s][i] \in 0..Attempts
      BY DeliveryAssumption DEF AlertInv, DeliveryInv, Tables, ChannelOK
    <3> QED BY <3>1 DEF AlertInv, DeliveryInv, Tables, DeliveryTypeOK, Stages
  <2>2. TypeOK
    BY <2>1 DEF AlertInv, AlertsInv, LimitInv, SSLInv, CallersInv, Calls, Places, TypeOK
  <2> QED BY <2>2 DEF AlertInv, LimitsAreSound
<1> QED BY <1>1, AlertsAreInductive, PTL

(* Only its own step takes a call on from reading the last alert.          *)
LEMMA LastIsRead ==
  ASSUME CallersInv, AlertsInv, [Next]_vars, NEW c \in Senders,
         At(c, "last"), caller'[c].pc = "store"
  PROVE  GetLastDowntimeAlert(c)
<1>1. ~(UNCHANGED caller)
  BY DEF At
<1>2. PICK d \in Senders :
        ProcessHealthCheckAlerts(d) \/ Generate(d) \/ DeliverResiliently(d) \/ Step(d)
  BY <1>1 DEF Next, CancelCall, Delivering, Tick, vars
<1>3. CASE d # c
  <2>1. Alike(caller'[c], caller[c])
    BY <1>2, <1>3, OthersRemain
  <2> QED BY <2>1 DEF Alike, At
<1>4. CASE d = c
  BY <1>2, <1>4 DEF Step, ProcessHealthCheckAlerts, Generate, DeliverResiliently,
     CheckDowntimeAlert, SetDowntimeAlert, Create, ClearDowntimeAlert, CheckSSLAlert,
     SetSSLAlert, ReadBack, EndDelivery, At
<1> QED BY <1>3, <1>4

(* A recovery is announced only while an outage is open: for any number of *)
(* checks that overlap.                                                    *)
THEOREM RecoveriesEndOutages == Spec => RecoveryOfAnOutage
<1>1. ASSUME AlertInv, [Next]_vars
      PROVE  [\A c \in Senders : limited /\ At(c, "last") /\ caller'[c].pc = "store"
                => grant.at # Null]_vars
  <2> SUFFICES ASSUME NEW c \in Senders, limited, At(c, "last"), caller'[c].pc = "store"
               PROVE  grant.at # Null
    OBVIOUS
  <2>1. GetLastDowntimeAlert(c)
    BY <1>1, LastIsRead DEF AlertInv
  <2>2. ~Goto(c, "ssl") /\ ~Return(c)
    <3>1. caller \in [Senders -> Calls] /\ caller[c] \in Calls
      BY <1>1 DEF AlertInv, CallersInv
    <3>2. Goto(c, "ssl") => caller'[c].pc = "ssl"
      BY <3>1 DEF Goto, Calls
    <3>3. Return(c) => caller'[c].pc = "idle"
      BY <3>1, IdleOK DEF Return
    <3> QED BY <3>2, <3>3
  <2>3. Last # Null
    BY <2>1, <2>2 DEF GetLastDowntimeAlert
  <2>4. limit # Null
    BY <2>3 DEF Last
  <2> QED BY <1>1, <2>4 DEF AlertInv, LimitInv
<1> QED BY <1>1, AlertsAreInductive, PTL DEF Spec, RecoveryOfAnOutage

(* Two downtime alerts are a window apart, less a fraction of a second,    *)
(* unless a recovery came between or their checks overlapped.              *)
THEOREM DowntimesAreSpaced == Spec => Suppression
<1>1. ASSUME AlertInv, [Next]_vars
      PROVE  [\A c \in Senders :
                At(c, "set") /\ caller'[c].pc = "store" /\ ~caller[c].raced /\ grant.at # Null
                  => caller[c].asked - grant.at > Window - Second]_vars
  BY <1>1 DEF AlertInv, CallersInv, Spaced, At
<1> QED BY <1>1, AlertsAreInductive, PTL DEF Spec, Suppression

(* Two alerts of one level of a certificate are a day apart, unless their  *)
(* checks overlapped.                                                      *)
THEOREM CertificateAlertsAreSpaced == Spec => OneSSLAlertPerDay
<1>1. ASSUME AlertInv, [Next]_vars
      PROVE  [\A c \in Senders :
                /\ At(c, "sslset") /\ caller'[c].pc = "store" /\ ~caller[c].raced
                /\ sslGrant[caller[c].check.days] # Null
                => caller[c].asked - sslGrant[caller[c].check.days] >= Day]_vars
  BY <1>1 DEF AlertInv, CallersInv, SSLSpaced, At
<1> QED BY <1>1, AlertsAreInductive, PTL DEF Spec, OneSSLAlertPerDay

(* Alerts of either kind keep their distance.                              *)
THEOREM AlertsKeepTheirDistance == Spec => AlertsAreSpaced
BY DowntimesAreSpaced, CertificateAlertsAreSpaced DEF AlertsAreSpaced

-----------------------------------------------------------------------------
(* The WebSocket hub, to which the alert service hands its alerts: a       *)
(* specification of its own, without variables in common with the above.   *)

(* What Go's channel operations do to a sequence.                          *)
LEMMA SeqOps ==
  ASSUME NEW s \in Seq(Nat), NEW n \in Nat
  PROVE  /\ Append(s, n) \in Seq(Nat) /\ Len(Append(s, n)) = Len(s) + 1
         /\ \A i \in DOMAIN Append(s, n) :
              Append(s, n)[i] = IF i \in DOMAIN s THEN s[i] ELSE n
         /\ Len(s) \in Nat /\ DOMAIN s = 1..Len(s)
         /\ DOMAIN Append(s, n) = 1..(Len(s) + 1)
OBVIOUS

LEMMA SeqTail ==
  ASSUME NEW s \in Seq(Nat), s # <<>>
  PROVE  /\ Tail(s) \in Seq(Nat) /\ Len(Tail(s)) = Len(s) - 1
         /\ Head(s) = s[1] /\ Head(s) \in Nat /\ Len(s) > 0
         /\ DOMAIN Tail(s) = 1..(Len(s) - 1)
         /\ \A i \in DOMAIN Tail(s) : Tail(s)[i] = s[i + 1]
OBVIOUS

(* Every variable of the hub and of the pumps keeps its type, and no       *)
(* channel ever holds more than its capacity (NewHub, HandleWebSocket).    *)
THEOREM HubTypes == HubSpec => []HubTypeOK
<1>1. InitHub => HubTypeOK
  <2> SUFFICES ASSUME InitHub PROVE HubTypeOK
    OBVIOUS
  <2>1. <<>> \in Seq(Nat) /\ Len(<<>>) = 0
    OBVIOUS
  <2>2. /\ broadcast \in Seq(Nat) /\ Len(broadcast) <= HubBuffer
        /\ send \in [Conns -> Seq(Nat)] /\ \A c \in Conns : Len(send[c]) <= SendBuffer
    BY <2>1, HubAssumption DEF InitHub
  <2> QED BY <2>2 DEF InitHub, HubTypeOK
<1>2. HubTypeOK /\ [HubNext]_hubVars => HubTypeOK'
  <2> SUFFICES ASSUME HubTypeOK, [HubNext]_hubVars PROVE HubTypeOK'
    OBVIOUS
  <2> USE HubAssumption DEF HubTypeOK, loopVars, connVars, sendVars
  <2>1. CASE Broadcast
    <3>1. Len(broadcast) \in Nat /\ accepted + 1 \in Nat
      BY DEF accepted
    <3>2. broadcast' \in Seq(Nat) /\ Len(broadcast') = Len(broadcast) + 1
      BY <2>1, <3>1, SeqOps DEF Broadcast
    <3> QED BY <2>1, <3>1, <3>2 DEF Broadcast
  <2>2. CASE StartCount \/ EndCount \/ Stop
    BY <2>2 DEF StartCount, EndCount, Stop
  <2>3. CASE Shutdown
    BY <2>3 DEF Shutdown
  <2>4. CASE Take
    <3>1. /\ broadcast' \in Seq(Nat) /\ Len(broadcast') = Len(broadcast) - 1
          /\ dispatched' \in Nat /\ Len(broadcast) \in Nat
      BY <2>4, SeqTail DEF Take
    <3> QED BY <2>4, <3>1 DEF Take
  <2>5. CASE Sent
    BY <2>5 DEF Sent
  <2>6. ASSUME NEW c \in Conns, Register(c) PROVE HubTypeOK'
    BY <2>6 DEF Register
  <2>7. ASSUME NEW c \in Conns, Unregister(c) PROVE HubTypeOK'
    BY <2>7 DEF Unregister, CloseSend
  <2>8. ASSUME NEW c \in Conns, SendTo(c) PROVE HubTypeOK'
    <3>1. CASE Len(send[c]) < SendBuffer
      <4>1. /\ Append(send[c], dispatched) \in Seq(Nat)
            /\ Len(Append(send[c], dispatched)) <= SendBuffer
        BY <3>1, SeqOps
      <4>2. send' = [send EXCEPT ![c] = Append(send[c], dispatched)]
        BY <2>8, <3>1 DEF SendTo
      <4>3. /\ send' \in [Conns -> Seq(Nat)]
            /\ \A d \in Conns : Len(send'[d]) <= SendBuffer
        BY <4>1, <4>2
      <4> QED BY <2>8, <3>1, <4>3 DEF SendTo
    <3>2. CASE ~(Len(send[c]) < SendBuffer)
      BY <2>8, <3>2 DEF SendTo, CloseSend
    <3> QED BY <3>1, <3>2
  <2>9. ASSUME NEW c \in Conns, Connect(c) \/ PeerGone(c) \/ ReadFails(c)
        PROVE  HubTypeOK'
    BY <2>9 DEF Connect, PeerGone, ReadFails
  <2>10. ASSUME NEW c \in Conns, WriteMessage(c) \/ WriteQueued(c) PROVE HubTypeOK'
    <3>1. /\ Tail(send[c]) \in Seq(Nat) /\ Len(Tail(send[c])) <= SendBuffer
          /\ Head(send[c]) \in Nat /\ Len(send[c]) - 1 \in Nat
      BY <2>10, SeqTail DEF WriteMessage, WriteQueued
    <3>2. /\ send' = [send EXCEPT ![c] = Tail(send[c])]
          /\ last' = [last EXCEPT ![c] = Head(send[c])]
      BY <2>10 DEF WriteMessage, WriteQueued
    <3>3. /\ send' \in [Conns -> Seq(Nat)] /\ last' \in [Conns -> Nat]
          /\ \A d \in Conns : Len(send'[d]) <= SendBuffer
      <4>1. ASSUME NEW d \in Conns
            PROVE  send'[d] \in Seq(Nat) /\ Len(send'[d]) <= SendBuffer
        BY <3>1, <3>2
      <4>2. DOMAIN send' = Conns /\ send' = [d \in Conns |-> send'[d]]
        BY <3>2
      <4> QED BY <3>1, <3>2, <4>1, <4>2
    <3>4. batch' \in [Conns -> Nat]
      <4>1. CASE WriteMessage(c)
        BY <3>1, <4>1 DEF WriteMessage
      <4>2. CASE WriteQueued(c)
        BY <4>2 DEF WriteQueued
      <4> QED BY <2>10, <4>1, <4>2
    <3>5. /\ writer' \in [Conns -> {"off", "select", "writing", "dead"}]
          /\ UNCHANGED <<loopVars, handler, reader, open, sendClosed, counting, panicked>>
      BY <2>10 DEF WriteMessage, WriteQueued
    <3> QED BY <3>3, <3>4, <3>5
  <2>11. ASSUME NEW c \in Conns, FinishWrite(c) \/ WriteFails(c) \/ WriteClose(c)
         PROVE  HubTypeOK'
    <3>1. CASE FinishWrite(c)
      BY <3>1 DEF FinishWrite
    <3>2. CASE WriteFails(c)
      BY <3>2 DEF WriteFails, WriterEnds
    <3>3. CASE WriteClose(c)
      BY <3>3 DEF WriteClose, WriterEnds
    <3> QED BY <2>11, <3>1, <3>2, <3>3
  <2>12. CASE UNCHANGED hubVars
    BY <2>12 DEF hubVars
  <2> QED BY <2>1, <2>2, <2>3, <2>4, <2>5, <2>6, <2>7, <2>8, <2>9, <2>10,
             <2>11, <2>12 DEF HubNext, Run, WritePump
<1> QED BY <1>1, <1>2, PTL DEF HubSpec

-----------------------------------------------------------------------------
(* Who owns a Send channel: a registered connection has pumps and an open  *)
(* channel; a channel is closed by the step that takes its connection out  *)
(* of the map, and by no other; only registered connections are pending.   *)
Ownership ==
  /\ pending \subseteq connections
  /\ hub # "sending" => pending = {}
  /\ \A c \in Conns :
       /\ c \in connections => handler[c] = "returned" /\ ~sendClosed[c]
       /\ handler[c] = "returned" /\ c \notin connections => sendClosed[c]
       /\ sendClosed[c] => handler[c] = "returned"
  /\ ~panicked

(* Only the hub closes a Send channel, and it forgets it in the same step. *)
LEMMA OwnershipStep ==
  ASSUME HubTypeOK, Ownership, [HubNext]_hubVars
  PROVE  Ownership'
<1> USE DEF HubTypeOK, Ownership, loopVars, connVars, sendVars
<1>1. CASE \/ Broadcast \/ StartCount \/ EndCount \/ Stop
           \/ Shutdown \/ Sent
  BY <1>1 DEF Broadcast, StartCount, EndCount, Stop, Shutdown, Sent
<1>2. CASE Take
  BY <1>2 DEF Take
<1>3. ASSUME NEW c \in Conns, Register(c) PROVE Ownership'
  BY <1>3 DEF Register
<1>4. ASSUME NEW c \in Conns, Unregister(c) PROVE Ownership'
  BY <1>4 DEF Unregister, CloseSend
<1>5. ASSUME NEW c \in Conns, SendTo(c) PROVE Ownership'
  BY <1>5 DEF SendTo, CloseSend
<1>6. ASSUME NEW c \in Conns, Connect(c) \/ PeerGone(c) \/ ReadFails(c)
      PROVE  Ownership'
  BY <1>6 DEF Connect, PeerGone, ReadFails
<1>7. ASSUME NEW c \in Conns, WritePump(c) PROVE Ownership'
  BY <1>7 DEF WritePump, WriteMessage, WriteQueued, FinishWrite, WriteFails,
              WriteClose, WriterEnds
<1>8. CASE UNCHANGED hubVars
  BY <1>8 DEF hubVars
<1> QED BY <1>1, <1>2, <1>3, <1>4, <1>5, <1>6, <1>7, <1>8 DEF HubNext, Run

(* The inductive invariant of the hub: who may still close or send to the  *)
(* Send channel of a connection.                                           *)
THEOREM ChannelsAreOwned == HubSpec => []Ownership
<1>1. InitHub => Ownership
  BY DEF InitHub, Ownership
<1>2. HubTypeOK /\ Ownership /\ [HubNext]_hubVars => Ownership'
  BY OwnershipStep
<1> QED BY <1>1, <1>2, HubTypes, PTL DEF HubSpec

(* However slow and failing clients are dealt with, no closed Send channel *)
(* is closed again or sent to (Hub.Run).                                   *)
THEOREM HubNeverPanics == HubSpec => []NoPanic
<1>1. Ownership => NoPanic
  BY DEF Ownership, NoPanic
<1> QED BY <1>1, ChannelsAreOwned, PTL

(* A connection whose pumps run is registered or its channel is closed.    *)
THEOREM NoConnectionIsForgotten == HubSpec => []NoneForgotten
<1>1. Ownership => NoneForgotten
  BY DEF Ownership, NoneForgotten
<1> QED BY <1>1, ChannelsAreOwned, PTL

-----------------------------------------------------------------------------
(* The messages counted behind the one being written are in the channel:   *)
(* only the writePump takes from it, and closing it leaves them there.     *)
THEOREM CountedMessagesAreQueued == HubSpec => []BatchIsQueued
<1>1. InitHub => BatchIsQueued
  BY DEF InitHub, BatchIsQueued
<1>2. HubTypeOK /\ BatchIsQueued /\ [HubNext]_hubVars => BatchIsQueued'
  <2> SUFFICES ASSUME HubTypeOK, BatchIsQueued, [HubNext]_hubVars,
                      NEW d \in Conns, writer'[d] = "writing"
               PROVE  batch'[d] <= Len(send'[d])
    BY DEF BatchIsQueued
  <2> USE DEF HubTypeOK, BatchIsQueued, loopVars, connVars, sendVars
  <2>0. Len(send[d]) \in Nat /\ batch[d] \in Nat
    BY SeqOps
  <2>1. ASSUME writer' = writer, batch' = batch, send' = send
        PROVE  batch'[d] <= Len(send'[d])
    BY <2>1
  <2>2. CASE \/ Broadcast \/ StartCount \/ EndCount \/ Stop
             \/ Shutdown \/ Take \/ Sent \/ UNCHANGED hubVars
    BY <2>1, <2>2 DEF Broadcast, StartCount, EndCount, Stop,
                      Shutdown, Take, Sent, hubVars
  <2>3. ASSUME NEW c \in Conns, Register(c) PROVE batch'[d] <= Len(send'[d])
    BY <2>3 DEF Register
  <2>4. ASSUME NEW c \in Conns,
               Unregister(c) \/ Connect(c) \/ PeerGone(c) \/ ReadFails(c)
        PROVE  batch'[d] <= Len(send'[d])
    BY <2>1, <2>4 DEF Unregister, Connect, PeerGone, ReadFails
  <2>5. ASSUME NEW c \in Conns, SendTo(c) PROVE batch'[d] <= Len(send'[d])
    <3>1. Len(send'[d]) >= Len(send[d])
      <4>1. CASE send' = send
        BY <2>0, <4>1
      <4>2. CASE send' = [send EXCEPT ![c] = Append(send[c], dispatched)]
        BY <2>0, <4>2, SeqOps
      <4> QED BY <2>5, <4>1, <4>2 DEF SendTo
    <3>2. batch' = batch /\ writer' = writer
      BY <2>5 DEF SendTo
    <3>3. Len(send'[d]) \in Nat
      <4>1. send' = send \/ send' = [send EXCEPT ![c] = Append(send[c], dispatched)]
        BY <2>5 DEF SendTo
      <4>2. Append(send[c], dispatched) \in Seq(Nat)
        BY SeqOps
      <4>3. send'[d] \in Seq(Nat)
        BY <4>1, <4>2
      <4> QED BY <4>3, SeqOps
    <3>4. batch[d] <= Len(send[d])
      BY <3>2
    <3> QED BY <2>0, <3>1, <3>2, <3>3, <3>4
  <2>6. ASSUME NEW c \in Conns, WriteMessage(c) \/ WriteQueued(c)
        PROVE  batch'[d] <= Len(send'[d])
    <3>1. /\ send' = [send EXCEPT ![c] = Tail(send[c])]
          /\ Len(Tail(send[c])) = Len(send[c]) - 1
      BY <2>6, SeqTail DEF WriteMessage, WriteQueued
    <3>2. CASE d = c /\ WriteMessage(c)
      BY <2>0, <3>1, <3>2 DEF WriteMessage
    <3>3. CASE d = c /\ WriteQueued(c)
      BY <2>0, <3>1, <3>3 DEF WriteQueued
    <3>4. CASE d # c
      BY <2>6, <3>1, <3>4 DEF WriteMessage, WriteQueued
    <3> QED BY <2>6, <3>2, <3>3, <3>4
  <2>7. ASSUME NEW c \in Conns, FinishWrite(c) \/ WriteFails(c) \/ WriteClose(c)
        PROVE  batch'[d] <= Len(send'[d])
    BY <2>0, <2>7 DEF FinishWrite, WriteFails, WriteClose, WriterEnds
  <2> QED BY <2>2, <2>3, <2>4, <2>5, <2>6, <2>7 DEF HubNext, Run, WritePump
<1> QED BY <1>1, <1>2, HubTypes, PTL DEF HubSpec

-----------------------------------------------------------------------------
(* NoGaps needs, of the connections that are not yet registered, that      *)
(* nothing was queued for them.                                            *)
Numbering ==
  /\ NoGaps
  /\ \A c \in Conns : handler[c] # "returned" => send[c] = <<>>

(* One connection's share of Numbering.                                    *)
InStep(c) ==
  /\ \A i \in DOMAIN send[c] : send[c][i] = last[c] + i
  /\ c \in connections =>
       last[c] + Len(send[c]) = IF c \in pending THEN dispatched - 1 ELSE dispatched
  /\ handler[c] # "returned" => send[c] = <<>>

InOrder == \A i \in DOMAIN broadcast : broadcast[i] = dispatched + i

LEMMA NumberingParts == Numbering <=> InOrder /\ \A c \in Conns : InStep(c)
  BY DEF Numbering, NoGaps, InStep, InOrder

(* The broadcast channel keeps the order of the messages.                  *)
LEMMA InOrderStep ==
  ASSUME HubTypeOK, InOrder, [HubNext]_hubVars
  PROVE  InOrder'
<1> USE DEF HubTypeOK, InOrder, loopVars, connVars, sendVars
<1>1. ASSUME broadcast' = broadcast, dispatched' = dispatched PROVE InOrder'
  BY <1>1
<1>2. CASE Broadcast
  <2>1. accepted + 1 \in Nat /\ accepted = dispatched + Len(broadcast)
    BY SeqOps DEF accepted
  <2>2. broadcast' = Append(broadcast, accepted + 1) /\ dispatched' = dispatched
    BY <1>2 DEF Broadcast
  <2>3. ASSUME NEW i \in DOMAIN broadcast' PROVE broadcast'[i] = dispatched' + i
    <3>1. /\ i \in 1..(Len(broadcast) + 1) /\ Len(broadcast) \in Nat
          /\ DOMAIN broadcast = 1..Len(broadcast)
          /\ broadcast'[i] = IF i \in DOMAIN broadcast THEN broadcast[i] ELSE accepted + 1
      BY <2>1, <2>2, SeqOps
    <3>2. CASE i \in DOMAIN broadcast
      BY <2>2, <3>1, <3>2
    <3>3. CASE i = Len(broadcast) + 1
      BY <2>1, <2>2, <3>1, <3>3
    <3> QED BY <3>1, <3>2, <3>3
  <2> QED BY <2>3
<1>3. CASE Take
  <2>1. broadcast' = Tail(broadcast) /\ broadcast # <<>> /\ dispatched' = Head(broadcast)
    BY <1>3 DEF Take
  <2>2. dispatched' = dispatched + 1
    BY <2>1, SeqTail
  <2>3. Len(broadcast) \in Nat /\ DOMAIN broadcast = 1..Len(broadcast)
    BY SeqOps
  <2> QED BY <2>1, <2>2, <2>3, SeqTail
<1>4. CASE \/ StartCount \/ EndCount \/ Stop
           \/ Shutdown \/ Sent \/ UNCHANGED hubVars
  BY <1>1, <1>4 DEF StartCount, EndCount, Stop, Shutdown, Sent, hubVars
<1>5. ASSUME NEW c \in Conns, Register(c) \/ Unregister(c) \/ SendTo(c)
      PROVE  InOrder'
  BY <1>1, <1>5 DEF Register, Unregister, SendTo
<1>6. ASSUME NEW c \in Conns,
             Connect(c) \/ WritePump(c) \/ PeerGone(c) \/ ReadFails(c)
      PROVE  InOrder'
  BY <1>1, <1>6 DEF Connect, PeerGone, ReadFails, WritePump,
                    WriteMessage, WriteQueued, FinishWrite,
                    WriteFails, WriteClose, WriterEnds
<1> QED BY <1>2, <1>3, <1>4, <1>5, <1>6 DEF HubNext, Run

(* The arithmetic of one message more, and of one message taken.           *)
LEMMA OneMore ==
  ASSUME NEW a \in Nat, NEW n \in Nat, NEW k \in Nat, a + n = k - 1
  PROVE  a + (n + 1) = k
OBVIOUS

LEMMA OneTaken ==
  ASSUME NEW a \in Nat, NEW n \in Nat, NEW i \in Nat
  PROVE  /\ (a + 1) + (n - 1) = a + n
         /\ a + (i + 1) = (a + 1) + i
OBVIOUS

(* So does the Send channel of each connection.                            *)
LEMMA InStepStep ==
  ASSUME HubTypeOK, Ownership, Numbering, [HubNext]_hubVars,
         NEW d \in Conns
  PROVE  InStep(d)'
<1>0. InStep(d) /\ InOrder
  BY NumberingParts
<1> USE DEF HubTypeOK, loopVars, connVars, sendVars
<1>a. /\ send[d] \in Seq(Nat) /\ Len(send[d]) \in Nat
      /\ DOMAIN send[d] = 1..Len(send[d]) /\ last[d] \in Nat
  BY SeqOps
<1>1. ASSUME send'[d] = send[d], last'[d] = last[d], dispatched' = dispatched,
             handler'[d] = "returned" \/ handler'[d] = handler[d],
             d \in connections' => d \in connections,
             d \in connections' => (d \in pending' <=> d \in pending)
      PROVE  InStep(d)'
  BY <1>0, <1>1 DEF InStep
<1>2. CASE \/ Broadcast \/ StartCount \/ EndCount \/ Stop
           \/ Shutdown \/ Sent \/ UNCHANGED hubVars
  BY <1>1, <1>2 DEF Broadcast, StartCount, EndCount, Stop,
                    Shutdown, Sent, hubVars
<1>3. CASE Take
  <2>1. dispatched' = dispatched + 1
    BY <1>0, <1>3, SeqTail DEF Take, InOrder
  <2>2. /\ UNCHANGED <<send, last, handler, connections>>
        /\ pending' = connections /\ d \notin pending
    BY <1>3 DEF Take, Ownership
  <2> QED BY <1>0, <1>a, <2>1, <2>2 DEF InStep
<1>4. ASSUME NEW c \in Conns, Register(c) PROVE InStep(d)'
  <2>1. CASE c = d
    <3>1. /\ send[d] = <<>> /\ pending = {} /\ last'[d] = dispatched
          /\ UNCHANGED <<send, pending, dispatched>>
          /\ handler'[d] = "returned"
      BY <1>0, <1>4, <2>1 DEF Register, InStep, Ownership
    <3>2. DOMAIN send[d] = {} /\ Len(send[d]) = 0
      BY <3>1
    <3> QED BY <3>1, <3>2 DEF InStep
  <2>2. CASE c # d
    BY <1>1, <1>4, <2>2 DEF Register
  <2> QED BY <2>1, <2>2
<1>5. ASSUME NEW c \in Conns, Unregister(c) PROVE InStep(d)'
  BY <1>1, <1>5 DEF Unregister
<1>6. ASSUME NEW c \in Conns, SendTo(c) PROVE InStep(d)'
  <2>1. CASE c # d
    BY <1>1, <1>6, <2>1 DEF SendTo
  <2>2. CASE c = d /\ Len(send[c]) < SendBuffer
    <3>1. /\ send'[d] = Append(send[d], dispatched)
          /\ UNCHANGED <<last, dispatched, connections, handler>>
          /\ d \in pending /\ d \notin pending'
      BY <1>6, <2>2 DEF SendTo
    <3>2. d \in connections /\ handler[d] = "returned"
      BY <3>1 DEF Ownership
    <3>3. last[d] + Len(send[d]) = dispatched - 1
      BY <1>0, <3>1, <3>2 DEF InStep
    <3>4. last[d] + (Len(send[d]) + 1) = dispatched
      <4>1. last[d] \in Nat /\ Len(send[d]) \in Nat /\ dispatched \in Nat
        BY <1>a
      <4> HIDE DEF HubTypeOK
      <4> QED BY <4>1, <3>3, OneMore
    <3>5. /\ Len(send'[d]) = Len(send[d]) + 1
          /\ DOMAIN send'[d] = 1..(Len(send[d]) + 1)
          /\ \A i \in DOMAIN send'[d] :
               send'[d][i] = IF i \in DOMAIN send[d] THEN send[d][i] ELSE dispatched
      BY <3>1, SeqOps
    <3>6. ASSUME NEW i \in DOMAIN send'[d] PROVE send'[d][i] = last[d] + i
      <4>1. CASE i \in DOMAIN send[d]
        BY <1>0, <3>5, <4>1 DEF InStep
      <4>2. CASE i \notin DOMAIN send[d]
        <5>1. i = Len(send[d]) + 1
          BY <1>a, <3>5, <4>2
        <5>2. send'[d][i] = dispatched
          BY <3>5, <4>2
        <5> QED BY <5>1, <5>2, <3>4
      <4> QED BY <4>1, <4>2
    <3>7. last[d] + Len(send'[d]) = dispatched
      <4>1. Len(send'[d]) = Len(send[d]) + 1
        BY <3>5
      <4> QED BY <4>1, <3>4
    <3> QED BY <3>1, <3>2, <3>6, <3>7 DEF InStep
  <2>3. CASE c = d /\ ~(Len(send[c]) < SendBuffer)
    BY <1>1, <1>6, <2>3 DEF SendTo
  <2> QED BY <2>1, <2>2, <2>3
<1>7. ASSUME NEW c \in Conns, Connect(c) \/ PeerGone(c) \/ ReadFails(c)
      PROVE  InStep(d)'
  <2>1. /\ UNCHANGED <<send, last, dispatched, connections, pending>>
        /\ handler[d] = "returned" => handler'[d] = "returned"
    BY <1>7 DEF Connect, PeerGone, ReadFails
  <2> QED BY <1>0, <2>1 DEF InStep
<1>8. ASSUME NEW c \in Conns, WriteMessage(c) \/ WriteQueued(c)
      PROVE  InStep(d)'
  <2>1. /\ send' = [send EXCEPT ![c] = Tail(send[c])] /\ send[c] # <<>>
        /\ last' = [last EXCEPT ![c] = Head(send[c])]
        /\ UNCHANGED <<dispatched, connections, pending, handler>>
    BY <1>8 DEF WriteMessage, WriteQueued
  <2>2. CASE c # d
    BY <1>1, <2>1, <2>2
  <2>3. CASE c = d
    <3>1. /\ send'[d] = Tail(send[d]) /\ last'[d] = send[d][1]
          /\ Len(send[d]) > 0 /\ Len(send'[d]) = Len(send[d]) - 1
          /\ DOMAIN send'[d] = 1..(Len(send[d]) - 1)
          /\ \A i \in DOMAIN send'[d] : send'[d][i] = send[d][i + 1]
      BY <2>1, <2>3, SeqTail
    <3>2. last'[d] = last[d] + 1
      <4>1. 1 \in DOMAIN send[d]
        BY <1>a, <3>1
      <4> QED BY <1>0, <3>1, <4>1 DEF InStep
    <3>3. ASSUME NEW i \in DOMAIN send'[d] PROVE send'[d][i] = last'[d] + i
      <4>0. i \in 1..(Len(send[d]) - 1)
        BY <3>1
      <4>1. i + 1 \in 1..Len(send[d]) /\ i \in Nat
        BY <1>a, <4>0
      <4>2. send[d][i + 1] = last[d] + (i + 1)
        BY <1>0, <1>a, <4>1 DEF InStep
      <4>3. send'[d][i] = send[d][i + 1]
        BY <3>1
      <4>4. last[d] + (i + 1) = (last[d] + 1) + i
        BY <1>a, <4>1, OneTaken
      <4> QED BY <3>2, <4>2, <4>3, <4>4
    <3>4. last'[d] + Len(send'[d]) = last[d] + Len(send[d])
      <4>1. Len(send'[d]) = Len(send[d]) - 1
        BY <3>1
      <4>2. (last[d] + 1) + (Len(send[d]) - 1) = last[d] + Len(send[d])
        BY <1>a, OneTaken
      <4> QED BY <3>2, <4>1, <4>2
    <3>5. handler[d] = "returned"
      BY <1>0, <2>1, <2>3 DEF InStep
    <3> QED BY <1>0, <2>1, <3>3, <3>4, <3>5 DEF InStep
  <2> QED BY <2>2, <2>3
<1>9. ASSUME NEW c \in Conns, FinishWrite(c) \/ WriteFails(c) \/ WriteClose(c)
      PROVE  InStep(d)'
  BY <1>1, <1>9 DEF FinishWrite, WriteFails, WriteClose, WriterEnds
<1> QED BY <1>2, <1>3, <1>4, <1>5, <1>6, <1>7, <1>8, <1>9 DEF HubNext, Run, WritePump

(* The messages of a connection are numbered without gaps from the last    *)
(* one that was dispatched before it came.                                 *)
THEOREM MessagesAreNumbered == HubSpec => []Numbering
<1>1. InitHub => Numbering
  <2> SUFFICES ASSUME InitHub PROVE Numbering
    OBVIOUS
  <2>1. DOMAIN <<>> = {}
    OBVIOUS
  <2> QED BY <2>1 DEF InitHub, Numbering, NoGaps
<1>2. HubTypeOK /\ Ownership /\ Numbering /\ [HubNext]_hubVars => Numbering'
  <2> SUFFICES ASSUME HubTypeOK, Ownership, Numbering, [HubNext]_hubVars PROVE Numbering'
    OBVIOUS
  <2>1. InOrder'
    BY InOrderStep, NumberingParts
  <2>2. \A c \in Conns : InStep(c)'
    BY InStepStep
  <2>3. Numbering' <=> InOrder' /\ \A c \in Conns : InStep(c)'
    BY DEF Numbering, NoGaps, InStep, InOrder
  <2> QED BY <2>1, <2>2, <2>3
<1> QED BY <1>1, <1>2, HubTypes, ChannelsAreOwned, PTL DEF HubSpec

(* A registered client gets every message since it came, in order.         *)
THEOREM ClientsSeeNoGaps == HubSpec => []NoGaps
<1>1. Numbering => NoGaps
  BY DEF Numbering
<1> QED BY <1>1, MessagesAreNumbered, PTL
=============================================================================
