----------------------------- MODULE AlertService -----------------------------
(***************************************************************************)
(* The alert service and its Redis rate limiter, for one monitor: health   *)
(* checks that are processed concurrently, alerts that are generated, read *)
(* back and delivered. Every Redis command and every SQL statement is a    *)
(* step of its own, and may fail with or without effect. Keys expire.      *)
(***************************************************************************)
EXTENDS Delivery, FiniteSets

CONSTANTS
  Window,     \* ticks a downtime alert suppresses others (15 minutes)
  Hour,       \* ticks in which a success counts as a recovery (1 hour)
  Day,        \* ticks an SSL alert suppresses others of its level (24 hours)
  Second,     \* ticks of a second: stored times have whole seconds
  DaysUntil,  \* days until expiry that certificates may show
  Direct,     \* alerts that are generated without a health check's processing
  Null,       \* no certificate, no key, no time
  MaxTime,    \* bound: last clock tick
  MaxChecks,  \* bound: health checks that are processed
  MaxSends,   \* bound: other checks, sends, which generate or deliver an alert
  MaxErrors   \* bound: failed Redis or database operations

ASSUME AlertAssumption ==
  /\ Second \in Nat \ {0} /\ Window \in Nat /\ Day \in Nat
  /\ Hour \in Nat /\ Hour >= Window + Second - 1
  /\ DaysUntil \subseteq Int
  /\ Null \notin Int /\ Null \notin [value : Nat, expires : Nat]
  /\ MaxTime \in Nat /\ MaxChecks \in Nat /\ MaxSends \in Nat /\ MaxErrors \in Nat

VARIABLES
  now,         \* the clock
  limited,     \* whether the service was given a rate limiter
  limit,       \* key ratelimit:alert:<monitor>:downtime: its value, its expiry
  sslLimit,    \* keys ratelimit:alert:<monitor>:ssl:<days>: their expiry
  alerts,      \* rows of the table alerts
  issued,      \* alerts built so far; their order is that of their sent_at
  caller,      \* the state of a call (see Calls)
  checks, sends, errors,
  grant,       \* history: when the alert was asked for that the limit was last
               \* set for, unless a recovery has cleared it, and its number
  spoilt,      \* history: that alert was not sent, or could not be stored
  sslGrant     \* history: when an SSL alert of a level was last allowed

keys    == <<limit, sslLimit>>
history == <<grant, spoilt, sslGrant>>
vars == <<now, limited, keys, alerts, issued, caller, checks, sends, errors, history, deliveryVars>>

-----------------------------------------------------------------------------
(* The alerts of the four Generate operations.                             *)
DetermineSSLAlertType(days) == IF days <= 0 THEN "ssl_expired" ELSE "ssl_expiring"

DetermineSSLAlertSeverity(days) ==
  IF days <= 7 THEN "critical" ELSE IF days <= 30 THEN "warning" ELSE "info"

DowntimeAlert    == [type |-> "downtime", severity |-> "critical"]
RecoveryAlert    == [type |-> "recovery", severity |-> "info"]
PerformanceAlert == [type |-> "performance", severity |-> "warning"]
SSLAlert(days)   == [type |-> DetermineSSLAlertType(days),
                     severity |-> DetermineSSLAlertSeverity(days)]

shouldGenerateSSLAlert(days) == days <= 0 \/ days \in {7, 15, 30}

Alertable == { d \in DaysUntil : shouldGenerateSSLAlert(d) }

Contents == {DowntimeAlert, RecoveryAlert, PerformanceAlert}
              \union { SSLAlert(d) : d \in Alertable }

ASSUME DirectAssumption == Direct \subseteq Contents

(* sent_at of the newest downtime row (GetLastAlertTime), and the row that *)
(* GetByMonitorID returns for a limit of one.                              *)
Newest(S) == CHOOSE a \in S : \A b \in S : b.no <= a.no
Downtimes == { a \in alerts : a.alert.type = "downtime" }
GetLastAlertTime == IF Downtimes = {} THEN Null ELSE Newest(Downtimes).at

Fail == errors < MaxErrors /\ errors' = errors + 1

(* A call: where it is, what it was made for, the health check, the alert  *)
(* it has built, when it asked for a limit, and (history) whether another  *)
(* call has set a limit since.                                             *)
Idle == [pc |-> "idle", op |-> "process", check |-> [ok |-> TRUE, days |-> Null],
         draft |-> Null, asked |-> 0, raced |-> FALSE]

At(c, where) == caller[c].pc = where
Goto(c, where) == caller' = [caller EXCEPT ![c].pc = where]
Return(c) == caller' = [caller EXCEPT ![c] = Idle]

(* The limit is set: other calls that have read it before come too late.   *)
Raced(set, c) == [d \in Senders |-> [set[d] EXCEPT !.raced = @ \/ (d # c /\ set[d].pc # "idle")]]

(* The call w has built an alert, with its sent_at, and is to store it.    *)
Built(w, content) ==
  [w EXCEPT !.pc = "store", !.asked = 0, !.raced = FALSE,
            !.draft = [no |-> issued + 1, at |-> now, alert |-> content]]

Build(c, content) ==
  /\ caller' = [caller EXCEPT ![c] = Built(@, content)]
  /\ issued' = issued + 1

Asking(c, where) == 
  caller' = [caller EXCEPT ![c].pc = where, ![c].asked = now, ![c].raced = FALSE]

Init ==
  /\ now = 0
  /\ limited \in BOOLEAN
  /\ limit = Null
  /\ sslLimit = [d \in Alertable |-> Null]
  /\ alerts = {} /\ issued = 0
  /\ caller = [c \in Senders |-> Idle]
  /\ checks = 0 /\ sends = 0 /\ errors = 0
  /\ grant = [at |-> Null, no |-> 0]
  /\ spoilt = FALSE
  /\ sslGrant = [d \in Alertable |-> Null]
  /\ InitDelivery

-----------------------------------------------------------------------------
(* ProcessHealthCheckAlerts, once the monitor and its channels are loaded. *)
(* (Without monitor or channels nothing happens.)                          *)
ProcessHealthCheckAlerts(c) ==
  /\ At(c, "idle") /\ checks < MaxChecks
  /\ checks' = checks + 1
  /\ \E ok \in BOOLEAN, days \in DaysUntil \union {Null} :
       LET w == [Idle EXCEPT !.check = [ok |-> ok, days |-> days]] IN
       IF ~ok /\ ~limited
         THEN /\ caller' = [caller EXCEPT ![c] = Built(w, DowntimeAlert)]
              /\ issued' = issued + 1
         ELSE /\ caller' = [caller EXCEPT ![c] =
                              [w EXCEPT !.pc = IF ok THEN "last" ELSE "check"]]
              /\ UNCHANGED issued
  /\ UNCHANGED <<now, limited, keys, alerts, sends, errors, history, deliveryVars>>

(* CheckAndSetDowntimeAlert reads the key. The age of a key that is still  *)
(* there reaches the window only by the fraction its value has lost.       *)
CheckDowntimeAlert(c) ==
  /\ At(c, "check")
  /\ \/ Fail /\ Return(c)
     \/ /\ limit # Null /\ now - limit.value < Window
        /\ Return(c) /\ UNCHANGED errors
     \/ /\ limit = Null \/ (limit # Null /\ now - limit.value >= Window)
        /\ Asking(c, "set") /\ UNCHANGED errors
  /\ UNCHANGED <<now, limited, keys, alerts, issued, checks, sends, history, deliveryVars>>

(* It sets the key, to the time it had read from the clock.                *)
WriteLimit(c, ttl) ==
  limit' = [value |-> (caller[c].asked \div Second) * Second, expires |-> now + ttl]

Grant(c, failed) ==
  /\ grant' = [at |-> caller[c].asked, no |-> issued + 1]
  /\ spoilt' = failed

(* Mutants of SetDowntimeAlert: the unit of the expiry is mistaken; the    *)
(* limit is set, and the answer is to suppress.                            *)
SetDowntimeAlertBriefly(c) ==
  /\ At(c, "set")
  /\ WriteLimit(c, Window \div Second) /\ Grant(c, FALSE)
  /\ caller' = Raced([caller EXCEPT ![c] = Built(@, DowntimeAlert)], c)
  /\ issued' = issued + 1
  /\ UNCHANGED <<now, limited, sslLimit, alerts, checks, sends, errors, sslGrant, deliveryVars>>

SetDowntimeAlertOnly(c) ==
  /\ At(c, "set")
  /\ WriteLimit(c, Window) /\ Grant(c, FALSE)
  /\ Return(c)
  /\ UNCHANGED <<now, limited, sslLimit, alerts, issued, checks, sends, errors, sslGrant,
                 deliveryVars>>

SetDowntimeAlert(c) ==
  /\ At(c, "set")
  /\ \/ /\ WriteLimit(c, Window) /\ Grant(c, FALSE)
        /\ caller' = Raced([caller EXCEPT ![c] = Built(@, DowntimeAlert)], c)
        /\ issued' = issued + 1 /\ UNCHANGED errors
     \/ /\ Fail /\ WriteLimit(c, Window) /\ Grant(c, TRUE)
        /\ caller' = Raced([caller EXCEPT ![c] = Idle], c)
        /\ UNCHANGED issued
     \/ Fail /\ Return(c) /\ UNCHANGED <<limit, spoilt, grant, issued>>
  /\ UNCHANGED <<now, limited, sslLimit, alerts, checks, sends, sslGrant, deliveryVars>>

(* GetLastDowntimeAlert, or the newest row if there is no limiter: was     *)
(* there a downtime alert within the hour?                                 *)
Last == IF ~limited THEN GetLastAlertTime ELSE IF limit = Null THEN Null ELSE limit.value

GetLastDowntimeAlert(c) ==
  /\ At(c, "last")
  /\ \/ Fail /\ Return(c) /\ UNCHANGED issued
     \/ /\ Last # Null /\ (Last # Null => now - Last < Hour)
        /\ Build(c, RecoveryAlert) /\ UNCHANGED errors
     \/ /\ Last = Null \/ (Last # Null /\ now - Last >= Hour)
        /\ Goto(c, "ssl") /\ UNCHANGED <<errors, issued>>
  /\ UNCHANGED <<now, limited, keys, alerts, checks, sends, history, deliveryVars>>

-----------------------------------------------------------------------------
(* alertRepo.Create and BroadcastAlert, the end of every Generate.         *)
AfterStore(c) ==
  LET w == caller[c] IN
  IF w.op = "deliver" THEN [w EXCEPT !.pc = "readback"]
  ELSE IF w.op = "process" /\ w.draft.alert \in {RecoveryAlert, DowntimeAlert}
    THEN [w EXCEPT !.draft = Null,
                   !.pc = IF w.draft.alert = RecoveryAlert /\ limited THEN "clear" ELSE "ssl"]
  ELSE Idle

Stored(c) == alerts' = alerts \union {caller[c].draft}

Create(c) ==
  /\ At(c, "store")
  /\ \/ /\ Stored(c)
        /\ caller' = [caller EXCEPT ![c] = AfterStore(c)]
        /\ UNCHANGED <<errors, spoilt>>
     \/ /\ Fail /\ Return(c)
        /\ Stored(c) \/ UNCHANGED alerts
        /\ spoilt' = (spoilt \/ caller[c].draft.no = grant.no)
  /\ UNCHANGED <<now, limited, keys, issued, checks, sends, grant, sslGrant, deliveryVars>>

(* Mutant of ClearDowntimeAlert: the key stays.                            *)
ClearDowntimeAlertNot(c) ==
  /\ At(c, "clear")
  /\ Goto(c, "ssl")
  /\ grant' = [grant EXCEPT !.at = Null]
  /\ UNCHANGED <<now, limited, keys, alerts, issued, checks, sends, errors, spoilt, sslGrant, deliveryVars>>

(* A recovery lets the next outage be reported at once. An error is        *)
(* ignored.                                                                *)
ClearDowntimeAlert(c) ==
  /\ At(c, "clear")
  /\ Goto(c, "ssl")
  /\ \/ /\ limit' = Null /\ grant' = [grant EXCEPT !.at = Null]
        /\ Fail \/ UNCHANGED errors
     \/ Fail /\ UNCHANGED <<limit, grant>>
  /\ UNCHANGED <<now, limited, sslLimit, alerts, issued, checks, sends, spoilt, sslGrant, deliveryVars>>

-----------------------------------------------------------------------------
(* The certificate, if it was valid: CheckAndSetSSLAlert reads the key of  *)
(* its level, and sets it.                                                 *)
CheckSSLAlert(c) ==
  /\ At(c, "ssl")
  /\ LET days == caller[c].check.days IN
     \/ days \notin Alertable /\ Return(c) /\ UNCHANGED <<errors, issued>>
     \/ days \in Alertable /\ ~limited /\ Build(c, SSLAlert(days)) /\ UNCHANGED errors
     \/ days \in Alertable /\ limited /\ Fail /\ Return(c) /\ UNCHANGED issued
     \/ /\ days \in Alertable /\ limited /\ sslLimit[days] # Null
        /\ Return(c) /\ UNCHANGED <<errors, issued>>
     \/ /\ days \in Alertable /\ limited /\ sslLimit[days] = Null
        /\ Asking(c, "sslset") /\ UNCHANGED <<errors, issued>>
  /\ UNCHANGED <<now, limited, keys, alerts, checks, sends, history, deliveryVars>>

SetSSLLimit(c, ttl) ==
  LET days == caller[c].check.days IN
  /\ sslLimit' = [sslLimit EXCEPT ![days] = now + ttl]
  /\ sslGrant' = [sslGrant EXCEPT ![days] = now]
  /\ caller' = Raced([caller EXCEPT ![c] = Built(@, SSLAlert(days))], c)
  /\ issued' = issued + 1
  /\ UNCHANGED errors

(* Mutant of SetSSLAlert: the unit of the expiry is mistaken.              *)
SetSSLAlertBriefly(c) ==
  /\ At(c, "sslset")
  /\ SetSSLLimit(c, Day \div Second)
  /\ UNCHANGED <<now, limited, limit, alerts, checks, sends, grant, spoilt, deliveryVars>>

SetSSLAlert(c) ==
  /\ At(c, "sslset")
  /\ \/ SetSSLLimit(c, Day)
     \/ /\ Fail /\ Return(c)
        /\ \/ sslLimit' = [sslLimit EXCEPT ![caller[c].check.days] = now + Day]
           \/ UNCHANGED sslLimit
        /\ UNCHANGED <<sslGrant, issued>>
  /\ UNCHANGED <<now, limited, limit, alerts, checks, sends, grant, spoilt, deliveryVars>>

-----------------------------------------------------------------------------
(* The other entry points: an alert is generated, and for GenerateAnd-     *)
(* Deliver the newest row of the monitor is read back and delivered.       *)
Generate(c) ==
  /\ At(c, "idle") /\ sends < MaxSends
  /\ sends' = sends + 1
  /\ \E o \in {"generate", "deliver"}, content \in Direct :
       caller' = [caller EXCEPT ![c] = Built([Idle EXCEPT !.op = o], content)]
  /\ issued' = issued + 1
  /\ UNCHANGED <<now, limited, keys, alerts, checks, errors, history, deliveryVars>>

ReadBack(c) ==
  /\ At(c, "readback")
  /\ \/ Fail /\ Return(c) /\ UNCHANGED deliveryVars
     \/ /\ caller' = [caller EXCEPT ![c].pc = "deliver", ![c].draft = Newest(alerts)]
        /\ DeliverAlert(c, "fanout")
        /\ UNCHANGED errors
  /\ UNCHANGED <<now, limited, keys, alerts, issued, checks, sends, history>>

(* ResilientDeliveryService is called with an alert of the history.        *)
DeliverResiliently(c) ==
  /\ At(c, "idle") /\ sends < MaxSends
  /\ sends' = sends + 1
  /\ \E a \in alerts :
       caller' = [caller EXCEPT ![c] =
                   [Idle EXCEPT !.pc = "deliver", !.op = "deliver", !.draft = a]]
  /\ DeliverAlert(c, "resilient")
  /\ UNCHANGED <<now, limited, keys, alerts, issued, checks, errors, history>>

(* All results are there; the call fails if no channel was reached.        *)
EndDelivery(c) ==
  /\ At(c, "deliver") /\ Delivered(c)
  /\ Forget(c)
  /\ Return(c)
  /\ UNCHANGED <<now, limited, keys, alerts, issued, checks, sends, errors, history>>

Delivering(c, i) ==
  /\ Send(c, i)
  /\ UNCHANGED <<now, limited, keys, alerts, issued, caller, checks, sends, errors, history>>

CancelCall(c) ==
  /\ Cancel(c)
  /\ UNCHANGED <<now, limited, keys, alerts, issued, caller, checks, sends, errors, history>>

(* Time passes, keys expire.                                               *)
Expired(t) == t # Null /\ (t # Null => t <= now')

Tick ==
  /\ now < MaxTime
  /\ now' = now + 1
  /\ limit' = IF limit # Null /\ (limit # Null => Expired(limit.expires)) THEN Null ELSE limit
  /\ sslLimit' = [d \in Alertable |-> IF Expired(sslLimit[d]) THEN Null ELSE sslLimit[d]]
  /\ UNCHANGED <<limited, alerts, issued, caller, checks, sends, errors, history, deliveryVars>>

Step(c) ==
  \/ CheckDowntimeAlert(c) \/ SetDowntimeAlert(c) \/ GetLastDowntimeAlert(c)
  \/ Create(c) \/ ClearDowntimeAlert(c) \/ CheckSSLAlert(c) \/ SetSSLAlert(c)
  \/ ReadBack(c) \/ EndDelivery(c)

Next ==
  \/ \E c \in Senders :
       \/ ProcessHealthCheckAlerts(c) \/ Generate(c) \/ DeliverResiliently(c)
       \/ Step(c) \/ CancelCall(c)
       \/ \E i \in Ids : Delivering(c, i)
  \/ Tick

Spec == Init /\ [][Next]_vars

(* Commands and statements end, the HTTP clients of webhook and Telegram   *)
(* have timeouts, and a back-off has a timer. A mail need never end.       *)
Delivers(c, i) == Delivering(c, i) /\ ~InMail(c, i)

Fairness == \A c \in Senders :
  WF_vars(Step(c)) /\ \A i \in Ids : WF_vars(Delivers(c, i))

FairSpec == Spec /\ Fairness

-----------------------------------------------------------------------------
Time == 0..MaxTime
Drafts == [no : Nat, at : Time, alert : Contents]

TypeOK ==
  /\ now \in Time /\ limited \in BOOLEAN
  /\ limit = Null \/ limit \in [value : Time, expires : Nat]
  /\ sslLimit \in [Alertable -> Nat \union {Null}]
  /\ alerts \subseteq Drafts
  /\ issued \in Nat
  /\ caller \in [Senders ->
       [pc : {"idle", "check", "set", "last", "store", "clear", "ssl", "sslset",
              "readback", "deliver"},
        op : {"process", "generate", "deliver"},
        check : [ok : BOOLEAN, days : DaysUntil \union {Null}],
        draft : Drafts \union {Null}, asked : Time, raced : BOOLEAN]]
  /\ checks \in 0..MaxChecks /\ sends \in 0..MaxSends /\ errors \in 0..MaxErrors
  /\ grant \in [at : Time \union {Null}, no : Nat]
  /\ spoilt \in BOOLEAN
  /\ sslGrant \in [Alertable -> Time \union {Null}]
  /\ DeliveryTypeOK

(* Requirement 5.2 as the code keeps it: unless a recovery came between,   *)
(* two downtime alerts are a window apart, less the fraction of a second   *)
(* that the stored time has lost. Only checks that overlap can break this: *)
(* one that asked before the other had set the limit.                      *)
Suppression ==
  [][\A c \in Senders :
       At(c, "set") /\ caller'[c].pc = "store" /\ ~caller[c].raced /\ grant.at # Null
         => caller[c].asked - grant.at > Window - Second]_vars

(* A suppressed alert has a reason: while the limit is in force, the alert *)
(* it was set for is stored or about to be, unless a command failed just   *)
(* then (the limit is set first, and nothing takes it back).               *)
LimitIsBacked ==
  limit # Null =>
    \/ spoilt
    \/ \E a \in alerts : a.no = grant.no
    \/ \E c \in Senders : At(c, "store") /\ caller[c].draft.no = grant.no

(* An outage is over once: the limit is read as a recovery only while the  *)
(* outage it was set for is open, that is, while no recovery has cleared   *)
(* it. (Checks that read it before it is cleared announce the recovery     *)
(* again, and so does the next check if clearing failed.)                  *)
RecoveryOfAnOutage ==
  [][\A c \in Senders : limited /\ At(c, "last") /\ caller'[c].pc = "store"
       => grant.at # Null]_vars

(* Requirement 5.5: an SSL alert of a level follows another only a day     *)
(* later, unless their checks overlap.                                     *)
OneSSLAlertPerDay ==
  [][\A c \in Senders :
       /\ At(c, "sslset") /\ caller'[c].pc = "store" /\ ~caller[c].raced
       /\ sslGrant[caller[c].check.days] # Null
       => caller[c].asked - sslGrant[caller[c].check.days] >= Day]_vars

(* Every call of the service ends, however its commands fail, unless a     *)
(* mail server stays silent, for which no deadline is set and a cancelled  *)
(* context is no help. That mail holds up the caller; it holds up another  *)
(* channel only where channels wait for those before them.                 *)
Hangs(c, i) == <>[]InMail(c, i)

CallsReturn ==
  \A c \in Senders :
    /\ []<>At(c, "idle") \/ \E i \in Mails : Hangs(c, i)
    /\ \A j \in Ids :
         \/ []<>(Over(c, j) \/ stage[c][j] = "off")
         \/ \E i \in Mails :
              i <= j /\ <>[](InMail(c, i) /\ (i = j \/ service[c] = "resilient"))

(* Alerts of one kind keep their distance: a window, or a day.             *)
AlertsAreSpaced == Suppression /\ OneSSLAlertPerDay

(* The limit stands for an alert that was made.                            *)
LimitsAreSound == TypeOK /\ LimitIsBacked
=============================================================================
