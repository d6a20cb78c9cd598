------------------------------- MODULE Delivery -------------------------------
(***************************************************************************)
(* Delivery of an alert to the channels of a monitor: the concurrent       *)
(* fan-out of DeliveryService, the sequential one of                       *)
(* ResilientDeliveryService behind circuit breakers, and the retries of    *)
(* the channel adapters. A sender is a goroutine that calls DeliverAlert;  *)
(* the module has no Next of its own, AlertService composes it.            *)
(***************************************************************************)
EXTENDS Integers, Sequences

CONSTANTS
  Senders,   \* goroutines that deliver alerts
  Channels,  \* the types of monitor.AlertChannels, a sequence; "unusable" is a
             \* channel without adapter or whose configuration is incomplete
  Attempts   \* requests an adapter makes at most (3 in the code)

ASSUME DeliveryAssumption ==
  /\ Channels \in Seq({"webhook", "telegram", "email", "unusable"})
  /\ Attempts \in Nat \ {0}

VARIABLES
  service,    \* the service a sender uses: "fanout", "resilient"
  stage,      \* how far the delivery of a sender to a channel has come
  attempt,    \* its current attempt
  cancelled,  \* senders whose context is done
  copies,     \* history: how often the recipient got the alert
  lost        \* history: requests that were served and reported as failed

deliveryVars == <<service, stage, attempt, cancelled, copies, lost>>

Ids == DOMAIN Channels
Usable(i) == Channels[i] # "unusable"

InitDelivery ==
  /\ service = [s \in Senders |-> "fanout"]
  /\ stage = [s \in Senders |-> [i \in Ids |-> "off"]]
  /\ attempt = [s \in Senders |-> [i \in Ids |-> 0]]
  /\ cancelled = {}
  /\ copies = [s \in Senders |-> [i \in Ids |-> 0]]
  /\ lost = [s \in Senders |-> [i \in Ids |-> 0]]

Over(s, i) == stage[s][i] \in {"ok", "failed"}
Delivered(s) == \A i \in Ids : Over(s, i)
Become(s, i, new) == stage' = [stage EXCEPT ![s][i] = new]

-----------------------------------------------------------------------------
(* DeliverAlert of either service is called; every channel gets its turn.  *)
DeliverAlert(s, svc) ==
  /\ service' = [service EXCEPT ![s] = svc]
  /\ stage' = [stage EXCEPT ![s] = [i \in Ids |-> "queued"]]
  /\ attempt' = [attempt EXCEPT ![s] = [i \in Ids |-> 0]]
  /\ cancelled' = cancelled \ {s}
  /\ copies' = [copies EXCEPT ![s] = [i \in Ids |-> 0]]
  /\ lost' = [lost EXCEPT ![s] = [i \in Ids |-> 0]]

(* The caller has its results; the goroutines are gone.                    *)
Forget(s) ==
  /\ stage' = [stage EXCEPT ![s] = [i \in Ids |-> "off"]]
  /\ attempt' = [attempt EXCEPT ![s] = [i \in Ids |-> 0]]
  /\ cancelled' = cancelled \ {s}
  /\ copies' = [copies EXCEPT ![s] = [i \in Ids |-> 0]]
  /\ lost' = [lost EXCEPT ![s] = [i \in Ids |-> 0]]
  /\ UNCHANGED service

(* A goroutine per channel, or one channel after the other; a breaker may  *)
(* reject the call, and an unusable channel fails without a request.       *)
SendChannel(s, i) ==
  /\ stage[s][i] = "queued"
  /\ service[s] = "resilient" => \A j \in Ids : j < i => Over(s, j)
  /\ \/ /\ Usable(i)
        /\ Become(s, i, "sending")
        /\ attempt' = [attempt EXCEPT ![s][i] = 1]
     \/ /\ ~Usable(i) \/ service[s] = "resilient"
        /\ Become(s, i, "failed")
        /\ UNCHANGED attempt
  /\ UNCHANGED <<service, cancelled, copies, lost>>

(* An attempt failed: the adapter backs off, or gives up after the last.   *)
GiveUpOrRetry(s, i) ==
  IF attempt[s][i] < Attempts
    THEN /\ Become(s, i, "backoff")
         /\ attempt' = [attempt EXCEPT ![s][i] = @ + 1]
    ELSE Become(s, i, "failed") /\ UNCHANGED attempt

(* A request of webhook or Telegram: it is served; it is refused or never  *)
(* arrives; it is served but its reply is lost.                            *)
Request(s, i) ==
  \/ /\ copies' = [copies EXCEPT ![s][i] = @ + 1]
     /\ Become(s, i, "ok")
     /\ UNCHANGED <<attempt, lost>>
  \/ GiveUpOrRetry(s, i) /\ UNCHANGED <<copies, lost>>
  \/ /\ copies' = [copies EXCEPT ![s][i] = @ + 1]
     /\ lost' = [lost EXCEPT ![s][i] = @ + 1]
     /\ GiveUpOrRetry(s, i)

(* Mutant of sendWebhook: only a status other than 2xx ends the retries.   *)
sendWebhookInverted(s, i) ==
  /\ Channels[i] = "webhook" /\ stage[s][i] = "sending"
  /\ copies' = [copies EXCEPT ![s][i] = @ + 1]
  /\ GiveUpOrRetry(s, i)
  /\ UNCHANGED <<service, cancelled, lost>>

sendWebhook(s, i) ==
  /\ Channels[i] = "webhook" /\ stage[s][i] = "sending"
  /\ Request(s, i)
  /\ UNCHANGED <<service, cancelled>>

sendMessage(s, i) ==
  /\ Channels[i] = "telegram" /\ stage[s][i] = "sending"
  /\ Request(s, i)
  /\ UNCHANGED <<service, cancelled>>

(* A mail: accepted, or refused before its text. A server that refuses it  *)
(* after its text is only heard by the deferred writer.Close, whose error  *)
(* is dropped. Neither the dial nor the conversation has a deadline, and    *)
(* the context is not asked: the step need never come.                     *)
sendEmail(s, i) ==
  /\ Channels[i] = "email" /\ stage[s][i] = "sending"
  /\ \/ /\ copies' = [copies EXCEPT ![s][i] = @ + 1]
        /\ Become(s, i, "ok") /\ UNCHANGED attempt
     \/ Become(s, i, "ok") /\ UNCHANGED <<attempt, copies>>
     \/ GiveUpOrRetry(s, i) /\ UNCHANGED copies
  /\ UNCHANGED <<service, cancelled, lost>>

(* Mutant of Backoff: it waits for the context of a caller that lives on.  *)
BackoffOnlyCancelled(s, i) ==
  /\ stage[s][i] = "backoff"
  /\ s \in cancelled /\ Become(s, i, "failed")
  /\ UNCHANGED <<service, attempt, cancelled, copies, lost>>

(* The back-off ends by its timer or with the context, whichever the       *)
(* select takes.                                                           *)
Backoff(s, i) ==
  /\ stage[s][i] = "backoff"
  /\ \/ Become(s, i, "sending")
     \/ s \in cancelled /\ Become(s, i, "failed")
  /\ UNCHANGED <<service, attempt, cancelled, copies, lost>>

Cancel(s) ==
  /\ \E i \in Ids : stage[s][i] \in {"queued", "sending", "backoff"}
  /\ s \notin cancelled
  /\ cancelled' = cancelled \union {s}
  /\ UNCHANGED <<service, stage, attempt, copies, lost>>

Send(s, i) ==
  \/ SendChannel(s, i) \/ Backoff(s, i)
  \/ sendWebhook(s, i) \/ sendMessage(s, i) \/ sendEmail(s, i)

(* An attempt to send a mail is under way.                                 *)
Mails == { i \in Ids : Channels[i] = "email" }
InMail(s, i) == stage[s][i] = "sending" /\ i \in Mails

-----------------------------------------------------------------------------
DeliveryTypeOK ==
  /\ service \in [Senders -> {"fanout", "resilient"}]
  /\ stage \in [Senders -> [Ids -> {"off", "queued", "sending", "backoff",
                                    "ok", "failed"}]]
  /\ attempt \in [Senders -> [Ids -> 0..Attempts]]
  /\ cancelled \in SUBSET Senders
  /\ copies \in [Senders -> [Ids -> 0..Attempts]]
  /\ lost \in [Senders -> [Ids -> 0..Attempts]]

(* What a channel reports is what its recipient has seen: a recipient of   *)
(* a webhook or of Telegram that has the alert more than once owes every   *)
(* extra copy to a lost reply, one who is reported reached has it, and no  *)
(* request follows a success. E-mail may report a success for nothing,     *)
(* and never sends twice.                                                  *)
ReportsMatchRecipients ==
  \A s \in Senders, i \in Ids :
    IF Channels[i] = "email"
      THEN copies[s][i] <= (IF stage[s][i] = "ok" THEN 1 ELSE 0)
      ELSE copies[s][i] = lost[s][i] + (IF stage[s][i] = "ok" THEN 1 ELSE 0)
=============================================================================
