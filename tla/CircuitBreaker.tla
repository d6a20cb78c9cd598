---------------------------- MODULE CircuitBreaker ----------------------------
(***************************************************************************)
(* The circuit breaker that guards an alert channel, with the goroutines   *)
(* that send alerts through it.                                            *)
(*                                                                         *)
(* Every section the code runs under cb.mu is one step. canExecute trades  *)
(* its read lock for the write lock and back; a call is in the two gaps    *)
(* while it is "upgrade" and "recheck". A rejected call changes nothing.   *)
(* Points in time are kept as the ticks that have passed since them.       *)
(***************************************************************************)
EXTENDS Integers

CONSTANTS
  Senders,           \* goroutines that send alerts through the channel
  MaxFailures,       \* failures that open the circuit (5 in the code)
  SuccessThreshold,  \* successes that close it again (3 in the code)
  Timeout            \* ticks the circuit stays open (60 seconds in the code)

ASSUME BreakerAssumption ==
  /\ MaxFailures \in Nat \ {0}
  /\ SuccessThreshold \in Nat \ {0}
  /\ Timeout \in Nat

VARIABLES
  state,         \* StateClosed, StateOpen, StateHalfOpen
  failureCount,  \* counted up to MaxFailures: only failureCount >= MaxFailures
                 \* is ever asked
  successCount,
  age,           \* ticks since lastFailureTime, counted up to Timeout
  pc,            \* where a caller is
  elapsed,       \* ticks since the call of a caller was admitted, counted up to
                 \* Timeout
  probes,        \* history: callers admitted since the circuit was half-opened
  losses,        \* history: failures recorded since the last success or Reset,
                 \* counted up to MaxFailures
  wins           \* history: successes recorded since the last failure, Reset
                 \* or half-opening, counted up to SuccessThreshold

breakerVars == <<state, failureCount, successCount, age, pc, elapsed, probes, losses, wins>>

Capped(n, cap) == IF n < cap THEN n ELSE cap

Running(c) == pc[c] = "calling"

(* lastFailureTime is zero, a long time ago.                               *)
InitBreaker ==
  /\ state = "closed"
  /\ failureCount = 0 /\ successCount = 0
  /\ age = Timeout
  /\ pc = [c \in Senders |-> "idle"]
  /\ elapsed = [c \in Senders |-> 0]
  /\ probes = {}
  /\ losses = 0 /\ wins = 0

-----------------------------------------------------------------------------
(* canExecute lets the call of c through, and Execute makes it.            *)
Admit(c) ==
  /\ pc' = [pc EXCEPT ![c] = "calling"]
  /\ elapsed' = [elapsed EXCEPT ![c] = 0]
  /\ probes' = IF state = "half-open" THEN probes \union {c} ELSE probes \ {c}

CanExecute(c) ==
  /\ pc[c] = "idle"
  /\ state # "open"
  /\ Admit(c)
  /\ UNCHANGED <<state, failureCount, successCount, age, losses, wins>>

(* The circuit is open and its timeout over: the read lock is released.    *)
ReleaseReadLock(c) ==
  /\ pc[c] = "idle"
  /\ state = "open" /\ age >= Timeout
  /\ pc' = [pc EXCEPT ![c] = "upgrade"]
  /\ UNCHANGED <<state, failureCount, successCount, age, elapsed, probes, losses, wins>>

(* Mutants of HalfOpen: the time is not checked again; the state is not set. *)
HalfOpenStale(c) ==
  /\ pc[c] = "upgrade"
  /\ IF state = "open"
       THEN /\ state' = "half-open" /\ successCount' = 0
            /\ probes' = {} /\ wins' = 0
       ELSE UNCHANGED <<state, successCount, probes, wins>>
  /\ pc' = [pc EXCEPT ![c] = "recheck"]
  /\ UNCHANGED <<failureCount, age, elapsed, losses>>

HalfOpenNever(c) ==
  /\ pc[c] = "upgrade"
  /\ pc' = [pc EXCEPT ![c] = "recheck"]
  /\ UNCHANGED <<state, failureCount, successCount, age, elapsed, probes, losses, wins>>

(* Under the write lock both conditions are checked again.                 *)
HalfOpen(c) ==
  /\ pc[c] = "upgrade"
  /\ IF state = "open" /\ age >= Timeout
       THEN /\ state' = "half-open" /\ successCount' = 0
            /\ probes' = {} /\ wins' = 0
       ELSE UNCHANGED <<state, successCount, probes, wins>>
  /\ pc' = [pc EXCEPT ![c] = "recheck"]
  /\ UNCHANGED <<failureCount, age, elapsed, losses>>

(* Mutant of Recheck: whoever got that far is let through.                 *)
RecheckNot(c) ==
  /\ pc[c] = "recheck"
  /\ Admit(c)
  /\ UNCHANGED <<state, failureCount, successCount, age, losses, wins>>

(* Under the read lock again: only a half-open circuit lets the call pass. *)
Recheck(c) ==
  /\ pc[c] = "recheck"
  /\ IF state = "half-open"
       THEN Admit(c)
       ELSE /\ pc' = [pc EXCEPT ![c] = "idle"]
            /\ UNCHANGED <<elapsed, probes>>
  /\ UNCHANGED <<state, failureCount, successCount, age, losses, wins>>

-----------------------------------------------------------------------------
(* Mutants of RecordSuccess: failures of the past keep counting; one       *)
(* success less closes the circuit.                                        *)
RecordSuccessKeeps(c) ==
  /\ Running(c)
  /\ \/ /\ state = "half-open" /\ successCount + 1 >= SuccessThreshold
        /\ state' = "closed" /\ failureCount' = 0 /\ successCount' = 0
     \/ /\ state = "half-open" /\ successCount + 1 < SuccessThreshold
        /\ successCount' = successCount + 1
        /\ UNCHANGED <<state, failureCount>>
     \/ state # "half-open" /\ UNCHANGED <<state, failureCount, successCount>>
  /\ losses' = 0 /\ wins' = Capped(wins + 1, SuccessThreshold)
  /\ pc' = [pc EXCEPT ![c] = "idle"]
  /\ UNCHANGED <<age, elapsed, probes>>

RecordSuccessShifted(c, threshold) ==
  /\ Running(c)
  /\ \/ state = "closed" /\ failureCount' = 0 /\ UNCHANGED <<state, successCount>>
     \/ /\ state = "half-open" /\ successCount + 1 >= threshold
        /\ state' = "closed" /\ failureCount' = 0 /\ successCount' = 0
     \/ /\ state = "half-open" /\ successCount + 1 < threshold
        /\ successCount' = successCount + 1
        /\ UNCHANGED <<state, failureCount>>
     \/ state = "open" /\ UNCHANGED <<state, failureCount, successCount>>
  /\ losses' = 0 /\ wins' = Capped(wins + 1, SuccessThreshold)
  /\ pc' = [pc EXCEPT ![c] = "idle"]
  /\ UNCHANGED <<age, elapsed, probes>>

RecordSuccessSoon(c) == RecordSuccessShifted(c, SuccessThreshold - 1)

(* The call of c succeeds. An open circuit takes no notice of a success.   *)
RecordSuccess(c) ==
  /\ Running(c)
  /\ \/ state = "closed" /\ failureCount' = 0 /\ UNCHANGED <<state, successCount>>
     \/ /\ state = "half-open" /\ successCount + 1 >= SuccessThreshold
        /\ state' = "closed" /\ failureCount' = 0 /\ successCount' = 0
     \/ /\ state = "half-open" /\ successCount + 1 < SuccessThreshold
        /\ successCount' = successCount + 1
        /\ UNCHANGED <<state, failureCount>>
     \/ state = "open" /\ UNCHANGED <<state, failureCount, successCount>>
  /\ losses' = 0 /\ wins' = Capped(wins + 1, SuccessThreshold)
  /\ pc' = [pc EXCEPT ![c] = "idle"]
  /\ UNCHANGED <<age, elapsed, probes>>

(* Mutant of RecordFailure: one failure too many before the circuit opens. *)
RecordFailureLate(c) ==
  /\ Running(c)
  /\ age' = 0
  /\ failureCount' = Capped(failureCount + 1, MaxFailures)
  /\ \/ /\ state = "closed" /\ failureCount >= MaxFailures
        /\ state' = "open" /\ UNCHANGED successCount
     \/ state = "closed" /\ failureCount < MaxFailures /\ UNCHANGED <<state, successCount>>
     \/ state = "half-open" /\ state' = "open" /\ successCount' = 0
     \/ state = "open" /\ UNCHANGED <<state, successCount>>
  /\ losses' = Capped(losses + 1, MaxFailures) /\ wins' = 0
  /\ pc' = [pc EXCEPT ![c] = "idle"]
  /\ UNCHANGED <<elapsed, probes>>

(* The call of c fails. The late failure of a call that was admitted       *)
(* before the circuit opened makes it wait anew.                           *)
RecordFailure(c) ==
  /\ Running(c)
  /\ age' = 0
  /\ failureCount' = Capped(failureCount + 1, MaxFailures)
  /\ \/ /\ state = "closed" /\ failureCount + 1 >= MaxFailures
        /\ state' = "open" /\ UNCHANGED successCount
     \/ /\ state = "closed" /\ failureCount + 1 < MaxFailures
        /\ UNCHANGED <<state, successCount>>
     \/ state = "half-open" /\ state' = "open" /\ successCount' = 0
     \/ state = "open" /\ UNCHANGED <<state, successCount>>
  /\ losses' = Capped(losses + 1, MaxFailures) /\ wins' = 0
  /\ pc' = [pc EXCEPT ![c] = "idle"]
  /\ UNCHANGED <<elapsed, probes>>

(* CircuitBreakerManager.Reset; lastFailureTime stays, calls go on.        *)
Reset ==
  /\ state' = "closed"
  /\ failureCount' = 0 /\ successCount' = 0
  /\ losses' = 0 /\ wins' = 0
  /\ UNCHANGED <<age, pc, elapsed, probes>>

(* Time passes; a call may last for ever.                                  *)
Tick ==
  /\ age' = Capped(age + 1, Timeout)
  /\ elapsed' = [c \in Senders |-> IF Running(c) THEN Capped(elapsed[c] + 1, Timeout) ELSE elapsed[c]]
  /\ UNCHANGED <<state, failureCount, successCount, pc, probes, losses, wins>>

-----------------------------------------------------------------------------
Execute(c) ==
  \/ CanExecute(c) \/ ReleaseReadLock(c) \/ HalfOpen(c) \/ Recheck(c)
  \/ RecordSuccess(c) \/ RecordFailure(c)

BreakerNext ==
  \/ \E c \in Senders : Execute(c)
  \/ Reset
  \/ Tick

BreakerSpec == InitBreaker /\ [][BreakerNext]_breakerVars

(* A goroutine that waits for a lock gets it. Neither that alerts are sent *)
(* at all is assumed, nor that a call ends: one to a mail server need not. *)
BreakerFairness ==
  \A c \in Senders : WF_breakerVars(HalfOpen(c) \/ Recheck(c))

FairBreakerSpec == BreakerSpec /\ BreakerFairness

-----------------------------------------------------------------------------
(* The values CircuitBreaker's fields take: counters that reach their      *)
(* threshold have made the circuit open or close.                          *)
BreakerTypeOK ==
  /\ state \in {"closed", "open", "half-open"}
  /\ failureCount \in 0..MaxFailures
  /\ successCount \in 0..(SuccessThreshold - 1)
  /\ age \in 0..Timeout
  /\ pc \in [Senders -> {"idle", "upgrade", "recheck", "calling"}]
  /\ elapsed \in [Senders -> 0..Timeout]
  /\ probes \in SUBSET Senders
  /\ losses \in 0..MaxFailures
  /\ wins \in 0..SuccessThreshold

(* "Open after 5 consecutive failures" (alert_channel.go): the circuit is  *)
(* not closed any more once that many failures were recorded in a row, by  *)
(* whatever callers and whenever those were admitted.                      *)
OpensInTime == state = "closed" => losses < MaxFailures

(* And it opens for nothing less: a closed circuit that opens has seen     *)
(* that many failures without a success or a Reset between them.           *)
OpensForCause ==
  [][state = "closed" /\ state' = "open" => losses' = MaxFailures]_breakerVars

(* "Close after 3 consecutive successes": but for a Reset, a half-open     *)
(* circuit closes only with that many successes recorded since it was      *)
(* half-opened, no failure among them.                                     *)
ClosesForCause ==
  [][state = "half-open" /\ state' = "closed" => wins' = SuccessThreshold \/ Reset]_breakerVars

(* While the circuit is open no call is let through: every call still in   *)
(* progress was admitted before the last failure, through every race of    *)
(* canExecute between its locks.                                           *)
QuietWhileOpen ==
  state = "open" => \A c \in Senders : Running(c) => age <= elapsed[c]

(* What a half-open circuit learns, it learns from probes: a call that was *)
(* admitted in an earlier phase, and whose late result could still close   *)
(* or reopen it, has been running for the whole timeout. Calls shorter     *)
(* than the timeout (webhook, Telegram) are never heard late.              *)
OnlyProbes ==
  state = "half-open" =>
    \A c \in Senders : Running(c) /\ c \notin probes => elapsed[c] >= Timeout

(* If callers come back after the timeout again and again, the circuit     *)
(* does not stay open: late failures cannot put the probe off forever.     *)
CircuitRecovers ==
  []<>(\E c \in Senders : pc[c] = "upgrade") => []<>(state # "open")

(* The circuit changes state for the reasons of its configuration only.    *)
ChangesForCause == OpensForCause /\ ClosesForCause
=============================================================================
