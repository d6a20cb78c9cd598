------------------------------ MODULE JobLedger ------------------------------
(***************************************************************************)
(* What the job pipeline of one instance promises of a job, whatever       *)
(* happens to the processes and stores it passes through: it is started    *)
(* once, and once more only for a copy that a repeated command appended;   *)
(* copies are made only while the scheduler still has the job; and once    *)
(* the scheduler is done with a job and its copies are gone, nothing       *)
(* brings it back.                                                         *)
(***************************************************************************)
EXTENDS Integers

CONSTANTS
  Jobs,
  MaxRetries   \* how often a command is repeated whose reply was lost

VARIABLES
  place,     \* of each job: none, scheduled, or settled for the scheduler
  copies,    \* copies of the job that wait for a worker
  started,   \* how often the job was started
  repeats    \* how often the command that hands it over was repeated

vars == <<place, copies, started, repeats>>

Init ==
  /\ place = [j \in Jobs |-> "none"]
  /\ copies = [j \in Jobs |-> 0]
  /\ started = [j \in Jobs |-> 0]
  /\ repeats = [j \in Jobs |-> 0]

Submit(j) ==
  /\ place[j] = "none"
  /\ place' = [place EXCEPT ![j] = "scheduled"]
  /\ UNCHANGED <<copies, started, repeats>>

(* The job is handed over, and the scheduler does not learn of it.         *)
Repeat(j) ==
  /\ place[j] = "scheduled"
  /\ repeats[j] < MaxRetries
  /\ copies' = [copies EXCEPT ![j] = @ + 1]
  /\ repeats' = [repeats EXCEPT ![j] = @ + 1]
  /\ UNCHANGED <<place, started>>

HandOver(j) ==
  /\ place[j] = "scheduled"
  /\ place' = [place EXCEPT ![j] = "settled"]
  /\ copies' = [copies EXCEPT ![j] = @ + 1]
  /\ UNCHANGED <<started, repeats>>

Start(j) ==
  /\ copies[j] > 0
  /\ copies' = [copies EXCEPT ![j] = @ - 1]
  /\ started' = [started EXCEPT ![j] = @ + 1]
  /\ UNCHANGED <<place, repeats>>

(* A failure or a crash loses jobs of the scheduler, copies, or both.      *)
Lose ==
  /\ \E S \in SUBSET { j \in Jobs : place[j] = "scheduled" } :
       place' = [j \in Jobs |-> IF j \in S THEN "settled" ELSE place[j]]
  /\ copies' \in [Jobs -> Nat]
  /\ \A j \in Jobs : copies'[j] <= copies[j]
  /\ UNCHANGED <<started, repeats>>

Next ==
  \/ \E j \in Jobs : Submit(j) \/ Repeat(j) \/ HandOver(j) \/ Start(j)
  \/ Lose

Spec == Init /\ [][Next]_vars
=============================================================================
