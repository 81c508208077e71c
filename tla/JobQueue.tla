------------------------------ MODULE JobQueue ------------------------------
(***************************************************************************)
(* A BullMQ queue as the platform uses it: one job per record, at most     *)
(* Attempts attempts with a backoff between them, and a lock per active    *)
(* job.  A job whose lock expires is stalled: it is redelivered MaxStalls  *)
(* times and failed after that.  The modules that INSTANCE this one add    *)
(* the workers, and say when a lock can be lost.                           *)
(***************************************************************************)
EXTENDS Naturals

CONSTANTS Jobs, Workers, None

VARIABLES jobState, failures, stalls, owner

jobs == <<jobState, failures, stalls, owner>>

Attempts  == 3      \* the attempts option of every queue.add
MaxStalls == 1      \* BullMQ's maxStalledCount

JobStates == {"none", "waiting", "active", "delayed", "completed", "failed"}

TypeOK ==
    /\ jobState \in [Jobs -> JobStates]
    /\ failures \in [Jobs -> 0..Attempts]
    /\ stalls \in [Jobs -> 0..MaxStalls]
    /\ owner \in [Jobs -> Workers \cup {None}]

Init ==
    /\ jobState = [j \in Jobs |-> "none"]
    /\ failures = [j \in Jobs |-> 0]
    /\ stalls = [j \in Jobs |-> 0]
    /\ owner = [j \in Jobs |-> None]

Add(j) ==
    /\ jobState' = [jobState EXCEPT ![j] = "waiting"]
    /\ UNCHANGED <<failures, stalls, owner>>

Take(w, j) ==
    /\ jobState[j] = "waiting"
    /\ jobState' = [jobState EXCEPT ![j] = "active"]
    /\ owner' = [owner EXCEPT ![j] = w]
    /\ UNCHANGED <<failures, stalls>>

\* The result of a job counts only while the worker holds the job's lock.
Owns(w, j) == jobState[j] = "active" /\ owner[j] = w

Complete(w, j) ==
    IF Owns(w, j)
    THEN /\ jobState' = [jobState EXCEPT ![j] = "completed"]
         /\ owner' = [owner EXCEPT ![j] = None]
         /\ UNCHANGED <<failures, stalls>>
    ELSE UNCHANGED jobs

\* A failed attempt is retried after a backoff until the attempts are used up.
Fail(w, j) ==
    IF Owns(w, j)
    THEN /\ failures' = [failures EXCEPT ![j] = @ + 1]
         /\ jobState' = [jobState EXCEPT ![j] =
                             IF failures'[j] < Attempts THEN "delayed" ELSE "failed"]
         /\ owner' = [owner EXCEPT ![j] = None]
         /\ UNCHANGED stalls
    ELSE UNCHANGED jobs

BackoffEnds(j) ==
    /\ jobState[j] = "delayed"
    /\ jobState' = [jobState EXCEPT ![j] = "waiting"]
    /\ UNCHANGED <<failures, stalls, owner>>

\* A stalled job is redelivered at most MaxStalls times.
Redelivers(j) == stalls[j] < MaxStalls

\* The lock of an active job expires.
Stall(j) ==
    /\ jobState[j] = "active"
    /\ IF Redelivers(j)
       THEN /\ jobState' = [jobState EXCEPT ![j] = "waiting"]
            /\ stalls' = [stalls EXCEPT ![j] = @ + 1]
       ELSE /\ jobState' = [jobState EXCEPT ![j] = "failed"]
            /\ UNCHANGED stalls
    /\ owner' = [owner EXCEPT ![j] = None]
    /\ UNCHANGED failures
=============================================================================
