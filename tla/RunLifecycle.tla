---------------------------- MODULE RunLifecycle ----------------------------
(***************************************************************************)
(* What the platform promises about the `status` column of a Run, whoever  *)
(* executes it (HTTP request, SSE stream or queue worker):                 *)
(*                                                                         *)
(*   PENDING -> IN_PROGRESS -> COMPLETED | FAILED | CANCELLED | TIMEOUT    *)
(*                                                                         *)
(* A final status is never left, a run is CANCELLED only when a cancel     *)
(* request found it unfinished, and rows disappear only with their thread. *)
(***************************************************************************)
CONSTANT Runs

VARIABLES
    status,     \* the status of each run
    asked       \* the runs a cancel request found unfinished

vars == <<status, asked>>

Live     == {"PENDING", "IN_PROGRESS"}
Terminal == {"COMPLETED", "FAILED", "CANCELLED", "TIMEOUT"}

\* Before its row is inserted a run is "NONE"; after the cascade it is "GONE".
Statuses == Live \cup Terminal \cup {"NONE", "GONE"}

TypeOK ==
    /\ status \in [Runs -> Statuses]
    /\ asked \subseteq Runs

Init ==
    /\ status = [r \in Runs |-> "NONE"]
    /\ asked = {}

\* A queued run opens PENDING, a run executed by its request IN_PROGRESS.
Open(r) ==
    /\ status[r] = "NONE"
    /\ \E s \in Live : status' = [status EXCEPT ![r] = s]
    /\ UNCHANGED asked

Start(r) ==
    /\ status[r] = "PENDING"
    /\ status' = [status EXCEPT ![r] = "IN_PROGRESS"]
    /\ UNCHANGED asked

AskCancel(r) ==
    /\ status[r] \in Live
    /\ asked' = asked \cup {r}
    /\ UNCHANGED status

Settle(r, s) ==
    /\ status[r] = "IN_PROGRESS"
    /\ s = "CANCELLED" => r \in asked
    /\ status' = [status EXCEPT ![r] = s]
    /\ UNCHANGED asked

\* Deleting a thread deletes all of its runs.
Delete(R) ==
    /\ \A r \in R : status[r] \in Live \cup Terminal
    /\ status' = [r \in Runs |-> IF r \in R THEN "GONE" ELSE status[r]]
    /\ UNCHANGED asked

Next ==
    \/ \E r \in Runs : Open(r) \/ Start(r) \/ AskCancel(r)
    \/ \E r \in Runs, s \in Terminal : Settle(r, s)
    \/ \E R \in SUBSET Runs : Delete(R)

Spec == Init /\ [][Next]_vars
=============================================================================
