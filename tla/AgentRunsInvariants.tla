------------------------- MODULE AgentRunsInvariants -------------------------
(***************************************************************************)
(* The inductive invariants behind the safety of AgentRuns.  Each clause   *)
(* says what a process may rely on between two of its awaits; the proofs   *)
(* are in AgentRunsProofs, and TLC checks the invariants on an instance.   *)
(***************************************************************************)
EXTENDS AgentRuns

BeforeJob == {"idle", "resolve", "open", "announce", "add"}

-----------------------------------------------------------------------------
(* Whatever faults happen.                                                 *)

\* Every process at work has a run, a request always its own, an idle worker
\* none, and a process running tools has a call left.
ProcsSound ==
    \A p \in Procs :
        /\ p \in Runs => task[p] = p
        /\ p \in Workers /\ pc[p] = "idle" => task[p] = None
        /\ pc[p] # "idle" => task[p] \in Runs
        /\ pc[p] = "tools" => calls[p] > 0

\* A job exists only after its request is done, and one that may still be
\* delivered has attempts left.
JobsSound ==
    \A r \in Runs :
        /\ pc[r] # "done" => jobState[r] = "none"
        /\ jobState[r] = "none" => failures[r] = 0
        /\ jobState[r] \in {"waiting", "active", "delayed"} => failures[r] < Queue!Attempts

Sound == TypeOK /\ ProcsSound /\ JobsSound

\* A raised flag, a cancelled loop and a cancelled run all have a cancel request,
\* and the closing of a stream asks for one at most once.
CancelJustified ==
    /\ \A r \in Runs : ~gone[r] => cancel[r]["close"] = "none"
    /\ \A r \in Runs : flag[r] \/ status[r] = "CANCELLED" => Asked(r)
    /\ \A p \in Procs : pc[p] = "final" /\ verdict[p] = "CANCELLED" => Asked(task[p])

-----------------------------------------------------------------------------
(* While no live worker loses a lock.                                      *)

\* A worker at work owns the job of its run.
LocksHeld ==
    \A w \in Workers : pc[w] # "idle" => Queue!Owns(w, task[w])

\* The statuses s a run can have while a process at point l works on it.
Fits(l, s) ==
    /\ l \in {"idle", "resolve", "open"} => s = "NONE"
    /\ l \in {"add", "load", "mark"} => s \in {"PENDING", "GONE"}
    /\ l \in ({"announce"} \cup LoopPc) \ {"fail"} => s \in {"IN_PROGRESS", "GONE"}
    /\ l = "fail" =>
           \/ s \in {"IN_PROGRESS", "GONE"}
           \/ "lostReply" \in Faults /\ s \in Verdicts

StatusKnown == \A p \in Procs : task[p] \in Runs => Fits(pc[p], status[task[p]])

\* Steps begun and answers received agree with the place in the loop.
StepsCounted ==
    \A p \in Procs :
        /\ pc[p] \in BeforeJob \cup {"fetch", "load", "mark", "user"} =>
               step[p] = 0 /\ spent[p] = 0
        /\ pc[p] \in {"poll", "tools"} => step[p] = spent[p]
        /\ pc[p] = "llm" => step[p] = spent[p] + 1
        /\ pc[p] = "final" =>
               /\ step[p] = spent[p] + (IF verdict[p] = "CANCELLED" THEN 1 ELSE 0)
               /\ verdict[p] = "TIMEOUT" => step[p] = MaxSteps

\* What the messages ms of a run can be while a process at point l has received
\* n answers for it and has c tool calls left.
Recorded(l, n, c, ms) ==
    /\ l \in {"announce", "user"} => ms = NoLog
    /\ l \in {"poll", "llm", "tools", "final"} => ms["ASSISTANT"] = n
    /\ "cutReply" \notin Faults =>
        /\ l \in {"poll", "llm", "final"} => ms["CALL"] = ms["TOOL"]
        /\ l = "tools" => ms["CALL"] = ms["TOOL"] + c

\* The messages of a run are those its one executor has written.
LogMatchesExecutor ==
    /\ \A r \in Runs : status[r] \in {"NONE", "PENDING"} => log[r] = NoLog
    /\ \A p \in Procs : task[p] \in Runs /\ Present(task[p]) =>
           Recorded(pc[p], spent[p], calls[p], log[task[p]])

Exclusive == Sound /\ LocksHeld /\ StatusKnown

\* What the runs and their messages tell a reader of the tables.
Books ==
    /\ StepsCounted
    /\ LogMatchesExecutor
    /\ InputSavedOnce
    /\ TotalsMatchMessages
    /\ "cutReply" \notin Faults => CallsAnswered

Accounted == Exclusive /\ Books

-----------------------------------------------------------------------------
(* While, moreover, no process dies and no write of a status is lost.      *)

Ended(r) == status[r] \in Terminal \cup {"GONE"}

\* Process p executes run r, or is about to.
Executes(p, r) == task[p] = r /\ pc[p] \in LoopPc \cup {"announce"}

\* A run that is IN_PROGRESS has a process that executes it, and a worker that is about
\* to report its job completed has seen its run end.
Tended ==
    /\ \A r \in Runs : jobState[r] # "none" => status[r] # "NONE"
    /\ \A r \in Runs : status[r] = "IN_PROGRESS" => \E p \in Procs : Executes(p, r)
    /\ \A w \in Workers : pc[w] = "ack" => Ended(task[w])
    /\ CompletedJobEndedRun
=============================================================================
