------------------------------ MODULE AgentRuns ------------------------------
(***************************************************************************)
(* Agent runs end to end: the HTTP request that opens a run, the BullMQ    *)
(* job of an asynchronous run, the processes that drive the reasoning      *)
(* loop (request handlers and workers), cancellation through a Redis flag, *)
(* the deletion of threads, and the faults of the environment.             *)
(*                                                                         *)
(* One step is one awaited call: whatever lies between two awaits of the   *)
(* source is atomic, and other processes run in between.  Prompts, model   *)
(* answers and tool results are abstracted to how many tool calls an       *)
(* answer asks for; a run's messages to how many there are of each kind.   *)
(***************************************************************************)
EXTENDS Naturals

CONSTANTS
    Runs,       \* run ids; the request that opens run r is named r, too
    Threads,    \* thread ids
    Workers,    \* the slots in which workers process agent-run jobs
    None,       \* no run, no worker, no thread
    MaxSteps,   \* agent.maxSteps
    MaxCalls,   \* bound: tool calls in one model answer
    Faults      \* the faults the environment may inject

AllFaults ==
    { "loopError",    \* a model, tool-message or Redis call in the loop throws
      "dbError",      \* a database call outside the loop's try block fails
      "queueError",   \* Redis refuses queue.add, a job ack or the cancel flag
      "lostReply",    \* a write of the Run row commits but its caller sees an error
      "cutReply",     \* a model answer has tool calls but another finish reason
      "crash",        \* an API or worker process dies
      "lockLoss" }    \* a live worker loses the lock of its job

ASSUME NoneAssumption == None \notin Runs \cup Workers \cup Threads
ASSUME DisjointAssumption == Runs \cap Workers = {}
ASSUME BoundsAssumption == MaxSteps \in Nat \ {0} /\ MaxCalls \in Nat
ASSUME FaultsAssumption == Faults \subseteq AllFaults

Live     == {"PENDING", "IN_PROGRESS"}
Terminal == {"COMPLETED", "FAILED", "CANCELLED", "TIMEOUT"}
Verdicts == {"COMPLETED", "CANCELLED", "TIMEOUT"}
Statuses == Live \cup Terminal \cup {"NONE", "GONE"}

Procs == Runs \cup Workers

Callers == {"user", "close"}    \* POST /runs/:id/cancel, and a closed stream
Rows == {"USER", "ASSISTANT", "TOOL", "CALL"}

VARIABLES
    \* The Run table, the messages of each run by role with the tool calls the
    \* answers asked for, and the Thread table.
    status, stepCount, tokens,
    log,
    threads,
    \* The request that opens a run: its mode, its thread, whether the stream's
    \* controller knows the run's id, whether the stream's socket is closed.
    mode, threadOf, known, gone,
    \* A process: where it stands, the run it works on, and the loop's locals:
    \* stepCount, totals, tool calls left, and what the loop ended with.
    pc, task, step, spent, calls, verdict,
    \* The BullMQ job of a run.
    jobState, failures, stalls, owner,
    \* The Redis keys run:cancel:<id>, and the requestCancel calls under way.
    flag, cancel

runs     == <<status, stepCount, tokens>>
requests == <<mode, threadOf, known, gone>>
locals   == <<task, step, spent, calls, verdict>>
cancels  == <<flag, cancel>>

Queue == INSTANCE JobQueue WITH Jobs <- Runs

jobs == <<jobState, failures, stalls, owner>>
vars == <<runs, log, threads, requests, pc, locals, jobs, cancels>>

LoopPc    == {"user", "poll", "llm", "tools", "final", "fail"}
RequestPc == {"idle", "resolve", "open", "announce", "add", "rejected", "done", "crashed"}
WorkerPc  == {"idle", "fetch", "load", "mark", "ack", "nack"}
Pcs       == LoopPc \cup RequestPc \cup WorkerPc
CancelPcs == {"none", "read", "set", "done"}

TypeOK ==
    /\ status \in [Runs -> Statuses]
    /\ stepCount \in [Runs -> Nat] /\ tokens \in [Runs -> Nat]
    /\ log \in [Runs -> [Rows -> Nat]]
    /\ threads \in [Threads -> {"absent", "live", "deleted"}]
    /\ mode \in [Runs -> {"sync", "stream", "async"}]
    /\ threadOf \in [Runs -> Threads \cup {None}]
    /\ known \in [Runs -> BOOLEAN] /\ gone \in [Runs -> BOOLEAN]
    /\ pc \in [Procs -> Pcs]
    /\ task \in [Procs -> Runs \cup {None}]
    /\ step \in [Procs -> 0..MaxSteps] /\ spent \in [Procs -> Nat]
    /\ calls \in [Procs -> 0..MaxCalls]
    /\ verdict \in [Procs -> Verdicts]
    /\ Queue!TypeOK
    /\ flag \in [Runs -> BOOLEAN]
    /\ cancel \in [Runs -> [Callers -> CancelPcs]]

-----------------------------------------------------------------------------
NoLog == [k \in Rows |-> 0]

Init ==
    /\ status = [r \in Runs |-> "NONE"]
    /\ stepCount = [r \in Runs |-> 0] /\ tokens = [r \in Runs |-> 0]
    /\ log = [r \in Runs |-> NoLog]
    /\ threads = [t \in Threads |-> "absent"]
    /\ mode = [r \in Runs |-> "sync"]
    /\ threadOf = [r \in Runs |-> None]
    /\ known = [r \in Runs |-> FALSE] /\ gone = [r \in Runs |-> FALSE]
    /\ pc = [p \in Procs |-> "idle"]
    /\ task = [p \in Procs |-> IF p \in Runs THEN p ELSE None]
    /\ step = [p \in Procs |-> 0] /\ spent = [p \in Procs |-> 0]
    /\ calls = [p \in Procs |-> 0]
    /\ verdict = [p \in Procs |-> "TIMEOUT"]
    /\ Queue!Init
    /\ flag = [r \in Runs |-> FALSE]
    /\ cancel = [r \in Runs |-> [c \in Callers |-> "none"]]

Goto(p, l) == pc' = [pc EXCEPT ![p] = l]
Present(r) == status[r] \in Live \cup Terminal
Asked(r) == \E c \in Callers : cancel[r][c] \in {"set", "done"}

-----------------------------------------------------------------------------
(* The request: validate, open the run, then execute it or queue it.       *)

\* A client posts a run; the body and the route choose the mode.
Submit(r, m) ==
    /\ pc[r] = "idle"
    /\ mode' = [mode EXCEPT ![r] = m]
    /\ Goto(r, "resolve")
    /\ UNCHANGED <<runs, log, threads, threadOf, known, gone, locals, jobs, cancels>>

\* resolveAgentAndThread: a given thread must exist, otherwise one is created.
Resolve(r, t) ==
    /\ pc[r] = "resolve"
    /\ threads[t] # "deleted"
    /\ threads' = [threads EXCEPT ![t] = "live"]
    /\ threadOf' = [threadOf EXCEPT ![r] = t]
    /\ Goto(r, "open")
    /\ UNCHANGED <<runs, log, mode, known, gone, locals, jobs, cancels>>

\* A 404 of the validation, or a run row that cannot be inserted.
Reject(r) ==
    /\ \/ pc[r] = "resolve"
       \/ pc[r] = "open" /\ (threads[threadOf[r]] # "live" \/ "dbError" \in Faults)
    /\ Goto(r, "rejected")
    /\ UNCHANGED <<runs, log, threads, requests, locals, jobs, cancels>>

InsertRow(r) ==
    /\ pc[r] = "open"
    /\ threads[threadOf[r]] = "live"
    /\ status' = [status EXCEPT ![r] = IF mode[r] = "async" THEN "PENDING" ELSE "IN_PROGRESS"]
    /\ UNCHANGED <<stepCount, tokens, log, threads, requests, locals, jobs, cancels>>

Open(r) ==
    /\ InsertRow(r)
    /\ Goto(r, IF mode[r] = "async" THEN "add"
               ELSE IF mode[r] = "stream" THEN "announce" ELSE "user")

\* The insert commits but the request fails: nobody is left to execute the run.
OpenLost(r) ==
    /\ "lostReply" \in Faults
    /\ InsertRow(r)
    /\ Goto(r, "rejected")

\* run.created reaches the controller, which learns the run's id from it.
Announce(r) ==
    /\ pc[r] = "announce"
    /\ known' = [known EXCEPT ![r] = TRUE]
    /\ Goto(r, "user")
    /\ UNCHANGED <<runs, log, threads, mode, threadOf, gone, locals, jobs, cancels>>

\* Mutant: the request executes the run it has queued.
EnqueueAndExecute(r) ==
    /\ pc[r] = "add"
    /\ Queue!Add(r)
    /\ Goto(r, "user")
    /\ UNCHANGED <<runs, log, threads, requests, locals, cancels>>

Enqueue(r) ==
    /\ pc[r] = "add"
    /\ Queue!Add(r)
    /\ Goto(r, "done")
    /\ UNCHANGED <<runs, log, threads, requests, locals, cancels>>

EnqueueFails(r) ==
    /\ "queueError" \in Faults
    /\ pc[r] = "add"
    /\ Goto(r, "done")
    /\ UNCHANGED <<runs, log, threads, requests, locals, jobs, cancels>>

-----------------------------------------------------------------------------
(* The worker: take a job, load the run, start it if it is still PENDING.  *)

TakeJob(w, r) ==
    /\ pc[w] = "idle"
    /\ Queue!Take(w, r)
    /\ Goto(w, "fetch")
    /\ task' = [task EXCEPT ![w] = r]
    /\ UNCHANGED <<runs, log, threads, requests, step, spent, calls, verdict, cancels>>

\* runQueued is a no-op for a run that is missing or not PENDING.  Mutants: a run
\* that a dead worker left behind, and one that failed, are taken up again.
TakesUpUnfinished(s) == s \in Live
TakesUpFailed(s) == s \in {"PENDING", "FAILED"}
TakesUp(s) == s = "PENDING"

Fetch(w) ==
    /\ pc[w] = "fetch"
    /\ Goto(w, IF TakesUp(status[task[w]]) THEN "load" ELSE "ack")
    /\ UNCHANGED <<runs, log, threads, requests, locals, jobs, cancels>>

Load(w) ==
    /\ pc[w] = "load"
    /\ Goto(w, IF threads[threadOf[task[w]]] = "live" THEN "mark" ELSE "nack")
    /\ UNCHANGED <<runs, log, threads, requests, locals, jobs, cancels>>

\* The update names the run by id only: its status is not checked again.
MarkInProgress(w) ==
    /\ pc[w] = "mark"
    /\ Present(task[w])
    /\ status' = [status EXCEPT ![task[w]] = "IN_PROGRESS"]
    /\ UNCHANGED <<stepCount, tokens, log, threads, requests, locals, jobs, cancels>>

Start(w) ==
    /\ MarkInProgress(w)
    /\ Goto(w, "user")

StartLost(w) ==
    /\ "lostReply" \in Faults
    /\ MarkInProgress(w)
    /\ Goto(w, "nack")

\* Outside the loop's try block an error fails the job and leaves the run alone.
FailEarly(w) ==
    /\ \/ pc[w] = "mark" /\ ~Present(task[w])
       \/ "dbError" \in Faults /\ pc[w] \in {"fetch", "load", "mark"}
    /\ Goto(w, "nack")
    /\ UNCHANGED <<runs, log, threads, requests, locals, jobs, cancels>>

\* The slot forgets the job and every local of the loop.
Release(w) ==
    /\ Goto(w, "idle")
    /\ task' = [task EXCEPT ![w] = None]
    /\ step' = [step EXCEPT ![w] = 0]
    /\ spent' = [spent EXCEPT ![w] = 0]
    /\ calls' = [calls EXCEPT ![w] = 0]
    /\ verdict' = [verdict EXCEPT ![w] = "TIMEOUT"]

Ack(w) ==
    /\ pc[w] = "ack"
    /\ Queue!Complete(w, task[w])
    /\ Release(w)
    /\ UNCHANGED <<runs, log, threads, requests, cancels>>

Nack(w) ==
    /\ pc[w] = "nack"
    /\ Queue!Fail(w, task[w])
    /\ Release(w)
    /\ UNCHANGED <<runs, log, threads, requests, cancels>>

\* Redis does not take the result: the job stays active until it stalls.
ResultLost(w) ==
    /\ "queueError" \in Faults
    /\ pc[w] \in {"ack", "nack"}
    /\ Release(w)
    /\ UNCHANGED <<runs, log, threads, requests, jobs, cancels>>

BackoffEnds(r) ==
    /\ Queue!BackoffEnds(r)
    /\ UNCHANGED <<runs, log, threads, requests, pc, locals, cancels>>

\* An active job stalls when its worker has died or let go of it, or has lost
\* the lock while it works.
Stall(r) ==
    /\ Queue!Stall(r)
    /\ task[owner[r]] # r \/ "lockLoss" \in Faults
    /\ UNCHANGED <<runs, log, threads, requests, pc, locals, cancels>>

-----------------------------------------------------------------------------
(* The reasoning loop, the same in a request handler and in a worker.      *)

\* The message table gains n rows of a kind for the run of process p.
AddRows(p, k, n) == log' = [log EXCEPT ![task[p]] = [@ EXCEPT ![k] = log[task[p]][k] + n]]

\* Mutant: the loop returns without the update that ends the run.
EndLoopUnwritten(p, v) ==
    /\ Goto(p, IF p \in Workers THEN "ack" ELSE "done")
    /\ verdict' = [verdict EXCEPT ![p] = v]

EndLoop(p, v) ==
    /\ Goto(p, "final")
    /\ verdict' = [verdict EXCEPT ![p] = v]

SaveInput(p) ==
    /\ pc[p] = "user"
    /\ Present(task[p])
    /\ AddRows(p, "USER", 1)
    /\ Goto(p, "poll")
    /\ UNCHANGED <<runs, threads, requests, locals, jobs, cancels>>

\* The cancel flag is polled before every model call.
Poll(p) ==
    /\ pc[p] = "poll"
    /\ step[p] < MaxSteps
    /\ step' = [step EXCEPT ![p] = @ + 1]
    /\ \/ flag[task[p]] /\ EndLoop(p, "CANCELLED")
       \/ ~flag[task[p]] /\ Goto(p, "llm") /\ UNCHANGED verdict
    /\ UNCHANGED <<runs, log, threads, requests, task, spent, calls, jobs, cancels>>

\* The loop's status is TIMEOUT unless it breaks.  Mutant: it starts as CANCELLED.
ExhaustCancelled(p) ==
    /\ pc[p] = "poll"
    /\ step[p] = MaxSteps
    /\ EndLoop(p, "CANCELLED")
    /\ UNCHANGED <<runs, log, threads, requests, task, step, spent, calls, jobs, cancels>>

Exhaust(p) ==
    /\ pc[p] = "poll"
    /\ step[p] = MaxSteps
    /\ EndLoop(p, "TIMEOUT")
    /\ UNCHANGED <<runs, log, threads, requests, task, step, spent, calls, jobs, cancels>>

\* The model answers with n tool calls; the answer is persisted with them.
SaveAnswer(p, n) ==
    /\ pc[p] = "llm"
    /\ Present(task[p])
    /\ log' = [log EXCEPT ![task[p]] =
           [@ EXCEPT !["ASSISTANT"] = log[task[p]]["ASSISTANT"] + 1,
                     !["CALL"] = log[task[p]]["CALL"] + n]]
    /\ spent' = [spent EXCEPT ![p] = @ + 1]
    /\ UNCHANGED <<runs, threads, requests, task, step, jobs, cancels>>

AskForTools(p, n) ==
    /\ n > 0
    /\ SaveAnswer(p, n)
    /\ Goto(p, "tools")
    /\ calls' = [calls EXCEPT ![p] = n]
    /\ UNCHANGED verdict

\* Any other finish reason ends the loop, whatever tool calls came with it.
Answer(p, n) ==
    /\ n = 0 \/ "cutReply" \in Faults
    /\ SaveAnswer(p, n)
    /\ EndLoop(p, "COMPLETED")
    /\ UNCHANGED calls

\* All the calls of an answer are run, in order.  Mutant: the last is left out.
AfterToolEarly(left) == IF left <= 2 THEN "poll" ELSE "tools"
AfterTool(left) == IF left = 1 THEN "poll" ELSE "tools"

\* Tool failures become tool messages, so a call is answered either way.
RunTool(p) ==
    /\ pc[p] = "tools"
    /\ Present(task[p])
    /\ AddRows(p, "TOOL", 1)
    /\ calls' = [calls EXCEPT ![p] = @ - 1]
    /\ Goto(p, AfterTool(calls[p]))
    /\ UNCHANGED <<runs, threads, requests, task, step, spent, verdict, jobs, cancels>>

WriteVerdict(p) ==
    /\ pc[p] = "final"
    /\ Present(task[p])
    /\ status' = [status EXCEPT ![task[p]] = verdict[p]]
    /\ stepCount' = [stepCount EXCEPT ![task[p]] = step[p]]
    /\ tokens' = [tokens EXCEPT ![task[p]] = spent[p]]
    /\ UNCHANGED <<log, threads, requests, locals, jobs, cancels>>

Settle(p) ==
    /\ WriteVerdict(p)
    /\ Goto(p, IF p \in Workers THEN "ack" ELSE "done")

SettleLost(p) ==
    /\ "lostReply" \in Faults
    /\ WriteVerdict(p)
    /\ Goto(p, "fail")

\* Inside the try block every error, a vanished run included, leads to the catch.
Throw(p) ==
    /\ \/ pc[p] \in {"user", "llm", "tools", "final"} /\ ~Present(task[p])
       \/ pc[p] \in LoopPc \ {"fail"} /\ "loopError" \in Faults
    /\ Goto(p, "fail")
    /\ UNCHANGED <<runs, log, threads, requests, locals, jobs, cancels>>

\* The catch block records the failure; an error of this update is swallowed.
\* Mutant: the catch block only rethrows.
Rethrow(p) ==
    /\ pc[p] = "fail"
    /\ Goto(p, IF p \in Workers THEN "nack" ELSE "done")
    /\ UNCHANGED <<runs, log, threads, requests, locals, jobs, cancels>>

RecordFailure(p) ==
    /\ pc[p] = "fail"
    /\ \/ Present(task[p]) /\ status' = [status EXCEPT ![task[p]] = "FAILED"]
       \/ (~Present(task[p]) \/ "dbError" \in Faults) /\ UNCHANGED status
    /\ Goto(p, IF p \in Workers THEN "nack" ELSE "done")
    /\ UNCHANGED <<stepCount, tokens, log, threads, requests, locals, jobs, cancels>>

-----------------------------------------------------------------------------
(* Cancellation: requestCancel reads the run, then sets the flag.          *)

\* A call moves on; calls are per run and caller.
CancelStep(r, c, s) == cancel' = [cancel EXCEPT ![r] = [@ EXCEPT ![c] = s]]

\* A member cancels; a call that finds the run settled does nothing.
CancelByUser(r) ==
    /\ status[r] \in Live
    /\ cancel[r]["user"] # "set"
    /\ CancelStep(r, "user", "set")
    /\ UNCHANGED <<runs, log, threads, requests, pc, locals, jobs, flag>>

\* The socket of a stream closes; the handler cancels the run if it knows its id.
CloseStream(r) ==
    /\ mode[r] = "stream" /\ ~gone[r]
    /\ pc[r] \notin {"idle", "crashed"}
    /\ gone' = [gone EXCEPT ![r] = TRUE]
    /\ IF known[r] THEN CancelStep(r, "close", "read") ELSE UNCHANGED cancel
    /\ UNCHANGED <<runs, log, threads, mode, threadOf, known, pc, locals, jobs, flag>>

\* Mutant: the call of the closed stream does not look at the run's status.
CancelByCloseBlindly(r) ==
    /\ cancel[r]["close"] = "read"
    /\ CancelStep(r, "close", "set")
    /\ UNCHANGED <<runs, log, threads, requests, pc, locals, jobs, flag>>

CancelByClose(r) ==
    /\ cancel[r]["close"] = "read"
    /\ CancelStep(r, "close", IF status[r] \in Live THEN "set" ELSE "none")
    /\ UNCHANGED <<runs, log, threads, requests, pc, locals, jobs, flag>>

SetFlag(r, c) ==
    /\ cancel[r][c] = "set"
    /\ CancelStep(r, c, "done")
    /\ flag' = [flag EXCEPT ![r] = TRUE]
    /\ UNCHANGED <<runs, log, threads, requests, pc, locals, jobs>>

\* Redis refuses the flag, or the API process dies before it sends it.
DropCancel(r, c) ==
    /\ Faults \cap {"queueError", "crash"} # {}
    /\ \/ cancel[r][c] = "read" /\ CancelStep(r, c, "none")
       \/ cancel[r][c] = "set"  /\ CancelStep(r, c, "done")
    /\ UNCHANGED <<runs, log, threads, requests, pc, locals, jobs, flag>>

\* The key lives for an hour.
ExpireFlag(r) ==
    /\ flag[r]
    /\ flag' = [flag EXCEPT ![r] = FALSE]
    /\ UNCHANGED <<runs, log, threads, requests, pc, locals, jobs, cancel>>

-----------------------------------------------------------------------------
(* The environment.                                                        *)

\* DELETE /threads/:id; runs and messages of the thread go by cascade.
DeleteThread(t) ==
    /\ threads[t] = "live"
    /\ threads' = [threads EXCEPT ![t] = "deleted"]
    /\ status' = [r \in Runs |-> IF threadOf[r] = t /\ Present(r) THEN "GONE" ELSE status[r]]
    /\ log' = [r \in Runs |-> IF threadOf[r] = t THEN NoLog ELSE log[r]]
    /\ UNCHANGED <<stepCount, tokens, requests, pc, locals, jobs, cancels>>

\* A process dies: a worker slot restarts idle, a request is never answered.
Crash(p) ==
    /\ "crash" \in Faults
    /\ pc[p] \notin {"idle", "done", "rejected", "crashed"}
    /\ IF p \in Workers THEN Release(p) ELSE Goto(p, "crashed") /\ UNCHANGED locals
    /\ UNCHANGED <<runs, log, threads, requests, jobs, cancels>>

-----------------------------------------------------------------------------
Request(r) ==
    \/ \E t \in Threads : Resolve(r, t)
    \/ Reject(r) \/ Open(r) \/ OpenLost(r) \/ Announce(r)
    \/ Enqueue(r) \/ EnqueueFails(r)

Work(w) ==
    \/ Fetch(w) \/ Load(w) \/ Start(w) \/ StartLost(w) \/ FailEarly(w)
    \/ Ack(w) \/ Nack(w) \/ ResultLost(w)

Loop(p) ==
    \/ SaveInput(p) \/ Poll(p) \/ Exhaust(p)
    \/ \E n \in 0..MaxCalls : AskForTools(p, n) \/ Answer(p, n)
    \/ RunTool(p) \/ Settle(p) \/ SettleLost(p) \/ Throw(p) \/ RecordFailure(p)

\* Mutant: a job whose attempt failed is never delivered again.
OnlyStalls(r) == Stall(r)
Timers(r) == BackoffEnds(r) \/ Stall(r)

Cancelling(r) ==
    \/ CancelByClose(r)
    \/ \E c \in Callers : SetFlag(r, c) \/ DropCancel(r, c)

Next ==
    \/ \E r \in Runs : \/ \E m \in {"sync", "stream", "async"} : Submit(r, m)
                       \/ Request(r) \/ Timers(r) \/ Cancelling(r)
                       \/ CancelByUser(r) \/ CloseStream(r) \/ ExpireFlag(r)
    \/ \E w \in Workers, r \in Runs : TakeJob(w, r)
    \/ \E w \in Workers : Work(w)
    \/ \E p \in Procs : Loop(p) \/ Crash(p)
    \/ \E t \in Threads : DeleteThread(t)

Spec == Init /\ [][Next]_vars

\* The event loop runs every continuation, BullMQ delivers every waiting job
\* and looks for stalled ones on a timer.  Clients and faults are never fair.
Fairness ==
    /\ \A r \in Runs : WF_vars(Request(r)) /\ WF_vars(Timers(r)) /\ WF_vars(Cancelling(r))
    /\ \A r \in Runs : WF_vars(\E w \in Workers : TakeJob(w, r))
    /\ \A w \in Workers : WF_vars(Work(w))
    /\ \A p \in Procs : WF_vars(Loop(p))

FairSpec == Spec /\ Fairness

-----------------------------------------------------------------------------
(* Safety.                                                                 *)

Executing(p) == pc[p] \in LoopPc

\* A run is never executed by two processes at once, although its job may be
\* retried and redelivered.  (runQueued, guarded by the status alone)
OneExecutor ==
    \A p, q \in Procs : Executing(p) /\ Executing(q) /\ task[p] = task[q] => p = q

\* Retries and redeliveries never repeat the conversation: the user's input is
\* persisted at most once per run.
InputSavedOnce ==
    \A r \in Runs : log[r]["USER"] \in {0, 1}

\* The totals a run ends with agree with its messages: one completion was paid
\* for per ASSISTANT message, and stepCount counts them, plus the step in which
\* the loop saw the cancel flag.
TotalsMatchMessages ==
    \A r \in Runs : status[r] \in Verdicts =>
        /\ tokens[r] = log[r]["ASSISTANT"]
        /\ stepCount[r] = log[r]["ASSISTANT"] + (IF status[r] = "CANCELLED" THEN 1 ELSE 0)
        /\ status[r] = "TIMEOUT" => stepCount[r] = MaxSteps

\* A run that ended by a verdict of the loop leaves no tool call without its
\* TOOL message, so the thread's next run sends a well-formed history.
CallsAnswered ==
    \A r \in Runs : status[r] \in Verdicts => log[r]["TOOL"] = log[r]["CALL"]

\* However many executors, faults and repeated calls there are, a run ends
\* CANCELLED only after a cancel request that found it unfinished.
CancelledOnlyWhenAsked ==
    \A r \in Runs : status[r] = "CANCELLED" => Asked(r)

\* BullMQ reports a job completed only when its run has really ended.
CompletedJobEndedRun ==
    \A r \in Runs : jobState[r] = "completed" => status[r] \in Terminal \cup {"GONE"}

\* The run lifecycle the documentation draws, as the abstract specification.
Lifecycle == INSTANCE RunLifecycle WITH
    status <- status,
    asked  <- {r \in Runs : Asked(r)}

\* Every behaviour of the system is one of the run lifecycle: a final status
\* is never left, a run is CANCELLED only if a cancel found it unfinished.
RefinesLifecycle == Lifecycle!Spec

\* A row that is not written again, except by the cascade that deletes it.
RowStays(r) ==
    \/ status'[r] = "GONE"
    \/ /\ status'[r] = status[r]
       /\ stepCount'[r] = stepCount[r]
       /\ tokens'[r] = tokens[r]

\* Once a run has ended, its status and its totals stay, although the updates
\* name the run by its id only.
EndedRunsStay ==
    [][\A r \in Runs : status[r] \in Terminal => RowStays(r)]_vars

-----------------------------------------------------------------------------
(* Liveness.                                                               *)

\* Every run that was opened ends: by a verdict, by FAILED, or with its thread.
RunsEnd ==
    \A r \in Runs : status[r] \in Live ~> status[r] \in Terminal \cup {"GONE"}

\* Every job is finally completed or failed: retries and redeliveries stop.
JobsEnd ==
    \A r \in Runs : jobState[r] # "none" ~> jobState[r] \in {"completed", "failed"}

-----------------------------------------------------------------------------
(* What a comment of the source says, and the code does not do.            *)

\* A queued run that was cancelled before a worker picked it up is skipped.
\* (runs.service.ts:149)
CancelledBeforePickupIsSkipped ==
    [][\A w \in Workers : pc[w] = "fetch" /\ flag[task[w]] => pc'[w] # "load"]_vars
=============================================================================
