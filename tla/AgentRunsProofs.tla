--------------------------- MODULE AgentRunsProofs ---------------------------
(***************************************************************************)
(* Theorems about AgentRuns for any number of runs, threads and workers,   *)
(* any maxSteps, and any set of faults the theorem does not exclude: who   *)
(* executes a run, and what that leaves behind, the messages and totals of *)
(* its loop and a status column that obeys RunLifecycle.  The invariants   *)
(* are those of AgentRunsInvariants, and Tended below.                     *)
(***************************************************************************)
EXTENDS AgentRunsInvariants, TLAPS

USE NoneAssumption, DisjointAssumption, BoundsAssumption, FaultsAssumption

-----------------------------------------------------------------------------
(* Type correctness, whatever faults happen.                               *)

\* A worker that lets go of its job leaves well-typed locals behind.
LEMMA ReleaseType ==
  ASSUME TypeOK, NEW w \in Workers, Release(w)
  PROVE  /\ pc' \in [Procs -> Pcs]
         /\ task' \in [Procs -> Runs \cup {None}]
         /\ step' \in [Procs -> 0..MaxSteps]
         /\ spent' \in [Procs -> Nat]
         /\ calls' \in [Procs -> 0..MaxCalls]
         /\ verdict' \in [Procs -> Verdicts]
<1>1. pc' \in [Procs -> Pcs] /\ task' \in [Procs -> Runs \cup {None}]
  BY DEF Release, Goto, TypeOK, Queue!TypeOK, Pcs, RequestPc
<1>2. 0 \in 0..MaxSteps /\ 0 \in 0..MaxCalls
  OBVIOUS
<1>3. step' \in [Procs -> 0..MaxSteps] /\ spent' \in [Procs -> Nat] /\ calls' \in [Procs -> 0..MaxCalls]
  BY <1>2 DEF Release, TypeOK, Queue!TypeOK
<1>4. verdict' \in [Procs -> Verdicts]
  BY DEF Release, TypeOK, Queue!TypeOK, Verdicts
<1> QED BY <1>1, <1>2, <1>3, <1>4

\* A requestCancel call moves from one of its points to another.
LEMMA CancelStepType ==
  ASSUME TypeOK, NEW r \in Runs, NEW c \in Callers, NEW s \in CancelPcs,
         CancelStep(r, c, s)
  PROVE  cancel' \in [Runs -> [Callers -> CancelPcs]]
  BY DEF TypeOK, Queue!TypeOK, CancelStep

\* An answer adds one message and its tool calls to the counts of its run.
LEMMA SaveAnswerType ==
  ASSUME TypeOK, ProcsSound, NEW p \in Procs, NEW n \in 0..MaxCalls, SaveAnswer(p, n)
  PROVE  /\ log' \in [Runs -> [Rows -> Nat]]
         /\ spent' \in [Procs -> Nat]
<1> DEFINE l == [log[task[p]] EXCEPT !["ASSISTANT"] = log[task[p]]["ASSISTANT"] + 1,
                                     !["CALL"] = log[task[p]]["CALL"] + n]
<1>1. task[p] \in Runs
  BY DEF SaveAnswer, ProcsSound
<1>2. log[task[p]] \in [Rows -> Nat] /\ "ASSISTANT" \in Rows /\ "CALL" \in Rows
  BY <1>1 DEF TypeOK, Queue!TypeOK, Rows
<1>3. l \in [Rows -> Nat]
  BY <1>2
<1>4. log' = [log EXCEPT ![task[p]] = l] /\ log \in [Runs -> [Rows -> Nat]]
  BY DEF SaveAnswer, TypeOK, Queue!TypeOK
<1>5. spent' \in [Procs -> Nat]
  BY DEF SaveAnswer, TypeOK, Queue!TypeOK
<1> HIDE DEF l
<1> QED BY <1>1, <1>3, <1>4, <1>5

\* The initial values have their types; no process and no job exists yet.
LEMMA SoundInit == Init => Sound
<1> SUFFICES ASSUME Init PROVE Sound
  OBVIOUS
<1> USE DEF Init, Queue!Init
<1>1. TypeOK
  <2>1. log \in [Runs -> [Rows -> Nat]]
    BY DEF NoLog
  <2>2. cancel \in [Runs -> [Callers -> CancelPcs]]
    BY DEF CancelPcs
  <2>3. task \in [Procs -> Runs \cup {None}]
    OBVIOUS
  <2>4. step \in [Procs -> 0..MaxSteps] /\ calls \in [Procs -> 0..MaxCalls]
    OBVIOUS
  <2>5. verdict \in [Procs -> Verdicts]
    BY DEF Verdicts
  <2>6. failures \in [Runs -> 0..Queue!Attempts] /\ stalls \in [Runs -> 0..Queue!MaxStalls]
    BY DEF Queue!Attempts, Queue!MaxStalls
  <2> QED
    BY <2>1, <2>2, <2>3, <2>4, <2>5, <2>6
    DEF TypeOK, Queue!TypeOK, Statuses, Pcs, RequestPc, Queue!JobStates
<1>2. ProcsSound
  BY DEF ProcsSound, Procs
<1>3. JobsSound
  BY DEF JobsSound, Procs, Queue!Attempts
<1> QED BY <1>1, <1>2, <1>3 DEF Sound

\* Every step preserves the types and what processes and jobs rely on.
LEMMA SoundStep ==
  ASSUME Sound, [Next]_vars
  PROVE  Sound'
<1> USE DEF Sound, Goto, runs, requests, locals, jobs, cancels, Procs, Pcs,
            LoopPc, RequestPc, WorkerPc
<1>1. ASSUME NEW r \in Runs, NEW m \in {"sync", "stream", "async"}, Submit(r, m)
      PROVE  Sound'
  <2>1. TypeOK'
    BY <1>1 DEF Submit, TypeOK, Queue!TypeOK
  <2>2. ProcsSound'
    BY <1>1 DEF Submit, TypeOK, Queue!TypeOK, ProcsSound
  <2>3. JobsSound'
    BY <1>1 DEF Submit, TypeOK, Queue!TypeOK, ProcsSound, JobsSound
  <2> QED BY <2>1, <2>2, <2>3
<1>2. ASSUME NEW r \in Runs, NEW t \in Threads, Resolve(r, t)
      PROVE  Sound'
  <2>1. TypeOK'
    BY <1>2 DEF Resolve, TypeOK, Queue!TypeOK
  <2>2. ProcsSound'
    BY <1>2 DEF Resolve, TypeOK, Queue!TypeOK, ProcsSound
  <2>3. JobsSound'
    BY <1>2 DEF Resolve, TypeOK, Queue!TypeOK, ProcsSound, JobsSound
  <2> QED BY <2>1, <2>2, <2>3
<1>3. ASSUME NEW r \in Runs, Reject(r)
      PROVE  Sound'
  <2>1. TypeOK'
    BY <1>3 DEF Reject, TypeOK, Queue!TypeOK
  <2>2. ProcsSound'
    BY <1>3 DEF Reject, TypeOK, Queue!TypeOK, ProcsSound
  <2>3. JobsSound'
    BY <1>3 DEF Reject, TypeOK, Queue!TypeOK, ProcsSound, JobsSound
  <2> QED BY <2>1, <2>2, <2>3
<1>4. ASSUME NEW r \in Runs, Open(r)
      PROVE  Sound'
  <2>1. TypeOK'
    BY <1>4 DEF Open, InsertRow, TypeOK, Queue!TypeOK, Statuses, Live
  <2>2. ProcsSound'
    BY <1>4 DEF Open, InsertRow, TypeOK, Queue!TypeOK, ProcsSound
  <2>3. JobsSound'
    BY <1>4 DEF Open, InsertRow, TypeOK, Queue!TypeOK, ProcsSound, JobsSound
  <2> QED BY <2>1, <2>2, <2>3
<1>5. ASSUME NEW r \in Runs, OpenLost(r)
      PROVE  Sound'
  <2>1. TypeOK'
    BY <1>5 DEF OpenLost, InsertRow, TypeOK, Queue!TypeOK, Statuses, Live
  <2>2. ProcsSound'
    BY <1>5 DEF OpenLost, InsertRow, TypeOK, Queue!TypeOK, ProcsSound
  <2>3. JobsSound'
    BY <1>5 DEF OpenLost, InsertRow, TypeOK, Queue!TypeOK, ProcsSound, JobsSound
  <2> QED BY <2>1, <2>2, <2>3
<1>6. ASSUME NEW r \in Runs, Announce(r)
      PROVE  Sound'
  <2>1. TypeOK'
    BY <1>6 DEF Announce, TypeOK, Queue!TypeOK
  <2>2. ProcsSound'
    BY <1>6 DEF Announce, TypeOK, Queue!TypeOK, ProcsSound
  <2>3. JobsSound'
    BY <1>6 DEF Announce, TypeOK, Queue!TypeOK, ProcsSound, JobsSound
  <2> QED BY <2>1, <2>2, <2>3
<1>7. ASSUME NEW r \in Runs, Enqueue(r)
      PROVE  Sound'
  <2>1. TypeOK'
    BY <1>7 DEF Enqueue, Queue!Add, TypeOK, Queue!TypeOK, Queue!JobStates
  <2>2. ProcsSound'
    BY <1>7 DEF Enqueue, Queue!Add, TypeOK, Queue!TypeOK, ProcsSound
  <2>3. JobsSound'
    BY <1>7
    DEF Enqueue, Queue!Add, TypeOK, Queue!TypeOK, ProcsSound, JobsSound, Queue!Attempts
  <2> QED BY <2>1, <2>2, <2>3
<1>8. ASSUME NEW r \in Runs, EnqueueFails(r)
      PROVE  Sound'
  <2>1. TypeOK'
    BY <1>8 DEF EnqueueFails, TypeOK, Queue!TypeOK
  <2>2. ProcsSound'
    BY <1>8 DEF EnqueueFails, TypeOK, Queue!TypeOK, ProcsSound
  <2>3. JobsSound'
    BY <1>8 DEF EnqueueFails, TypeOK, Queue!TypeOK, ProcsSound, JobsSound
  <2> QED BY <2>1, <2>2, <2>3
<1>9. ASSUME NEW w \in Workers, NEW r \in Runs, TakeJob(w, r)
      PROVE  Sound'
  <2>1. TypeOK'
    BY <1>9 DEF TakeJob, Queue!Take, TypeOK, Queue!TypeOK, Queue!JobStates
  <2>2. ProcsSound'
    BY <1>9 DEF TakeJob, Queue!Take, TypeOK, Queue!TypeOK, ProcsSound
  <2>3. JobsSound'
    BY <1>9
    DEF TakeJob, Queue!Take, TypeOK, Queue!TypeOK, ProcsSound, JobsSound, Queue!Attempts
  <2> QED BY <2>1, <2>2, <2>3
<1>10. ASSUME NEW w \in Workers, Fetch(w)
       PROVE  Sound'
  <2>1. TypeOK'
    BY <1>10 DEF Fetch, TakesUp, TypeOK, Queue!TypeOK
  <2>2. ProcsSound'
    BY <1>10 DEF Fetch, TakesUp, TypeOK, Queue!TypeOK, ProcsSound
  <2>3. JobsSound'
    BY <1>10 DEF Fetch, TakesUp, TypeOK, Queue!TypeOK, ProcsSound, JobsSound
  <2> QED BY <2>1, <2>2, <2>3
<1>11. ASSUME NEW w \in Workers, Load(w)
       PROVE  Sound'
  <2>1. TypeOK'
    BY <1>11 DEF Load, TypeOK, Queue!TypeOK
  <2>2. ProcsSound'
    BY <1>11 DEF Load, TypeOK, Queue!TypeOK, ProcsSound
  <2>3. JobsSound'
    BY <1>11 DEF Load, TypeOK, Queue!TypeOK, ProcsSound, JobsSound
  <2> QED BY <2>1, <2>2, <2>3
<1>12. ASSUME NEW w \in Workers, Start(w)
       PROVE  Sound'
  <2>1. TypeOK'
    BY <1>12 DEF Start, MarkInProgress, TypeOK, Queue!TypeOK, Statuses, Live
  <2>2. ProcsSound'
    BY <1>12 DEF Start, MarkInProgress, TypeOK, Queue!TypeOK, ProcsSound
  <2>3. JobsSound'
    BY <1>12 DEF Start, MarkInProgress, TypeOK, Queue!TypeOK, ProcsSound, JobsSound
  <2> QED BY <2>1, <2>2, <2>3
<1>13. ASSUME NEW w \in Workers, StartLost(w)
       PROVE  Sound'
  <2>1. TypeOK'
    BY <1>13 DEF StartLost, MarkInProgress, TypeOK, Queue!TypeOK, Statuses, Live
  <2>2. ProcsSound'
    BY <1>13 DEF StartLost, MarkInProgress, TypeOK, Queue!TypeOK, ProcsSound
  <2>3. JobsSound'
    BY <1>13 DEF StartLost, MarkInProgress, TypeOK, Queue!TypeOK, ProcsSound, JobsSound
  <2> QED BY <2>1, <2>2, <2>3
<1>14. ASSUME NEW w \in Workers, FailEarly(w)
       PROVE  Sound'
  <2>1. TypeOK'
    BY <1>14 DEF FailEarly, TypeOK, Queue!TypeOK
  <2>2. ProcsSound'
    BY <1>14 DEF FailEarly, TypeOK, Queue!TypeOK, ProcsSound
  <2>3. JobsSound'
    BY <1>14 DEF FailEarly, TypeOK, Queue!TypeOK, ProcsSound, JobsSound
  <2> QED BY <2>1, <2>2, <2>3
<1>15. ASSUME NEW w \in Workers, Ack(w)
       PROVE  Sound'
  <2>1. TypeOK'
    <3>1. jobState' \in [Runs -> Queue!JobStates] /\ owner' \in [Runs -> Workers \cup {None}]
      BY <1>15
      DEF Ack, Queue!Complete, Queue!jobs, TypeOK, Queue!TypeOK, Queue!JobStates
    <3> QED BY <1>15, <3>1, ReleaseType
            DEF Ack, Queue!Complete, Queue!jobs, TypeOK, Queue!TypeOK
  <2>2. ProcsSound'
    BY <1>15 DEF Ack, Queue!Complete, Queue!Owns, Queue!jobs, Release, TypeOK,
       Queue!TypeOK, ProcsSound
  <2>3. JobsSound'
    BY <1>15 DEF Ack, Queue!Complete, Queue!Owns, Queue!jobs, Release, TypeOK,
       Queue!TypeOK, ProcsSound, JobsSound, Queue!Attempts
  <2> QED BY <2>1, <2>2, <2>3
<1>16. ASSUME NEW w \in Workers, Nack(w)
       PROVE  Sound'
  <2>1. TypeOK'
    <3>1. ASSUME Queue!Owns(w, task[w])
          PROVE  /\ jobState' \in [Runs -> Queue!JobStates] /\ owner' \in [Runs -> Workers \cup {None}]
                 /\ failures' \in [Runs -> 0..Queue!Attempts]
      <4>1. task[w] \in Runs
        BY <1>16 DEF Nack, Queue!Fail, Queue!jobs, ProcsSound
      <4>2. failures[task[w]] \in 0..Queue!Attempts /\ failures[task[w]] < Queue!Attempts
        BY <3>1, <4>1 DEF Queue!Owns, TypeOK, Queue!TypeOK, JobsSound
      <4>3. failures[task[w]] + 1 \in 0..Queue!Attempts
        BY <4>2 DEF Queue!Attempts
      <4>4. failures' \in [Runs -> 0..Queue!Attempts]
        BY <1>16, <3>1, <4>3 DEF Nack, Queue!Fail, Queue!jobs, TypeOK, Queue!TypeOK
      <4>5. jobState' \in [Runs -> Queue!JobStates] /\ owner' \in [Runs -> Workers \cup {None}]
        BY <1>16, <3>1
        DEF Nack, Queue!Fail, Queue!jobs, TypeOK, Queue!TypeOK, Queue!JobStates
      <4> QED BY <4>4, <4>5
    <3>2. ASSUME ~Queue!Owns(w, task[w]) PROVE UNCHANGED <<failures, jobState, owner>>
      BY <1>16, <3>2 DEF Nack, Queue!Fail, Queue!jobs
    <3> QED BY <1>16, <3>1, <3>2, ReleaseType
            DEF Nack, Queue!Fail, Queue!jobs, TypeOK, Queue!TypeOK
  <2>2. ProcsSound'
    BY <1>16 DEF Nack, Queue!Fail, Queue!Owns, Queue!jobs, Release, TypeOK,
       Queue!TypeOK, ProcsSound
  <2>3. JobsSound'
    BY <1>16 DEF Nack, Queue!Fail, Queue!Owns, Queue!jobs, Release, TypeOK,
       Queue!TypeOK, ProcsSound, JobsSound, Queue!Attempts
  <2> QED BY <2>1, <2>2, <2>3
<1>17. ASSUME NEW w \in Workers, ResultLost(w)
       PROVE  Sound'
  <2>1. TypeOK'
    BY <1>17, ReleaseType DEF ResultLost, TypeOK, Queue!TypeOK
  <2>2. ProcsSound'
    BY <1>17 DEF ResultLost, Release, TypeOK, Queue!TypeOK, ProcsSound
  <2>3. JobsSound'
    BY <1>17 DEF ResultLost, Release, TypeOK, Queue!TypeOK, ProcsSound, JobsSound
  <2> QED BY <2>1, <2>2, <2>3
<1>18. ASSUME NEW r \in Runs, BackoffEnds(r)
       PROVE  Sound'
  <2>1. TypeOK'
    BY <1>18 DEF BackoffEnds, Queue!BackoffEnds, TypeOK, Queue!TypeOK, Queue!JobStates
  <2>2. ProcsSound'
    BY <1>18 DEF BackoffEnds, Queue!BackoffEnds, TypeOK, Queue!TypeOK, ProcsSound
  <2>3. JobsSound'
    BY <1>18 DEF BackoffEnds, Queue!BackoffEnds, TypeOK, Queue!TypeOK, ProcsSound,
       JobsSound, Queue!Attempts
  <2> QED BY <2>1, <2>2, <2>3
<1>19. ASSUME NEW r \in Runs, Stall(r)
       PROVE  Sound'
  <2>1. TypeOK'
    <3>1. CASE stalls[r] < Queue!MaxStalls
      <4>1. stalls[r] \in 0..1 /\ stalls[r] < 1
        BY <3>1 DEF TypeOK, Queue!TypeOK, Queue!MaxStalls
      <4>2. stalls' = [stalls EXCEPT ![r] = stalls[r] + 1] /\ stalls[r] + 1 \in 0..Queue!MaxStalls
        BY <1>19, <3>1, <4>1 DEF Stall, Queue!Stall, Queue!Redelivers, Queue!MaxStalls
      <4>3. stalls' \in [Runs -> 0..Queue!MaxStalls]
        BY <4>2 DEF TypeOK, Queue!TypeOK
      <4>4. jobState' = [jobState EXCEPT ![r] = "waiting"]
        BY <1>19, <3>1 DEF Stall, Queue!Stall, Queue!Redelivers
      <4> QED BY <1>19, <4>3, <4>4
              DEF Stall, Queue!Stall, TypeOK, Queue!TypeOK, Queue!JobStates
    <3>2. CASE ~(stalls[r] < Queue!MaxStalls)
      BY <1>19, <3>2
      DEF Stall, Queue!Stall, Queue!Redelivers, TypeOK, Queue!TypeOK, Queue!JobStates
    <3> QED BY <3>1, <3>2
  <2>2. ProcsSound'
    BY <1>19 DEF Stall, Queue!Stall, Queue!Redelivers, TypeOK, Queue!TypeOK, ProcsSound
  <2>3. JobsSound'
    BY <1>19 DEF Stall, Queue!Stall, Queue!Redelivers, TypeOK, Queue!TypeOK,
       ProcsSound, JobsSound, Queue!Attempts
  <2> QED BY <2>1, <2>2, <2>3
<1>20. ASSUME NEW p \in Procs, SaveInput(p)
       PROVE  Sound'
  <2>1. TypeOK'
    <3>1. log' \in [Runs -> [Rows -> Nat]]
      BY <1>20 DEF SaveInput, AddRows, TypeOK, Queue!TypeOK, Rows, ProcsSound
    <3> QED BY <1>20, <3>1 DEF SaveInput, TypeOK, Queue!TypeOK
  <2>2. ProcsSound'
    BY <1>20 DEF SaveInput, AddRows, TypeOK, Queue!TypeOK, ProcsSound
  <2>3. JobsSound'
    BY <1>20 DEF SaveInput, AddRows, TypeOK, Queue!TypeOK, ProcsSound, JobsSound
  <2> QED BY <2>1, <2>2, <2>3
<1>21. ASSUME NEW p \in Procs, Poll(p)
       PROVE  Sound'
  <2>1. TypeOK'
    <3>1. step' \in [Procs -> 0..MaxSteps]
      BY <1>21 DEF Poll, TypeOK, Queue!TypeOK
    <3>2. pc' \in [Procs -> Pcs] /\ verdict' \in [Procs -> Verdicts]
      <4>1. CASE EndLoop(p, "CANCELLED")
        BY <4>1 DEF TypeOK, Queue!TypeOK, EndLoop, Verdicts
      <4>2. CASE Goto(p, "llm") /\ UNCHANGED verdict
        BY <4>2 DEF TypeOK, Queue!TypeOK
      <4> QED BY <1>21, <4>1, <4>2 DEF Poll
    <3> QED BY <1>21, <3>1, <3>2 DEF Poll, TypeOK, Queue!TypeOK
  <2>2. ProcsSound'
    BY <1>21 DEF Poll, EndLoop, TypeOK, Queue!TypeOK, ProcsSound
  <2>3. JobsSound'
    BY <1>21 DEF Poll, EndLoop, TypeOK, Queue!TypeOK, ProcsSound, JobsSound
  <2> QED BY <2>1, <2>2, <2>3
<1>22. ASSUME NEW p \in Procs, Exhaust(p)
       PROVE  Sound'
  <2>1. TypeOK'
    BY <1>22 DEF Exhaust, EndLoop, TypeOK, Queue!TypeOK, Verdicts
  <2>2. ProcsSound'
    BY <1>22 DEF Exhaust, EndLoop, TypeOK, Queue!TypeOK, ProcsSound
  <2>3. JobsSound'
    BY <1>22 DEF Exhaust, EndLoop, TypeOK, Queue!TypeOK, ProcsSound, JobsSound
  <2> QED BY <2>1, <2>2, <2>3
<1>23. ASSUME NEW p \in Procs, NEW n \in 0..MaxCalls, AskForTools(p, n)
       PROVE  Sound'
  <2>1. TypeOK'
    BY <1>23, SaveAnswerType DEF AskForTools, SaveAnswer, TypeOK, Queue!TypeOK
  <2>2. ProcsSound'
    BY <1>23 DEF AskForTools, SaveAnswer, TypeOK, Queue!TypeOK, ProcsSound
  <2>3. JobsSound'
    BY <1>23 DEF AskForTools, SaveAnswer, TypeOK, Queue!TypeOK, ProcsSound, JobsSound
  <2> QED BY <2>1, <2>2, <2>3
<1>24. ASSUME NEW p \in Procs, NEW n \in 0..MaxCalls, Answer(p, n)
       PROVE  Sound'
  <2>1. TypeOK'
    BY <1>24, SaveAnswerType
    DEF Answer, SaveAnswer, EndLoop, TypeOK, Queue!TypeOK, Verdicts
  <2>2. ProcsSound'
    BY <1>24 DEF Answer, SaveAnswer, EndLoop, TypeOK, Queue!TypeOK, ProcsSound
  <2>3. JobsSound'
    BY <1>24
    DEF Answer, SaveAnswer, EndLoop, TypeOK, Queue!TypeOK, ProcsSound, JobsSound
  <2> QED BY <2>1, <2>2, <2>3
<1>25. ASSUME NEW p \in Procs, RunTool(p)
       PROVE  Sound'
  <2>1. TypeOK'
    <3>1. log' \in [Runs -> [Rows -> Nat]]
      BY <1>25 DEF RunTool, AddRows, TypeOK, Queue!TypeOK, Rows, ProcsSound
    <3>2. calls' \in [Procs -> 0..MaxCalls]
      BY <1>25 DEF RunTool, TypeOK, Queue!TypeOK, ProcsSound
    <3> QED BY <1>25, <3>1, <3>2 DEF RunTool, AfterTool, TypeOK, Queue!TypeOK
  <2>2. ProcsSound'
    BY <1>25 DEF RunTool, AddRows, AfterTool, TypeOK, Queue!TypeOK, ProcsSound
  <2>3. JobsSound'
    BY <1>25
    DEF RunTool, AddRows, AfterTool, TypeOK, Queue!TypeOK, ProcsSound, JobsSound
  <2> QED BY <2>1, <2>2, <2>3
<1>26. ASSUME NEW p \in Procs, Settle(p)
       PROVE  Sound'
  <2>1. TypeOK'
    BY <1>26 DEF Settle, WriteVerdict, TypeOK, Queue!TypeOK, ProcsSound, Statuses,
       Terminal, Verdicts
  <2>2. ProcsSound'
    BY <1>26 DEF Settle, WriteVerdict, TypeOK, Queue!TypeOK, ProcsSound
  <2>3. JobsSound'
    BY <1>26 DEF Settle, WriteVerdict, TypeOK, Queue!TypeOK, ProcsSound, JobsSound
  <2> QED BY <2>1, <2>2, <2>3
<1>27. ASSUME NEW p \in Procs, SettleLost(p)
       PROVE  Sound'
  <2>1. TypeOK'
    BY <1>27 DEF SettleLost, WriteVerdict, TypeOK, Queue!TypeOK, ProcsSound, Statuses,
       Terminal, Verdicts
  <2>2. ProcsSound'
    BY <1>27 DEF SettleLost, WriteVerdict, TypeOK, Queue!TypeOK, ProcsSound
  <2>3. JobsSound'
    BY <1>27 DEF SettleLost, WriteVerdict, TypeOK, Queue!TypeOK, ProcsSound, JobsSound
  <2> QED BY <2>1, <2>2, <2>3
<1>28. ASSUME NEW p \in Procs, Throw(p)
       PROVE  Sound'
  <2>1. TypeOK'
    BY <1>28 DEF Throw, TypeOK, Queue!TypeOK
  <2>2. ProcsSound'
    BY <1>28 DEF Throw, TypeOK, Queue!TypeOK, ProcsSound
  <2>3. JobsSound'
    BY <1>28 DEF Throw, TypeOK, Queue!TypeOK, ProcsSound, JobsSound
  <2> QED BY <2>1, <2>2, <2>3
<1>29. ASSUME NEW p \in Procs, RecordFailure(p)
       PROVE  Sound'
  <2>1. TypeOK'
    <3>1. status' \in [Runs -> Statuses]
      BY <1>29 DEF RecordFailure, TypeOK, Queue!TypeOK, Statuses, Terminal
    <3> QED BY <1>29, <3>1 DEF RecordFailure, TypeOK, Queue!TypeOK
  <2>2. ProcsSound'
    BY <1>29 DEF RecordFailure, TypeOK, Queue!TypeOK, ProcsSound
  <2>3. JobsSound'
    BY <1>29 DEF RecordFailure, TypeOK, Queue!TypeOK, ProcsSound, JobsSound
  <2> QED BY <2>1, <2>2, <2>3
<1>30. ASSUME NEW r \in Runs, CancelByUser(r)
       PROVE  Sound'
  <2>1. TypeOK'
    <3>1. cancel' \in [Runs -> [Callers -> CancelPcs]]
      BY <1>30, CancelStepType DEF CancelByUser, Callers, CancelPcs
    <3> QED BY <1>30, <3>1 DEF CancelByUser, TypeOK, Queue!TypeOK
  <2>2. ProcsSound'
    BY <1>30 DEF CancelByUser, CancelStep, TypeOK, Queue!TypeOK, ProcsSound
  <2>3. JobsSound'
    BY <1>30 DEF CancelByUser, CancelStep, TypeOK, Queue!TypeOK, ProcsSound, JobsSound
  <2> QED BY <2>1, <2>2, <2>3
<1>31. ASSUME NEW r \in Runs, CloseStream(r)
       PROVE  Sound'
  <2>1. TypeOK'
    <3>1. cancel' \in [Runs -> [Callers -> CancelPcs]]
      <4>1. CASE CancelStep(r, "close", "read")
        BY <4>1, CancelStepType DEF Callers, CancelPcs
      <4>2. CASE UNCHANGED cancel
        BY <4>2 DEF TypeOK, Queue!TypeOK
      <4> QED BY <1>31, <4>1, <4>2 DEF CloseStream
    <3> QED BY <1>31, <3>1 DEF CloseStream, TypeOK, Queue!TypeOK
  <2>2. ProcsSound'
    BY <1>31 DEF CloseStream, CancelStep, TypeOK, Queue!TypeOK, ProcsSound
  <2>3. JobsSound'
    BY <1>31 DEF CloseStream, CancelStep, TypeOK, Queue!TypeOK, ProcsSound, JobsSound
  <2> QED BY <2>1, <2>2, <2>3
<1>32. ASSUME NEW r \in Runs, CancelByClose(r)
       PROVE  Sound'
  <2>1. TypeOK'
    <3>1. cancel' \in [Runs -> [Callers -> CancelPcs]]
      BY <1>32, CancelStepType DEF CancelByClose, Callers, CancelPcs
    <3> QED BY <1>32, <3>1 DEF CancelByClose, TypeOK, Queue!TypeOK
  <2>2. ProcsSound'
    BY <1>32 DEF CancelByClose, CancelStep, TypeOK, Queue!TypeOK, ProcsSound
  <2>3. JobsSound'
    BY <1>32 DEF CancelByClose, CancelStep, TypeOK, Queue!TypeOK, ProcsSound, JobsSound
  <2> QED BY <2>1, <2>2, <2>3
<1>33. ASSUME NEW r \in Runs, NEW c \in Callers, SetFlag(r, c)
       PROVE  Sound'
  <2>1. TypeOK'
    <3>1. cancel' \in [Runs -> [Callers -> CancelPcs]]
      BY <1>33, CancelStepType DEF SetFlag, Callers, CancelPcs
    <3> QED BY <1>33, <3>1 DEF SetFlag, TypeOK, Queue!TypeOK
  <2>2. ProcsSound'
    BY <1>33 DEF SetFlag, CancelStep, TypeOK, Queue!TypeOK, ProcsSound
  <2>3. JobsSound'
    BY <1>33 DEF SetFlag, CancelStep, TypeOK, Queue!TypeOK, ProcsSound, JobsSound
  <2> QED BY <2>1, <2>2, <2>3
<1>34. ASSUME NEW r \in Runs, NEW c \in Callers, DropCancel(r, c)
       PROVE  Sound'
  <2>1. TypeOK'
    <3>1. cancel' \in [Runs -> [Callers -> CancelPcs]]
      BY <1>34, CancelStepType DEF DropCancel, CancelPcs
    <3> QED BY <1>34, <3>1 DEF DropCancel, TypeOK, Queue!TypeOK
  <2>2. ProcsSound'
    BY <1>34 DEF DropCancel, CancelStep, TypeOK, Queue!TypeOK, ProcsSound
  <2>3. JobsSound'
    BY <1>34 DEF DropCancel, CancelStep, TypeOK, Queue!TypeOK, ProcsSound, JobsSound
  <2> QED BY <2>1, <2>2, <2>3
<1>35. ASSUME NEW r \in Runs, ExpireFlag(r)
       PROVE  Sound'
  <2>1. TypeOK'
    BY <1>35 DEF ExpireFlag, TypeOK, Queue!TypeOK
  <2>2. ProcsSound'
    BY <1>35 DEF ExpireFlag, TypeOK, Queue!TypeOK, ProcsSound
  <2>3. JobsSound'
    BY <1>35 DEF ExpireFlag, TypeOK, Queue!TypeOK, ProcsSound, JobsSound
  <2> QED BY <2>1, <2>2, <2>3
<1>36. ASSUME NEW t \in Threads, DeleteThread(t)
       PROVE  Sound'
  <2>1. TypeOK'
    BY <1>36 DEF DeleteThread, TypeOK, Queue!TypeOK, Statuses, NoLog
  <2>2. ProcsSound'
    BY <1>36 DEF DeleteThread, TypeOK, Queue!TypeOK, ProcsSound
  <2>3. JobsSound'
    BY <1>36 DEF DeleteThread, TypeOK, Queue!TypeOK, ProcsSound, JobsSound
  <2> QED BY <2>1, <2>2, <2>3
<1>37. ASSUME NEW p \in Procs, Crash(p)
       PROVE  Sound'
  <2>1. TypeOK'
    <3>1. CASE p \in Workers
      BY <1>37, <3>1, ReleaseType DEF Crash, TypeOK, Queue!TypeOK
    <3>2. CASE p \notin Workers
      BY <1>37, <3>2 DEF Crash, TypeOK, Queue!TypeOK
    <3> QED BY <3>1, <3>2
  <2>2. ProcsSound'
    <3>1. CASE p \in Workers
      <4>1. /\ pc'[p] = "idle" /\ task'[p] = None /\ p \notin Runs
            /\ \A q \in Procs : q # p => pc'[q] = pc[q] /\ task'[q] = task[q] /\ calls'[q] = calls[q]
        BY <1>37, <3>1 DEF Crash, Release, TypeOK, Queue!TypeOK
      <4> QED BY <4>1 DEF ProcsSound
    <3>2. CASE p \notin Workers
      BY <1>37, <3>2 DEF Crash, TypeOK, Queue!TypeOK, ProcsSound
    <3> QED BY <3>1, <3>2
  <2>3. JobsSound'
    BY <1>37 DEF Crash, Release, TypeOK, Queue!TypeOK, ProcsSound, JobsSound
  <2> QED BY <2>1, <2>2, <2>3
<1>38. ASSUME UNCHANGED vars PROVE Sound'
  BY <1>38 DEF vars, TypeOK, Queue!TypeOK, ProcsSound, JobsSound
<1> QED
  BY <1>1, <1>2, <1>3, <1>4, <1>5, <1>6, <1>7, <1>8, <1>9, <1>10, <1>11, <1>12, <1>13,
     <1>14, <1>15, <1>16, <1>17, <1>18, <1>19, <1>20, <1>21, <1>22, <1>23, <1>24,
     <1>25, <1>26, <1>27, <1>28, <1>29, <1>30, <1>31, <1>32, <1>33, <1>34, <1>35,
     <1>36, <1>37, <1>38
  DEF Next, Request, Work, Loop, Timers, Cancelling

\* Every variable keeps its type in every behaviour, whatever faults happen:
\* in particular no job is tried more than Attempts times or redelivered more
\* than MaxStalls times, and no loop takes more than maxSteps steps.
THEOREM TypesCorrect == Spec => []TypeOK
<1>1. Init => Sound
  BY SoundInit
<1>2. Sound /\ [Next]_vars => Sound'
  BY SoundStep
<1>3. Sound => TypeOK
  BY DEF Sound
<1> QED BY <1>1, <1>2, <1>3, PTL DEF Spec

-----------------------------------------------------------------------------
(* Cancellation, whatever faults happen.                                   *)

\* A request that was asked for stays asked for, so what it justified stays
\* justified.
LEMMA CancelJustifiedStep ==
  ASSUME Sound, CancelJustified, [Next]_vars
  PROVE  CancelJustified'
<1> USE DEF Sound, TypeOK, Queue!TypeOK, Goto, runs, requests, locals, jobs, cancels,
       Procs
<1>1. ASSUME NEW r \in Runs, NEW m \in {"sync", "stream", "async"}, Submit(r, m)
      PROVE  CancelJustified'
  BY <1>1 DEF Submit, CancelJustified, ProcsSound, Asked
<1>2. ASSUME NEW r \in Runs, NEW t \in Threads, Resolve(r, t)
      PROVE  CancelJustified'
  BY <1>2 DEF Resolve, CancelJustified, ProcsSound, Asked
<1>3. ASSUME NEW r \in Runs, Reject(r)
      PROVE  CancelJustified'
  BY <1>3 DEF Reject, CancelJustified, ProcsSound, Asked
<1>4. ASSUME NEW r \in Runs, Open(r)
      PROVE  CancelJustified'
  BY <1>4 DEF Open, InsertRow, CancelJustified, ProcsSound, Asked
<1>5. ASSUME NEW r \in Runs, OpenLost(r)
      PROVE  CancelJustified'
  BY <1>5 DEF OpenLost, InsertRow, CancelJustified, ProcsSound, Asked
<1>6. ASSUME NEW r \in Runs, Announce(r)
      PROVE  CancelJustified'
  BY <1>6 DEF Announce, CancelJustified, ProcsSound, Asked
<1>7. ASSUME NEW r \in Runs, Enqueue(r)
      PROVE  CancelJustified'
  BY <1>7 DEF Enqueue, Queue!Add, CancelJustified, ProcsSound, Asked
<1>8. ASSUME NEW r \in Runs, EnqueueFails(r)
      PROVE  CancelJustified'
  BY <1>8 DEF EnqueueFails, CancelJustified, ProcsSound, Asked
<1>9. ASSUME NEW w \in Workers, NEW r \in Runs, TakeJob(w, r)
      PROVE  CancelJustified'
  BY <1>9 DEF TakeJob, Queue!Take, CancelJustified, ProcsSound, Asked
<1>10. ASSUME NEW w \in Workers, Fetch(w)
       PROVE  CancelJustified'
  BY <1>10 DEF Fetch, TakesUp, CancelJustified, ProcsSound, Asked
<1>11. ASSUME NEW w \in Workers, Load(w)
       PROVE  CancelJustified'
  BY <1>11 DEF Load, CancelJustified, ProcsSound, Asked
<1>12. ASSUME NEW w \in Workers, Start(w)
       PROVE  CancelJustified'
  BY <1>12 DEF Start, MarkInProgress, CancelJustified, ProcsSound, Asked
<1>13. ASSUME NEW w \in Workers, StartLost(w)
       PROVE  CancelJustified'
  BY <1>13 DEF StartLost, MarkInProgress, CancelJustified, ProcsSound, Asked
<1>14. ASSUME NEW w \in Workers, FailEarly(w)
       PROVE  CancelJustified'
  BY <1>14 DEF FailEarly, CancelJustified, ProcsSound, Asked
<1>15. ASSUME NEW w \in Workers, Ack(w)
       PROVE  CancelJustified'
  BY <1>15 DEF Ack, Queue!Complete, Queue!Owns, Queue!jobs, Release, CancelJustified,
     ProcsSound, Asked
<1>16. ASSUME NEW w \in Workers, Nack(w)
       PROVE  CancelJustified'
  BY <1>16 DEF Nack, Queue!Fail, Queue!Owns, Queue!jobs, Release, CancelJustified,
     ProcsSound, Asked
<1>17. ASSUME NEW w \in Workers, ResultLost(w)
       PROVE  CancelJustified'
  BY <1>17 DEF ResultLost, Release, CancelJustified, ProcsSound, Asked
<1>18. ASSUME NEW r \in Runs, BackoffEnds(r)
       PROVE  CancelJustified'
  BY <1>18 DEF BackoffEnds, Queue!BackoffEnds, CancelJustified, ProcsSound, Asked
<1>19. ASSUME NEW r \in Runs, Stall(r)
       PROVE  CancelJustified'
  BY <1>19 DEF Stall, Queue!Stall, Queue!Redelivers, CancelJustified, ProcsSound, Asked
<1>20. ASSUME NEW p \in Procs, SaveInput(p)
       PROVE  CancelJustified'
  BY <1>20 DEF SaveInput, AddRows, CancelJustified, ProcsSound, Asked
<1>21. ASSUME NEW p \in Procs, Poll(p)
       PROVE  CancelJustified'
  <2>1. task[p] \in Runs
    BY <1>21 DEF Poll, ProcsSound
  <2>2. pc'[p] = "final" /\ verdict'[p] = "CANCELLED" => flag[task[p]]
    BY <1>21 DEF Poll, EndLoop
  <2>3. \A q \in Procs : q # p => pc'[q] = pc[q] /\ verdict'[q] = verdict[q]
    BY <1>21 DEF Poll, EndLoop
  <2> QED BY <1>21, <2>1, <2>2, <2>3 DEF Poll, CancelJustified, Asked
<1>22. ASSUME NEW p \in Procs, Exhaust(p)
       PROVE  CancelJustified'
  BY <1>22 DEF Exhaust, EndLoop, CancelJustified, ProcsSound, Asked
<1>23. ASSUME NEW p \in Procs, NEW n \in 0..MaxCalls, AskForTools(p, n)
       PROVE  CancelJustified'
  BY <1>23 DEF AskForTools, SaveAnswer, CancelJustified, ProcsSound, Asked
<1>24. ASSUME NEW p \in Procs, NEW n \in 0..MaxCalls, Answer(p, n)
       PROVE  CancelJustified'
  BY <1>24 DEF Answer, SaveAnswer, EndLoop, CancelJustified, ProcsSound, Asked
<1>25. ASSUME NEW p \in Procs, RunTool(p)
       PROVE  CancelJustified'
  BY <1>25 DEF RunTool, AddRows, AfterTool, CancelJustified, ProcsSound, Asked
<1>26. ASSUME NEW p \in Procs, Settle(p)
       PROVE  CancelJustified'
  BY <1>26 DEF Settle, WriteVerdict, CancelJustified, ProcsSound, Asked
<1>27. ASSUME NEW p \in Procs, SettleLost(p)
       PROVE  CancelJustified'
  BY <1>27 DEF SettleLost, WriteVerdict, CancelJustified, ProcsSound, Asked
<1>28. ASSUME NEW p \in Procs, Throw(p)
       PROVE  CancelJustified'
  BY <1>28 DEF Throw, CancelJustified, ProcsSound, Asked
<1>29. ASSUME NEW p \in Procs, RecordFailure(p)
       PROVE  CancelJustified'
  BY <1>29 DEF RecordFailure, CancelJustified, ProcsSound, Asked
<1>30. ASSUME NEW r \in Runs, CancelByUser(r)
       PROVE  CancelJustified'
  <2>1. \A x \in Runs : Asked(x) => Asked(x)'
    BY <1>30 DEF CancelByUser, CancelStep, Asked, Callers, CancelJustified
  <2> QED BY <1>30, <2>1 DEF CancelByUser, CancelStep, CancelJustified, Asked, Callers
<1>31. ASSUME NEW r \in Runs, CloseStream(r)
       PROVE  CancelJustified'
  <2>1. CASE known[r]
    <3>1. /\ cancel'[r]["user"] = cancel[r]["user"] /\ cancel[r]["close"] = "none"
          /\ \A x \in Runs : x # r => cancel'[x] = cancel[x]
      BY <1>31, <2>1 DEF CloseStream, CancelStep, Callers, CancelJustified
    <3>2. \A x \in Runs : Asked(x) => Asked(x)'
      BY <3>1 DEF Asked, Callers
    <3>3. \A x \in Runs : ~gone'[x] => x # r /\ ~gone[x]
      BY <1>31 DEF CloseStream
    <3>4. \A x \in Runs : ~gone'[x] => cancel'[x]["close"] = "none"
      BY <3>1, <3>3 DEF CancelJustified
    <3>5. \A q \in Procs : pc'[q] = "final" /\ verdict'[q] = "CANCELLED" => Asked(task[q])'
      BY <1>31, <3>2 DEF CloseStream, CancelJustified, ProcsSound
    <3> QED BY <1>31, <3>2, <3>4, <3>5 DEF CloseStream, CancelJustified
  <2>2. CASE ~known[r]
    BY <1>31, <2>2 DEF CloseStream, CancelJustified, Asked
  <2> QED BY <2>1, <2>2
<1>32. ASSUME NEW r \in Runs, CancelByClose(r)
       PROVE  CancelJustified'
  <2>1. \A x \in Runs : Asked(x) => Asked(x)'
    BY <1>32 DEF CancelByClose, CancelStep, Asked, Callers, CancelJustified
  <2> QED BY <1>32, <2>1 DEF CancelByClose, CancelStep, CancelJustified, Asked, Callers
<1>33. ASSUME NEW r \in Runs, NEW c \in Callers, SetFlag(r, c)
       PROVE  CancelJustified'
  <2>1. cancel'[r][c] = "done" /\ cancel[r][c] = "set"
    BY <1>33 DEF SetFlag, CancelStep
  <2>2. \A x \in Runs : Asked(x) => Asked(x)'
    BY <1>33 DEF SetFlag, CancelStep, Asked
  <2>3. Asked(r)'
    BY <2>1 DEF Asked
  <2>4. \A x \in Runs : ~gone'[x] => cancel'[x]["close"] = "none"
    BY <1>33, <2>1 DEF SetFlag, CancelStep, CancelJustified, Callers
  <2>5. \A x \in Runs : flag'[x] => flag[x] \/ x = r
    BY <1>33 DEF SetFlag
  <2>6. \A x \in Runs : flag'[x] \/ status'[x] = "CANCELLED" => Asked(x)'
    BY <1>33, <2>2, <2>3, <2>5 DEF SetFlag, CancelJustified
  <2>7. \A q \in Procs : pc'[q] = "final" /\ verdict'[q] = "CANCELLED" => Asked(task[q])'
    BY <1>33, <2>2 DEF SetFlag, CancelJustified, ProcsSound
  <2> QED BY <1>33, <2>4, <2>6, <2>7 DEF SetFlag, CancelJustified
<1>34. ASSUME NEW r \in Runs, NEW c \in Callers, DropCancel(r, c)
       PROVE  CancelJustified'
  <2>1. \A x \in Runs : Asked(x) => Asked(x)'
    <3>1. CASE cancel[r][c] = "read" /\ CancelStep(r, c, "none")
      BY <3>1 DEF CancelStep, Asked
    <3>2. CASE cancel[r][c] = "set" /\ CancelStep(r, c, "done")
      BY <3>2 DEF CancelStep, Asked
    <3> QED BY <1>34, <3>1, <3>2 DEF DropCancel
  <2>2. \A x \in Runs : ~gone[x] => cancel'[x]["close"] = "none"
    <3>1. CASE cancel[r][c] = "read" /\ CancelStep(r, c, "none")
      BY <3>1 DEF CancelStep, CancelJustified, Callers
    <3>2. CASE cancel[r][c] = "set" /\ CancelStep(r, c, "done")
      BY <3>2 DEF CancelStep, CancelJustified, Callers
    <3> QED BY <1>34, <3>1, <3>2 DEF DropCancel
  <2>3. \A q \in Procs : pc'[q] = "final" /\ verdict'[q] = "CANCELLED" => Asked(task[q])'
    BY <1>34, <2>1 DEF DropCancel, CancelJustified, ProcsSound
  <2> QED BY <1>34, <2>1, <2>2, <2>3 DEF DropCancel, CancelJustified
<1>35. ASSUME NEW r \in Runs, ExpireFlag(r)
       PROVE  CancelJustified'
  BY <1>35 DEF ExpireFlag, CancelJustified, ProcsSound, Asked
<1>36. ASSUME NEW t \in Threads, DeleteThread(t)
       PROVE  CancelJustified'
  BY <1>36 DEF DeleteThread, CancelJustified, ProcsSound, Asked
<1>37. ASSUME NEW p \in Procs, Crash(p)
       PROVE  CancelJustified'
  <2>1. UNCHANGED <<runs, requests, cancels>>
    BY <1>37 DEF Crash
  <2>2. pc'[p] # "final" /\ \A q \in Procs : q # p =>
            pc'[q] = pc[q] /\ task'[q] = task[q] /\ verdict'[q] = verdict[q]
    <3>1. CASE p \in Workers
      BY <1>37, <3>1 DEF Crash, Release
    <3>2. CASE p \notin Workers
      BY <1>37, <3>2 DEF Crash
    <3> QED BY <3>1, <3>2
  <2> QED BY <2>1, <2>2 DEF CancelJustified, Asked
<1>38. ASSUME UNCHANGED vars PROVE CancelJustified'
  BY <1>38 DEF vars, CancelJustified, Asked
<1> QED
  BY <1>1, <1>2, <1>3, <1>4, <1>5, <1>6, <1>7, <1>8, <1>9, <1>10, <1>11, <1>12, <1>13,
     <1>14, <1>15, <1>16, <1>17, <1>18, <1>19, <1>20, <1>21, <1>22, <1>23, <1>24,
     <1>25, <1>26, <1>27, <1>28, <1>29, <1>30, <1>31, <1>32, <1>33, <1>34, <1>35,
     <1>36, <1>37, <1>38
  DEF Next, Request, Work, Loop, Timers, Cancelling

\* What cancellation did has a cancel request behind it, in every reachable state.
LEMMA CancelJustifiedAlways == Spec => []CancelJustified
<1>1. Init => Sound
  BY SoundInit
<1>2. Init => CancelJustified
  <2>1. ASSUME Init PROVE \A r \in Runs : cancel[r]["close"] = "none" /\ ~flag[r] /\ status[r] # "CANCELLED"
    BY <2>1 DEF Init, Callers
  <2>2. ASSUME Init PROVE \A p \in Procs : pc[p] # "final"
    BY <2>2 DEF Init
  <2> QED BY <2>1, <2>2 DEF CancelJustified
<1>3. Sound /\ [Next]_vars => Sound'
  BY SoundStep
<1>4. Sound /\ CancelJustified /\ [Next]_vars => CancelJustified'
  BY CancelJustifiedStep
<1> QED BY <1>1, <1>2, <1>3, <1>4, PTL DEF Spec

\* However many processes execute a run, however often its job is delivered and
\* whatever fails: it ends CANCELLED only if a cancel found it unfinished.
THEOREM CancellationSafe == Spec => []CancelledOnlyWhenAsked
<1>1. Spec => []CancelJustified
  BY CancelJustifiedAlways
<1>2. CancelJustified => CancelledOnlyWhenAsked
  BY DEF CancelJustified, CancelledOnlyWhenAsked
<1> QED BY <1>1, <1>2, PTL

-----------------------------------------------------------------------------
(* Exclusion.  As long as no live worker loses the lock of its job, the    *)
(* status of a run alone keeps two processes from executing it.  Exclusive *)
(* is the inductive invariant, and what it implies for the conversation,   *)
(* the totals and the lifecycle rests on it.                               *)

\* Of two processes with the same run only one can be at work: the other is the
\* request that queued the run.
LEMMA Alone ==
  ASSUME Sound, LocksHeld, NEW p \in Procs, NEW q \in Procs, p # q, task[p] = task[q],
         pc[p] \notin {"idle", "done"}
  PROVE  pc[q] = "done"
<1> USE DEF Sound, ProcsSound, JobsSound, LocksHeld, Queue!Owns, Procs
<1>1. task[p] \in Runs
  OBVIOUS
<1>2. CASE p \in Workers /\ q \in Workers
  BY <1>1, <1>2
<1>3. CASE p \in Runs
  BY <1>1, <1>3
<1>4. CASE q \in Runs
  BY <1>1, <1>4
<1> QED BY <1>2, <1>3, <1>4

\* The invariant implies that a run has at most one executor.
LEMMA OneExecutorFollows == Exclusive => OneExecutor
  BY Alone DEF Exclusive, OneExecutor, Executing, LoopPc

\* A process at work that moves to l and gives its run a status that fits l
\* disturbs nobody else's knowledge of a status.
LEMMA StatusWritten ==
  ASSUME Exclusive, NEW p \in Procs, NEW l \in Pcs, NEW s \in Statuses,
         pc[p] \notin {"idle", "done"}, Goto(p, l), UNCHANGED task,
         status' = [status EXCEPT ![task[p]] = s], Fits(l, s)
  PROVE  StatusKnown'
<1> SUFFICES ASSUME NEW q \in Procs, task[q] \in Runs
             PROVE  Fits(pc'[q], status'[task[q]])
  BY DEF StatusKnown
<1> USE DEF Exclusive, Sound, TypeOK, Queue!TypeOK
<1>1. CASE q = p
  BY <1>1 DEF Goto
<1>2. CASE q # p /\ task[q] = task[p]
  BY <1>2, Alone DEF Goto, Fits, LoopPc
<1>3. CASE task[q] # task[p]
  BY <1>3 DEF Goto, StatusKnown
<1> QED BY <1>1, <1>2, <1>3

\* No process is at work and no run is open initially.
LEMMA ExclusiveInit == Init => Exclusive
<1> SUFFICES ASSUME Init PROVE LocksHeld /\ StatusKnown
  BY SoundInit DEF Exclusive
<1>1. \A p \in Procs : pc[p] = "idle"
  BY DEF Init
<1>2. \A r \in Runs : status[r] = "NONE"
  BY DEF Init
<1>3. LocksHeld
  BY <1>1 DEF LocksHeld, Procs
<1>4. StatusKnown
  BY <1>1, <1>2 DEF StatusKnown, Fits, LoopPc
<1> QED BY <1>3, <1>4

\* One step at a time: a lock held stays held, and a status known stays known.
LEMMA ExclusiveStep ==
  ASSUME Exclusive, [Next]_vars, "lockLoss" \notin Faults
  PROVE  Exclusive'
<1> SUFFICES LocksHeld' /\ StatusKnown'
  BY SoundStep DEF Exclusive
<1> USE DEF Exclusive, Sound, TypeOK, Queue!TypeOK, Goto, runs, requests, locals, jobs,
       cancels, Procs
<1>1. ASSUME NEW r \in Runs, NEW m \in {"sync", "stream", "async"}, Submit(r, m)
      PROVE  (LocksHeld /\ StatusKnown)'
  <2>1. LocksHeld'
    BY <1>1 DEF Submit, ProcsSound, JobsSound, Queue!Owns, LocksHeld
  <2>2. StatusKnown'
    BY <1>1 DEF Submit, ProcsSound, JobsSound, StatusKnown, LocksHeld, Queue!Owns,
       Present, LoopPc, Fits
  <2> QED BY <2>1, <2>2
<1>2. ASSUME NEW r \in Runs, NEW t \in Threads, Resolve(r, t)
      PROVE  (LocksHeld /\ StatusKnown)'
  <2>1. LocksHeld'
    BY <1>2 DEF Resolve, ProcsSound, JobsSound, Queue!Owns, LocksHeld
  <2>2. StatusKnown'
    BY <1>2 DEF Resolve, ProcsSound, JobsSound, StatusKnown, LocksHeld, Queue!Owns,
       Present, LoopPc, Fits
  <2> QED BY <2>1, <2>2
<1>3. ASSUME NEW r \in Runs, Reject(r)
      PROVE  (LocksHeld /\ StatusKnown)'
  <2>1. LocksHeld'
    BY <1>3 DEF Reject, ProcsSound, JobsSound, Queue!Owns, LocksHeld
  <2>2. StatusKnown'
    BY <1>3 DEF Reject, ProcsSound, JobsSound, StatusKnown, LocksHeld, Queue!Owns,
       Present, LoopPc, Fits
  <2> QED BY <2>1, <2>2
<1>4. ASSUME NEW r \in Runs, Open(r)
      PROVE  (LocksHeld /\ StatusKnown)'
  <2>1. LocksHeld'
    BY <1>4 DEF Open, InsertRow, ProcsSound, JobsSound, Queue!Owns, LocksHeld
  <2>2. StatusKnown'
    <3> DEFINE s == IF mode[r] = "async" THEN "PENDING" ELSE "IN_PROGRESS"
    <3> DEFINE l == IF mode[r] = "async" THEN "add"
                    ELSE IF mode[r] = "stream" THEN "announce" ELSE "user"
    <3>1. s \in Statuses /\ l \in Pcs
      BY DEF Statuses, Live, Pcs, RequestPc, LoopPc
    <3>2. Fits(l, s)
      BY DEF Fits, LoopPc
    <3>3. task[r] = r
      BY DEF ProcsSound
    <3> QED BY <1>4, <3>1, <3>2, <3>3, StatusWritten DEF Open, InsertRow
  <2> QED BY <2>1, <2>2
<1>5. ASSUME NEW r \in Runs, OpenLost(r)
      PROVE  (LocksHeld /\ StatusKnown)'
  <2>1. LocksHeld'
    BY <1>5 DEF OpenLost, InsertRow, ProcsSound, JobsSound, Queue!Owns, LocksHeld
  <2>2. StatusKnown'
    <3> DEFINE s == IF mode[r] = "async" THEN "PENDING" ELSE "IN_PROGRESS"
    <3>1. s \in Statuses /\ "rejected" \in Pcs
      BY DEF Statuses, Live, Pcs, RequestPc
    <3>2. Fits("rejected", s)
      BY DEF Fits, LoopPc
    <3>3. task[r] = r
      BY DEF ProcsSound
    <3> QED BY <1>5, <3>1, <3>2, <3>3, StatusWritten DEF OpenLost, InsertRow
  <2> QED BY <2>1, <2>2
<1>6. ASSUME NEW r \in Runs, Announce(r)
      PROVE  (LocksHeld /\ StatusKnown)'
  <2>1. LocksHeld'
    BY <1>6 DEF Announce, ProcsSound, JobsSound, Queue!Owns, LocksHeld
  <2>2. StatusKnown'
    BY <1>6 DEF Announce, ProcsSound, JobsSound, StatusKnown, LocksHeld, Queue!Owns,
       Present, LoopPc, Fits
  <2> QED BY <2>1, <2>2
<1>7. ASSUME NEW r \in Runs, Enqueue(r)
      PROVE  (LocksHeld /\ StatusKnown)'
  <2>1. LocksHeld'
    BY <1>7 DEF Enqueue, Queue!Add, ProcsSound, JobsSound, Queue!Owns, LocksHeld
  <2>2. StatusKnown'
    BY <1>7 DEF Enqueue, Queue!Add, ProcsSound, JobsSound, StatusKnown, LocksHeld,
       Queue!Owns, Present, LoopPc, Fits
  <2> QED BY <2>1, <2>2
<1>8. ASSUME NEW r \in Runs, EnqueueFails(r)
      PROVE  (LocksHeld /\ StatusKnown)'
  <2>1. LocksHeld'
    BY <1>8 DEF EnqueueFails, ProcsSound, JobsSound, Queue!Owns, LocksHeld
  <2>2. StatusKnown'
    BY <1>8 DEF EnqueueFails, ProcsSound, JobsSound, StatusKnown, LocksHeld,
       Queue!Owns, Present, LoopPc, Fits
  <2> QED BY <2>1, <2>2
<1>9. ASSUME NEW w \in Workers, NEW r \in Runs, TakeJob(w, r)
      PROVE  (LocksHeld /\ StatusKnown)'
  <2>1. LocksHeld'
    BY <1>9 DEF TakeJob, Queue!Take, ProcsSound, JobsSound, Queue!Owns, LocksHeld
  <2>2. StatusKnown'
    BY <1>9 DEF TakeJob, Queue!Take, ProcsSound, JobsSound, StatusKnown, LocksHeld,
       Queue!Owns, Present, LoopPc, Fits
  <2> QED BY <2>1, <2>2
<1>10. ASSUME NEW w \in Workers, Fetch(w)
       PROVE  (LocksHeld /\ StatusKnown)'
  <2>1. LocksHeld'
    BY <1>10 DEF Fetch, TakesUp, ProcsSound, JobsSound, Queue!Owns, LocksHeld
  <2>2. StatusKnown'
    BY <1>10 DEF Fetch, TakesUp, ProcsSound, JobsSound, StatusKnown, LocksHeld,
       Queue!Owns, Present, LoopPc, Fits
  <2> QED BY <2>1, <2>2
<1>11. ASSUME NEW w \in Workers, Load(w)
       PROVE  (LocksHeld /\ StatusKnown)'
  <2>1. LocksHeld'
    BY <1>11 DEF Load, ProcsSound, JobsSound, Queue!Owns, LocksHeld
  <2>2. StatusKnown'
    BY <1>11 DEF Load, ProcsSound, JobsSound, StatusKnown, LocksHeld, Queue!Owns,
       Present, LoopPc, Fits
  <2> QED BY <2>1, <2>2
<1>12. ASSUME NEW w \in Workers, Start(w)
       PROVE  (LocksHeld /\ StatusKnown)'
  <2>1. LocksHeld'
    BY <1>12 DEF Start, MarkInProgress, ProcsSound, JobsSound, Queue!Owns, LocksHeld
  <2>2. StatusKnown'
    <3>1. "IN_PROGRESS" \in Statuses /\ "user" \in Pcs
      BY DEF Statuses, Live, Pcs, LoopPc
    <3>2. Fits("user", "IN_PROGRESS")
      BY DEF Fits, LoopPc
    <3> QED BY <1>12, <3>1, <3>2, StatusWritten DEF Start, MarkInProgress
  <2> QED BY <2>1, <2>2
<1>13. ASSUME NEW w \in Workers, StartLost(w)
       PROVE  (LocksHeld /\ StatusKnown)'
  <2>1. LocksHeld'
    BY <1>13 DEF StartLost, MarkInProgress, ProcsSound, JobsSound, Queue!Owns, LocksHeld
  <2>2. StatusKnown'
    <3>1. "IN_PROGRESS" \in Statuses /\ "nack" \in Pcs
      BY DEF Statuses, Live, Pcs, WorkerPc
    <3>2. Fits("nack", "IN_PROGRESS")
      BY DEF Fits, LoopPc
    <3> QED BY <1>13, <3>1, <3>2, StatusWritten DEF StartLost, MarkInProgress
  <2> QED BY <2>1, <2>2
<1>14. ASSUME NEW w \in Workers, FailEarly(w)
       PROVE  (LocksHeld /\ StatusKnown)'
  <2>1. LocksHeld'
    BY <1>14 DEF FailEarly, ProcsSound, JobsSound, Queue!Owns, LocksHeld
  <2>2. StatusKnown'
    BY <1>14 DEF FailEarly, ProcsSound, JobsSound, StatusKnown, LocksHeld, Queue!Owns,
       Present, LoopPc, Fits
  <2> QED BY <2>1, <2>2
<1>15. ASSUME NEW w \in Workers, Ack(w)
       PROVE  (LocksHeld /\ StatusKnown)'
  <2>1. LocksHeld'
    BY <1>15 DEF Ack, Queue!Complete, Queue!Owns, Queue!jobs, Release, ProcsSound,
       JobsSound, LocksHeld
  <2>2. StatusKnown'
    BY <1>15 DEF Ack, Queue!Complete, Queue!Owns, Queue!jobs, Release, ProcsSound,
       JobsSound, StatusKnown, LocksHeld, Present, LoopPc, Fits
  <2> QED BY <2>1, <2>2
<1>16. ASSUME NEW w \in Workers, Nack(w)
       PROVE  (LocksHeld /\ StatusKnown)'
  <2>1. LocksHeld'
    BY <1>16 DEF Nack, Queue!Fail, Queue!Owns, Queue!jobs, Release, ProcsSound,
       JobsSound, LocksHeld
  <2>2. StatusKnown'
    BY <1>16 DEF Nack, Queue!Fail, Queue!Owns, Queue!jobs, Release, ProcsSound,
       JobsSound, StatusKnown, LocksHeld, Present, LoopPc, Fits
  <2> QED BY <2>1, <2>2
<1>17. ASSUME NEW w \in Workers, ResultLost(w)
       PROVE  (LocksHeld /\ StatusKnown)'
  <2>1. LocksHeld'
    BY <1>17 DEF ResultLost, Release, ProcsSound, JobsSound, Queue!Owns, LocksHeld
  <2>2. StatusKnown'
    BY <1>17 DEF ResultLost, Release, ProcsSound, JobsSound, StatusKnown, LocksHeld,
       Queue!Owns, Present, LoopPc, Fits
  <2> QED BY <2>1, <2>2
<1>18. ASSUME NEW r \in Runs, BackoffEnds(r)
       PROVE  (LocksHeld /\ StatusKnown)'
  <2>1. LocksHeld'
    BY <1>18
    DEF BackoffEnds, Queue!BackoffEnds, ProcsSound, JobsSound, Queue!Owns, LocksHeld
  <2>2. StatusKnown'
    BY <1>18 DEF BackoffEnds, Queue!BackoffEnds, ProcsSound, JobsSound, StatusKnown,
       LocksHeld, Queue!Owns, Present, LoopPc, Fits
  <2> QED BY <2>1, <2>2
<1>19. ASSUME NEW r \in Runs, Stall(r)
       PROVE  (LocksHeld /\ StatusKnown)'
  <2>1. LocksHeld'
    BY <1>19 DEF Stall, Queue!Stall, Queue!Redelivers, ProcsSound, JobsSound,
       Queue!Owns, LocksHeld
  <2>2. StatusKnown'
    BY <1>19 DEF Stall, Queue!Stall, Queue!Redelivers, ProcsSound, JobsSound,
       StatusKnown, LocksHeld, Queue!Owns, Present, LoopPc, Fits
  <2> QED BY <2>1, <2>2
<1>20. ASSUME NEW p \in Procs, SaveInput(p)
       PROVE  (LocksHeld /\ StatusKnown)'
  <2>1. LocksHeld'
    BY <1>20 DEF SaveInput, AddRows, ProcsSound, JobsSound, Queue!Owns, LocksHeld
  <2>2. StatusKnown'
    BY <1>20 DEF SaveInput, AddRows, ProcsSound, JobsSound, StatusKnown, LocksHeld,
       Queue!Owns, Present, LoopPc, Fits
  <2> QED BY <2>1, <2>2
<1>21. ASSUME NEW p \in Procs, Poll(p)
       PROVE  (LocksHeld /\ StatusKnown)'
  <2>1. LocksHeld'
    BY <1>21 DEF Poll, EndLoop, ProcsSound, JobsSound, Queue!Owns, LocksHeld
  <2>2. StatusKnown'
    BY <1>21 DEF Poll, EndLoop, ProcsSound, JobsSound, StatusKnown, LocksHeld,
       Queue!Owns, Present, LoopPc, Fits
  <2> QED BY <2>1, <2>2
<1>22. ASSUME NEW p \in Procs, Exhaust(p)
       PROVE  (LocksHeld /\ StatusKnown)'
  <2>1. LocksHeld'
    BY <1>22 DEF Exhaust, EndLoop, ProcsSound, JobsSound, Queue!Owns, LocksHeld
  <2>2. StatusKnown'
    BY <1>22 DEF Exhaust, EndLoop, ProcsSound, JobsSound, StatusKnown, LocksHeld,
       Queue!Owns, Present, LoopPc, Fits
  <2> QED BY <2>1, <2>2
<1>23. ASSUME NEW p \in Procs, NEW n \in 0..MaxCalls, AskForTools(p, n)
       PROVE  (LocksHeld /\ StatusKnown)'
  <2>1. LocksHeld'
    BY <1>23 DEF AskForTools, SaveAnswer, ProcsSound, JobsSound, Queue!Owns, LocksHeld
  <2>2. StatusKnown'
    BY <1>23 DEF AskForTools, SaveAnswer, ProcsSound, JobsSound, StatusKnown,
       LocksHeld, Queue!Owns, Present, LoopPc, Fits
  <2> QED BY <2>1, <2>2
<1>24. ASSUME NEW p \in Procs, NEW n \in 0..MaxCalls, Answer(p, n)
       PROVE  (LocksHeld /\ StatusKnown)'
  <2>1. LocksHeld'
    BY <1>24
    DEF Answer, SaveAnswer, EndLoop, ProcsSound, JobsSound, Queue!Owns, LocksHeld
  <2>2. StatusKnown'
    BY <1>24 DEF Answer, SaveAnswer, EndLoop, ProcsSound, JobsSound, StatusKnown,
       LocksHeld, Queue!Owns, Present, LoopPc, Fits
  <2> QED BY <2>1, <2>2
<1>25. ASSUME NEW p \in Procs, RunTool(p)
       PROVE  (LocksHeld /\ StatusKnown)'
  <2>1. LocksHeld'
    BY <1>25
    DEF RunTool, AddRows, AfterTool, ProcsSound, JobsSound, Queue!Owns, LocksHeld
  <2>2. StatusKnown'
    BY <1>25 DEF RunTool, AddRows, AfterTool, ProcsSound, JobsSound, StatusKnown,
       LocksHeld, Queue!Owns, Present, LoopPc, Fits
  <2> QED BY <2>1, <2>2
<1>26. ASSUME NEW p \in Procs, Settle(p)
       PROVE  (LocksHeld /\ StatusKnown)'
  <2>1. LocksHeld'
    BY <1>26 DEF Settle, WriteVerdict, ProcsSound, JobsSound, Queue!Owns, LocksHeld
  <2>2. StatusKnown'
    <3> DEFINE l == IF p \in Workers THEN "ack" ELSE "done"
    <3>1. verdict[p] \in Statuses /\ l \in Pcs
      BY DEF Statuses, Verdicts, Terminal, Pcs, WorkerPc, RequestPc
    <3>2. Fits(l, verdict[p])
      BY DEF Fits, LoopPc
    <3> QED BY <1>26, <3>1, <3>2, StatusWritten DEF Settle, WriteVerdict
  <2> QED BY <2>1, <2>2
<1>27. ASSUME NEW p \in Procs, SettleLost(p)
       PROVE  (LocksHeld /\ StatusKnown)'
  <2>1. LocksHeld'
    BY <1>27 DEF SettleLost, WriteVerdict, ProcsSound, JobsSound, Queue!Owns, LocksHeld
  <2>2. StatusKnown'
    <3>1. verdict[p] \in Statuses /\ "fail" \in Pcs
      BY DEF Statuses, Verdicts, Terminal, Pcs, LoopPc
    <3>2. Fits("fail", verdict[p])
      BY <1>27 DEF SettleLost, Fits, LoopPc
    <3> QED BY <1>27, <3>1, <3>2, StatusWritten DEF SettleLost, WriteVerdict
  <2> QED BY <2>1, <2>2
<1>28. ASSUME NEW p \in Procs, Throw(p)
       PROVE  (LocksHeld /\ StatusKnown)'
  <2>1. LocksHeld'
    <3>1. \A w \in Workers : pc'[w] # "idle" => pc[w] # "idle"
      BY <1>28 DEF Throw, LoopPc
    <3> QED BY <1>28, <3>1 DEF Throw, LocksHeld, Queue!Owns
  <2>2. StatusKnown'
    <3>1. pc[p] \in LoopPc \ {"fail"} /\ status[task[p]] \in {"IN_PROGRESS", "GONE"}
      BY <1>28 DEF Throw, ProcsSound, StatusKnown, Fits, LoopPc
    <3>2. Fits("fail", status[task[p]])
      BY <3>1 DEF Fits, LoopPc
    <3>3. \A q \in Procs : q # p => pc'[q] = pc[q]
      BY <1>28 DEF Throw
    <3>4. pc'[p] = "fail" /\ UNCHANGED <<task, status>>
      BY <1>28 DEF Throw
    <3> QED BY <3>2, <3>3, <3>4 DEF StatusKnown
  <2> QED BY <2>1, <2>2
<1>29. ASSUME NEW p \in Procs, RecordFailure(p)
       PROVE  (LocksHeld /\ StatusKnown)'
  <2>1. LocksHeld'
    BY <1>29 DEF RecordFailure, ProcsSound, JobsSound, Queue!Owns, LocksHeld
  <2>2. StatusKnown'
    <3>1. CASE status' = [status EXCEPT ![task[p]] = "FAILED"]
      <4> DEFINE l == IF p \in Workers THEN "nack" ELSE "done"
      <4>1. "FAILED" \in Statuses /\ l \in Pcs
        BY DEF Statuses, Terminal, Pcs, WorkerPc, RequestPc
      <4>2. Fits(l, "FAILED")
        BY DEF Fits, LoopPc
      <4> QED BY <1>29, <3>1, <4>1, <4>2, StatusWritten DEF RecordFailure
    <3>2. CASE UNCHANGED status
      BY <1>29, <3>2 DEF RecordFailure, StatusKnown, Fits, LoopPc
    <3> QED BY <1>29, <3>1, <3>2 DEF RecordFailure
  <2> QED BY <2>1, <2>2
<1>30. ASSUME NEW r \in Runs, CancelByUser(r)
       PROVE  (LocksHeld /\ StatusKnown)'
  <2>1. LocksHeld'
    BY <1>30 DEF CancelByUser, CancelStep, ProcsSound, JobsSound, Queue!Owns, LocksHeld
  <2>2. StatusKnown'
    BY <1>30 DEF CancelByUser, CancelStep, ProcsSound, JobsSound, StatusKnown,
       LocksHeld, Queue!Owns, Present, LoopPc, Fits
  <2> QED BY <2>1, <2>2
<1>31. ASSUME NEW r \in Runs, CloseStream(r)
       PROVE  (LocksHeld /\ StatusKnown)'
  <2>1. LocksHeld'
    BY <1>31 DEF CloseStream, CancelStep, ProcsSound, JobsSound, Queue!Owns, LocksHeld
  <2>2. StatusKnown'
    BY <1>31 DEF CloseStream, CancelStep, ProcsSound, JobsSound, StatusKnown,
       LocksHeld, Queue!Owns, Present, LoopPc, Fits
  <2> QED BY <2>1, <2>2
<1>32. ASSUME NEW r \in Runs, CancelByClose(r)
       PROVE  (LocksHeld /\ StatusKnown)'
  <2>1. LocksHeld'
    BY <1>32 DEF CancelByClose, CancelStep, ProcsSound, JobsSound, Queue!Owns, LocksHeld
  <2>2. StatusKnown'
    BY <1>32 DEF CancelByClose, CancelStep, ProcsSound, JobsSound, StatusKnown,
       LocksHeld, Queue!Owns, Present, LoopPc, Fits
  <2> QED BY <2>1, <2>2
<1>33. ASSUME NEW r \in Runs, NEW c \in Callers, SetFlag(r, c)
       PROVE  (LocksHeld /\ StatusKnown)'
  <2>1. LocksHeld'
    BY <1>33 DEF SetFlag, CancelStep, ProcsSound, JobsSound, Queue!Owns, LocksHeld
  <2>2. StatusKnown'
    BY <1>33 DEF SetFlag, CancelStep, ProcsSound, JobsSound, StatusKnown, LocksHeld,
       Queue!Owns, Present, LoopPc, Fits
  <2> QED BY <2>1, <2>2
<1>34. ASSUME NEW r \in Runs, NEW c \in Callers, DropCancel(r, c)
       PROVE  (LocksHeld /\ StatusKnown)'
  <2>1. LocksHeld'
    BY <1>34 DEF DropCancel, CancelStep, ProcsSound, JobsSound, Queue!Owns, LocksHeld
  <2>2. StatusKnown'
    BY <1>34 DEF DropCancel, CancelStep, ProcsSound, JobsSound, StatusKnown, LocksHeld,
       Queue!Owns, Present, LoopPc, Fits
  <2> QED BY <2>1, <2>2
<1>35. ASSUME NEW r \in Runs, ExpireFlag(r)
       PROVE  (LocksHeld /\ StatusKnown)'
  <2>1. LocksHeld'
    BY <1>35 DEF ExpireFlag, ProcsSound, JobsSound, Queue!Owns, LocksHeld
  <2>2. StatusKnown'
    BY <1>35 DEF ExpireFlag, ProcsSound, JobsSound, StatusKnown, LocksHeld, Queue!Owns,
       Present, LoopPc, Fits
  <2> QED BY <2>1, <2>2
<1>36. ASSUME NEW t \in Threads, DeleteThread(t)
       PROVE  (LocksHeld /\ StatusKnown)'
  <2>1. LocksHeld'
    BY <1>36 DEF DeleteThread, ProcsSound, JobsSound, Queue!Owns, LocksHeld
  <2>2. StatusKnown'
    <3>1. ASSUME NEW l, NEW r \in Runs, Present(r), Fits(l, status[r])
          PROVE  Fits(l, "GONE")
      <4>1. status[r] # "NONE"
        BY <3>1 DEF Present, Live, Terminal
      <4>2. l \notin {"idle", "resolve", "open"}
        BY <3>1, <4>1 DEF Fits
      <4> QED BY <4>2 DEF Fits
    <3>2. \A r \in Runs : status'[r] = status[r] \/ (Present(r) /\ status'[r] = "GONE")
      BY <1>36 DEF DeleteThread
    <3> QED BY <1>36, <3>1, <3>2 DEF DeleteThread, StatusKnown
  <2> QED BY <2>1, <2>2
<1>37. ASSUME NEW p \in Procs, Crash(p)
       PROVE  (LocksHeld /\ StatusKnown)'
  <2>1. /\ UNCHANGED <<status, jobState, owner>>
        /\ \A q \in Procs : q # p => pc'[q] = pc[q] /\ task'[q] = task[q]
        /\ p \in Workers => pc'[p] = "idle" /\ task'[p] = None
        /\ p \notin Workers => pc'[p] = "crashed" /\ task'[p] = task[p]
    <3>1. CASE p \in Workers
      BY <1>37, <3>1 DEF Crash, Release
    <3>2. CASE p \notin Workers
      BY <1>37, <3>2 DEF Crash
    <3> QED BY <3>1, <3>2
  <2>2. LocksHeld'
    BY <2>1, ZenonT(60) DEF LocksHeld, Queue!Owns
  <2>3. StatusKnown'
    <3> SUFFICES ASSUME NEW q \in Procs, task'[q] \in Runs
                 PROVE  Fits(pc'[q], status'[task'[q]])
      BY DEF StatusKnown
    <3>1. CASE q = p
      BY <2>1, <3>1 DEF Fits, LoopPc
    <3>2. CASE q # p
      BY <2>1, <3>2 DEF StatusKnown
    <3> QED BY <3>1, <3>2
  <2> QED BY <2>2, <2>3
<1>38. ASSUME UNCHANGED vars PROVE (LocksHeld /\ StatusKnown)'
  BY <1>38 DEF vars, LocksHeld, StatusKnown, Queue!Owns
<1> QED
  BY <1>1, <1>2, <1>3, <1>4, <1>5, <1>6, <1>7, <1>8, <1>9, <1>10, <1>11, <1>12, <1>13,
     <1>14, <1>15, <1>16, <1>17, <1>18, <1>19, <1>20, <1>21, <1>22, <1>23, <1>24,
     <1>25, <1>26, <1>27, <1>28, <1>29, <1>30, <1>31, <1>32, <1>33, <1>34, <1>35,
     <1>36, <1>37, <1>38
  DEF Next, Request, Work, Loop, Timers, Cancelling

\* The inductive invariant holds in every reachable state.
LEMMA ExclusiveAlways == "lockLoss" \notin Faults => (Spec => []Exclusive)
<1> SUFFICES ASSUME "lockLoss" \notin Faults PROVE Spec => []Exclusive
  OBVIOUS
<1>1. Init => Exclusive
  BY ExclusiveInit
<1>2. Exclusive /\ [Next]_vars => Exclusive'
  BY ExclusiveStep
<1> QED BY <1>1, <1>2, PTL DEF Spec

\* Unless a worker loses a lock, no run is ever executed by two processes at
\* once, whatever else fails and however often its job is delivered.
THEOREM Exclusion == "lockLoss" \notin Faults => (Spec => []OneExecutor)
<1> SUFFICES ASSUME "lockLoss" \notin Faults PROVE Spec => []OneExecutor
  OBVIOUS
<1>1. Spec => []Exclusive
  BY ExclusiveAlways
<1>2. Exclusive => OneExecutor
  BY OneExecutorFollows
<1> QED BY <1>1, <1>2, PTL

-----------------------------------------------------------------------------
(* Accounting: one user message, totals that agree with the messages, no   *)
(* tool call without an answer.  The inductive invariant is Accounted: the *)
(* messages of a run are those its one executor has written, at every      *)
(* point of the loop.                                                      *)

\* Steps that write no run and no message leave the rows in order.
LEMMA RowsKept ==
  ASSUME Books, UNCHANGED <<runs, log>>
  PROVE  /\ InputSavedOnce' /\ TotalsMatchMessages'
         /\ "cutReply" \notin Faults => CallsAnswered'
  BY DEF Books, runs, InputSavedOnce, TotalsMatchMessages, CallsAnswered

\* A process at work that writes its run or its run's messages so that they fit
\* its new point disturbs nobody else's record.
LEMMA RecordWritten ==
  ASSUME Accounted, NEW p \in Procs, pc[p] \notin {"idle", "done"}, UNCHANGED task,
         \A q \in Procs : q # p =>
             pc'[q] = pc[q] /\ spent'[q] = spent[q] /\ calls'[q] = calls[q],
         \A r \in Runs : r # task[p] => status'[r] = status[r] /\ log'[r] = log[r],
         Present(task[p])' => Recorded(pc'[p], spent'[p], calls'[p], log'[task[p]]),
         status'[task[p]] \in {"NONE", "PENDING"} => log'[task[p]] = NoLog
  PROVE  LogMatchesExecutor'
<1> USE DEF Accounted, Books, LogMatchesExecutor
<1>1. ASSUME NEW r \in Runs, status'[r] \in {"NONE", "PENDING"}
      PROVE  log'[r] = NoLog
  BY <1>1
<1>2. ASSUME NEW q \in Procs, task[q] \in Runs, Present(task[q])'
      PROVE  Recorded(pc'[q], spent'[q], calls'[q], log'[task[q]])
  <2>1. CASE q = p
    BY <1>2, <2>1
  <2>2. CASE q # p /\ task[q] = task[p]
    BY <1>2, <2>2, Alone DEF Exclusive, Recorded
  <2>3. CASE task[q] # task[p]
    BY <1>2, <2>3 DEF Present
  <2> QED BY <2>1, <2>2, <2>3
<1> QED BY <1>1, <1>2

\* A loop that writes a message works on a run IN_PROGRESS, so the rows of the
\* runs that have ended stay as they are.
LEMMA MessageWritten ==
  ASSUME Accounted, NEW p \in Procs, pc[p] \in {"user", "llm", "tools"}, Present(task[p]),
         UNCHANGED <<runs, task>>, \E m : log' = [log EXCEPT ![task[p]] = m]
  PROVE  /\ task[p] \in Runs /\ status[task[p]] = "IN_PROGRESS"
         /\ TotalsMatchMessages'
         /\ "cutReply" \notin Faults => CallsAnswered'
<1> USE DEF Accounted, Books, Exclusive, Sound, TypeOK, Queue!TypeOK, runs
<1>1. task[p] \in Runs
  BY DEF ProcsSound
<1>2. status[task[p]] = "IN_PROGRESS"
  BY <1>1 DEF StatusKnown, Fits, LoopPc, Present, Live, Terminal
<1>3. \A r \in Runs : status[r] \in Verdicts => log'[r] = log[r]
  BY <1>2 DEF Verdicts
<1>4. TotalsMatchMessages'
  BY <1>3 DEF TotalsMatchMessages
<1>5. CallsAnswered => CallsAnswered'
  BY <1>3 DEF CallsAnswered
<1> QED BY <1>1, <1>2, <1>4, <1>5

\* A verdict written at the end of the loop is that of the messages.
LEMMA VerdictWritten ==
  ASSUME Accounted, NEW p \in Procs, WriteVerdict(p)
  PROVE  /\ task[p] \in Runs
         /\ TotalsMatchMessages'
         /\ "cutReply" \notin Faults => CallsAnswered'
<1> USE DEF Accounted, Books, Exclusive, Sound, TypeOK, Queue!TypeOK
<1>1. task[p] \in Runs /\ pc[p] = "final" /\ Present(task[p])
  BY DEF WriteVerdict, ProcsSound
<1>2. Recorded("final", spent[p], calls[p], log[task[p]])
  BY <1>1 DEF LogMatchesExecutor
<1>3. /\ status'[task[p]] = verdict[p]
      /\ stepCount'[task[p]] = step[p] /\ tokens'[task[p]] = spent[p]
      /\ \A r \in Runs : r # task[p] => /\ status'[r] = status[r]
                                       /\ stepCount'[r] = stepCount[r]
                                       /\ tokens'[r] = tokens[r]
      /\ log' = log
  BY <1>1 DEF WriteVerdict
<1>4. TotalsMatchMessages'
  <2> SUFFICES ASSUME NEW r \in Runs, status'[r] \in Verdicts
               PROVE  /\ tokens'[r] = log[r]["ASSISTANT"]
                      /\ stepCount'[r] = log[r]["ASSISTANT"] + (IF status'[r] = "CANCELLED" THEN 1 ELSE 0)
                      /\ status'[r] = "TIMEOUT" => stepCount'[r] = MaxSteps
    BY <1>3 DEF TotalsMatchMessages
  <2>1. CASE r = task[p]
    BY <1>1, <1>2, <1>3, <2>1 DEF Recorded, StepsCounted
  <2>2. CASE r # task[p]
    BY <1>3, <2>2 DEF TotalsMatchMessages
  <2> QED BY <2>1, <2>2
<1>5. "cutReply" \notin Faults => CallsAnswered'
  BY <1>1, <1>2, <1>3 DEF Recorded, CallsAnswered
<1> QED BY <1>1, <1>4, <1>5

\* Before anything happens there is nothing to account for.
LEMMA BooksInit == Init => Books
<1> SUFFICES ASSUME Init PROVE Books
  OBVIOUS
<1>1. /\ \A r \in Runs : status[r] = "NONE" /\ log[r] = NoLog
      /\ \A p \in Procs : pc[p] = "idle" /\ step[p] = 0 /\ spent[p] = 0
  BY DEF Init
<1>2. StepsCounted
  BY <1>1 DEF StepsCounted, BeforeJob
<1>3. LogMatchesExecutor
  BY <1>1 DEF LogMatchesExecutor, Recorded
<1>4. InputSavedOnce
  <2>1. \A r \in Runs : log[r]["USER"] = 0
    BY <1>1 DEF NoLog, Rows
  <2> QED BY <2>1 DEF InputSavedOnce
<1>5. TotalsMatchMessages /\ CallsAnswered
  BY <1>1 DEF TotalsMatchMessages, CallsAnswered, Verdicts
<1> QED BY <1>2, <1>3, <1>4, <1>5 DEF Books

\* Every step keeps the books: what it writes fits what was written before.
LEMMA BooksStep ==
  ASSUME Accounted, [Next]_vars, "lockLoss" \notin Faults
  PROVE  Books'
<1> USE DEF Accounted, Books, Exclusive, Sound, TypeOK, Queue!TypeOK, Goto, runs,
       requests, locals, jobs, cancels, Procs
<1>1. ASSUME NEW r \in Runs, NEW m \in {"sync", "stream", "async"}, Submit(r, m)
      PROVE  Books'
  <2>1. StepsCounted'
    BY <1>1 DEF Submit, StepsCounted, BeforeJob, ProcsSound, JobsSound
  <2>2. LogMatchesExecutor'
    BY <1>1, ZenonT(60) DEF Submit, ProcsSound, StatusKnown, Present, LoopPc, Fits,
       LogMatchesExecutor, StepsCounted, NoLog, Rows, Live, Terminal, Recorded
  <2>3. UNCHANGED <<runs, log>>
    BY <1>1 DEF Submit
  <2> QED BY <2>1, <2>2, <2>3, RowsKept
<1>2. ASSUME NEW r \in Runs, NEW t \in Threads, Resolve(r, t)
      PROVE  Books'
  <2>1. StepsCounted'
    BY <1>2 DEF Resolve, StepsCounted, BeforeJob, ProcsSound, JobsSound
  <2>2. LogMatchesExecutor'
    BY <1>2, ZenonT(60) DEF Resolve, ProcsSound, StatusKnown, Present, LoopPc, Fits,
       LogMatchesExecutor, StepsCounted, NoLog, Rows, Live, Terminal, Recorded
  <2>3. UNCHANGED <<runs, log>>
    BY <1>2 DEF Resolve
  <2> QED BY <2>1, <2>2, <2>3, RowsKept
<1>3. ASSUME NEW r \in Runs, Reject(r)
      PROVE  Books'
  <2>1. StepsCounted'
    BY <1>3 DEF Reject, StepsCounted, BeforeJob, ProcsSound, JobsSound
  <2>2. LogMatchesExecutor'
    BY <1>3 DEF Reject, ProcsSound, StatusKnown, Present, LoopPc, Fits,
       LogMatchesExecutor, StepsCounted, NoLog, Rows, Live, Terminal, Recorded
  <2>3. UNCHANGED <<runs, log>>
    BY <1>3 DEF Reject
  <2> QED BY <2>1, <2>2, <2>3, RowsKept
<1>4. ASSUME NEW r \in Runs, Open(r)
      PROVE  Books'
  <2>1. StepsCounted'
    BY <1>4 DEF Open, InsertRow, StepsCounted, BeforeJob, ProcsSound, JobsSound
  <2>2. LogMatchesExecutor'
    <3>1. task[r] = r /\ log[r] = NoLog
      BY <1>4 DEF InsertRow, Open, ProcsSound, StatusKnown, Fits, LogMatchesExecutor
    <3>2. Recorded(pc'[r], spent'[r], calls'[r], log'[r])
      BY <1>4, <3>1 DEF Open, InsertRow, Recorded
    <3> QED BY <1>4, <3>1, <3>2, RecordWritten DEF Open, InsertRow
  <2>3. InputSavedOnce'
    BY <1>4 DEF Open, InsertRow, InputSavedOnce, NoLog, Rows
  <2>4. TotalsMatchMessages'
    BY <1>4 DEF Open, InsertRow, ProcsSound, TotalsMatchMessages, Present, Verdicts,
       NoLog, Rows, Live, Terminal
  <2>5. CallsAnswered => CallsAnswered'
    BY <1>4 DEF Open, InsertRow, ProcsSound, CallsAnswered, NoLog, Rows, Verdicts,
       Live, Terminal
  <2> QED BY <2>1, <2>2, <2>3, <2>4, <2>5
<1>5. ASSUME NEW r \in Runs, OpenLost(r)
      PROVE  Books'
  <2>1. StepsCounted'
    BY <1>5 DEF OpenLost, InsertRow, StepsCounted, BeforeJob, ProcsSound, JobsSound
  <2>2. LogMatchesExecutor'
    <3>1. task[r] = r /\ log[r] = NoLog
      BY <1>5 DEF InsertRow, OpenLost, ProcsSound, StatusKnown, Fits, LogMatchesExecutor
    <3>2. Recorded(pc'[r], spent'[r], calls'[r], log'[r])
      BY <1>5, <3>1 DEF OpenLost, InsertRow, Recorded
    <3> QED BY <1>5, <3>1, <3>2, RecordWritten DEF OpenLost, InsertRow
  <2>3. InputSavedOnce'
    BY <1>5 DEF OpenLost, InsertRow, InputSavedOnce, NoLog, Rows
  <2>4. TotalsMatchMessages'
    BY <1>5 DEF OpenLost, InsertRow, ProcsSound, TotalsMatchMessages, Present,
       Verdicts, NoLog, Rows, Live, Terminal
  <2>5. CallsAnswered => CallsAnswered'
    BY <1>5 DEF OpenLost, InsertRow, ProcsSound, CallsAnswered, NoLog, Rows, Verdicts,
       Live, Terminal
  <2> QED BY <2>1, <2>2, <2>3, <2>4, <2>5
<1>6. ASSUME NEW r \in Runs, Announce(r)
      PROVE  Books'
  <2>1. StepsCounted'
    BY <1>6 DEF Announce, StepsCounted, BeforeJob, ProcsSound, JobsSound
  <2>2. LogMatchesExecutor'
    <3>1. task[r] = r /\ pc[r] = "announce" /\ UNCHANGED <<status, log, task, spent, calls>>
      BY <1>6 DEF Announce, ProcsSound
    <3>2. Present(r) => log[r] = NoLog
      BY <3>1 DEF LogMatchesExecutor, Recorded
    <3>3. /\ Present(task[r])' => Recorded(pc'[r], spent'[r], calls'[r], log'[task[r]])
          /\ status[r] \in {"NONE", "PENDING"} => log[r] = NoLog
      BY <1>6, <3>1, <3>2 DEF Announce, Recorded, Present, LogMatchesExecutor
    <3> QED BY <1>6, <3>1, <3>3, RecordWritten DEF Announce
  <2>3. UNCHANGED <<runs, log>>
    BY <1>6 DEF Announce
  <2> QED BY <2>1, <2>2, <2>3, RowsKept
<1>7. ASSUME NEW r \in Runs, Enqueue(r)
      PROVE  Books'
  <2>1. StepsCounted'
    BY <1>7 DEF Enqueue, Queue!Add, StepsCounted, BeforeJob, ProcsSound, JobsSound
  <2>2. LogMatchesExecutor'
    BY <1>7 DEF Enqueue, Queue!Add, ProcsSound, StatusKnown, Present, LoopPc, Fits,
       LogMatchesExecutor, StepsCounted, NoLog, Rows, Live, Terminal, Recorded
  <2>3. UNCHANGED <<runs, log>>
    BY <1>7 DEF Enqueue
  <2> QED BY <2>1, <2>2, <2>3, RowsKept
<1>8. ASSUME NEW r \in Runs, EnqueueFails(r)
      PROVE  Books'
  <2>1. StepsCounted'
    BY <1>8 DEF EnqueueFails, StepsCounted, BeforeJob, ProcsSound, JobsSound
  <2>2. LogMatchesExecutor'
    BY <1>8 DEF EnqueueFails, ProcsSound, StatusKnown, Present, LoopPc, Fits,
       LogMatchesExecutor, StepsCounted, NoLog, Rows, Live, Terminal, Recorded
  <2>3. UNCHANGED <<runs, log>>
    BY <1>8 DEF EnqueueFails
  <2> QED BY <2>1, <2>2, <2>3, RowsKept
<1>9. ASSUME NEW w \in Workers, NEW r \in Runs, TakeJob(w, r)
      PROVE  Books'
  <2>1. StepsCounted'
    BY <1>9 DEF TakeJob, Queue!Take, StepsCounted, BeforeJob, ProcsSound, JobsSound
  <2>2. LogMatchesExecutor'
    <3>1. /\ pc'[w] = "fetch" /\ UNCHANGED <<status, log, spent, calls>>
          /\ \A q \in Procs : q # w => pc'[q] = pc[q] /\ task'[q] = task[q]
      BY <1>9 DEF TakeJob
    <3> QED BY <3>1 DEF LogMatchesExecutor, Recorded, Present
  <2>3. UNCHANGED <<runs, log>>
    BY <1>9 DEF TakeJob
  <2> QED BY <2>1, <2>2, <2>3, RowsKept
<1>10. ASSUME NEW w \in Workers, Fetch(w)
       PROVE  Books'
  <2>1. StepsCounted'
    BY <1>10 DEF Fetch, TakesUp, StepsCounted, BeforeJob, ProcsSound, JobsSound
  <2>2. LogMatchesExecutor'
    BY <1>10 DEF Fetch, TakesUp, ProcsSound, StatusKnown, Present, LoopPc, Fits,
       LogMatchesExecutor, StepsCounted, NoLog, Rows, Live, Terminal, Recorded
  <2>3. UNCHANGED <<runs, log>>
    BY <1>10 DEF Fetch
  <2> QED BY <2>1, <2>2, <2>3, RowsKept
<1>11. ASSUME NEW w \in Workers, Load(w)
       PROVE  Books'
  <2>1. StepsCounted'
    BY <1>11 DEF Load, StepsCounted, BeforeJob, ProcsSound, JobsSound
  <2>2. LogMatchesExecutor'
    BY <1>11 DEF Load, ProcsSound, StatusKnown, Present, LoopPc, Fits,
       LogMatchesExecutor, StepsCounted, NoLog, Rows, Live, Terminal, Recorded
  <2>3. UNCHANGED <<runs, log>>
    BY <1>11 DEF Load
  <2> QED BY <2>1, <2>2, <2>3, RowsKept
<1>12. ASSUME NEW w \in Workers, Start(w)
       PROVE  Books'
  <2>1. StepsCounted'
    BY <1>12 DEF Start, MarkInProgress, StepsCounted, BeforeJob, ProcsSound, JobsSound
  <2>2. LogMatchesExecutor'
    <3>1. task[w] \in Runs /\ log[task[w]] = NoLog
      BY <1>12 DEF Start, MarkInProgress, ProcsSound, StatusKnown, Fits, Present, Live,
         Terminal, LogMatchesExecutor
    <3>2. Recorded(pc'[w], spent'[w], calls'[w], log'[task[w]])
      BY <1>12, <3>1 DEF Start, MarkInProgress, Recorded
    <3>3. status'[task[w]] = "IN_PROGRESS" /\ \A x \in Runs : x # task[w] => status'[x] = status[x]
      BY <1>12, <3>1 DEF Start, MarkInProgress
    <3> QED BY <1>12, <3>1, <3>2, <3>3, RecordWritten DEF Start, MarkInProgress
  <2>3. InputSavedOnce'
    BY <1>12 DEF Start, MarkInProgress, InputSavedOnce, NoLog, Rows
  <2>4. TotalsMatchMessages'
    BY <1>12 DEF Start, MarkInProgress, ProcsSound, TotalsMatchMessages, Present,
       Verdicts, NoLog, Rows, Live, Terminal
  <2>5. CallsAnswered => CallsAnswered'
    BY <1>12 DEF Start, MarkInProgress, ProcsSound, CallsAnswered, NoLog, Rows,
       Verdicts, Live, Terminal
  <2> QED BY <2>1, <2>2, <2>3, <2>4, <2>5
<1>13. ASSUME NEW w \in Workers, StartLost(w)
       PROVE  Books'
  <2>1. StepsCounted'
    BY <1>13
    DEF StartLost, MarkInProgress, StepsCounted, BeforeJob, ProcsSound, JobsSound
  <2>2. LogMatchesExecutor'
    <3>1. task[w] \in Runs /\ log[task[w]] = NoLog
      BY <1>13 DEF StartLost, MarkInProgress, ProcsSound, StatusKnown, Fits, Present,
         Live, Terminal, LogMatchesExecutor
    <3>2. Recorded(pc'[w], spent'[w], calls'[w], log'[task[w]])
      BY <1>13, <3>1 DEF StartLost, MarkInProgress, Recorded
    <3>3. status'[task[w]] = "IN_PROGRESS" /\ \A x \in Runs : x # task[w] => status'[x] = status[x]
      BY <1>13, <3>1 DEF StartLost, MarkInProgress
    <3> QED BY <1>13, <3>1, <3>2, <3>3, RecordWritten DEF StartLost, MarkInProgress
  <2>3. InputSavedOnce'
    BY <1>13 DEF StartLost, MarkInProgress, InputSavedOnce, NoLog, Rows
  <2>4. TotalsMatchMessages'
    BY <1>13 DEF StartLost, MarkInProgress, ProcsSound, TotalsMatchMessages, Present,
       Verdicts, NoLog, Rows, Live, Terminal
  <2>5. CallsAnswered => CallsAnswered'
    BY <1>13 DEF StartLost, MarkInProgress, ProcsSound, CallsAnswered, NoLog, Rows,
       Verdicts, Live, Terminal
  <2> QED BY <2>1, <2>2, <2>3, <2>4, <2>5
<1>14. ASSUME NEW w \in Workers, FailEarly(w)
       PROVE  Books'
  <2>1. StepsCounted'
    BY <1>14 DEF FailEarly, StepsCounted, BeforeJob, ProcsSound, JobsSound
  <2>2. LogMatchesExecutor'
    BY <1>14 DEF FailEarly, ProcsSound, StatusKnown, Present, LoopPc, Fits,
       LogMatchesExecutor, StepsCounted, NoLog, Rows, Live, Terminal, Recorded
  <2>3. UNCHANGED <<runs, log>>
    BY <1>14 DEF FailEarly
  <2> QED BY <2>1, <2>2, <2>3, RowsKept
<1>15. ASSUME NEW w \in Workers, Ack(w)
       PROVE  Books'
  <2>1. StepsCounted'
    BY <1>15 DEF Ack, Queue!Complete, Queue!Owns, Queue!jobs, Release, StepsCounted,
       BeforeJob, ProcsSound, JobsSound
  <2>2. LogMatchesExecutor'
    BY <1>15 DEF Ack, Queue!Complete, Queue!Owns, Queue!jobs, Release, ProcsSound,
       StatusKnown, Present, LoopPc, Fits, LogMatchesExecutor, StepsCounted, NoLog,
       Rows, Live, Terminal, Recorded
  <2>3. UNCHANGED <<runs, log>>
    BY <1>15 DEF Ack
  <2> QED BY <2>1, <2>2, <2>3, RowsKept
<1>16. ASSUME NEW w \in Workers, Nack(w)
       PROVE  Books'
  <2>1. StepsCounted'
    BY <1>16 DEF Nack, Queue!Fail, Queue!Owns, Queue!jobs, Release, StepsCounted,
       BeforeJob, ProcsSound, JobsSound
  <2>2. LogMatchesExecutor'
    BY <1>16 DEF Nack, Queue!Fail, Queue!Owns, Queue!jobs, Release, ProcsSound,
       StatusKnown, Present, LoopPc, Fits, LogMatchesExecutor, StepsCounted, NoLog,
       Rows, Live, Terminal, Recorded
  <2>3. UNCHANGED <<runs, log>>
    BY <1>16 DEF Nack
  <2> QED BY <2>1, <2>2, <2>3, RowsKept
<1>17. ASSUME NEW w \in Workers, ResultLost(w)
       PROVE  Books'
  <2>1. StepsCounted'
    BY <1>17 DEF ResultLost, Release, StepsCounted, BeforeJob, ProcsSound, JobsSound
  <2>2. LogMatchesExecutor'
    BY <1>17 DEF ResultLost, Release, ProcsSound, StatusKnown, Present, LoopPc, Fits,
       LogMatchesExecutor, StepsCounted, NoLog, Rows, Live, Terminal, Recorded
  <2>3. UNCHANGED <<runs, log>>
    BY <1>17 DEF ResultLost
  <2> QED BY <2>1, <2>2, <2>3, RowsKept
<1>18. ASSUME NEW r \in Runs, BackoffEnds(r)
       PROVE  Books'
  <2>1. StepsCounted'
    BY <1>18
    DEF BackoffEnds, Queue!BackoffEnds, StepsCounted, BeforeJob, ProcsSound, JobsSound
  <2>2. LogMatchesExecutor'
    BY <1>18 DEF BackoffEnds, Queue!BackoffEnds, ProcsSound, StatusKnown, Present,
       LoopPc, Fits, LogMatchesExecutor, StepsCounted, NoLog, Rows, Live, Terminal,
       Recorded
  <2>3. UNCHANGED <<runs, log>>
    BY <1>18 DEF BackoffEnds
  <2> QED BY <2>1, <2>2, <2>3, RowsKept
<1>19. ASSUME NEW r \in Runs, Stall(r)
       PROVE  Books'
  <2>1. StepsCounted'
    BY <1>19 DEF Stall, Queue!Stall, Queue!Redelivers, StepsCounted, BeforeJob,
       ProcsSound, JobsSound
  <2>2. LogMatchesExecutor'
    BY <1>19 DEF Stall, Queue!Stall, Queue!Redelivers, ProcsSound, StatusKnown,
       Present, LoopPc, Fits, LogMatchesExecutor, StepsCounted, NoLog, Rows, Live,
       Terminal, Recorded
  <2>3. UNCHANGED <<runs, log>>
    BY <1>19 DEF Stall
  <2> QED BY <2>1, <2>2, <2>3, RowsKept
<1>20. ASSUME NEW p \in Procs, SaveInput(p)
       PROVE  Books'
  <2>1. pc[p] = "user" /\ Present(task[p]) /\ UNCHANGED <<runs, task, step, spent, calls>>
    BY <1>20 DEF SaveInput
  <2>2. /\ task[p] \in Runs /\ status[task[p]] = "IN_PROGRESS"
        /\ TotalsMatchMessages' /\ ("cutReply" \notin Faults => CallsAnswered')
    BY <1>20, <2>1, MessageWritten DEF SaveInput, AddRows
  <2>3. log[task[p]] = NoLog /\ spent[p] = 0
    BY <2>1, <2>2 DEF LogMatchesExecutor, Recorded, StepsCounted
  <2>4. log'[task[p]] = [NoLog EXCEPT !["USER"] = 1]
    BY <1>20, <2>2, <2>3 DEF SaveInput, AddRows, NoLog, Rows
  <2>5. \A r \in Runs : r # task[p] => log'[r] = log[r]
    BY <1>20 DEF SaveInput, AddRows
  <2>6. InputSavedOnce'
    <3>1. log'[task[p]]["USER"] = 1
      BY <2>4 DEF NoLog, Rows
    <3> QED BY <2>5, <3>1 DEF InputSavedOnce
  <2>7. StepsCounted'
    BY <1>20 DEF SaveInput, StepsCounted, BeforeJob
  <2>8. Recorded("poll", spent[p], calls[p], log'[task[p]])
    BY <2>3, <2>4 DEF Recorded, NoLog, Rows
  <2>9. LogMatchesExecutor'
    BY <1>20, <2>1, <2>2, <2>5, <2>8, RecordWritten DEF SaveInput
  <2> QED BY <2>2, <2>6, <2>7, <2>9
<1>21. ASSUME NEW p \in Procs, Poll(p)
       PROVE  Books'
  <2>1. StepsCounted'
    BY <1>21 DEF Poll, EndLoop, StepsCounted, BeforeJob, ProcsSound, JobsSound
  <2>2. LogMatchesExecutor'
    BY <1>21 DEF Poll, EndLoop, ProcsSound, StatusKnown, Present, LoopPc, Fits,
       LogMatchesExecutor, StepsCounted, NoLog, Rows, Live, Terminal, Recorded
  <2>3. UNCHANGED <<runs, log>>
    BY <1>21 DEF Poll
  <2> QED BY <2>1, <2>2, <2>3, RowsKept
<1>22. ASSUME NEW p \in Procs, Exhaust(p)
       PROVE  Books'
  <2>1. StepsCounted'
    BY <1>22 DEF Exhaust, EndLoop, StepsCounted, BeforeJob, ProcsSound, JobsSound
  <2>2. LogMatchesExecutor'
    BY <1>22 DEF Exhaust, EndLoop, ProcsSound, StatusKnown, Present, LoopPc, Fits,
       LogMatchesExecutor, StepsCounted, NoLog, Rows, Live, Terminal, Recorded
  <2>3. UNCHANGED <<runs, log>>
    BY <1>22 DEF Exhaust
  <2> QED BY <2>1, <2>2, <2>3, RowsKept
<1>23. ASSUME NEW p \in Procs, NEW n \in 0..MaxCalls, AskForTools(p, n)
       PROVE  Books'
  <2>1. pc[p] = "llm" /\ Present(task[p]) /\ UNCHANGED <<runs, task, step>>
    BY <1>23 DEF AskForTools, SaveAnswer
  <2>2. /\ task[p] \in Runs /\ status[task[p]] = "IN_PROGRESS"
        /\ TotalsMatchMessages' /\ ("cutReply" \notin Faults => CallsAnswered')
    BY <1>23, <2>1, MessageWritten DEF AskForTools, SaveAnswer
  <2>3. Recorded("llm", spent[p], calls[p], log[task[p]])
    BY <2>1, <2>2 DEF LogMatchesExecutor
  <2>4. /\ log'[task[p]]["USER"] = log[task[p]]["USER"] /\ log'[task[p]]["TOOL"] = log[task[p]]["TOOL"]
        /\ log'[task[p]]["ASSISTANT"] = log[task[p]]["ASSISTANT"] + 1
        /\ log'[task[p]]["CALL"] = log[task[p]]["CALL"] + n
    BY <1>23, <2>2 DEF AskForTools, SaveAnswer, Rows
  <2>5. \A r \in Runs : r # task[p] => log'[r] = log[r]
    BY <1>23 DEF AskForTools, SaveAnswer
  <2>6. InputSavedOnce'
    BY <2>2, <2>4, <2>5 DEF InputSavedOnce
  <2>7. StepsCounted'
    BY <1>23 DEF AskForTools, SaveAnswer, StepsCounted, BeforeJob
  <2>8. /\ pc'[p] = "tools" /\ spent'[p] = spent[p] + 1 /\ calls'[p] = n
        /\ \A q \in Procs : q # p => pc'[q] = pc[q] /\ spent'[q] = spent[q] /\ calls'[q] = calls[q]
    BY <1>23 DEF AskForTools, SaveAnswer
  <2>9. Recorded(pc'[p], spent'[p], calls'[p], log'[task[p]])
    BY <2>2, <2>3, <2>4, <2>8, <1>23 DEF Recorded, Rows, AskForTools
  <2>10. LogMatchesExecutor'
    <3>1. /\ pc[p] \notin {"idle", "done"} /\ UNCHANGED <<task, status>>
          /\ \A q \in Procs : q # p => pc'[q] = pc[q] /\ spent'[q] = spent[q] /\ calls'[q] = calls[q]
          /\ \A r \in Runs : r # task[p] => status'[r] = status[r] /\ log'[r] = log[r]
          /\ status'[task[p]] = "IN_PROGRESS"
      BY <2>1, <2>2, <2>5, <2>8
    <3> QED BY <2>9, <3>1, RecordWritten
  <2> QED BY <2>2, <2>6, <2>7, <2>10
<1>24. ASSUME NEW p \in Procs, NEW n \in 0..MaxCalls, Answer(p, n)
       PROVE  Books'
  <2>1. pc[p] = "llm" /\ Present(task[p]) /\ UNCHANGED <<runs, task, step>>
    BY <1>24 DEF Answer, SaveAnswer
  <2>2. /\ task[p] \in Runs /\ status[task[p]] = "IN_PROGRESS"
        /\ TotalsMatchMessages' /\ ("cutReply" \notin Faults => CallsAnswered')
    BY <1>24, <2>1, MessageWritten DEF Answer, SaveAnswer
  <2>3. Recorded("llm", spent[p], calls[p], log[task[p]])
    BY <2>1, <2>2 DEF LogMatchesExecutor
  <2>4. /\ log'[task[p]]["USER"] = log[task[p]]["USER"] /\ log'[task[p]]["TOOL"] = log[task[p]]["TOOL"]
        /\ log'[task[p]]["ASSISTANT"] = log[task[p]]["ASSISTANT"] + 1
        /\ log'[task[p]]["CALL"] = log[task[p]]["CALL"] + n
    BY <1>24, <2>2 DEF Answer, SaveAnswer, Rows
  <2>5. \A r \in Runs : r # task[p] => log'[r] = log[r]
    BY <1>24 DEF Answer, SaveAnswer
  <2>6. InputSavedOnce'
    BY <2>2, <2>4, <2>5 DEF InputSavedOnce
  <2>7. StepsCounted'
    BY <1>24 DEF Answer, SaveAnswer, EndLoop, StepsCounted, BeforeJob
  <2>8. /\ pc'[p] = "final" /\ spent'[p] = spent[p] + 1
        /\ \A q \in Procs : q # p => pc'[q] = pc[q] /\ spent'[q] = spent[q] /\ calls'[q] = calls[q]
    BY <1>24 DEF Answer, SaveAnswer, EndLoop
  <2>9. Recorded(pc'[p], spent'[p], calls'[p], log'[task[p]])
    BY <2>2, <2>3, <2>4, <2>8, <1>24 DEF Recorded, Rows, Answer
  <2>10. LogMatchesExecutor'
    <3>1. /\ pc[p] \notin {"idle", "done"} /\ UNCHANGED <<task, status>>
          /\ \A q \in Procs : q # p => pc'[q] = pc[q] /\ spent'[q] = spent[q] /\ calls'[q] = calls[q]
          /\ \A r \in Runs : r # task[p] => status'[r] = status[r] /\ log'[r] = log[r]
          /\ status'[task[p]] = "IN_PROGRESS"
      BY <2>1, <2>2, <2>5, <2>8
    <3> QED BY <2>9, <3>1, RecordWritten
  <2> QED BY <2>2, <2>6, <2>7, <2>10
<1>25. ASSUME NEW p \in Procs, RunTool(p)
       PROVE  Books'
  <2>1. pc[p] = "tools" /\ Present(task[p]) /\ UNCHANGED <<runs, task, step, spent>>
    BY <1>25 DEF RunTool
  <2>2. /\ task[p] \in Runs /\ status[task[p]] = "IN_PROGRESS"
        /\ TotalsMatchMessages' /\ ("cutReply" \notin Faults => CallsAnswered')
    BY <1>25, <2>1, MessageWritten DEF RunTool, AddRows
  <2>3. Recorded("tools", spent[p], calls[p], log[task[p]])
    BY <2>1, <2>2 DEF LogMatchesExecutor
  <2>4. /\ log'[task[p]]["USER"] = log[task[p]]["USER"] /\ log'[task[p]]["CALL"] = log[task[p]]["CALL"]
        /\ log'[task[p]]["ASSISTANT"] = log[task[p]]["ASSISTANT"]
        /\ log'[task[p]]["TOOL"] = log[task[p]]["TOOL"] + 1
    BY <1>25, <2>2 DEF RunTool, AddRows, Rows
  <2>5. \A r \in Runs : r # task[p] => log'[r] = log[r]
    BY <1>25 DEF RunTool, AddRows
  <2>6. InputSavedOnce'
    BY <2>2, <2>4, <2>5 DEF InputSavedOnce
  <2>7. StepsCounted'
    BY <1>25 DEF RunTool, AfterTool, StepsCounted, BeforeJob
  <2>8. /\ pc'[p] = (IF calls[p] = 1 THEN "poll" ELSE "tools") /\ calls'[p] = calls[p] - 1
        /\ \A q \in Procs : q # p => pc'[q] = pc[q] /\ spent'[q] = spent[q] /\ calls'[q] = calls[q]
    BY <1>25 DEF RunTool, AfterTool
  <2>9. Recorded(pc'[p], spent'[p], calls'[p], log'[task[p]])
    <3>1. /\ calls[p] \in Nat /\ log[task[p]]["TOOL"] \in Nat /\ log[task[p]]["CALL"] \in Nat
          /\ pc'[p] \in {"poll", "tools"} /\ spent'[p] = spent[p]
      BY <2>1, <2>2, <2>8 DEF Rows
    <3>2. CASE calls[p] = 1
      BY <2>3, <2>4, <2>8, <3>1, <3>2 DEF Recorded
    <3>3. CASE calls[p] # 1
      <4>1. pc'[p] = "tools"
        BY <2>8, <3>3
      <4>2. log'[task[p]]["ASSISTANT"] = spent'[p]
        BY <2>3, <2>4, <3>1 DEF Recorded
      <4>3. "cutReply" \notin Faults => log'[task[p]]["CALL"] = log'[task[p]]["TOOL"] + calls'[p]
        <5>1. "cutReply" \notin Faults => log[task[p]]["CALL"] = log[task[p]]["TOOL"] + calls[p]
          BY <2>3 DEF Recorded
        <5>2. \A c, m \in Nat : m + c = (m + 1) + (c - 1)
          OBVIOUS
        <5>3. log[task[p]]["TOOL"] + calls[p] = (log[task[p]]["TOOL"] + 1) + (calls[p] - 1)
          BY <3>1, <5>2
        <5> QED BY <2>4, <2>8, <5>1, <5>3
      <4> QED BY <4>1, <4>2, <4>3 DEF Recorded
    <3> QED BY <3>2, <3>3
  <2>10. LogMatchesExecutor'
    <3>1. /\ pc[p] \notin {"idle", "done"} /\ UNCHANGED <<task, status>>
          /\ \A q \in Procs : q # p => pc'[q] = pc[q] /\ spent'[q] = spent[q] /\ calls'[q] = calls[q]
          /\ \A r \in Runs : r # task[p] => status'[r] = status[r] /\ log'[r] = log[r]
          /\ status'[task[p]] = "IN_PROGRESS"
      BY <2>1, <2>2, <2>5, <2>8
    <3> QED BY <2>9, <3>1, RecordWritten
  <2> QED BY <2>2, <2>6, <2>7, <2>10
<1>26. ASSUME NEW p \in Procs, Settle(p)
       PROVE  Books'
  <2>1. WriteVerdict(p) /\ UNCHANGED <<log, task, step, spent, calls, verdict>>
    BY <1>26 DEF Settle, WriteVerdict
  <2>2. task[p] \in Runs /\ TotalsMatchMessages' /\ ("cutReply" \notin Faults => CallsAnswered')
    BY <2>1, VerdictWritten
  <2>3. InputSavedOnce'
    BY <2>1 DEF InputSavedOnce
  <2>4. StepsCounted'
    BY <1>26 DEF Settle, WriteVerdict, StepsCounted, BeforeJob
  <2>5. pc[p] = "final" /\ pc'[p] \in {"ack", "done", "fail"} /\ \A q \in Procs : q # p => pc'[q] = pc[q]
    BY <1>26 DEF Settle, WriteVerdict
  <2>6. /\ status'[task[p]] \in Verdicts
        /\ \A r \in Runs : r # task[p] => status'[r] = status[r]
    BY <2>1, <2>2 DEF WriteVerdict
  <2>7. Recorded(pc'[p], spent'[p], calls'[p], log'[task[p]])
    BY <2>5 DEF Recorded
  <2>8. LogMatchesExecutor'
    BY <2>1, <2>5, <2>6, <2>7, RecordWritten DEF Verdicts
  <2> QED BY <2>2, <2>3, <2>4, <2>8
<1>27. ASSUME NEW p \in Procs, SettleLost(p)
       PROVE  Books'
  <2>1. WriteVerdict(p) /\ UNCHANGED <<log, task, step, spent, calls, verdict>>
    BY <1>27 DEF SettleLost, WriteVerdict
  <2>2. task[p] \in Runs /\ TotalsMatchMessages' /\ ("cutReply" \notin Faults => CallsAnswered')
    BY <2>1, VerdictWritten
  <2>3. InputSavedOnce'
    BY <2>1 DEF InputSavedOnce
  <2>4. StepsCounted'
    BY <1>27 DEF SettleLost, WriteVerdict, StepsCounted, BeforeJob
  <2>5. pc[p] = "final" /\ pc'[p] \in {"ack", "done", "fail"} /\ \A q \in Procs : q # p => pc'[q] = pc[q]
    BY <1>27 DEF SettleLost, WriteVerdict
  <2>6. /\ status'[task[p]] \in Verdicts
        /\ \A r \in Runs : r # task[p] => status'[r] = status[r]
    BY <2>1, <2>2 DEF WriteVerdict
  <2>7. Recorded(pc'[p], spent'[p], calls'[p], log'[task[p]])
    BY <2>5 DEF Recorded
  <2>8. LogMatchesExecutor'
    BY <2>1, <2>5, <2>6, <2>7, RecordWritten DEF Verdicts
  <2> QED BY <2>2, <2>3, <2>4, <2>8
<1>28. ASSUME NEW p \in Procs, Throw(p)
       PROVE  Books'
  <2>1. StepsCounted'
    BY <1>28 DEF Throw, StepsCounted, BeforeJob, ProcsSound, JobsSound
  <2>2. LogMatchesExecutor'
    BY <1>28 DEF Throw, ProcsSound, StatusKnown, Present, LoopPc, Fits,
       LogMatchesExecutor, StepsCounted, NoLog, Rows, Live, Terminal, Recorded
  <2>3. UNCHANGED <<runs, log>>
    BY <1>28 DEF Throw
  <2> QED BY <2>1, <2>2, <2>3, RowsKept
<1>29. ASSUME NEW p \in Procs, RecordFailure(p)
       PROVE  Books'
  <2>1. StepsCounted'
    BY <1>29 DEF RecordFailure, StepsCounted, BeforeJob, ProcsSound, JobsSound
  <2>2. LogMatchesExecutor'
    BY <1>29 DEF RecordFailure, ProcsSound, StatusKnown, Present, LoopPc, Fits,
       LogMatchesExecutor, StepsCounted, NoLog, Rows, Live, Terminal, Recorded
  <2>3. InputSavedOnce'
    BY <1>29 DEF RecordFailure, InputSavedOnce, NoLog, Rows
  <2>4. TotalsMatchMessages'
    BY <1>29 DEF RecordFailure, ProcsSound, TotalsMatchMessages, Present, Verdicts,
       NoLog, Rows, Live, Terminal
  <2>5. CallsAnswered => CallsAnswered'
    BY <1>29
    DEF RecordFailure, ProcsSound, CallsAnswered, NoLog, Rows, Verdicts, Live, Terminal
  <2> QED BY <2>1, <2>2, <2>3, <2>4, <2>5
<1>30. ASSUME NEW r \in Runs, CancelByUser(r)
       PROVE  Books'
  <2>1. StepsCounted'
    BY <1>30
    DEF CancelByUser, CancelStep, StepsCounted, BeforeJob, ProcsSound, JobsSound
  <2>2. LogMatchesExecutor'
    BY <1>30 DEF CancelByUser, CancelStep, ProcsSound, StatusKnown, Present, LoopPc,
       Fits, LogMatchesExecutor, StepsCounted, NoLog, Rows, Live, Terminal, Recorded
  <2>3. UNCHANGED <<runs, log>>
    BY <1>30 DEF CancelByUser
  <2> QED BY <2>1, <2>2, <2>3, RowsKept
<1>31. ASSUME NEW r \in Runs, CloseStream(r)
       PROVE  Books'
  <2>1. StepsCounted'
    BY <1>31 DEF CloseStream, CancelStep, StepsCounted, BeforeJob, ProcsSound, JobsSound
  <2>2. LogMatchesExecutor'
    BY <1>31 DEF CloseStream, CancelStep, ProcsSound, StatusKnown, Present, LoopPc,
       Fits, LogMatchesExecutor, StepsCounted, NoLog, Rows, Live, Terminal, Recorded
  <2>3. UNCHANGED <<runs, log>>
    BY <1>31 DEF CloseStream
  <2> QED BY <2>1, <2>2, <2>3, RowsKept
<1>32. ASSUME NEW r \in Runs, CancelByClose(r)
       PROVE  Books'
  <2>1. StepsCounted'
    BY <1>32
    DEF CancelByClose, CancelStep, StepsCounted, BeforeJob, ProcsSound, JobsSound
  <2>2. LogMatchesExecutor'
    BY <1>32 DEF CancelByClose, CancelStep, ProcsSound, StatusKnown, Present, LoopPc,
       Fits, LogMatchesExecutor, StepsCounted, NoLog, Rows, Live, Terminal, Recorded
  <2>3. UNCHANGED <<runs, log>>
    BY <1>32 DEF CancelByClose
  <2> QED BY <2>1, <2>2, <2>3, RowsKept
<1>33. ASSUME NEW r \in Runs, NEW c \in Callers, SetFlag(r, c)
       PROVE  Books'
  <2>1. StepsCounted'
    BY <1>33 DEF SetFlag, CancelStep, StepsCounted, BeforeJob, ProcsSound, JobsSound
  <2>2. LogMatchesExecutor'
    BY <1>33 DEF SetFlag, CancelStep, ProcsSound, StatusKnown, Present, LoopPc, Fits,
       LogMatchesExecutor, StepsCounted, NoLog, Rows, Live, Terminal, Recorded
  <2>3. UNCHANGED <<runs, log>>
    BY <1>33 DEF SetFlag
  <2> QED BY <2>1, <2>2, <2>3, RowsKept
<1>34. ASSUME NEW r \in Runs, NEW c \in Callers, DropCancel(r, c)
       PROVE  Books'
  <2>1. StepsCounted'
    BY <1>34 DEF DropCancel, CancelStep, StepsCounted, BeforeJob, ProcsSound, JobsSound
  <2>2. LogMatchesExecutor'
    BY <1>34 DEF DropCancel, CancelStep, ProcsSound, StatusKnown, Present, LoopPc,
       Fits, LogMatchesExecutor, StepsCounted, NoLog, Rows, Live, Terminal, Recorded
  <2>3. UNCHANGED <<runs, log>>
    BY <1>34 DEF DropCancel
  <2> QED BY <2>1, <2>2, <2>3, RowsKept
<1>35. ASSUME NEW r \in Runs, ExpireFlag(r)
       PROVE  Books'
  <2>1. StepsCounted'
    BY <1>35 DEF ExpireFlag, StepsCounted, BeforeJob, ProcsSound, JobsSound
  <2>2. LogMatchesExecutor'
    BY <1>35 DEF ExpireFlag, ProcsSound, StatusKnown, Present, LoopPc, Fits,
       LogMatchesExecutor, StepsCounted, NoLog, Rows, Live, Terminal, Recorded
  <2>3. UNCHANGED <<runs, log>>
    BY <1>35 DEF ExpireFlag
  <2> QED BY <2>1, <2>2, <2>3, RowsKept
<1>36. ASSUME NEW t \in Threads, DeleteThread(t)
       PROVE  Books'
  <2>1. StepsCounted'
    BY <1>36 DEF DeleteThread, StepsCounted, BeforeJob, ProcsSound, JobsSound
  <2>2. LogMatchesExecutor'
    BY <1>36, ZenonT(60) DEF DeleteThread, ProcsSound, StatusKnown, Present, LoopPc, Fits,
       LogMatchesExecutor, StepsCounted, NoLog, Rows, Live, Terminal, Recorded
  <2>3. InputSavedOnce'
    BY <1>36 DEF DeleteThread, InputSavedOnce, NoLog, Rows
  <2>4. TotalsMatchMessages'
    BY <1>36 DEF DeleteThread, ProcsSound, TotalsMatchMessages, Present, Verdicts,
       NoLog, Rows, Live, Terminal
  <2>5. CallsAnswered => CallsAnswered'
    BY <1>36
    DEF DeleteThread, ProcsSound, CallsAnswered, NoLog, Rows, Verdicts, Live, Terminal
  <2> QED BY <2>1, <2>2, <2>3, <2>4, <2>5
<1>37. ASSUME NEW p \in Procs, Crash(p)
       PROVE  Books'
  <2>1. /\ UNCHANGED <<runs, log>>
        /\ pc'[p] \in {"idle", "crashed"}
        /\ pc'[p] = "idle" => step'[p] = 0 /\ spent'[p] = 0 /\ task'[p] = None
        /\ pc'[p] = "crashed" => task'[p] = task[p]
        /\ \A q \in Procs : q # p => /\ pc'[q] = pc[q] /\ task'[q] = task[q] /\ step'[q] = step[q]
                                    /\ spent'[q] = spent[q] /\ calls'[q] = calls[q]
                                    /\ verdict'[q] = verdict[q]
    <3>1. CASE p \in Workers
      BY <1>37, <3>1 DEF Crash, Release
    <3>2. CASE p \notin Workers
      BY <1>37, <3>2 DEF Crash
    <3> QED BY <3>1, <3>2
  <2>2. StepsCounted'
    BY <2>1, ZenonT(60) DEF StepsCounted, BeforeJob
  <2>3. LogMatchesExecutor'
    BY <2>1, SMTT(60) DEF LogMatchesExecutor, Recorded, Present
  <2> QED BY <2>1, <2>2, <2>3, RowsKept
<1>38. ASSUME UNCHANGED vars PROVE Books'
  BY <1>38, RowsKept DEF vars, StepsCounted, LogMatchesExecutor, Recorded, Present
<1> QED
  BY <1>1, <1>2, <1>3, <1>4, <1>5, <1>6, <1>7, <1>8, <1>9, <1>10, <1>11, <1>12, <1>13,
     <1>14, <1>15, <1>16, <1>17, <1>18, <1>19, <1>20, <1>21, <1>22, <1>23, <1>24,
     <1>25, <1>26, <1>27, <1>28, <1>29, <1>30, <1>31, <1>32, <1>33, <1>34, <1>35,
     <1>36, <1>37, <1>38
  DEF Next, Request, Work, Loop, Timers, Cancelling

\* The inductive invariant holds in every reachable state.
LEMMA AccountedAlways == "lockLoss" \notin Faults => (Spec => []Accounted)
<1> SUFFICES ASSUME "lockLoss" \notin Faults PROVE Spec => []Accounted
  OBVIOUS
<1>1. Init => Accounted
  BY ExclusiveInit, BooksInit DEF Accounted
<1>2. Accounted /\ [Next]_vars => Accounted'
  BY ExclusiveStep, BooksStep DEF Accounted
<1> QED BY <1>1, <1>2, PTL DEF Spec

\* Unless a worker loses a lock, the user's input is persisted at most once per
\* run, however often its job is retried or redelivered.
THEOREM InputOnce == "lockLoss" \notin Faults => (Spec => []InputSavedOnce)
<1> SUFFICES ASSUME "lockLoss" \notin Faults PROVE Spec => []InputSavedOnce
  OBVIOUS
<1>1. Spec => []Accounted
  BY AccountedAlways
<1>2. Accounted => InputSavedOnce
  BY DEF Accounted, Books
<1> QED BY <1>1, <1>2, PTL

\* Unless a worker loses a lock, the totals of a run that ended by a verdict are
\* those of its messages, whatever other processes, runs and threads do.
THEOREM TotalsRight == "lockLoss" \notin Faults => (Spec => []TotalsMatchMessages)
<1> SUFFICES ASSUME "lockLoss" \notin Faults PROVE Spec => []TotalsMatchMessages
  OBVIOUS
<1>1. Spec => []Accounted
  BY AccountedAlways
<1>2. Accounted => TotalsMatchMessages
  BY DEF Accounted, Books
<1> QED BY <1>1, <1>2, PTL

\* Unless a worker loses a lock, or a model sends tool calls with a finish reason
\* that is not tool_calls, every call of a run that ended by a verdict is answered.
THEOREM NoDanglingCalls == {"lockLoss", "cutReply"} \cap Faults = {} => (Spec => []CallsAnswered)
<1> SUFFICES ASSUME {"lockLoss", "cutReply"} \cap Faults = {} PROVE Spec => []CallsAnswered
  OBVIOUS
<1>1. Spec => []Accounted
  BY AccountedAlways
<1>2. Accounted => CallsAnswered
  BY DEF Accounted, Books
<1> QED BY <1>1, <1>2, PTL

-----------------------------------------------------------------------------
(* Refinement.  With a lost lock, or a lost reply of a committed write, a run *)
(* that has ended may be executed again, or turn from COMPLETED to FAILED. *)

\* A step that leaves the statuses and the set of runs asked to cancel alone.
LEMMA LifecycleStutters ==
  ASSUME UNCHANGED status, \A r \in Runs : Asked(r)' <=> Asked(r)
  PROVE  UNCHANGED Lifecycle!vars
  BY DEF Lifecycle!vars

\* A status written by a process at work: of a run that has not ended.
LEMMA WriterIsCurrent ==
  ASSUME Exclusive, "lostReply" \notin Faults, NEW p \in Procs, Present(task[p]),
         pc[p] \in {"mark", "final", "fail"}
  PROVE  /\ task[p] \in Runs
         /\ status[task[p]] = IF pc[p] = "mark" THEN "PENDING" ELSE "IN_PROGRESS"
<1>1. task[p] \in Runs
  BY DEF Exclusive, Sound, ProcsSound
<1>2. Fits(pc[p], status[task[p]])
  BY <1>1 DEF Exclusive, StatusKnown
<1> QED BY <1>1, <1>2 DEF Fits, LoopPc, Present, Live, Terminal, Verdicts

\* Every step of the system is a step of the lifecycle, or none.
LEMMA LifecycleStep ==
  ASSUME Exclusive, CancelJustified, [Next]_vars, "lostReply" \notin Faults
  PROVE  [Lifecycle!Next]_(Lifecycle!vars)
<1> USE DEF Exclusive, Sound, TypeOK, Queue!TypeOK, Goto, runs, requests, locals, jobs,
       cancels, Procs
<1>1. ASSUME NEW r \in Runs, NEW m \in {"sync", "stream", "async"}, Submit(r, m)
      PROVE  Lifecycle!Next \/ UNCHANGED Lifecycle!vars
  <2>1. UNCHANGED <<status, cancel>>
    BY <1>1 DEF Submit
  <2> QED BY <2>1, LifecycleStutters DEF Asked
<1>2. ASSUME NEW r \in Runs, NEW t \in Threads, Resolve(r, t)
      PROVE  Lifecycle!Next \/ UNCHANGED Lifecycle!vars
  <2>1. UNCHANGED <<status, cancel>>
    BY <1>2 DEF Resolve
  <2> QED BY <2>1, LifecycleStutters DEF Asked
<1>3. ASSUME NEW r \in Runs, Reject(r)
      PROVE  Lifecycle!Next \/ UNCHANGED Lifecycle!vars
  <2>1. UNCHANGED <<status, cancel>>
    BY <1>3 DEF Reject
  <2> QED BY <2>1, LifecycleStutters DEF Asked
<1>4. ASSUME NEW r \in Runs, Open(r)
      PROVE  Lifecycle!Next \/ UNCHANGED Lifecycle!vars
  <2>1. pc[r] = "open" /\ task[r] = r
    BY <1>4 DEF Open, InsertRow, ProcsSound
  <2>2. status[r] = "NONE"
    BY <2>1 DEF StatusKnown, Fits
  <2>3. \E s \in Lifecycle!Live : status' = [status EXCEPT ![r] = s]
    BY <1>4 DEF Open, InsertRow, Lifecycle!Live
  <2>4. \A x \in Runs : Asked(x)' <=> Asked(x)
    BY <1>4 DEF Open, InsertRow, Asked
  <2>5. Lifecycle!Open(r)
    BY <2>2, <2>3, <2>4 DEF Lifecycle!Open
  <2> QED BY <2>5 DEF Lifecycle!Next
<1>5. ASSUME NEW r \in Runs, OpenLost(r)
      PROVE  Lifecycle!Next \/ UNCHANGED Lifecycle!vars
  BY <1>5 DEF OpenLost
<1>6. ASSUME NEW r \in Runs, Announce(r)
      PROVE  Lifecycle!Next \/ UNCHANGED Lifecycle!vars
  <2>1. UNCHANGED <<status, cancel>>
    BY <1>6 DEF Announce
  <2> QED BY <2>1, LifecycleStutters DEF Asked
<1>7. ASSUME NEW r \in Runs, Enqueue(r)
      PROVE  Lifecycle!Next \/ UNCHANGED Lifecycle!vars
  <2>1. UNCHANGED <<status, cancel>>
    BY <1>7 DEF Enqueue, Queue!Add
  <2> QED BY <2>1, LifecycleStutters DEF Asked
<1>8. ASSUME NEW r \in Runs, EnqueueFails(r)
      PROVE  Lifecycle!Next \/ UNCHANGED Lifecycle!vars
  <2>1. UNCHANGED <<status, cancel>>
    BY <1>8 DEF EnqueueFails
  <2> QED BY <2>1, LifecycleStutters DEF Asked
<1>9. ASSUME NEW w \in Workers, NEW r \in Runs, TakeJob(w, r)
      PROVE  Lifecycle!Next \/ UNCHANGED Lifecycle!vars
  <2>1. UNCHANGED <<status, cancel>>
    BY <1>9 DEF TakeJob, Queue!Take
  <2> QED BY <2>1, LifecycleStutters DEF Asked
<1>10. ASSUME NEW w \in Workers, Fetch(w)
       PROVE  Lifecycle!Next \/ UNCHANGED Lifecycle!vars
  <2>1. UNCHANGED <<status, cancel>>
    BY <1>10 DEF Fetch, TakesUp
  <2> QED BY <2>1, LifecycleStutters DEF Asked
<1>11. ASSUME NEW w \in Workers, Load(w)
       PROVE  Lifecycle!Next \/ UNCHANGED Lifecycle!vars
  <2>1. UNCHANGED <<status, cancel>>
    BY <1>11 DEF Load
  <2> QED BY <2>1, LifecycleStutters DEF Asked
<1>12. ASSUME NEW w \in Workers, Start(w)
       PROVE  Lifecycle!Next \/ UNCHANGED Lifecycle!vars
  <2>1. pc[w] = "mark" /\ Present(task[w])
    BY <1>12 DEF Start, MarkInProgress
  <2>2. task[w] \in Runs /\ status[task[w]] = "PENDING"
    BY <2>1, WriterIsCurrent
  <2>3. status' = [status EXCEPT ![task[w]] = "IN_PROGRESS"]
    BY <1>12 DEF Start, MarkInProgress
  <2>4. \A x \in Runs : Asked(x)' <=> Asked(x)
    BY <1>12 DEF Start, MarkInProgress, Asked
  <2>5. Lifecycle!Start(task[w])
    BY <2>2, <2>3, <2>4 DEF Lifecycle!Start
  <2> QED BY <2>2, <2>5 DEF Lifecycle!Next
<1>13. ASSUME NEW w \in Workers, StartLost(w)
       PROVE  Lifecycle!Next \/ UNCHANGED Lifecycle!vars
  BY <1>13 DEF StartLost
<1>14. ASSUME NEW w \in Workers, FailEarly(w)
       PROVE  Lifecycle!Next \/ UNCHANGED Lifecycle!vars
  <2>1. UNCHANGED <<status, cancel>>
    BY <1>14 DEF FailEarly
  <2> QED BY <2>1, LifecycleStutters DEF Asked
<1>15. ASSUME NEW w \in Workers, Ack(w)
       PROVE  Lifecycle!Next \/ UNCHANGED Lifecycle!vars
  <2>1. UNCHANGED <<status, cancel>>
    BY <1>15 DEF Ack, Queue!Complete, Queue!Owns, Queue!jobs, Release
  <2> QED BY <2>1, LifecycleStutters DEF Asked
<1>16. ASSUME NEW w \in Workers, Nack(w)
       PROVE  Lifecycle!Next \/ UNCHANGED Lifecycle!vars
  <2>1. UNCHANGED <<status, cancel>>
    BY <1>16 DEF Nack, Queue!Fail, Queue!Owns, Queue!jobs, Release
  <2> QED BY <2>1, LifecycleStutters DEF Asked
<1>17. ASSUME NEW w \in Workers, ResultLost(w)
       PROVE  Lifecycle!Next \/ UNCHANGED Lifecycle!vars
  <2>1. UNCHANGED <<status, cancel>>
    BY <1>17 DEF ResultLost, Release
  <2> QED BY <2>1, LifecycleStutters DEF Asked
<1>18. ASSUME NEW r \in Runs, BackoffEnds(r)
       PROVE  Lifecycle!Next \/ UNCHANGED Lifecycle!vars
  <2>1. UNCHANGED <<status, cancel>>
    BY <1>18 DEF BackoffEnds, Queue!BackoffEnds
  <2> QED BY <2>1, LifecycleStutters DEF Asked
<1>19. ASSUME NEW r \in Runs, Stall(r)
       PROVE  Lifecycle!Next \/ UNCHANGED Lifecycle!vars
  <2>1. UNCHANGED <<status, cancel>>
    BY <1>19 DEF Stall, Queue!Stall, Queue!Redelivers
  <2> QED BY <2>1, LifecycleStutters DEF Asked
<1>20. ASSUME NEW p \in Procs, SaveInput(p)
       PROVE  Lifecycle!Next \/ UNCHANGED Lifecycle!vars
  <2>1. UNCHANGED <<status, cancel>>
    BY <1>20 DEF SaveInput, AddRows
  <2> QED BY <2>1, LifecycleStutters DEF Asked
<1>21. ASSUME NEW p \in Procs, Poll(p)
       PROVE  Lifecycle!Next \/ UNCHANGED Lifecycle!vars
  <2>1. UNCHANGED <<status, cancel>>
    BY <1>21 DEF Poll, EndLoop
  <2> QED BY <2>1, LifecycleStutters DEF Asked
<1>22. ASSUME NEW p \in Procs, Exhaust(p)
       PROVE  Lifecycle!Next \/ UNCHANGED Lifecycle!vars
  <2>1. UNCHANGED <<status, cancel>>
    BY <1>22 DEF Exhaust, EndLoop
  <2> QED BY <2>1, LifecycleStutters DEF Asked
<1>23. ASSUME NEW p \in Procs, NEW n \in 0..MaxCalls, AskForTools(p, n)
       PROVE  Lifecycle!Next \/ UNCHANGED Lifecycle!vars
  <2>1. UNCHANGED <<status, cancel>>
    BY <1>23 DEF AskForTools, SaveAnswer
  <2> QED BY <2>1, LifecycleStutters DEF Asked
<1>24. ASSUME NEW p \in Procs, NEW n \in 0..MaxCalls, Answer(p, n)
       PROVE  Lifecycle!Next \/ UNCHANGED Lifecycle!vars
  <2>1. UNCHANGED <<status, cancel>>
    BY <1>24 DEF Answer, SaveAnswer, EndLoop
  <2> QED BY <2>1, LifecycleStutters DEF Asked
<1>25. ASSUME NEW p \in Procs, RunTool(p)
       PROVE  Lifecycle!Next \/ UNCHANGED Lifecycle!vars
  <2>1. UNCHANGED <<status, cancel>>
    BY <1>25 DEF RunTool, AddRows, AfterTool
  <2> QED BY <2>1, LifecycleStutters DEF Asked
<1>26. ASSUME NEW p \in Procs, Settle(p)
       PROVE  Lifecycle!Next \/ UNCHANGED Lifecycle!vars
  <2>1. pc[p] = "final" /\ Present(task[p])
    BY <1>26 DEF Settle, WriteVerdict
  <2>2. task[p] \in Runs /\ status[task[p]] = "IN_PROGRESS"
    BY <2>1, WriterIsCurrent
  <2>3. status' = [status EXCEPT ![task[p]] = verdict[p]] /\ verdict[p] \in Lifecycle!Terminal
    BY <1>26 DEF Settle, WriteVerdict, Verdicts, Lifecycle!Terminal
  <2>4. \A x \in Runs : Asked(x)' <=> Asked(x)
    BY <1>26 DEF Settle, WriteVerdict, Asked
  <2>5. verdict[p] = "CANCELLED" => Asked(task[p])
    BY <2>1 DEF CancelJustified
  <2>6. Lifecycle!Settle(task[p], verdict[p])
    BY <2>2, <2>3, <2>4, <2>5 DEF Lifecycle!Settle
  <2> QED BY <2>2, <2>3, <2>6 DEF Lifecycle!Next
<1>27. ASSUME NEW p \in Procs, SettleLost(p)
       PROVE  Lifecycle!Next \/ UNCHANGED Lifecycle!vars
  BY <1>27 DEF SettleLost
<1>28. ASSUME NEW p \in Procs, Throw(p)
       PROVE  Lifecycle!Next \/ UNCHANGED Lifecycle!vars
  <2>1. UNCHANGED <<status, cancel>>
    BY <1>28 DEF Throw
  <2> QED BY <2>1, LifecycleStutters DEF Asked
<1>29. ASSUME NEW p \in Procs, RecordFailure(p)
       PROVE  Lifecycle!Next \/ UNCHANGED Lifecycle!vars
  <2>1. \A x \in Runs : Asked(x)' <=> Asked(x)
    BY <1>29 DEF RecordFailure, Asked
  <2>2. CASE UNCHANGED status
    BY <2>1, <2>2, LifecycleStutters
  <2>3. CASE Present(task[p]) /\ status' = [status EXCEPT ![task[p]] = "FAILED"]
    <3>1. task[p] \in Runs /\ status[task[p]] = "IN_PROGRESS"
      BY <1>29, <2>3, WriterIsCurrent DEF RecordFailure
    <3>2. "FAILED" \in Lifecycle!Terminal
      BY DEF Lifecycle!Terminal
    <3>3. Lifecycle!Settle(task[p], "FAILED")
      BY <2>1, <2>3, <3>1 DEF Lifecycle!Settle
    <3> QED BY <3>1, <3>2, <3>3 DEF Lifecycle!Next
  <2> QED BY <1>29, <2>2, <2>3 DEF RecordFailure
<1>30. ASSUME NEW r \in Runs, CancelByUser(r)
       PROVE  Lifecycle!Next \/ UNCHANGED Lifecycle!vars
  <2>1. status[r] \in Lifecycle!Live /\ UNCHANGED status
    BY <1>30 DEF CancelByUser, Live, Lifecycle!Live
  <2>2. Asked(r)'
    BY <1>30 DEF CancelByUser, CancelStep, Asked, Callers
  <2>3. \A x \in Runs : x # r => (Asked(x)' <=> Asked(x))
    BY <1>30 DEF CancelByUser, CancelStep, Asked
  <2>4. Lifecycle!AskCancel(r)
    BY <2>1, <2>2, <2>3 DEF Lifecycle!AskCancel
  <2> QED BY <2>4 DEF Lifecycle!Next
<1>31. ASSUME NEW r \in Runs, CloseStream(r)
       PROVE  Lifecycle!Next \/ UNCHANGED Lifecycle!vars
  <2>1. UNCHANGED status
    BY <1>31 DEF CloseStream
  <2>2. CASE known[r]
    <3>1. /\ cancel'[r]["user"] = cancel[r]["user"]
          /\ cancel[r]["close"] = "none" /\ cancel'[r]["close"] = "read"
          /\ \A x \in Runs : x # r => cancel'[x] = cancel[x]
      BY <1>31, <2>2 DEF CloseStream, CancelStep, Callers, CancelJustified
    <3>2. \A x \in Runs : Asked(x)' <=> Asked(x)
      BY <3>1 DEF Asked, Callers
    <3> QED BY <2>1, <3>2, LifecycleStutters
  <2>3. CASE ~known[r]
    BY <1>31, <2>1, <2>3, LifecycleStutters DEF CloseStream, Asked
  <2> QED BY <2>2, <2>3
<1>32. ASSUME NEW r \in Runs, CancelByClose(r)
       PROVE  Lifecycle!Next \/ UNCHANGED Lifecycle!vars
  <2>1. \A x \in Runs : x # r => (Asked(x)' <=> Asked(x))
    BY <1>32 DEF CancelByClose, CancelStep, Asked
  <2>2. CASE status[r] \in Live
    <3>1. Asked(r)'
      BY <1>32, <2>2 DEF CancelByClose, CancelStep, Asked, Callers
    <3>2. Lifecycle!AskCancel(r)
      BY <1>32, <2>1, <2>2, <3>1
      DEF CancelByClose, Live, Lifecycle!AskCancel, Lifecycle!Live
    <3> QED BY <3>2 DEF Lifecycle!Next
  <2>3. CASE status[r] \notin Live
    <3>1. /\ cancel'[r]["user"] = cancel[r]["user"]
          /\ cancel'[r]["close"] = "none" /\ cancel[r]["close"] = "read"
      BY <1>32, <2>3 DEF CancelByClose, CancelStep, Callers
    <3>2. Asked(r)' <=> Asked(r)
      BY <3>1 DEF Asked, Callers
    <3> QED BY <1>32, <2>1, <3>2, LifecycleStutters DEF CancelByClose
  <2> QED BY <2>2, <2>3
<1>33. ASSUME NEW r \in Runs, NEW c \in Callers, SetFlag(r, c)
       PROVE  Lifecycle!Next \/ UNCHANGED Lifecycle!vars
  <2>1. UNCHANGED status
    BY <1>33 DEF SetFlag
  <2>2. \A x \in Runs : Asked(x)' <=> Asked(x)
    BY <1>33 DEF SetFlag, CancelStep, Asked
  <2> QED BY <2>1, <2>2, LifecycleStutters
<1>34. ASSUME NEW r \in Runs, NEW c \in Callers, DropCancel(r, c)
       PROVE  Lifecycle!Next \/ UNCHANGED Lifecycle!vars
  <2>1. UNCHANGED status
    BY <1>34 DEF DropCancel
  <2>2. CASE cancel[r][c] = "read" /\ CancelStep(r, c, "none")
    BY <2>1, <2>2, LifecycleStutters DEF CancelStep, Asked
  <2>3. CASE cancel[r][c] = "set" /\ CancelStep(r, c, "done")
    BY <2>1, <2>3, LifecycleStutters DEF CancelStep, Asked
  <2> QED BY <1>34, <2>2, <2>3 DEF DropCancel
<1>35. ASSUME NEW r \in Runs, ExpireFlag(r)
       PROVE  Lifecycle!Next \/ UNCHANGED Lifecycle!vars
  <2>1. UNCHANGED <<status, cancel>>
    BY <1>35 DEF ExpireFlag
  <2> QED BY <2>1, LifecycleStutters DEF Asked
<1>36. ASSUME NEW t \in Threads, DeleteThread(t)
       PROVE  Lifecycle!Next \/ UNCHANGED Lifecycle!vars
  <2> DEFINE R == {r \in Runs : threadOf[r] = t /\ Present(r)}
  <2>1. \A r \in R : status[r] \in Lifecycle!Live \cup Lifecycle!Terminal
    BY DEF Present, Live, Terminal, Lifecycle!Live, Lifecycle!Terminal
  <2>2. status' = [r \in Runs |-> IF r \in R THEN "GONE" ELSE status[r]]
    BY <1>36 DEF DeleteThread
  <2>3. \A x \in Runs : Asked(x)' <=> Asked(x)
    BY <1>36 DEF DeleteThread, Asked
  <2>4. Lifecycle!Delete(R) /\ R \in SUBSET Runs
    BY <2>1, <2>2, <2>3 DEF Lifecycle!Delete
  <2> QED BY <2>4 DEF Lifecycle!Next
<1>37. ASSUME NEW p \in Procs, Crash(p)
       PROVE  Lifecycle!Next \/ UNCHANGED Lifecycle!vars
  <2>1. UNCHANGED <<status, cancel>>
    BY <1>37 DEF Crash, Release
  <2> QED BY <2>1, LifecycleStutters DEF Asked
<1>38. ASSUME UNCHANGED vars PROVE UNCHANGED Lifecycle!vars
  BY <1>38, LifecycleStutters DEF vars, Asked
<1> QED
  BY <1>1, <1>2, <1>3, <1>4, <1>5, <1>6, <1>7, <1>8, <1>9, <1>10, <1>11, <1>12, <1>13,
     <1>14, <1>15, <1>16, <1>17, <1>18, <1>19, <1>20, <1>21, <1>22, <1>23, <1>24,
     <1>25, <1>26, <1>27, <1>28, <1>29, <1>30, <1>31, <1>32, <1>33, <1>34, <1>35,
     <1>36, <1>37, <1>38
  DEF Next, Request, Work, Loop, Timers, Cancelling

\* Initially no run is open and none was asked to cancel.
LEMMA LifecycleInit == Init => Lifecycle!Init
  BY DEF Init, Asked, Callers, Lifecycle!Init

\* The runs of the system live the documented lifecycle, whatever errors and
\* crashes happen: final statuses stay, CANCELLED needs a cancel in time, rows
\* vanish only with their thread.
THEOREM ImplementsLifecycle == {"lockLoss", "lostReply"} \cap Faults = {} => (Spec => RefinesLifecycle)
<1> SUFFICES ASSUME {"lockLoss", "lostReply"} \cap Faults = {} PROVE Spec => RefinesLifecycle
  OBVIOUS
<1>1. Init => Lifecycle!Init
  BY LifecycleInit
<1>2. Exclusive /\ CancelJustified /\ [Next]_vars => [Lifecycle!Next]_(Lifecycle!vars)
  BY LifecycleStep
<1>3. Spec => []Exclusive
  BY ExclusiveAlways
<1>4. Spec => []CancelJustified
  BY CancelJustifiedAlways
<1> QED BY <1>1, <1>2, <1>3, <1>4, PTL DEF Spec, RefinesLifecycle, Lifecycle!Spec

-----------------------------------------------------------------------------
\* A step that writes the row of one run, which has not ended.
LEMMA LiveRowWritten ==
  ASSUME Sound, NEW x \in Runs, status[x] \notin Terminal,
         NEW s, NEW n, NEW k,
         status' = [status EXCEPT ![x] = s],
         stepCount' = [stepCount EXCEPT ![x] = n] \/ UNCHANGED stepCount,
         tokens' = [tokens EXCEPT ![x] = k] \/ UNCHANGED tokens
  PROVE  \A r \in Runs : status[r] \in Terminal => RowStays(r)
  BY DEF Sound, TypeOK, Queue!TypeOK, RowStays

\* No step writes the row of a run that has ended.
LEMMA EndedStep ==
  ASSUME Exclusive, [Next]_vars, "lostReply" \notin Faults
  PROVE  \A r \in Runs : status[r] \in Terminal => RowStays(r)
<1> USE DEF Exclusive, Sound, TypeOK, Queue!TypeOK, Goto, runs, requests, locals, jobs,
       cancels, Procs
<1>1. ASSUME NEW r \in Runs, NEW m \in {"sync", "stream", "async"}, Submit(r, m)
      PROVE  \A x \in Runs : status[x] \in Terminal => RowStays(x)
  BY <1>1 DEF Submit, RowStays
<1>2. ASSUME NEW r \in Runs, NEW t \in Threads, Resolve(r, t)
      PROVE  \A x \in Runs : status[x] \in Terminal => RowStays(x)
  BY <1>2 DEF Resolve, RowStays
<1>3. ASSUME NEW r \in Runs, Reject(r)
      PROVE  \A x \in Runs : status[x] \in Terminal => RowStays(x)
  BY <1>3 DEF Reject, RowStays
<1>4. ASSUME NEW r \in Runs, Open(r)
      PROVE  \A x \in Runs : status[x] \in Terminal => RowStays(x)
  <2>1. pc[r] = "open" /\ task[r] = r
    BY <1>4 DEF Open, InsertRow, ProcsSound
  <2>2. status[r] \notin Terminal
    BY <2>1 DEF StatusKnown, Fits, Terminal
  <2> QED BY <1>4, <2>2, LiveRowWritten DEF Open, InsertRow
<1>5. ASSUME NEW r \in Runs, OpenLost(r)
      PROVE  \A x \in Runs : status[x] \in Terminal => RowStays(x)
  BY <1>5 DEF OpenLost
<1>6. ASSUME NEW r \in Runs, Announce(r)
      PROVE  \A x \in Runs : status[x] \in Terminal => RowStays(x)
  BY <1>6 DEF Announce, RowStays
<1>7. ASSUME NEW r \in Runs, Enqueue(r)
      PROVE  \A x \in Runs : status[x] \in Terminal => RowStays(x)
  BY <1>7 DEF Enqueue, Queue!Add, RowStays
<1>8. ASSUME NEW r \in Runs, EnqueueFails(r)
      PROVE  \A x \in Runs : status[x] \in Terminal => RowStays(x)
  BY <1>8 DEF EnqueueFails, RowStays
<1>9. ASSUME NEW w \in Workers, NEW r \in Runs, TakeJob(w, r)
      PROVE  \A x \in Runs : status[x] \in Terminal => RowStays(x)
  BY <1>9 DEF TakeJob, Queue!Take, RowStays
<1>10. ASSUME NEW w \in Workers, Fetch(w)
       PROVE  \A x \in Runs : status[x] \in Terminal => RowStays(x)
  BY <1>10 DEF Fetch, TakesUp, RowStays
<1>11. ASSUME NEW w \in Workers, Load(w)
       PROVE  \A x \in Runs : status[x] \in Terminal => RowStays(x)
  BY <1>11 DEF Load, RowStays
<1>12. ASSUME NEW w \in Workers, Start(w)
       PROVE  \A x \in Runs : status[x] \in Terminal => RowStays(x)
  <2>1. task[w] \in Runs /\ status[task[w]] \notin Terminal
    BY <1>12, WriterIsCurrent DEF Start, MarkInProgress, Terminal
  <2> QED BY <1>12, <2>1, LiveRowWritten DEF Start, MarkInProgress
<1>13. ASSUME NEW w \in Workers, StartLost(w)
       PROVE  \A x \in Runs : status[x] \in Terminal => RowStays(x)
  BY <1>13 DEF StartLost
<1>14. ASSUME NEW w \in Workers, FailEarly(w)
       PROVE  \A x \in Runs : status[x] \in Terminal => RowStays(x)
  BY <1>14 DEF FailEarly, RowStays
<1>15. ASSUME NEW w \in Workers, Ack(w)
       PROVE  \A x \in Runs : status[x] \in Terminal => RowStays(x)
  BY <1>15 DEF Ack, Queue!Complete, Queue!Owns, Queue!jobs, Release, RowStays
<1>16. ASSUME NEW w \in Workers, Nack(w)
       PROVE  \A x \in Runs : status[x] \in Terminal => RowStays(x)
  BY <1>16 DEF Nack, Queue!Fail, Queue!Owns, Queue!jobs, Release, RowStays
<1>17. ASSUME NEW w \in Workers, ResultLost(w)
       PROVE  \A x \in Runs : status[x] \in Terminal => RowStays(x)
  BY <1>17 DEF ResultLost, Release, RowStays
<1>18. ASSUME NEW r \in Runs, BackoffEnds(r)
       PROVE  \A x \in Runs : status[x] \in Terminal => RowStays(x)
  BY <1>18 DEF BackoffEnds, Queue!BackoffEnds, RowStays
<1>19. ASSUME NEW r \in Runs, Stall(r)
       PROVE  \A x \in Runs : status[x] \in Terminal => RowStays(x)
  BY <1>19 DEF Stall, Queue!Stall, Queue!Redelivers, RowStays
<1>20. ASSUME NEW p \in Procs, SaveInput(p)
       PROVE  \A x \in Runs : status[x] \in Terminal => RowStays(x)
  BY <1>20 DEF SaveInput, AddRows, RowStays
<1>21. ASSUME NEW p \in Procs, Poll(p)
       PROVE  \A x \in Runs : status[x] \in Terminal => RowStays(x)
  BY <1>21 DEF Poll, EndLoop, RowStays
<1>22. ASSUME NEW p \in Procs, Exhaust(p)
       PROVE  \A x \in Runs : status[x] \in Terminal => RowStays(x)
  BY <1>22 DEF Exhaust, EndLoop, RowStays
<1>23. ASSUME NEW p \in Procs, NEW n \in 0..MaxCalls, AskForTools(p, n)
       PROVE  \A x \in Runs : status[x] \in Terminal => RowStays(x)
  BY <1>23 DEF AskForTools, SaveAnswer, RowStays
<1>24. ASSUME NEW p \in Procs, NEW n \in 0..MaxCalls, Answer(p, n)
       PROVE  \A x \in Runs : status[x] \in Terminal => RowStays(x)
  BY <1>24 DEF Answer, SaveAnswer, EndLoop, RowStays
<1>25. ASSUME NEW p \in Procs, RunTool(p)
       PROVE  \A x \in Runs : status[x] \in Terminal => RowStays(x)
  BY <1>25 DEF RunTool, AddRows, AfterTool, RowStays
<1>26. ASSUME NEW p \in Procs, Settle(p)
       PROVE  \A x \in Runs : status[x] \in Terminal => RowStays(x)
  <2>1. task[p] \in Runs /\ status[task[p]] \notin Terminal
    BY <1>26, WriterIsCurrent DEF Settle, WriteVerdict, Terminal
  <2> QED BY <1>26, <2>1, LiveRowWritten DEF Settle, WriteVerdict
<1>27. ASSUME NEW p \in Procs, SettleLost(p)
       PROVE  \A x \in Runs : status[x] \in Terminal => RowStays(x)
  BY <1>27 DEF SettleLost
<1>28. ASSUME NEW p \in Procs, Throw(p)
       PROVE  \A x \in Runs : status[x] \in Terminal => RowStays(x)
  BY <1>28 DEF Throw, RowStays
<1>29. ASSUME NEW p \in Procs, RecordFailure(p)
       PROVE  \A x \in Runs : status[x] \in Terminal => RowStays(x)
  <2>1. CASE UNCHANGED status
    BY <1>29, <2>1 DEF RecordFailure, RowStays
  <2>2. CASE Present(task[p]) /\ status' = [status EXCEPT ![task[p]] = "FAILED"]
    <3>1. task[p] \in Runs /\ status[task[p]] \notin Terminal
      BY <1>29, <2>2, WriterIsCurrent DEF RecordFailure, Terminal
    <3> QED BY <1>29, <2>2, <3>1, LiveRowWritten DEF RecordFailure
  <2> QED BY <1>29, <2>1, <2>2 DEF RecordFailure
<1>30. ASSUME NEW r \in Runs, CancelByUser(r)
       PROVE  \A x \in Runs : status[x] \in Terminal => RowStays(x)
  BY <1>30 DEF CancelByUser, CancelStep, RowStays
<1>31. ASSUME NEW r \in Runs, CloseStream(r)
       PROVE  \A x \in Runs : status[x] \in Terminal => RowStays(x)
  BY <1>31 DEF CloseStream, CancelStep, RowStays
<1>32. ASSUME NEW r \in Runs, CancelByClose(r)
       PROVE  \A x \in Runs : status[x] \in Terminal => RowStays(x)
  BY <1>32 DEF CancelByClose, CancelStep, RowStays
<1>33. ASSUME NEW r \in Runs, NEW c \in Callers, SetFlag(r, c)
       PROVE  \A x \in Runs : status[x] \in Terminal => RowStays(x)
  BY <1>33 DEF SetFlag, CancelStep, RowStays
<1>34. ASSUME NEW r \in Runs, NEW c \in Callers, DropCancel(r, c)
       PROVE  \A x \in Runs : status[x] \in Terminal => RowStays(x)
  BY <1>34 DEF DropCancel, CancelStep, RowStays
<1>35. ASSUME NEW r \in Runs, ExpireFlag(r)
       PROVE  \A x \in Runs : status[x] \in Terminal => RowStays(x)
  BY <1>35 DEF ExpireFlag, RowStays
<1>36. ASSUME NEW t \in Threads, DeleteThread(t)
       PROVE  \A x \in Runs : status[x] \in Terminal => RowStays(x)
  BY <1>36 DEF DeleteThread, RowStays
<1>37. ASSUME NEW p \in Procs, Crash(p)
       PROVE  \A x \in Runs : status[x] \in Terminal => RowStays(x)
  BY <1>37 DEF Crash, Release, RowStays
<1>38. ASSUME UNCHANGED vars PROVE \A x \in Runs : status[x] \in Terminal => RowStays(x)
  BY <1>38 DEF vars, RowStays
<1> QED
  BY <1>1, <1>2, <1>3, <1>4, <1>5, <1>6, <1>7, <1>8, <1>9, <1>10, <1>11, <1>12, <1>13,
     <1>14, <1>15, <1>16, <1>17, <1>18, <1>19, <1>20, <1>21, <1>22, <1>23, <1>24,
     <1>25, <1>26, <1>27, <1>28, <1>29, <1>30, <1>31, <1>32, <1>33, <1>34, <1>35,
     <1>36, <1>37, <1>38
  DEF Next, Request, Work, Loop, Timers, Cancelling

\* The row of a run that has ended is final: not only the status but the totals,
\* which the lifecycle does not mention.
THEOREM EndedRunsAreFinal == {"lockLoss", "lostReply"} \cap Faults = {} => (Spec => EndedRunsStay)
<1> SUFFICES ASSUME {"lockLoss", "lostReply"} \cap Faults = {} PROVE Spec => EndedRunsStay
  OBVIOUS
<1>1. Exclusive /\ [Next]_vars => \A r \in Runs : status[r] \in Terminal => RowStays(r)
  BY EndedStep
<1>2. Spec => []Exclusive
  BY ExclusiveAlways
<1> QED BY <1>1, <1>2, PTL DEF Spec, EndedRunsStay

-----------------------------------------------------------------------------
(* Jobs.  A job that BullMQ reports completed has a run that ended, as     *)
(* long as workers keep their locks, no process dies, and no write of a    *)
(* status fails or loses its reply.  Tended is the inductive invariant.    *)

Lasting == {"lockLoss", "crash", "dbError", "lostReply"}

\* Nothing runs at first.
LEMMA TendedInit == Init => Tended
  BY DEF Init, Queue!Init, Tended, CompletedJobEndedRun, Procs

\* A step that writes no status and completes no job: executors go on executing, and
\* who gets to "ack" has seen its run end.
LEMMA TendedMoves ==
  ASSUME Tended, UNCHANGED status,
         \A r \in Runs : jobState'[r] = "completed" => jobState[r] = "completed",
         \A r \in Runs : jobState'[r] # "none" => jobState[r] # "none" \/ status[r] # "NONE",
         \A p \in Procs, r \in Runs : Executes(p, r) => Executes(p, r)',
         \A w \in Workers : pc'[w] = "ack" =>
             \/ Ended(task'[w])
             \/ pc[w] = "ack" /\ task'[w] = task[w]
  PROVE  Tended'
  BY DEF Tended, CompletedJobEndedRun, Ended

\* A process at work writes the status of its run and moves: to a place where it
\* executes the run, or from where the run has ended.
LEMMA TendedWrites ==
  ASSUME Exclusive, Tended, NEW p \in Procs, NEW l \in Pcs, NEW s \in Statuses,
         pc[p] \notin {"idle", "done"}, Goto(p, l), UNCHANGED <<task, jobState>>,
         status' = [status EXCEPT ![task[p]] = s], s # "NONE",
         jobState[task[p]] # "completed" \/ s \in Terminal \cup {"GONE"},
         s = "IN_PROGRESS" => l \in LoopPc \cup {"announce"},
         l = "ack" => s \in Terminal \cup {"GONE"}
  PROVE  Tended'
<1> USE DEF Exclusive, Sound, TypeOK
<1>1. task[p] \in Runs
  BY DEF ProcsSound, Procs
<1>2. /\ status'[task[p]] = s
      /\ \A r \in Runs : r # task[p] => status'[r] = status[r]
      /\ pc'[p] = l /\ \A q \in Procs : q # p => pc'[q] = pc[q]
  BY <1>1 DEF Goto
<1>3. \A r \in Runs : jobState'[r] # "none" => status'[r] # "NONE"
  BY <1>2 DEF Tended
<1>4. ASSUME NEW r \in Runs, status'[r] = "IN_PROGRESS"
      PROVE  \E q \in Procs : Executes(q, r)'
  <2>1. CASE r = task[p]
    <3>1. Executes(p, r)'
      BY <2>1, <1>2, <1>4 DEF Executes
    <3> QED BY <3>1
  <2>2. CASE r # task[p]
    <3>1. PICK q \in Procs : Executes(q, r)
      BY <2>2, <1>2, <1>4 DEF Tended
    <3>2. q # p
      BY <3>1, <2>2 DEF Executes
    <3>3. Executes(q, r)'
      BY <3>1, <3>2, <1>2 DEF Executes
    <3> QED BY <3>3
  <2> QED BY <2>1, <2>2
<1>5. ASSUME NEW w \in Workers, pc'[w] = "ack"
      PROVE  Ended(task[w])'
  <2>1. CASE w = p
    BY <2>1, <1>2, <1>5 DEF Ended
  <2>2. CASE w # p
    <3>1. pc[w] = "ack" /\ w \in Procs
      BY <2>2, <1>2, <1>5 DEF Procs
    <3>2. task[w] # task[p]
      BY <3>1, <2>2, Alone
    <3>3. task[w] \in Runs
      BY <3>1 DEF ProcsSound
    <3> QED BY <3>1, <3>2, <3>3, <1>2 DEF Ended, Tended
  <2> QED BY <2>1, <2>2
<1>6. CompletedJobEndedRun'
  BY <1>2 DEF Tended, CompletedJobEndedRun
<1> QED BY <1>3, <1>4, <1>5, <1>6 DEF Tended

\* A process at work on a run has a job that is not completed: its own request has none
\* yet, a worker holds it.
LEMMA JobUnfinished ==
  ASSUME Exclusive, NEW p \in Procs, pc[p] \notin {"idle", "done"}
  PROVE  jobState[task[p]] # "completed"
  BY DEF Exclusive, Sound, ProcsSound, JobsSound, LocksHeld, Queue!Owns, Procs

\* No step leaves a run without its executor, or reports a job too early.
LEMMA TendedStep ==
  ASSUME Exclusive, Tended, [Next]_vars, Lasting \cap Faults = {}
  PROVE  Tended'
<1> USE DEF Exclusive, Sound, TypeOK, Queue!TypeOK, Goto, runs, requests, locals, jobs,
       cancels, Procs
<1>1. ASSUME NEW r \in Runs,
             \/ \E m \in {"sync", "stream", "async"} : Submit(r, m)
             \/ \E t \in Threads : Resolve(r, t)
             \/ Reject(r) \/ Announce(r) \/ EnqueueFails(r)
      PROVE  Tended'
  <2>1. /\ UNCHANGED <<status, jobState, task>>
        /\ \A q \in Procs : q # r => pc'[q] = pc[q]
        /\ pc[r] \in LoopPc \cup {"announce"} => pc'[r] \in LoopPc \cup {"announce"}
        /\ r \notin Workers
    BY <1>1 DEF Submit, Resolve, Reject, Announce, EnqueueFails, LoopPc
  <2>2. \A p \in Procs, x \in Runs : Executes(p, x) => Executes(p, x)'
    BY <2>1 DEF Executes
  <2>3. \A w \in Workers : pc'[w] = pc[w]
    BY <2>1
  <2> QED BY <2>1, <2>2, <2>3, TendedMoves
<1>2. ASSUME NEW r \in Runs, Open(r)
      PROVE  Tended'
  <2> DEFINE s == IF mode[r] = "async" THEN "PENDING" ELSE "IN_PROGRESS"
             l == IF mode[r] = "async" THEN "add"
                  ELSE IF mode[r] = "stream" THEN "announce" ELSE "user"
  <2>1. s \in Statuses /\ l \in Pcs /\ s # "NONE" /\ l # "ack"
        /\ (s = "IN_PROGRESS" => l \in LoopPc \cup {"announce"})
    BY DEF Statuses, Live, Pcs, RequestPc, LoopPc
  <2>2. pc[r] = "open" /\ task[r] = r /\ jobState[r] # "completed"
    BY <1>2 DEF Open, InsertRow, ProcsSound, JobsSound
  <2>3. status' = [status EXCEPT ![task[r]] = s] /\ Goto(r, l) /\ UNCHANGED <<task, jobState>>
    BY <1>2, <2>2 DEF Open, InsertRow
  <2> HIDE DEF s, l
  <2> QED BY <2>1, <2>2, <2>3, TendedWrites
<1>3. ASSUME NEW r \in Runs, Enqueue(r)
      PROVE  Tended'
  <2>1. /\ pc[r] = "add" /\ task[r] = r /\ UNCHANGED <<status, task>>
        /\ jobState' = [jobState EXCEPT ![r] = "waiting"]
        /\ pc' = [pc EXCEPT ![r] = "done"]
    BY <1>3 DEF Enqueue, Queue!Add, ProcsSound
  <2>2. status[r] # "NONE"
    <3>1. Fits(pc[r], status[task[r]])
      BY <2>1 DEF StatusKnown
    <3> QED BY <2>1, <3>1 DEF Fits, LoopPc
  <2>3. \A p \in Procs, x \in Runs : Executes(p, x) => Executes(p, x)'
    BY <2>1 DEF Executes, LoopPc
  <2>4. \A w \in Workers : pc'[w] = "ack" => pc[w] = "ack"
    BY <2>1
  <2> QED BY <2>1, <2>2, <2>3, <2>4, TendedMoves
<1>4. ASSUME NEW w \in Workers, NEW r \in Runs, TakeJob(w, r)
      PROVE  Tended'
  <2>1. /\ pc[w] = "idle" /\ pc' = [pc EXCEPT ![w] = "fetch"]
        /\ task' = [task EXCEPT ![w] = r] /\ UNCHANGED status
        /\ jobState[r] = "waiting" /\ jobState' = [jobState EXCEPT ![r] = "active"]
    BY <1>4 DEF TakeJob, Queue!Take
  <2>2. \A p \in Procs, x \in Runs : Executes(p, x) => Executes(p, x)'
    BY <2>1 DEF Executes, LoopPc
  <2>3. \A v \in Workers : pc'[v] = "ack" => pc[v] = "ack" /\ task'[v] = task[v]
    BY <2>1
  <2> QED BY <2>1, <2>2, <2>3, TendedMoves
<1>5. ASSUME NEW w \in Workers, Fetch(w)
      PROVE  Tended'
  <2>1. /\ pc[w] = "fetch" /\ task[w] \in Runs /\ Queue!Owns(w, task[w])
        /\ pc' = [pc EXCEPT ![w] = IF TakesUp(status[task[w]]) THEN "load" ELSE "ack"]
        /\ UNCHANGED <<status, jobState, task>>
    BY <1>5 DEF Fetch, ProcsSound, LocksHeld
  <2>2. status[task[w]] # "IN_PROGRESS"
    <3> SUFFICES ASSUME status[task[w]] = "IN_PROGRESS" PROVE FALSE
      OBVIOUS
    <3>1. PICK p \in Procs : Executes(p, task[w])
      BY <2>1 DEF Tended
    <3>2. p # w /\ task[p] = task[w] /\ pc[p] # "done"
      BY <2>1, <3>1 DEF Executes, LoopPc
    <3> QED BY <2>1, <3>2, Alone
  <2>3. status[task[w]] \notin {"NONE", "PENDING"} => Ended(task[w])
    BY <2>1, <2>2 DEF Ended, Statuses, Live
  <2>4. status[task[w]] # "NONE"
    BY <2>1 DEF Queue!Owns, Tended
  <2>5. \A v \in Workers : pc'[v] = "ack" => Ended(task'[v]) \/ pc[v] = "ack"
    BY <2>1, <2>3, <2>4 DEF TakesUp
  <2>6. \A p \in Procs, x \in Runs : Executes(p, x) => Executes(p, x)'
    BY <2>1 DEF Executes, LoopPc
  <2> QED BY <2>1, <2>5, <2>6, TendedMoves
<1>6. ASSUME NEW w \in Workers, Load(w) \/ FailEarly(w)
      PROVE  Tended'
  <2>1. /\ pc[w] \notin LoopPc \cup {"announce"} /\ UNCHANGED <<status, jobState, task>>
        /\ pc'[w] # "ack" /\ \A q \in Procs : q # w => pc'[q] = pc[q]
    BY <1>6 DEF Load, FailEarly, LoopPc, Lasting
  <2>2. \A p \in Procs, x \in Runs : Executes(p, x) => Executes(p, x)'
    BY <2>1 DEF Executes
  <2>3. \A v \in Workers : pc'[v] = "ack" => pc[v] = "ack"
    BY <2>1
  <2> QED BY <2>1, <2>2, <2>3, TendedMoves
<1>7. ASSUME NEW w \in Workers, Start(w)
      PROVE  Tended'
  <2>1. /\ pc[w] = "mark" /\ task[w] \in Runs /\ UNCHANGED <<task, jobState>>
        /\ status' = [status EXCEPT ![task[w]] = "IN_PROGRESS"] /\ Goto(w, "user")
    BY <1>7 DEF Start, MarkInProgress, ProcsSound
  <2>2. "IN_PROGRESS" \in Statuses /\ "user" \in Pcs /\ "user" \in LoopPc
    BY DEF Statuses, Live, Pcs, LoopPc
  <2>3. jobState[task[w]] # "completed"
    BY <2>1, JobUnfinished
  <2> QED BY <2>1, <2>2, <2>3, TendedWrites
<1>8. ASSUME NEW w \in Workers, Ack(w)
      PROVE  Tended'
  <2>1. /\ pc[w] = "ack" /\ task[w] \in Runs /\ Queue!Owns(w, task[w])
        /\ jobState' = [jobState EXCEPT ![task[w]] = "completed"] /\ UNCHANGED status
        /\ pc' = [pc EXCEPT ![w] = "idle"] /\ task' = [task EXCEPT ![w] = None]
    BY <1>8 DEF Ack, Queue!Complete, Release, ProcsSound, LocksHeld
  <2>2. status[task[w]] \in Terminal \cup {"GONE"}
    BY <2>1 DEF Tended, Ended
  <2>3. CompletedJobEndedRun'
    BY <2>1, <2>2 DEF Tended, CompletedJobEndedRun
  <2>4. \A p \in Procs, x \in Runs : Executes(p, x) => Executes(p, x)'
    BY <2>1 DEF Executes, LoopPc
  <2>5. \A x \in Runs : status'[x] = "IN_PROGRESS" => \E p \in Procs : Executes(p, x)'
    BY <2>1, <2>4 DEF Tended
  <2>6. \A v \in Workers : pc'[v] = "ack" => Ended(task[v])'
    BY <2>1 DEF Tended, Ended
  <2>7. \A x \in Runs : jobState'[x] # "none" => status'[x] # "NONE"
    BY <2>1, <2>2 DEF Tended, Terminal, Queue!Owns
  <2> QED BY <2>3, <2>5, <2>6, <2>7 DEF Tended
<1>9. ASSUME NEW w \in Workers, Nack(w) \/ ResultLost(w)
      PROVE  Tended'
  <2>1. /\ pc[w] \in {"ack", "nack"} /\ task[w] \in Runs /\ Queue!Owns(w, task[w])
        /\ UNCHANGED status
        /\ pc' = [pc EXCEPT ![w] = "idle"] /\ task' = [task EXCEPT ![w] = None]
    BY <1>9 DEF Nack, ResultLost, Release, ProcsSound, LocksHeld
  <2>2. \A x \in Runs : /\ jobState'[x] = "completed" => jobState[x] = "completed"
                        /\ jobState'[x] # "none" => jobState[x] # "none"
    BY <1>9, <2>1 DEF Nack, ResultLost, Queue!Fail, Queue!Owns
  <2>3. \A p \in Procs, x \in Runs : Executes(p, x) => Executes(p, x)'
    BY <2>1 DEF Executes, LoopPc
  <2>4. \A v \in Workers : pc'[v] = "ack" => pc[v] = "ack" /\ task'[v] = task[v]
    BY <2>1
  <2> QED BY <2>1, <2>2, <2>3, <2>4, TendedMoves
<1>10. ASSUME NEW r \in Runs, BackoffEnds(r) \/ Stall(r)
       PROVE  Tended'
  <2>1. /\ UNCHANGED <<status, pc, task>>
        /\ \A x \in Runs : /\ jobState'[x] = "completed" => jobState[x] = "completed"
                           /\ jobState'[x] # "none" => jobState[x] # "none"
    BY <1>10 DEF BackoffEnds, Stall, Queue!BackoffEnds, Queue!Stall
  <2> QED BY <2>1, TendedMoves DEF Executes
<1>11. ASSUME NEW p \in Procs,
              \/ SaveInput(p) \/ Poll(p) \/ Exhaust(p) \/ RunTool(p) \/ Throw(p)
              \/ \E n \in 0..MaxCalls : AskForTools(p, n) \/ Answer(p, n)
       PROVE  Tended'
  <2>1. /\ UNCHANGED <<status, jobState, task>>
        /\ \A q \in Procs : q # p => pc'[q] = pc[q]
        /\ pc'[p] \in LoopPc
    BY <1>11 DEF SaveInput, Poll, Exhaust, RunTool, AfterTool, Throw, AskForTools, Answer,
       SaveAnswer, EndLoop, LoopPc
  <2>2. \A q \in Procs, x \in Runs : Executes(q, x) => Executes(q, x)'
    BY <2>1 DEF Executes
  <2>3. \A w \in Workers : pc'[w] = "ack" => pc[w] = "ack"
    BY <2>1 DEF LoopPc
  <2> QED BY <2>1, <2>2, <2>3, TendedMoves
<1>12. ASSUME NEW p \in Procs, Settle(p)
       PROVE  Tended'
  <2> DEFINE l == IF p \in Workers THEN "ack" ELSE "done"
  <2>1. /\ pc[p] = "final" /\ UNCHANGED <<task, jobState>> /\ Goto(p, l)
        /\ status' = [status EXCEPT ![task[p]] = verdict[p]]
    BY <1>12 DEF Settle, WriteVerdict
  <2>2. verdict[p] \in Terminal /\ verdict[p] \in Statuses /\ l \in Pcs
        /\ verdict[p] \notin {"NONE", "IN_PROGRESS"}
    BY DEF Verdicts, Terminal, Statuses, Pcs, WorkerPc, RequestPc
  <2> HIDE DEF l
  <2> QED BY <2>1, <2>2, TendedWrites
<1>13. ASSUME NEW p \in Procs, RecordFailure(p)
       PROVE  Tended'
  <2> DEFINE l == IF p \in Workers THEN "nack" ELSE "done"
             s == IF Present(task[p]) THEN "FAILED" ELSE status[task[p]]
  <2>1. /\ pc[p] = "fail" /\ UNCHANGED <<task, jobState>> /\ Goto(p, l) /\ task[p] \in Runs
        /\ status' = [status EXCEPT ![task[p]] = s]
    <3>1. pc[p] = "fail" /\ UNCHANGED <<task, jobState>> /\ Goto(p, l) /\ task[p] \in Runs
      BY <1>13 DEF RecordFailure, ProcsSound
    <3>2. CASE Present(task[p])
      <4>1. "dbError" \notin Faults
        BY DEF Lasting
      <4> QED BY <1>13, <3>1, <3>2, <4>1 DEF RecordFailure, Present
    <3>3. CASE ~Present(task[p])
      BY <1>13, <3>1, <3>3 DEF RecordFailure
    <3> QED BY <3>1, <3>2, <3>3
  <2>2. status[task[p]] \in {"IN_PROGRESS", "GONE"}
    BY <2>1 DEF StatusKnown, Fits, Lasting
  <2>3. s \in Terminal \cup {"GONE"} /\ s \in Statuses /\ l \in Pcs /\ l # "ack"
        /\ s \notin {"NONE", "IN_PROGRESS"}
    BY <2>2 DEF Present, Live, Terminal, Statuses, Pcs, WorkerPc, RequestPc
  <2> HIDE DEF l, s
  <2> QED BY <2>1, <2>3, TendedWrites
<1>14. ASSUME NEW r \in Runs,
              Cancelling(r) \/ CancelByUser(r) \/ CloseStream(r) \/ ExpireFlag(r)
       PROVE  Tended'
  <2>1. UNCHANGED <<status, pc, task, jobState>>
    BY <1>14 DEF Cancelling, CancelByClose, SetFlag, DropCancel, CancelByUser, CloseStream,
       ExpireFlag
  <2> QED BY <2>1, TendedMoves DEF Executes
<1>15. ASSUME NEW t \in Threads, DeleteThread(t)
       PROVE  Tended'
  <2>1. /\ UNCHANGED <<pc, task, jobState>>
        /\ \A x \in Runs : status'[x] = status[x] \/ status'[x] = "GONE"
    BY <1>15 DEF DeleteThread
  <2>2. \A p \in Procs, x \in Runs : Executes(p, x) => Executes(p, x)'
    BY <2>1 DEF Executes
  <2>3. \A w \in Workers : pc[w] = "ack" => task[w] \in Runs
    BY DEF ProcsSound
  <2> QED BY <2>1, <2>2, <2>3 DEF Tended, CompletedJobEndedRun, Ended
<1>16. ASSUME NEW r \in Runs, OpenLost(r) PROVE Tended'
  BY <1>16 DEF OpenLost, Lasting
<1>17. ASSUME NEW w \in Workers, StartLost(w) PROVE Tended'
  BY <1>17 DEF StartLost, Lasting
<1>18. ASSUME NEW p \in Procs, SettleLost(p) \/ Crash(p) PROVE Tended'
  BY <1>18 DEF SettleLost, Crash, Lasting
<1>19. CASE UNCHANGED vars
  <2>1. UNCHANGED <<status, pc, task, jobState>>
    BY <1>19 DEF vars
  <2> QED BY <2>1, TendedMoves DEF Executes
<1> QED
  BY <1>1, <1>2, <1>3, <1>4, <1>5, <1>6, <1>7, <1>8, <1>9, <1>10, <1>11, <1>12, <1>13,
     <1>14, <1>15, <1>16, <1>17, <1>18, <1>19 DEF Next, Request, Work, Loop, Timers

\* As long as workers keep their locks, no process dies and no write of a status fails
\* or loses its reply, BullMQ reports a job completed only when its run has ended:
\* also when Redis loses results and jobs are delivered again.
THEOREM CompletedJobsAreDone ==
  Lasting \cap Faults = {} => (Spec => []CompletedJobEndedRun)
<1> SUFFICES ASSUME Lasting \cap Faults = {} PROVE Spec => []CompletedJobEndedRun
  OBVIOUS
<1>1. Spec => []Exclusive
  BY ExclusiveAlways DEF Lasting
<1>2. Init => Tended
  BY TendedInit
<1>3. Exclusive /\ Tended /\ [Next]_vars => Tended'
  BY TendedStep
<1>4. Tended => CompletedJobEndedRun
  BY DEF Tended
<1> QED BY <1>1, <1>2, <1>3, <1>4, PTL DEF Spec
=============================================================================
