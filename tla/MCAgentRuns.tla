----------------------------- MODULE MCAgentRuns -----------------------------
(* Instances of AgentRuns for TLC.                                          *)
EXTENDS AgentRunsInvariants, TLC

CONSTANTS r1, w1, w2, t1, t2, none

OneRun     == {r1}
OneWorker  == {w1}
TwoWorkers == {w1, w2}
OneThread  == {t1}
TwoThreads == {t1, t2}

\* Runs, workers and threads are interchangeable: safety only.
Symmetry == Permutations(Runs) \cup Permutations(Workers) \cup Permutations(Threads)

NoFaults == {}

\* Every fault but a worker that loses its lock while it works.
LocksHold == AllFaults \ {"lockLoss"}

\* Faults inside the loop's try block.
LoopFaults == {"loopError"}
=============================================================================
