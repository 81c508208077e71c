SPECIFICATION Spec
CONSTANTS
    r1 = r1  w1 = w1  w2 = w2  t1 = t1  t2 = t2  none = none
    Runs <- OneRun
    Workers <- TwoWorkers
    Threads <- TwoThreads
    None = none
    MaxSteps = 3
    MaxCalls = 2
    Faults <- LocksHold
SYMMETRY Symmetry
INVARIANTS OneExecutor InputSavedOnce TotalsMatchMessages CancelledOnlyWhenAsked
\* Once every run has ended nothing is left to do.
CHECK_DEADLOCK FALSE
