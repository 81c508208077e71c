SPECIFICATION FairSpec
CONSTANTS
    r1 = r1  w1 = w1  w2 = w2  t1 = t1  t2 = t2  none = none
    Runs <- OneRun
    Workers <- TwoWorkers
    Threads <- OneThread
    None = none
    MaxSteps = 2
    MaxCalls = 2
    Faults <- LoopFaults
INVARIANTS CompletedJobEndedRun CallsAnswered
PROPERTIES RefinesLifecycle EndedRunsStay RunsEnd JobsEnd
\* Once every run has ended nothing is left to do.
CHECK_DEADLOCK FALSE
