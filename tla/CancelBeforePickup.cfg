SPECIFICATION Spec
CONSTANTS
    r1 = r1  w1 = w1  w2 = w2  t1 = t1  t2 = t2  none = none
    Runs <- OneRun
    Workers <- OneWorker
    Threads <- OneThread
    None = none
    MaxSteps = 1
    MaxCalls = 1
    Faults <- NoFaults
PROPERTIES CancelledBeforePickupIsSkipped
\* Once every run has ended nothing is left to do.
CHECK_DEADLOCK FALSE
