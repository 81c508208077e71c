SPECIFICATION Spec
CONSTANTS
    r1 = r1  r2 = r2
    Runs <- TwoRuns
    Streams <- OneStream
    MaxSteps = 2
    MaxCalls = 2
INVARIANTS PromptsPaired OwnTurnKept StreamTellsRun
\* A run ends.
CHECK_DEADLOCK FALSE
