SPECIFICATION AtWork
CONSTANTS
    A = A  B = B  a1 = a1  t1 = t1  t2 = t2  k1 = k1  x1 = x1  e1 = e1  r1 = r1
    Workspaces <- TwoWorkspaces
    Agents <- OneAgent
    Tools <- TwoTools
    Bases <- OneBase
    Threads <- OneThread
    Home <- Homes
    Editors <- OneEditor
    Edits <- OneEdit
    Runs <- OneRun
    None = None
    MAX_REDIRECTS = 3
    Targets <- EveryTarget
INVARIANTS TenantsApart UsedWasAttached OnlyThreadsTakeRuns RedirectsCounted NoTimerLeft
PROPERTIES NothingAfterTimeout CallsReturn
\* A run ends, and nobody has to edit.
CHECK_DEADLOCK FALSE
