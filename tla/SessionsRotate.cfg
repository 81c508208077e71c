SPECIFICATION Spec
CONSTANTS
    t1 = t1  t2 = t2  t3 = t3  d1 = d1  d2 = d2  r1 = r1  r2 = r2  r3 = r3
    Tokens <- ThreeTokens
    Devices <- TwoDevices
    Requests <- ThreeRequests
    DeviceOf <- TwoAtOnce
    Aborts = TRUE
    None = None
SYMMETRY Symmetry
INVARIANTS OneLiveToken LogoutEnds HeldTokenWorks
\* All tokens may be used up.
CHECK_DEADLOCK FALSE
