SPECIFICATION Spec
CONSTANTS
    Bodies <- AllBodies
    Meaning <- Lines
    Calls <- TwoCalls
INVARIANTS NothingEarly NothingLate MessageAssembled
\* The stream ends.
CHECK_DEADLOCK FALSE
