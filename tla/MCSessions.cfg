SPECIFICATION SafetySpec
CONSTANTS
    Requests = {r1, r2, r3}
    MaxConcurrent = 3
    None = None
INVARIANTS
    OneActiveSession
PROPERTY
    DeletionIsFinal
CHECK_DEADLOCK FALSE
