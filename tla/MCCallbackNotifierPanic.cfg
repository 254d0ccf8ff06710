SPECIFICATION SafetySpec
CONSTANTS
    Runs = {r1, r2}
    Callbacks = {c1, c2}
    NumStages = 1
    MaxTarget = 1
    NoCell = NoCell
INVARIANTS
    CallbackNeverPanics
