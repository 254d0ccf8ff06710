SPECIFICATION Spec
CONSTANTS
    Runs = {r1, r2}
    Callbacks = {c1, c2}
    NumStages = 2
    MaxTarget = 2
    NoCell = NoCell
INVARIANTS
    NoLostWakeup
    WaiterCellIsLive
    CallbackReachesWaiter
PROPERTIES
    ShortCountOnlyAfterDeadline
    EnoughCallbacksWake
    EveryRunIsReset
