SPECIFICATION Spec
CONSTANTS
    Starts = {r1, r2}
    Stops = {q1}
    NumStages = 2
    MaxExpired = 1
    NoRun = NoRun
INVARIANTS
    RunningHasOwner
    FinalStatusSaved
    ThrottleMetricsSaved
PROPERTIES
    SessionIsReleased
