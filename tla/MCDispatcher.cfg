SPECIFICATION Spec
CONSTANTS
    N = 4
    InFlightSettings <- MCInFlightSettings
INVARIANTS
    InFlightBounded
    OutcomeTellsWhetherSent
PROPERTIES
    ImplementsBatch
    DispatchReturns
