SPECIFICATION Spec
CONSTANTS
    r1 = r1
    r2 = r2
    Runs = {r1, r2}
    Loads <- MCLoads
    NoRun = NoRun
    x = x
    TxnIds = {x}
    NoTxn = NoTxn
    MaxUnasked = 1
INVARIANTS
    RequestFollowsCallback
    
PROPERTY
    EveryRunEnds
