SPECIFICATION Spec
CONSTANTS
    Txns = {t1}
    Callbacks = {c1, c2}
    QueueSize = 1
    Workers = 1
    Finalizer = Finalizer
    NoTxn = NoTxn
INVARIANTS
    NoEventVanishes
    OutcomesRespectDeadline
    SummaryAccountsForSends
PROPERTIES
    FirstOutcomeStands
    QueueIsDrained
