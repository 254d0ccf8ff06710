SPECIFICATION Spec
CONSTANTS
    Discoveries = {d1, d2}
    Uploads = {u1}
    Starts = {s1}
    Deletes = {x1}
    Callbacks = {c1}
    None = None
INVARIANTS
    StartFindsCatalog
    PendingHasPoller
    CatalogPassedVerification
PROPERTY
    PendingEnds
CHECK_DEADLOCK FALSE
