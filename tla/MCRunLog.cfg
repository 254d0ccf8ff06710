SPECIFICATION Spec
CONSTANTS
    Txns = {t1, t2}
    Handlers = {h1, h2}
    Of <- MCOf
    Nobody = Nobody
    NoBody = NoBody
    Garbled = Garbled
INVARIANTS
    SentAtIsFound
    RacesEndWithDispatch
    
    FlushKeepsPayloads
PROPERTY
    LogIsReleased
CHECK_DEADLOCK FALSE
