SPECIFICATION FlowSpec
CONSTANTS
    Scenes <- MCScenes
    Nil = Nil
INVARIANTS
    OrderIsCarriedThrough
    NamesAreAccountedFor
    PercentilesHaveTheirRank
    InjectionIsVisible
CHECK_DEADLOCK FALSE
