SPECIFICATION BaseSpec
CONSTANTS
    Daemons = {"d1", "d2"}
    Forks = TRUE
    Together = FALSE
INVARIANTS
    FilesAreTheDaemons
    DataIsExact
    LoopIsCurrent
    WindowTellsTheTruth
    BusesHaveAnOwner
PROPERTIES
    HandlersAreCurrent
CHECK_DEADLOCK FALSE
