SPECIFICATION Spec
INVARIANTS
    WrittenIsRead
    OnlyValidIsAccepted
    NothingIsLeft
PROPERTIES
    GettersTellTheTruth
CHECK_DEADLOCK FALSE
