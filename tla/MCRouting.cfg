SPECIFICATION RoutingSpec
CONSTANTS
    Conns = {"c1", "c2", "c3"}
    Names = {"com.swissbit.sap"}
    MaxOwned = 3
INVARIANTS
    OwnershipAgrees
    WaitersAgreedToWait
    SignalsTellTheTruth
    NamesResolve
    TransactionsAreWhole
    
PROPERTIES
    DriverKeepsItsWord
    OwnerChangesChain
    NoOvertaking
    ReplyIsTrue
CHECK_DEADLOCK FALSE
