SPECIFICATION FairSpec
CONSTANTS
    Clients = {"c1"}
    Servers = {"s1", "s2"}
    Args = {"60098052", ""}
    Wellformed = {"60098052"}
    Empty = ""
    UsedMethods = {"getOrderQty"}
    MaxReplies = 1
    MaxCalls = 2
    MaxChanges = 0
    MaxToggles = 1
INVARIANTS
    TypeOK
    ConfiguredBeforeCalls
    CacheCoherent
    OwnersAreConnected
PROPERTIES
    EveryCallEnds
CHECK_DEADLOCK FALSE
