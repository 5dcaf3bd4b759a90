SPECIFICATION Spec
CONSTANTS
    Clients = {"c1"}
    Servers = {"s1"}
    Args = {"60098052", ""}
    Wellformed = {"60098052"}
    Empty = ""
    UsedMethods = {"getOrderQty", "ping"}
    MaxReplies = 2
    MaxCalls = 2
    MaxChanges = 1
    MaxToggles = 1
INVARIANTS
    PingMeansReachable
CHECK_DEADLOCK FALSE
