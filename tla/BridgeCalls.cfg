SPECIFICATION Spec
CONSTANTS
    Clients = {c1, c2}
    Servers = {s1}
    Args = {"60098052", ""}
    Wellformed = {"60098052"}
    Empty = ""
    UsedMethods = {"getOrderQty"}
    MaxReplies = 1
    MaxCalls = 2
    MaxChanges = 0
    MaxToggles = 0
INVARIANTS
    NoLostCall
    PendingIsOwed
CHECK_DEADLOCK FALSE
