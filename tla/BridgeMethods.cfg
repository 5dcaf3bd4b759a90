SPECIFICATION Spec
CONSTANTS
    Clients = {"c1"}
    Servers = {"s1"}
    Args = {"60098052", ""}
    Wellformed = {"60098052"}
    Empty = ""
    UsedMethods = {"ping", "getMKT", "getOrderTypeNr", "getOrderQty", "getOrderFailQty", "getOrderType", "getValueFromTable"}
    MaxReplies = 2
    MaxCalls = 2
    MaxChanges = 1
    MaxToggles = 0
INVARIANTS
    AnswerIsMine
PROPERTIES
    ImplementsRpc
CHECK_DEADLOCK FALSE
