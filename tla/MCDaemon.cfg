SPECIFICATION DaemonSpec
CONSTANTS
    Conns = {"c1", "c2", "c3", "c4"}
    Root = {"c1"}
    Limits = {2}
    MaxCompleted = 3
    MaxPerUser = 2
    FailAt = {"setup", "policy", "welcome"}
    FdCount = 0
INVARIANTS
    ConnectionsAreCounted
    ServicesAreFound
    
PROPERTIES
    AnswersAreFresh
CHECK_DEADLOCK FALSE
