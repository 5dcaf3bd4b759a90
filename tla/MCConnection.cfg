SPECIFICATION ConnectionSpec
CONSTANTS
    Users = {"alice", "bob"}
    Me = "alice"
    SocketUsers = {"alice", "bob", "anonymous"}
    Wild = {"client"}
    MaxFailures = 2
    MaxOom = 1
    MaxLines = 3
    MaxListed = 2
INVARIANTS
    ConversationIsSound
    MessagesArriveOnce
    PeersAreWhoTheySay
    NothingIsFreedTwice
PROPERTIES
    DecisionsAreFinal
CHECK_DEADLOCK FALSE
