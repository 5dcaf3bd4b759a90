SPECIFICATION FairSpec
PROPERTIES
    WaitingEnds
    EventsAreServed
CHECK_DEADLOCK FALSE
