SPECIFICATION FairSpec
CONSTANTS
    Node = {1, 2, 3}
    Path <- Downward
    Subs <- NoneOrTwo
    Slon = {2, 3}
    Creator <- FromNode1
    MaxSeqno = 1
    MaxGroup = 1
    MaxFault = 1
    Budget = 3
PROPERTIES
    EventsArrive
    WaitEnds
CHECK_DEADLOCK FALSE
