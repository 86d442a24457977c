SPECIFICATION Spec
CONSTANTS
    Node = {1, 2, 3}
    Path <- Downward
    Subs <- NoneOrTwo
    Slon = {2, 3}
    Creator <- FromNode1
    MaxSeqno = 2
    MaxGroup = 2
    MaxFault = 1
    Budget = 2
INVARIANTS
    EventInv
    NoEventSkipped
    QueuedOnceInOrder
    ConfirmsTrue
    ProvidersFirst
PROPERTIES
    ImplementsDelivery
CHECK_DEADLOCK FALSE
