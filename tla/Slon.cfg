SPECIFICATION Spec
CONSTANTS
    Node = {1, 2, 3}
    Self = 1
    Cases <- AllCases
    MaxDisturbances = 1
    Signals = {"HUP", "TERM"}
CHECK_DEADLOCK FALSE
INVARIANTS
    TypeOK
    MemoryAgrees
    OneListener
    ListenerInformed
PROPERTIES
    
    Settles
