SPECIFICATION Spec
INVARIANTS
    TypeOK
    ShippingInv
    CopyMeetsStream
    
    OfflineFollows
PROPERTIES
    ShippedInTheEnd
CHECK_DEADLOCK FALSE
