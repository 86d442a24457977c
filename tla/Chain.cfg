SPECIFICATION TimelySpec
CONSTANTS
    Node <- ChainNode
    Origin = 1
    Provider <- ChainProvider
    Forwarder = {2}
    Listen <- ChainListen
    Cleaner = {2}
    Key = {k1}
    MaxXid = 2
    MaxSeq = 2
    MaxSync = 3
INVARIANTS
    IInv
    ConfirmSound
    NeverAheadOfProvider
PROPERTIES
    ImplementsReplica
