SPECIFICATION Spec
CONSTANTS
    Node <- ChainNode
    Origin = 1
    Provider <- ChainProvider
    Forwarder = {2}
    Listen <- ChainListen
    Cleaner = {2}
    Key = {k1}
    MaxXid = 1
    MaxSeq = 1
    MaxSync = 3
INVARIANTS
    QueriedLogsSuffice
