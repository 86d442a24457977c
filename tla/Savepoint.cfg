SPECIFICATION Spec
CONSTANTS
    Node <- PairNode
    Origin = 1
    Provider <- PairProvider
    Forwarder = {}
    Listen <- Everyone
    Cleaner = {1}
    Key = {k1}
    MaxXid = 1
    MaxSeq = 2
    MaxSync = 3
INVARIANTS
    QueriedLogsSuffice
