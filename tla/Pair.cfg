SPECIFICATION TimelySpec
CONSTANTS
    Node <- PairNode
    Origin = 1
    Provider <- PairProvider
    Forwarder = {}
    Listen <- Everyone
    Cleaner = {1}
    Key = {k1, k2}
    MaxXid = 2
    MaxSeq = 3
    MaxSync = 4
INVARIANTS
    TypeOK
    QueriedLogsSuffice
    ReplicaConsistent
    AppliedExactly
    NeverAppliedTwice
PROPERTIES
    ConfirmsAdvance
