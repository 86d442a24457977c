SPECIFICATION LiveSpec
CONSTANTS
    Node <- PairNode
    Origin = 1
    Provider <- PairProvider
    Forwarder = {}
    Listen <- Everyone
    Cleaner = {1}
    Key = {k1}
    MaxXid = 2
    MaxSeq = 2
    MaxSync = 6
PROPERTIES
    EventuallyReplicated
    LogswitchCompletes
