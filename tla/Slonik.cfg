SPECIFICATION FailoverLive
CONSTANTS
    Node = {1, 2, 3}
    Script <- Scripts
INVARIANTS
    TypeOK
    OneOrigin
    Converged
    SameHistory
    CandidatesStay
PROPERTIES
    PreviousConfirmed
    WaitForEventMeans
    ScriptEnds
