SPECIFICATION SessionSpec
CONSTANTS
    t1 = t1
    t2 = t2
    t3 = t3
    Threads <- Threads3
    Literals <- MCLiterals
    Graphs <- MCGraphs
    Opened <- MCOpened
    Requests <- MCRequests
    PrivacyCount = 2
    MaxRequests = 3
SYMMETRY ThreadSymmetry
INVARIANTS
    RecordedIsKept
    StopSticks
    DemandIsPrivate
PROPERTIES
    UndisturbedAgrees
CHECK_DEADLOCK FALSE
