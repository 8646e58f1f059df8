SPECIFICATION ElmSpec
CONSTANTS
    Vehicle <- MCVehicle
    Plans <- MCPlans
    MaxScans = 4
INVARIANTS
    PublishedInSync
    ScanIsTrue
    FailsForAReason
PROPERTIES
    ScanEnds
CHECK_DEADLOCK FALSE
