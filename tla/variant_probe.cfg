SPECIFICATION ProbeSpec
CONSTANTS
    Vehicles <- MCVehicles
INVARIANTS
    ProbeTypeOK
    DriverReleased
    RightVariant
PROPERTIES
    BootEnds
CHECK_DEADLOCK FALSE
