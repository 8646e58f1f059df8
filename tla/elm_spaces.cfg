SPECIFICATION ElmSpec
CONSTANTS
    Vehicle <- MCVehicle
    Plans <- MCPlans
    MaxScans = 1
INVARIANTS
    SpacesAreReinserted
CHECK_DEADLOCK FALSE
