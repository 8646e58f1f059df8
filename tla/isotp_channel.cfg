SPECIFICATION Spec
CONSTANTS
    Data <- MCData
    SeqCount = 16
    MaxFrames = 64
    Lens <- MCLens
    Bursts = {1, 16, 32}
    MaxFaults = 2
INVARIANTS
    TypeOK
    NeverCorrupt
    RoundTrip
CHECK_DEADLOCK FALSE
