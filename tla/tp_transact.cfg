SPECIFICATION Spec
CONSTANTS
    Data <- MCData
    SeqCount = 16
    MaxFrames = 64
    Variant = "11B_500K"
    Request = {"vin", "dtc"}
    RespCap = 256
    BusFrame <- MCBusFrame
INVARIANTS
    TypeOK
    BufferBound
    AgreesWithDecoder
    OneSource
    ReadOnlyWire
