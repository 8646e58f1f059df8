SPECIFICATION SessionSpec
CONSTANTS
    Data <- MCData
    SeqCount = 16
    MaxFrames = 64
    Variant = "11B_500K"
    Request = {"vin", "dtc"}
    RespCap = 256
    BusFrame <- MCBusFrame
    Ecu = {2024, 2025}
    AnswerLen <- Shared
    NotSent = NotSent
    RxCap = 2
    MaxCalls = 3
    MaxRemote = 1
PROPERTIES
    TimeoutMeansNoResponse
CHECK_DEADLOCK FALSE
