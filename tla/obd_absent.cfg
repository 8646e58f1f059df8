SPECIFICATION ObdSpec
CONSTANTS
    Answers <- MCAnswers
    NotSent = NotSent
    Ecus = {"engine", "gearbox"}
    DefaultPids <- MCPids
    Allowlisted = {"0C", "05", "43"}
    Decodable = {"0C", "05"}
    Ops <- MCOps
    MaxOps = 2
    MaxScans = 1
    MissFrom = 6
    MaxFaults = 2
PROPERTIES
    AbsentMeansSilent
CHECK_DEADLOCK FALSE
