SPECIFICATION FairObd
CONSTANTS
    Answers <- MCAnswers
    NotSent = NotSent
    Ecus = {"engine", "gearbox"}
    DefaultPids <- MCPids
    Allowlisted = {"0C", "05", "43"}
    Decodable = {"0C", "05"}
    Ops <- MCOps
    MaxOps = 2
    MaxScans = 1
    MissFrom = 6
    MaxFaults = 2
INVARIANTS
    ObdTypeOK
    RightlyAttributed
    IncompleteTold
    PromptScanIsFresh
    OnlyAllowlistedSent
PROPERTIES
    Replied
CHECK_DEADLOCK FALSE
