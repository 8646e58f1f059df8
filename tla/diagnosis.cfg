SPECIFICATION DiagnosisSpec
CONSTANTS
    Literals <- MCLiterals
    Graphs <- MCGraphs
    DtcPosts <- MCDtcPosts
    Readings <- MCReadings
    FlagPosts <- MCFlagPosts
    Cars <- MCCars
    MaxPosts = 4
INVARIANTS
    RulesMeanWhatTheySay
    GoldenVectorsHold
    StrongestRuleCounts
    BandsAreClear
    PartsAreConfirmed
    GatedCanBeConfirmed
    BasketResolves
PROPERTIES
    StopIsForGood
CHECK_DEADLOCK FALSE
