SPECIFICATION DiagnosisSpec
CONSTANTS
    Literals <- MCLiterals
    Graphs <- MCGraphs
    DtcPosts <- MCDtcPosts
    Readings <- MCReadings
    FlagPosts <- MCFlagPosts
    Cars <- MCCars
    MaxPosts = 4
INVARIANTS
    SafetyFlagsEndDiagnosis
CHECK_DEADLOCK FALSE
