SPECIFICATION MCSpec
CONSTANTS
    MaxLines = 6
    Stdout = 2
    Cap = 2
    Long = {5}
    TempWarnC = 75
    TempErrC = 80
    MemWarnPct = 15
    MemErrPct = 5
    DiskWarnPct = 15
    DiskErrPct = 5
    NTPGraceSeconds = 300
    Units <- MCUnits
    Strict = {"mlat"}
    Decoder = "readsb"
    Reasons <- MCReasons
    Published <- MCPublished
    NoFile = NoFile
    None = None
    MaxGain = 2
    Starts <- MCStarts
INVARIANTS
    FrozenHidden
    DownTellsTruth
    StatsPaired
    AlarmNamed
    NothingLost
PROPERTIES
    AllEnd
CHECK_DEADLOCK FALSE
