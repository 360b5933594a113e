SPECIFICATION Spec
CONSTANTS
    s1 = s1
    s2 = s2
    None = None
    Slots <- MCSlots
    Frequency = 2
    Modulo = 1
    BlindSpot = 3
    MonitorPeriods = 0
    OfflinePeriod = 3
    StartTime = 8
    MaxTime = 13
    MaxVersion = 2
    MaxRuns = 3
    MaxFaults = 1
SYMMETRY MCSymmetry
INVARIANTS
    TypeOK
    NoTileSkipped
    HistoryComplete
    OnlyOldTilesCut
    ServedIsWritten
    ServedOnce
    PublishedFromCompleteTiles
    BeatAndTaskAgree
PROPERTIES
    OncePerInterval
    ServedTimeAdvances
CHECK_DEADLOCK FALSE
