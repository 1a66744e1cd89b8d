SPECIFICATION RecordsSpec
CONSTANTS
    early0 = early0
    early1 = early1
    late0 = late0
    Names <- SomeNames
    Clock <- SomeClock
    Suffix <- SomeSuffix
    MaxSamples = 1
    Contents <- Indexes
    Absent = Absent
    Torn = Torn
    NoRequest = NoRequest
    RowBytes = 2
    BlockBytes = 2
    MaxRows = 3
    MaxFaults = 4
    SyncDays = 1
    Stored <- SomePackets
    QueueSlots = 2
    TailRows = 1
    MaxLinks = 2
    MaxTaps = 2
    MaxReadings = 1
    MaxTroubles = 2
    RxBuffer = 2
    Chunk = 1
    Passes = 1
    CaptureMax = 2
    LogNames = 2
    MaxBytes = 3
    MaxSends = 1
INVARIANTS RideInv LogInv RingInv UartInv
PROPERTIES SavedMeansBoth RidesKept ImplementsLog
CHECK_DEADLOCK FALSE
