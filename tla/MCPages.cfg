SPECIFICATION PagesSpec
CONSTANTS
    Contents = {empty, draft0, revision, oversize}
    Texts = {empty, draft0, revision}
    EmptyText = empty
    Absent = Absent
    Torn = Torn
    NoRequest = NoRequest
    Services = 2
    Values = {1, 2}
    MaxLinks = 2
    ScopeChannels = 2
    ScopeRates = 1
    ScopeScales = 1
    ChartPoints = 2
    RingPoints = 2
    Targets = {t1, t2}
    NoTarget = none
    ScopePins <- MCScopePins
    SpiModes = 2
    GpioPins = {"G18", "G54"}
INVARIANTS NoteInv BleInv BenchInv OneOwner
PROPERTIES ForeignKept ImplementsDurable
CHECK_DEADLOCK FALSE
