SPECIFICATION ScopeSpec
CONSTANTS
    ScopeChannels = 2
    ScopeRates = 1
    ScopeScales = 1
    ChartPoints = 2
    RingPoints = 2
INVARIANTS CaptureOfItsInput
CHECK_DEADLOCK FALSE
