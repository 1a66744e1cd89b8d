SPECIFICATION ToolSpec
CONSTANTS
    Requests = {a, b, probe}
    Probe = probe
    NoRequest = none
    ConfirmWindow = 2
    TickWidth = 4
    TimerGap = 1
    Samples = 2
    MaxUnmatched = 2
    SetupCommands = 2
    RetryTicks = 1
    MaxOpens = 2
    Alarms = {0, 1}
    MinutesPerDay = 2
    SnoozeMinutes = 1
    MaxMinutes = 2
    MaxEdits = 1
    MaxRefusals = 1
INVARIANTS
    ToolInv
    ReportsHonest
    EnderInv
    AlarmInv
PROPERTIES
    SentIfConfirmed
    ImplementsToolJob
    EnderKept
    AlarmShows
CHECK_DEADLOCK FALSE
