SPECIFICATION MqttSpec
CONSTANTS
    LogLimit = 1
    MaxSessions = 1
    MaxActions = 0
    MaxEntries = 1
INVARIANTS HistoryNotReleased
CHECK_DEADLOCK FALSE
