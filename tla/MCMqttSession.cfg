SPECIFICATION MqttSpec
CONSTANTS
    LogLimit = 1
    MaxSessions = 2
    MaxActions = 1
    MaxEntries = 2
INVARIANTS
    MqttInv
PROPERTIES NewerStatusSurvives
CHECK_DEADLOCK FALSE
