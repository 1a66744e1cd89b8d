SPECIFICATION BleSpec
CONSTANTS
    Services = 2
    Values = {1, 2}
    MaxLinks = 2
INVARIANTS BusyWhileLinked
CHECK_DEADLOCK FALSE
