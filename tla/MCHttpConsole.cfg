SPECIFICATION Spec
CONSTANTS
    Plain = {"http get", "http put"}
    Secure = {"https get"}
    ConfirmWindow = 1
    TickWidth = 4
    TimerGap = 2
    MaxRequests = 2
    MaxVisits = 2
INVARIANTS
    HttpInv
PROPERTIES ClearTextConfirmed
CHECK_DEADLOCK FALSE
