SPECIFICATION NetworkSpec
CONSTANTS
    Operations = {"ping a", "mdns"}
    MaxOperations = 3
    MaxVisits = 3
    Probes = 2
    ProbeTime = 2
    RunTime = 3
    PauseTime = 1
    MaxRuns = 2
    MaxCopies = 2
INVARIANTS NetIInv ResultIsNewest PingInv
PROPERTIES CompletionShown AnsweredInTheEnd
CHECK_DEADLOCK FALSE
