\* Every command, one update, one crash, one pid used again; two processes at a time.
CONSTANTS
    Pids <- MCPids
    Dead = Dead
    None = None
    Empty = Empty
    Ops = {"start", "stop", "restart", "update", "install", "uninstall"}
    Triages = FALSE
    MaxVersion = 1
    MaxFaults = 1
    MaxReuses = 1
SPECIFICATION Spec
INVARIANTS
    TypeOK
    PollingIsReachable
    UpdateTakesEffect
    StopLeavesNobody
