\* Two starts, one after the other.
CONSTANTS
    Pids <- MCPids
    Dead = Dead
    None = None
    Empty = Empty
    Ops = {"start"}
    Triages = FALSE
    MaxVersion = 0
    MaxFaults = 0
    MaxReuses = 0
SPECIFICATION Spec
INVARIANTS
    OneDaemonPolls
