\* A managed daemon and one started by hand, crashes, stops and a pid used again; or the
\* checkout, used by daemons and a triage, one of which may die there.
CONSTANTS
    Pids <- MCPids
    Dead = Dead
    None = None
    Empty = Empty
    Ops = {"start", "stop", "install"}
    Triages = TRUE
    MaxVersion = 0
    MaxFaults = 1
    MaxReuses = 1
SPECIFICATION FairSpec
ACTION_CONSTRAINT CheckoutAlone

    
PROPERTIES
    StopEndsDaemon
    ServiceKeepsDaemonUp
    DeadOwnerBlocksNobody
