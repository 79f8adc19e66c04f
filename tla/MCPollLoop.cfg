\* One recommendation, one job, one failure or restart, and a buffer of one.
CONSTANTS
    Recs = {r1}
    Static = {}
    Dynamic = {d}
    None = None
    MaxJobs = 1
    MaxItems = 1
    BufCap = 1
    MaxFaults = 1
SPECIFICATION FairSpec
INVARIANTS
    TypeOK
    ProgressIsConsistent
    WakeReachesFixStage
    NewsIsUnderWay
PROPERTIES
    JobIsRun
    InboxComesUpToDate
    EveryRepoIsSynced
