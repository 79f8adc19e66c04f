\* Two maintainer items, two jobs, one crash, lost writes and late errors.
CONSTANTS
    i1 = i1
    i2 = i2
    Items <- MCItems
    NoItem = NoItem
    MaxJobs = 2
    ContribItems = {}
    PRCreate = {"auto"}
    ContribPush = {"no-mistakes"}
    Tools = {"gh", "no-mistakes"}
    LostWrites = TRUE
    LateErrors = TRUE
    MaxCrashes = 1
SPECIFICATION FairSpec
INVARIANTS
    TypeOK
    OneActiveJobPerItem
    RunnerOwnsRow
    SucceededHasEffect
PROPERTIES
    ImplementsLifecycle
    QueuedJobLeavesQueue
    MidAgentEnds
    LatePRIsRecorded
