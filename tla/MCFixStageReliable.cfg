\* Nothing goes wrong but the work itself: every way to create a PR, with a
\* maintainer item and a contributor item.
CONSTANTS
    i1 = i1
    i2 = i2
    Items <- MCItems
    NoItem = NoItem
    MaxJobs = 3
    ContribItems = {i2}
    PRCreate = {"auto", "gh", "no-mistakes", "disabled"}
    ContribPush = {"auto", "no-mistakes"}
    Tools = {"gh", "no-mistakes"}
    LostWrites = FALSE
    LateErrors = FALSE
    MaxCrashes = 0
SPECIFICATION Spec
INVARIANTS
    OneActiveJobPerItem
    RunnerOwnsRow
    FailedLeavesNoPR
    SucceededHasEffect
PROPERTY
    ImplementsLifecycle
