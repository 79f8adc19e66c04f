\* A contributor item whose row the sweep may prune before its job runs.
CONSTANTS
    i1 = i1
    i2 = i2
    Items <- MCItems
    NoItem = NoItem
    MaxJobs = 1
    ContribItems = {i2}
    PRCreate = {"auto"}
    ContribPush = {"auto", "no-mistakes", "disabled"}
    Tools = {"gh", "no-mistakes"}
    LostWrites = FALSE
    LateErrors = FALSE
    MaxCrashes = 0
SPECIFICATION Spec
INVARIANT
    ContributorFixOpensNoPR
