\* A rerun while the daemon's agent is at work on the issue.
CONSTANTS
    Items = {i1}
    ProbeOn = FALSE
    Manual = TRUE
    MaxTime = 0
    MaxRecs = 2
    Decisions = {}
SPECIFICATION Spec
PROPERTY
    RerunReplaces
