\* One issue; the daemon, manual runs and an inbox write at the same time.
CONSTANTS
    Items = {i1}
    ProbeOn = TRUE
    Manual = TRUE
    MaxTime = 1
    MaxRecs = 3
    Decisions = {"dismiss"}
SPECIFICATION Spec
INVARIANTS
    TypeOK
    OneLiveRecommendation
PROPERTY
    NewerResultsStay
