\* Two issues, one of them new or both handled, and manual runs of one of them.
CONSTANTS
    Items = {i1, i2}
    ProbeOn = TRUE
    Manual = TRUE
    MaxTime = 4
    MaxRecs = 2
    Decisions = {"comment", "close"}
SPECIFICATION LiveSpec
ACTION_CONSTRAINT OneScenario
PROPERTY
    ActivityIsSeen
