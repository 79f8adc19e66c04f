CONSTANTS
    maint = maint
    contr = contr
    Items = {maint, contr}
    Contributors = {contr}
    Plan <- MCPlan
    Edits = {"close", "fix"}
    None = None
    MaxRecs <- MCMaxRecs
    MaxJobs = 1
    MaxKeys = 2
    FaultKinds = {"github", "db", "quit", "elsewhere"}
SPECIFICATION FairSpec
INVARIANTS
    TypeOK
    ViewIsFiltered
    DecisionIsOnGitHub
    EffectsAreOnRecord
    ApprovedFixHasJob
PROPERTIES
    CursorKeepsItsRecommendation
    ViewConverges
