CONSTANTS
    Threshold = 350
    MinSubtopics = 1
    MaxSubtopics = 2
    MaxHops = 13
    MaxCalls = 12
    MaxRevisions = 2
    EditCost = 3
    Attempts = 1
    PagesPerVisit = 1
    MaxClaims = 1
    Rubrics <- RubricsMC
SPECIFICATION FairSpec
INVARIANT AcceptedEditFits
CHECK_DEADLOCK FALSE
