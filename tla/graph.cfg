CONSTANTS
    Threshold = 350
    MinSubtopics = 1
    MaxSubtopics = 2
    MaxHops = 8
    MaxCalls = 17
    MaxRevisions = 2
    EditCost = 3
    Attempts = 2
    PagesPerVisit = 2
    MaxClaims = 2
    Rubrics <- RubricsMC
SPECIFICATION FairSpec
INVARIANT TypeOK
INVARIANT NothingUnverified
INVARIANT NoWiringBug
INVARIANT VisitsAdvance
INVARIANT FlagIsOfThisDraft
INVARIANT HopsAreEarned
PROPERTY EditReturns
PROPERTY EvidenceExhausted
PROPERTY ReachesGateOrEnd
CHECK_DEADLOCK FALSE
