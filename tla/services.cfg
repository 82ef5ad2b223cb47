SPECIFICATION FairSpec
CONSTANTS
    \* the pool
    Pages = 3
    Concurrency = 2
    CallLimit = 8
    UsedBefore = 3
    ValidationAttempts = 2
    RateBackoff <- OneRetry
    TransportBackoff <- NoRetry
    LimiterBackoff <- NoRetry
    Headers <- HeadersMet
    FindingsBefore = 2
    MaxFindings = 1
    \* the tools
    ToolCallers = {"researcher", "checker"}
    Url = {"home", "report", "private"}
    Refusable = {"private"}
    Disallowed = {"report"}
    MaxRedirects = 1
    FetchBackoff <- FetchSchedule
    SearchBackoff <- SearchSchedule
    MaxRaw = 2
    MaxCalls = 2
    \* the visit
    SourceUrl <- Urls
    Lands <- OneRedirect
    Subtopics = 1
    PagesPerVisit = 2
    MaxCandidates = 3
    MaxFaults = 1
    MaxCrashes = 1
    MaxReopens = 1
    \* the bucket
    Callers <- TwoWorkers
    Ahead <- OneAhead
    Spread = 1
    Window = 4
    Limit = 2
    MaxDelay = 1
    MaxTime = 8
    MaxTokens = 4
    \* the lease
    Timeout = 12
    Envelope = 2
    MaxLate = 2
    MaxClock = 26
    \* the rubric
    Threshold = 350
    \* the signing keys
    KeyId = {"k1", "k2"}
    FirstKeys = {"k1"}
    Requests = {"r1", "r2"}
    KeyTtl = 2
    Cooldown = 1
    KeyTimeout = 1
    MaxKeyTime = 3
    MaxRotations = 1
    \* the evaluation
    Benchmarked <- Rows
    Rewritten <- Outputs
INVARIANTS
    TypeOK
    RequestsArePaidFor
    NumberedInPageOrder
    WaitIsBounded
    GivenWasServed
    OneBadResultCostsItself
    RepeatsArePaidFor
    OverGrantIsBounded
    ClaimIsSound
    LossClosesAdmission
    RepairsTheWorst
    KeyIsRecent
    GateIsExact
PROPERTIES
    SpendIsAtomic
    PoolJoins
    MarginKept
\* Each part comes to an end within its bounds.
CHECK_DEADLOCK FALSE
