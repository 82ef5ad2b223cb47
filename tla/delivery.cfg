SPECIFICATION Spec
CONSTANTS
    NoOne = NoOne
    Workers = {w1, w2}
    Operators = {}
    Reviewers = {r1}
    MaxCalls = 3
    MaxReceive = 2
    MaxSends = 2
    MaxFaults = 2
    FaultKinds = {"crash", "lease", "shutdown", "timeout", "db", "send", "put", "uncited"}
    MaxEdits = 1
    EditCost = 1
    MaxRequests = 1
SYMMETRY WorkerSymmetry
INVARIANTS OneExecutor ResumeMatchesTrail NoOrphan
PROPERTIES AckMeansOutcome NeverRestarted
\* One job ends, or waits for a reviewer who never comes: the system may stop.
CHECK_DEADLOCK FALSE
