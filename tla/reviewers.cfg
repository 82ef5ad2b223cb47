SPECIFICATION Spec
CONSTANTS
    NoOne = NoOne
    Workers = {w1}
    Operators = {}
    Reviewers = {r1, r2}
    MaxCalls = 2
    MaxReceive = 2
    MaxSends = 3
    MaxFaults = 1
    FaultKinds = {"crash", "pause", "timeout", "db"}
    MaxEdits = 1
    EditCost = 1
    MaxRequests = 3
SYMMETRY ReviewerSymmetry
INVARIANTS ApprovalIsHuman EditsFit
\* One job ends, or waits for a reviewer who never comes: the system may stop.
CHECK_DEADLOCK FALSE
