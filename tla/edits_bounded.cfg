SPECIFICATION Spec
CONSTANTS
    NoOne = NoOne
    Workers = {w1}
    Operators = {}
    Reviewers = {r1, r2}
    MaxCalls = 4
    MaxReceive = 2
    MaxSends = 4
    MaxFaults = 0
    FaultKinds = {}
    MaxEdits = 2
    EditCost = 1
    MaxRequests = 3
INVARIANTS EditsBounded
\* One job ends, or waits for a reviewer who never comes: the system may stop.
CHECK_DEADLOCK FALSE
