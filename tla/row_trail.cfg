SPECIFICATION Spec
CONSTANTS
    NoOne = NoOne
    Workers = {w1}
    Operators = {}
    Reviewers = {r1}
    MaxCalls = 3
    MaxReceive = 2
    MaxSends = 2
    MaxFaults = 1
    FaultKinds = {"timeout"}
    MaxEdits = 1
    EditCost = 1
    MaxRequests = 2
INVARIANTS RowMatchesTrail
\* One job ends, or waits for a reviewer who never comes: the system may stop.
CHECK_DEADLOCK FALSE
