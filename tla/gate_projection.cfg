SPECIFICATION Spec
CONSTANTS
    NoOne = NoOne
    Workers = {w1}
    Operators = {}
    Reviewers = {}
    MaxCalls = 2
    MaxReceive = 2
    MaxSends = 2
    MaxFaults = 2
    FaultKinds = {"crash"}
    MaxEdits = 1
    EditCost = 1
    MaxRequests = 0
INVARIANTS GateProjection
\* One job ends, or waits for a reviewer who never comes: the system may stop.
CHECK_DEADLOCK FALSE
