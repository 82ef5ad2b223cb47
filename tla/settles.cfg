SPECIFICATION FairSpec
CONSTANTS
    NoOne = NoOne
    Workers = {w1}
    Operators = {o1}
    Reviewers = {}
    MaxCalls = 2
    MaxReceive = 2
    MaxSends = 3
    MaxFaults = 2
    FaultKinds = {"crash", "lease", "pause", "shutdown", "timeout", "db", "send", "put", "uncited"}
    MaxEdits = 1
    EditCost = 1
    MaxRequests = 0
PROPERTIES Settles QueueDrains
\* One job ends, or waits for a reviewer who never comes: the system may stop.
CHECK_DEADLOCK FALSE
