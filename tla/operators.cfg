SPECIFICATION Spec
CONSTANTS
    NoOne = NoOne
    Workers = {w1}
    Operators = {o1}
    Reviewers = {r1}
    MaxCalls = 2
    MaxReceive = 1
    MaxSends = 3
    MaxFaults = 1
    FaultKinds = {"crash", "lease", "pause", "shutdown", "timeout", "db", "send", "put", "uncited"}
    MaxEdits = 1
    EditCost = 1
    MaxRequests = 1
INVARIANTS TypeOK ExportedMeansWritten NoOrphan
PROPERTIES KeepsTheContract FinishedStaysFinished SpendsNothingWhenFinished
\* One job ends, or waits for a reviewer who never comes: the system may stop.
CHECK_DEADLOCK FALSE
