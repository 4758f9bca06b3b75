SPECIFICATION Spec
CONSTANTS
    s1 = s1
    Sessions = {s1}
    Asks <- ConnectOnly
    Callers = {p1, p2}
    Responders = {}
    ApprovalIds = {r1, r2}
    MaxTime = 1
    ApprovalTtl = 1
    MaxLeaseTtl = 1
    MaxLeaseUses = 2
    FatigueWindow = 1
    FatigueThreshold = 2
    Granularity = 1
    Tolerance = 0
    NoOne = NoOne
SYMMETRY Symmetric
INVARIANTS
    LeaseLedger
    OneLiveRequest
PROPERTIES
    ExpiredBeforeAskNeverSpent
    RefusedIsNotAskedAgain
