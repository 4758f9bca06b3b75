SPECIFICATION Spec
CONSTANTS
    s1 = s1
    Sessions = {s1}
    Asks <- LoadedAsks
    Callers = {p1}
    Responders = {o1, o2}
    ApprovalIds = {r1}
    MaxTime = 0
    ApprovalTtl = 1
    MaxLeaseTtl = 1
    MaxLeaseUses = 2
    FatigueWindow = 1
    FatigueThreshold = 2
    Granularity = 1
    Tolerance = 0
    NoOne = NoOne
INVARIANTS
    ContainedHoldsNoLease
PROPERTIES
    ContainedSpendsNothing
    ContainmentSticks
    ImplementsHumanAuthority
