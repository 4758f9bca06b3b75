SPECIFICATION MCSpec
CONSTANTS
    Sessions = {"s1"}
    Policies <- MCPolicies
    Owner <- MCOwner
    Flows <- MCFlows
    AddressOf <- MCAddressOf
    Snapshots <- MCSnapshots
    Limits <- MCLimits
    SessionEnvelopes <- MCSessionEnvelopes
    Lease = 2
    ReuseMargin = 1
    MaxEvidenceAge = 0
    Keys = {1, 2}
    MaxGeneration = 2
    MaxTime = 1
    MaxFaults = 1
INVARIANTS ReadyMeansRecentlyRunning FlowParity
PROPERTIES EnforcedWasCommitted PublishedIsEnforced
CHECK_DEADLOCK FALSE
