SPECIFICATION MCSpec
CHECK_DEADLOCK FALSE
CONSTANTS
    Tasks = {t1, t2}
    Redeemers = {g1, g2}
    Requests <- ServerRequests
    ActionOf <- MCActionOf
    Manifests <- MCManifests
    Remits <- MCRemits
    Rules <- MCRules
    DetectorFaults <- MCDetectorFaults
    Contents <- MCContents
    Approvers <- MCApprovers
    Config <- MCConfig
    Opening <- MCOpening
    Backends = {"model", "mail"}
    MaxDecides = 2
    MaxPresents = 2
    MaxRestarts = 1
    MaxClock = 1
    Events = {e1, e2}
    MaxRecords = 3
    MaxCheckpoints = 2
    MaxStops = 2
INVARIANT ApprovalSpentOnce ExecutionsAreDecided BudgetOverrunBounded SingleUsePerLife
    NothingSilentlyLost CleanLogVerifies
SYMMETRY Symmetry
