SPECIFICATION Spec
CHECK_DEADLOCK FALSE
CONSTANTS
    Proxies = {p1}
    Hashes = {h1, h2}
    Tools = {"fetch"}
    OperatorManifests <- MCOperatorManifests
    Listings <- MCListings
    Calls <- MCCalls
    Resources <- MCResources
    Profile = "developer-standard"
    MaxExtracted = 2
    MaxPendingLists = 1
    RequestIds = {1}
    LeaseTtl = 1
    LeaseUses = 2
    MaxTime = 1
    MaxGrants = 1
SYMMETRY Interchangeable
INVARIANTS RefusalsAreFree WireGrantsNothing
PROPERTIES BaselineOnlyNarrows
