SPECIFICATION MCSpec
CONSTANTS
    s1 = s1
    s2 = s2
    p1 = p1
    p2 = p2
    p3 = p3
    Tokens = {p1, p2, p3}
    Sessions = {s1, s2}
    Envelopes <- MCEnvelopes
    Limits <- MCLimits
    Strangers = {"stranger"}
    Roots <- MCRoots
    Executables <- MCExecutables
    FilePaths = {"outside", "tool"}
    FileOperations = {"open"}
    OpenModes <- MCOpenModes
    MaxAttributions = 2
    MaxPeers = 1
    MaxOutstanding = 2
    MaxRequests = 3
    MaxMessages = 3
    MaxRestarts = 1
    MaxEffort = 5
    MaxTime = 1
SYMMETRY Symmetry
INVARIANT ManagedStaysConfined
CHECK_DEADLOCK FALSE
