SPECIFICATION MCSpec
CONSTANTS
    Dimensions = {"exfiltration", "process_anomaly", "capability_anomaly", "intent_execution_mismatch"}
    MCDimensions = {"exfiltration", "process_anomaly", "capability_anomaly"}
    Weights = {20, 40}
    AskedPaths <- MCPaths
    AskedExes <- MCExes
    Doings <- MCDoings
    Bypasses <- MCBypasses
    Refusals <- MCRefusals
    Inside = {"file"}
    ArchiveTools = {"tar"}
    SequenceWindow = 0
    FanOutWindow = 0
    FanOutThreshold = 2
    CollectionThreshold = 1
    LaunderingWindow = 1
    Workers = {w1, w2}
    MaxEvents = 3
    MaxNow = 1
    MaxJobs = 2
SYMMETRY MCSymmetry
INVARIANTS
    ProtectedIsNeverPermitted
    OneDetectionPerStory
    DeniedMeansTouched
PROPERTIES
    AuthorityOnlyShrinks
CHECK_DEADLOCK FALSE
