SPECIFICATION LocalSpec
CHECK_DEADLOCK FALSE
CONSTANTS
    Parts = {"log"}
    p1 = p1
    p2 = p2
    Processes <- MCProcesses
    OldVersions <- MCOldVersions
    MaxEvents = 3
    Workloads = {"run", "exec", "files"}
    Launchers = {l1, l2}
    Pids = {pid}
    Images = {i1, i2}
    Files = {"f", "g"}
    Contents = {"b"}
    Large = {"big"}
    Ops <- MCOps
    Starts <- MCStarts
    Selections = {{"f", "g"}, {"f"}}
    Writers = {w1, w2}
    MaxForeign = 1
SYMMETRY Interchangeable
INVARIANT CheckpointIsTheHead
