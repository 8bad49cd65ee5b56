SPECIFICATION Spec
CONSTANTS
    File = {"f1", "f2"}
    Indexed <- MCIndexed
    Goroutine = {"g1"}
    Poller = "poller"
    None = None
    maxLoadedArtifacts = 2
    MaxLoads = 2
    MaxFaults = 0
    MaxTime = 1
INVARIANTS ClosedIsClean
CHECK_DEADLOCK FALSE
