SPECIFICATION MCSpec
CONSTANTS
    File = {"f1", "f2"}
    Indexed <- MCIndexed
    Goroutine = {"g1"}
    Poller = "poller"
    None = None
    maxLoadedArtifacts = 1
    MaxLoads = 2
    MaxFaults = 2
    MaxTime = 3
INVARIANTS HeldIsAlive CleanedOnce
PROPERTIES ObjectsGoOneWay FilesAreServed
CHECK_DEADLOCK FALSE
