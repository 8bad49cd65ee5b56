SPECIFICATION MCSpec
CONSTANTS
    Path <- MCPath
    Dir = {"d1", "d2"}
    DirOf <- MCDirOf
    Bundle <- MCBundle
    NoPath = NoPath
    NoArtifact = NoArtifact
    Saved = {"p2"}
    changeChanSize = 1
    MaxAsks = 3
    MaxWrites = 2
    Faults = {"fail", "watch", "drop", "reset"}
INVARIANTS WatchesMatch StaleIsPending
PROPERTIES AllHandled
CHECK_DEADLOCK FALSE
