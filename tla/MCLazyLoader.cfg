SPECIFICATION FairSpec
CONSTANTS
    Reader <- MCReader
    Unloader <- MCUnloader
INVARIANTS HolderHasData LoadIsExclusive
PROPERTIES LoaderIsShared UnloadIsNotStarved
