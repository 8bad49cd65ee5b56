SPECIFICATION Spec
CONSTANTS
    Request = {q1, q2, q3}
    Key = {k1, k2, k3}
    cloudTTL = 1
    unloadInterval = 2
    MaxTime = 4
SYMMETRY Symmetry
INVARIANTS CacheIsBounded CachedIsLive NoDriverLeaks
PROPERTIES PurgeIsComplete
