SPECIFICATION LockSpec
CONSTANTS
    b1 = b1  b2 = b2  b3 = b3
    attr = attr  model = model  emptycalls = emptycalls  lexical = lexical
    q1 = q1  q2 = q2  q3 = q3
    Background = Background  NoRequest = NoRequest
    EmptyBuffer = b1
    Buf = {b1, b2, b3}
    allProviders = {attr, emptycalls}
    speculationProviders = {attr, emptycalls}
    zeroDepthProviders = {emptycalls}
    chainedProviders = {attr, emptycalls}
    blockingProviders = {}
    lexicalProviders = {}
    depthLimit = 1
    Score = {0, 1, 2, 3}
    One = 3
    tolerance = 1
    product <- Thirds
    Completion <- CycleCompletion
    Carries <- CycleCarries
    Emits <- CycleEmits
    Request = {q1, q2}
    Events = {"gc"}
CHECK_DEADLOCK FALSE
INVARIANTS TypeOK DepthIsShortest GreatestScoreIsChosen
PROPERTIES LockIsReleased
