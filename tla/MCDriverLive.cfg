SPECIFICATION FairSpec
CONSTANTS
    b1 = b1  b2 = b2  b3 = b3
    attr = attr  model = model  emptycalls = emptycalls  lexical = lexical
    q1 = q1  q2 = q2  q3 = q3
    Background = Background  NoRequest = NoRequest
    EmptyBuffer = b1
    Buf = {b1, b2}
    allProviders = {attr}
    speculationProviders = {attr}
    zeroDepthProviders = {}
    chainedProviders = {attr}
    blockingProviders = {attr}
    lexicalProviders = {}
    depthLimit = 2
    Score = {0, 1, 2, 3}
    One = 3
    tolerance = 1
    product <- Thirds
    Completion <- PairCompletion
    Carries <- PairCarries
    Emits <- PairAttrEmits
    Request = {q1, q2}
    Events = {"notApplicable", "gc", "panic", "reset"}
CHECK_DEADLOCK FALSE
PROPERTIES UpdateIsAnswered ResetEnds
