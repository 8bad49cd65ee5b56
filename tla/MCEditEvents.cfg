SPECIFICATION Spec
CONSTANTS
    a = a
    b = b
    empty = empty
    v1 = v1
    v2 = v2
    v3 = v3
    File = {f1}
    Editor = {e1}
    Text <- MCText
    Empty = empty
    NoText = NoText
    NoDriver = NoDriver
    NoResponse = NoResponse
    maxStates = 2
    eventPoolSize = 2
    Event <- MCEvent
    MaxCalls = 1
    Faults = {"abort", "panic", "reset", "minute"}
SYMMETRY Symmetry
INVARIANTS KeyedByContent SyncedUnlessResend
PROPERTIES EventsBoundDrivers
CHECK_DEADLOCK FALSE
