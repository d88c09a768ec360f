CONSTANTS
    Thread = {t1}
    Instance = {o1}
    MaxHandle = 1
    Faults <- NoFaults
    Call = {c1}
    Request <- GoodRequest
    Stream = {s1}
    MaxMsgs = 2
    Window = 1
    NoInstance = NoInstance
    Options <- MCOptions
    TracedOverlap = FALSE
SPECIFICATION LibraryFairSpec
PROPERTIES
    DisposeReturns
