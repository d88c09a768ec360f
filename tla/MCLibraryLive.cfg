CONSTANTS
    Thread = {t1, t2}
    Instance = {o1}
    MaxHandle = 1
    Faults <- RunFault
    Call = {c1}
    Request <- AnyRequest
    Stream = {s1}
    MaxMsgs = 2
    Window = 1
    NoInstance = NoInstance
    Options <- MCOptions
    TracedOverlap = FALSE
SPECIFICATION FairSpec
INVARIANTS
    NoWorkAfterDispose
    CleanEndIsComplete
    Backpressure
PROPERTIES
    DisposeReturns
    BackendStreamReleased
    ImplementsFairService
