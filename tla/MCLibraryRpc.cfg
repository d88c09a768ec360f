CONSTANTS
    Thread = {t1, t2}
    Instance = {o1, o2}
    MaxHandle = 2
    Faults <- NoFaults
    Call = {c1, c2}
    Request <- GoodRequest
    Stream = {}
    MaxMsgs = 0
    Window = 1
    NoInstance = NoInstance
    Options <- MCOptions
    TracedOverlap = FALSE
SPECIFICATION Spec
INVARIANTS
    CallsReachTheirInstance
    OutcomeSound
PROPERTIES
    ImplementsService
SYMMETRY Symmetry
