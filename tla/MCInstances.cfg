CONSTANTS
    Thread = {t1, t2}
    Instance = {o1, o2}
    NoInstance = NoInstance
    MaxHandle = 2
    Options <- MCOptions
    Faults <- AllFaults
    TracedOverlap = FALSE
SPECIFICATION InstancesFairSpec
INVARIANTS
    InstancesTypeOK
    RegistryConsistent
    SoleOwner
    RegisteredIsReady
    DisposedLeavesOnlyPort
    FailedStartStops
    TracerRestored
    LiveTracerUsable
    StaleSocketHarmless
PROPERTIES
    RetiredStaysRetired
    CallsReturn
    MetricsPortReleased
