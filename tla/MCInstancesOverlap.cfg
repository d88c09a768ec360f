CONSTANTS
    Thread = {t1, t2}
    Instance = {o1, o2}
    NoInstance = NoInstance
    MaxHandle = 2
    Options <- TracedOptions
    Faults <- NoFaults
    TracedOverlap = TRUE
SPECIFICATION InstancesSpec
INVARIANTS
    TracerRestored
