CONSTANTS
    Threads = {h1, h2}
    Lang = {"python"}
    ManyThreads = {"python"}
    MaxObjects = 3
    MaxCalls = 4
SPECIFICATION LoadingSpec
INVARIANTS
    CallsAreTyped
CHECK_DEADLOCK FALSE
