CONSTANTS
    t1 = t1
    t2 = t2
    d1 = d1
    AppThreads = {t1}
    Dispatchers = {d1}
    Runs <- Shared
    Buffers = {b1, b2, b3}
    QueueSize = 2
    MaxHeld = 1
    Faults = {}
    EarlyRelease = FALSE
    NoThread = NoThread
    NoBuffer = NoBuffer
SPECIFICATION FairSpec
INVARIANTS
    TrackedUntilReleased
    NoUseAfterDestroy
PROPERTIES
    ImplementsBufferFlow
    CallsReturn
