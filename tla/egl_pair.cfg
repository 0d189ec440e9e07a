CONSTANTS
    t1 = t1
    t2 = t2
    d1 = d1
    AppThreads = {t1, t2}
    Dispatchers = {}
    Runs <- Pair
    Buffers = {b1, b2, b3}
    QueueSize = 2
    MaxHeld = 2
    Faults = {"connection", "wl_buffer", "vblank"}
    EarlyRelease = FALSE
    NoThread = NoThread
    NoBuffer = NoBuffer
SPECIFICATION Spec
INVARIANTS
    RefCountBalanced
    AcquiresOwnFrame
SYMMETRY Symmetry
