CONSTANTS
    t1 = t1
    t2 = t2
    d1 = d1
    AppThreads = {t1}
    Dispatchers = {}
    Runs <- Solo
    Buffers = {b1, b2, b3, b4, b5}
    QueueSize = 3
    MaxHeld = 1
    Faults = {}
    EarlyRelease = TRUE
    NoThread = NoThread
    NoBuffer = NoBuffer
SPECIFICATION Spec
INVARIANTS
    TypeOK
    RefCountBalanced
    NoSlotLost
    StaleMeansInvalid
    ResizeNotLost
    FiniLeavesNothing
PROPERTIES
    OneCommitPerVblank
SYMMETRY Symmetry
