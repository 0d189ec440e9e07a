CONSTANTS
    Renderers = {t1}
    Posters = {t2}
    Backends = {"gbm", "tbm", "tbm_vulkan"}
    Buffers = {b1, b2}
    QueueSize = 2
    MaxHeld = 2
    Rules = {"oneAtATime", "idleDestroy", "quietConsumer", "wholeFini"}
    NoThread = NoThread
    NoBuffer = NoBuffer
SPECIFICATION FairSpec
INVARIANTS
    TypeOK
    RefsExact
    EachFrameOnce
PROPERTIES
    ImplementsFrameOrder
    CallsReturn
    FramesReachConsumer
CHECK_DEADLOCK FALSE
