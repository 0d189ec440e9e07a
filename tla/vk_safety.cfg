CONSTANTS
    Renderers = {t1}
    Posters = {t2}
    Impatient = {t1}
    Buffers = {b1, b2}
    MaxCommits = 2
    BufferCount = 2
    MaxHeld = 2
    Calls = {"get", "destroy"}
    Rules = {"imagesFirst", "idleDestroy"}
    Faults = {"epoll", "wl_buffer", "fence"}
    OtherDispatch = TRUE
    NoThread = NoThread
    NoBuffer = NoBuffer
SPECIFICATION Spec
INVARIANTS
    TypeOK
    RefsExact
    FenceCovers
    EachImageOnce
    WorkerTouchesLive
PROPERTIES
    ImplementsFrameOrder
SYMMETRY Symmetry
CHECK_DEADLOCK FALSE
