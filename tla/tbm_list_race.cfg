CONSTANTS
    Renderers = {t1}
    Posters = {t2}
    Backends = {"tbm_vulkan"}
    Buffers = {b1, b2}
    QueueSize = 2
    MaxHeld = 2
    Rules = {"idleDestroy", "quietConsumer", "wholeFini"}
    NoThread = NoThread
    NoBuffer = NoBuffer
SPECIFICATION Spec
INVARIANT PopHasNode
CHECK_DEADLOCK FALSE
