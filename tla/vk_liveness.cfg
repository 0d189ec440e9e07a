CONSTANTS
    Renderers = {t1}
    Posters = {t2}
    Impatient = {}
    Buffers = {b1, b2}
    BufferCount = 2
    MaxHeld = 1
    MaxCommits = 1
    Calls = {"get"}
    Rules = {"imagesFirst"}
    Faults = {}
    OtherDispatch = FALSE
    NoThread = NoThread
    NoBuffer = NoBuffer
SPECIFICATION FairSpec
PROPERTIES
    CommitsFinished
    CallsReturn
    FramesPresented
