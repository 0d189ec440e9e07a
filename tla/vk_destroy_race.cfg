CONSTANTS
    Renderers = {t1}
    Posters = {t2}
    Impatient = {t1}
    Buffers = {b1, b2, b3}
    MaxCommits = 2
    BufferCount = 2
    MaxHeld = 2
    Calls = {"destroy"}
    Rules = {}
    Faults = {}
    OtherDispatch = FALSE
    NoThread = NoThread
    NoBuffer = NoBuffer
SPECIFICATION Spec
INVARIANTS
    DrawDoneValid
CHECK_DEADLOCK FALSE
