CONSTANTS
    Buffers = {b1, b2, b3}
    QueueSize = 2
    Lengths = {1, 2}
    Rotations = {0, 90, 180}
    OldRotations = {0}
    Rules = {"settled", "quiet flush", "front kept", "hooked rotation", "live window"}
    MaxLost = 1
    NoBuffer = NoBuffer
SPECIFICATION Spec
INVARIANTS
    TypeOK
    RefsExact
    DrawsOnLive
PROPERTIES
    BufferFitsWindow
SYMMETRY Symmetry
