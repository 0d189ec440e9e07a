CONSTANTS
    Cells = {c1, c2, c3}
    Data = {x, y, z}
    Keys = {1, 2, 3}
    Heads = {0, 1}
    HashOf <- Parity
    IntRange = 4
    SetsFresh = TRUE
    HeadNode = HeadNode
    TailNode = TailNode
    Null = Null
SPECIFICATION Spec
INVARIANTS WellFormed
PROPERTIES
    ListIsDeque
    TablesHold
SYMMETRY Symmetry
