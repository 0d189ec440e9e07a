CONSTANTS
    wl1 = wl1
    Default = Default
    Bufmgr = Bufmgr
    Threads = {t1, t2}
    Displays = {d1, d2}
    Handles = {wl1, Default, Bufmgr}
    BackendCount = 2
    TbmKinds = {1}
    Chosen <- Choice
    Guarded = {wl1}
    OwnersOnly = TRUE
    MaxClaims = 2
    MayFail = TRUE
    NoDisplay = NoDisplay
SPECIFICATION Spec
INVARIANTS
    TypeOK
    NoUseAfterFree
    ListedIsAlive
    KeptRegistered
PROPERTY NoResurrection
SYMMETRY Symmetry
