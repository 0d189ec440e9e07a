CONSTANTS
    wl1 = wl1
    Default = Default
    Bufmgr = Bufmgr
    Threads = {t1}
    Displays = {d1, d2}
    Handles = {wl1, Default, Bufmgr}
    BackendCount = 2
    TbmKinds = {1}
    Chosen <- Choice
    Guarded = {wl1}
    OwnersOnly = TRUE
    MaxClaims = 2
    MayFail = FALSE
    NoDisplay = NoDisplay
SPECIFICATION Spec
PROPERTY DefaultDisplayReturned
