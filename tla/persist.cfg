SPECIFICATION MCSpec
CONSTANTS
    Proc = {p1, p2}
    MaxChanges = 2
    MaxCrashes = 2
    MayFail = TRUE
    NoFile = NoFile
    Torn = Torn
    Nobody = Nobody
INVARIANTS
    TypeOK
    AlwaysStartable
    DiskIsAPastState
    SavedStaysUnlessOverlapped
PROPERTY SaveReturns
