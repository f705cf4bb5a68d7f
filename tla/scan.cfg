SPECIFICATION ScanSpec
CONSTANTS
    Id = {i1}
    Sub = {s1}
    Cid = {c1}
    CName = {n1}
    Did = {d1, d2, d3, d4}
    Addr = {a1, a2}
    Info = {old, new}
    Payload = {a1, a2}
    MaxOrder = 0
    MaxScans = 2
    MaxRequests = 3
    NoId = NoId
    NoCid = NoCid
    NoName = NoName
    NoService = NoService
    NoDid = NoDid
    NoEntry = NoEntry
CHECK_DEADLOCK FALSE
INVARIANTS
    ScanTypeOK
    ListsExact
    FullScanRefreshes
    SettledIsNotOffered
PROPERTY ScanEnds
