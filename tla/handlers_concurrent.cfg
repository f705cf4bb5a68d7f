SPECIFICATION HandlersSpec
CONSTANTS
    Id = {i1, i2}
    Host = {h1, h2}
    Sub <- AllKeys
    Payload <- AllData
    Cid = {c1}
    CName = {n1}
    Containers <- OneContainer
    Target = {t1, t2}
    Proc = {p1, p2}
    MaxOrder = 2
    Starts = {TRUE}
    MaxRecords = 4
    MaxFailures = 0
    MaxToggles = 0
    Kinds = {"create", "update", "delete", "icon"}
    Modes = {"direct", "A", "tunnel"}
    FreeHostsOnly = TRUE
    OneWriter = TRUE
    NoId = NoId
    NoCid = NoCid
    NoName = NoName
    NoService = NoService
    NoHost = NoHost
    NoRec = NoRec
    NoJob = NoJob
    NoEntry = NoEntry
    Nobody = Nobody
SYMMETRY Interchangeable
INVARIANTS
    HandlersTypeOK
    ZoneMatchesStore
    IndexComplete
CHECK_DEADLOCK FALSE
