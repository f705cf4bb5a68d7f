SPECIFICATION HandlersSpec
CONSTANTS
    Id = {i1, i2}
    Host = {h1, h2}
    Sub <- AllKeys
    Payload <- AllData
    Cid = {c1}
    CName = {n1}
    Containers = {}
    Target = {t1}
    Proc = {p1}
    MaxOrder = 2
    Starts = {TRUE}
    MaxRecords = 4
    MaxFailures = 0
    MaxToggles = 0
    Kinds = {"create", "update"}
    Modes = {"A"}
    FreeHostsOnly = FALSE
    OneWriter = TRUE
    NoId = NoId
    NoCid = NoCid
    NoName = NoName
    NoService = NoService
    NoHost = NoHost
    NoRec = NoRec
    NoJob = NoJob
    NoEntry = NoEntry
    Nobody = Nobody
SYMMETRY Interchangeable
INVARIANTS
    IndexComplete
CHECK_DEADLOCK FALSE
