SPECIFICATION HandlersSpec
CONSTANTS
    Id = {i1, i2}
    Host = {h1, h2}
    Sub <- AllKeys
    Payload <- AllData
    Cid = {c1}
    CName = {n1}
    Containers = {}
    Target = {t1}
    Proc = {p1, p2}
    MaxOrder = 2
    Starts = {TRUE, FALSE}
    MaxRecords = 3
    MaxFailures = 2
    MaxToggles = 2
    Kinds = {"create", "update", "delete"}
    Modes = {"A", "tunnel"}
    FreeHostsOnly = TRUE
    OneWriter = TRUE
    NoId = NoId
    NoCid = NoCid
    NoName = NoName
    NoService = NoService
    NoHost = NoHost
    NoRec = NoRec
    NoJob = NoJob
    NoEntry = NoEntry
    Nobody = Nobody
SYMMETRY Interchangeable
INVARIANTS
    LeaksBounded
    IngressIsCurrent
PROPERTIES
    RecordsAreNotTaken
CHECK_DEADLOCK FALSE
