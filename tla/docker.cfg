SPECIFICATION DockerSpec
CONSTANTS
    c1 = c1
    c2 = c2
    c3 = c3
    plex = plex
    wiki = wiki
    notes = notes
    lantern = lantern
    sPlex = sPlex
    sWiki = sWiki
    Id = {i1, i2}
    Sub = {sPlex, sWiki}
    Cid = {c1, c2, c3}
    CName = {plex, wiki, notes, lantern}
    Did = {d1, d2, d3, d4}
    Addr = {80, 7000, NoAddr}
    Info = {info}
    User = {u1, u2}
    Payload <- MCPayload
    Labels <- MCLabels
    MaxOrder = 0
    MaxOps = 3
    MaxFaults = 1
    MaxRequests = 2
    MaxAll = 5
    NoId = NoId
    NoCid = NoCid
    NoName = NoName
    NoService = NoService
    NoDid = NoDid
    NoEntry = NoEntry
    NoAddr = NoAddr
    NoSub = NoSub
    Self = lantern
CHECK_DEADLOCK FALSE
INVARIANTS
    DockerTypeOK
    IndexSound
    ListsExact
    DeadAreDetached
PROPERTIES
    RestartFindsItsService
    StartIsPlaced
