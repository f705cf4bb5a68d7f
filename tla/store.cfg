SPECIFICATION CarefulSpec
CONSTANTS
    Id = {i1, i2, i3}
    Sub = {s1, s2, s3}
    Cid = {c1, c2}
    CName = {n1}
    Payload = {data}
    MaxOrder = 1
    NoId = NoId
    NoCid = NoCid
    NoName = NoName
    NoService = NoService
INVARIANTS
    TypeOK
    IndexSound
    IndexComplete
PROPERTY ImplementsRegistry
