SPECIFICATION CertSpec
CONSTANTS
    Lifetime = 6
    Window = 2
    MaxTime = 9
    MaxFaults = 3
CHECK_DEADLOCK FALSE
INVARIANTS
    CertTypeOK
    ServedIsValid
    RestartKeepsCertificate
    AccountMatches
