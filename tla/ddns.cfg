SPECIFICATION DdnsSpec
CONSTANTS
    Domain = {d1, d2}
    IP = {ip1, ip2}
    NoIP = NoIP
    MaxChanges = 2
    MaxRequests = 2
    MaxMishaps = 2
CHECK_DEADLOCK FALSE
INVARIANTS
    DdnsTypeOK
    
PROPERTY AddressIsPublished
