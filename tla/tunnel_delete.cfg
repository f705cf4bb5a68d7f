SPECIFICATION FairSpec
CONSTANTS
    Req = {r1}
    Main = main
    Adopted = adopted
    NoTunnel = NoTunnel
    NoCmd = NoCmd
    NoCtx = NoCtx
    MaxTunnels = 1
    MaxStarts = 1
    MaxLaunches = 1
    MaxExits = 0
    MaxFailures = 0
    MaxRestarts = 0
PROPERTIES
    DeleteEnds
CHECK_DEADLOCK FALSE
