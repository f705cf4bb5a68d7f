SPECIFICATION Spec
CONSTANTS
    Req = {r1}
    Main = main
    Adopted = adopted
    NoTunnel = NoTunnel
    NoCmd = NoCmd
    NoCtx = NoCtx
    MaxTunnels = 2
    MaxStarts = 2
    MaxLaunches = 3
    MaxExits = 1
    MaxFailures = 2
    MaxRestarts = 1
INVARIANTS
    TypeOK
    NoStrayProcess
    ClientKnowsTunnel
    TunnelLeaksBounded
CHECK_DEADLOCK FALSE
