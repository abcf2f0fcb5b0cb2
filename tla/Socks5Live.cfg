SPECIFICATION FairSpec
CONSTANTS
    Conn = {c1, c2}
    Fd = {f1, f2}
    NoConn = NoConn
    NoFd = NoFd
    PoolMax = 1
    MaxAddrs = 1
PROPERTIES
    ResolutionEnds
    ForcedExit
