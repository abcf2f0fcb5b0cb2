SPECIFICATION Spec
CONSTANTS
    Conn = {c1, c2}
    Fd = {f1, f2, f3, f4}
    NoConn = NoConn
    NoFd = NoFd
    PoolMax = 1
    MaxAddrs = 2
SYMMETRY Symmetry
INVARIANTS
    StructuresAreSound
    HandOverIsSafe
    InterestsFitState
    EveryAddressTried
PROPERTIES
    ImplementsService
