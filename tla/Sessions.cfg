SPECIFICATION FairSpec
CONSTANTS
    Structs = {s1, s2, s3}
    Fds = {f1, f2}
    Null = Null
    MaxSessions = 2
    PoolMax = 1
    MaxAnswer = 2
    MaxConns = 1
INVARIANTS
    StructuresAreSound
    ShutdownIsClean
PROPERTIES
    SweepIsComplete
    ShutdownEnds
