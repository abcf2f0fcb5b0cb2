CONSTANTS
    ITEMS_MAX_SIZE = 5
    Initial = 5
    Numbers <- MCNumbers
    Conns = {c1, c2, c3}
    Passive = passive
    None = None
    CopyInterests <- MCCopyInterests
    MaxReported = 4
SPECIFICATION Spec
SYMMETRY Symmetry
INVARIANT CopyIsConnected
