CONSTANTS
    Conns = {c1, c2}
    Second = 2
    SELECTOR_TIMEOUT = 1
    SWEEP_INTERVAL = 2
    Timeouts <- MCTimeouts
    MaxNow = 10
SYMMETRY MCSymmetry
SPECIFICATION Spec
INVARIANTS
    IdleIsBounded
    ReactionIsBounded
PROPERTIES
    NotTooEarly
    ResultsAtOnce
