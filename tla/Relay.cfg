SPECIFICATION FairSpec
CONSTANTS
    Size = 2
    MaxBytes = 3
    MaxEarly = 1
INVARIANTS
    StreamsAreSound
    NoDeadDirection
PROPERTIES
    ImplementsChannels
    Delivery
    RelayEnds
