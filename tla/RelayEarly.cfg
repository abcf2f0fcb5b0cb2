SPECIFICATION FairSpec
CONSTANTS
    Size = 2
    MaxBytes = 2
    MaxEarly = 1
PROPERTIES
    PendingIsWritten
