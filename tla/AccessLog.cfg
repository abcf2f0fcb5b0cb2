CONSTANTS
    LOG_RECENT_MAX = 3
    LOG_LINE_MAX = 512
    Names <- MCNames
    Targets <- MCTargets
    MaxLines = 6
SPECIFICATION Spec
INVARIANTS
    FileEndsWithRecent
PROPERTIES
    ImplementsRecentLog
