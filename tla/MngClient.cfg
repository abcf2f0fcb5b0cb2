SPECIFICATION FairSpec
CONSTANTS
    MaxUsers = 1
    CommandLines <- NoUsers
    NoUser = NoUser
    Peers = {1, 2, 3}
    MaxSessions = 2
    ReadSize = 5
    AnswerSize = 258
    Admins <- Root
    Worlds <- TwoWorlds
    Casts <- MCCasts
INVARIANTS
    BuffersAreSound
    ExecutedAsSent
    OnlyAdmins
    AnswersArrive
    ShutdownQuiesces
    ReportIsTrue
PROPERTIES
    ImplementsCommands
    ClientsEnd
