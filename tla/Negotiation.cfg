SPECIFICATION FairSpec
CONSTANTS
    Size = 6
    MaxUsers = 1
    Names <- AName
    Passwords <- APassword
    CommandLines <- MaybeOne
    NoUser = NoUser
    Clients <- BothKinds
INVARIANTS
    MessagesAreWhole
    OnlyUsersAreServed
    NothingLeftBehind
PROPERTIES
    Negotiated
