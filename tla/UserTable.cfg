SPECIFICATION TableSpec
CONSTANTS
    MaxUsers = 3
    Names = {alice, bob, carol}
    Passwords = {p1, p2}
    NoUser = NoUser
    CommandLines <- Distinct
INVARIANTS
    NamesAreUnique
PROPERTIES
    DeletedIsGone
    ImplementsSet
